---------------------------- MODULE TwinStreams ----------------------------
(***************************************************************************)
(* The node's stream of twin events and those who watch it: the broadcast  *)
(* channel of events.rs, the WebSocket of ws.rs, the two SSE handlers of   *)
(* node.rs, and the commands `watch` and `stream-jobs` of the command      *)
(* line.  A sender never waits; a receiver that is too slow loses the      *)
(* oldest events.  An event is known by its place in `sent`.               *)
(***************************************************************************)
EXTENDS Naturals, Sequences, SequencesExt

CONSTANTS
    Viewers,        \* watch and stream-jobs commands
    Twins,          \* twin ids
    NoTwin,         \* the twin of an event that names none
    Capacity,       \* events the channel keeps (256)
    WireCap,        \* bound: frames under way to a viewer before its handler waits
    MaxEvents       \* bound: events of a behaviour

ASSUME StreamAssumption ==
    Capacity \in Nat \ {0} /\ WireCap \in Nat \ {0} /\ MaxEvents \in Nat /\ NoTwin \notin Twins

VARIABLES
    sent,           \* the events of this process: the twin each one names
    viewing,        \* idle, open or over
    filter,         \* a twin, "*" for all, "jobs" for the SSE streams
    since,          \* how many events were sent when the viewer subscribed
    place,          \* the next event its receiver will look at
    wire,           \* frames under way to it
    shown,          \* what it printed
    skipped         \* history: events its receiver lost

streamVars == <<sent, viewing, filter, since, place, wire, shown, skipped>>

Filters == Twins \cup {"*", "jobs"}

StreamInit ==
    /\ sent = <<>>
    /\ viewing = [v \in Viewers |-> "idle"]
    /\ filter = [v \in Viewers |-> "*"]
    /\ since = [v \in Viewers |-> 0]
    /\ place = [v \in Viewers |-> 1]
    /\ wire = [v \in Viewers |-> <<>>]
    /\ shown = [v \in Viewers |-> <<>>]
    /\ skipped = [v \in Viewers |-> {}]

\* An event without a twin (failures, mints) is for everybody.
Passes(f, i) == f \in {"*", "jobs"} \/ sent[i] \in {f, NoTwin}

\* The channel keeps the last events.
Oldest == IF Len(sent) > Capacity THEN Len(sent) - Capacity + 1 ELSE 1

Publish(t) ==
    /\ Len(sent) < MaxEvents
    /\ sent' = Append(sent, t)
    /\ UNCHANGED <<viewing, filter, since, place, wire, shown, skipped>>

\* The handler subscribes before the connection is upgraded or the stream begins.
Subscribe(v, f) ==
    /\ viewing[v] = "idle"
    /\ viewing' = [viewing EXCEPT ![v] = "open"]
    /\ filter' = [filter EXCEPT ![v] = f]
    /\ since' = [since EXCEPT ![v] = Len(sent)]
    /\ place' = [place EXCEPT ![v] = Len(sent) + 1]
    /\ UNCHANGED <<sent, wire, shown, skipped>>

Forward(v) ==
    /\ viewing[v] = "open" /\ Len(wire[v]) < WireCap
    /\ place[v] \in Oldest..Len(sent)
    /\ wire' = [wire EXCEPT ![v] = IF Passes(filter[v], place[v]) THEN Append(@, place[v]) ELSE @]
    /\ place' = [place EXCEPT ![v] = @ + 1]
    /\ UNCHANGED <<sent, viewing, filter, since, shown, skipped>>

(* Mutant: a receiver that lagged starts again with the newest event. *)
ResumeAtNewest == Len(sent)

Resume == Oldest

\* RecvError::Lagged: the receiver goes on with the oldest event that is kept.
Lag(v) ==
    /\ viewing[v] = "open" /\ Len(wire[v]) < WireCap
    /\ place[v] < Oldest
    /\ skipped' = [skipped EXCEPT ![v] = @ \cup (place[v]..(Resume - 1))]
    /\ place' = [place EXCEPT ![v] = Resume]
    /\ UNCHANGED <<sent, viewing, filter, since, wire, shown>>

Show(v) ==
    /\ viewing[v] = "open" /\ wire[v] # <<>>
    /\ shown' = [shown EXCEPT ![v] = Append(@, Head(wire[v]))]
    /\ wire' = [wire EXCEPT ![v] = Tail(@)]
    /\ UNCHANGED <<sent, viewing, filter, since, place, skipped>>

Leave(v) ==
    /\ viewing[v] = "open"
    /\ viewing' = [viewing EXCEPT ![v] = "over"]
    /\ wire' = [wire EXCEPT ![v] = <<>>]
    /\ UNCHANGED <<sent, filter, since, place, shown, skipped>>

\* The client is stopped, or the connection breaks; watch does not connect again.
Disconnect(v) == filter[v] # "jobs" /\ Leave(v)

\* stream-jobs asks with a total timeout of zero seconds.
StreamTimesOut(v) == filter[v] = "jobs" /\ Leave(v)

\* A restarted node knows neither the events nor the viewers.
StreamRestart ==
    /\ sent # <<>>
    /\ sent' = <<>>
    /\ viewing' = [v \in Viewers |-> IF viewing[v] = "idle" THEN "idle" ELSE "over"]
    /\ wire' = [v \in Viewers |-> <<>>]
    /\ UNCHANGED <<filter, since, place, shown, skipped>>

StreamNext ==
    \/ \E t \in Twins \cup {NoTwin} : Publish(t)
    \/ StreamRestart
    \/ \E v \in Viewers :
        \/ \E f \in Filters : Subscribe(v, f)
        \/ Forward(v) \/ Lag(v) \/ Show(v) \/ Disconnect(v) \/ StreamTimesOut(v)

-----------------------------------------------------------------------------
\* The events a viewer is to have got by now.
Due(v) == {i \in 1..Len(sent) :
    /\ i > since[v] /\ i < place[v] /\ i \notin skipped[v]
    /\ filter[v] \in {"*", "jobs", sent[i]} \/ sent[i] = NoTwin}

\* A viewer sees the events of its filter, in order and none twice, and misses
\* one only if the channel had to drop it before its receiver came to it
\* (ws.rs:45-73, node.rs:607-675).
StreamsInOrder == \A v \in Viewers : viewing[v] = "open" =>
    LET got == shown[v] \o wire[v]
    IN  /\ \A i, k \in DOMAIN got : i < k => got[i] < got[k]
        /\ {got[i] : i \in DOMAIN got} = Due(v)
        /\ \A i \in skipped[v] : i <= Len(sent) - Capacity

=============================================================================
