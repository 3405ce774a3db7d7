------------------------------- MODULE DipNode ------------------------------
(***************************************************************************)
(* The DIP side of a node: what arrives by polling Vantage, by polling the *)
(* Meshtastic radio and over HTTP, the loop that handles it, and the       *)
(* gateway that sends the answers (sovereign-node node.rs, dip_gateway.rs, *)
(* vantage.rs; dip router.rs and adapters/meshtastic.rs).                  *)
(*                                                                         *)
(* The two pollers push into one bounded channel. The radio's poller holds *)
(* the write lock of the mesh adapter while it waits for room there, and   *)
(* the loop that makes the room may be sending.                            *)
(*                                                                         *)
(* An envelope stands for its kind, what its payload asks, whether it is   *)
(* addressed here and complete, and the DID an answer goes to (the origin; *)
(* a witness request repeats it as requester_did).                         *)
(***************************************************************************)
EXTENDS Naturals, Sequences, FiniteSets

CONSTANTS
  Mail,            \* the envelopes other programs send to this node
  Here,            \* this node's DID
  Requests,        \* HTTP handlers and capture tasks
  Loop,            \* the inbound dispatch loop
  Capacity,        \* of the inbound channel
  MaxArrivals,     \* bound on envelopes arriving and captures completing
  Nothing

Tasks == Requests \union {Loop}
Sources == {"vantage", "mesh"}

ASSUME DipAssumption ==
  /\ Capacity \in Nat \ {0}
  /\ MaxArrivals \in Nat
  /\ Loop \notin Requests
  /\ Nothing \notin Mail

VARIABLES
  mailbox,         \* envelopes Vantage keeps for this node
  hand,            \* hand[s]: fetched by the poller of s, not yet in the channel
  queue,           \* the inbound channel
  task,            \* task[t]: where t is, its envelope and what it sends
  seen,            \* the router's message ids
  fresh,           \* the next message id
  known,           \* DIDs in the mesh adapter's table
  answered,        \* answered[e]: answers to e that reached Vantage
  handled,         \* handled[e]: times an answer to e was built
  taken, done,     \* histories: fetched per source; finished by the loop
  arrivals

vars == <<mailbox, hand, queue, task, seen, fresh, known, answered, handled,
          taken, done, arrivals>>

Item == [src: Sources, env: Mail]
Idle == [pc |-> "idle", src |-> "http", env |-> Nothing, id |-> 0, net |-> "none"]

TaskState == [pc: {"idle", "handle", "route", "forward"}, src: Sources \union {"http"},
              env: Mail \union {Nothing}, id: Nat,
              net: {"none", "vantage", "meshtastic", "nostr"}]

DipTypeOK ==
  /\ mailbox \in Seq(Mail)
  /\ hand \in [Sources -> Seq(Mail)] /\ Len(hand["mesh"]) <= 1
  /\ queue \in Seq(Item) /\ Len(queue) <= Capacity
  /\ task \in [Tasks -> TaskState]
  /\ fresh \in Nat
  /\ seen \subseteq 1 .. fresh
  /\ known \subseteq {e.from : e \in Mail}
  /\ answered \in [Mail -> Nat] /\ handled \in [Mail -> Nat]
  /\ taken \in [Sources -> Seq(Mail)]
  /\ done \in Seq(Item)
  /\ arrivals \in 0 .. MaxArrivals

Init ==
  /\ mailbox = <<>>
  /\ hand = [s \in Sources |-> <<>>]
  /\ queue = <<>>
  /\ task = [t \in Tasks |-> Idle]
  /\ seen = {}
  /\ fresh = 1
  /\ known = {}
  /\ answered = [e \in Mail |-> 0]
  /\ handled = [e \in Mail |-> 0]
  /\ taken = [s \in Sources |-> <<>>]
  /\ done = <<>>
  /\ arrivals = 0

Arrive == arrivals < MaxArrivals /\ arrivals' = arrivals + 1

-----------------------------------------------------------------------------
(* Arrivals *)

(* Somebody posts an envelope for this node to Vantage. *)
Mailed(e) ==
  /\ Arrive
  /\ mailbox' = Append(mailbox, e)
  /\ UNCHANGED <<hand, queue, task, seen, fresh, known, answered, handled, taken, done>>

(* poll_dip_outbound drains the mailbox; a response that is lost or does   *)
(* not decode is an empty list, and its envelopes are gone.                *)
PollVantage ==
  /\ hand["vantage"] = <<>>
  /\ mailbox' = <<>>
  /\ \E got \in {mailbox, <<>>} :
        /\ hand' = [hand EXCEPT !["vantage"] = got]
        /\ taken' = [taken EXCEPT !["vantage"] = @ \o got]
  /\ UNCHANGED <<queue, task, seen, fresh, known, answered, handled, done, arrivals>>

(* The guard the radio's poller takes lives until its send completes. *)
MeshHeld == hand["mesh"] # <<>>

(* A packet is fetched and unwrapped: its sender is learned whomever it is *)
(* for, and the envelope is kept when it is for this radio or for all.     *)
PollMesh(e, to) ==
  /\ Arrive
  /\ ~MeshHeld
  /\ known' = known \union {e.from}
  /\ LET got == IF to \in {"all", "this"} THEN <<e>> ELSE <<>>
     IN  /\ hand' = [hand EXCEPT !["mesh"] = got]
         /\ taken' = [taken EXCEPT !["mesh"] = @ \o got]
  /\ UNCHANGED <<mailbox, queue, task, seen, fresh, answered, handled, done>>

(* Mutation: try_send, which fails when the channel is full. *)
PushOrDrop(s) ==
  /\ hand[s] # <<>>
  /\ hand' = [hand EXCEPT ![s] = Tail(@)]
  /\ queue' = IF Len(queue) < Capacity
              THEN Append(queue, [src |-> s, env |-> Head(hand[s])]) ELSE queue
  /\ UNCHANGED <<mailbox, task, seen, fresh, known, answered, handled, taken, done, arrivals>>

(* inbound_tx.send(envelope).await waits for room. *)
Push(s) ==
  /\ hand[s] # <<>>
  /\ Len(queue) < Capacity
  /\ queue' = Append(queue, [src |-> s, env |-> Head(hand[s])])
  /\ hand' = [hand EXCEPT ![s] = Tail(@)]
  /\ UNCHANGED <<mailbox, task, seen, fresh, known, answered, handled, taken, done, arrivals>>

(* POST /dip/inbound: the request handles its envelope itself.  A client   *)
(* that hangs up ends it at an await, as a dropped id in Route or a POST   *)
(* without an answer in Forward do.                                        *)
Inbound(t, e) ==
  /\ Arrive
  /\ task[t].pc = "idle"
  /\ task' = [task EXCEPT ![t] = [Idle EXCEPT !.pc = "handle", !.env = e]]
  /\ UNCHANGED <<mailbox, hand, queue, seen, fresh, known, answered, handled, taken, done>>

(* A completed capture sends its receipt to the configured npub. *)
SendReceipt(t) ==
  /\ Arrive
  /\ task[t].pc = "idle"
  /\ task' = [task EXCEPT ![t] = [Idle EXCEPT !.pc = "route", !.id = fresh, !.net = "nostr"]]
  /\ fresh' = fresh + 1
  /\ UNCHANGED <<mailbox, hand, queue, seen, known, answered, handled, taken, done>>

(* The loop takes the next envelope when it finished the one before. *)
Receive ==
  /\ task[Loop].pc = "idle"
  /\ queue # <<>>
  /\ LET next == Head(queue)
     IN  task' = [task EXCEPT ![Loop] =
                    [Idle EXCEPT !.pc = "handle", !.src = next.src, !.env = next.env]]
  /\ queue' = Tail(queue)
  /\ UNCHANGED <<mailbox, hand, seen, fresh, known, answered, handled, taken, done, arrivals>>

-----------------------------------------------------------------------------
(* handle_inbound_dip and DipGateway::send *)

Finish(t) ==
  /\ task' = [task EXCEPT ![t] = Idle]
  /\ done' = IF t = Loop THEN Append(done, [src |-> task[t].src, env |-> task[t].env])
             ELSE done

(* Receipts, events and the rest are logged; a request that lacks a field  *)
(* is dropped with a warning.                                              *)
Answerable(e) ==
  /\ e.here
  /\ e.whole
  /\ <<e.kind, e.asks>> \in {<<"capability", "witness_sign_request">>,
                             <<"message", "vcp_command">>}

(* Mutation: an answer goes back over the network the request came from. *)
ReplyToSource(t) == IF task[t].src = "mesh" THEN "meshtastic" ELSE "vantage"

(* The destination network of both kinds of answer. *)
ReplyNetwork(t) == "vantage"

(* Signs or denies, and builds the answer under a new message id. *)
Handle(t) ==
  /\ task[t].pc = "handle"
  /\ LET e == task[t].env
     IN  IF Answerable(e)
         THEN /\ task' = [task EXCEPT ![t] = [@ EXCEPT !.pc = "route", !.id = fresh,
                                                       !.net = ReplyNetwork(t)]]
              /\ fresh' = fresh + 1
              /\ handled' = [handled EXCEPT ![e] = @ + 1]
              /\ UNCHANGED done
         ELSE Finish(t) /\ UNCHANGED <<fresh, handled>>
  /\ UNCHANGED <<mailbox, hand, queue, seen, known, answered, taken, arrivals>>

(* The relay handle is None: Nostr is not registered. *)
Adapters == {"vantage", "meshtastic"}

ForThisNode(t) == task[t].env # Nothing /\ task[t].env.from = Here

(* DipRouter::route, under the router's write lock: a seen or an expired   *)
(* id is dropped, a new one is recorded before anything else is looked at. *)
(* No local handler is registered, so a local delivery does nothing.       *)
Route(t) ==
  /\ task[t].pc = "route"
  /\ \E dropped \in {task[t].id \in seen, TRUE} :
        /\ seen' = IF dropped THEN seen ELSE seen \union {task[t].id}
        /\ IF ~dropped /\ ~ForThisNode(t) /\ task[t].net \in Adapters
           THEN task' = [task EXCEPT ![t] = [@ EXCEPT !.pc = "forward"]] /\ UNCHANGED done
           ELSE Finish(t)
  /\ UNCHANGED <<mailbox, hand, queue, fresh, known, answered, handled, taken, arrivals>>

(* Mutation: a POST that got no answer is repeated. *)
ForwardAgain(t) ==
  /\ task[t].pc = "forward"
  /\ \E arrives, acked \in BOOLEAN :
        /\ answered' = IF arrives THEN [answered EXCEPT ![task[t].env] = @ + 1] ELSE answered
        /\ IF arrives /\ acked THEN Finish(t) ELSE UNCHANGED <<task, done>>
  /\ UNCHANGED <<mailbox, hand, queue, seen, fresh, known, handled, taken, arrivals>>

(* The POST to Vantage, or the radio's under the adapter's read lock. Its  *)
(* outcome is logged: nothing is sent a second time.                       *)
Forward(t) ==
  /\ task[t].pc = "forward"
  /\ task[t].net = "meshtastic" => ~MeshHeld
  /\ \E arrives \in BOOLEAN :
        answered' = IF arrives /\ task[t].net = "vantage"
                    THEN [answered EXCEPT ![task[t].env] = @ + 1] ELSE answered
  /\ Finish(t)
  /\ UNCHANGED <<mailbox, hand, queue, seen, fresh, known, handled, taken, arrivals>>

-----------------------------------------------------------------------------
Node(t) == Handle(t) \/ Route(t) \/ Forward(t)

Next ==
  \/ PollVantage \/ Receive
  \/ \E e \in Mail : Mailed(e) \/ \E to \in {"all", "this", "other"} : PollMesh(e, to)
  \/ \E s \in Sources : Push(s)
  \/ \E t \in Requests : SendReceipt(t) \/ \E e \in Mail : Inbound(t, e)
  \/ \E t \in Tasks : Node(t)

(* The runtime polls every task that can go on, and every request has a    *)
(* client timeout (8 s to Vantage, 5 s to the radio).                      *)
Spec ==
  /\ Init /\ [][Next]_vars
  /\ WF_vars(Receive)
  /\ \A s \in Sources : WF_vars(Push(s))
  /\ \A t \in Tasks : WF_vars(Node(t))

-----------------------------------------------------------------------------
(* What the loop is handling, after what it finished and before what it    *)
(* will receive.                                                           *)
InHand ==
  IF task[Loop].pc = "idle" THEN <<>> ELSE <<[src |-> task[Loop].src, env |-> task[Loop].env]>>

Inside == done \o InHand \o queue

From(items, s) == {i \in 1..Len(items) : items[i].src = s}

(* The n-th of the items that came from s is the n-th envelope that was    *)
(* fetched there, and those that come next are held.                       *)
InOrder(items, s, fetched, held) ==
  LET count(n) == Cardinality({i \in From(items, s) : i <= n})
      all == Cardinality(From(items, s))
  IN  /\ Len(fetched) = all + Len(held)
      /\ \A i \in From(items, s) : items[i].env = fetched[count(i)]
      /\ \A i \in 1..Len(held) : held[i] = fetched[all + i]

(* Whatever the pollers do and however full the channel is, the envelopes  *)
(* fetched from one source are handled one by one in the order they were   *)
(* fetched, none is skipped and none is handled twice.                     *)
FetchedInOrder == \A s \in Sources : InOrder(Inside, s, taken[s], hand[s])

(* Vantage gets at most one answer for each time a request was handled,    *)
(* although the node never learns whether a POST arrived.                  *)
AnsweredOnce == \A e \in Mail : answered[e] <= handled[e]

(* Every fetched envelope is handled in the end: the poller that waits for *)
(* the channel under the mesh lock and the loop that sends never wait for  *)
(* each other.                                                             *)
FetchedIsHandled ==
  \A s \in Sources : \A n \in 1 .. MaxArrivals :
    Len(taken[s]) >= n ~> Len(SelectSeq(done, LAMBDA i : i.src = s)) >= n
=============================================================================
