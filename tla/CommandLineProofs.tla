------------------------- MODULE CommandLineProofs -------------------------
(***************************************************************************)
(* Proofs about CommandLine and the three modules it is made of, for any   *)
(* numbers of viewers, downloads, commands and events, and any splats.     *)
(***************************************************************************)
EXTENDS CommandLine, TLAPS

-----------------------------------------------------------------------------
(* Streams.  What is shown is due only because what is under way is: the   *)
(* two together are what the receiver has looked at and not dropped.       *)

Increasing(s) == \A i, k \in 1..Len(s) : i < k => s[i] < s[k]
Members(s) == {s[i] : i \in 1..Len(s)}
Got(v) == shown[v] \o wire[v]

StreamShape ==
  /\ sent \in Seq(Twins \cup {NoTwin})
  /\ viewing \in [Viewers -> {"idle", "open", "over"}]
  /\ filter \in [Viewers -> Filters]
  /\ since \in [Viewers -> Nat] /\ place \in [Viewers -> Nat]
  /\ wire \in [Viewers -> Seq(Nat)] /\ shown \in [Viewers -> Seq(Nat)]
  /\ skipped \in [Viewers -> SUBSET Nat]

ViewerInOrder(v) ==
  /\ since[v] < place[v] /\ place[v] <= Len(sent) + 1
  /\ Increasing(Got(v)) /\ Members(Got(v)) = Due(v)
  /\ \A i \in skipped[v] : i <= Len(sent) - Capacity /\ i < place[v]

StreamInv ==
  /\ StreamShape
  /\ \A v \in Viewers :
       /\ viewing[v] = "idle" => shown[v] = <<>> /\ wire[v] = <<>> /\ skipped[v] = {}
       /\ viewing[v] = "open" => ViewerInOrder(v)

LEMMA AppendIncreasing ==
  ASSUME NEW s \in Seq(Nat), NEW n \in Nat, Increasing(s), \A i \in 1..Len(s) : s[i] < n
  PROVE  Increasing(Append(s, n)) /\ Members(Append(s, n)) = Members(s) \cup {n}
<1> DEFINE t == Append(s, n)
<1>1. Len(s) \in Nat /\ Len(t) = Len(s) + 1 /\ t[Len(s) + 1] = n /\ \A i \in 1..Len(s) : t[i] = s[i] /\ s[i] \in Nat
  OBVIOUS
<1> HIDE DEF t
<1>2. 1..Len(t) = 1..Len(s) \cup {Len(s) + 1}
  BY <1>1
<1>3. Increasing(t)
  BY <1>1, <1>2 DEF Increasing
<1>4. Members(t) = Members(s) \cup {n}
  BY <1>1, <1>2 DEF Members
<1>. QED BY <1>3, <1>4 DEF t

\* A frame that is sent, or shown, comes last, or first, of what is under way.
LEMMA AppendLast ==
  ASSUME NEW s \in Seq(Nat), NEW w \in Seq(Nat), NEW n \in Nat
  PROVE  s \o Append(w, n) = Append(s \o w, n)
<1> DEFINE one == s \o Append(w, n)
           two == Append(s \o w, n)
<1>1. /\ one \in Seq(Nat) /\ two \in Seq(Nat) /\ Len(s) \in Nat /\ Len(w) \in Nat
      /\ Len(one) = Len(s) + Len(w) + 1 /\ Len(two) = Len(s) + Len(w) + 1
  OBVIOUS
<1>2. \A i \in 1..Len(one) : one[i] = two[i]
  <2> TAKE i \in 1..Len(one)
  <2>1. i \in Nat /\ 1 <= i /\ i <= Len(s) + Len(w) + 1
    BY <1>1
  <2> HIDE <1>1
  <2>2. CASE i <= Len(s)
    BY <2>1, <2>2
  <2>3. CASE i > Len(s) /\ i <= Len(s) + Len(w)
    BY <2>1, <2>3
  <2>4. CASE i = Len(s) + Len(w) + 1
    BY <2>1, <2>4
  <2>. QED BY <1>1, <2>1, <2>2, <2>3, <2>4
<1> HIDE DEF one, two
<1>3. one = two
  BY <1>1, <1>2
<1>. QED BY <1>3 DEF one, two

LEMMA HeadMoves ==
  ASSUME NEW s \in Seq(Nat), NEW w \in Seq(Nat), w # <<>>
  PROVE  Append(s, Head(w)) \o Tail(w) = s \o w
<1> DEFINE one == Append(s, Head(w)) \o Tail(w)
           two == s \o w
<1>1. /\ one \in Seq(Nat) /\ two \in Seq(Nat) /\ Len(s) \in Nat /\ Len(w) \in Nat /\ Len(w) >= 1
      /\ Len(one) = Len(s) + Len(w) /\ Len(two) = Len(s) + Len(w)
  OBVIOUS
<1>2. \A i \in 1..Len(one) : one[i] = two[i]
  <2> TAKE i \in 1..Len(one)
  <2>1. i \in Nat /\ 1 <= i /\ i <= Len(s) + Len(w)
    BY <1>1
  <2> DEFINE a == Append(s, Head(w))
  <2>2. a \in Seq(Nat) /\ Len(a) = Len(s) + 1 /\ Tail(w) \in Seq(Nat) /\ Len(Tail(w)) = Len(w) - 1
    BY <1>1
  <2>3. CASE i <= Len(s)
    BY <1>1, <2>1, <2>3
  <2>4. CASE i = Len(s) + 1
    BY <1>1, <2>1, <2>4
  <2>5. CASE i > Len(s) + 1
    BY <1>1, <2>1, <2>2, <2>5
  <2>. QED BY <1>1, <2>1, <2>3, <2>4, <2>5
<1> HIDE DEF one, two
<1>3. one = two
  BY <1>1, <1>2
<1>. QED BY <1>3 DEF one, two

LEMMA StreamInitially == StreamInit => StreamInv
BY DEF StreamInit, StreamInv, StreamShape, Filters

(* A step that leaves a viewer and its events alone leaves it in order. *)
LEMMA Unmoved ==
  ASSUME StreamInv, NEW v \in Viewers, ViewerInOrder(v),
         filter'[v] = filter[v], since'[v] = since[v], place'[v] = place[v], shown'[v] = shown[v],
         wire'[v] = wire[v], skipped'[v] = skipped[v],
         Len(sent') >= Len(sent), \A i \in 1..Len(sent) : sent'[i] = sent[i], Len(sent') \in Nat
  PROVE  ViewerInOrder(v)'
<1>1. Got(v)' = Got(v)
  BY DEF Got
<1>2. Due(v)' = Due(v)
  <2>1. Len(sent) \in Nat /\ place[v] \in Nat /\ place[v] <= Len(sent) + 1
    BY DEF StreamInv, StreamShape, ViewerInOrder
  <2>2. \A i \in 1..Len(sent) : i \in 1..Len(sent')
    BY <2>1
  <2>3. \A i \in 1..Len(sent') : i < place[v] => i \in 1..Len(sent)
    BY <2>1
  <2>4. ASSUME NEW i PROVE i \in Due(v)' <=> i \in Due(v)
    <3>1. CASE i \in 1..Len(sent)
      BY <2>2, <3>1 DEF Due
    <3>2. CASE i \notin 1..Len(sent)
      BY <2>3, <3>2 DEF Due
    <3>. QED BY <3>1, <3>2
  <2>. QED BY <2>4 DEF Due
<1>3. since[v] < place[v] /\ place[v] <= Len(sent') + 1 /\ \A i \in skipped[v] : i <= Len(sent') - Capacity /\ i < place[v]
  BY StreamAssumption DEF StreamInv, StreamShape, ViewerInOrder
<1>4. Increasing(Got(v))' /\ Members(Got(v))' = Due(v)'
  <2>1. Increasing(Got(v)) /\ Members(Got(v)) = Due(v)
    BY DEF ViewerInOrder
  <2>2. Increasing(Got(v))' = Increasing(Got(v)) /\ Members(Got(v))' = Members(Got(v))
    BY <1>1 DEF Increasing, Members
  <2>. QED BY <1>2, <2>1, <2>2
<1>. QED BY <1>3, <1>4 DEF ViewerInOrder

LEMMA StreamInductive == StreamInv /\ [StreamNext]_streamVars => StreamInv'
<1> SUFFICES ASSUME StreamInv, [StreamNext]_streamVars PROVE StreamInv'
  OBVIOUS
<1> USE StreamAssumption
<1>a. Len(sent) \in Nat
  BY DEF StreamInv, StreamShape
<1>1. ASSUME NEW t \in Twins \cup {NoTwin}, Publish(t)
      PROVE  StreamInv'
  <2>1. /\ sent' \in Seq(Twins \cup {NoTwin}) /\ Len(sent') = Len(sent) + 1
        /\ \A i \in 1..Len(sent) : sent'[i] = sent[i]
    BY <1>1 DEF Publish, StreamInv, StreamShape
  <2>2. ASSUME NEW v \in Viewers, ViewerInOrder(v) PROVE ViewerInOrder(v)'
    BY <1>a, <1>1, <2>1, <2>2, Unmoved DEF Publish
  <2>. QED BY <1>1, <2>1, <2>2 DEF Publish, StreamInv, StreamShape
<1>2. CASE StreamRestart
  BY <1>2 DEF StreamRestart, StreamInv, StreamShape
<1>3. ASSUME NEW v \in Viewers, NEW f \in Filters, Subscribe(v, f)
      PROVE  StreamInv'
  <2>1. StreamShape'
    BY <1>3 DEF Subscribe, StreamInv, StreamShape
  <2>2. ViewerInOrder(v)'
    <3>1. shown'[v] = <<>> /\ wire'[v] = <<>> /\ skipped'[v] = {} /\ since'[v] = Len(sent)
          /\ place'[v] = Len(sent) + 1 /\ sent' = sent
      BY <1>3 DEF Subscribe, StreamInv, StreamShape
    <3>2. Got(v)' = <<>> /\ Due(v)' = {}
      BY <1>a, <3>1 DEF Got, Due
    <3>. QED BY <1>a, <3>1, <3>2 DEF ViewerInOrder, Increasing, Members
  <2>3. ASSUME NEW w \in Viewers \ {v}, ViewerInOrder(w) PROVE ViewerInOrder(w)'
    BY <1>a, <1>3, <2>3, Unmoved DEF Subscribe, StreamInv, StreamShape
  <2>. QED BY <1>3, <2>1, <2>2, <2>3 DEF Subscribe, StreamInv, StreamShape
<1>4. ASSUME NEW v \in Viewers, Forward(v)
      PROVE  StreamInv'
  <2> DEFINE n == place[v]
  <2>1. /\ n \in 1..Len(sent) /\ n \in Nat /\ n \notin skipped[v] /\ ViewerInOrder(v)
        /\ place' = [place EXCEPT ![v] = n + 1]
    BY <1>4 DEF Forward, Oldest, StreamInv, StreamShape, ViewerInOrder
  <2>2. StreamShape'
    BY <1>4, <2>1 DEF Forward, StreamInv, StreamShape
  <2>3. ViewerInOrder(v)'
    <3>1. wire[v] \in Seq(Nat) /\ shown[v] \in Seq(Nat) /\ Got(v) \in Seq(Nat)
      BY DEF StreamInv, StreamShape, Got
    <3>2. \A i \in 1..Len(Got(v)) : Got(v)[i] < n
      BY <2>1 DEF ViewerInOrder, Members, Due
    <3>3. shown' = shown /\ sent' = sent /\ since' = since /\ filter' = filter /\ skipped' = skipped
          /\ place'[v] = n + 1 /\ n > since[v]
      BY <1>4, <2>1 DEF Forward, StreamInv, StreamShape, ViewerInOrder
    <3>4. since[v] < place'[v] /\ place'[v] <= Len(sent') + 1
          /\ \A i \in skipped'[v] : i <= Len(sent') - Capacity /\ i < place'[v]
      BY <1>a, <2>1, <3>3 DEF ViewerInOrder, StreamInv, StreamShape
    <3>5. CASE Passes(filter[v], n)
      <4>1. wire'[v] = Append(wire[v], n)
        BY <1>4, <3>5 DEF Forward, StreamInv, StreamShape
      <4>2. Got(v)' = Append(Got(v), n)
        <5>1. shown[v] \o Append(wire[v], n) = Append(shown[v] \o wire[v], n)
          BY <2>1, <3>1, AppendLast
        <5> HIDE DEF n
        <5>. QED BY <3>3, <4>1, <5>1, Zenon DEF Got
      <4>3. Increasing(Append(Got(v), n)) /\ Members(Append(Got(v), n)) = Members(Got(v)) \cup {n}
        BY <2>1, <3>1, <3>2, AppendIncreasing DEF ViewerInOrder
      <4>4. Due(v)' = Due(v) \cup {n}
        BY <2>1, <3>3, <3>5 DEF Due, Passes
      <4>. QED
        BY <2>1, <3>3, <3>4, <4>2, <4>3, <4>4 DEF ViewerInOrder, Increasing, Members
    <3>6. CASE ~ Passes(filter[v], n)
      <4>1. Got(v)' = Got(v)
        BY <1>4, <3>3, <3>6 DEF Forward, Got, StreamInv, StreamShape
      <4>2. Due(v)' = Due(v)
        BY <2>1, <3>3, <3>6 DEF Due, Passes
      <4>. QED
        BY <2>1, <3>3, <3>4, <4>1, <4>2 DEF ViewerInOrder, Increasing, Members
    <3>. QED BY <3>5, <3>6
  <2>4. ASSUME NEW w \in Viewers \ {v}, ViewerInOrder(w) PROVE ViewerInOrder(w)'
    BY <1>a, <1>4, <2>4, Unmoved DEF Forward, StreamInv, StreamShape
  <2>. QED BY <1>4, <2>1, <2>2, <2>3, <2>4 DEF Forward, StreamInv, StreamShape
<1>5. ASSUME NEW v \in Viewers, Lag(v)
      PROVE  StreamInv'
  <2> DEFINE old == Len(sent) - Capacity + 1
  <2>1. /\ Len(sent) > Capacity /\ place[v] < old /\ old \in Nat /\ ViewerInOrder(v) /\ viewing[v] = "open"
        /\ place' = [place EXCEPT ![v] = old]
        /\ skipped' = [skipped EXCEPT ![v] = @ \cup (place[v]..(old - 1))]
        /\ UNCHANGED <<sent, viewing, filter, since, wire, shown>>
    <3>1. viewing[v] = "open" /\ ViewerInOrder(v) /\ place[v] \in Nat /\ since[v] \in Nat /\ place[v] >= 1
      BY <1>5 DEF Lag, StreamInv, StreamShape, ViewerInOrder
    <3>2. Len(sent) > Capacity /\ Oldest = old /\ old \in Nat
      BY <1>a, <1>5, <3>1 DEF Lag, Oldest
    <3>. QED BY <1>5, <3>1, <3>2 DEF Lag, Resume
  <2>2. StreamShape'
    BY <1>a, <2>1 DEF StreamInv, StreamShape
  <2>3. ViewerInOrder(v)'
    <3>1. place'[v] = old /\ skipped'[v] = skipped[v] \cup (place[v]..(old - 1)) /\ place[v] \in Nat
          /\ since[v] \in Nat
      BY <2>1 DEF StreamInv, StreamShape
    <3>2. Got(v)' = Got(v)
      BY <2>1 DEF Got
    <3>3. Due(v)' = Due(v)
      BY <1>a, <2>1, <3>1 DEF Due
    <3>4. since'[v] < place'[v] /\ place'[v] <= Len(sent') + 1
          /\ \A i \in skipped'[v] : i <= Len(sent') - Capacity /\ i < place'[v]
      BY <1>a, <2>1, <2>2, <3>1 DEF ViewerInOrder, StreamInv, StreamShape
    <3>. QED BY <2>1, <3>2, <3>3, <3>4 DEF ViewerInOrder, Increasing, Members
  <2>4. ASSUME NEW w \in Viewers \ {v}, ViewerInOrder(w) PROVE ViewerInOrder(w)'
    BY <1>a, <2>1, <2>4, Unmoved DEF StreamInv, StreamShape
  <2>. QED BY <2>1, <2>2, <2>3, <2>4 DEF StreamInv, StreamShape
<1>6. ASSUME NEW v \in Viewers, Show(v)
      PROVE  StreamInv'
  <2>1. wire[v] \in Seq(Nat) /\ shown[v] \in Seq(Nat) /\ wire[v] # <<>>
        /\ shown' = [shown EXCEPT ![v] = Append(@, Head(wire[v]))]
        /\ wire' = [wire EXCEPT ![v] = Tail(@)]
        /\ UNCHANGED <<sent, viewing, filter, since, place, skipped>>
    BY <1>6 DEF Show, StreamInv, StreamShape
  <2>2. Head(wire[v]) \in Nat /\ Tail(wire[v]) \in Seq(Nat) /\ Append(shown[v], Head(wire[v])) \in Seq(Nat)
    BY <2>1
  <2>3. Append(shown[v], Head(wire[v])) \o Tail(wire[v]) = shown[v] \o wire[v]
    BY <2>1, HeadMoves
  <2>4. StreamShape'
    BY <2>1, <2>2 DEF StreamInv, StreamShape
  <2>5. ViewerInOrder(v) => ViewerInOrder(v)'
    <3>1. Got(v)' = Got(v)
      BY <2>1, <2>3 DEF Got, StreamInv, StreamShape
    <3>2. Due(v)' = Due(v)
      BY <2>1 DEF Due
    <3>. QED BY <2>1, <3>1, <3>2 DEF ViewerInOrder, Increasing, Members
  <2>6. ASSUME NEW w \in Viewers \ {v}, ViewerInOrder(w) PROVE ViewerInOrder(w)'
    BY <1>a, <2>1, <2>6, Unmoved DEF StreamInv, StreamShape
  <2>. QED BY <1>6, <2>1, <2>4, <2>5, <2>6 DEF Show, StreamInv, StreamShape
<1>7. ASSUME NEW v \in Viewers, Leave(v)
      PROVE  StreamInv'
  <2>1. ASSUME NEW w \in Viewers \ {v}, ViewerInOrder(w) PROVE ViewerInOrder(w)'
    BY <1>a, <1>7, <2>1, Unmoved DEF Leave, StreamInv, StreamShape
  <2>. QED BY <1>7, <2>1 DEF Leave, StreamInv, StreamShape
<1>8. CASE UNCHANGED streamVars
  BY <1>8 DEF streamVars, StreamInv, StreamShape, ViewerInOrder, Got, Due, Increasing, Members
<1>. QED
  BY <1>1, <1>2, <1>3, <1>4, <1>5, <1>6, <1>7, <1>8 DEF StreamNext, Disconnect, StreamTimesOut

-----------------------------------------------------------------------------
(* Downloads.  Every opener cuts the file, so what has been written so far *)
(* may be full of holes; but the last opener of all found it empty, and    *)
(* what that one wrote stands: the others write the same there, if they    *)
(* were sent the same.                                                     *)

DownloadShape ==
  /\ \A d \in DOMAIN ply : ply[d] \in Versions \cup {NoPly}
  /\ DOMAIN ply = {DirOf[i] : i \in DOMAIN DirOf}
  /\ stage \in [Downloads -> {"idle", "asked", "opened", "reported", "failed"}]
  /\ DOMAIN twinOf = Downloads /\ DOMAIN pathOf = Downloads
  /\ stream \in [Downloads -> Seq(Chunks) \cup {NoPly}]
  /\ offset \in [Downloads -> Nat]
  /\ local \in [Paths -> Seq(Chunks)]
  /\ writers \in [Paths -> SUBSET Downloads]

(* Who has a path open is among its writers, and nobody else. *)
WritersKnown ==
  /\ \A c \in Downloads :
       /\ stage[c] # "idle" => twinOf[c] \in SplatTwins /\ pathOf[c] \in Paths
       /\ stage[c] \in {"idle", "asked"} => offset[c] = 0
       /\ stream[c] = NoPly => offset[c] = 0
       /\ stream[c] # NoPly => offset[c] <= Len(stream[c])
       /\ stage[c] = "idle" => stream[c] = NoPly
       /\ stage[c] = "opened" => c \in writers[pathOf[c]]
       /\ stage[c] = "reported" => stream[c] # NoPly /\ offset[c] = Len(stream[c])
  /\ \A p \in Paths : \A c \in writers[p] : stage[c] \notin {"idle", "asked"} /\ pathOf[c] = p

Sent(p, s) == \A c \in writers[p] : stream[c] \in {s, NoPly}

(* What c wrote stands, if all writers of p are sent s. *)
Stands(p, c, s) ==
  /\ Len(local[p]) <= Len(s)
  /\ offset[c] <= Len(local[p])
  /\ \A i \in 1..offset[c] : local[p][i] = s[i]

LastOpenerStands ==
  \A p \in Paths : writers[p] # {} =>
    \E c \in writers[p] : \A s \in Seq(Chunks) : Sent(p, s) => Stands(p, c, s)

DownloadInv == DownloadShape /\ WritersKnown /\ LastOpenerStands

LEMMA DownloadInitially == DownloadInit => DownloadInv
BY DownloadAssumption DEF DownloadInit, DownloadInv, DownloadShape, WritersKnown, LastOpenerStands

LEMMA ReadStep ==
  ASSUME DownloadInv, NEW c \in Downloads, ReadPly(c)
  PROVE  DownloadInv'
<1> USE DownloadAssumption
<1> DEFINE found == ply[DirOf[twinOf[c]]]
           s == IF found = NoPly THEN <<>> ELSE found
<1>1. s \in Seq(Chunks) /\ stream[c] = NoPly /\ stream' = [stream EXCEPT ![c] = s]
      /\ UNCHANGED <<ply, stage, twinOf, pathOf, offset, local, writers>>
  BY DEF ReadPly, DownloadInv, DownloadShape, WritersKnown
<1> HIDE DEF s
<1>2. DownloadShape'
  BY <1>1 DEF DownloadInv, DownloadShape
<1>3. WritersKnown'
  BY <1>1 DEF DownloadInv, DownloadShape, WritersKnown, ReadPly
<1>4. LastOpenerStands'
  <2>1. ASSUME NEW p \in Paths, NEW u \in Seq(Chunks), Sent(p, u)' PROVE Sent(p, u)
    BY <1>1, <2>1 DEF Sent, DownloadInv, DownloadShape
  <2>. QED BY <1>1, <2>1 DEF DownloadInv, LastOpenerStands, Stands
<1>. QED BY <1>2, <1>3, <1>4 DEF DownloadInv

LEMMA OpenStep ==
  ASSUME DownloadInv, NEW c \in Downloads, OpenFile(c)
  PROVE  DownloadInv'
<1> USE DownloadAssumption
<1> DEFINE p == pathOf[c]
           busy == \E d \in writers[p] : stage[d] = "opened"
<1>1. /\ stage[c] = "asked" /\ p \in Paths /\ offset[c] = 0
      /\ stage' = [stage EXCEPT ![c] = "opened"]
      /\ local' = [local EXCEPT ![p] = <<>>]
      /\ writers' = [writers EXCEPT ![p] = IF busy THEN @ \cup {c} ELSE {c}]
      /\ UNCHANGED <<ply, twinOf, pathOf, stream, offset>>
  BY DEF OpenFile, Opened, DownloadInv, WritersKnown
<1>2. writers'[p] = (IF busy THEN writers[p] \cup {c} ELSE {c}) /\ c \in writers'[p]
  BY <1>1 DEF DownloadInv, DownloadShape
<1>3. DownloadShape'
  BY <1>1 DEF DownloadInv, DownloadShape
<1>4. WritersKnown'
  BY <1>1, <1>2 DEF DownloadInv, DownloadShape, WritersKnown
<1>5. LastOpenerStands'
  <2>1. ASSUME NEW s \in Seq(Chunks) PROVE Stands(p, c, s)'
    BY <1>1 DEF Stands, DownloadInv, DownloadShape
  <2>2. ASSUME NEW q \in Paths \ {p}
        PROVE  writers'[q] = writers[q] /\ local'[q] = local[q]
    BY <1>1 DEF DownloadInv, DownloadShape
  <2>3. \E d \in writers'[p] : \A s \in Seq(Chunks) : Sent(p, s)' => Stands(p, d, s)'
    BY <1>2, <2>1
  <2>4. ASSUME NEW q \in Paths \ {p}, writers'[q] # {}
        PROVE  \E d \in writers'[q] : \A s \in Seq(Chunks) : Sent(q, s)' => Stands(q, d, s)'
    <3>1. PICK d \in writers[q] : \A s \in Seq(Chunks) : Sent(q, s) => Stands(q, d, s)
      BY <2>2, <2>4 DEF DownloadInv, LastOpenerStands
    <3>2. \A s : (Sent(q, s)' <=> Sent(q, s)) /\ (Stands(q, d, s)' <=> Stands(q, d, s))
      BY <1>1, <2>2 DEF Sent, Stands
    <3>. QED BY <2>2, <3>1, <3>2
  <2>5. ASSUME NEW q \in Paths, writers'[q] # {}
        PROVE  \E d \in writers'[q] : \A s \in Seq(Chunks) : Sent(q, s)' => Stands(q, d, s)'
    <3>1. CASE q = p
      <4>1. p' = p
        BY <1>1
      <4>. QED BY <2>3, <3>1, <4>1
    <3>2. CASE q # p
      BY <2>4, <2>5, <3>2
    <3>. QED BY <3>1, <3>2
  <2>. QED BY <2>5 DEF LastOpenerStands
<1>. QED BY <1>3, <1>4, <1>5 DEF DownloadInv

LEMMA WriteStep ==
  ASSUME DownloadInv, NEW c \in Downloads, WriteChunk(c)
  PROVE  DownloadInv'
<1> USE DownloadAssumption
<1> DEFINE p == pathOf[c]
           n == offset[c]
           file == local[p]
           chunk == stream[c][n + 1]
           new == WriteAt(file, n, chunk)
           len == IF Len(file) > n THEN Len(file) ELSE n + 1
<1>1. /\ stage[c] = "opened" /\ stream[c] \in Seq(Chunks) /\ n \in Nat /\ n + 1 <= Len(stream[c])
      /\ p \in Paths /\ c \in writers[p] /\ file \in Seq(Chunks)
      /\ local' = [local EXCEPT ![p] = new] /\ offset' = [offset EXCEPT ![c] = n + 1]
      /\ UNCHANGED <<ply, stage, twinOf, pathOf, stream, writers>>
  BY DEF WriteChunk, DownloadInv, DownloadShape, WritersKnown
<1>2. chunk \in Chunks /\ Hole \in Chunks /\ Len(file) \in Nat /\ len \in Nat
  BY <1>1 DEF Chunks
<1>3. new = [i \in 1..len |-> IF i = n + 1 THEN chunk ELSE IF i <= Len(file) THEN file[i] ELSE Hole]
  BY DEF WriteAt
<1>4. new \in Seq(Chunks) /\ Len(new) = len /\ n + 1 <= len /\ Len(file) <= len
  <2>1. len >= n + 1 /\ Len(file) <= len
    BY <1>1, <1>2
  <2>2. ASSUME NEW i \in 1..len
        PROVE  (IF i = n + 1 THEN chunk ELSE IF i <= Len(file) THEN file[i] ELSE Hole) \in Chunks
    BY <1>1, <1>2, <2>2
  <2>3. new \in [1..len -> Chunks]
    BY <1>3, <2>2
  <2> HIDE DEF new, len
  <2>. QED BY <1>2, <2>1, <2>3
<1>5. \A i \in 1..len : new[i] = IF i = n + 1 THEN chunk ELSE IF i <= Len(file) THEN file[i] ELSE Hole
  BY <1>3
<1> HIDE DEF new
<1>6. DownloadShape' /\ WritersKnown'
  <2>1. DownloadShape'
    BY <1>1, <1>4 DEF DownloadInv, DownloadShape
  <2>2. offset'[c] = n + 1 /\ \A d \in Downloads \ {c} : offset'[d] = offset[d]
    BY <1>1 DEF DownloadInv, DownloadShape
  <2>3. /\ stage[c] = "opened" /\ stream[c] # NoPly /\ n + 1 <= Len(stream[c])
        /\ UNCHANGED <<ply, stage, twinOf, pathOf, stream, writers>>
    BY <1>1 DEF WriteChunk
  <2> HIDE DEF n, p
  <2>4. WritersKnown'
    BY <2>2, <2>3 DEF DownloadInv, WritersKnown
  <2>. QED BY <2>1, <2>4
<1>7. LastOpenerStands'
  <2> SUFFICES ASSUME NEW q \in Paths, writers[q] # {}
               PROVE  \E d \in writers[q] : \A s \in Seq(Chunks) : Sent(q, s) => Stands(q, d, s)'
    BY <1>1 DEF LastOpenerStands, Sent
  <2>1. PICK d \in writers[q] : \A s \in Seq(Chunks) : Sent(q, s) => Stands(q, d, s)
    BY DEF DownloadInv, LastOpenerStands
  <2>2. SUFFICES ASSUME NEW s \in Seq(Chunks), Sent(q, s), Stands(q, d, s)
                 PROVE  Stands(q, d, s)'
    BY <2>1
  <2>3. d \in Downloads /\ offset[d] \in Nat /\ pathOf[d] = q
    BY DEF DownloadInv, DownloadShape, WritersKnown
  <2>4. CASE q # p
    BY <1>1, <2>2, <2>3, <2>4 DEF Stands, DownloadInv, DownloadShape
  <2>5. CASE q = p
    <3>1. stream[c] = s
      BY <1>1, <2>2, <2>5 DEF Sent, WriteChunk
    <3>2. local'[q] = new /\ offset'[d] = (IF d = c THEN n + 1 ELSE offset[d])
      BY <1>1, <2>3, <2>5 DEF DownloadInv, DownloadShape
    <3>3. len <= Len(s) /\ offset'[d] <= len
      BY <1>1, <1>2, <2>2, <2>3, <2>5, <3>1, <3>2 DEF Stands
    <3>4. \A i \in 1..offset'[d] : new[i] = s[i]
      BY <1>1, <1>2, <1>4, <1>5, <2>2, <2>3, <2>5, <3>1, <3>2, <3>3 DEF Stands
    <3>. QED BY <1>4, <3>2, <3>3, <3>4 DEF Stands
  <2>. QED BY <2>4, <2>5
<1>. QED BY <1>6, <1>7 DEF DownloadInv

\* Who touches no file leaves every file as it stands.
LEMMA FilesAtRest ==
  ASSUME LastOpenerStands, UNCHANGED <<stream, offset, local, writers>>
  PROVE  LastOpenerStands'
BY DEF LastOpenerStands, Sent, Stands

LEMMA EndStep ==
  ASSUME DownloadInv, NEW c \in Downloads, NEW r \in {"reported", "failed"},
         stage[c] \in {"asked", "opened"}, stage' = [stage EXCEPT ![c] = r],
         r = "reported" => stream[c] # NoPly /\ offset[c] = Len(stream[c]),
         UNCHANGED <<ply, twinOf, pathOf, stream, offset, local, writers>>
  PROVE  DownloadInv'
<1>1. DownloadShape'
  BY DEF DownloadInv, DownloadShape
<1>2. WritersKnown'
  BY DEF DownloadInv, DownloadShape, WritersKnown
<1>3. LastOpenerStands'
  BY FilesAtRest DEF DownloadInv
<1>. QED BY <1>1, <1>2, <1>3 DEF DownloadInv

LEMMA DownloadInductive == DownloadInv /\ [DownloadNext]_downloadVars => DownloadInv'
<1> SUFFICES ASSUME DownloadInv, [DownloadNext]_downloadVars PROVE DownloadInv'
  OBVIOUS
<1> USE DownloadAssumption
<1>1. ASSUME NEW v \in Versions,
             (\E d \in SplatDevices : ExportPly(d, v)) \/ \E t \in SplatTwins : PlacePly(t, v)
      PROVE  DownloadInv'
  <2>1. DownloadShape' /\ WritersKnown'
    BY <1>1 DEF ExportPly, PlacePly, DownloadInv, DownloadShape, WritersKnown
  <2>2. LastOpenerStands'
    BY <1>1, FilesAtRest DEF ExportPly, PlacePly, DownloadInv
  <2>. QED BY <2>1, <2>2 DEF DownloadInv
<1>2. ASSUME NEW c \in Downloads, NEW t \in SplatTwins, NEW p \in Paths, AskSplat(c, t, p)
      PROVE  DownloadInv'
  <2>1. DownloadShape' /\ WritersKnown'
    BY <1>2 DEF AskSplat, DownloadInv, DownloadShape, WritersKnown
  <2>2. LastOpenerStands'
    BY <1>2, FilesAtRest DEF AskSplat, DownloadInv
  <2>. QED BY <2>1, <2>2 DEF DownloadInv
<1>3. ASSUME NEW c \in Downloads, ReportSplat(c) \/ DownloadFails(c)
      PROVE  DownloadInv'
  BY <1>3, EndStep DEF ReportSplat, DownloadFails
<1>4. CASE UNCHANGED downloadVars
  <2>1. DownloadShape' /\ WritersKnown'
    BY <1>4 DEF downloadVars, DownloadInv, DownloadShape, WritersKnown
  <2>2. LastOpenerStands'
    BY <1>4, FilesAtRest DEF downloadVars, DownloadInv
  <2>. QED BY <2>1, <2>2 DEF DownloadInv
<1>. QED
  BY <1>1, <1>2, <1>3, <1>4, ReadStep, OpenStep, WriteStep DEF DownloadNext, DownloadStep

-----------------------------------------------------------------------------
(* Provenance.  A receipt may still wait while its binding is published,   *)
(* and others publish in between: what a command has left to publish tells *)
(* what it has published.                                                  *)

IsHeard(e) == \E i \in 1..Len(heard) : heard[i] = e

(* What is left of a root, of a seal, and of a seal whose binding is out. *)
Left(events) ==
  \/ \E key, license, at : events = <<IpRoot(key, license, at)>>
  \/ \E key, twin : \E at \in Nat : events = SealGaussianSplat(key, twin, at)
  \/ \E key, twin : \E at \in Nat :
       /\ events = <<CreationReceipt(key, TwinBinding(key, twin, at), at + 1)>>
       /\ IsHeard(TwinBinding(key, twin, at))

Bound(i) ==
  heard[i].kind = 1901 =>
    /\ heard[i].twin.root = heard[i].root /\ heard[i].twin.at < heard[i].at
    /\ \E k \in 1..(i - 1) : heard[k] = heard[i].twin

ProvenanceInv ==
  /\ second \in Nat
  /\ DOMAIN ipStage = Provers /\ DOMAIN signed = Provers
  /\ \E S : heard \in Seq(S)
  /\ \A p \in Provers : ipStage[p] = "publishing" => Left(signed[p])
  /\ \A i \in 1..Len(heard) : Bound(i)

LEMMA ProvenanceInitially == ProvenanceInit => ProvenanceInv
BY DEF ProvenanceInit, ProvenanceInv

(* One more event is heard, and everything said of the earlier ones holds on. *)
LEMMA HeardStep ==
  ASSUME ProvenanceInv, NEW e, heard' = Append(heard, e),
         e.kind = 1901 => e.twin.root = e.root /\ e.twin.at < e.at /\ IsHeard(e.twin)
  PROVE  /\ \E S : heard' \in Seq(S)
         /\ \A i \in 1..Len(heard') : Bound(i)'
         /\ IsHeard(e)' /\ \A f : IsHeard(f) => IsHeard(f)'
<1>1. PICK S : heard \in Seq(S)
  BY DEF ProvenanceInv
<1>2. heard \in Seq(S \cup {e}) /\ heard' \in Seq(S \cup {e})
  BY <1>1
<1>3. /\ Len(heard) \in Nat /\ Len(heard') = Len(heard) + 1 /\ heard'[Len(heard) + 1] = e
      /\ \A i \in 1..Len(heard) : heard'[i] = heard[i]
  BY <1>2
<1>4. ASSUME NEW i \in 1..Len(heard') PROVE Bound(i)'
  <2>1. CASE i \in 1..Len(heard)
    BY <1>3, <2>1 DEF ProvenanceInv, Bound
  <2>2. CASE i = Len(heard) + 1
    BY <1>3, <2>2 DEF IsHeard, Bound
  <2>. QED BY <1>3, <2>1, <2>2
<1>5. IsHeard(e)' /\ \A f : IsHeard(f) => IsHeard(f)'
  BY <1>3 DEF IsHeard
<1>. QED BY <1>2, <1>4, <1>5

LEMMA SignStep ==
  ASSUME ProvenanceInv, NEW p \in Provers, NEW a \in Asks, Sign(p, a)
  PROVE  ProvenanceInv'
<1>1. UNCHANGED <<second, heard>>
  BY DEF Sign
<1>2. /\ DOMAIN ipStage' = Provers /\ DOMAIN signed' = Provers
      /\ \A q \in Provers \ {p} : ipStage'[q] = ipStage[q] /\ signed'[q] = signed[q]
  BY DEF Sign, ProvenanceInv
<1>3. ipStage'[p] = "publishing" => Left(signed'[p])
  <2> SUFFICES ASSUME ipStage'[p] = "publishing" PROVE Left(signed'[p])
    OBVIOUS
  <2>1. a.what \in {"root", "seal"}
    BY DEF Sign, Asks, ProvenanceInv
  <2>2. CASE a.what = "root"
    <3>1. signed'[p] = <<IpRoot(a.key, a.license, second)>>
      BY <2>2 DEF Sign, ProvenanceInv
    <3>. QED BY <3>1 DEF Left
  <2>3. CASE a.what = "seal"
    <3>1. signed'[p] = SealGaussianSplat(a.key, a.twin, second)
      BY <2>3 DEF Sign, ProvenanceInv
    <3>. QED BY <3>1 DEF Left, ProvenanceInv
  <2>. QED BY <2>1, <2>2, <2>3
<1>. QED BY <1>1, <1>2, <1>3 DEF ProvenanceInv, Left, IsHeard, Bound

LEMMA PublishStep ==
  ASSUME ProvenanceInv, NEW p \in Provers, PublishNostr(p)
  PROVE  ProvenanceInv'
<1> DEFINE events == signed[p]
<1>0. PICK e : e = Head(events)
  OBVIOUS
<1>1. /\ Left(events) /\ heard' = Append(heard, e) /\ UNCHANGED second
      /\ ipStage[p] = "publishing"
      /\ signed' = [signed EXCEPT ![p] = Tail(events)]
      /\ ipStage' = [ipStage EXCEPT ![p] = IF Len(events) = 1 THEN "done" ELSE @]
  BY <1>0 DEF PublishNostr, ProvenanceInv
<1>2. (e.kind = 1901 => e.twin.root = e.root /\ e.twin.at < e.at /\ IsHeard(e.twin))
      /\ (Len(events) = 1 \/ \E key, twin : \E at \in Nat :
            e = TwinBinding(key, twin, at)
            /\ Tail(events) = <<CreationReceipt(key, TwinBinding(key, twin, at), at + 1)>>)
  <2>1. ASSUME NEW key, NEW license, NEW at, events = <<IpRoot(key, license, at)>>
        PROVE  e.kind = 31900 /\ Len(events) = 1
    BY <1>0, <2>1 DEF IpRoot
  <2>2. ASSUME NEW key, NEW twin, NEW at \in Nat, events = SealGaussianSplat(key, twin, at)
        PROVE  e = TwinBinding(key, twin, at) /\ e.kind = 1903
               /\ Tail(events) = <<CreationReceipt(key, TwinBinding(key, twin, at), at + 1)>>
    BY <1>0, <2>2 DEF SealGaussianSplat, TwinBinding
  <2>3. ASSUME NEW key, NEW twin, NEW at \in Nat, IsHeard(TwinBinding(key, twin, at)),
               events = <<CreationReceipt(key, TwinBinding(key, twin, at), at + 1)>>
        PROVE  /\ e.twin.root = e.root /\ e.twin.at < e.at /\ IsHeard(e.twin)
               /\ Len(events) = 1
    <3>1. e = CreationReceipt(key, TwinBinding(key, twin, at), at + 1) /\ Len(events) = 1
      BY <1>0, <2>3
    <3>2. e.twin = TwinBinding(key, twin, at) /\ e.root = key /\ e.at = at + 1
      BY <3>1 DEF CreationReceipt
    <3>3. e.twin.root = key /\ e.twin.at = at
      BY <3>2 DEF TwinBinding
    <3>. QED BY <2>3, <3>1, <3>2, <3>3
  <2>. QED BY <1>1, <2>1, <2>2, <2>3 DEF Left
<1>3. /\ \E S : heard' \in Seq(S)
      /\ \A i \in 1..Len(heard') : Bound(i)'
      /\ IsHeard(e)' /\ \A f : IsHeard(f) => IsHeard(f)'
  <2>1. heard' = Append(heard, e) /\ (e.kind = 1901 => e.twin.root = e.root /\ e.twin.at < e.at /\ IsHeard(e.twin))
    BY <1>1, <1>2
  <2>. QED BY <2>1, HeardStep
<1>4. ipStage'[p] = "publishing" => Left(signed[p])'
  <2> SUFFICES ASSUME ipStage'[p] = "publishing" PROVE Left(signed[p])'
    OBVIOUS
  <2>1. Len(events) # 1 /\ signed'[p] = Tail(events)
    BY <1>1 DEF ProvenanceInv
  <2>2. PICK key, twin : \E at \in Nat :
          e = TwinBinding(key, twin, at)
          /\ Tail(events) = <<CreationReceipt(key, TwinBinding(key, twin, at), at + 1)>>
    BY <1>2, <2>1
  <2>3. PICK at \in Nat :
          e = TwinBinding(key, twin, at)
          /\ Tail(events) = <<CreationReceipt(key, TwinBinding(key, twin, at), at + 1)>>
    BY <2>2
  <2>4. IsHeard(TwinBinding(key, twin, at))'
    BY <1>3, <2>3
  <2>. QED BY <2>1, <2>3, <2>4 DEF Left
<1>5. ASSUME NEW q \in Provers \ {p}, ipStage'[q] = "publishing" PROVE Left(signed[q])'
  <2>1. Left(signed[q]) /\ signed'[q] = signed[q]
    BY <1>1, <1>5 DEF ProvenanceInv
  <2>. QED BY <1>3, <2>1 DEF Left
<1>. QED BY <1>1, <1>3, <1>4, <1>5 DEF ProvenanceInv

LEMMA ProvenanceInductive == ProvenanceInv /\ [ProvenanceNext]_provenanceVars => ProvenanceInv'
<1> SUFFICES ASSUME ProvenanceInv, [ProvenanceNext]_provenanceVars PROVE ProvenanceInv'
  OBVIOUS
<1>1. CASE SecondPasses \/ UNCHANGED provenanceVars
  BY <1>1 DEF SecondPasses, provenanceVars, ProvenanceInv, Left, IsHeard, Bound
<1>2. ASSUME NEW p \in Provers, PublishFails(p)
      PROVE  ProvenanceInv'
  BY <1>2 DEF PublishFails, Unpublished, ProvenanceInv, Left, IsHeard, Bound
<1>. QED BY <1>1, <1>2, SignStep, PublishStep DEF ProvenanceNext, ProvenanceStep

-----------------------------------------------------------------------------
(* The command line: a step is one of one kind of command.                 *)

LEMMA OneKind ==
  [Next]_vars => /\ [StreamNext]_streamVars /\ [DownloadNext]_downloadVars
                 /\ [ProvenanceNext]_provenanceVars
BY DEF Next, vars, Viewing, Downloading, Sealing, Calling

(* A viewer sees the events of its filter in order, and misses only what the
   channel dropped (events.rs, ws.rs, the SSE handlers): for any viewers, events
   and capacity. *)
THEOREM StreamTheorem == Spec => []StreamsInOrder
<1>1. StreamInv => StreamsInOrder
  <2> SUFFICES ASSUME StreamInv, NEW v \in Viewers, ViewerInOrder(v)
               PROVE  /\ \A i, k \in DOMAIN Got(v) : i < k => Got(v)[i] < Got(v)[k]
                      /\ {Got(v)[i] : i \in DOMAIN Got(v)} = Due(v)
                      /\ \A i \in skipped[v] : i <= Len(sent) - Capacity
    BY DEF StreamsInOrder, StreamInv, Got
  <2>1. DOMAIN Got(v) = 1..Len(Got(v))
    BY DEF Got, StreamInv, StreamShape
  <2>. QED BY <2>1 DEF ViewerInOrder, Increasing, Members
<1>2. Init => StreamInv
  BY StreamInitially DEF Init
<1>3. StreamInv /\ [Next]_vars => StreamInv'
  BY StreamInductive, OneKind
<1>. QED BY <1>1, <1>2, <1>3, PTL DEF Spec

(* A file that all who wrote it at once report whole, and were sent the same, is
   what they were sent (stream_splat, ws.rs): for any downloads and splats. *)
THEOREM DownloadTheorem == Spec => []DownloadIsWhole
<1>1. DownloadInv => DownloadIsWhole
  <2> SUFFICES ASSUME DownloadInv, NEW p \in Paths, NEW c \in writers[p],
                      \A d \in writers[p] : stage[d] = "reported" /\ stream[d] = stream[c]
               PROVE  local[p] = stream[c]
    BY DEF DownloadIsWhole
  <2> DEFINE s == stream[c]
  <2>1. s \in Seq(Chunks) /\ \A d \in writers[p] : d \in Downloads /\ offset[d] = Len(s)
    BY DEF DownloadInv, DownloadShape, WritersKnown
  <2>2. PICK d \in writers[p] : Stands(p, d, s)
    BY <2>1 DEF DownloadInv, LastOpenerStands, Sent
  <2>3. local[p] \in Seq(Chunks)
    BY DEF DownloadInv, DownloadShape
  <2>4. Len(local[p]) = Len(s) /\ \A i \in 1..Len(s) : local[p][i] = s[i]
    BY <2>1, <2>2, <2>3 DEF Stands
  <2> HIDE DEF s
  <2>5. local[p] = s
    BY <2>1, <2>3, <2>4
  <2>. QED BY <2>5 DEF s
<1>2. Init => DownloadInv
  BY DownloadInitially DEF Init
<1>3. DownloadInv /\ [Next]_vars => DownloadInv'
  BY DownloadInductive, OneKind
<1>. QED BY <1>1, <1>2, <1>3, PTL DEF Spec

(* A relay hears a receipt after its binding, which is of the same root and
   earlier (seal_gaussian_splat, publish_nostr): for any commands, keys, twins
   and failures. *)
THEOREM ProvenanceTheorem == Spec => []ReceiptFollowsBinding
<1>1. ProvenanceInv => ReceiptFollowsBinding
  <2> SUFFICES ASSUME ProvenanceInv PROVE ReceiptFollowsBinding
    OBVIOUS
  <2>1. DOMAIN heard = 1..Len(heard)
    BY DEF ProvenanceInv
  <2>. QED BY <2>1 DEF ProvenanceInv, Bound, ReceiptFollowsBinding
<1>2. Init => ProvenanceInv
  BY ProvenanceInitially DEF Init
<1>3. ProvenanceInv /\ [Next]_vars => ProvenanceInv'
  BY ProvenanceInductive, OneKind
<1>. QED BY <1>1, <1>2, <1>3, PTL DEF Spec
=============================================================================
