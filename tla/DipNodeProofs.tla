---------------------------- MODULE DipNodeProofs ---------------------------
(* Proofs about DipNode, for every set of envelopes, of tasks, and every   *)
(* capacity of the channel.                                                *)
EXTENDS DipNode, FiniteSetTheorems, SequenceTheorems, TLAPS

(* The part of the type invariant that counting answers needs. *)
TaskTypeOK ==
  /\ task \in [Tasks -> TaskState]
  /\ fresh \in Nat
  /\ queue \in Seq(Item)
  /\ hand \in [Sources -> Seq(Mail)]
  /\ mailbox \in Seq(Mail)
  /\ answered \in [Mail -> Nat] /\ handled \in [Mail -> Nat]

(* The records the steps of a task put in place of the old one. *)
LEMMA IdleIsState == Idle \in TaskState
BY DEF Idle, TaskState

LEMMA StartIsState ==
  /\ \A e \in Mail, s \in Sources :
       [Idle EXCEPT !.pc = "handle", !.src = s, !.env = e] \in TaskState
  /\ \A e \in Mail : [Idle EXCEPT !.pc = "handle", !.env = e] \in TaskState
  /\ \A n \in Nat : [Idle EXCEPT !.pc = "route", !.id = n, !.net = "nostr"] \in TaskState
BY DEF Idle, TaskState

LEMMA StepIsState ==
  ASSUME NEW s \in TaskState
  PROVE  /\ \A n \in Nat :
              [s EXCEPT !.pc = "route", !.id = n, !.net = "vantage"] \in TaskState
         /\ [s EXCEPT !.pc = "forward"] \in TaskState
BY DEF TaskState

(* Counting for an envelope; for none it changes nothing. *)
LEMMA CountType ==
  ASSUME NEW f \in [Mail -> Nat], NEW e
  PROVE  [f EXCEPT ![e] = @ + 1] \in [Mail -> Nat]
<1>1. CASE e \in Mail
  <2>1. f[e] + 1 \in Nat
    BY <1>1
  <2>2. QED BY <1>1, <2>1
<1>2. CASE e \notin Mail
  BY <1>2
<1>3. QED BY <1>1, <1>2

LEMMA InitTaskType == Init => TaskTypeOK
BY IdleIsState DEF Init, TaskTypeOK

LEMMA FinishTaskType ==
  ASSUME TaskTypeOK, NEW t \in Tasks, Finish(t)
  PROVE  task' \in [Tasks -> TaskState]
BY IdleIsState DEF TaskTypeOK, Finish

(* The steps of one task keep the types. *)
LEMMA NodeTaskType ==
  ASSUME TaskTypeOK, NEW t \in Tasks, Node(t)
  PROVE  TaskTypeOK'
<1>0. task[t] \in TaskState
  BY DEF TaskTypeOK
<1>1. CASE Handle(t)
  <2>1. CASE Answerable(task[t].env)
    <3>1. task' \in [Tasks -> TaskState]
      <4>1. task' = [task EXCEPT ![t] = [task[t] EXCEPT !.pc = "route", !.id = fresh,
                                                        !.net = "vantage"]]
        BY <1>1, <2>1, Zenon DEF Handle, ReplyNetwork
      <4>2. [task[t] EXCEPT !.pc = "route", !.id = fresh, !.net = "vantage"] \in TaskState
        BY <1>0, StepIsState DEF TaskTypeOK
      <4>3. QED BY <4>1, <4>2 DEF TaskTypeOK
    <3>2. fresh' \in Nat
      BY <1>1, <2>1 DEF TaskTypeOK, Handle
    <3>3. handled' = [handled EXCEPT ![task[t].env] = @ + 1]
      BY <1>1, <2>1 DEF Handle
    <3>4. handled' \in [Mail -> Nat]
      BY <3>3, CountType DEF TaskTypeOK
    <3>5. QED BY <1>1, <3>1, <3>2, <3>4 DEF TaskTypeOK, Handle
  <2>2. CASE ~Answerable(task[t].env)
    BY <1>1, <2>2, FinishTaskType DEF TaskTypeOK, Handle
  <2>3. QED BY <2>1, <2>2
<1>2. CASE Route(t)
  <2>1. task' \in [Tasks -> TaskState]
    BY <1>0, <1>2, StepIsState, FinishTaskType DEF TaskTypeOK, Route
  <2>2. QED BY <1>2, <2>1 DEF TaskTypeOK, Route
<1>3. CASE Forward(t)
  <2>1. answered' \in [Mail -> Nat]
    <3>1. \/ answered' = [answered EXCEPT ![task[t].env] = @ + 1]
          \/ answered' = answered
      BY <1>3 DEF Forward
    <3>2. [answered EXCEPT ![task[t].env] = @ + 1] \in [Mail -> Nat]
      BY CountType DEF TaskTypeOK
    <3>3. QED BY <3>1, <3>2 DEF TaskTypeOK
  <2>2. QED BY <1>3, <2>1, FinishTaskType DEF TaskTypeOK, Forward
<1>4. QED BY <1>1, <1>2, <1>3 DEF Node

LEMMA NextTaskType == TaskTypeOK /\ [Next]_vars => TaskTypeOK'
<1> SUFFICES ASSUME TaskTypeOK, [Next]_vars PROVE TaskTypeOK'
  OBVIOUS
<1>1. CASE UNCHANGED vars
  BY <1>1 DEF TaskTypeOK, vars
<1>2. CASE PollVantage
  <2>1. PICK got \in {mailbox, <<>>} : hand' = [hand EXCEPT !["vantage"] = got]
    BY <1>2, Zenon DEF PollVantage
  <2>2. mailbox \in Seq(Mail) /\ <<>> \in Seq(Mail)
    BY DEF TaskTypeOK
  <2>3. got \in Seq(Mail) /\ mailbox' \in Seq(Mail)
    BY <1>2, <2>2 DEF PollVantage
  <2>4. hand' \in [Sources -> Seq(Mail)]
    BY <2>1, <2>3 DEF TaskTypeOK
  <2>5. QED BY <1>2, <2>3, <2>4 DEF TaskTypeOK, PollVantage
<1>3. CASE Receive
  <2>1. Head(queue) \in Item /\ Tail(queue) \in Seq(Item)
    BY <1>3 DEF TaskTypeOK, Receive
  <2>2. Head(queue).src \in Sources /\ Head(queue).env \in Mail
    BY <2>1 DEF Item
  <2>3. QED BY <1>3, <2>1, <2>2, StartIsState DEF TaskTypeOK, Receive
<1>4. ASSUME NEW e \in Mail, Mailed(e) PROVE TaskTypeOK'
  BY <1>4 DEF TaskTypeOK, Mailed
<1>5. ASSUME NEW e \in Mail, NEW to, PollMesh(e, to) PROVE TaskTypeOK'
  <2>1. <<e>> \in Seq(Mail) /\ <<>> \in Seq(Mail)
    OBVIOUS
  <2>2. \/ hand' = [hand EXCEPT !["mesh"] = <<e>>]
        \/ hand' = [hand EXCEPT !["mesh"] = <<>>]
    BY <1>5, Zenon DEF PollMesh
  <2>3. hand' \in [Sources -> Seq(Mail)]
    BY <2>1, <2>2 DEF TaskTypeOK
  <2>4. QED BY <1>5, <2>3 DEF TaskTypeOK, PollMesh
<1>6. ASSUME NEW s \in Sources, Push(s) PROVE TaskTypeOK'
  <2>1. hand[s] \in Seq(Mail) /\ Head(hand[s]) \in Mail /\ Tail(hand[s]) \in Seq(Mail)
    BY <1>6 DEF TaskTypeOK, Push
  <2>2. [src |-> s, env |-> Head(hand[s])] \in Item
    BY <2>1 DEF Item
  <2>3. QED BY <1>6, <2>1, <2>2 DEF TaskTypeOK, Push
<1>7. ASSUME NEW t \in Requests, SendReceipt(t) PROVE TaskTypeOK'
  <2>1. [Idle EXCEPT !.pc = "route", !.id = fresh, !.net = "nostr"] \in TaskState
    BY StartIsState DEF TaskTypeOK
  <2>2. task' \in [Tasks -> TaskState]
    BY <1>7, <2>1 DEF TaskTypeOK, SendReceipt
  <2>3. QED BY <1>7, <2>2 DEF TaskTypeOK, SendReceipt
<1>8. ASSUME NEW t \in Requests, NEW e \in Mail, Inbound(t, e) PROVE TaskTypeOK'
  BY <1>8, StartIsState DEF TaskTypeOK, Inbound
<1>9. QED BY <1>1, <1>2, <1>3, <1>4, <1>5, <1>6, <1>7, <1>8, NodeTaskType DEF Next

-----------------------------------------------------------------------------
(* Tasks that built an answer to e and did not send it. *)
Pending(e) == {t \in Tasks : task[t].pc \in {"route", "forward"} /\ task[t].env = e}

Counted(e) ==
  /\ IsFiniteSet(Pending(e))
  /\ answered[e] + Cardinality(Pending(e)) <= handled[e]

(* The strengthening of AnsweredOnce: an answer still to be sent is one    *)
(* that Vantage cannot have.                                               *)
AnswerInv ==
  /\ TaskTypeOK
  /\ \A e \in Mail : Counted(e)

(* A step that neither builds nor delivers an answer. *)
LEMMA NothingBuilt ==
  ASSUME AnswerInv, UNCHANGED <<answered, handled>>, NEW e \in Mail,
         Pending(e)' \subseteq Pending(e)
  PROVE  Counted(e)'
<1>1. IsFiniteSet(Pending(e)) /\ answered[e] + Cardinality(Pending(e)) <= handled[e]
  BY DEF AnswerInv, Counted
<1>2. IsFiniteSet(Pending(e)') /\ Cardinality(Pending(e)') <= Cardinality(Pending(e))
  BY <1>1, FS_Subset
<1>3. Cardinality(Pending(e)) \in Nat /\ Cardinality(Pending(e)') \in Nat
  BY <1>1, <1>2, FS_CardinalityType
<1>4. answered[e] \in Nat /\ handled[e] \in Nat
  BY DEF AnswerInv, TaskTypeOK
<1>5. answered'[e] = answered[e] /\ handled'[e] = handled[e]
  OBVIOUS
<1>6. answered'[e] + Cardinality(Pending(e)') <= handled'[e]
  BY <1>1, <1>2, <1>3, <1>4, <1>5
<1>7. QED BY <1>2, <1>6 DEF Counted

LEMMA FinishShrinks ==
  ASSUME TaskTypeOK, NEW t \in Tasks, Finish(t), NEW e
  PROVE  Pending(e)' = Pending(e) \ {t}
BY DEF TaskTypeOK, Finish, Pending, Idle

(* Building an answer to e counts one handling and one pending answer. *)
LEMMA HandleCounts ==
  ASSUME AnswerInv, NEW t \in Tasks, Handle(t), NEW e \in Mail
  PROVE  Counted(e)'
<1>1. CASE ~Answerable(task[t].env)
  <2>1. Finish(t) /\ UNCHANGED <<answered, handled>>
    BY <1>1 DEF Handle
  <2>2. Pending(e)' \subseteq Pending(e)
    BY <2>1, FinishShrinks DEF AnswerInv
  <2>3. QED BY <2>1, <2>2, NothingBuilt
<1>2. CASE Answerable(task[t].env)
  <2>1. /\ task' = [task EXCEPT ![t] = [task[t] EXCEPT !.pc = "route", !.id = fresh,
                                                        !.net = "vantage"]]
        /\ handled' = [handled EXCEPT ![task[t].env] = @ + 1]
        /\ UNCHANGED answered
        /\ task[t].pc = "handle"
    BY <1>2, Zenon DEF Handle, ReplyNetwork
  <2>2. task[t] \in TaskState
    BY DEF AnswerInv, TaskTypeOK
  <2>3. /\ [task[t] EXCEPT !.pc = "route", !.id = fresh, !.net = "vantage"].pc = "route"
        /\ [task[t] EXCEPT !.pc = "route", !.id = fresh, !.net = "vantage"].env = task[t].env
    BY <2>2 DEF TaskState
  <2>4. /\ task'[t].pc = "route" /\ task'[t].env = task[t].env
        /\ \A u \in Tasks \ {t} : task'[u] = task[u]
    BY <2>1, <2>3 DEF AnswerInv, TaskTypeOK
  <2>5. CASE task[t].env # e
    <3>1. Pending(e)' \subseteq Pending(e)
      BY <2>4, <2>5 DEF Pending
    <3>2. handled'[e] = handled[e]
      BY <2>1, <2>5 DEF AnswerInv, TaskTypeOK
    <3>3. Pending(e)' = Pending(e)
      BY <2>1, <2>4, <2>5 DEF Pending
    <3>4. QED BY <2>1, <3>2, <3>3 DEF AnswerInv, Counted
  <2>6. CASE task[t].env = e
    <3>1. Pending(e)' = Pending(e) \union {t} /\ t \notin Pending(e)
      BY <2>1, <2>4, <2>6 DEF Pending
    <3>2. IsFiniteSet(Pending(e)) /\ answered[e] + Cardinality(Pending(e)) <= handled[e]
      BY DEF AnswerInv, Counted
    <3>3. /\ IsFiniteSet(Pending(e)')
          /\ Cardinality(Pending(e)') = Cardinality(Pending(e)) + 1
      BY <3>1, <3>2, FS_AddElement
    <3>4. handled'[e] = handled[e] + 1 /\ answered'[e] = answered[e]
      BY <2>1, <2>6 DEF AnswerInv, TaskTypeOK
    <3>5. answered[e] \in Nat /\ handled[e] \in Nat /\ Cardinality(Pending(e)) \in Nat
      BY <3>2, FS_CardinalityType DEF AnswerInv, TaskTypeOK
    <3>6. answered'[e] + Cardinality(Pending(e)') <= handled'[e]
      BY <3>2, <3>3, <3>4, <3>5
    <3>7. QED BY <3>3, <3>6 DEF Counted
  <2>7. QED BY <2>5, <2>6
<1>3. QED BY <1>1, <1>2

(* Routing drops an answer or leaves it pending. *)
LEMMA RouteCounts ==
  ASSUME AnswerInv, NEW t \in Tasks, Route(t), NEW e \in Mail
  PROVE  Counted(e)'
<1>1. UNCHANGED <<answered, handled>> /\ task[t].pc = "route"
  BY DEF Route
<1>2. \/ Finish(t)
      \/ task' = [task EXCEPT ![t] = [task[t] EXCEPT !.pc = "forward"]]
  BY DEF Route
<1>3. CASE Finish(t)
  BY <1>1, <1>3, FinishShrinks, NothingBuilt DEF AnswerInv
<1>4. CASE task' = [task EXCEPT ![t] = [task[t] EXCEPT !.pc = "forward"]]
  <2>1. [task[t] EXCEPT !.pc = "forward"].env = task[t].env
    BY DEF AnswerInv, TaskTypeOK, TaskState
  <2>2. task'[t].env = task[t].env /\ \A u \in Tasks \ {t} : task'[u] = task[u]
    BY <1>4, <2>1 DEF AnswerInv, TaskTypeOK
  <2>3. Pending(e)' \subseteq Pending(e)
    BY <1>1, <2>2 DEF Pending
  <2>4. QED BY <1>1, <2>3, NothingBuilt
<1>5. QED BY <1>2, <1>3, <1>4

(* A delivered answer was pending and is so no more. *)
LEMMA ForwardCounts ==
  ASSUME AnswerInv, NEW t \in Tasks, Forward(t), NEW e \in Mail
  PROVE  Counted(e)'
<1>1. Finish(t) /\ task[t].pc = "forward" /\ UNCHANGED handled
  BY DEF Forward
<1>2. Pending(e)' = Pending(e) \ {t}
  BY <1>1, FinishShrinks DEF AnswerInv
<1>3. CASE UNCHANGED answered
  BY <1>1, <1>2, <1>3, NothingBuilt
<1>4. CASE answered' = [answered EXCEPT ![task[t].env] = @ + 1]
  <2>1. CASE task[t].env # e
    <3>1. answered'[e] = answered[e] /\ handled'[e] = handled[e]
      BY <1>1, <1>4, <2>1 DEF AnswerInv, TaskTypeOK
    <3>2. Pending(e)' = Pending(e)
      BY <1>2, <2>1 DEF Pending
    <3>3. QED BY <3>1, <3>2 DEF AnswerInv, Counted
  <2>2. CASE task[t].env = e
    <3>1. t \in Pending(e)
      BY <1>1, <2>2 DEF Pending
    <3>2. IsFiniteSet(Pending(e)) /\ answered[e] + Cardinality(Pending(e)) <= handled[e]
      BY DEF AnswerInv, Counted
    <3>3. /\ IsFiniteSet(Pending(e)')
          /\ Cardinality(Pending(e)') = Cardinality(Pending(e)) - 1
      BY <1>2, <3>1, <3>2, FS_RemoveElement
    <3>4. answered'[e] = answered[e] + 1 /\ handled'[e] = handled[e]
      BY <1>1, <1>4, <2>2 DEF AnswerInv, TaskTypeOK
    <3>5. answered[e] \in Nat /\ handled[e] \in Nat /\ Cardinality(Pending(e)) \in Nat
      BY <3>2, FS_CardinalityType DEF AnswerInv, TaskTypeOK
    <3>6. answered'[e] + Cardinality(Pending(e)') <= handled'[e]
      BY <3>2, <3>3, <3>4, <3>5
    <3>7. QED BY <3>3, <3>6 DEF Counted
  <2>3. QED BY <2>1, <2>2
<1>5. QED BY <1>3, <1>4 DEF Forward

LEMMA InitAnswerInv == Init => AnswerInv
<1> SUFFICES ASSUME Init PROVE AnswerInv
  OBVIOUS
<1>1. \A e \in Mail : Pending(e) = {}
  BY DEF Init, Pending, Idle
<1>2. \A e \in Mail : answered[e] = 0 /\ handled[e] = 0
  BY DEF Init
<1>3. QED BY <1>1, <1>2, FS_EmptySet, InitTaskType DEF AnswerInv, Counted

(* What is not a step of a task leaves the pending answers as they are. *)
LEMMA NextAnswerInv == AnswerInv /\ [Next]_vars => AnswerInv'
<1> SUFFICES ASSUME AnswerInv, [Next]_vars, NEW e \in Mail PROVE Counted(e)'
  BY NextTaskType DEF AnswerInv
<1>0. TaskTypeOK
  BY DEF AnswerInv
<1>1. CASE UNCHANGED <<task, answered, handled>>
  BY <1>1, NothingBuilt DEF Pending
<1>2. CASE Receive
  <2>1. Pending(e)' \subseteq Pending(e) /\ UNCHANGED <<answered, handled>>
    BY <1>0, <1>2 DEF Receive, Pending, Idle, TaskTypeOK
  <2>2. QED BY <2>1, NothingBuilt
<1>3. ASSUME NEW t \in Requests, SendReceipt(t) PROVE Counted(e)'
  <2>1. Pending(e)' \subseteq Pending(e) /\ UNCHANGED <<answered, handled>>
    BY <1>0, <1>3, DipAssumption DEF SendReceipt, Pending, Idle, TaskTypeOK
  <2>2. QED BY <2>1, NothingBuilt
<1>4. ASSUME NEW t \in Requests, NEW m \in Mail, Inbound(t, m) PROVE Counted(e)'
  <2>1. Pending(e)' \subseteq Pending(e) /\ UNCHANGED <<answered, handled>>
    BY <1>0, <1>4 DEF Inbound, Pending, Idle, TaskTypeOK
  <2>2. QED BY <2>1, NothingBuilt
<1>5. ASSUME NEW t \in Tasks, Node(t) PROVE Counted(e)'
  BY <1>5, HandleCounts, RouteCounts, ForwardCounts DEF Node
<1>6. CASE UNCHANGED vars
  BY <1>1, <1>6 DEF vars
<1>7. CASE PollVantage
  BY <1>1, <1>7 DEF PollVantage
<1>8. ASSUME NEW m \in Mail, Mailed(m) PROVE Counted(e)'
  BY <1>1, <1>8 DEF Mailed
<1>9. ASSUME NEW m \in Mail, NEW to, PollMesh(m, to) PROVE Counted(e)'
  BY <1>1, <1>9 DEF PollMesh
<1>10. ASSUME NEW s \in Sources, Push(s) PROVE Counted(e)'
  BY <1>1, <1>10 DEF Push
<1>11. QED BY <1>2, <1>3, <1>4, <1>5, <1>6, <1>7, <1>8, <1>9, <1>10 DEF Next

LEMMA AnswerInvImplies == AnswerInv => AnsweredOnce
<1> SUFFICES ASSUME AnswerInv, NEW e \in Mail PROVE answered[e] <= handled[e]
  BY DEF AnsweredOnce
<1>1. answered[e] \in Nat /\ handled[e] \in Nat
  BY DEF AnswerInv, TaskTypeOK
<1>2. IsFiniteSet(Pending(e)) /\ answered[e] + Cardinality(Pending(e)) <= handled[e]
  BY DEF AnswerInv, Counted
<1>3. Cardinality(Pending(e)) \in Nat
  BY <1>2, FS_CardinalityType
<1>4. QED BY <1>1, <1>2, <1>3

(* However many requests run at once and whatever POSTs are lost, Vantage  *)
(* gets no more answers to a request than the times the node handled it.   *)
THEOREM AnsweredOnceHolds == Spec => []AnsweredOnce
<1>1. Init => AnswerInv
  BY InitAnswerInv
<1>2. AnswerInv /\ [Next]_vars => AnswerInv'
  BY NextAnswerInv
<1>3. AnswerInv => AnsweredOnce
  BY AnswerInvImplies
<1>4. QED BY <1>1, <1>2, <1>3, PTL DEF Spec
-----------------------------------------------------------------------------
(* Order.  Only a push adds to what is inside, at its end; all else moves  *)
(* an envelope along inside, or fetches more when nothing is held.         *)

LoopState ==
  /\ hand \in [Sources -> Seq(Mail)] /\ taken \in [Sources -> Seq(Mail)]
  /\ queue \in Seq(Item) /\ done \in Seq(Item) /\ mailbox \in Seq(Mail)
  /\ DOMAIN task = Tasks
  /\ task[Loop].pc # "idle" => task[Loop].src \in Sources /\ task[Loop].env \in Mail

OrderInv == LoopState /\ FetchedInOrder

LEMMA FromFinite ==
  ASSUME NEW q \in Seq(Item), NEW s, NEW n
  PROVE  /\ IsFiniteSet(From(q, s)) /\ Cardinality(From(q, s)) \in Nat
         /\ IsFiniteSet({i \in From(q, s) : i <= n})
         /\ Cardinality({i \in From(q, s) : i <= n}) \in Nat
         /\ Cardinality({i \in From(q, s) : i <= n}) <= Cardinality(From(q, s))
<1>1. IsFiniteSet(1..Len(q)) /\ From(q, s) \in SUBSET (1..Len(q))
  BY FS_Interval DEF From
<1>2. IsFiniteSet(From(q, s))
  BY <1>1, FS_Subset
<1>3. {i \in From(q, s) : i <= n} \in SUBSET From(q, s)
  OBVIOUS
<1>4. /\ IsFiniteSet({i \in From(q, s) : i <= n})
      /\ Cardinality({i \in From(q, s) : i <= n}) <= Cardinality(From(q, s))
  BY <1>2, <1>3, FS_Subset
<1>. QED BY <1>2, <1>4, FS_CardinalityType

(* Of an item that is in the sequence at least one is counted. *)
LEMMA Counts ==
  ASSUME NEW q \in Seq(Item), NEW s, NEW n \in From(q, s)
  PROVE  Cardinality({i \in From(q, s) : i <= n}) >= 1
<1> DEFINE some == {i \in From(q, s) : i <= n}
<1>1. n \in some
  BY DEF From
<1>2. IsFiniteSet(some) /\ Cardinality(some) \in Nat
  BY FromFinite
<1> HIDE DEF some
<1>3. Cardinality(some) # 0
  BY <1>1, <1>2, FS_EmptySet
<1>4. Cardinality(some) >= 1
  BY <1>2, <1>3
<1>. QED BY <1>4 DEF some

(* What is fetched when nothing is held comes behind what came before. *)
LEMMA OrderFetch ==
  ASSUME NEW q \in Seq(Item), NEW s, NEW fetched \in Seq(Mail), NEW got \in Seq(Mail),
         InOrder(q, s, fetched, <<>>)
  PROVE  InOrder(q, s, fetched \o got, got)
<1> DEFINE all == Cardinality(From(q, s))
           count(n) == Cardinality({i \in From(q, s) : i <= n})
<1>1. /\ all \in Nat /\ Len(fetched) = all /\ Len(got) \in Nat
      /\ \A i \in From(q, s) : q[i].env = fetched[count(i)]
  <2>1. all \in Nat
    BY FromFinite
  <2>2. Len(fetched) = all + Len(<<>>) /\ \A i \in From(q, s) : q[i].env = fetched[count(i)]
    BY Zenon DEF InOrder
  <2> HIDE DEF all
  <2>. QED BY <2>1, <2>2
<1>2. ASSUME NEW i \in From(q, s) PROVE count(i) \in 1..all
  <2>1. count(i) \in Nat /\ count(i) <= all /\ all \in Nat
    BY FromFinite
  <2>2. count(i) >= 1
    BY Counts
  <2> HIDE DEF all, count
  <2>. QED BY <2>1, <2>2
<1> HIDE DEF all, count
<1>3. /\ Len(fetched \o got) = all + Len(got)
      /\ \A n \in 1..all : (fetched \o got)[n] = fetched[n]
      /\ \A i \in 1..Len(got) : (fetched \o got)[all + i] = got[i]
  BY <1>1
<1>. QED BY <1>1, <1>2, <1>3 DEF InOrder, all, count

(* A push takes what is held first and puts it behind what is inside. *)
LEMMA OrderPush ==
  ASSUME NEW q \in Seq(Item), NEW s \in Sources, NEW fetched \in Seq(Mail), NEW held \in Seq(Mail),
         InOrder(q, s, fetched, held), held # <<>>
  PROVE  InOrder(Append(q, [src |-> s, env |-> Head(held)]), s, fetched, Tail(held))
<1> DEFINE item == [src |-> s, env |-> Head(held)]
           r == Append(q, item)
           m == Len(q) + 1
<1>1. item \in Item /\ item.src = s /\ item.env = held[1]
  BY DEF Item
<1> HIDE DEF item
<1>2. /\ r \in Seq(Item) /\ Len(q) \in Nat /\ Len(r) = m /\ r[m] = item
      /\ \A i \in 1..Len(q) : r[i] = q[i]
  BY <1>1
<1> HIDE DEF r
<1>3. From(r, s) = From(q, s) \cup {m} /\ m \notin From(q, s)
  BY <1>1, <1>2 DEF From
<1>4. Cardinality(From(r, s)) = Cardinality(From(q, s)) + 1
  BY <1>3, FromFinite, FS_AddElement
<1>5. /\ \A i \in From(q, s) : {j \in From(r, s) : j <= i} = {j \in From(q, s) : j <= i}
      /\ {j \in From(r, s) : j <= m} = From(r, s)
  BY <1>2, <1>3 DEF From
<1>6. /\ Len(held) >= 1 /\ Len(held) \in Nat /\ Len(Tail(held)) = Len(held) - 1
      /\ \A i \in 1..Len(Tail(held)) : Tail(held)[i] = held[i + 1]
  OBVIOUS
<1>7. /\ Len(fetched) = Cardinality(From(q, s)) + Len(held)
      /\ \A i \in From(q, s) : q[i].env = fetched[Cardinality({j \in From(q, s) : j <= i})]
      /\ \A i \in 1..Len(held) : held[i] = fetched[Cardinality(From(q, s)) + i]
      /\ Cardinality(From(q, s)) \in Nat
  BY FromFinite DEF InOrder
<1>8. ASSUME NEW i \in From(r, s)
      PROVE  r[i].env = fetched[Cardinality({j \in From(r, s) : j <= i})]
  <2>1. CASE i \in From(q, s)
    <3>1. r[i] = q[i]
      BY <1>2, <2>1 DEF From
    <3>. QED BY <1>5, <1>7, <2>1, <3>1
  <2>2. CASE i = m
    <3>1. {j \in From(r, s) : j <= i} = From(r, s) /\ r[i].env = held[1]
      BY <1>1, <1>2, <1>5, <2>2
    <3>2. held[1] = fetched[Cardinality(From(q, s)) + 1]
      BY <1>6, <1>7
    <3>. QED BY <1>4, <3>1, <3>2
  <2>. QED BY <1>3, <2>1, <2>2
<1>9. Len(fetched) = Cardinality(From(r, s)) + Len(Tail(held))
  BY <1>4, <1>6, <1>7
<1>10. \A i \in 1..Len(Tail(held)) : Tail(held)[i] = fetched[Cardinality(From(r, s)) + i]
  <2> TAKE i \in 1..Len(Tail(held))
  <2>1. i + 1 \in 1..Len(held) /\ i \in Nat
    BY <1>6
  <2>2. Tail(held)[i] = fetched[Cardinality(From(q, s)) + (i + 1)]
    BY <1>6, <1>7, <2>1
  <2>3. Cardinality(From(q, s)) + (i + 1) = Cardinality(From(r, s)) + i
    BY <1>4, <1>7, <2>1
  <2>. QED BY <2>2, <2>3
<1>11. InOrder(r, s, fetched, Tail(held))
  BY <1>8, <1>9, <1>10 DEF InOrder
<1>. QED BY <1>11 DEF r, item

(* ... and the other source does not notice. *)
LEMMA OrderOther ==
  ASSUME NEW q \in Seq(Item), NEW s, NEW fetched, NEW held, NEW item \in Item, item.src # s,
         InOrder(q, s, fetched, held)
  PROVE  InOrder(Append(q, item), s, fetched, held)
<1> DEFINE r == Append(q, item)
<1>1. Len(q) \in Nat /\ Len(r) = Len(q) + 1 /\ r[Len(q) + 1] = item /\ \A i \in 1..Len(q) : r[i] = q[i]
  OBVIOUS
<1> HIDE DEF r
<1>2. From(r, s) = From(q, s) /\ \A i \in From(q, s) : r[i] = q[i]
  BY <1>1 DEF From
<1>3. InOrder(r, s, fetched, held)
  BY <1>2 DEF InOrder
<1>. QED BY <1>3 DEF r

(* What is inside, whatever the loop is at. *)
LEMMA InsideIsItems == LoopState => Inside \in Seq(Item) /\ InHand \in Seq(Item)
<1> SUFFICES ASSUME LoopState PROVE Inside \in Seq(Item) /\ InHand \in Seq(Item)
  OBVIOUS
<1>1. InHand \in Seq(Item)
  <2>1. CASE task[Loop].pc = "idle"
    BY <2>1 DEF InHand
  <2>2. CASE task[Loop].pc # "idle"
    <3>1. [src |-> task[Loop].src, env |-> task[Loop].env] \in Item
      BY <2>2 DEF LoopState, Item
    <3>. QED BY <2>2, <3>1 DEF InHand
  <2>. QED BY <2>1, <2>2
<1>. QED BY <1>1 DEF Inside, LoopState

(* A step that neither fetches nor pushes. *)
LEMMA OrderStays ==
  ASSUME OrderInv, LoopState', Inside' = Inside, UNCHANGED <<taken, hand>>
  PROVE  OrderInv'
BY DEF OrderInv, FetchedInOrder

LEMMA FinishKeepsInside ==
  ASSUME LoopState, NEW t \in Tasks, Finish(t), task[t].pc # "idle", UNCHANGED queue
  PROVE  Inside' = Inside /\ DOMAIN task' = Tasks /\ done' \in Seq(Item)
         /\ (task'[Loop].pc = "idle" \/ task'[Loop] = task[Loop])
<1>1. CASE t = Loop
  <2> DEFINE item == [src |-> task[Loop].src, env |-> task[Loop].env]
  <2>1. item \in Item
    BY <1>1 DEF LoopState, Item
  <2>2. /\ InHand = <<item>> /\ done' = Append(done, item) /\ DOMAIN task' = Tasks
        /\ task'[Loop].pc = "idle" /\ InHand' = <<>>
    BY <1>1 DEF InHand, Finish, LoopState, Idle, Tasks
  <2> HIDE DEF item
  <2>3. done' = done \o <<item>> /\ done' \in Seq(Item)
    BY <2>1, <2>2, AppendIsConcat DEF LoopState
  <2>4. Inside' = (done \o <<item>>) \o queue
    BY <2>2, <2>3, ConcatEmptySeq DEF Inside
  <2>. QED BY <2>2, <2>3, <2>4 DEF Inside
<1>2. CASE t # Loop
  BY <1>2 DEF Finish, LoopState, Inside, InHand, Tasks
<1>. QED BY <1>1, <1>2

(* A task goes on with the same envelope. *)
LEMMA GoesOn ==
  ASSUME LoopState, NEW t \in Tasks, NEW r, task' = [task EXCEPT ![t] = r],
         t = Loop => task[t].pc # "idle" /\ r.pc # "idle" /\ r.src = task[t].src /\ r.env = task[t].env,
         UNCHANGED <<done, queue, hand, taken, mailbox>>
  PROVE  LoopState' /\ Inside' = Inside
<1>1. CASE t = Loop
  BY <1>1 DEF LoopState, Inside, InHand
<1>2. CASE t # Loop
  BY <1>2 DEF LoopState, Inside, InHand, Tasks
<1>. QED BY <1>1, <1>2

LEMMA OrderInitially == Init => OrderInv
<1> SUFFICES ASSUME Init PROVE OrderInv
  OBVIOUS
<1>1. LoopState
  BY DEF Init, LoopState, Idle, Tasks
<1>2. Inside = <<>>
  BY DEF Init, Inside, InHand, Idle, Tasks
<1>3. \A s : From(<<>>, s) = {}
  BY DEF From
<1>4. ASSUME NEW s \in Sources PROVE InOrder(Inside, s, taken[s], hand[s])
  <2>1. taken[s] = <<>> /\ hand[s] = <<>> /\ Len(<<>>) = 0 /\ Cardinality(From(Inside, s)) = 0
        /\ From(Inside, s) = {}
    BY <1>2, <1>3, FS_EmptySet DEF Init
  <2>. QED BY <2>1 DEF InOrder
<1>. QED BY <1>1, <1>4 DEF OrderInv, FetchedInOrder

LEMMA OrderNode ==
  ASSUME OrderInv, TaskTypeOK, NEW t \in Tasks, Node(t)
  PROVE  OrderInv'
<1>0. LoopState /\ task[t] \in TaskState
  BY DEF OrderInv, TaskTypeOK
<1>1. task[t].pc # "idle" /\ UNCHANGED <<mailbox, hand, queue, taken>>
  BY DEF Node, Handle, Route, Forward
<1>2. CASE Finish(t)
  <2>1. LoopState' /\ Inside' = Inside
    BY <1>0, <1>1, <1>2, FinishKeepsInside DEF LoopState
  <2>. QED BY <1>1, <2>1, OrderStays
<1>3. ASSUME NEW r, task' = [task EXCEPT ![t] = r], UNCHANGED done,
             r.pc # "idle", r.src = task[t].src, r.env = task[t].env
      PROVE  OrderInv'
  BY <1>0, <1>1, <1>3, GoesOn, OrderStays
<1>4. CASE Handle(t)
  <2>1. \/ Finish(t)
        \/ /\ task' = [task EXCEPT ![t] = [task[t] EXCEPT !.pc = "route", !.id = fresh, !.net = "vantage"]]
           /\ UNCHANGED done
    BY <1>4, Zenon DEF Handle, ReplyNetwork
  <2> DEFINE r == [task[t] EXCEPT !.pc = "route", !.id = fresh, !.net = "vantage"]
  <2>2. r.pc # "idle" /\ r.src = task[t].src /\ r.env = task[t].env
    BY <1>0 DEF TaskState
  <2> HIDE DEF r
  <2>3. Finish(t) \/ (task' = [task EXCEPT ![t] = r] /\ UNCHANGED done)
    BY <2>1 DEF r
  <2>. QED BY <1>2, <1>3, <2>2, <2>3
<1>5. CASE Route(t)
  <2>1. Finish(t) \/ (task' = [task EXCEPT ![t] = [task[t] EXCEPT !.pc = "forward"]] /\ UNCHANGED done)
    BY <1>5 DEF Route
  <2> DEFINE r == [task[t] EXCEPT !.pc = "forward"]
  <2>2. r.pc # "idle" /\ r.src = task[t].src /\ r.env = task[t].env
    BY <1>0 DEF TaskState
  <2> HIDE DEF r
  <2>3. Finish(t) \/ (task' = [task EXCEPT ![t] = r] /\ UNCHANGED done)
    BY <2>1 DEF r
  <2>. QED BY <1>2, <1>3, <2>2, <2>3
<1>6. CASE Forward(t)
  BY <1>2, <1>6 DEF Forward
<1>. QED BY <1>4, <1>5, <1>6 DEF Node

LEMMA OrderReceive ==
  ASSUME OrderInv, Receive
  PROVE  OrderInv'
<1> DEFINE next == Head(queue)
<1>1. /\ LoopState /\ task[Loop].pc = "idle" /\ next \in Item /\ queue = <<next>> \o Tail(queue)
      /\ Tail(queue) \in Seq(Item) /\ next.src \in Sources /\ next.env \in Mail
  <2>1. queue \in Seq(Item) /\ queue # <<>> /\ task[Loop].pc = "idle" /\ LoopState
    BY DEF OrderInv, LoopState, Receive
  <2>2. next \in Item /\ Tail(queue) \in Seq(Item)
    BY <2>1, HeadTailProperties
  <2>3. queue = <<next>> \o Tail(queue)
    <3> DEFINE one == <<next>> \o Tail(queue)
    <3>1. one \in Seq(Item) /\ Len(one) = Len(queue) /\ \A i \in 1..Len(queue) : one[i] = queue[i]
      BY <2>1, <2>2
    <3> HIDE DEF one
    <3>2. one = queue
      BY <2>1, <3>1, SeqEqual
    <3>. QED BY <3>2 DEF one
  <2>. QED BY <2>1, <2>2, <2>3 DEF Item
<1>2. /\ task'[Loop].pc = "handle" /\ task'[Loop].src = next.src /\ task'[Loop].env = next.env
      /\ DOMAIN task' = Tasks /\ queue' = Tail(queue)
      /\ UNCHANGED <<mailbox, hand, taken, done>>
  BY <1>1 DEF Receive, LoopState, Idle, Tasks
<1>3. LoopState'
  BY <1>1, <1>2 DEF LoopState
<1>4. InHand = <<>> /\ InHand' = <<next>>
  BY <1>1, <1>2 DEF InHand, Item
<1>5. Inside' = Inside
  <2>1. Inside = done \o queue
    BY <1>1, <1>4, ConcatEmptySeq DEF Inside, LoopState
  <2>2. Inside' = (done \o <<next>>) \o Tail(queue)
    BY <1>2, <1>4 DEF Inside
  <2>3. (done \o <<next>>) \o Tail(queue) = done \o (<<next>> \o Tail(queue))
    BY <1>1, ConcatAssociative DEF LoopState
  <2>. QED BY <1>1, <2>1, <2>2, <2>3
<1>. QED BY <1>2, <1>3, <1>5, OrderStays

LEMMA OrderPushed ==
  ASSUME OrderInv, NEW s \in Sources, Push(s)
  PROVE  OrderInv'
<1> DEFINE item == [src |-> s, env |-> Head(hand[s])]
<1>1. /\ LoopState /\ hand[s] \in Seq(Mail) /\ hand[s] # <<>>
      /\ queue' = Append(queue, item) /\ hand' = [hand EXCEPT ![s] = Tail(hand[s])]
      /\ UNCHANGED <<mailbox, task, taken, done>>
  BY DEF OrderInv, LoopState, Push
<1>2. Head(hand[s]) \in Mail /\ Tail(hand[s]) \in Seq(Mail) /\ item \in Item /\ item.src = s
  BY <1>1 DEF Item
<1> HIDE DEF item
<1>3. LoopState'
  BY <1>1, <1>2 DEF LoopState
<1>4. Inside' = Append(Inside, item)
  <2>1. InHand' = InHand /\ InHand \in Seq(Item) /\ Inside \in Seq(Item) /\ done \in Seq(Item)
        /\ queue \in Seq(Item) /\ <<item>> \in Seq(Item) /\ done \o InHand \in Seq(Item)
    BY <1>1, <1>2, InsideIsItems DEF InHand, LoopState
  <2>2. Inside' = (done \o InHand) \o Append(queue, item)
    BY <1>1, <2>1 DEF Inside
  <2>3. Append(queue, item) = queue \o <<item>> /\ Append(Inside, item) = Inside \o <<item>>
    BY <1>2, <2>1, AppendIsConcat
  <2>4. ((done \o InHand) \o queue) \o <<item>> = (done \o InHand) \o (queue \o <<item>>)
    BY <2>1, ConcatAssociative
  <2>. QED BY <2>2, <2>3, <2>4 DEF Inside
<1>5. Inside \in Seq(Item)
  BY <1>1, InsideIsItems
<1>6. ASSUME NEW u \in Sources PROVE InOrder(Inside', u, taken'[u], hand'[u])
  <2>1. InOrder(Inside, u, taken[u], hand[u]) /\ taken[u] \in Seq(Mail)
    BY <1>1 DEF OrderInv, FetchedInOrder, LoopState
  <2>2. CASE u = s
    BY <1>1, <1>4, <1>5, <2>1, <2>2, OrderPush DEF LoopState, item
  <2>3. CASE u # s
    BY <1>1, <1>2, <1>4, <1>5, <2>1, <2>3, OrderOther DEF LoopState
  <2>. QED BY <2>2, <2>3
<1>. QED BY <1>3, <1>6 DEF OrderInv, FetchedInOrder

(* A poll of a source of which nothing is held. *)
LEMMA OrderPolled ==
  ASSUME OrderInv, NEW s \in Sources, hand[s] = <<>>, NEW got \in Seq(Mail),
         hand' = [hand EXCEPT ![s] = got], taken' = [taken EXCEPT ![s] = @ \o got],
         mailbox' \in Seq(Mail), UNCHANGED <<queue, task, done>>
  PROVE  OrderInv'
<1>1. LoopState'
  <2>1. taken[s] \o got \in Seq(Mail)
    BY DEF OrderInv, LoopState
  <2>. QED BY <2>1 DEF OrderInv, LoopState
<1>2. Inside' = Inside /\ Inside \in Seq(Item)
  BY InsideIsItems DEF Inside, InHand, OrderInv
<1>3. ASSUME NEW u \in Sources PROVE InOrder(Inside', u, taken'[u], hand'[u])
  <2>1. InOrder(Inside, u, taken[u], hand[u]) /\ taken[u] \in Seq(Mail)
    BY DEF OrderInv, FetchedInOrder, LoopState
  <2>2. CASE u = s
    BY <1>2, <2>1, <2>2, OrderFetch DEF OrderInv, LoopState
  <2>3. CASE u # s
    BY <1>2, <2>1, <2>3 DEF OrderInv, LoopState
  <2>. QED BY <2>2, <2>3
<1>. QED BY <1>1, <1>3 DEF OrderInv, FetchedInOrder

LEMMA NextOrderInv == TaskTypeOK /\ OrderInv /\ [Next]_vars => OrderInv'
<1> SUFFICES ASSUME TaskTypeOK, OrderInv, [Next]_vars PROVE OrderInv'
  OBVIOUS
<1>0. LoopState
  BY DEF OrderInv
<1>1. CASE UNCHANGED <<mailbox, hand, queue, task, taken, done>>
  <2>1. LoopState' /\ Inside' = Inside
    BY <1>0, <1>1 DEF LoopState, Inside, InHand
  <2>. QED BY <1>1, <2>1, OrderStays
<1>2. CASE PollVantage
  <2>1. PICK got \in {mailbox, <<>>} : /\ hand' = [hand EXCEPT !["vantage"] = got]
                                       /\ taken' = [taken EXCEPT !["vantage"] = @ \o got]
    BY <1>2, Zenon DEF PollVantage
  <2>2. mailbox' = <<>> /\ hand["vantage"] = <<>> /\ UNCHANGED <<queue, task, done>>
    BY <1>2 DEF PollVantage
  <2>3. mailbox \in Seq(Mail) /\ <<>> \in Seq(Mail)
    BY <1>0 DEF LoopState
  <2>4. got \in Seq(Mail) /\ mailbox' \in Seq(Mail)
    BY <2>2, <2>3
  <2>. QED BY <2>1, <2>2, <2>4, OrderPolled DEF Sources
<1>3. ASSUME NEW e \in Mail, NEW to, PollMesh(e, to) PROVE OrderInv'
  <2>1. PICK got \in {<<e>>, <<>>} : /\ hand' = [hand EXCEPT !["mesh"] = got]
                                     /\ taken' = [taken EXCEPT !["mesh"] = @ \o got]
    BY <1>3, Zenon DEF PollMesh
  <2>2. mailbox' = mailbox /\ hand["mesh"] = <<>> /\ UNCHANGED <<queue, task, done>>
    BY <1>3 DEF PollMesh, MeshHeld
  <2>3. <<e>> \in Seq(Mail) /\ <<>> \in Seq(Mail)
    OBVIOUS
  <2>4. got \in Seq(Mail) /\ mailbox' \in Seq(Mail)
    BY <1>0, <2>2, <2>3 DEF LoopState
  <2>. QED BY <2>1, <2>2, <2>4, OrderPolled DEF Sources
<1>4. ASSUME NEW e \in Mail, Mailed(e) PROVE OrderInv'
  <2>1. LoopState' /\ Inside' = Inside /\ UNCHANGED <<taken, hand>>
    BY <1>0, <1>4 DEF Mailed, LoopState, Inside, InHand
  <2>. QED BY <2>1, OrderStays
<1>5. ASSUME NEW t \in Requests, NEW r, task' = [task EXCEPT ![t] = r],
             UNCHANGED <<mailbox, hand, queue, taken, done>>
      PROVE  OrderInv'
  <2>1. t \in Tasks /\ t # Loop
    BY DipAssumption DEF Tasks
  <2>. QED BY <1>0, <1>5, <2>1, GoesOn, OrderStays
<1>6. ASSUME NEW t \in Requests, SendReceipt(t) PROVE OrderInv'
  BY <1>5, <1>6 DEF SendReceipt
<1>7. ASSUME NEW t \in Requests, NEW e \in Mail, Inbound(t, e) PROVE OrderInv'
  BY <1>5, <1>7 DEF Inbound
<1>8. CASE UNCHANGED vars
  BY <1>1, <1>8 DEF vars
<1>. QED
  BY <1>2, <1>3, <1>4, <1>6, <1>7, <1>8, OrderReceive, OrderPushed, OrderNode DEF Next

(* Full channels, held locks and lost answers aside, the envelopes of each *)
(* source are handled in the order they were fetched: for any mail, number *)
(* of requests and capacity.                                               *)
THEOREM FetchedInOrderHolds == Spec => []FetchedInOrder
<1>1. Init => TaskTypeOK /\ OrderInv
  BY InitTaskType, OrderInitially
<1>2. TaskTypeOK /\ OrderInv /\ [Next]_vars => (TaskTypeOK /\ OrderInv)'
  BY NextTaskType, NextOrderInv
<1>3. OrderInv => FetchedInOrder
  BY DEF OrderInv
<1>. QED BY <1>1, <1>2, <1>3, PTL DEF Spec
=============================================================================
