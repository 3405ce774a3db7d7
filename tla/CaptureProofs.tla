--------------------------- MODULE CaptureProofs ---------------------------
(***************************************************************************)
(* Proofs about the two modules that extend CaptureNode: SwarmCapture and  *)
(* TwinPipeline, for any sets of jobs, twins, swarms and directories, any  *)
(* number of frames and any bounds.                                        *)
(***************************************************************************)
EXTENDS SwarmCapture, TwinPipeline, CaptureNodeProofs

-----------------------------------------------------------------------------
(* Swarms.  A node with swarms is still a CaptureNode, and the verdict of  *)
(* a swarm tells the truth.                                                *)
(*                                                                         *)
(* The invariant has two halves.  Shape says how far the handler or the    *)
(* monitor of a swarm has filled its lists.  Truth says that a final       *)
(* status in the job store, and one that a monitor has read, stays         *)
(* justified by the history of the job even after a retry overwrote it.    *)

Monitored == {"starting", "polling", "reporting", "concluding", "over"}

Shape ==
  /\ SwarmTypeOK
  /\ \A s \in Swarms :
       /\ phase[s] = "unused" => Len(child[s]) = 0
       /\ phase[s] = "spawning" => Len(child[s]) > 0
       /\ Len(child[s]) <= want[s]
       /\ Len(seen[s]) <= Len(child[s])
       /\ phase[s] \in Monitored => Len(child[s]) = want[s]
       /\ phase[s] \in {"reporting", "concluding"} =>
            Positions(s, "completed") \union Positions(s, "failed") = 1..Len(child[s])

Justified(j, st) ==
  /\ st = "completed" => twin[j] \in Twins
  /\ st = "failed" => j \in failures

Truth ==
  /\ \A j \in Jobs : Justified(j, jobs[j])
  /\ \A s \in Swarms : \A i \in 1..Len(seen[s]) : Justified(child[s][i], seen[s][i])

-----------------------------------------------------------------------------
(* A node with swarms is a capture node. *)

LEMMA SwarmStepIsNodeStep ==
  ASSUME Shape, [SwarmNext]_allVars
  PROVE  [Next]_vars
<1>1. ASSUME NEW s \in Swarms, NEW n \in 1..MaxDevices, Request(s, n) PROVE UNCHANGED vars
  BY <1>1 DEF Request
<1>2. ASSUME NEW s \in Swarms, HandlerStep(s) PROVE Next \/ UNCHANGED vars
  <2>1. ASSUME NEW j \in Jobs, InsertChild(s, j) PROVE Next
    BY <2>1 DEF InsertChild, Next
  <2>2. CASE SpawnChild(s)
    <3>1. child[s][Len(child[s])] \in Jobs
      BY <2>2 DEF Shape, SwarmTypeOK, SpawnChild
    <3> QED
      BY <2>2, <3>1 DEF SpawnChild, Next
  <2>3. CASE Launched(s)
    BY <2>3 DEF Launched
  <2> QED
    BY <1>2, <2>1, <2>2, <2>3 DEF HandlerStep
<1>3. ASSUME NEW s \in Swarms, Abandon(s) PROVE UNCHANGED vars
  BY <1>3 DEF Abandon
<1>4. ASSUME NEW s \in Swarms, MonitorStep(s) PROVE UNCHANGED vars
  BY <1>4 DEF MonitorStep, MonitorStart, ReadChild, Tally, Report, Conclude, Timeout
<1>5. CASE SwarmRestart
  BY <1>5 DEF SwarmRestart, Next
<1>6. CASE \E j \in Jobs : Capture(j) \/ Retry(j) \/ TaskStep(j)
  BY <1>6 DEF Next
<1>7. CASE UNCHANGED allVars
  BY <1>7 DEF allVars
<1> QED
  BY <1>1, <1>2, <1>3, <1>4, <1>5, <1>6, <1>7 DEF SwarmNext

-----------------------------------------------------------------------------
(* The lists of a swarm. *)

LEMMA PositionsInRange ==
  ASSUME Shape, NEW s \in Swarms, NEW st
  PROVE  Positions(s, st) \subseteq 1..MaxDevices
  BY SwarmAssumption DEF Positions, Shape, SwarmTypeOK

LEMMA ShapeInit == SwarmInit => Shape
  BY SwarmAssumption
     DEF SwarmInit, Shape, SwarmTypeOK, Phases, Entries, Entry, Verdicts, Monitored

LEMMA ShapeStep ==
  ASSUME TypeOK, Shape, [SwarmNext]_allVars
  PROVE  Shape'
<1> USE SwarmAssumption DEF Shape, SwarmTypeOK, Phases, Monitored, Enter, Positions
<1>1. ASSUME NEW s \in Swarms, NEW n \in 1..MaxDevices, Request(s, n) PROVE Shape'
  BY <1>1 DEF Request
<1>2. ASSUME NEW s \in Swarms, NEW j \in Jobs, InsertChild(s, j) PROVE Shape'
  BY <1>2 DEF InsertChild
<1>3. ASSUME NEW s \in Swarms, SpawnChild(s) PROVE Shape'
  BY <1>3 DEF SpawnChild
<1>4. ASSUME NEW s \in Swarms, Launched(s) PROVE Shape'
  BY <1>4 DEF Launched, Entries, Entry
<1>5. ASSUME NEW s \in Swarms, Abandon(s) PROVE Shape'
  BY <1>5 DEF Abandon
<1>6. ASSUME NEW s \in Swarms, MonitorStart(s) PROVE Shape'
  BY <1>6 DEF MonitorStart, Entries, Entry
<1>7. ASSUME NEW s \in Swarms, ReadChild(s) PROVE Shape'
  <2>1. jobs[child[s][Len(seen[s]) + 1]] \in Statuses
    BY <1>7 DEF ReadChild, TypeOK
  <2> QED
    BY <1>7, <2>1 DEF ReadChild
<1>8. ASSUME NEW s \in Swarms, Tally(s) PROVE Shape'
  <2>1. Entry("running", Positions(s, "completed"), Positions(s, "failed")) \in Entries
    BY PositionsInRange DEF Entry, Entries
  <2>2. status' \in [Swarms -> Entries]
    BY <1>8, <2>1 DEF Tally
  <2>3. CASE Positions(s, "completed") \union Positions(s, "failed") = 1..Len(child[s])
    <3> HIDE DEF Positions
    <3>1. /\ phase' = [phase EXCEPT ![s] = "reporting"] /\ phase[s] = "polling"
          /\ UNCHANGED <<child, want, swarmAnnounced, seen, polls>>
      BY <1>8, <2>3 DEF Tally
    <3>2. SwarmTypeOK'
      BY <2>2, <3>1
    <3> USE DEF Positions
    <3> QED
      BY <2>3, <3>1, <3>2
  <2>4. CASE Positions(s, "completed") \union Positions(s, "failed") # 1..Len(child[s])
    <3>1. polls[s] + 1 \in 0..MaxPolls
      BY <1>8 DEF Tally
    <3> HIDE DEF Positions
    <3>2. /\ phase' = phase /\ child' = child /\ want' = want
          /\ swarmAnnounced' = swarmAnnounced
          /\ seen' = [seen EXCEPT ![s] = <<>>]
          /\ polls' = [polls EXCEPT ![s] = polls[s] + 1]
          /\ phase[s] = "polling"
      BY <1>8, <2>4 DEF Tally
    <3>3. SwarmTypeOK'
      BY <2>2, <3>1, <3>2
    <3> USE DEF Positions
    <3> QED
      BY <3>2, <3>3
  <2> QED
    BY <2>3, <2>4
<1>9. ASSUME NEW s \in Swarms, Report(s) PROVE Shape'
  BY <1>9 DEF Report
<1>10. ASSUME NEW s \in Swarms, Conclude(s) PROVE Shape'
  <2>1. ASSUME NEW v \in Verdicts
        PROVE  Entry(v, Positions(s, "completed"), Positions(s, "failed")) \in Entries
    BY PositionsInRange DEF Entry, Entries
  <2>2. status' \in [Swarms -> Entries]
    BY <1>10, <2>1 DEF Conclude, Verdict, Verdicts
  <2> QED
    BY <1>10, <2>2 DEF Conclude
<1>11. ASSUME NEW s \in Swarms, Timeout(s) PROVE Shape'
  BY <1>11 DEF Timeout, Entries, Entry, Verdicts
<1>12. CASE SwarmRestart
  BY <1>12 DEF SwarmRestart, Entries, Entry
<1>13. CASE UNCHANGED swarmVars
  BY <1>13 DEF swarmVars
<1> QED
  BY <1>1, <1>2, <1>3, <1>4, <1>5, <1>6, <1>7, <1>8, <1>9, <1>10, <1>11,
     <1>12, <1>13 DEF SwarmNext, HandlerStep, MonitorStep, allVars
-----------------------------------------------------------------------------
(* What a status stands for. *)

(* A twin is never taken back, nor is a reported failure. *)
LEMMA HistoryGrows ==
  ASSUME TypeOK, [Next]_vars
  PROVE  /\ \A j \in Jobs : twin[j] \in Twins => twin'[j] \in Twins
         /\ failures \subseteq failures'
<1>1. ASSUME NEW j \in Jobs, TaskStep(j)
      PROVE  /\ \A k \in Jobs : twin[k] \in Twins => twin'[k] \in Twins
             /\ failures \subseteq failures'
  BY <1>1 DEF TypeOK, TaskStep, Begin, CaptureFails, CaptureSucceeds, Prove,
              Panic, Open, Write, OpenFails, WriteFails, PushCache, Announce
<1>2. ASSUME NEW j \in Jobs, Capture(j) \/ Insert(j) \/ SpawnTask(j) \/ Retry(j)
      PROVE  UNCHANGED <<twin, failures>>
  BY <1>2 DEF Capture, Insert, SpawnTask, Retry
<1>3. CASE Restart
  BY <1>3 DEF Restart
<1>4. CASE UNCHANGED vars
  BY <1>4 DEF vars
<1> QED
  BY <1>1, <1>2, <1>3, <1>4 DEF Next

(* Justified, after the step. *)
StillJustified(j, st) ==
  /\ st = "completed" => twin'[j] \in Twins
  /\ st = "failed" => j \in failures'

LEMMA JustifiedStays ==
  ASSUME TypeOK, [Next]_vars, NEW j \in Jobs, NEW st, Justified(j, st)
  PROVE  StillJustified(j, st)
  BY HistoryGrows DEF Justified, StillJustified

LEMMA JobsJustified ==
  ASSUME IInv, [Next]_vars, \A j \in Jobs : Justified(j, jobs[j])
  PROVE  \A j \in Jobs : StillJustified(j, jobs'[j])
<1> USE DEF IInv, TypeOK
<1>1. ASSUME NEW j \in Jobs, UNCHANGED jobs PROVE StillJustified(j, jobs'[j])
  BY <1>1, JustifiedStays
<1>2. ASSUME NEW k \in Jobs, Capture(k) \/ Insert(k) \/ Retry(k) \/ Begin(k)
      PROVE  \A j \in Jobs : StillJustified(j, jobs'[j])
  <2>1. \A j \in Jobs \ {k} : jobs'[j] = jobs[j]
    BY <1>2 DEF Capture, Insert, Retry, Begin
  <2>2. jobs'[k] \in {"queued", "running"}
    BY <1>2 DEF Capture, Insert, Retry, Begin
  <2> QED
    BY <2>1, <2>2, JustifiedStays DEF StillJustified
<1>3. ASSUME NEW k \in Jobs, CaptureFails(k)
      PROVE  \A j \in Jobs : StillJustified(j, jobs'[j])
  <2>1. \A j \in Jobs \ {k} : jobs'[j] = jobs[j]
    BY <1>3 DEF CaptureFails
  <2>2. jobs'[k] = "failed" /\ k \in failures'
    BY <1>3 DEF CaptureFails
  <2> QED
    BY <2>1, <2>2, JustifiedStays DEF StillJustified
<1>4. ASSUME NEW k \in Jobs, Prove(k)
      PROVE  \A j \in Jobs : StillJustified(j, jobs'[j])
  <2>1. \A j \in Jobs \ {k} : jobs'[j] = jobs[j]
    BY <1>4 DEF Prove
  <2>2. jobs'[k] = "completed" /\ twin'[k] \in Twins
    BY <1>4 DEF Prove, TwinKnown
  <2> QED
    BY <2>1, <2>2, JustifiedStays DEF StillJustified
<1>5. CASE Restart
  BY <1>5 DEF Restart, StillJustified
<1>6. CASE UNCHANGED jobs
  BY <1>1, <1>6
<1>7. \/ \E k \in Jobs : Capture(k) \/ Insert(k) \/ Retry(k) \/ Begin(k)
      \/ \E k \in Jobs : CaptureFails(k) \/ Prove(k)
      \/ Restart
      \/ UNCHANGED jobs
  BY DEF Next, TaskStep, SpawnTask, CaptureSucceeds, Panic, Open, Write,
         OpenFails, WriteFails, PushCache, Announce, vars
<1> QED
  BY <1>2, <1>3, <1>4, <1>5, <1>6, <1>7

LEMMA SeenJustified ==
  ASSUME IInv, Shape, Truth, [SwarmNext]_allVars, NEW s \in Swarms,
         NEW i \in 1..Len(seen'[s])
  PROVE  StillJustified(child'[s][i], seen'[s][i])
<1> USE DEF Shape, SwarmTypeOK
<1>1. [Next]_vars /\ TypeOK
  BY SwarmStepIsNodeStep DEF IInv
<1>2. ASSUME i \in 1..Len(seen[s]), child'[s][i] = child[s][i], seen'[s][i] = seen[s][i]
      PROVE  StillJustified(child'[s][i], seen'[s][i])
  <2>1. child[s][i] \in Jobs
    BY <1>2
  <2> QED
    BY <1>1, <1>2, <2>1, JustifiedStays DEF Truth
<1>3. CASE seen' = seen /\ child' = child
  BY <1>2, <1>3
<1>4. ASSUME NEW r \in Swarms, NEW j \in Jobs, InsertChild(r, j)
      PROVE  StillJustified(child'[s][i], seen'[s][i])
  BY <1>2, <1>4 DEF InsertChild
<1>5. ASSUME NEW r \in Swarms, ReadChild(r)
      PROVE  StillJustified(child'[s][i], seen'[s][i])
  <2>1. CASE s = r /\ i = Len(seen[s]) + 1
    <3>1. child[s][i] \in Jobs /\ seen'[s][i] = jobs[child[s][i]] /\ child' = child
      BY <1>5, <2>1 DEF ReadChild
    <3> QED
      BY <1>1, <3>1, JustifiedStays DEF Truth
  <2>2. CASE ~(s = r /\ i = Len(seen[s]) + 1)
    BY <1>2, <1>5, <2>2 DEF ReadChild
  <2> QED
    BY <2>1, <2>2
<1>6. ASSUME NEW r \in Swarms, Tally(r)
      PROVE  StillJustified(child'[s][i], seen'[s][i])
  <2>1. child' = child /\ (seen' = seen \/ seen' = [seen EXCEPT ![r] = <<>>])
    BY <1>6 DEF Tally
  <2>2. seen'[s] = seen[s] \/ seen'[s] = <<>>
    BY <2>1
  <2>3. seen'[s] # <<>>
    OBVIOUS
  <2> QED
    BY <1>2, <2>1, <2>2, <2>3
<1>7. \/ \E r \in Swarms : (\E j \in Jobs : InsertChild(r, j)) \/ ReadChild(r) \/ Tally(r)
      \/ seen' = seen /\ child' = child
  BY DEF SwarmNext, HandlerStep, MonitorStep, Request, SpawnChild, Launched,
         Abandon, MonitorStart, Report, Conclude, Timeout, SwarmRestart,
         swarmVars, allVars
<1> QED
  BY <1>3, <1>4, <1>5, <1>6, <1>7
-----------------------------------------------------------------------------
(* The verdict. *)

SInv == IInv /\ Shape /\ Truth /\ VerdictIsTrue

LEMMA VerdictStep ==
  ASSUME SInv, Shape', [SwarmNext]_allVars
  PROVE  VerdictIsTrue'
<1> USE DEF SInv, Shape, SwarmTypeOK, Enter, Monitored
<1>1. [Next]_vars /\ TypeOK
  BY SwarmStepIsNodeStep DEF IInv
<1> SUFFICES ASSUME NEW s \in Swarms, phase'[s] = "over", status'[s].state # "timedout"
             PROVE  /\ Len(child'[s]) = want'[s]
                    /\ status'[s].done \union status'[s].failed = 1..want'[s]
                    /\ \A i \in status'[s].done : twin'[child'[s][i]] \in Twins
                    /\ \A i \in status'[s].failed : child'[s][i] \in failures'
  BY DEF VerdictIsTrue
<1>2. CASE Conclude(s)
  <2>1. /\ status'[s].done = Positions(s, "completed")
        /\ status'[s].failed = Positions(s, "failed")
        /\ UNCHANGED <<child, want, twin, failures>>
        /\ phase[s] = "concluding"
    BY <1>2 DEF Conclude, Entry, vars
  <2>2. Len(child[s]) = want[s]
    BY <2>1
  <2>3. ASSUME NEW i \in Positions(s, "completed") PROVE twin[child[s][i]] \in Twins
    BY DEF Truth, Justified, Positions
  <2>4. ASSUME NEW i \in Positions(s, "failed") PROVE child[s][i] \in failures
    BY DEF Truth, Justified, Positions
  <2> QED
    BY <2>1, <2>2, <2>3, <2>4
<1>3. CASE phase[s] = "over" /\ UNCHANGED <<status[s], child[s], want[s]>>
  <2>1. \A i \in 1..Len(child[s]) : child[s][i] \in Jobs
    OBVIOUS
  <2> QED
    BY <1>1, <1>3, <2>1, HistoryGrows DEF VerdictIsTrue
<1>4. CASE Timeout(s)
  BY <1>4 DEF Timeout, Entry
<1>5. CASE ~Conclude(s) /\ ~Timeout(s)
  <2>1. ASSUME NEW r \in Swarms \ {s}, HandlerStep(r) \/ Abandon(r) \/ MonitorStep(r)
        PROVE  UNCHANGED <<phase[s], status[s], child[s], want[s]>>
    BY <2>1 DEF HandlerStep, MonitorStep, InsertChild, SpawnChild, Launched,
                Abandon, MonitorStart, ReadChild, Tally, Report, Conclude, Timeout
  <2>2. ASSUME NEW r \in Swarms, NEW n \in 1..MaxDevices, Request(r, n)
        PROVE  phase[s] = "over" /\ UNCHANGED <<status[s], child[s], want[s]>>
    BY <2>2 DEF Request
  <2>3. ASSUME \/ HandlerStep(s) \/ Abandon(s) \/ MonitorStart(s)
               \/ ReadChild(s) \/ Tally(s) \/ Report(s)
        PROVE  phase[s] = "over" /\ UNCHANGED <<status[s], child[s], want[s]>>
    BY <2>3 DEF HandlerStep, InsertChild, SpawnChild, Launched, Abandon,
                MonitorStart, ReadChild, Tally, Report
  <2>4. CASE SwarmRestart
    BY <2>4 DEF SwarmRestart
  <2>5. CASE UNCHANGED swarmVars
    BY <1>3, <2>5 DEF swarmVars
  <2> QED
    BY <1>3, <1>5, <2>1, <2>2, <2>3, <2>4, <2>5 DEF SwarmNext, MonitorStep, allVars
<1> QED
  BY <1>2, <1>4, <1>5

LEMMA SInvHolds == SwarmSpec => []SInv
<1>1. SwarmInit => SInv
  <2> SUFFICES ASSUME SwarmInit PROVE SInv
    OBVIOUS
  <2>1. IInv
    BY InitIsFine DEF SwarmInit
  <2>2. Truth /\ VerdictIsTrue
    BY DEF SwarmInit, Init, Truth, Justified, VerdictIsTrue
  <2> QED
    BY <2>1, <2>2, ShapeInit DEF SInv
<1>2. SInv /\ [SwarmNext]_allVars => SInv'
  <2> SUFFICES ASSUME SInv, [SwarmNext]_allVars PROVE SInv'
    OBVIOUS
  <2>1. [Next]_vars
    BY SwarmStepIsNodeStep DEF SInv
  <2>2. IInv'
    BY <2>1, InvStep DEF SInv
  <2>3. Shape'
    BY ShapeStep DEF SInv, IInv
  <2>4. Truth'
    <3>1. \A j \in Jobs : StillJustified(j, jobs'[j])
      BY <2>1, JobsJustified DEF SInv, Truth
    <3>2. \A s \in Swarms : \A i \in 1..Len(seen'[s]) : StillJustified(child'[s][i], seen'[s][i])
      BY SeenJustified DEF SInv
    <3> QED
      BY <3>1, <3>2 DEF Truth, Justified, StillJustified
  <2> QED
    BY <2>2, <2>3, <2>4, VerdictStep DEF SInv
<1> QED
  BY <1>1, <1>2, PTL DEF SwarmSpec

(* The verdict on a swarm is true of each of its devices, however the polls,
   the captures, retries and restarts interleave. *)
THEOREM VerdictTheorem == SwarmSpec => []VerdictIsTrue
<1>1. SInv => VerdictIsTrue
  BY DEF SInv
<1> QED
  BY SInvHolds, <1>1, PTL

-----------------------------------------------------------------------------
(* The broadcast. *)

(* A capture that was reported failed never gets a twin, one that was sent an
   event for has one; and the events come before the verdict. *)
FailedHasNoTwin == \A j \in failures : twin[j] = NoTwin

Broadcast ==
  /\ \A j \in swarmAnnounced : twin[j] \in Twins
  /\ \A s \in Swarms : phase[s] = "concluding" =>
       \A i \in Positions(s, "completed") : child[s][i] \in swarmAnnounced
  /\ \A s \in Swarms : status[s].state = "completed" =>
       phase[s] = "over" /\ Children(s) \subseteq swarmAnnounced

BInv == SInv /\ FailedHasNoTwin /\ Broadcast

LEMMA FailedStep ==
  ASSUME IInv, FailedHasNoTwin, [Next]_vars
  PROVE  FailedHasNoTwin'
<1> USE DEF IInv, TypeOK, TwinKnown, FailedHasNoTwin
<1>1. ASSUME NEW k \in Jobs, CaptureFails(k) PROVE FailedHasNoTwin'
  BY <1>1 DEF CaptureFails
<1>2. ASSUME NEW k \in Jobs, NEW t \in Twins, CaptureSucceeds(k, t) PROVE FailedHasNoTwin'
  <2>1. k \notin failures
    BY <1>2 DEF CaptureSucceeds, Reporting, Uncached
  <2> QED
    BY <1>2, <2>1 DEF CaptureSucceeds
<1>3. UNCHANGED <<twin, failures>> => FailedHasNoTwin'
  OBVIOUS
<1>4. \/ \E k \in Jobs : CaptureFails(k) \/ \E t \in Twins : CaptureSucceeds(k, t)
      \/ UNCHANGED <<twin, failures>>
  BY DEF Next, TaskStep, Capture, Insert, SpawnTask, Retry, Begin, Prove, Panic, Open,
         Write, OpenFails, WriteFails, PushCache, Announce, Restart, vars
<1> QED
  BY <1>1, <1>2, <1>3, <1>4

(* What a step of one swarm owes to Broadcast; the other swarms it leaves alone. *)
LEMMA BroadcastElsewhere ==
  ASSUME NEW s \in Swarms, Broadcast,
         \A j \in swarmAnnounced' : twin'[j] \in Twins,
         swarmAnnounced \subseteq swarmAnnounced',
         \A r \in Swarms \ {s} : UNCHANGED <<phase[r], child[r], seen[r], status[r]>>,
         phase'[s] = "concluding" =>
           \A i \in Positions(s, "completed")' : child'[s][i] \in swarmAnnounced',
         status'[s].state = "completed" =>
           phase'[s] = "over" /\ Children(s)' \subseteq swarmAnnounced'
  PROVE  Broadcast'
<1>1. ASSUME NEW r \in Swarms \ {s}
      PROVE  /\ phase'[r] = "concluding" =>
                  \A i \in Positions(r, "completed")' : child'[r][i] \in swarmAnnounced'
             /\ status'[r].state = "completed" =>
                  phase'[r] = "over" /\ Children(r)' \subseteq swarmAnnounced'
  BY <1>1 DEF Broadcast, Positions, Children
<1>2. \A r \in Swarms : phase'[r] = "concluding" =>
        \A i \in Positions(r, "completed")' : child'[r][i] \in swarmAnnounced'
  BY <1>1
<1>3. \A r \in Swarms : status'[r].state = "completed" =>
        phase'[r] = "over" /\ Children(r)' \subseteq swarmAnnounced'
  BY <1>1
<1> QED
  BY <1>2, <1>3 DEF Broadcast

LEMMA BroadcastStep ==
  ASSUME SInv, Broadcast, [SwarmNext]_allVars
  PROVE  Broadcast'
<1> USE DEF SInv, Shape, SwarmTypeOK, Enter, Monitored, Children, Positions
<1>1. [Next]_vars /\ TypeOK
  BY SwarmStepIsNodeStep DEF IInv
<1>2. \A j \in swarmAnnounced : twin'[j] \in Twins
  BY <1>1, HistoryGrows DEF Broadcast
<1>3. CASE UNCHANGED swarmVars
  BY <1>2, <1>3 DEF swarmVars, Broadcast
<1>0. ASSUME NEW s \in Swarms, NEW p, p # "concluding", phase' = [phase EXCEPT ![s] = p],
             phase[s] # "over", UNCHANGED swarmAnnounced,
             status'[s].state # "completed" \/ UNCHANGED status,
             \A r \in Swarms \ {s} : UNCHANGED <<child[r], seen[r], status[r]>>
      PROVE  Broadcast'
  <2>1. phase'[s] = p /\ \A r \in Swarms \ {s} : UNCHANGED <<phase[r], child[r], seen[r], status[r]>>
    BY <1>0
  <2>2. status'[s].state # "completed"
    BY <1>0 DEF Broadcast
  <2> HIDE DEF Children, Positions
  <2> QED
    BY <1>0, <1>2, <2>1, <2>2, BroadcastElsewhere
<1>4. ASSUME NEW s \in Swarms, NEW n \in 1..MaxDevices, Request(s, n) PROVE Broadcast'
  <2>1. /\ phase' = [phase EXCEPT ![s] = "launching"] /\ phase[s] # "over"
        /\ UNCHANGED <<swarmAnnounced, child, seen, status>>
    BY <1>4 DEF Request
  <2> QED
    BY <1>0, <2>1
<1>5. ASSUME NEW s \in Swarms, NEW j \in Jobs, InsertChild(s, j) PROVE Broadcast'
  <2>1. /\ phase' = [phase EXCEPT ![s] = "spawning"] /\ phase[s] # "over"
        /\ UNCHANGED <<swarmAnnounced, seen, status>>
        /\ \A r \in Swarms \ {s} : child'[r] = child[r]
    BY <1>5 DEF InsertChild
  <2> QED
    BY <1>0, <2>1
<1>6. ASSUME NEW s \in Swarms, SpawnChild(s) \/ Abandon(s) PROVE Broadcast'
  <2>1. PICK p \in {"launching", "gone"} : phase' = [phase EXCEPT ![s] = p]
    BY <1>6 DEF SpawnChild, Abandon
  <2>2. phase[s] # "over" /\ UNCHANGED <<swarmAnnounced, child, seen, status>>
    BY <1>6 DEF SpawnChild, Abandon
  <2> QED
    BY <1>0, <2>1, <2>2
<1>7. ASSUME NEW s \in Swarms, Launched(s) PROVE Broadcast'
  <2>1. /\ phase' = [phase EXCEPT ![s] = "starting"] /\ phase[s] # "over"
        /\ UNCHANGED <<swarmAnnounced, child, seen>>
        /\ status'[s].state = "pending" /\ \A r \in Swarms \ {s} : status'[r] = status[r]
    BY <1>7 DEF Launched, Entry
  <2> QED
    BY <1>0, <2>1
<1>8. ASSUME NEW s \in Swarms, MonitorStart(s) PROVE Broadcast'
  <2>1. /\ phase' = [phase EXCEPT ![s] = "polling"] /\ phase[s] # "over"
        /\ UNCHANGED <<swarmAnnounced, child, seen>>
        /\ status'[s].state = "running" /\ \A r \in Swarms \ {s} : status'[r] = status[r]
    BY <1>8 DEF MonitorStart, Entry
  <2> QED
    BY <1>0, <2>1
<1>9. ASSUME NEW s \in Swarms, ReadChild(s) PROVE Broadcast'
  <2>1. /\ phase[s] = "polling" /\ UNCHANGED <<phase, child, status, swarmAnnounced>>
        /\ \A r \in Swarms \ {s} : seen'[r] = seen[r]
    BY <1>9 DEF ReadChild
  <2>2. status[s].state # "completed"
    BY <2>1 DEF Broadcast
  <2> HIDE DEF Children, Positions
  <2> QED
    BY <1>2, <2>1, <2>2, BroadcastElsewhere
<1>10. ASSUME NEW s \in Swarms, Tally(s) PROVE Broadcast'
  <2>1. /\ phase'[s] \in {"polling", "reporting"}
        /\ UNCHANGED <<child, swarmAnnounced>>
        /\ \A r \in Swarms \ {s} : UNCHANGED <<phase[r], seen[r]>>
    BY <1>10 DEF Tally
  <2>2. status'[s].state = "running" /\ \A r \in Swarms \ {s} : status'[r] = status[r]
    BY <1>10 DEF Tally, Entry
  <2>3. ASSUME NEW r \in Swarms \ {s}
        PROVE  /\ phase'[r] = "concluding" =>
                    \A i \in Positions(r, "completed")' : child'[r][i] \in swarmAnnounced'
               /\ status'[r].state = "completed" =>
                    phase'[r] = "over" /\ Children(r)' \subseteq swarmAnnounced'
    BY <2>1, <2>2 DEF Broadcast
  <2> QED
    BY <1>2, <2>1, <2>2, <2>3 DEF Broadcast
<1>11. ASSUME NEW s \in Swarms, Report(s) PROVE Broadcast'
  <2>1. \A i \in Positions(s, "completed") : twin[child[s][i]] \in Twins
    BY DEF Truth, Justified
  <2> QED
    BY <1>2, <1>11, <2>1 DEF Report, Broadcast, vars
<1>12. ASSUME NEW s \in Swarms, Conclude(s) PROVE Broadcast'
  <2>1. /\ phase[s] = "concluding"
        /\ phase' = [phase EXCEPT ![s] = "over"]
        /\ UNCHANGED <<child, seen, swarmAnnounced, twin>>
        /\ \A r \in Swarms \ {s} : status'[r] = status[r]
        /\ status'[s].state = Verdict(Positions(s, "completed"), Positions(s, "failed"))
    BY <1>12 DEF Conclude, Entry, vars
  <2>2. ASSUME status'[s].state = "completed"
        PROVE  Children(s) \subseteq swarmAnnounced
    <3>1. Positions(s, "failed") = {}
      BY <2>1, <2>2 DEF Verdict
    <3>2. Positions(s, "completed") = 1..Len(child[s])
      BY <2>1, <3>1
    <3>3. \A i \in Positions(s, "completed") : child[s][i] \in swarmAnnounced
      BY <2>1 DEF Broadcast
    <3> QED
      BY <3>2, <3>3
  <2>3. ASSUME NEW r \in Swarms \ {s}
        PROVE  /\ phase'[r] = "concluding" =>
                    \A i \in Positions(r, "completed")' : child'[r][i] \in swarmAnnounced'
               /\ status'[r].state = "completed" =>
                    phase'[r] = "over" /\ Children(r)' \subseteq swarmAnnounced'
    BY <2>1 DEF Broadcast
  <2>4. phase'[s] = "over" /\ Children(s)' = Children(s) /\ swarmAnnounced' = swarmAnnounced
    BY <2>1
  <2>5. \A r \in Swarms : phase'[r] = "concluding" =>
          \A i \in Positions(r, "completed")' : child'[r][i] \in swarmAnnounced'
    BY <2>3, <2>4
  <2>6. ASSUME NEW r \in Swarms, status'[r].state = "completed"
        PROVE  phase'[r] = "over" /\ Children(r)' \subseteq swarmAnnounced'
    <3>1. CASE r = s
      BY <2>2, <2>4, <2>6, <3>1
    <3>2. CASE r # s
      BY <2>3, <2>6, <3>2
    <3> QED
      BY <3>1, <3>2
  <2>7. \A j \in swarmAnnounced' : twin'[j] \in Twins
    BY <1>2, <2>4
  <2> HIDE DEF Children, Positions
  <2> QED
    BY <2>5, <2>6, <2>7 DEF Broadcast
<1>13. ASSUME NEW s \in Swarms, Timeout(s) PROVE Broadcast'
  <2>1. /\ phase'[s] = "over" /\ status'[s].state = "timedout"
        /\ UNCHANGED <<child, seen, swarmAnnounced>>
        /\ \A r \in Swarms \ {s} : UNCHANGED <<phase[r], status[r]>>
    BY <1>13 DEF Timeout, Entry
  <2> HIDE DEF Children, Positions
  <2> QED
    BY <1>2, <2>1, BroadcastElsewhere
<1>14. CASE SwarmRestart
  BY <1>2, <1>14 DEF SwarmRestart, Broadcast, Entry
<1> QED
  BY <1>3, <1>4, <1>5, <1>6, <1>7, <1>8, <1>9, <1>10, <1>11, <1>12, <1>13, <1>14
     DEF SwarmNext, HandlerStep, MonitorStep, allVars

(* A swarm that is answered completed has had the event of each child sent, and
   no event is sent for a capture that failed (Report, Conclude). *)
THEOREM BroadcastTheorem == SwarmSpec => []CompletedIsBroadcast
<1>1. SwarmInit => FailedHasNoTwin /\ Broadcast
  BY DEF SwarmInit, Init, FailedHasNoTwin, Broadcast, Entry
<1>2. BInv /\ [SwarmNext]_allVars /\ SInv' => BInv'
  BY SwarmStepIsNodeStep, FailedStep, BroadcastStep DEF BInv, SInv
<1>3. BInv => CompletedIsBroadcast
  <2>1. NoTwin \notin Twins
    BY ConstantsAssumption
  <2> QED
    BY <2>1 DEF BInv, FailedHasNoTwin, Broadcast, CompletedIsBroadcast
<1> QED
  BY <1>1, <1>2, <1>3, SInvHolds, PTL DEF SwarmSpec, BInv

(* Swarms add nothing to what a capture may do: every theorem of CaptureNode
   holds of a node with swarms. *)
THEOREM SwarmsAreCaptures == SwarmSpec => Spec
<1>1. SwarmInit => Init
  BY DEF SwarmInit
<1>2. SInv /\ [SwarmNext]_allVars => [Next]_vars
  BY SwarmStepIsNodeStep DEF SInv
<1> QED
  BY <1>1, <1>2, SInvHolds, PTL DEF SwarmSpec, Spec

-----------------------------------------------------------------------------
(* The pipeline.  The invariant has three parts.  Scanned ties a job's     *)
(* stage to its scan and its twin.  Confined follows a scan through the    *)
(* work directory: from the frames to the models, the exported file and    *)
(* the twin.  Ledger ties the stage to what the chain holds and what was   *)
(* emitted.                                                                *)

AfterBuild == {"built", "simulating", "proven", "executed", "anchored", "done"}

Scanned ==
  \A j \in Jobs :
    /\ stage[j] # "start" => scan[j].of \in Sources
    /\ stage[j] = "start" => splat[j] = NoSplat /\ written[j] = 0
    /\ stage[j] = "framing" =>
         written[j] < scan[j].frames \/ (written[j] = 0 /\ scan[j].frames = 0)
    /\ j \in users => stage[j] # "start"
    /\ stage[j] \in AfterBuild => twin[j] = TwinOf(j)

Owners(d) == {scan[k].of : k \in {k \in users : dir[k] = d}}

Confined ==
  /\ \A d \in Dirs :
       /\ \A s \in Slots : images[d][s] \in Owners(d) \union {None}
       /\ \A m \in train[d] : m \subseteq Owners(d)
       /\ export[d] \subseteq Owners(d)
  /\ \A j \in Jobs : splat[j].of \subseteq Owners(dir[j])

Ledger ==
  \A j \in Jobs :
    /\ minted[j] > 0 => minted[j] = 1 /\ stage[j] \in {"executed", "anchored", "done"}
    /\ stage[j] \notin {"anchored", "done"} => anchor[j] = "none"
    /\ stage[j] = "anchored" => anchor[j] # "none"
    /\ stage[j] # "done" => emitted[j] = <<>>
    /\ stage[j] = "done" => \/ anchor[j] = "none" /\ emitted[j] = <<>> /\ minted[j] = 0
                            \/ anchor[j] # "none" /\ emitted[j] = Envelopes(anchor[j])
    /\ pc[j] \in Saving => stage[j] = "done"
    /\ pc[j] = "ended" => stage[j] = "done" \/ j \in failures

PInv == TypeOK /\ TwinKnown /\ PipeFields /\ Scanned /\ Confined /\ Ledger

-----------------------------------------------------------------------------
(* Every step is a step of CaptureNode, or invisible there. *)

LEMMA TwinOfIsTwin ==
  ASSUME PipeFields, Scanned, NEW j \in Jobs, stage[j] # "start", splat[j] # NoSplat
  PROVE  TwinOf(j) \in Twins
<1>1. scan[j].of \in Sources /\ splat[j] \in Splats
  BY DEF Scanned, PipeFields
<1> QED
  BY <1>1, PipelineAssumption DEF TwinOf, TwinData

(* The steps that leave CaptureNode alone. *)
Inner(j) ==
  \/ \E n \in Slots : LiveScan(j, n)
  \/ StubScan(j) \/ WriteFrame(j) \/ Train(j) \/ Export(j) \/ ReadPly(j) \/ SplatFails(j)
  \/ Simulate(j) \/ Attest(j) \/ Execute(j) \/ Anchor(j) \/ AnchorStub(j)

LEMMA PipeStepIsNodeStep ==
  ASSUME PipeFields, Scanned, [PipeNext]_pVars
  PROVE  [Next]_vars
<1>1. ASSUME NEW j \in Jobs, PipeStep(j) PROVE [Next]_vars
  <2>1. CASE Inner(j)
    BY <2>1 DEF Inner, LiveScan, StubScan, WriteFrame, Train, Export, ReadPly, SplatFails,
                Simulate, Attest, Execute, Anchor, AnchorStub
  <2>2. CASE SessionFails(j) \/ BuildFails(j)
    BY <2>2 DEF SessionFails, BuildFails, Next, TaskStep
  <2>3. CASE Build(j)
    <3>1. TwinOf(j) \in Twins
      BY <2>3, TwinOfIsTwin DEF Build, At, Acceptable
    <3> QED
      BY <2>3, <3>1 DEF Build, Next, TaskStep
  <2>4. CASE ProofFails(j) \/ Emit(j)
    BY <2>4 DEF ProofFails, Emit, Next, TaskStep
  <2> QED
    BY <1>1, <2>1, <2>2, <2>3, <2>4 DEF PipeStep, Inner
<1>2. ASSUME NEW j \in Jobs, OtherStep(j) PROVE [Next]_vars
  BY <1>2 DEF OtherStep, Next, TaskStep
<1>3. CASE PipeRestart
  BY <1>3 DEF PipeRestart, Next
<1>4. CASE UNCHANGED pVars
  BY <1>4 DEF pVars
<1> QED
  BY <1>1, <1>2, <1>3, <1>4 DEF PipeNext

(* What the steps outside the pipeline leave alone. *)
Outside(j) == OtherStep(j) \/ SessionFails(j) \/ BuildFails(j)

LEMMA Elsewhere ==
  /\ \A j \in Jobs : Outside(j) => UNCHANGED <<pipeVars, twin>>
  /\ PipeRestart => UNCHANGED <<pipeVars, twin>>
BY DEF Outside, OtherStep, PipeRestart, Restart, SessionFails, BuildFails, CaptureFails,
       Capture, Begin, Panic, Open, Write, OpenFails, WriteFails, PushCache, Announce

-----------------------------------------------------------------------------
(* Each part is kept by each step. *)

LEMMA EnvelopesTyped ==
  ASSUME NEW a \in Anchors
  PROVE  Envelopes(a) \in Seq(Envelope)
<1>1. \A k \in {"capture", "scene", "session", "post"} :
        Sent(k, a) \in Envelope /\ Sent(k, "none") \in Envelope
  BY DEF Envelope, Sent, Anchors
<1> HIDE DEF Envelope, Anchors
<1> QED
  BY <1>1 DEF Envelopes

LEMMA FieldsStep ==
  ASSUME PipeFields, Scanned, [PipeNext]_pVars
  PROVE  PipeFields'
<1> USE PipelineAssumption DEF PipeFields, Stages, Slots, Anchors, dirVars, chainVars
<1>1. ASSUME NEW j \in Jobs, NEW n \in Slots, LiveScan(j, n) PROVE PipeFields'
  BY <1>1 DEF LiveScan, Goto, AfterScan, Sources
<1>2. ASSUME NEW j \in Jobs, StubScan(j) PROVE PipeFields'
  BY <1>2 DEF StubScan, Goto, AfterScan, Sources, Splats
<1>3. ASSUME NEW j \in Jobs, WriteFrame(j) PROVE PipeFields'
  <2>1. NextSlot(j) \in Slots
    BY <1>3 DEF WriteFrame, At, Scanned, NextSlot
  <2>2. scan[j].of \in Sources
    BY <1>3 DEF WriteFrame, At, Scanned
  <2> QED
    BY <1>3, <2>1, <2>2 DEF WriteFrame, Goto
<1>4. ASSUME NEW j \in Jobs, Train(j) PROVE PipeFields'
  <2>1. Framed(dir[j]) \subseteq Sources
    BY DEF Framed
  <2> QED
    BY <1>4, <2>1 DEF Train, Goto
<1>5. ASSUME NEW j \in Jobs, Export(j) PROVE PipeFields'
  BY <1>5 DEF Export, Goto
<1>6. ASSUME NEW j \in Jobs, ReadPly(j) PROVE PipeFields'
  <2>1. PICK m \in SUBSET Sources : splat' = [splat EXCEPT ![j] = Trained(m)]
    <3>1. PICK m \in (IF Gsplat THEN train[dir[j]] ELSE {export[dir[j]]}) :
            splat' = [splat EXCEPT ![j] = Trained(m)]
      BY <1>6 DEF ReadPly
    <3>2. m \in SUBSET Sources
      OBVIOUS
    <3> QED
      BY <3>1, <3>2
  <2>2. Trained(m) \in Splats
    BY DEF Splats
  <2> QED
    BY <1>6, <2>1, <2>2 DEF ReadPly, Goto
<1>7. ASSUME NEW j \in Jobs,
             SplatFails(j) \/ Build(j) \/ Simulate(j) \/ Attest(j) \/ ProofFails(j)
      PROVE  PipeFields'
  BY <1>7 DEF SplatFails, Build, Simulate, Attest, ProofFails, Goto
<1>8. ASSUME NEW j \in Jobs, Execute(j) \/ Anchor(j) \/ AnchorStub(j) PROVE PipeFields'
  <2>1. CASE Execute(j)
    <3>1. minted' = [minted EXCEPT ![j] = minted[j] + 1] /\ minted[j] + 1 \in Nat
      BY <2>1 DEF Execute
    <3> QED
      BY <2>1, <3>1 DEF Execute, Goto
  <2>2. CASE Anchor(j) \/ AnchorStub(j)
    BY <2>2 DEF Anchor, AnchorStub, Goto
  <2> QED
    BY <1>8, <2>1, <2>2
<1>9. ASSUME NEW j \in Jobs, Emit(j) PROVE PipeFields'
  <2>1. emitted' = [emitted EXCEPT ![j] = Envelopes(anchor[j])]
    BY <1>9 DEF Emit
  <2>2. Envelopes(anchor[j]) \in Seq(Envelope)
    BY EnvelopesTyped
  <2>3. emitted' \in [Jobs -> Seq(Envelope)]
    BY <2>1, <2>2
  <2> QED
    BY <1>9, <2>3 DEF Emit, Goto
<1>10. CASE UNCHANGED pipeVars
  BY <1>10 DEF pipeVars
<1> QED
  BY <1>1, <1>2, <1>3, <1>4, <1>5, <1>6, <1>7, <1>8, <1>9, <1>10, Elsewhere
     DEF PipeNext, PipeStep, pVars, Outside

LEMMA ScannedStep ==
  ASSUME PipeFields, TypeOK, Scanned, [PipeNext]_pVars
  PROVE  Scanned'
<1> USE DEF Scanned, PipeFields, TwinOf, At, Goto, dirVars, AfterBuild
<1>1. ASSUME NEW j \in Jobs, NEW n \in Slots, LiveScan(j, n) PROVE Scanned'
  BY <1>1, PipelineAssumption DEF LiveScan, AfterScan, Sources, Slots, vars
<1>2. ASSUME NEW j \in Jobs, StubScan(j) PROVE Scanned'
  BY <1>2 DEF StubScan, AfterScan, Sources, vars
<1>3. ASSUME NEW j \in Jobs, WriteFrame(j) PROVE Scanned'
  <2>1. scan[j].frames \in Nat /\ written[j] \in Nat
    BY PipelineAssumption DEF Slots
  <2>2. /\ stage[j] = "framing"
        /\ written' = [written EXCEPT ![j] = NextSlot(j)]
        /\ stage' = [stage EXCEPT ![j] = IF NextSlot(j) = scan[j].frames THEN "training"
                                                                       ELSE "framing"]
        /\ scan' = scan /\ splat' = splat /\ twin' = twin /\ users' = users \union {j}
    BY <1>3 DEF WriteFrame, vars
  <2>3. NextSlot(j) = scan[j].frames \/ NextSlot(j) < scan[j].frames
    <3>1. scan[j].frames = 0 \/ written[j] < scan[j].frames
      BY <2>2
    <3> HIDE DEF Scanned, PipeFields
    <3> QED
      BY <2>1, <3>1 DEF NextSlot
  <2> QED
    BY <2>2, <2>3
<1>4. ASSUME NEW j \in Jobs, Train(j) \/ Export(j) \/ SplatFails(j) PROVE Scanned'
  BY <1>4 DEF Train, Export, SplatFails, vars
<1>5. ASSUME NEW j \in Jobs, ReadPly(j) PROVE Scanned'
  BY <1>5 DEF ReadPly, vars
<1>6. ASSUME NEW j \in Jobs, Build(j) PROVE Scanned'
  BY <1>6 DEF Build, CaptureSucceeds, TypeOK
<1>7. ASSUME NEW j \in Jobs, ProofFails(j) \/ Emit(j) PROVE Scanned'
  BY <1>7 DEF ProofFails, Emit, Prove
<1>8. ASSUME NEW j \in Jobs,
             Simulate(j) \/ Attest(j) \/ Execute(j) \/ Anchor(j) \/ AnchorStub(j)
      PROVE  Scanned'
  BY <1>8 DEF Simulate, Attest, Execute, Anchor, AnchorStub, vars
<1>9. CASE UNCHANGED <<pipeVars, twin>>
  BY <1>9 DEF pipeVars
<1> QED
  BY <1>1, <1>2, <1>3, <1>4, <1>5, <1>6, <1>7, <1>8, <1>9, Elsewhere
     DEF PipeNext, PipeStep, pVars, vars, Outside

(* A scan that entered a directory stays the scan of its job. *)
LEMMA OwnersGrow ==
  ASSUME PipeFields, Scanned, [PipeNext]_pVars
  PROVE  /\ dir' = dir /\ users \subseteq users'
         /\ \A k \in users : scan'[k] = scan[k]
<1>1. ASSUME NEW j \in Jobs, PipeStep(j)
      PROVE  /\ dir' = dir /\ users \subseteq users'
             /\ \A k \in users : scan'[k] = scan[k]
  BY <1>1 DEF PipeStep, SessionFails, LiveScan, StubScan, WriteFrame, Train, Export, ReadPly,
              SplatFails, Build, BuildFails, Simulate, Attest, ProofFails, Execute, Anchor,
              AnchorStub, Emit, pipeVars, dirVars, Scanned, PipeFields, At
<1> QED
  BY <1>1, Elsewhere DEF PipeNext, pVars, pipeVars, dirVars, Outside

LEMMA ConfinedStep ==
  ASSUME PipeFields, Scanned, Confined, [PipeNext]_pVars
  PROVE  Confined'
<1>1. \A d : Owners(d) \subseteq Owners(d)'
  BY OwnersGrow DEF Owners
<1>2. ASSUME UNCHANGED <<images, train, export, splat>> PROVE Confined'
  BY <1>1, <1>2, OwnersGrow DEF Confined
<1>3. ASSUME NEW j \in Jobs, StubScan(j) \/ (\E n \in Slots : LiveScan(j, n))
      PROVE  Confined'
  <2>1. PICK e \in {NoSplat, StubSplat} : splat' = [splat EXCEPT ![j] = e]
    BY <1>3 DEF LiveScan, StubScan
  <2>2. \A i \in Jobs : splat'[i] = splat[i] \/ splat'[i].of = {}
    BY <2>1 DEF NoSplat, StubSplat, PipeFields
  <2> QED
    BY <1>1, <1>3, <2>2, OwnersGrow DEF Confined, LiveScan, StubScan, dirVars
<1>4. ASSUME NEW j \in Jobs, WriteFrame(j) PROVE Confined'
  <2>1. scan[j].of \in Owners(dir[j])'
    BY <1>4 DEF WriteFrame, Owners
  <2>2. \A d \in Dirs : \A s \in Slots :
          images'[d][s] = images[d][s] \/ (d = dir[j] /\ images'[d][s] = scan[j].of)
    BY <1>4 DEF WriteFrame, PipeFields
  <2> QED
    BY <1>1, <1>4, <2>1, <2>2, OwnersGrow DEF Confined, WriteFrame
<1>5. ASSUME NEW j \in Jobs, Train(j) PROVE Confined'
  <2>1. Framed(dir[j]) \subseteq Owners(dir[j])
    BY DEF Framed, Confined, PipeFields
  <2>2. \A d \in Dirs : \A m \in train'[d] :
          m \in train[d] \/ (d = dir[j] /\ m = Framed(dir[j]))
    BY <1>5 DEF Train, PipeFields
  <2> QED
    BY <1>1, <1>5, <2>1, <2>2, OwnersGrow DEF Confined, Train
<1>6. ASSUME NEW j \in Jobs, Export(j) PROVE Confined'
  <2>1. PICK m \in train[dir[j]] :
          export' = IF Gsplat THEN export ELSE [export EXCEPT ![dir[j]] = m]
    BY <1>6 DEF Export
  <2>2. \A d \in Dirs : export'[d] = export[d] \/ (d = dir[j] /\ export'[d] = m)
    BY <2>1 DEF PipeFields
  <2>3. m \subseteq Owners(dir[j])
    BY <1>6 DEF Confined, PipeFields
  <2> QED
    BY <1>1, <1>6, <2>2, <2>3, OwnersGrow DEF Confined, Export
<1>7. ASSUME NEW j \in Jobs, ReadPly(j) PROVE Confined'
  <2>1. PICK m : /\ m \in (IF Gsplat THEN train[dir[j]] ELSE {export[dir[j]]})
                 /\ splat' = [splat EXCEPT ![j] = Trained(m)]
    BY <1>7 DEF ReadPly
  <2>2. m \subseteq Owners(dir[j])
    BY <2>1 DEF Confined, PipeFields
  <2>3. \A i \in Jobs : splat'[i] = splat[i] \/ (i = j /\ splat'[i].of = m)
    BY <2>1 DEF PipeFields, Trained
  <2> QED
    BY <1>1, <1>7, <2>2, <2>3, OwnersGrow DEF Confined, ReadPly, dirVars
<1>8. ASSUME NEW j \in Jobs, PipeStep(j) PROVE Confined'
  <2>1. CASE SessionFails(j) \/ BuildFails(j) \/ SplatFails(j) \/ Build(j) \/ ProofFails(j)
    BY <1>2, <2>1 DEF SessionFails, BuildFails, SplatFails, Build, ProofFails, pipeVars, dirVars
  <2>2. CASE Simulate(j) \/ Attest(j) \/ Execute(j) \/ Anchor(j) \/ AnchorStub(j) \/ Emit(j)
    BY <1>2, <2>2 DEF Simulate, Attest, Execute, Anchor, AnchorStub, Emit, dirVars
  <2> QED
    BY <1>3, <1>4, <1>5, <1>6, <1>7, <1>8, <2>1, <2>2 DEF PipeStep
<1> QED
  BY <1>2, <1>8, Elsewhere DEF PipeNext, pVars, pipeVars, dirVars, Outside

LEMMA LedgerStep ==
  ASSUME TypeOK, PipeFields, Ledger, [PipeNext]_pVars
  PROVE  Ledger'
<1> USE DEF TypeOK, PipeFields, Ledger, At, Goto, Saving, chainVars
<1>1. ASSUME NEW j \in Jobs, SessionFails(j) \/ BuildFails(j) PROVE Ledger'
  BY <1>1 DEF SessionFails, BuildFails, CaptureFails, pipeVars
<1>2. ASSUME NEW j \in Jobs, StubScan(j) \/ (\E n \in Slots : LiveScan(j, n)) PROVE Ledger'
  BY <1>2 DEF StubScan, LiveScan, AfterScan, vars
<1>3. ASSUME NEW j \in Jobs,
             WriteFrame(j) \/ Train(j) \/ Export(j) \/ ReadPly(j) \/ SplatFails(j)
      PROVE  Ledger'
  BY <1>3 DEF WriteFrame, Train, Export, ReadPly, SplatFails, vars
<1>4. ASSUME NEW j \in Jobs, Build(j) PROVE Ledger'
  BY <1>4 DEF Build, CaptureSucceeds
<1>5. ASSUME NEW j \in Jobs, Simulate(j) \/ Attest(j) PROVE Ledger'
  BY <1>5 DEF Simulate, Attest, vars
<1>6. ASSUME NEW j \in Jobs, ProofFails(j) PROVE Ledger'
  BY <1>6 DEF ProofFails, Prove
<1>7. ASSUME NEW j \in Jobs, Execute(j) PROVE Ledger'
  BY <1>7 DEF Execute, vars
<1>8. ASSUME NEW j \in Jobs, Anchor(j) \/ AnchorStub(j) PROVE Ledger'
  BY <1>8 DEF Anchor, AnchorStub, vars
<1>9. ASSUME NEW j \in Jobs, Emit(j) PROVE Ledger'
  <2>1. emitted' = [emitted EXCEPT ![j] = Envelopes(anchor[j])]
    BY <1>9 DEF Emit
  <2> QED
    BY <1>9, <2>1 DEF Emit, Prove
<1>10. ASSUME NEW j \in Jobs, OtherStep(j) PROVE Ledger'
  BY <1>10 DEF OtherStep, Capture, Begin, Panic, Open, Write, OpenFails, WriteFails, PushCache,
               Announce, pipeVars
<1>11. CASE PipeRestart
  BY <1>11 DEF PipeRestart, Restart, pipeVars
<1>12. CASE UNCHANGED pVars
  BY <1>12 DEF pVars, vars, pipeVars
<1> QED
  BY <1>1, <1>2, <1>3, <1>4, <1>5, <1>6, <1>7, <1>8, <1>9, <1>10, <1>11, <1>12
     DEF PipeNext, PipeStep

LEMMA PInvHolds == PipeSpec => []PInv
<1>1. PipeInit => PInv
  <2> SUFFICES ASSUME PipeInit PROVE PInv
    OBVIOUS
  <2>1. TypeOK /\ TwinKnown
    BY DEF PipeInit, Init, TypeOK, Statuses, Points, NotReceipts, TwinKnown, Saving
  <2>2. PipeFields
    BY PipelineAssumption DEF PipeInit, PipeFields, Stages, Slots, Anchors
  <2>3. Scanned
    BY DEF PipeInit, Scanned, AfterBuild
  <2>4. Confined
    BY DEF PipeInit, Confined, NoSplat
  <2>5. Ledger
    BY DEF PipeInit, Init, Ledger, Saving
  <2> QED
    BY <2>1, <2>2, <2>3, <2>4, <2>5 DEF PInv
<1>2. PInv /\ [PipeNext]_pVars => PInv'
  <2> SUFFICES ASSUME PInv, [PipeNext]_pVars PROVE PInv'
    OBVIOUS
  <2>1. TypeOK' /\ TwinKnown'
    BY PipeStepIsNodeStep, TypeStep DEF PInv
  <2> QED
    BY <2>1, FieldsStep, ScannedStep, ConfinedStep, LedgerStep DEF PInv
<1> QED
  BY <1>1, <1>2, PTL DEF PipeSpec

-----------------------------------------------------------------------------

(* Every store of the pipeline keeps its type: in particular no frame is
   written past the last one and a twin is always one of the data it hashes. *)
THEOREM PipeTypes == PipeSpec => []PipeTypeOK
<1>1. PInv => PipeTypeOK
  BY DEF PInv, PipeTypeOK
<1> QED
  BY PInvHolds, <1>1, PTL

(* Whatever jobs share a work directory, and whatever earlier processes left
   in it, a reconstruction holds no frame of a device of another directory. *)
THEOREM SplatConfinement == PipeSpec => []SplatStaysOnDevice
<1>1. PInv => SplatStaysOnDevice
  BY DEF PInv, Confined, SplatStaysOnDevice, Owners, Neighbours
<1> QED
  BY PInvHolds, <1>1, PTL

(* However often a mint's answer is lost or the process dies, a job has at most
   one Twin NFT, and only after its proof. *)
THEOREM MintTheorem == PipeSpec => []MintIsEarned
<1>1. PInv => MintIsEarned
  BY DEF PInv, Ledger, Scanned, AfterBuild, MintIsEarned
<1> QED
  BY PInvHolds, <1>1, PTL

(* A record has an object id exactly if the events were emitted, in order and
   with that id. *)
THEOREM RecordTheorem == PipeSpec => []RecordTellsAnchor
<1>1. ASSUME NEW a
      PROVE  /\ Len(Envelopes(a)) >= 3
             /\ [i \in 1..3 |-> Envelopes(a)[i].kind] = <<"capture", "scene", "session">>
             /\ \A i \in 1..Len(Envelopes(a)) :
                  Envelopes(a)[i].kind \in {"scene", "post"} => Envelopes(a)[i].sui = a
  <2>1. CASE Nostr
    BY <2>1 DEF Envelopes, Sent
  <2>2. CASE ~Nostr
    BY <2>2 DEF Envelopes, Sent
  <2> QED
    BY <2>1, <2>2
<1>2. PInv => RecordTellsAnchor
  <2> SUFFICES ASSUME PInv, NEW j \in Jobs, pc[j] \in Saving \union {"ended"}, j \notin failures
               PROVE  \/ anchor[j] = "none" /\ emitted[j] = <<>> /\ minted[j] = 0
                      \/ /\ anchor[j] # "none"
                         /\ Len(emitted[j]) >= 3
                         /\ [i \in 1..3 |-> emitted[j][i].kind]
                              = <<"capture", "scene", "session">>
                         /\ \A i \in 1..Len(emitted[j]) :
                              emitted[j][i].kind \in {"scene", "post"} =>
                                emitted[j][i].sui = anchor[j]
    BY DEF RecordTellsAnchor
  <2>1. stage[j] = "done"
    BY DEF PInv, Ledger
  <2>2. \/ anchor[j] = "none" /\ emitted[j] = <<>> /\ minted[j] = 0
        \/ anchor[j] # "none" /\ emitted[j] = Envelopes(anchor[j])
    BY <2>1 DEF PInv, Ledger
  <2> QED
    BY <1>1, <2>2
<1> QED
  BY PInvHolds, <1>2, PTL

(* The pipeline refines the capture job: every theorem of CaptureNode holds of
   a node whose captures run it. *)
THEOREM PipelineTheorem == PipeSpec => PipelinesAreCaptures
<1>1. PipeInit => Init
  BY DEF PipeInit
<1>2. PInv /\ [PipeNext]_pVars => [Next]_vars
  BY PipeStepIsNodeStep DEF PInv
<1> QED
  BY <1>1, <1>2, PInvHolds, PTL DEF PipeSpec, Spec, PipelinesAreCaptures

=============================================================================
