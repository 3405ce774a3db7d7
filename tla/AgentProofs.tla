----------------------------- MODULE AgentProofs -----------------------------
(***************************************************************************)
(* Proofs about the agents' side, A2ATask and SovereignRuntime, for any    *)
(* numbers of tasks, submissions, jobs and acts.                           *)
(***************************************************************************)
EXTENDS A2ATask, SovereignRuntime, TLAPS

-----------------------------------------------------------------------------
(* Tasks.  An artifact is written from what a poll saw some time ago, so   *)
(* what the poll saw must outlive the job's status, and no handler may     *)
(* come back to a submission it is over with: the channel holds every      *)
(* waiting submission once.                                                *)

AtWork == {"inserted", "starting", "polling", "completing", "failing"}

TaskShape ==
  /\ JobTypeOK
  /\ state \in [TaskIds -> TaskStates]
  /\ artifact \in [TaskIds -> Jobs \union {NoJob}]
  /\ pc \in [Submissions -> Points]
  /\ task \in [Submissions -> TaskIds \union {NoTask}]
  /\ job \in [Submissions -> Jobs \union {NoJob}]
  /\ channel \in Seq(Submissions)

Under ==
  \A u \in Submissions :
    /\ pc[u] # "unused" => task[u] \in TaskIds
    /\ pc[u] \in AtWork => job[u] \in Jobs

QueuedOnce ==
  /\ \A i \in 1..Len(channel) : pc[channel[i]] = "queued"
  /\ \A i, k \in 1..Len(channel) : channel[i] = channel[k] => i = k

CompletionsCounted ==
  /\ \A j \in Jobs : store[j] = "completed" => j \in succeeded
  /\ \A u \in Submissions : pc[u] = "completing" => job[u] \in succeeded

ArtifactKept ==
  \A t \in TaskIds : artifact[t] # NoJob =>
    /\ artifact[t] \in succeeded
    /\ \E u \in Submissions : pc[u] = "over" /\ task[u] = t /\ job[u] = artifact[t]

TaskInv == TaskShape /\ Under /\ QueuedOnce /\ CompletionsCounted /\ ArtifactKept

LEMMA TaskInitially == A2AInit => TaskInv
BY DEF A2AInit, JobInit, TaskInv, TaskShape, JobTypeOK, Under, QueuedOnce, CompletionsCounted,
       ArtifactKept, Status, RunState, TaskStates, Points, AtWork

(* Steps of one submission that set no artifact, start no job, and leave the
   channel alone. *)
LEMMA QuietStep ==
  ASSUME TaskInv, NEW u \in Submissions, NEW p \in Points \ {"unused", "completing", "queued"},
         pc[u] \notin {"unused", "queued", "over"}, p \in AtWork => pc[u] \in AtWork, Goto(u, p),
         state' \in [TaskIds -> TaskStates],
         UNCHANGED <<jobVars, artifact, task, job, channel, succeeded>>
  PROVE  TaskInv'
<1>1. TaskShape' /\ Under' /\ CompletionsCounted'
  BY DEF Goto, TaskInv, TaskShape, JobTypeOK, jobVars, Under, CompletionsCounted
<1>2. QueuedOnce'
  BY DEF Goto, TaskInv, TaskShape, QueuedOnce
<1>3. ArtifactKept'
  BY DEF Goto, TaskInv, TaskShape, ArtifactKept
<1>. QED BY <1>1, <1>2, <1>3 DEF TaskInv

LEMMA WorkStep ==
  ASSUME TaskInv, NEW u \in Submissions, Work(u)
  PROVE  TaskInv'
<1> USE A2AAssumption
<1>1. CASE Dispatch(u) \/ RejectSkill(u) \/ Stub(u) \/ MarkWorking(u) \/ Fail(u)
  <2>1. PICK p \in {"routing", "over", "starting"}, st \in TaskStates :
          /\ Goto(u, p) /\ SetState(u, st) /\ UNCHANGED <<jobVars, artifact, task, job, channel, succeeded>>
          /\ p = "starting" => pc[u] = "inserted"
          /\ pc[u] \notin {"unused", "queued", "over"}
    BY <1>1 DEF Dispatch, RejectSkill, Stub, MarkWorking, Fail, TaskStates, Terminal
  <2>2. state' \in [TaskIds -> TaskStates]
    BY <2>1 DEF TaskInv, TaskShape, SetState
  <2>. QED BY <2>1, <2>2, QuietStep DEF AtWork, Points
<1>2. CASE Forward(u)
  <2>1. channel' = Append(channel, u) /\ channel \in Seq(Submissions) /\ pc[u] = "routing"
    BY <1>2 DEF Forward, TaskInv, TaskShape
  <2>2. QueuedOnce'
    BY <1>2, <2>1 DEF Forward, Goto, TaskInv, TaskShape, QueuedOnce
  <2>3. TaskShape' /\ Under' /\ CompletionsCounted' /\ ArtifactKept'
    BY <1>2, <2>1 DEF Forward, Goto, TaskInv, TaskShape, JobTypeOK, jobVars, Under, CompletionsCounted,
         ArtifactKept, Points, AtWork
  <2>. QED BY <2>2, <2>3 DEF TaskInv
<1>3. CASE AnswerReceipts(u)
  <2>1. TaskShape' /\ Under' /\ CompletionsCounted'
    BY <1>3 DEF AnswerReceipts, Goto, SetState, TaskInv, TaskShape, JobTypeOK, jobVars, Under,
         CompletionsCounted, Points, AtWork, TaskStates, Terminal
  <2>2. QueuedOnce' /\ ArtifactKept'
    BY <1>3 DEF AnswerReceipts, Goto, TaskInv, TaskShape, Under, QueuedOnce, ArtifactKept
  <2>. QED BY <2>1, <2>2 DEF TaskInv
<1>4. ASSUME NEW j \in Jobs, InsertJob(u, j)
      PROVE  TaskInv'
  <2>1. TaskShape' /\ Under' /\ CompletionsCounted'
    BY <1>4 DEF InsertJob, Insert, Goto, TaskInv, TaskShape, JobTypeOK, Status, RunState, Under,
         CompletionsCounted, Points, AtWork
  <2>2. QueuedOnce' /\ ArtifactKept'
    BY <1>4 DEF InsertJob, Goto, TaskInv, TaskShape, QueuedOnce, ArtifactKept
  <2>. QED BY <2>1, <2>2 DEF TaskInv
<1>5. CASE StartJob(u)
  <2>1. TaskShape' /\ Under' /\ CompletionsCounted'
    BY <1>5 DEF StartJob, Spawn, Goto, TaskInv, TaskShape, JobTypeOK, RunState, Under,
         CompletionsCounted, Points, AtWork
  <2>2. QueuedOnce' /\ ArtifactKept'
    BY <1>5 DEF StartJob, Goto, TaskInv, TaskShape, QueuedOnce, ArtifactKept
  <2>. QED BY <2>1, <2>2 DEF TaskInv
<1>6. CASE Poll(u)
  <2>1. /\ pc[u] = "polling"
        /\ \/ store[job[u]] = "completed" /\ Goto(u, "completing")
           \/ Goto(u, "failing") \/ UNCHANGED pc
        /\ UNCHANGED <<store, run, state, artifact, task, job, channel, succeeded>>
    BY <1>6 DEF Poll, jobVars
  <2>2. TaskShape' /\ Under' /\ CompletionsCounted'
    BY <2>1 DEF Goto, TaskInv, TaskShape, JobTypeOK, Under, CompletionsCounted, Points, AtWork
  <2>3. QueuedOnce' /\ ArtifactKept'
    BY <2>1 DEF Goto, TaskInv, TaskShape, QueuedOnce, ArtifactKept
  <2>. QED BY <2>2, <2>3 DEF TaskInv
<1>7. CASE Complete(u)
  <2>1. task[u] \in TaskIds /\ job[u] \in Jobs /\ job[u] \in succeeded
    BY <1>7 DEF Complete, TaskInv, Under, CompletionsCounted, AtWork
  <2>2. TaskShape' /\ Under' /\ CompletionsCounted'
    BY <1>7, <2>1 DEF Complete, Goto, SetState, TaskInv, TaskShape, JobTypeOK, jobVars, Under,
         CompletionsCounted, Points, AtWork, TaskStates, Terminal
  <2>3. QueuedOnce' /\ ArtifactKept'
    BY <1>7, <2>1 DEF Complete, Goto, TaskInv, TaskShape, QueuedOnce, ArtifactKept
  <2>. QED BY <2>2, <2>3 DEF TaskInv
<1>. QED BY <1>1, <1>2, <1>3, <1>4, <1>5, <1>6, <1>7 DEF Work

LEMMA TaskInductive == TaskInv /\ [A2ANext]_allVars => TaskInv'
<1> SUFFICES ASSUME TaskInv, [A2ANext]_allVars PROVE TaskInv'
  OBVIOUS
<1> USE A2AAssumption
<1>1. ASSUME NEW u \in Submissions, NEW t \in TaskIds, NEW sk \in Skills, Submit(u, t, sk)
      PROVE  TaskInv'
  <2>1. TaskShape' /\ Under' /\ CompletionsCounted'
    BY <1>1 DEF Submit, Goto, TaskInv, TaskShape, JobTypeOK, jobVars, Under, CompletionsCounted,
         Points, AtWork, TaskStates, Terminal
  <2>2. QueuedOnce' /\ ArtifactKept'
    BY <1>1 DEF Submit, Goto, TaskInv, TaskShape, QueuedOnce, ArtifactKept
  <2>. QED BY <2>1, <2>2 DEF TaskInv
<1>2. ASSUME NEW t \in TaskIds, CancelCheck(t) \/ CancelWrite(t)
      PROVE  TaskInv'
  BY <1>2 DEF CancelCheck, CancelWrite, TaskInv, TaskShape, JobTypeOK, jobVars, Under, QueuedOnce,
       CompletionsCounted, ArtifactKept, TaskStates, Terminal
<1>3. CASE Receive
  <2> DEFINE u == Head(channel)
  <2>1. /\ u \in Submissions /\ u = channel[1] /\ pc[u] = "queued"
        /\ channel' \in Seq(Submissions) /\ Len(channel') = Len(channel) - 1 /\ Len(channel) \in Nat
        /\ \A i \in 1..Len(channel') : channel'[i] = channel[i + 1] /\ i + 1 \in 1..Len(channel)
    BY <1>3 DEF Receive, TaskInv, TaskShape, QueuedOnce
  <2>2. pc' = [pc EXCEPT ![u] = "host"]
    BY <1>3 DEF Receive, Goto
  <2> HIDE DEF u
  <2>3. QueuedOnce'
    <3>1. ASSUME NEW i \in 1..Len(channel') PROVE pc'[channel'[i]] = "queued"
      <4>1. channel'[i] = channel[i + 1] /\ i + 1 \in 1..Len(channel) /\ 1 \in 1..Len(channel) /\ i + 1 # 1
        BY <2>1
      <4>2. channel[i + 1] # u /\ pc[channel[i + 1]] = "queued"
        BY <2>1, <4>1 DEF TaskInv, QueuedOnce
      <4>. QED BY <2>2, <4>1, <4>2 DEF TaskInv, TaskShape
    <3>2. ASSUME NEW i \in 1..Len(channel'), NEW k \in 1..Len(channel'), channel'[i] = channel'[k]
          PROVE  i = k
      <4>1. i + 1 = k + 1
        BY <2>1, <3>2 DEF TaskInv, QueuedOnce
      <4>. QED BY <4>1
    <3>. QED BY <3>1, <3>2 DEF QueuedOnce
  <2>4. TaskShape' /\ Under' /\ CompletionsCounted' /\ ArtifactKept'
    BY <1>3, <2>1, <2>2 DEF Receive, TaskInv, TaskShape, JobTypeOK, jobVars, Under, CompletionsCounted,
         ArtifactKept, Points, AtWork
  <2>. QED BY <2>3, <2>4 DEF TaskInv
<1>4. ASSUME NEW j \in Jobs, JobRuns(j)
      PROVE  TaskInv'
  <2>1. TaskShape' /\ CompletionsCounted'
    BY <1>4 DEF JobRuns, Start, Finish, Vanish, taskVars, TaskInv, TaskShape, JobTypeOK, Status, RunState,
         CompletionsCounted
  <2>2. succeeded \subseteq succeeded'
    BY <1>4 DEF JobRuns
  <2>. QED BY <1>4, <2>1, <2>2 DEF JobRuns, taskVars, TaskInv, Under, QueuedOnce, ArtifactKept
<1>5. ASSUME NEW j \in Jobs, RetryJob(j)
      PROVE  TaskInv'
  BY <1>5 DEF RetryJob, Retry, taskVars, TaskInv, TaskShape, JobTypeOK, Status, CompletionsCounted,
       Under, QueuedOnce, ArtifactKept
<1>6. CASE NodeRestart
  BY <1>6 DEF NodeRestart, Restart, TaskInv, TaskShape, JobTypeOK, Status, RunState, CompletionsCounted,
       Under, QueuedOnce, ArtifactKept, Points, AtWork, TaskStates
<1>7. CASE UNCHANGED allVars
  BY <1>7 DEF allVars, jobVars, taskVars, TaskInv, TaskShape, JobTypeOK, CompletionsCounted,
       Under, QueuedOnce, ArtifactKept
<1>. QED BY <1>1, <1>2, <1>3, <1>4, <1>5, <1>6, <1>7, WorkStep DEF A2ANext

(* An artifact names a job that completed and was started for this task (poller,
   complete_task): for any number of tasks, submissions of one id, and jobs that
   are retried or lost. *)
THEOREM ArtifactTheorem == A2ASpec => []ArtifactIsEarned
<1>1. TaskInv => ArtifactIsEarned
  BY DEF TaskInv, ArtifactKept, ArtifactIsEarned
<1>. QED BY <1>1, TaskInitially, TaskInductive, PTL DEF A2ASpec

(* Nothing writes a task whose submissions are over, but a cancel request that
   was let through before (update_task_state and its callers). *)
THEOREM FinalTheorem == A2ASpec => OverIsFinal
<1>1. TaskInv /\ [A2ANext]_allVars =>
        [\A t \in TaskIds :
           /\ \E u \in Submissions : task[u] = t
           /\ \A u \in Submissions : task'[u] = t => pc[u] = "over" /\ pc'[u] = "over"
           /\ t \notin canceling
           => state'[t] = state[t]]_allVars
  <2> SUFFICES ASSUME TaskInv, A2ANext, NEW t \in TaskIds,
                      \E u \in Submissions : task[u] = t,
                      \A u \in Submissions : task'[u] = t => pc[u] = "over" /\ pc'[u] = "over",
                      t \notin canceling
               PROVE  state'[t] = state[t]
    OBVIOUS
  <2> USE DEF TaskInv, TaskShape
  <2>1. ASSUME NEW u \in Submissions, NEW i \in TaskIds, NEW sk \in Skills, Submit(u, i, sk)
        PROVE  state'[t] = state[t]
    BY <2>1 DEF Submit, Goto
  <2>2. ASSUME NEW u \in Submissions, Work(u)
        PROVE  state'[t] = state[t]
    <3>1. CASE UNCHANGED state
      BY <3>1
    <3>2. CASE \E st \in TaskStates : SetState(u, st) /\ task' = task /\ pc[u] # "over"
      BY <3>2 DEF SetState
    <3>. QED
      BY <2>2, <3>1, <3>2 DEF Work, Dispatch, RejectSkill, Forward, Stub, AnswerReceipts, InsertJob,
           MarkWorking, StartJob, Poll, Complete, Fail, TaskStates, Terminal
  <2>3. ASSUME NEW i \in TaskIds, CancelCheck(i) \/ CancelWrite(i)
        PROVE  state'[t] = state[t]
    BY <2>3 DEF CancelCheck, CancelWrite
  <2>4. CASE Receive \/ \E j \in Jobs : JobRuns(j) \/ RetryJob(j)
    BY <2>4 DEF Receive, JobRuns, RetryJob, taskVars
  <2>5. CASE NodeRestart
    BY <2>5 DEF NodeRestart
  <2>. QED BY <2>1, <2>2, <2>3, <2>4, <2>5 DEF A2ANext
<1>. QED BY <1>1, TaskInitially, TaskInductive, PTL DEF A2ASpec, OverIsFinal

-----------------------------------------------------------------------------
(* The runtime: the safety supervisor, action receipts and the act chain.  *)

(* What the supervisor's two flags tell of the operator. *)
FlagsTell ==
  /\ stopped \in BOOLEAN /\ tier \in Tiers
  /\ undone \subseteq {"cleared", "reconfigured"}
  /\ ~ stopped => "cleared" \in undone
  /\ tier # "emergency_stop" => "reconfigured" \in undone
  /\ DOMAIN verdict = Acts

ReceiptFields == SignedFields \cup {"params", "result", "sig"}

(* A signature covers what the receipt still says of the act. *)
SignatureCovers ==
  /\ DOMAIN receipt = Acts
  /\ \A a \in Acts : receipt[a] # None =>
       /\ receipt[a] = [f \in ReceiptFields |-> receipt[a][f]]
       /\ receipt[a].sig # None =>
            /\ receipt[a].sig.inHash = receipt[a].inHash /\ receipt[a].sig.outHash = receipt[a].outHash
            /\ receipt[a].sig.outcome = receipt[a].outcome /\ receipt[a].sig.evidence = receipt[a].evidence

RInv == FlagsTell /\ SignatureCovers

LEMMA ProjectionCovers ==
  ASSUME NEW r, NEW s, s = Project(r, SignedFields)
  PROVE  s.inHash = r.inHash /\ s.outHash = r.outHash /\ s.outcome = r.outcome /\ s.evidence = r.evidence
BY DEF Project, SignedFields, IdFields

LEMMA Rewritten ==
  ASSUME RInv, RuntimeAssumption, NEW a \in Acts, NEW r, receipt[a] # None, Rewrite(a, r),
         r = [f \in ReceiptFields |-> r[f]],
         \A f \in {"inHash", "outHash", "outcome", "evidence"} : r[f] = receipt[a][f],
         r.sig = receipt[a].sig \/ r.sig = Project(receipt[a], SignedFields)
  PROVE  SignatureCovers'
<1>1. receipt' = [receipt EXCEPT ![a] = r]
  BY DEF Rewrite
<1>2. r.sig # None => /\ r.sig.inHash = r.inHash /\ r.sig.outHash = r.outHash
                      /\ r.sig.outcome = r.outcome /\ r.sig.evidence = r.evidence
  <2>1. CASE r.sig = receipt[a].sig
    BY <2>1 DEF RInv, SignatureCovers
  <2>2. CASE r.sig = Project(receipt[a], SignedFields)
    BY <2>2, ProjectionCovers
  <2>. QED BY <2>1, <2>2
<1>. QED BY <1>1, <1>2 DEF RInv, SignatureCovers

LEMMA NewIsUnsigned ==
  ASSUME NEW a, NEW c, NEW outcome, NEW result, NEW t, NEW r, r = NewReceipt(a, c, outcome, result, t)
  PROVE  r = [f \in ReceiptFields |-> r[f]] /\ r.sig = None
BY DEF NewReceipt, WithId, ReceiptFields, SignedFields, IdFields

LEMMA RInitially == Init => RInv
BY RuntimeAssumption DEF Init, RInv, FlagsTell, SignatureCovers, Tiers

LEMMA RInductive == RInv /\ [Next]_vars => RInv'
<1> SUFFICES ASSUME RInv, [Next]_vars PROVE RInv'
  OBVIOUS
<1> USE RuntimeAssumption DEF supervision
<1>1. CASE EmergencyStop
  BY <1>1 DEF EmergencyStop, RInv, FlagsTell, SignatureCovers, Tiers
<1>2. CASE ClearEmergency
  BY <1>2 DEF ClearEmergency, ClearedTier, RInv, FlagsTell, SignatureCovers
<1>3. ASSUME NEW t \in Settings, Reconfigure(t)
      PROVE  RInv'
  BY <1>3 DEF Reconfigure, RInv, FlagsTell, SignatureCovers
<1>4. ASSUME NEW a \in Acts, NEW r \in Requests[a], Begin(a, r)
      PROVE  RInv'
  <2>1. FlagsTell'
    BY <1>4 DEF Begin, RInv, FlagsTell
  <2>2. CASE receipt' = receipt
    BY <2>1, <2>2 DEF RInv, SignatureCovers
  <2>3. CASE receipt' = [receipt EXCEPT ![a] = Denied(a, r, now)]
    BY <2>1, <2>3, NewIsUnsigned DEF Denied, RInv, SignatureCovers
  <2>. QED BY <1>4, <2>2, <2>3 DEF Begin
<1>5. ASSUME NEW a \in Acts, AddEvidence(a) \/ Actuate(a) \/ \E cmd \in Commands : Evaluate(a, cmd)
      PROVE  RInv'
  BY <1>5 DEF AddEvidence, Actuate, Evaluate, RInv, FlagsTell, SignatureCovers
<1>6. ASSUME NEW a \in Acts, NEW outcome, NEW result, NEW t, EndAct(a, outcome, result, t)
      PROVE  RInv'
  BY <1>6, NewIsUnsigned DEF EndAct, RInv, FlagsTell, SignatureCovers
<1>7. ASSUME NEW a \in Acts, NEW r, Rewrite(a, r)
      PROVE  FlagsTell'
  BY <1>7 DEF Rewrite, RInv, FlagsTell
<1>8. ASSUME NEW a \in Acts, Sign(a)
      PROVE  RInv'
  <2> DEFINE r == [receipt[a] EXCEPT !.sig = Project(receipt[a], SignedFields)]
  <2>1. receipt[a] # None /\ Rewrite(a, r)
    BY <1>8 DEF Sign, Rewrite, Holds
  <2>2. receipt[a] = [f \in ReceiptFields |-> receipt[a][f]]
    BY <2>1 DEF RInv, SignatureCovers
  <2>3. /\ r = [f \in ReceiptFields |-> r[f]] /\ r.sig = Project(receipt[a], SignedFields)
        /\ \A f \in {"inHash", "outHash", "outcome", "evidence"} : r[f] = receipt[a][f]
    BY <2>2 DEF ReceiptFields, SignedFields, IdFields
  <2>. QED BY <1>7, <2>1, <2>3, Rewritten DEF RInv
<1>9. ASSUME NEW a \in Acts, NEW w \in Works, WithWorkId(a, w)
      PROVE  RInv'
  <2> DEFINE r == WithId([receipt[a] EXCEPT !.work = w])
  <2>1. receipt[a] # None /\ Rewrite(a, r)
    BY <1>9 DEF WithWorkId, Rewrite, Holds
  <2>2. receipt[a] = [f \in ReceiptFields |-> receipt[a][f]]
    BY <2>1 DEF RInv, SignatureCovers
  <2>3. /\ r = [f \in ReceiptFields |-> r[f]] /\ r.sig = receipt[a].sig
        /\ \A f \in {"inHash", "outHash", "outcome", "evidence"} : r[f] = receipt[a][f]
    BY <2>2 DEF WithId, ReceiptFields, SignedFields, IdFields
  <2>. QED BY <1>7, <2>1, <2>3, Rewritten DEF RInv
<1>10. ASSUME NEW a \in Acts, NEW v \in Results, SetResult(a, v)
       PROVE  RInv'
  <2> DEFINE r == [receipt[a] EXCEPT !.result = v]
  <2>1. receipt[a] # None /\ Rewrite(a, r)
    BY <1>10 DEF SetResult, Rewrite, Holds
  <2>2. receipt[a] = [f \in ReceiptFields |-> receipt[a][f]]
    BY <2>1 DEF RInv, SignatureCovers
  <2>3. /\ r = [f \in ReceiptFields |-> r[f]] /\ r.sig = receipt[a].sig
        /\ \A f \in {"inHash", "outHash", "outcome", "evidence"} : r[f] = receipt[a][f]
    BY <2>2 DEF ReceiptFields, SignedFields, IdFields
  <2>. QED BY <1>7, <2>1, <2>3, Rewritten DEF RInv
<1>11. ASSUME NEW a \in Acts, NewActReceipt(a) \/ LinkDraft(a) \/ SignDraft(a) \/ Push(a)
       PROVE  RInv'
  BY <1>11 DEF NewActReceipt, LinkDraft, SignDraft, Push, RInv, FlagsTell, SignatureCovers
<1>12. CASE Tick \/ UNCHANGED vars
  BY <1>12 DEF Tick, vars, RInv, FlagsTell, SignatureCovers
<1>. QED
  BY <1>1, <1>2, <1>3, <1>4, <1>5, <1>6, <1>8, <1>9, <1>10, <1>11, <1>12 DEF Next, CompleteAct, FailAct

(* A signed receipt that conforms reports what was signed (complete, fail,
   with_work_id, sign, is_sep1_conformant): for any acts, results and writes. *)
THEOREM SignedTheorem == Spec => []SignedPayloadStands
<1>1. RInv => SignedPayloadStands
  BY DEF RInv, SignatureCovers, SignedPayloadStands, IsSep1Conformant
<1>. QED BY <1>1, RInitially, RInductive, PTL DEF Spec

(* A stop holds until the operator has cleared it and set a tier (evaluate,
   emergency_stop, clear_emergency): for any acts and commands. *)
THEOREM StopTheorem == Spec => StopHolds
<1>1. RInv /\ [Next]_vars =>
        [\A a \in Acts : ~ IsClear(verdict[a]) /\ IsClear(verdict'[a])
            => undone = {"cleared", "reconfigured"}]_vars
  <2> SUFFICES ASSUME RInv, Next, NEW a \in Acts, ~ IsClear(verdict[a]), IsClear(verdict'[a])
               PROVE  undone = {"cleared", "reconfigured"}
    OBVIOUS
  <2> USE RuntimeAssumption DEF supervision
  <2>1. verdict'[a] # verdict[a] /\ verdict'[a] # None /\ DOMAIN verdict = Acts
    BY DEF IsClear, Verdicts, RInv, FlagsTell
  <2>2. \E b \in Acts, cmd \in Commands : Evaluate(b, cmd)
    <3>1. ~ EmergencyStop /\ ~ ClearEmergency /\ ~ Tick /\ ~ \E t \in Settings : Reconfigure(t)
      BY <2>1 DEF EmergencyStop, ClearEmergency, Tick, Reconfigure
    <3>2. ASSUME NEW b \in Acts
          PROVE  /\ ~ AddEvidence(b) /\ ~ Actuate(b) /\ ~ \E r \in Requests[b] : Begin(b, r)
                 /\ ~ \E t \in 0..MaxTime : FailAct(b, t) \/ \E v \in Results : CompleteAct(b, v, t)
      BY <2>1 DEF AddEvidence, Actuate, Begin, FailAct, CompleteAct, EndAct
    <3>3. ASSUME NEW b \in Acts
          PROVE  /\ ~ Sign(b) /\ ~ (\E w \in Works : WithWorkId(b, w)) /\ ~ \E v \in Results : SetResult(b, v)
                 /\ ~ NewActReceipt(b) /\ ~ LinkDraft(b) /\ ~ SignDraft(b) /\ ~ Push(b)
      BY <2>1 DEF Sign, WithWorkId, SetResult, Rewrite, NewActReceipt, LinkDraft, SignDraft, Push
    <3>. QED BY <3>1, <3>2, <3>3 DEF Next
  <2>3. PICK cmd \in Commands : IsClear(Evaluation(cmd))
    BY <2>1, <2>2 DEF Evaluate
  <2>4. ~ stopped /\ tier # "emergency_stop"
    BY <2>3 DEF Evaluation, IsClear
  <2>. QED BY <2>4 DEF RInv, FlagsTell
<1>. QED BY <1>1, RInitially, RInductive, PTL DEF Spec, StopHolds

-----------------------------------------------------------------------------
(* The act chain: a draft may wait, signed, while others are pushed.       *)

DraftFields == {"id", "action", "prev", "sig", "signedAt"}

(* What was signed when the chain was k long is the link to its k-th. *)
LinkSigned(d) ==
  /\ d = [f \in DraftFields |-> d[f]]
  /\ d.signedAt \in 0..Len(chain)
  /\ d.signedAt # 0 => d.sig = <<d.id, chain[d.signedAt].id>>

ChainInv ==
  /\ \E S : chain \in Seq(S)
  /\ DOMAIN draft = Acts
  /\ \A a \in Acts : draft[a] # None => LinkSigned(draft[a])
  /\ ChainHolds

LEMMA LinkedKeeps ==
  ASSUME NEW d, LinkSigned(d), NEW e, e = Linked(d), chain # <<>>
  PROVE  e.prev = Latest.id /\ e.id = d.id /\ e.sig = d.sig /\ e.signedAt = d.signedAt
BY DEF LinkSigned, DraftFields, Linked

LEMMA PushStep ==
  ASSUME ChainInv, NEW a \in Acts, Push(a)
  PROVE  ChainInv'
<1> DEFINE d == draft[a]
           e == Linked(d)
           n == Len(chain)
<1>1. d # None /\ LinkSigned(d) /\ chain' = Append(chain, e) /\ draft' = [draft EXCEPT ![a] = None]
  BY DEF Push, ChainInv
<1>2. PICK S : chain \in Seq(S)
  BY DEF ChainInv
<1> HIDE DEF d, e
<1>3. chain \in Seq(S \cup {e}) /\ chain' \in Seq(S \cup {e})
  BY <1>1, <1>2
<1>4. n \in Nat /\ Len(chain') = n + 1 /\ chain'[n + 1] = e /\ \A i \in 1..n : chain'[i] = chain[i]
  BY <1>1, <1>2, <1>3
<1>5. \A b \in Acts : draft'[b] # None => LinkSigned(draft[b])'
  BY <1>1, <1>4 DEF ChainInv, LinkSigned
<1>6. ASSUME n >= 1 PROVE e.prev = chain[n].id /\ (e.signedAt = n => e.sig = ActPayload(e))
  <2>1. e.prev = chain[n].id /\ e.id = d.id /\ e.sig = d.sig /\ e.signedAt = d.signedAt
    BY <1>1, <1>4, <1>6, LinkedKeeps DEF e, Latest
  <2>2. d.signedAt # 0 => d.sig = <<d.id, chain[d.signedAt].id>>
    BY <1>1 DEF LinkSigned
  <2>3. e.signedAt = n => e.sig = <<e.id, e.prev>>
    BY <1>4, <1>6, <2>1, <2>2
  <2>. QED BY <2>1, <2>3 DEF ActPayload
<1>7. ChainHolds'
  <2> SUFFICES ASSUME NEW i \in 2..(n + 1)
               PROVE  chain'[i].prev = chain'[i - 1].id
                      /\ (chain'[i].signedAt = i - 1 => chain'[i].sig = ActPayload(chain'[i]))
    BY <1>4 DEF ChainHolds, ActPayloadHolds, ActPayload
  <2>1. CASE i \in 2..n
    BY <1>4, <2>1 DEF ChainInv, ChainHolds, ActPayloadHolds
  <2>2. CASE i = n + 1
    BY <1>4, <1>6, <2>2
  <2>. QED BY <1>4, <2>1, <2>2
<1>. QED BY <1>1, <1>3, <1>5, <1>7 DEF ChainInv

LEMMA DraftStep ==
  ASSUME ChainInv, NEW a \in Acts, NEW d, LinkSigned(d), chain' = chain,
         draft' = [draft EXCEPT ![a] = d]
  PROVE  ChainInv'
<1>1. ChainHolds'
  BY DEF ChainInv, ChainHolds, ActPayloadHolds, ActPayload
<1>2. \A b \in Acts : draft'[b] # None => LinkSigned(draft[b])'
  BY DEF ChainInv, LinkSigned
<1>. QED BY <1>1, <1>2 DEF ChainInv

LEMMA ChainInitially == Init => ChainInv
BY DEF Init, ChainInv, ChainHolds

LEMMA ChainInductive == ChainInv /\ [Next]_vars => ChainInv'
<1> SUFFICES ASSUME ChainInv, [Next]_vars PROVE ChainInv'
  OBVIOUS
<1>1. CASE UNCHANGED <<draft, chain>>
  BY <1>1 DEF ChainInv, ChainHolds, ActPayloadHolds, ActPayload, LinkSigned
<1>2. ASSUME NEW a \in Acts, NewActReceipt(a)
      PROVE  ChainInv'
  <2> DEFINE d == [id |-> a, action |-> receipt[a].id, prev |-> None, sig |-> None, signedAt |-> 0]
  <2>1. Len(chain) \in Nat
    BY DEF ChainInv
  <2>2. LinkSigned(d)
    BY <2>1 DEF LinkSigned, DraftFields
  <2>. QED BY <1>2, <2>2, DraftStep DEF NewActReceipt
<1>3. ASSUME NEW a \in Acts, LinkDraft(a)
      PROVE  ChainInv'
  <2>1. LinkSigned(draft[a])
    BY <1>3 DEF LinkDraft, ChainInv
  <2>2. LinkSigned([draft[a] EXCEPT !.prev = Latest.id])
    BY <2>1 DEF LinkSigned, DraftFields
  <2>. QED BY <1>3, <2>2, DraftStep DEF LinkDraft
<1>4. ASSUME NEW a \in Acts, SignDraft(a)
      PROVE  ChainInv'
  <2> DEFINE d == draft[a]
             current == chain # <<>> /\ d.prev = Latest.id
             e == [d EXCEPT !.sig = ActPayload(d), !.signedAt = IF current THEN Len(chain) ELSE 0]
  <2>1. LinkSigned(d) /\ Len(chain) \in Nat
    BY <1>4 DEF SignDraft, ChainInv
  <2>2. e = [f \in DraftFields |-> e[f]] /\ e.id = d.id /\ e.sig = <<d.id, d.prev>>
        /\ e.signedAt = IF current THEN Len(chain) ELSE 0
    BY <2>1 DEF LinkSigned, DraftFields, ActPayload
  <2> HIDE DEF e
  <2>3. LinkSigned(e)
    <3>1. e.signedAt # 0 => e.sig = <<e.id, chain[e.signedAt].id>>
      BY <2>2 DEF Latest
    <3>2. e.signedAt \in 0..Len(chain)
      BY <2>1, <2>2
    <3>. QED BY <2>2, <3>1, <3>2 DEF LinkSigned
  <2>4. draft' = [draft EXCEPT ![a] = e] /\ chain' = chain
    BY <1>4 DEF SignDraft, ChainInv, e
  <2>. QED BY <2>3, <2>4, DraftStep
<1>5. ASSUME Next, ~ UNCHANGED <<draft, chain>>
      PROVE  \E a \in Acts : NewActReceipt(a) \/ LinkDraft(a) \/ SignDraft(a) \/ Push(a)
  BY <1>5 DEF Next, EmergencyStop, ClearEmergency, Tick, Reconfigure, Begin, AddEvidence, Actuate, Evaluate,
       FailAct, CompleteAct, EndAct, Sign, WithWorkId, SetResult, Rewrite
<1>. QED BY <1>1, <1>2, <1>3, <1>4, <1>5, PushStep DEF vars

(* The chain verifies, and a signature that covered its link when it was made
   and was overtaken by no push covers it still (push, verify): for any acts and
   any interleaving of their pushes. *)
THEOREM ChainTheorem == Spec => []ChainHolds
<1>1. ChainInv => ChainHolds
  BY DEF ChainInv
<1>. QED BY <1>1, ChainInitially, ChainInductive, PTL DEF Spec
=============================================================================
