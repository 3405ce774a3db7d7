------------------------------- MODULE A2ATask -------------------------------
(***************************************************************************)
(* Agent-to-agent tasks:                                                   *)
(*   src/sovereign-a2a/src/router.rs   task table, submit, cancel, dispatch *)
(*   src/sovereign-node/src/node.rs    dispatch loop, handle_a2a_dispatch  *)
(*                                                                         *)
(* A submission spawns a dispatcher, which forwards the request over a     *)
(* bounded channel to the node.  The node starts a capture job for it and  *)
(* a poller that copies the outcome of the job into the task.  Dispatcher, *)
(* host handler, poller and cancel requests all write the status of the    *)
(* task, and none of these writes looks at the status it replaces.         *)
(*                                                                         *)
(* The jobs behave as JobLifecycle says: whatever a capture does is one of *)
(* its steps, and its store and run are variables of this module.          *)
(***************************************************************************)
EXTENDS JobLifecycle, Sequences, SequencesExt

CONSTANTS
  TaskIds,         \* ids of tasks; a client may choose the id of its task
  Submissions,     \* POST /a2a/tasks requests
  NoTask, NoJob,
  ChannelCap,      \* capacity of the dispatch channel (32 in the code)
  MaxPolls         \* polls of a job before giving up (300 in the code)

ASSUME A2AAssumption ==
  /\ NoTask \notin TaskIds
  /\ NoJob \notin Jobs
  /\ ChannelCap \in Nat \ {0}
  /\ MaxPolls \in Nat

VARIABLES
  hosted,          \* with_dispatch was called (as the node does at startup)
  state,           \* state[t]: TaskState of t, "absent" if there is no task t
  artifact,        \* artifact[t]: the job named in the artifacts of t
  pc,              \* pc[u]: who works on submission u, and where
  task,            \* task[u]: the id it was submitted under
  skill,           \* skill[u]: what its text asks for
  job,             \* job[u]: the capture job started for it
  polls,           \* polls[u]: polls of its poller so far
  channel,         \* the mpsc channel of A2aDispatchRequest
  canceling,       \* tasks a cancel request found cancelable and will write
  succeeded        \* history: jobs that have been Completed

taskVars == <<hosted, state, artifact, pc, task, skill, job, polls, channel, canceling>>
allVars == <<jobVars, taskVars, succeeded>>

Terminal == {"completed", "failed", "canceled"}
TaskStates == {"absent", "submitted", "working"} \union Terminal
Skills == {"capture", "receipt", "other"}

Points == {"unused", "dispatching", "routing", "queued", "host", "inserted",
           "starting", "polling", "completing", "failing", "over", "gone"}

A2ATypeOK ==
  /\ JobTypeOK
  /\ hosted \in BOOLEAN
  /\ state \in [TaskIds -> TaskStates]
  /\ artifact \in [TaskIds -> Jobs \union {NoJob}]
  /\ pc \in [Submissions -> Points]
  /\ task \in [Submissions -> TaskIds \union {NoTask}]
  /\ skill \in [Submissions -> Skills]
  /\ job \in [Submissions -> Jobs \union {NoJob}]
  /\ polls \in [Submissions -> 0..MaxPolls]
  /\ channel \in Seq(Submissions)
  /\ Len(channel) <= ChannelCap
  /\ canceling \subseteq TaskIds
  /\ succeeded \subseteq Jobs

A2AInit ==
  /\ JobInit
  /\ hosted \in BOOLEAN
  /\ state = [t \in TaskIds |-> "absent"]
  /\ artifact = [t \in TaskIds |-> NoJob]
  /\ pc = [u \in Submissions |-> "unused"]
  /\ task = [u \in Submissions |-> NoTask]
  /\ skill = [u \in Submissions |-> "other"]
  /\ job = [u \in Submissions |-> NoJob]
  /\ polls = [u \in Submissions |-> 0]
  /\ channel = <<>>
  /\ canceling = {}
  /\ succeeded = {}

Goto(u, p) == pc' = [pc EXCEPT ![u] = p]

(* update_task_state and complete_task: unconditional, as no task is ever
   removed from the table. *)
SetState(u, st) == state' = [state EXCEPT ![task[u]] = st]

-----------------------------------------------------------------------------
(* The router. *)

(* handle_task_submit: insert_task replaces a task with the same id. *)
Submit(u, t, sk) ==
  /\ pc[u] = "unused"
  /\ state' = [state EXCEPT ![t] = "submitted"]
  /\ artifact' = [artifact EXCEPT ![t] = NoJob]
  /\ task' = [task EXCEPT ![u] = t]
  /\ skill' = [skill EXCEPT ![u] = sk]
  /\ Goto(u, "dispatching")
  /\ UNCHANGED <<jobVars, hosted, job, polls, channel, canceling, succeeded>>

(* dispatch_task, its first statement. *)
Dispatch(u) ==
  /\ pc[u] = "dispatching"
  /\ SetState(u, "working")
  /\ Goto(u, "routing")
  /\ UNCHANGED <<jobVars, hosted, artifact, task, skill, job, polls, channel, canceling, succeeded>>

RejectSkill(u) ==
  /\ pc[u] = "routing"
  /\ skill[u] = "other"
  /\ SetState(u, "failed")
  /\ Goto(u, "over")
  /\ UNCHANGED <<jobVars, hosted, artifact, task, skill, job, polls, channel, canceling, succeeded>>

(* send on the channel waits while it is full. *)
Forward(u) ==
  /\ pc[u] = "routing"
  /\ skill[u] # "other"
  /\ hosted
  /\ Len(channel) < ChannelCap
  /\ channel' = Append(channel, u)
  /\ Goto(u, "queued")
  /\ UNCHANGED <<jobVars, hosted, state, artifact, task, skill, job, polls, canceling, succeeded>>

(* Without a host, both skills are answered by a notice. *)
Stub(u) ==
  /\ pc[u] = "routing"
  /\ skill[u] # "other"
  /\ ~hosted
  /\ SetState(u, "completed")
  /\ Goto(u, "over")
  /\ UNCHANGED <<jobVars, hosted, artifact, task, skill, job, polls, channel, canceling, succeeded>>

(* handle_task_cancel reads the status under one lock and writes it under
   another. *)
CancelCheck(t) ==
  /\ state[t] \in {"submitted", "working"}
  /\ canceling' = canceling \union {t}
  /\ UNCHANGED <<jobVars, hosted, state, artifact, pc, task, skill, job, polls, channel, succeeded>>

(* Mutation: the terminal states are not checked before the write. *)
CancelUnchecked(t) ==
  /\ state[t] # "absent"
  /\ state' = [state EXCEPT ![t] = "canceled"]
  /\ canceling' = canceling \ {t}
  /\ UNCHANGED <<jobVars, hosted, artifact, pc, task, skill, job, polls, channel, succeeded>>

CancelWrite(t) ==
  /\ t \in canceling
  /\ state' = [state EXCEPT ![t] = "canceled"]
  /\ canceling' = canceling \ {t}
  /\ UNCHANGED <<jobVars, hosted, artifact, pc, task, skill, job, polls, channel, succeeded>>

-----------------------------------------------------------------------------
(* The node. *)

(* The dispatch loop spawns a handler for each request it receives. *)
Receive ==
  /\ channel # <<>>
  /\ Goto(Head(channel), "host")
  /\ channel' = Tail(channel)
  /\ UNCHANGED <<jobVars, hosted, state, artifact, task, skill, job, polls, canceling, succeeded>>

(* handle_a2a_dispatch, "receipt": the answer is a query of the receipts. *)
AnswerReceipts(u) ==
  /\ pc[u] = "host"
  /\ skill[u] = "receipt"
  /\ SetState(u, "completed")
  /\ artifact' = [artifact EXCEPT ![task[u]] = NoJob]
  /\ Goto(u, "over")
  /\ UNCHANGED <<jobVars, hosted, task, skill, job, polls, channel, canceling, succeeded>>

(* handle_a2a_dispatch, "capture": insert a job, set Working again, look the
   device up, spawn the run and the poller. *)
InsertJob(u, j) ==
  /\ pc[u] = "host"
  /\ skill[u] = "capture"
  /\ Insert(j)
  /\ job' = [job EXCEPT ![u] = j]
  /\ Goto(u, "inserted")
  /\ UNCHANGED <<hosted, state, artifact, task, skill, polls, channel, canceling, succeeded>>

MarkWorking(u) ==
  /\ pc[u] = "inserted"
  /\ SetState(u, "working")
  /\ Goto(u, "starting")
  /\ UNCHANGED <<jobVars, hosted, artifact, task, skill, job, polls, channel, canceling, succeeded>>

StartJob(u) ==
  /\ pc[u] = "starting"
  /\ Spawn(job[u])
  /\ Goto(u, "polling")
  /\ UNCHANGED <<hosted, state, artifact, task, skill, job, polls, channel, canceling, succeeded>>

(* Mutation: a failed job is taken for a finished one. *)
PollTakesAnyEnd(u) ==
  /\ pc[u] = "polling"
  /\ store[job[u]] \in {"completed", "failed"}
  /\ Goto(u, "completing")
  /\ UNCHANGED <<jobVars, hosted, polls, state, artifact, task, skill, job, channel, canceling, succeeded>>

(* Mutation: polls that are not counted. *)
PollForever(u) ==
  /\ pc[u] = "polling"
  /\ \/ store[job[u]] = "completed" /\ Goto(u, "completing")
     \/ store[job[u]] = "failed" /\ Goto(u, "failing")
  /\ UNCHANGED <<jobVars, hosted, polls, state, artifact, task, skill, job, channel, canceling, succeeded>>

(* One turn of the poller: the job is read now, the task written later. *)
Poll(u) ==
  /\ pc[u] = "polling"
  /\ polls[u] < MaxPolls
  /\ \/ /\ store[job[u]] = "completed"
        /\ Goto(u, "completing")
        /\ UNCHANGED polls
     \/ /\ store[job[u]] = "failed"
        /\ Goto(u, "failing")
        /\ UNCHANGED polls
     \/ /\ store[job[u]] \notin {"completed", "failed"}
        /\ polls' = [polls EXCEPT ![u] = @ + 1]
        /\ UNCHANGED pc
  /\ UNCHANGED <<jobVars, hosted, state, artifact, task, skill, job, channel, canceling, succeeded>>

Complete(u) ==
  /\ pc[u] = "completing"
  /\ SetState(u, "completed")
  /\ artifact' = [artifact EXCEPT ![task[u]] = job[u]]
  /\ Goto(u, "over")
  /\ UNCHANGED <<jobVars, hosted, task, skill, job, polls, channel, canceling, succeeded>>

(* The job failed, or the polls are used up. *)
Fail(u) ==
  /\ pc[u] = "failing" \/ (pc[u] = "polling" /\ polls[u] = MaxPolls)
  /\ SetState(u, "failed")
  /\ Goto(u, "over")
  /\ UNCHANGED <<jobVars, hosted, artifact, task, skill, job, polls, channel, canceling, succeeded>>

-----------------------------------------------------------------------------
(* The jobs of the tasks.  Jobs of other requests share nothing with tasks; a
   client may retry the job of a task by its id. *)

JobRuns(j) ==
  /\ \/ Start(j)
     \/ Finish(j, "completed")
     \/ Finish(j, "failed")
     \/ Vanish(j)
  /\ succeeded' = IF store'[j] = "completed" THEN succeeded \union {j} ELSE succeeded
  /\ UNCHANGED taskVars

RetryJob(j) ==
  /\ Retry(j)
  /\ UNCHANGED <<taskVars, succeeded>>

(* Tasks, jobs, the channel and every handler are memory of the process. *)
NodeRestart ==
  /\ Restart
  /\ state' = [t \in TaskIds |-> "absent"]
  /\ artifact' = [t \in TaskIds |-> NoJob]
  /\ pc' = [u \in Submissions |-> IF pc[u] = "unused" THEN "unused" ELSE "gone"]
  /\ channel' = <<>>
  /\ canceling' = {}
  /\ UNCHANGED <<hosted, task, skill, job, polls, succeeded>>

-----------------------------------------------------------------------------

Work(u) ==
  \/ Dispatch(u) \/ RejectSkill(u) \/ Forward(u) \/ Stub(u)
  \/ AnswerReceipts(u)
  \/ \E j \in Jobs : InsertJob(u, j)
  \/ MarkWorking(u) \/ StartJob(u)
  \/ Poll(u) \/ Complete(u) \/ Fail(u)

A2ANext ==
  \/ \E u \in Submissions :
       \/ \E t \in TaskIds, sk \in Skills : Submit(u, t, sk)
       \/ Work(u)
  \/ \E t \in TaskIds : CancelCheck(t) \/ CancelWrite(t)
  \/ Receive
  \/ \E j \in Jobs : JobRuns(j) \/ RetryJob(j)
  \/ NodeRestart

A2ASpec == A2AInit /\ [][A2ANext]_allVars

(* tokio polls the spawned dispatchers, handlers and pollers and the dispatch
   loop, and timers expire.  Nothing is assumed of the jobs. *)
A2AFairSpec ==
  /\ A2ASpec
  /\ \A u \in Submissions : WF_allVars(Work(u))
  /\ WF_allVars(Receive)

-----------------------------------------------------------------------------
(* Properties. *)

(* A task that names a captured twin names the one of a job that completed and
   that was started for a submission of this very task; the job's status may
   have been overwritten by a retry in the meantime (Poll, Complete). *)
ArtifactIsEarned ==
  \A t \in TaskIds :
    artifact[t] # NoJob =>
      /\ artifact[t] \in succeeded
      /\ \E u \in Submissions : task[u] = t /\ job[u] = artifact[t]

(* When the work on all submissions of a task is over, the task has reached its
   last status: no late poll, handler, dispatcher or cancel request writes it
   again, unless the cancel request had found it cancelable before. *)
OverIsFinal ==
  [][\A t \in TaskIds :
       /\ \E u \in Submissions : task[u] = t
       /\ \A u \in Submissions : task'[u] = t => pc[u] = "over" /\ pc'[u] = "over"
       /\ t \notin canceling
       => state'[t] = state[t]]_allVars

(* Each submitted task, canceled in between or not, reaches a terminal status,
   whatever becomes of its job: a job whose run panics or that is retried may
   never end, but the polls do (Poll, Fail). *)
SubmittedSettles ==
  \A t \in TaskIds :
    state[t] \in {"submitted", "working"} ~> state[t] \in Terminal \union {"absent"}

=============================================================================
