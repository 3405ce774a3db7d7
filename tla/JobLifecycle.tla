---------------------------- MODULE JobLifecycle ----------------------------
(***************************************************************************)
(* What the job store of sovereign-node promises about capture jobs:       *)
(* src/sovereign-node/src/jobs.rs and the callers that write a status.     *)
(*                                                                         *)
(* A job is created Queued, for one background run (run_capture_job).  The *)
(* run marks it Running, then writes exactly one outcome.                  *)
(* POST /jobs/:id/retry writes Queued over any status and starts no second *)
(* run.  Store and runs live in memory: a restart forgets them, and no     *)
(* later job gets the id of an earlier one (ids are UUIDs).                *)
(*                                                                         *)
(* This module says when a status may change, and nothing of receipts,     *)
(* files or events.  CaptureNode implements it; A2ATask and SwarmCapture   *)
(* watch jobs that behave like it.                                         *)
(***************************************************************************)
EXTENDS Naturals

CONSTANT Jobs          \* the job ids a behaviour may draw

VARIABLES
  store,               \* store[j]: status of j in the JobStore, "absent" if none
  run                  \* run[j]: progress of the run_capture_job of j

jobVars == <<store, run>>

Status == {"absent", "queued", "running", "completed", "failed"}
RunState == {"idle", "inserted", "spawned", "running", "over"}

JobTypeOK ==
  /\ store \in [Jobs -> Status]
  /\ run \in [Jobs -> RunState]

JobInit ==
  /\ store = [j \in Jobs |-> "absent"]
  /\ run = [j \in Jobs |-> "idle"]

(* Job::new, JobStore::insert and tokio::spawn.  handle_capture does not await
   between the insertion and the spawn; handle_capture_swarm and
   handle_a2a_dispatch look up the device in between. *)
Queue(j) ==
  /\ run[j] = "idle"
  /\ store' = [store EXCEPT ![j] = "queued"]
  /\ run' = [run EXCEPT ![j] = "spawned"]

Insert(j) ==
  /\ run[j] = "idle"
  /\ store' = [store EXCEPT ![j] = "queued"]
  /\ run' = [run EXCEPT ![j] = "inserted"]

Spawn(j) ==
  /\ run[j] = "inserted"
  /\ run' = [run EXCEPT ![j] = "spawned"]
  /\ UNCHANGED store

(* The first statement of run_capture_job. *)
Start(j) ==
  /\ run[j] = "spawned"
  /\ store' = [store EXCEPT ![j] = "running"]
  /\ run' = [run EXCEPT ![j] = "running"]

(* The single write of an outcome; the run never touches the status again. *)
Finish(j, outcome) ==
  /\ run[j] = "running"
  /\ store' = [store EXCEPT ![j] = outcome]
  /\ run' = [run EXCEPT ![j] = "over"]

(* A panic outside spawn_blocking ends the run and tells nobody. *)
Vanish(j) ==
  /\ run[j] = "running"
  /\ run' = [run EXCEPT ![j] = "over"]
  /\ UNCHANGED store

(* handle_job_retry: any job that exists becomes Queued. *)
Retry(j) ==
  /\ store[j] # "absent"
  /\ store' = [store EXCEPT ![j] = "queued"]
  /\ UNCHANGED run

Restart ==
  /\ store' = [j \in Jobs |-> "absent"]
  /\ run' = [j \in Jobs |-> IF run[j] = "idle" THEN "idle" ELSE "over"]

JobNext ==
  \/ \E j \in Jobs :
       \/ Queue(j)
       \/ Insert(j)
       \/ Spawn(j)
       \/ Start(j)
       \/ Finish(j, "completed")
       \/ Finish(j, "failed")
       \/ Vanish(j)
       \/ Retry(j)
  \/ Restart

JobSpec == JobInit /\ [][JobNext]_jobVars
=============================================================================
