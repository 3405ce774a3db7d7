---------------------------- MODULE SwarmCapture ----------------------------
(***************************************************************************)
(* Swarm captures: handle_capture_swarm in src/sovereign-node/src/node.rs  *)
(* and monitor_swarm in src/sovereign-node/src/swarm.rs.                   *)
(*                                                                         *)
(* The handler creates one child job per device, stores the swarm and      *)
(* spawns a monitor.  The monitor polls the job store, one child at a      *)
(* time, a bounded number of times.  Meanwhile the children run, clients   *)
(* retry them, other captures happen and the process may restart: all of   *)
(* that is CaptureNode, whose variables this module shares.                *)
(***************************************************************************)
EXTENDS CaptureNode

CONSTANTS
  Swarms,          \* swarm ids (UUIDs)
  MaxDevices,      \* largest request considered
  MaxPolls         \* how often a monitor looks (450 in the code)

ASSUME SwarmAssumption ==
  /\ MaxDevices \in Nat
  /\ MaxPolls \in Nat

VARIABLES
  phase,           \* phase[s]: where the handler, then the monitor, of s stands
  want,            \* want[s]: number of device_ids in the request
  child,           \* child[s]: child_jobs, in the order of device_ids
  seen,            \* seen[s]: statuses read in the current poll
  polls,           \* polls[s]: finished polls
  status,          \* status[s]: the entry of s in the SwarmStore
  swarmAnnounced   \* history: jobs a monitor sent CaptureComplete for

swarmVars == <<phase, want, child, seen, polls, status, swarmAnnounced>>
allVars == <<vars, swarmVars>>

Phases == {"unused", "launching", "spawning", "starting", "polling",
           "reporting", "concluding", "over", "gone"}

(* SwarmStatus; done and failed hold positions in device_ids.  Completed,
   PartiallyFailed and the two uses of Failed are verdicts. *)
Verdicts == {"completed", "partial", "failed", "timedout"}

Entries == [state : {"absent", "pending", "running"} \union Verdicts,
            done : SUBSET (1..MaxDevices), failed : SUBSET (1..MaxDevices)]

Entry(st, d, f) == [state |-> st, done |-> d, failed |-> f]

SwarmTypeOK ==
  /\ phase \in [Swarms -> Phases]
  /\ want \in [Swarms -> 0..MaxDevices]
  /\ child \in [Swarms -> Seq(Jobs)]
  /\ seen \in [Swarms -> Seq(Statuses)]
  /\ polls \in [Swarms -> 0..MaxPolls]
  /\ status \in [Swarms -> Entries]
  /\ swarmAnnounced \subseteq Jobs

SwarmInit ==
  /\ Init
  /\ phase = [s \in Swarms |-> "unused"]
  /\ want = [s \in Swarms |-> 0]
  /\ child = [s \in Swarms |-> <<>>]
  /\ seen = [s \in Swarms |-> <<>>]
  /\ polls = [s \in Swarms |-> 0]
  /\ status = [s \in Swarms |-> Entry("absent", {}, {})]
  /\ swarmAnnounced = {}

Enter(s, p) == phase' = [phase EXCEPT ![s] = p]

Children(s) == {child[s][i] : i \in 1..Len(child[s])}

(* The positions at which the last complete poll read the status st. *)
Positions(s, st) == {i \in 1..Len(seen[s]) : seen[s][i] = st}

-----------------------------------------------------------------------------
(* handle_capture_swarm. *)

(* An empty device list is refused with no effect. *)
Request(s, n) ==
  /\ phase[s] = "unused"
  /\ n > 0
  /\ want' = [want EXCEPT ![s] = n]
  /\ Enter(s, "launching")
  /\ UNCHANGED <<vars, child, seen, polls, status, swarmAnnounced>>

InsertChild(s, j) ==
  /\ phase[s] = "launching"
  /\ Len(child[s]) < want[s]
  /\ Insert(j)
  /\ child' = [child EXCEPT ![s] = Append(@, j)]
  /\ Enter(s, "spawning")
  /\ UNCHANGED <<want, seen, polls, status, swarmAnnounced>>

SpawnChild(s) ==
  /\ phase[s] = "spawning"
  /\ SpawnTask(child[s][Len(child[s])])
  /\ Enter(s, "launching")
  /\ UNCHANGED <<want, child, seen, polls, status, swarmAnnounced>>

(* SwarmStore::insert and the spawn of the monitor. *)
Launched(s) ==
  /\ phase[s] = "launching"
  /\ Len(child[s]) = want[s]
  /\ status' = [status EXCEPT ![s] = Entry("pending", {}, {})]
  /\ Enter(s, "starting")
  /\ UNCHANGED <<vars, want, child, seen, polls, swarmAnnounced>>

(* The client closes the connection: the server drops the handler at one of
   its awaits, with the children it made so far. *)
Abandon(s) ==
  /\ phase[s] \in {"launching", "spawning"}
  /\ Enter(s, "gone")
  /\ UNCHANGED <<vars, want, child, seen, polls, status, swarmAnnounced>>

-----------------------------------------------------------------------------
(* monitor_swarm. *)

MonitorStart(s) ==
  /\ phase[s] = "starting"
  /\ status' = [status EXCEPT ![s] = Entry("running", {}, {})]
  /\ Enter(s, "polling")
  /\ UNCHANGED <<vars, want, child, seen, polls, swarmAnnounced>>

(* job_store.get of the next child; each takes the lock of the job store anew. *)
ReadChild(s) ==
  /\ phase[s] = "polling"
  /\ polls[s] < MaxPolls
  /\ Len(seen[s]) < Len(child[s])
  /\ seen' = [seen EXCEPT ![s] = Append(@, jobs[child[s][Len(@) + 1]])]
  /\ UNCHANGED <<vars, phase, want, child, polls, status, swarmAnnounced>>

(* Mutation: the end is reached when no child is Running, Queued ones or not. *)
TallyIgnoresQueued(s) ==
  /\ phase[s] = "polling"
  /\ polls[s] < MaxPolls
  /\ Len(seen[s]) = Len(child[s])
  /\ status' = [status EXCEPT ![s] =
                   Entry("running", Positions(s, "completed"), Positions(s, "failed"))]
  /\ IF Positions(s, "running") = {}
     THEN Enter(s, "reporting") /\ UNCHANGED <<seen, polls>>
     ELSE /\ seen' = [seen EXCEPT ![s] = <<>>]
          /\ polls' = [polls EXCEPT ![s] = @ + 1]
          /\ UNCHANGED phase
  /\ UNCHANGED <<vars, want, child, swarmAnnounced>>

(* Mutation: polls without a bound. *)
TallyForever(s) ==
  /\ phase[s] = "polling"
  /\ Len(seen[s]) = Len(child[s])
  /\ LET done == Positions(s, "completed")
         failed == Positions(s, "failed")
     IN  /\ status' = [status EXCEPT ![s] = Entry("running", done, failed)]
         /\ IF done \union failed = 1..Len(child[s])
            THEN Enter(s, "reporting") /\ UNCHANGED seen
            ELSE seen' = [seen EXCEPT ![s] = <<>>] /\ UNCHANGED phase
  /\ UNCHANGED <<vars, want, child, polls, swarmAnnounced>>

(* The counts, the Running status and the test for the end: no child Running
   or Queued, and as many Completed and Failed as there are children. *)
Tally(s) ==
  /\ phase[s] = "polling"
  /\ polls[s] < MaxPolls
  /\ Len(seen[s]) = Len(child[s])
  /\ LET done == Positions(s, "completed")
         failed == Positions(s, "failed")
     IN  /\ status' = [status EXCEPT ![s] = Entry("running", done, failed)]
         /\ IF done \union failed = 1..Len(child[s])
            THEN Enter(s, "reporting") /\ UNCHANGED <<seen, polls>>
            ELSE /\ seen' = [seen EXCEPT ![s] = <<>>]
                 /\ polls' = [polls EXCEPT ![s] = @ + 1]
                 /\ UNCHANGED phase
  /\ UNCHANGED <<vars, want, child, swarmAnnounced>>

(* Mutation: the event for every child once the swarm is done. *)
ReportAll(s) ==
  /\ phase[s] = "reporting"
  /\ swarmAnnounced' = swarmAnnounced \union Children(s)
  /\ Enter(s, "concluding")
  /\ UNCHANGED <<vars, want, child, seen, polls, status>>

(* A second CaptureComplete for every child seen completed. *)
Report(s) ==
  /\ phase[s] = "reporting"
  /\ swarmAnnounced' = swarmAnnounced \union
                         {child[s][i] : i \in Positions(s, "completed")}
  /\ Enter(s, "concluding")
  /\ UNCHANGED <<vars, want, child, seen, polls, status>>

Verdict(done, failed) ==
  IF failed = {} THEN "completed"
  ELSE IF done = {} THEN "failed" ELSE "partial"

Conclude(s) ==
  /\ phase[s] = "concluding"
  /\ LET done == Positions(s, "completed")
         failed == Positions(s, "failed")
     IN  status' = [status EXCEPT ![s] = Entry(Verdict(done, failed), done, failed)]
  /\ Enter(s, "over")
  /\ UNCHANGED <<vars, want, child, seen, polls, swarmAnnounced>>

Timeout(s) ==
  /\ phase[s] = "polling"
  /\ polls[s] = MaxPolls
  /\ status' = [status EXCEPT ![s] = Entry("timedout", {}, {})]
  /\ Enter(s, "over")
  /\ UNCHANGED <<vars, want, child, seen, polls, swarmAnnounced>>

-----------------------------------------------------------------------------

MonitorStep(s) ==
  MonitorStart(s) \/ ReadChild(s) \/ Tally(s) \/ Report(s) \/ Conclude(s) \/ Timeout(s)

HandlerStep(s) ==
  \/ \E j \in Jobs : InsertChild(s, j)
  \/ SpawnChild(s)
  \/ Launched(s)

(* The swarm store, handlers and monitors are memory of the process. *)
SwarmRestart ==
  /\ Restart
  /\ phase' = [s \in Swarms |-> IF phase[s] = "unused" THEN "unused" ELSE "gone"]
  /\ status' = [s \in Swarms |-> Entry("absent", {}, {})]
  /\ UNCHANGED <<want, child, seen, polls, swarmAnnounced>>

SwarmNext ==
  \/ /\ \E j \in Jobs : Capture(j) \/ Retry(j) \/ TaskStep(j)
     /\ UNCHANGED swarmVars
  \/ \E s \in Swarms :
       \/ \E n \in 1..MaxDevices : Request(s, n)
       \/ HandlerStep(s)
       \/ Abandon(s)
       \/ MonitorStep(s)
  \/ SwarmRestart

SwarmSpec == SwarmInit /\ [][SwarmNext]_allVars

(* Spawned tasks are polled; a timer that was set expires. *)
SwarmFairSpec ==
  /\ SwarmSpec
  /\ \A j \in Jobs : WF_allVars(TaskStep(j) /\ UNCHANGED swarmVars)
  /\ \A s \in Swarms : WF_allVars(MonitorStep(s))

-----------------------------------------------------------------------------
(* Properties. *)

(* A verdict tells the truth about every device, though its statuses were read
   one after the other while children ran and clients retried them: a device
   counted as done was captured, one counted as failed was reported failed,
   and none is left out (Tally, Conclude). *)
VerdictIsTrue ==
  \A s \in Swarms :
    phase[s] = "over" /\ status[s].state # "timedout" =>
      /\ Len(child[s]) = want[s]
      /\ status[s].done \union status[s].failed = 1..want[s]
      /\ \A i \in status[s].done : twin[child[s][i]] \in Twins
      /\ \A i \in status[s].failed : child[s][i] \in failures

(* When GET /swarm/:id answers completed, the event of each child has been
   sent by the monitor; and no event is sent for a capture that failed. *)
CompletedIsBroadcast ==
  /\ \A s \in Swarms : status[s].state = "completed" => Children(s) \subseteq swarmAnnounced
  /\ swarmAnnounced \intersect failures = {}

(* A swarm that was launched gets a verdict, even if a child is retried, whose
   status then stays Queued, or its task panics: the polls are bounded. *)
SwarmEnds ==
  \A s \in Swarms :
    phase[s] = "starting" ~> (phase[s] = "gone" \/ status[s].state \in Verdicts)
=============================================================================
