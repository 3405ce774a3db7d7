----------------------------- MODULE CaptureNode -----------------------------
(***************************************************************************)
(* Capture jobs and receipts of one sovereign-node process and of the      *)
(* processes that follow it on the same data directory.                    *)
(*                                                                         *)
(*   src/sovereign-node/src/node.rs           handlers, run_capture_job,    *)
(*                                            save_and_broadcast_capture   *)
(*   src/sovereign-node/src/jobs.rs           the job store                *)
(*   src/sovereign-node/src/receipt_store.rs  receipt files and the cache  *)
(*                                                                         *)
(* A request inserts a job and spawns run_capture_job.  That task awaits   *)
(* between all of its effects, so the tasks of different jobs, the retry   *)
(* handler and a crash interleave at every step below.                     *)
(*                                                                         *)
(* Receipts are written to one file per TWIN, while jobs are what captures *)
(* are counted by.  A twin id is the hash of the captured data, so that    *)
(* two captures of one scene (all captures of the stub driver) share it.   *)
(***************************************************************************)
EXTENDS Naturals, Sequences, SequencesExt, FiniteSets

CONSTANTS
  Jobs,             \* job ids (UUIDs: never drawn twice, also across restarts)
  Twins,            \* twin ids, which are also the names of the receipt files
  NoTwin,           \* the twin of a job whose pipeline has not returned one
  NoFile,           \* the twin's receipt file does not exist
  Empty,            \* it was truncated and not written
  Torn,             \* it holds bytes of two writers, or a part of a receipt
  DiskFaults,       \* BOOLEAN: file operations of ReceiptStore::save may fail
  BlockingPanics    \* BOOLEAN: an HTTP OSOVM endpoint is configured, whose
                    \* blocking client panics inside an async task

ASSUME ConstantsAssumption ==
  /\ NoTwin \notin Twins
  /\ {NoFile, Empty, Torn} \intersect [job : Jobs, twin : Twins] = {}
  /\ Cardinality({NoFile, Empty, Torn}) = 3
  /\ IsFiniteSet(Twins)
  /\ DiskFaults \in BOOLEAN
  /\ BlockingPanics \in BOOLEAN

VARIABLES
  jobs,             \* JobStore: the status of each job, "absent" if it has none
  pc,               \* where the run_capture_job of each job stands
  twin,             \* the twin each capture produced; also the twin_id that
                    \* JobStatus::Completed carries
  disk,             \* the file of each twin under {data_dir}/receipts
  cache,            \* ReceiptStore.cache
  announced,        \* history: jobs a CaptureComplete event was sent for
  failures,         \* history: jobs a CaptureFailed event was sent for
  faulted           \* history: twins a failed write has concerned

vars == <<jobs, pc, twin, disk, cache, announced, failures, faulted>>

-----------------------------------------------------------------------------

Statuses == {"absent", "queued", "running", "completed", "failed"}

(* pc follows run_capture_job and save_and_broadcast_capture: (inserted ->)
   spawned -> capturing -> proving -> opening -> writing -> caching ->
   announcing -> ended.  A task that panicked is dead; a task of an earlier
   process, whatever it had reached, is gone. *)
Points == {"unused", "inserted", "spawned", "capturing", "proving", "opening", "writing",
           "caching", "announcing", "ended", "dead", "gone"}

Saving == {"opening", "writing", "caching", "announcing"}
Active == {"spawned", "capturing", "proving"} \union Saving

Receipts == [job : Jobs, twin : Twins]

(* What load_all skips: no file, or one that does not parse. *)
NotReceipts == {NoFile, Empty, Torn}

TypeOK ==
  /\ jobs \in [Jobs -> Statuses]
  /\ pc \in [Jobs -> Points]
  /\ twin \in [Jobs -> Twins \union {NoTwin}]
  /\ disk \in [Twins -> Receipts \union NotReceipts]
  /\ cache \in Seq(Receipts)
  /\ announced \subseteq Jobs
  /\ failures \subseteq Jobs
  /\ faulted \subseteq Twins

Receipt(j) == [job |-> j, twin |-> twin[j]]

Listed(r) == \E i \in 1..Len(cache) : cache[i] = r

Init ==
  /\ jobs = [j \in Jobs |-> "absent"]
  /\ pc = [j \in Jobs |-> "unused"]
  /\ twin = [j \in Jobs |-> NoTwin]
  /\ disk = [t \in Twins |-> NoFile]
  /\ cache = <<>>
  /\ announced = {}
  /\ failures = {}
  /\ faulted = {}

-----------------------------------------------------------------------------
(* Mutations: plausible mistakes in the code below.  No behaviour of the
   specification takes them; the runs are repeated with each in the place of
   the action it imitates, to see that the properties tell the difference. *)

(* A retry that starts a second run of the job. *)
RetryRespawns(j) ==
  /\ jobs[j] # "absent"
  /\ jobs' = [jobs EXCEPT ![j] = "queued"]
  /\ pc' = [pc EXCEPT ![j] = "spawned"]
  /\ UNCHANGED <<twin, disk, cache, announced, failures, faulted>>

(* A failed capture that sends no event. *)
CaptureFailsSilently(j) ==
  /\ pc[j] = "capturing"
  /\ jobs' = [jobs EXCEPT ![j] = "failed"]
  /\ pc' = [pc EXCEPT ![j] = "ended"]
  /\ UNCHANGED <<twin, disk, cache, announced, failures, faulted>>

(* A write that is started and not awaited, and lost. *)
WriteNotAwaited(j) ==
  /\ pc[j] = "writing"
  /\ pc' = [pc EXCEPT ![j] = "caching"]
  /\ UNCHANGED <<jobs, twin, disk, cache, announced, failures, faulted>>

(* save that pushes into the cache only when the file was written. *)
OpenFailsUncached(j) ==
  /\ DiskFaults
  /\ pc[j] = "opening"
  /\ faulted' = faulted \union {twin[j]}
  /\ pc' = [pc EXCEPT ![j] = "announcing"]
  /\ UNCHANGED <<jobs, twin, disk, cache, announced, failures>>

(* A task that returns when the file cannot be created. *)
OpenFailsReturns(j) ==
  /\ DiskFaults
  /\ pc[j] = "opening"
  /\ faulted' = faulted \union {twin[j]}
  /\ pc' = [pc EXCEPT ![j] = "ended"]
  /\ UNCHANGED <<jobs, twin, disk, cache, announced, failures>>

-----------------------------------------------------------------------------
(* Requests. *)

(* handle_capture, and tool_capture of the MCP server: the insertion into the
   job store and the spawn have no await between them. *)
Capture(j) ==
  /\ pc[j] = "unused"
  /\ jobs' = [jobs EXCEPT ![j] = "queued"]
  /\ pc' = [pc EXCEPT ![j] = "spawned"]
  /\ UNCHANGED <<twin, disk, cache, announced, failures, faulted>>

(* handle_capture_swarm and handle_a2a_dispatch await the device lookup between
   the insertion and the spawn. *)
Insert(j) ==
  /\ pc[j] = "unused"
  /\ jobs' = [jobs EXCEPT ![j] = "queued"]
  /\ pc' = [pc EXCEPT ![j] = "inserted"]
  /\ UNCHANGED <<twin, disk, cache, announced, failures, faulted>>

SpawnTask(j) ==
  /\ pc[j] = "inserted"
  /\ pc' = [pc EXCEPT ![j] = "spawned"]
  /\ UNCHANGED <<jobs, twin, disk, cache, announced, failures, faulted>>

(* handle_job_retry: whatever the status, and with no run spawned.  Nothing
   removes a job between its get and its update_status. *)
Retry(j) ==
  /\ jobs[j] # "absent"
  /\ jobs' = [jobs EXCEPT ![j] = "queued"]
  /\ UNCHANGED <<pc, twin, disk, cache, announced, failures, faulted>>

-----------------------------------------------------------------------------
(* The task run_capture_job. *)

Begin(j) ==
  /\ pc[j] = "spawned"
  /\ jobs' = [jobs EXCEPT ![j] = "running"]
  /\ pc' = [pc EXCEPT ![j] = "capturing"]
  /\ UNCHANGED <<twin, disk, cache, announced, failures, faulted>>

(* Phase A returned an error, or its blocking thread panicked: the status is
   written, then (without another await) the event is sent. *)
CaptureFails(j) ==
  /\ pc[j] = "capturing"
  /\ jobs' = [jobs EXCEPT ![j] = "failed"]
  /\ failures' = failures \union {j}
  /\ pc' = [pc EXCEPT ![j] = "ended"]
  /\ UNCHANGED <<twin, disk, cache, announced, faulted>>

CaptureSucceeds(j, t) ==
  /\ pc[j] = "capturing"
  /\ twin' = [twin EXCEPT ![j] = t]
  /\ pc' = [pc EXCEPT ![j] = "proving"]
  /\ UNCHANGED <<jobs, disk, cache, announced, failures, faulted>>

(* Phases B1 to B4.  Every outcome, success or one of the three partial ones,
   calls save_and_broadcast_capture, whose first effect is the status. *)
Prove(j) ==
  /\ pc[j] = "proving"
  /\ jobs' = [jobs EXCEPT ![j] = "completed"]
  /\ pc' = [pc EXCEPT ![j] = "opening"]
  /\ UNCHANGED <<twin, disk, cache, announced, failures, faulted>>

(* run_real builds a reqwest::blocking client on a runtime thread. *)
Panic(j) ==
  /\ BlockingPanics
  /\ pc[j] = "proving"
  /\ pc' = [pc EXCEPT ![j] = "dead"]
  /\ UNCHANGED <<jobs, twin, disk, cache, announced, failures, faulted>>

(* ReceiptStore::save calls tokio::fs::write, which creates or truncates the
   file and then writes it: two system calls of a thread of the pool. *)
Open(j) ==
  /\ pc[j] = "opening"
  /\ disk' = [disk EXCEPT ![twin[j]] = Empty]
  /\ pc' = [pc EXCEPT ![j] = "writing"]
  /\ UNCHANGED <<jobs, twin, cache, announced, failures, faulted>>

(* Into an empty file the receipt is written whole.  Over the bytes of a
   writer that opened the file before, the longer tail may remain. *)
Write(j) ==
  /\ pc[j] = "writing"
  /\ \E file \in {Receipt(j)} \union (IF disk[twin[j]] = Empty THEN {} ELSE {Torn}) :
       disk' = [disk EXCEPT ![twin[j]] = file]
  /\ pc' = [pc EXCEPT ![j] = "caching"]
  /\ UNCHANGED <<jobs, twin, cache, announced, failures, faulted>>

(* A failure of either call is logged and otherwise ignored. *)
OpenFails(j) ==
  /\ DiskFaults
  /\ pc[j] = "opening"
  /\ faulted' = faulted \union {twin[j]}
  /\ pc' = [pc EXCEPT ![j] = "caching"]
  /\ UNCHANGED <<jobs, twin, disk, cache, announced, failures>>

WriteFails(j) ==
  /\ DiskFaults
  /\ pc[j] = "writing"
  /\ disk' = [disk EXCEPT ![twin[j]] = Torn]
  /\ faulted' = faulted \union {twin[j]}
  /\ pc' = [pc EXCEPT ![j] = "caching"]
  /\ UNCHANGED <<jobs, twin, cache, announced, failures>>

PushCache(j) ==
  /\ pc[j] = "caching"
  /\ cache' = Append(cache, Receipt(j))
  /\ pc' = [pc EXCEPT ![j] = "announcing"]
  /\ UNCHANGED <<jobs, twin, disk, announced, failures, faulted>>

(* The DIP envelope and the Vantage post go to other systems; the event is
   the last effect of the task. *)
Announce(j) ==
  /\ pc[j] = "announcing"
  /\ announced' = announced \union {j}
  /\ pc' = [pc EXCEPT ![j] = "ended"]
  /\ UNCHANGED <<jobs, twin, disk, cache, failures, faulted>>

-----------------------------------------------------------------------------
(* The process dies and is started again: jobs and tasks are forgotten, files
   stay as they are, and ReceiptStore::open reads every receipt that parses,
   in the order the directory yields them. *)

OnDisk == {disk[t] : t \in Twins} \ NotReceipts

Restart ==
  /\ jobs' = [j \in Jobs |-> "absent"]
  /\ pc' = [j \in Jobs |-> IF pc[j] = "unused" THEN "unused" ELSE "gone"]
  /\ cache' \in SetToSeqs(OnDisk)
  /\ UNCHANGED <<twin, disk, announced, failures, faulted>>

-----------------------------------------------------------------------------

TaskStep(j) ==
  \/ Begin(j)
  \/ CaptureFails(j)
  \/ \E t \in Twins : CaptureSucceeds(j, t)
  \/ Prove(j)
  \/ Panic(j)
  \/ Open(j)
  \/ Write(j)
  \/ OpenFails(j)
  \/ WriteFails(j)
  \/ PushCache(j)
  \/ Announce(j)

Next ==
  \/ \E j \in Jobs : Capture(j) \/ Insert(j) \/ SpawnTask(j) \/ Retry(j) \/ TaskStep(j)
  \/ Restart

Spec == Init /\ [][Next]_vars

(* tokio polls every spawned task, and the calls it awaits return: the HTTP
   clients have timeouts, an external reconstruction binary is assumed to end. *)
Fairness == \A j \in Jobs : WF_vars(TaskStep(j))

FairSpec == Spec /\ Fairness
-----------------------------------------------------------------------------
(* Properties. *)

(* A task that ran to its end sent exactly one of the two events
   (run_capture_job: four returns and the fall-through), and no capture is
   ever reported both ways. *)
OneEventPerTask ==
  /\ announced \intersect failures = {}
  /\ \A j \in Jobs : pc[j] = "ended" => j \in announced \union failures

(* A subscriber that hears CaptureComplete and asks GET /receipts for the
   twin is answered: the event follows the insertion into the cache, and only
   a restart can take the receipt out of it. *)
AnnouncedIsServed ==
  \A j \in Jobs : j \in announced /\ pc[j] = "ended" => Listed(Receipt(j))

(* However saves, retries and restarts interleave, GET /receipts lists the
   receipt of a capture at most once: what load_all reads back is never also
   pushed by a task, and a retried job does not save again. *)
ListedOnce ==
  \A i, k \in 1..Len(cache) : cache[i].job = cache[k].job => i = k

(* A receipt that parses, in a file or in the cache, is the one its job's
   capture produced, in the file of its own twin, and that job did not fail:
   overlapping writers never leave a file that reads as a receipt nobody wrote. *)
Produced(r) == twin[r.job] = r.twin /\ r.job \notin failures

ReceiptsAreProduced ==
  /\ \A t \in Twins : disk[t] \in Receipts => disk[t].twin = t /\ Produced(disk[t])
  /\ \A i \in 1..Len(cache) : Produced(cache[i])

(* What "persisted" is worth (ReceiptStore::save): once a capture is announced
   its receipt stays on disk, across crashes, unless a write to that file
   failed or another capture of the same twin shares the file. *)
Shared(j) == \E k \in Jobs \ {j} : twin[k] = twin[j]

DurableUnlessShared ==
  \A j \in announced :
    twin[j] \notin faulted /\ ~Shared(j) => disk[twin[j]] = Receipt(j)

(* Every capture request is reported, by CaptureComplete or CaptureFailed,
   whatever fails on the way, unless the task panics or the process dies. *)
EveryCaptureReported ==
  \A j \in Jobs :
    pc[j] = "spawned" ~> (j \in announced \union failures \/ pc[j] \in {"dead", "gone"})

(* The job store keeps the contract of JobLifecycle: one outcome per run, no
   status change after it but a retry, no second run. *)
RunOf(p) ==
  CASE p = "unused" -> "idle"
    [] p = "inserted" -> "inserted"
    [] p = "spawned" -> "spawned"
    [] p \in {"capturing", "proving"} -> "running"
    [] OTHER -> "over"

Lifecycle == INSTANCE JobLifecycle
               WITH store <- jobs, run <- [j \in Jobs |-> RunOf(pc[j])]

ImplementsJobLifecycle == Lifecycle!JobSpec

=============================================================================
