----------------------------- MODULE VcpDevices -----------------------------
(***************************************************************************)
(* The devices a node knows and the sessions it opens on them.             *)
(*                                                                         *)
(*   src/vcp/src/discovery.rs    DeviceRegistry, DiscoveryDaemon            *)
(*   src/vcp/src/mdns.rs         scan_mdns                                  *)
(*   src/vcp/src/                manifest.rs, handshake.rs, grant.rs,       *)
(*                               command.rs, session.rs                     *)
(*   src/sovereign-node/src/node.rs      start, the /devices handlers,      *)
(*                               handle_capture, run_capture_pipeline       *)
(*   src/sovereign-pipeline/src/capture_pipeline.rs  the use of a session   *)
(*                                                                         *)
(* The daemon scans, hands what it found to a task of its own that puts it *)
(* into the registry one device at a time, and expires old entries without *)
(* waiting for that task.  A record keeps the time it was MADE, so a slow  *)
(* task can put an older record over a newer one.  Time is counted in      *)
(* ticks; a record has the number of ticks since its last_seen_ms.         *)
(*                                                                         *)
(* What bounds the delays is the network and the machine, not the code.    *)
(* Tick states the bound: no more than Cycle ticks pass from one scan to   *)
(* the next, nor before a task has put in the last device it was given.    *)
(***************************************************************************)
EXTENDS Integers, FiniteSets

CONSTANTS
  Devices,         \* device ids
  TTL,             \* device_ttl_secs, in ticks
  Cycle,           \* the longest time from scan to scan, in ticks
  Tasks,           \* bound: upsert tasks that exist at once
  Sessions,        \* capture jobs
  Manifests,       \* the device manifests sessions are opened with
  Requests,        \* sets of capabilities a session may ask for
  Durations,       \* preferred_min and max_min of a request, in ticks
  Ceiling          \* the 24 hours no grant exceeds, in ticks

Captured == {"camera", "lidar", "telemetry"}
Capabilities == Captured \union
  {"locomotion", "sportmode", "emergency_stop", "firmware.update", "safety.disable"}

(* The capabilities a manifest declares, those whose declaration has       *)
(* ungrantable set, and those in its safety section's list.                *)
Manifest == [declared : SUBSET Capabilities, flagged : SUBSET Capabilities,
             listed : SUBSET Capabilities]

ASSUME VcpAssumption ==
  /\ TTL \in Nat /\ Cycle \in Nat /\ Ceiling \in Nat
  /\ 3 * Cycle < TTL
  /\ Manifests \subseteq Manifest
  /\ Requests \subseteq SUBSET Capabilities
  /\ Durations \subseteq [preferred : Nat, max : Nat]

VARIABLES
  age,             \* age[d]: of d's entry in the registry, or Absent
  pc,              \* the daemon: "scan", "expire", "push"
  since,           \* ticks since the last scan
  task,            \* task[t]: devices an upsert task has yet to put in
  heard,           \* history: ticks since word of d was last had
  steady,          \* history: ticks since the first scan of an unbroken
                   \* row of scans that all found d, or Absent
  sess             \* sess[s]: the session of a capture job

registryVars == <<age, pc, since, task, heard, steady>>
vars == <<registryVars, sess>>

Absent == -1
(* Ages are not told apart from here on. *)
Old == TTL + 2 * Cycle

Smaller(a, b) == IF a <= b THEN a ELSE b
Aged(n, cap) == Smaller(n + 1, cap)

Listed(d) == age[d] # Absent

Task == [todo : SUBSET Devices, age : 0 .. Cycle]
NoTask == [todo |-> {}, age |-> 0]

Session ==
  [st : {"none", "queued", "granted", "commanded", "recorded", "closed", "failed"},
   manifest : Manifest, asked : SUBSET Capabilities,
   grant : SUBSET Capabilities, left : Absent .. Ceiling,
   used : SUBSET Capabilities]

NoSession ==
  [st |-> "none", manifest |-> [declared |-> {}, flagged |-> {}, listed |-> {}],
   asked |-> {}, grant |-> {}, left |-> Absent, used |-> {}]

RegistryTypeOK ==
  /\ age \in [Devices -> Absent .. Old]
  /\ pc \in {"scan", "expire", "push"}
  /\ since \in 0 .. Cycle
  /\ task \in [Tasks -> Task]
  /\ heard \in [Devices -> 0 .. Old]
  /\ steady \in [Devices -> Absent .. Cycle + 1]

VcpTypeOK == RegistryTypeOK /\ sess \in [Sessions -> Session]

Init ==
  /\ age = [d \in Devices |-> Absent]
  /\ pc = "scan" /\ since = 0
  /\ task = [t \in Tasks |-> NoTask]
  /\ heard = [d \in Devices |-> Old]
  /\ steady = [d \in Devices |-> Absent]
  /\ sess = [s \in Sessions |-> NoSession]

-----------------------------------------------------------------------------
(* The registry.                                                           *)

(* The browse returns the devices that answered; from_manifest stamps the  *)
(* records.  A scan without scanner, or that fails, finds none.            *)
ScanMdns ==
  /\ pc = "scan"
  /\ \E t \in Tasks, found \in SUBSET Devices :
        /\ task[t].todo = {}
        /\ task' = [task EXCEPT ![t] = [todo |-> found, age |-> 0]]
        /\ heard' = [d \in Devices |-> IF d \in found THEN 0 ELSE heard[d]]
        /\ steady' = [d \in Devices |->
             IF d \notin found THEN Absent
             ELSE IF steady[d] = Absent THEN 0 ELSE steady[d]]
  /\ since' = 0
  /\ pc' = "expire"
  /\ UNCHANGED <<age, sess>>

Without(k, d) ==
  IF k.todo = {d} THEN NoTask ELSE [k EXCEPT !.todo = k.todo \ {d}]

(* Mutant: the record is stamped when it is put in. *)
UpsertStamped(t, d) ==
  /\ d \in task[t].todo
  /\ age' = [age EXCEPT ![d] = 0]
  /\ task' = [task EXCEPT ![t] = Without(@, d)]
  /\ UNCHANGED <<pc, since, heard, steady, sess>>

(* One turn of the loop of a spawned task: insert replaces the entry. *)
Upsert(t, d) ==
  /\ d \in task[t].todo
  /\ age' = [age EXCEPT ![d] = task[t].age]
  /\ task' = [task EXCEPT ![t] = Without(@, d)]
  /\ UNCHANGED <<pc, since, heard, steady, sess>>

(* Mutant: off by one, an entry goes a tick before its TTL. *)
RemoveEarly ==
  /\ pc = "expire"
  /\ age' = [d \in Devices |-> IF age[d] + 1 < TTL THEN age[d] ELSE Absent]
  /\ pc' = "push"
  /\ UNCHANGED <<since, task, heard, steady, sess>>

RemoveExpired ==
  /\ pc = "expire"
  /\ age' = [d \in Devices |-> IF age[d] < TTL THEN age[d] ELSE Absent]
  /\ pc' = "push"
  /\ UNCHANGED <<since, task, heard, steady, sess>>

(* The POSTs to the agent and to Vantage, each answered, failed or given up
   after 8 seconds, and the wait for the next tick of the interval. *)
Push ==
  /\ pc = "push"
  /\ pc' = "scan"
  /\ UNCHANGED <<age, since, task, heard, steady, sess>>

(* A manifest posted to the node, or read from the configuration.  DELETE  *)
(* leaves the entry to its TTL and is no step of this module.              *)
Register(d) ==
  /\ age' = [age EXCEPT ![d] = 0]
  /\ heard' = [heard EXCEPT ![d] = 0]
  /\ UNCHANGED <<pc, since, task, steady, sess>>

(* A grant's remaining life runs down to 0 and then past its expiry. *)
Later(x) == [x EXCEPT !.left = IF x.left = Absent THEN Absent ELSE x.left - 1]

Tick ==
  /\ since < Cycle
  /\ \A t \in Tasks : task[t].todo # {} => task[t].age < Cycle
  /\ since' = since + 1
  /\ age' = [d \in Devices |-> IF Listed(d) THEN Aged(age[d], Old) ELSE Absent]
  /\ task' = [t \in Tasks |-> IF task[t].todo = {} THEN task[t]
                              ELSE [task[t] EXCEPT !.age = @ + 1]]
  /\ heard' = [d \in Devices |-> Aged(heard[d], Old)]
  /\ steady' = [d \in Devices |->
       IF steady[d] = Absent THEN Absent ELSE Aged(steady[d], Cycle + 1)]
  /\ sess' = [s \in Sessions |-> Later(sess[s])]
  /\ pc' = pc

-----------------------------------------------------------------------------
(* Sessions.                                                               *)

(* handle_capture: the registry is read once, then the job is spawned. *)
HandleCapture(s, d) ==
  /\ Listed(d)
  /\ sess[s].st = "none"
  /\ sess' = [sess EXCEPT ![s] = [@ EXCEPT !.st = "queued"]]
  /\ UNCHANGED registryVars

(* Mutant: the safety section's list is not looked at. *)
IsDeclaredGrantable(m, c) == c \in m.declared /\ c \notin m.flagged

IsGrantable(m, c) == c \in m.declared /\ c \notin m.flagged \union m.listed

GrantLife(u) == Smaller(Smaller(u.preferred, u.max), Ceiling)

(* The request, VcpCapabilityGrant::issue and VcpSession::new. *)
Issue(s) ==
  /\ sess[s].st = "queued"
  /\ \E m \in Manifests, asked \in Requests, u \in Durations :
        sess' = [sess EXCEPT ![s] =
          [@ EXCEPT !.st = "granted", !.manifest = m, !.asked = asked,
                    !.grant = {c \in asked : IsGrantable(m, c)},
                    !.left = GrantLife(u)]]
  /\ UNCHANGED registryVars

(* covers: expires_at itself is still inside. *)
Covers(s, c) == sess[s].left # Absent /\ c \in sess[s].grant

(* Go2CaptureDriver::capture makes one command for each sensor, whatever   *)
(* the capture itself then yields; one that is not covered ends the job.   *)
Command(s) ==
  /\ sess[s].st = "granted"
  /\ sess' = [sess EXCEPT ![s].st =
       IF \A c \in Captured : Covers(s, c) THEN "commanded" ELSE "failed"]
  /\ UNCHANGED registryVars

RecordCommands(s) ==
  /\ sess[s].st = "commanded"
  /\ sess' = [sess EXCEPT ![s] = [@ EXCEPT !.st = "recorded", !.used = Captured]]
  /\ UNCHANGED registryVars

(* A receipt that cannot be built ends the job; else the session closes.   *)
Close(s) ==
  /\ sess[s].st = "recorded"
  /\ \E st \in {"closed", "failed"} : sess' = [sess EXCEPT ![s].st = st]
  /\ UNCHANGED registryVars

Registry ==
  \/ ScanMdns \/ RemoveExpired \/ Push \/ Tick
  \/ \E d \in Devices : Register(d) \/ \E t \in Tasks : Upsert(t, d)

Capture(s) ==
  \/ \E d \in Devices : HandleCapture(s, d)
  \/ Issue(s) \/ Command(s) \/ RecordCommands(s) \/ Close(s)

Next == Registry \/ \E s \in Sessions : Capture(s)

Spec == Init /\ [][Next]_vars

-----------------------------------------------------------------------------
(* A device that every scan finds is listed from the time its first upsert *)
(* is due and never drops out, although tasks overtake one another, put    *)
(* older records over newer ones and run beside the expiry.  It takes a    *)
(* TTL of more than three cycles.                                          *)
AnnouncedIsListed == \A d \in Devices : steady[d] > Cycle => Listed(d)

(* A device nobody has had word of for the TTL and two cycles is not       *)
(* listed: an upsert that comes late never brings it back or makes it      *)
(* look fresh.                                                             *)
SilentIsForgotten == \A d \in Devices : Listed(d) => heard[d] < Old

(* A session is used only within its grant: the commands were made before  *)
(* the grant expired, for capabilities the device lets be granted.         *)
UsedWithinGrant ==
  [][\A s \in Sessions :
       sess'[s].st = "commanded" /\ sess[s].st # "commanded" =>
         /\ sess[s].left >= 0
         /\ \A c \in Captured :
              /\ c \in sess[s].asked
              /\ c \in sess[s].manifest.declared
              /\ c \notin sess[s].manifest.flagged
              /\ c \notin sess[s].manifest.listed]_vars
=============================================================================
