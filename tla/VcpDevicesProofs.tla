-------------------------- MODULE VcpDevicesProofs --------------------------
(***************************************************************************)
(* Proofs about VcpDevices, for any devices, tasks and sessions, and any   *)
(* TTL of more than three cycles.                                          *)
(*                                                                         *)
(* What a scan found reaches the registry by a task that others overtake,  *)
(* so neither invariant is inductive.  For the devices that scans go on    *)
(* finding, an entry is at most a cycle older than the last scan, or than  *)
(* the record of some waiting task plus two; for the silent ones, neither  *)
(* entries nor waiting records are younger than the last word, and each    *)
(* expiry bounds what is left.                                             *)
(***************************************************************************)
EXTENDS VcpDevices, TrustTiers, TLAPS

(* Nothing is younger than the last word of its device. *)
NoneTooYoung ==
  /\ \A d \in Devices : Listed(d) => heard[d] <= age[d]
  /\ \A t \in Tasks : \A d \in task[t].todo : heard[d] <= task[t].age

(* The expiry runs once between two scans. *)
NoneTooOld ==
  \A d \in Devices : Listed(d) =>
    age[d] < TTL + since + (IF pc = "expire" THEN Cycle ELSE 0)

Waiting(t, d) == d \in task[t].todo

Recent(d) ==
  \/ age[d] <= since + Cycle
  \/ \E t \in Tasks : Waiting(t, d) /\ age[d] <= task[t].age + 2 * Cycle

(* A device found by scan after scan is listed with a recent entry, or the *)
(* record of the first of those scans is still waiting.                    *)
FoundIsRecent ==
  \A d \in Devices : steady[d] # Absent =>
    \/ Listed(d) /\ Recent(d)
    \/ \E t \in Tasks : Waiting(t, d) /\ steady[d] <= task[t].age

RegistryInv == RegistryTypeOK /\ NoneTooYoung /\ NoneTooOld /\ FoundIsRecent

LEMMA AgedFact ==
  ASSUME NEW n \in Nat, NEW cap \in Nat, n <= cap
  PROVE  /\ Aged(n, cap) \in 0 .. cap
         /\ Aged(n, cap) <= n + 1
         /\ n < cap => Aged(n, cap) = n + 1
         /\ n = cap => Aged(n, cap) = cap
BY DEF Aged, Smaller

LEMMA TaskFact ==
  ASSUME RegistryTypeOK, NEW t \in Tasks
  PROVE  /\ task[t].todo \subseteq Devices
         /\ task[t].age \in Int /\ 0 <= task[t].age /\ task[t].age <= Cycle
BY VcpAssumption DEF RegistryTypeOK, Task

LEMMA RegistryInit == Init => RegistryInv
<1> SUFFICES ASSUME Init PROVE RegistryInv
  OBVIOUS
<1> USE VcpAssumption
<1>1. RegistryTypeOK
  BY DEF Init, RegistryTypeOK, Task, NoTask, Absent, Old
<1>2. NoneTooYoung /\ NoneTooOld /\ FoundIsRecent
  BY DEF Init, NoneTooYoung, NoneTooOld, FoundIsRecent, NoTask, Listed
<1>. QED BY <1>1, <1>2 DEF RegistryInv

LEMMA ScanStep == RegistryInv /\ ScanMdns => RegistryInv'
<1> SUFFICES ASSUME RegistryInv, ScanMdns PROVE RegistryInv'
  OBVIOUS
<1> USE VcpAssumption
<1>1. PICK t0 \in Tasks, found \in SUBSET Devices :
        /\ task[t0].todo = {}
        /\ task' = [task EXCEPT ![t0] = [todo |-> found, age |-> 0]]
        /\ heard' = [d \in Devices |-> IF d \in found THEN 0 ELSE heard[d]]
        /\ steady' = [d \in Devices |->
             IF d \notin found THEN Absent
             ELSE IF steady[d] = Absent THEN 0 ELSE steady[d]]
  BY DEF ScanMdns
<1>2. since' = 0 /\ pc = "scan" /\ pc' = "expire" /\ age' = age
  BY DEF ScanMdns
<1>3. RegistryTypeOK
  BY DEF RegistryInv
<1>4. /\ task'[t0] = [todo |-> found, age |-> 0]
      /\ \A t \in Tasks : t # t0 => task'[t] = task[t]
  BY <1>1, <1>3 DEF RegistryTypeOK
<1>5. RegistryTypeOK'
  BY <1>1, <1>2, <1>3 DEF RegistryTypeOK, Task, Absent, Old
<1>6. NoneTooYoung'
  BY <1>1, <1>2, <1>3, <1>4, TaskFact DEF RegistryInv, RegistryTypeOK, NoneTooYoung, Listed, Absent
<1>7. NoneTooOld'
  BY <1>2, <1>3 DEF RegistryInv, RegistryTypeOK, NoneTooOld, Listed, Absent
<1>8. FoundIsRecent'
  <2> SUFFICES ASSUME NEW d \in Devices, steady'[d] # Absent
               PROVE  \/ Listed(d)' /\ Recent(d)'
                      \/ \E t \in Tasks : Waiting(t, d)' /\ steady'[d] <= task'[t].age
    BY DEF FoundIsRecent
  <2>1. d \in found /\ Waiting(t0, d)' /\ task'[t0].age = 0
    BY <1>1, <1>4 DEF Waiting
  <2>2. CASE steady[d] = Absent
    BY <1>1, <2>1, <2>2
  <2>3. CASE steady[d] # Absent /\ Listed(d) /\ Recent(d)
    <3>1. CASE age[d] <= since + Cycle
      <4>1. age[d] \in Int /\ since \in Int /\ since <= Cycle
        BY <1>3 DEF RegistryTypeOK, Absent
      <4>2. age'[d] <= task'[t0].age + 2 * Cycle
        BY <1>2, <2>1, <3>1, <4>1
      <4>. QED BY <1>2, <2>1, <2>3, <4>2 DEF Recent, Listed
    <3>2. ASSUME NEW t \in Tasks, Waiting(t, d), age[d] <= task[t].age + 2 * Cycle
          PROVE  Listed(d)' /\ Recent(d)'
      <4>1. t # t0 /\ task'[t] = task[t]
        BY <1>1, <1>4, <3>2 DEF Waiting
      <4>. QED BY <1>2, <2>3, <3>2, <4>1 DEF Recent, Waiting, Listed
    <3>. QED BY <2>3, <3>1, <3>2 DEF Recent
  <2>4. ASSUME steady[d] # Absent, NEW t \in Tasks, Waiting(t, d), steady[d] <= task[t].age
        PROVE  \E u \in Tasks : Waiting(u, d)' /\ steady'[d] <= task'[u].age
    <3>1. t # t0 /\ task'[t] = task[t]
      BY <1>1, <1>4, <2>4 DEF Waiting
    <3>. QED BY <1>1, <2>1, <2>4, <3>1 DEF Waiting
  <2>. QED BY <2>2, <2>3, <2>4 DEF RegistryInv, FoundIsRecent
<1>. QED BY <1>5, <1>6, <1>7, <1>8 DEF RegistryInv

LEMMA UpsertStep ==
  ASSUME RegistryInv, NEW u \in Tasks, NEW e \in Devices, Upsert(u, e)
  PROVE  RegistryInv'
<1> USE VcpAssumption
<1>1. RegistryTypeOK
  BY DEF RegistryInv
<1>2. /\ e \in task[u].todo
      /\ age' = [age EXCEPT ![e] = task[u].age]
      /\ pc' = pc /\ since' = since /\ heard' = heard /\ steady' = steady
  BY DEF Upsert
<1>3. /\ \A t \in Tasks : t # u => task'[t] = task[t]
      /\ task'[u].todo = task[u].todo \ {e}
      /\ task[u].todo # {e} => task'[u].age = task[u].age
      /\ task'[u] \in Task
  <2>1. task[u] \in Task /\ task' = [task EXCEPT ![u] = Without(task[u], e)]
    BY <1>1 DEF RegistryTypeOK, Upsert
  <2>2. task'[u] = Without(task[u], e) /\ \A t \in Tasks : t # u => task'[t] = task[t]
    BY <1>1, <2>1 DEF RegistryTypeOK
  <2>. QED BY <2>1, <2>2 DEF Without, Task, NoTask
<1>4. \A t \in Tasks, d \in Devices :
        d # e /\ Waiting(t, d) => Waiting(t, d)' /\ task'[t].age = task[t].age
  BY <1>3 DEF Waiting
<1>5. \A t \in Tasks, d \in Devices :
        Waiting(t, d)' => Waiting(t, d) /\ task'[t].age = task[t].age
  BY <1>3 DEF Waiting
<1>6. task[u].age \in Int /\ 0 <= task[u].age /\ task[u].age <= Cycle
  BY <1>1, TaskFact
<1>7. age'[e] = task[u].age /\ \A d \in Devices : d # e => age'[d] = age[d]
  BY <1>1, <1>2 DEF RegistryTypeOK
<1>8. RegistryTypeOK'
  <2>1. age' \in [Devices -> Absent .. Old]
    BY <1>1, <1>2, <1>6 DEF RegistryTypeOK, Absent, Old
  <2>2. task' \in [Tasks -> Task]
    BY <1>1, <1>3 DEF RegistryTypeOK, Upsert
  <2>. QED BY <1>1, <1>2, <2>1, <2>2 DEF RegistryTypeOK
<1>9. NoneTooYoung'
  <2>1. \A t \in Tasks : \A d \in task'[t].todo : d \in Devices /\ Waiting(t, d)'
    BY <1>8 DEF Waiting, RegistryTypeOK, Task
  <2>2. \A t \in Tasks : \A d \in task'[t].todo : heard'[d] <= task'[t].age
    BY <1>2, <1>5, <2>1 DEF RegistryInv, NoneTooYoung, Waiting
  <2>3. \A d \in Devices : Listed(d)' => heard'[d] <= age'[d]
    BY <1>2, <1>7 DEF RegistryInv, NoneTooYoung, Listed
  <2>. QED BY <2>2, <2>3 DEF NoneTooYoung
<1>10. NoneTooOld'
  <2>1. since \in Nat
    BY <1>1 DEF RegistryTypeOK
  <2>2. age'[e] < TTL + since' + (IF pc' = "expire" THEN Cycle ELSE 0)
    BY <1>2, <1>6, <1>7, <2>1
  <2>. QED BY <1>2, <1>7, <2>2 DEF RegistryInv, NoneTooOld, Listed
<1>11. FoundIsRecent'
  <2> SUFFICES ASSUME NEW d \in Devices, steady'[d] # Absent
               PROVE  \/ Listed(d)' /\ Recent(d)'
                      \/ \E t \in Tasks : Waiting(t, d)' /\ steady'[d] <= task'[t].age
    BY DEF FoundIsRecent
  <2>1. CASE d = e
    <3>1. age'[d] <= since' + Cycle
      BY <1>1, <1>2, <1>6, <1>7, <2>1 DEF RegistryTypeOK
    <3>. QED BY <1>6, <1>7, <2>1, <3>1 DEF Listed, Recent, Absent
  <2>2. CASE d # e
    BY <1>2, <1>4, <1>7, <2>2 DEF RegistryInv, FoundIsRecent, Listed, Recent
  <2>. QED BY <2>1, <2>2
<1>. QED BY <1>8, <1>9, <1>10, <1>11 DEF RegistryInv

LEMMA ExpireStep == RegistryInv /\ RemoveExpired => RegistryInv'
<1> SUFFICES ASSUME RegistryInv, RemoveExpired PROVE RegistryInv'
  OBVIOUS
<1> USE VcpAssumption
<1>1. RegistryTypeOK
  BY DEF RegistryInv
<1>2. /\ age' = [d \in Devices |-> IF age[d] < TTL THEN age[d] ELSE Absent]
      /\ UNCHANGED <<since, task, heard, steady>>
      /\ pc = "expire" /\ pc' = "push"
  BY DEF RemoveExpired
<1>3. RegistryTypeOK'
  BY <1>1, <1>2 DEF RegistryTypeOK, Absent, Old
<1>4. \A d \in Devices : Listed(d)' => Listed(d) /\ age'[d] = age[d] /\ age[d] < TTL
  BY <1>2 DEF Listed
<1>5. NoneTooYoung' /\ NoneTooOld'
  BY <1>1, <1>2, <1>4 DEF RegistryInv, RegistryTypeOK, NoneTooYoung, NoneTooOld
<1>6. ASSUME NEW d \in Devices, Listed(d), Recent(d)
      PROVE  Listed(d)' /\ Recent(d)'
  <2>1. age[d] \in Int /\ since \in Int /\ since <= Cycle
    BY <1>1 DEF RegistryTypeOK, Absent
  <2>2. age[d] <= 3 * Cycle
    BY <1>1, <1>6, <2>1, TaskFact DEF Recent
  <2>. QED BY <1>2, <1>6, <2>1, <2>2 DEF Listed, Recent, Waiting
<1>7. FoundIsRecent'
  BY <1>2, <1>6 DEF RegistryInv, FoundIsRecent, Waiting
<1>. QED BY <1>3, <1>5, <1>7 DEF RegistryInv

LEMMA RegisterStep ==
  ASSUME RegistryInv, NEW e \in Devices, Register(e)
  PROVE  RegistryInv'
<1> USE VcpAssumption
<1>1. RegistryTypeOK
  BY DEF RegistryInv
<1>2. /\ age' = [age EXCEPT ![e] = 0] /\ heard' = [heard EXCEPT ![e] = 0]
      /\ UNCHANGED <<pc, since, task, steady>>
  BY DEF Register
<1>3. RegistryTypeOK'
  BY <1>1, <1>2 DEF RegistryTypeOK, Absent, Old
<1>4. NoneTooYoung'
  BY <1>1, <1>2, TaskFact DEF RegistryInv, RegistryTypeOK, NoneTooYoung, Listed
<1>5. NoneTooOld'
  BY <1>1, <1>2 DEF RegistryInv, RegistryTypeOK, NoneTooOld, Listed
<1>6. FoundIsRecent'
  BY <1>1, <1>2 DEF RegistryInv, RegistryTypeOK, FoundIsRecent, Listed, Recent, Waiting, Absent
<1>. QED BY <1>3, <1>4, <1>5, <1>6 DEF RegistryInv

LEMMA TickStep == RegistryInv /\ Tick => RegistryInv'
<1> SUFFICES ASSUME RegistryInv, Tick PROVE RegistryInv'
  OBVIOUS
<1> USE VcpAssumption
<1>1. RegistryTypeOK /\ NoneTooYoung /\ NoneTooOld
  BY DEF RegistryInv
<1>2. /\ since' = since + 1 /\ since < Cycle /\ since \in Int /\ 0 <= since /\ pc' = pc
      /\ pc \in {"scan", "expire", "push"}
  BY <1>1 DEF Tick, RegistryTypeOK
<1>3. \A t \in Tasks :
        /\ task'[t].todo = task[t].todo /\ task'[t] \in Task
        /\ task[t].todo # {} => task'[t].age = task[t].age + 1
  <2> SUFFICES ASSUME NEW t \in Tasks
               PROVE  /\ task'[t].todo = task[t].todo /\ task'[t] \in Task
                      /\ task[t].todo # {} => task'[t].age = task[t].age + 1
    OBVIOUS
  <2>1. /\ task'[t] = IF task[t].todo = {} THEN task[t]
                      ELSE [task[t] EXCEPT !.age = task[t].age + 1]
        /\ task[t].todo # {} => task[t].age < Cycle
    BY DEF Tick
  <2>2. task[t] \in Task
    BY <1>1 DEF RegistryTypeOK
  <2>. QED BY <2>1, <2>2 DEF Task
<1>4. \A t \in Tasks, d \in Devices :
        Waiting(t, d) => Waiting(t, d)' /\ task'[t].age = task[t].age + 1
  BY <1>3 DEF Waiting
<1>5. Old \in Nat /\ Old = TTL + 2 * Cycle
  BY DEF Old
<1>6. \A d \in Devices :
        /\ Listed(d) => age[d] \in 0 .. Old /\ age[d] < Old
        /\ Listed(d) => age'[d] = age[d] + 1 /\ Listed(d)'
        /\ ~Listed(d) => age'[d] = Absent /\ ~Listed(d)'
  <2> SUFFICES ASSUME NEW d \in Devices
               PROVE  /\ Listed(d) => age[d] \in 0 .. Old /\ age[d] < Old
                      /\ Listed(d) => age'[d] = age[d] + 1 /\ Listed(d)'
                      /\ ~Listed(d) => age'[d] = Absent /\ ~Listed(d)'
    OBVIOUS
  <2>1. age'[d] = IF Listed(d) THEN Aged(age[d], Old) ELSE Absent
    BY DEF Tick
  <2>2. CASE ~Listed(d)
    BY <2>1, <2>2 DEF Listed
  <2>3. CASE Listed(d)
    <3>1. age[d] \in 0 .. Old
      BY <1>1, <1>5, <2>3 DEF RegistryTypeOK, Listed, Absent
    <3>2. age[d] < Old
      BY <1>1, <1>2, <1>5, <2>3, <3>1 DEF NoneTooOld
    <3>3. age'[d] = age[d] + 1
      BY <1>5, <2>1, <2>3, <3>1, <3>2, AgedFact
    <3>. QED BY <2>3, <3>1, <3>2, <3>3 DEF Listed, Absent
  <2>. QED BY <2>2, <2>3
<1>7. \A d \in Devices :
        heard[d] \in 0 .. Old /\ heard'[d] \in 0 .. Old /\ heard'[d] <= heard[d] + 1
  BY <1>1, <1>5, AgedFact DEF Tick, RegistryTypeOK
<1>8. \A d \in Devices :
        /\ steady[d] = Absent => steady'[d] = Absent
        /\ steady[d] # Absent => /\ steady'[d] \in 0 .. Cycle + 1
                                 /\ steady[d] \in 0 .. Cycle + 1
                                 /\ steady'[d] <= steady[d] + 1
  <2> SUFFICES ASSUME NEW d \in Devices, steady[d] # Absent
               PROVE  /\ steady'[d] \in 0 .. Cycle + 1
                      /\ steady[d] \in 0 .. Cycle + 1
                      /\ steady'[d] <= steady[d] + 1
    BY DEF Tick
  <2>1. steady[d] \in 0 .. Cycle + 1
    BY <1>1 DEF RegistryTypeOK, Absent
  <2>2. steady'[d] = Aged(steady[d], Cycle + 1)
    BY DEF Tick
  <2>. QED BY <2>1, <2>2, AgedFact
<1>9. RegistryTypeOK'
  <2>1. age' \in [Devices -> Absent .. Old]
    <3>1. \A d \in Devices : age'[d] \in Absent .. Old
      BY <1>5, <1>6 DEF Absent
    <3>. QED BY <3>1 DEF Tick
  <2>2. task' \in [Tasks -> Task]
    BY <1>3 DEF Tick
  <2>3. heard' \in [Devices -> 0 .. Old]
    BY <1>7 DEF Tick
  <2>4. steady' \in [Devices -> Absent .. Cycle + 1]
    <3>1. \A d \in Devices : steady'[d] \in Absent .. Cycle + 1
      BY <1>8 DEF Absent
    <3>. QED BY <3>1 DEF Tick
  <2>. QED BY <1>2, <2>1, <2>2, <2>3, <2>4 DEF RegistryTypeOK
<1>10. NoneTooYoung'
  <2>1. \A d \in Devices : Listed(d)' => heard'[d] <= age'[d]
    BY <1>1, <1>6, <1>7 DEF NoneTooYoung
  <2>2. ASSUME NEW t \in Tasks, NEW d \in task'[t].todo
        PROVE  heard'[d] <= task'[t].age
    <3>1. d \in task[t].todo /\ d \in Devices /\ task[t].age \in Int
      BY <1>1, <1>3, <2>2, TaskFact
    <3>2. task'[t].age = task[t].age + 1
      BY <1>3, <3>1
    <3>3. heard[d] <= task[t].age
      BY <1>1, <3>1 DEF NoneTooYoung
    <3>. QED BY <1>7, <3>1, <3>2, <3>3
  <2>. QED BY <2>1, <2>2 DEF NoneTooYoung
<1>11. NoneTooOld'
  BY <1>1, <1>2, <1>6 DEF NoneTooOld
<1>12. FoundIsRecent'
  <2> SUFFICES ASSUME NEW d \in Devices, steady'[d] # Absent
               PROVE  \/ Listed(d)' /\ Recent(d)'
                      \/ \E t \in Tasks : Waiting(t, d)' /\ steady'[d] <= task'[t].age
    BY DEF FoundIsRecent
  <2>1. steady[d] # Absent
    BY <1>8
  <2>2. ASSUME Listed(d), age[d] <= since + Cycle
        PROVE  Listed(d)' /\ Recent(d)'
    BY <1>2, <1>6, <2>2 DEF Recent
  <2>3. ASSUME Listed(d), NEW t \in Tasks, Waiting(t, d), age[d] <= task[t].age + 2 * Cycle
        PROVE  Listed(d)' /\ Recent(d)'
    <3>1. task[t].age \in Int
      BY <1>1, TaskFact
    <3>2. age'[d] <= task'[t].age + 2 * Cycle
      BY <1>4, <1>6, <2>3, <3>1
    <3>. QED BY <1>4, <1>6, <2>3, <3>2 DEF Recent
  <2>4. ASSUME NEW t \in Tasks, Waiting(t, d), steady[d] <= task[t].age
        PROVE  Waiting(t, d)' /\ steady'[d] <= task'[t].age
    <3>1. task[t].age \in Int
      BY <1>1, TaskFact
    <3>. QED BY <1>4, <1>8, <2>1, <2>4, <3>1
  <2>. QED BY <2>1, <2>2, <2>3, <2>4 DEF RegistryInv, FoundIsRecent, Recent
<1>. QED BY <1>9, <1>10, <1>11, <1>12 DEF RegistryInv

(* The registry's invariants survive every step; sessions only read it. *)
LEMMA RegistryStep == RegistryInv /\ [Next]_vars => RegistryInv'
<1> SUFFICES ASSUME RegistryInv, [Next]_vars PROVE RegistryInv'
  OBVIOUS
<1>1. ASSUME UNCHANGED registryVars
      PROVE  RegistryInv'
  BY <1>1 DEF RegistryInv, RegistryTypeOK, NoneTooYoung, NoneTooOld, FoundIsRecent,
              Recent, Waiting, Listed, registryVars
<1>2. CASE Registry
  <2>1. CASE Push
    BY <2>1 DEF Push, RegistryInv, RegistryTypeOK, NoneTooYoung, NoneTooOld, FoundIsRecent,
                Recent, Waiting, Listed
  <2>. QED
    BY <1>2, <2>1, ScanStep, UpsertStep, ExpireStep, RegisterStep, TickStep DEF Registry
<1>3. CASE \E s \in Sessions : Capture(s)
  BY <1>1, <1>3 DEF Capture, HandleCapture, Issue, Command, RecordCommands, Close
<1>4. CASE UNCHANGED vars
  BY <1>1, <1>4 DEF vars, registryVars
<1>. QED BY <1>2, <1>3, <1>4 DEF Next

(* A device that every scan finds stays listed (ScanMdns, Upsert,          *)
(* RemoveExpired, Register): for any number of devices and upsert tasks    *)
(* and any TTL of more than three cycles.                                  *)
THEOREM AnnouncedIsListedHolds == Spec => []AnnouncedIsListed
<1>1. RegistryInv => AnnouncedIsListed
  <2> SUFFICES ASSUME RegistryInv, NEW d \in Devices, steady[d] > Cycle
               PROVE  Listed(d)
    BY DEF AnnouncedIsListed
  <2>1. RegistryTypeOK
    BY DEF RegistryInv
  <2>2. steady[d] # Absent /\ steady[d] \in Int
    BY <2>1, VcpAssumption DEF RegistryTypeOK, Absent
  <2>3. \A t \in Tasks : ~(steady[d] <= task[t].age)
    BY <2>1, <2>2, TaskFact, VcpAssumption
  <2>. QED BY <2>2, <2>3 DEF RegistryInv, FoundIsRecent
<1>. QED BY <1>1, RegistryInit, RegistryStep, PTL DEF Spec

(* An entry is gone two cycles after the TTL, counted from the last word   *)
(* of its device (ScanMdns, Upsert, RemoveExpired, Register): whatever the *)
(* tasks' order.                                                           *)
THEOREM SilentIsForgottenHolds == Spec => []SilentIsForgotten
<1>1. RegistryInv => SilentIsForgotten
  <2> SUFFICES ASSUME RegistryInv, NEW d \in Devices, Listed(d)
               PROVE  heard[d] < Old
    BY DEF SilentIsForgotten
  <2>1. /\ heard[d] <= age[d]
        /\ age[d] < TTL + since + (IF pc = "expire" THEN Cycle ELSE 0)
    BY DEF RegistryInv, NoneTooYoung, NoneTooOld
  <2>2. heard[d] \in Int /\ age[d] \in Int /\ since \in Int /\ since <= Cycle
    BY VcpAssumption DEF RegistryInv, RegistryTypeOK, Absent, Old
  <2>. QED BY <2>1, <2>2, VcpAssumption DEF Old
<1>. QED BY <1>1, RegistryInit, RegistryStep, PTL DEF Spec

-----------------------------------------------------------------------------
(* What a session holds after its grant was issued. *)
GrantOk(s) ==
  sess[s].st = "granted" =>
    \A c \in sess[s].grant : c \in sess[s].asked /\ IsGrantable(sess[s].manifest, c)

Granted == sess \in [Sessions -> Session] /\ \A s \in Sessions : GrantOk(s)

LEMMA SessionFact ==
  ASSUME NEW x \in Session
  PROVE  /\ \A st \in {"queued", "commanded", "failed", "recorded", "closed"} :
              [x EXCEPT !.st = st] \in Session /\ [x EXCEPT !.st = st].st = st
         /\ [x EXCEPT !.st = "recorded", !.used = Captured] \in Session
         /\ [x EXCEPT !.st = "recorded", !.used = Captured].st = "recorded"
<1>1. Captured \in SUBSET Capabilities BY DEF Capabilities
<1>. QED BY <1>1 DEF Session

LEMMA LaterFact ==
  ASSUME NEW x \in Session
  PROVE  /\ Later(x) \in Session
         /\ Later(x).st = x.st /\ Later(x).asked = x.asked
         /\ Later(x).manifest = x.manifest /\ Later(x).grant = x.grant
BY VcpAssumption DEF Later, Session, Absent

LEMMA IssueFact ==
  ASSUME NEW x \in Session, NEW m \in Manifests, NEW asked \in Requests, NEW u \in Durations
  PROVE  [x EXCEPT !.st = "granted", !.manifest = m, !.asked = asked,
                   !.grant = {c \in asked : IsGrantable(m, c)}, !.left = GrantLife(u)] \in Session
<1>1. GrantLife(u) \in Absent .. Ceiling
  BY VcpAssumption DEF GrantLife, Smaller, Absent
<1>2. asked \in SUBSET Capabilities /\ {c \in asked : IsGrantable(m, c)} \in SUBSET Capabilities
      /\ m \in Manifest
  BY VcpAssumption
<1>. QED BY <1>1, <1>2 DEF Session

LEMMA GrantedInit == Init => Granted
BY VcpAssumption DEF Init, Granted, GrantOk, NoSession, Session, Manifest, Absent

LEMMA GrantedStep == Granted /\ [Next]_vars => Granted'
<1> SUFFICES ASSUME Granted, [Next]_vars PROVE Granted'
  OBVIOUS
<1>1. ASSUME UNCHANGED sess PROVE Granted'
  BY <1>1 DEF Granted, GrantOk
<1>2. ASSUME NEW s \in Sessions, NEW x \in Session, x.st # "granted",
             sess' = [sess EXCEPT ![s] = x]
      PROVE  Granted'
  BY <1>2 DEF Granted, GrantOk
<1>3. CASE Registry
  <2>1. CASE Tick
    <3>1. sess' = [s \in Sessions |-> Later(sess[s])]
      BY <2>1 DEF Tick
    <3>. QED BY <3>1, LaterFact DEF Granted, GrantOk
  <2>. QED
    BY <1>1, <1>3, <2>1 DEF Registry, ScanMdns, Upsert, RemoveExpired, Push, Register
<1>4. ASSUME NEW s \in Sessions, Capture(s)
      PROVE  Granted'
  <2>1. sess[s] \in Session
    BY DEF Granted
  <2>2. ASSUME NEW d \in Devices, HandleCapture(s, d) PROVE Granted'
    BY <1>2, <2>1, <2>2, SessionFact DEF HandleCapture
  <2>3. CASE Issue(s)
    <3>1. PICK m \in Manifests, asked \in Requests, u \in Durations :
            sess' = [sess EXCEPT ![s] =
              [@ EXCEPT !.st = "granted", !.manifest = m, !.asked = asked,
                        !.grant = {c \in asked : IsGrantable(m, c)},
                        !.left = GrantLife(u)]]
      BY <2>3 DEF Issue
    <3> DEFINE x == [sess[s] EXCEPT !.st = "granted", !.manifest = m, !.asked = asked,
                        !.grant = {c \in asked : IsGrantable(m, c)}, !.left = GrantLife(u)]
    <3>2. x \in Session
      BY <2>1, IssueFact
    <3>3. x.asked = asked /\ x.manifest = m /\ x.grant = {c \in asked : IsGrantable(m, c)}
      BY <2>1 DEF Session
    <3>4. sess' = [sess EXCEPT ![s] = x]
      BY <3>1, Zenon
    <3> HIDE DEF x
    <3>5. sess'[s] = x /\ sess' \in [Sessions -> Session]
          /\ \A r \in Sessions : r # s => sess'[r] = sess[r]
      BY <3>2, <3>4 DEF Granted
    <3>6. GrantOk(s)'
      BY <3>3, <3>5 DEF GrantOk
    <3>. QED BY <3>5, <3>6 DEF Granted, GrantOk
  <2>4. CASE Command(s)
    BY <1>2, <2>1, <2>4, SessionFact DEF Command
  <2>5. CASE RecordCommands(s)
    <3>1. sess' = [sess EXCEPT ![s] = [sess[s] EXCEPT !.st = "recorded", !.used = Captured]]
      BY <2>5 DEF RecordCommands
    <3>. QED BY <1>2, <2>1, <3>1, SessionFact
  <2>6. CASE Close(s)
    <3>1. PICK st \in {"closed", "failed"} : sess' = [sess EXCEPT ![s].st = st]
      BY <2>6 DEF Close
    <3>2. [sess[s] EXCEPT !.st = st] \in Session /\ [sess[s] EXCEPT !.st = st].st # "granted"
      BY <2>1, SessionFact
    <3>3. sess' = [sess EXCEPT ![s] = [sess[s] EXCEPT !.st = st]]
      BY <3>1
    <3>. QED BY <1>2, <3>2, <3>3
  <2>. QED BY <1>4, <2>2, <2>3, <2>4, <2>5, <2>6 DEF Capture
<1>5. CASE UNCHANGED vars
  BY <1>1, <1>5 DEF vars
<1>. QED BY <1>3, <1>4, <1>5 DEF Next

(* The commands of a session are made within its grant's time and for what *)
(* its device lets be granted (Issue, Command): whatever manifests,        *)
(* requests and durations there are.                                       *)
THEOREM UsedWithinGrantHolds == Spec => UsedWithinGrant
<1> DEFINE Within ==
      \A s \in Sessions :
        sess'[s].st = "commanded" /\ sess[s].st # "commanded" =>
          /\ sess[s].left >= 0
          /\ \A c \in Captured :
               /\ c \in sess[s].asked
               /\ c \in sess[s].manifest.declared
               /\ c \notin sess[s].manifest.flagged
               /\ c \notin sess[s].manifest.listed
<1>1. Granted /\ [Next]_vars => [Within]_vars
  <2> SUFFICES ASSUME Granted, Next, NEW s \in Sessions,
                      sess'[s].st = "commanded", sess[s].st # "commanded"
               PROVE  /\ sess[s].left >= 0
                      /\ \A c \in Captured :
                           /\ c \in sess[s].asked
                           /\ c \in sess[s].manifest.declared
                           /\ c \notin sess[s].manifest.flagged
                           /\ c \notin sess[s].manifest.listed
    OBVIOUS
  <2>1. \A r \in Sessions : sess[r] \in Session
    BY DEF Granted
  <2>2. ~Registry
    <3>1. Tick => sess'[s].st = sess[s].st
      BY <2>1, LaterFact DEF Tick
    <3>. QED BY <3>1 DEF Registry, ScanMdns, Upsert, RemoveExpired, Push, Register
  <2>3. PICK r \in Sessions : Capture(r)
    BY <2>2 DEF Next
  <2>4. r = s /\ Command(s)
    <3>1. r = s
      BY <2>1, <2>3 DEF Capture, HandleCapture, Issue, Command, RecordCommands, Close, Granted
    <3>2. ~\E d \in Devices : HandleCapture(s, d)
      BY <2>1, SessionFact DEF HandleCapture, Granted
    <3>3. ~Issue(s)
      BY <2>1 DEF Issue, Granted, Session
    <3>4. ASSUME RecordCommands(s) PROVE FALSE
      <4>1. sess' = [sess EXCEPT ![s] = [sess[s] EXCEPT !.st = "recorded", !.used = Captured]]
        BY <3>4 DEF RecordCommands
      <4>. QED BY <2>1, <4>1, SessionFact DEF Granted
    <3>5. ~Close(s)
      BY <2>1 DEF Close, Granted, Session
    <3>. QED BY <2>3, <3>1, <3>2, <3>3, <3>4, <3>5 DEF Capture
  <2>5. \A c \in Captured : Covers(s, c)
    BY <2>1, <2>4 DEF Command, Granted, Session
  <2>6. sess[s].left # Absent /\ sess[s].left \in Absent .. Ceiling
    BY <2>1, <2>5 DEF Covers, Captured, Session
  <2>7. sess[s].st = "granted" /\ GrantOk(s)
    BY <2>4 DEF Command, Granted
  <2>. QED BY <2>5, <2>6, <2>7, VcpAssumption DEF Covers, GrantOk, IsGrantable, Absent
<1>. QED BY <1>1, GrantedInit, GrantedStep, PTL DEF Spec, UsedWithinGrant
-----------------------------------------------------------------------------
(* Embodiment (TrustTiers): scores only grow, and so does the tier they make
   an agent eligible for, although its conditions are not nested. *)

ProofVectors == [ProofDomains -> Nat]

TierTypeOK ==
  /\ scores \in [Workers -> ProofVectors]
  /\ sessions \subseteq [agent : Workers, tier : Tiers, mode : Modes]
  /\ granted \in [Workers -> SUBSET {c.id : c \in StampflyCapabilities}]

(* The tiers a vector opens, of which EligibleTier is the highest. *)
Open(v) == {t \in Tiers : Aggregate(v) >= MinProofScore[t + 1] /\ Needs(t, v)}

LEMMA EligibleIsHighest ==
  ASSUME NEW v \in ProofVectors
  PROVE  /\ EligibleTier(v) \in Open(v)
         /\ \A u \in Open(v) : u <= EligibleTier(v)
<1>1. 0 \in Open(v)
  BY DEF Open, Tiers, ProofVectors, ProofDomains, Aggregate, MinProofScore, Needs
<1>2. \E t \in Open(v) : \A u \in Open(v) : u <= t
  <2>1. Open(v) \subseteq 0..5
    BY DEF Open, Tiers
  <2> QED
    BY <1>1, <2>1
<1> QED
  BY <1>2 DEF EligibleTier, Open

LEMMA TierGrows ==
  ASSUME NEW v \in ProofVectors, NEW d \in ProofDomains, NEW delta \in Nat
  PROVE  /\ AddScore(v, d, delta) \in ProofVectors
         /\ EligibleTier(v) <= EligibleTier(AddScore(v, d, delta))
<1> DEFINE w == AddScore(v, d, delta)
<1>1. w \in ProofVectors
  BY DEF ProofVectors, AddScore
<1>2. \A e \in ProofDomains : v[e] \in Nat /\ w[e] \in Nat /\ v[e] <= w[e]
  BY DEF ProofVectors, AddScore
<1>3. /\ v.simulation <= w.simulation /\ v.spatial <= w.spatial
      /\ v.physical <= w.physical /\ Aggregate(v) <= Aggregate(w)
      /\ Aggregate(v) \in Nat /\ Aggregate(w) \in Nat
  BY <1>2 DEF ProofDomains, Aggregate
<1>4. Open(v) \subseteq Open(w)
  <2> SUFFICES ASSUME NEW t \in Open(v) PROVE t \in Open(w)
    OBVIOUS
  <2>1. t \in Tiers /\ MinProofScore[t + 1] \in Nat
    BY DEF Open, Tiers, MinProofScore
  <2>2. Needs(t, v) => Needs(t, w)
    BY <1>2, <1>3, <2>1 DEF Needs, Tiers, ProofDomains
  <2> QED
    BY <1>3, <2>1, <2>2 DEF Open
<1> QED
  BY <1>1, <1>4, EligibleIsHighest DEF Open, Tiers

LEMMA MoreIsAllowed ==
  ASSUME NEW t \in Tiers, NEW u \in Tiers, t <= u
  PROVE  /\ \A mode \in Modes : ModeAllowed(mode, t) => ModeAllowed(mode, u)
         /\ \A proof \in BOOLEAN : Grantable(t, proof) \subseteq Grantable(u, TRUE)
<1>1. \A mode \in Modes : ModeAllowed(mode, t) => ModeAllowed(mode, u)
  BY DEF ModeAllowed, Tiers, Modes
<1>2. ASSUME NEW c \in StampflyCapabilities PROVE c.tier \in Nat
  BY DEF StampflyCapabilities, Sensors
<1>3. \A proof \in BOOLEAN : Grantable(t, proof) \subseteq Grantable(u, TRUE)
  BY <1>2 DEF Grantable, Tiers
<1> QED
  BY <1>1, <1>3

LEMMA TierStep ==
  ASSUME TierTypeOK, EmbodimentStaysEarned, [TierNext]_tierVars
  PROVE  TierTypeOK' /\ EmbodimentStaysEarned'
<1> USE DEF TierTypeOK, EmbodimentStaysEarned
<1>1. \A a \in Workers : EligibleTier(scores[a]) \in Tiers
  BY EligibleIsHighest DEF Open
<1>2. ASSUME NEW a \in Workers, NEW d \in ProofDomains, NEW delta \in Deltas,
             Evaluate(a, d, delta)
      PROVE  TierTypeOK' /\ EmbodimentStaysEarned'
  <2>1. delta \in Nat
    BY TierAssumption
  <2>2. /\ scores' = [scores EXCEPT ![a] = AddScore(scores[a], d, delta)]
        /\ UNCHANGED <<sessions, granted>>
    BY <1>2 DEF Evaluate
  <2>3. scores' \in [Workers -> ProofVectors]
    BY <2>1, <2>2, TierGrows
  <2>4. ASSUME NEW b \in Workers
        PROVE  /\ EligibleTier(scores[b]) <= EligibleTier(scores'[b])
               /\ EligibleTier(scores'[b]) \in Tiers
    <3>1. EligibleTier(scores'[b]) \in Tiers
      BY <2>3, EligibleIsHighest DEF Open
    <3>2. CASE b = a
      BY <2>1, <2>2, <3>1, <3>2, TierGrows
    <3>3. CASE b # a
      BY <1>1, <2>2, <3>1, <3>3 DEF Tiers
    <3> QED
      BY <3>1, <3>2, <3>3
  <2>5. ASSUME NEW s \in sessions
        PROVE  s.tier <= EligibleTier(scores'[s.agent]) /\ ModeAllowed(s.mode, EligibleTier(scores'[s.agent]))
    <3>1. s.agent \in Workers /\ s.tier \in Tiers /\ s.mode \in Modes
      OBVIOUS
    <3>2. s.tier <= EligibleTier(scores[s.agent]) /\ ModeAllowed(s.mode, EligibleTier(scores[s.agent]))
      OBVIOUS
    <3>3. ModeAllowed(s.mode, EligibleTier(scores'[s.agent]))
      BY <1>1, <2>4, <3>1, <3>2, MoreIsAllowed
    <3>4. s.tier <= EligibleTier(scores'[s.agent])
      BY <1>1, <2>4, <3>1, <3>2 DEF Tiers
    <3> QED
      BY <3>3, <3>4
  <2>6. ASSUME NEW b \in Workers
        PROVE  granted[b] \subseteq Grantable(EligibleTier(scores'[b]), TRUE)
    <3>1. Grantable(EligibleTier(scores[b]), TRUE) \subseteq Grantable(EligibleTier(scores'[b]), TRUE)
      BY <1>1, <2>4, MoreIsAllowed
    <3> QED
      BY <3>1
  <2> QED
    BY <2>2, <2>3, <2>5, <2>6
<1>3. ASSUME NEW a \in Workers, NEW mode \in Modes, OpenBody(a, mode)
      PROVE  TierTypeOK' /\ EmbodimentStaysEarned'
  <2>1. /\ UNCHANGED <<scores, granted>>
        /\ ModeAllowed(mode, EligibleTier(scores[a]))
        /\ sessions' = sessions \cup {[agent |-> a, tier |-> EligibleTier(scores[a]), mode |-> mode]}
    BY <1>3 DEF OpenBody
  <2>2. EligibleTier(scores[a]) \in Tiers /\ EligibleTier(scores[a]) <= EligibleTier(scores[a])
    BY <1>1 DEF Tiers
  <2> DEFINE opened == [agent |-> a, tier |-> EligibleTier(scores[a]), mode |-> mode]
  <2>3. opened \in [agent : Workers, tier : Tiers, mode : Modes]
    BY <2>2
  <2>4. /\ opened.tier <= EligibleTier(scores[opened.agent])
        /\ ModeAllowed(opened.mode, EligibleTier(scores[opened.agent]))
    BY <2>1, <2>2
  <2>5. sessions' = sessions \cup {opened}
    BY <2>1
  <2> HIDE DEF opened
  <2> QED
    BY <2>1, <2>3, <2>4, <2>5
<1>4. ASSUME NEW a \in Workers, NEW proof \in BOOLEAN, Grant(a, proof)
      PROVE  TierTypeOK' /\ EmbodimentStaysEarned'
  <2>1. /\ UNCHANGED <<scores, sessions>>
        /\ granted' = [granted EXCEPT ![a] = Grantable(EligibleTier(scores[a]), proof)]
    BY <1>4 DEF Grant
  <2>2. EligibleTier(scores[a]) \in Tiers /\ EligibleTier(scores[a]) <= EligibleTier(scores[a])
    BY <1>1 DEF Tiers
  <2>3. Grantable(EligibleTier(scores[a]), proof) \subseteq Grantable(EligibleTier(scores[a]), TRUE)
    BY <2>2, MoreIsAllowed
  <2>4. Grantable(EligibleTier(scores[a]), proof) \subseteq {c.id : c \in StampflyCapabilities}
    BY DEF Grantable
  <2>5. granted' \in [Workers -> SUBSET {c.id : c \in StampflyCapabilities}]
    BY <2>1, <2>4
  <2>6. \A b \in Workers : granted'[b] \subseteq Grantable(EligibleTier(scores[b]), TRUE)
    BY <2>1, <2>3
  <2> QED
    BY <2>1, <2>5, <2>6
<1>5. CASE UNCHANGED tierVars
  BY <1>5 DEF tierVars
<1> QED
  BY <1>2, <1>3, <1>4, <1>5 DEF TierNext

(* Sessions and capabilities of a body never outlive the tier that opened them
   (tier.rs:146-181, body.rs:75-110, 235-247): for any agents and any scores. *)
THEOREM EmbodimentTheorem == TierSpec => []EmbodimentStaysEarned
<1>1. TierInit => TierTypeOK /\ EmbodimentStaysEarned
  BY DEF TierInit, TierTypeOK, EmbodimentStaysEarned, ProofVectors
<1>2. TierTypeOK /\ EmbodimentStaysEarned /\ [TierNext]_tierVars
        => TierTypeOK' /\ EmbodimentStaysEarned'
  BY TierStep
<1> QED
  BY <1>1, <1>2, PTL DEF TierSpec
=============================================================================
