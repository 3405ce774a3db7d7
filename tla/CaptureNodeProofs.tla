-------------------------- MODULE CaptureNodeProofs --------------------------
(***************************************************************************)
(* Proofs about CaptureNode, for any sets of jobs and twins: the type      *)
(* invariant, the safety invariants of the model-checking runs, and that   *)
(* the node implements JobLifecycle.                                       *)
(*                                                                         *)
(* The invariants are not inductive by themselves: that a receipt is       *)
(* listed once depends on what the task of its job still has to do.        *)
(* IInv therefore says, for every point of the task, what it has already   *)
(* done to the cache, the file and the events.                             *)
(***************************************************************************)
EXTENDS CaptureNode, FiniteSetTheorems, TLAPS

Uncached == {"unused", "inserted", "spawned", "capturing", "proving",
             "opening", "writing", "caching"}

(* A task has no twin before its pipeline returned one. *)
TwinKnown ==
  \A j \in Jobs :
    /\ pc[j] \in {"unused", "inserted", "spawned", "capturing"} => twin[j] = NoTwin
    /\ pc[j] \in {"proving"} \union Saving => twin[j] \in Twins
    /\ j \in announced => twin[j] \in Twins

(* A task reports last, and caches just before. *)
Reporting ==
  \A j \in Jobs :
    /\ pc[j] \in Uncached \union {"announcing"} =>
         j \notin announced \union failures
    /\ pc[j] \in Uncached =>
         \A i \in 1..Len(cache) : cache[i].job # j
    /\ pc[j] = "announcing" => Listed(Receipt(j))

(* The file of a twin nobody shares, from the moment it is written. *)
Undisturbed(j) == twin[j] \notin faulted /\ ~Shared(j)

FileKept ==
  \A j \in Jobs :
    /\ pc[j] = "writing" /\ Undisturbed(j) => disk[twin[j]] = Empty
    /\ (pc[j] \in {"caching", "announcing"} \/ j \in announced) /\ Undisturbed(j) =>
         disk[twin[j]] = Receipt(j)

IInv ==
  /\ TypeOK
  /\ TwinKnown
  /\ Reporting
  /\ FileKept
  /\ OneEventPerTask
  /\ AnnouncedIsServed
  /\ ListedOnce
  /\ ReceiptsAreProduced
-----------------------------------------------------------------------------

(* What load_all gives back: receipts of files that parse, each of them once. *)
LEMMA Loaded ==
  ASSUME TypeOK, NEW c \in SetToSeqs(OnDisk)
  PROVE  /\ c \in Seq(Receipts)
         /\ \A i \in 1..Len(c) : c[i] \in OnDisk
         /\ \A i, k \in 1..Len(c) : i # k => c[i] # c[k]
<1>1. IsFiniteSet({disk[t] : t \in Twins})
  <2>1. disk \in Surjection(Twins, {disk[t] : t \in Twins})
    BY DEF Surjection, TypeOK
  <2> QED
    BY <2>1, FS_Surjection, ConstantsAssumption
<1>2. IsFiniteSet(OnDisk)
  BY <1>1, FS_Subset DEF OnDisk
<1>3. Cardinality(OnDisk) \in Nat
  BY <1>2, FS_CardinalityType
<1>4. OnDisk \subseteq Receipts
  BY DEF OnDisk, TypeOK
<1>5. /\ c \in [1..Cardinality(OnDisk) -> OnDisk]
      /\ \A i, k \in 1..Cardinality(OnDisk) : i # k => c[i] # c[k]
  BY DEF SetToSeqs
<1>6. c \in Seq(OnDisk) /\ Len(c) = Cardinality(OnDisk)
  BY <1>3, <1>5
<1> QED
  BY <1>4, <1>5, <1>6

(* Each step keeps the types, and gives a task a twin before it uses one. *)
LEMMA TypeStep ==
  ASSUME TypeOK, TwinKnown, [Next]_vars
  PROVE  TypeOK' /\ TwinKnown'
<1> USE DEF TypeOK, Statuses, Points, TwinKnown, Saving
<1>1. ASSUME NEW j \in Jobs, Capture(j) \/ Insert(j) \/ SpawnTask(j)
      PROVE  TypeOK' /\ TwinKnown'
  BY <1>1 DEF Capture, Insert, SpawnTask
<1>2. ASSUME NEW j \in Jobs, Retry(j) PROVE TypeOK' /\ TwinKnown'
  BY <1>2 DEF Retry
<1>3. ASSUME NEW j \in Jobs, TaskStep(j) PROVE TypeOK' /\ TwinKnown'
  <2>1. CASE Begin(j)
    BY <2>1 DEF Begin
  <2>2. CASE CaptureFails(j)
    BY <2>2 DEF CaptureFails
  <2>3. ASSUME NEW t \in Twins, CaptureSucceeds(j, t) PROVE TypeOK' /\ TwinKnown'
    BY <2>3 DEF CaptureSucceeds
  <2>4. CASE Prove(j)
    BY <2>4 DEF Prove
  <2>5. CASE Panic(j)
    BY <2>5 DEF Panic
  <2>6. CASE Open(j)
    BY <2>6 DEF Open, NotReceipts
  <2>7. CASE Write(j)
    <3>1. Receipt(j) \in Receipts
      BY <2>7 DEF Receipt, Receipts, Write
    <3>2. disk' \in [Twins -> Receipts \union NotReceipts]
      BY <2>7, <3>1 DEF Write, NotReceipts
    <3> QED
      BY <2>7, <3>2 DEF Write
  <2>8. CASE OpenFails(j)
    BY <2>8 DEF OpenFails
  <2>9. CASE WriteFails(j)
    BY <2>9 DEF WriteFails, NotReceipts
  <2>10. CASE PushCache(j)
    <3>1. Receipt(j) \in Receipts
      BY <2>10 DEF Receipt, Receipts, PushCache
    <3>2. cache' \in Seq(Receipts)
      BY <2>10, <3>1 DEF PushCache
    <3> QED
      BY <2>10, <3>2 DEF PushCache
  <2>11. CASE Announce(j)
    BY <2>11 DEF Announce
  <2> QED
    BY <1>3, <2>1, <2>2, <2>3, <2>4, <2>5, <2>6, <2>7, <2>8, <2>9, <2>10,
       <2>11 DEF TaskStep
<1>4. CASE Restart
  <2>1. cache' \in Seq(Receipts)
    BY <1>4, Loaded DEF Restart
  <2> QED
    BY <1>4, <2>1 DEF Restart
<1>5. CASE UNCHANGED vars
  BY <1>5 DEF vars
<1> QED
  BY <1>1, <1>2, <1>3, <1>4, <1>5 DEF Next

(* The files, the cache and the job table always hold what their code can put
   there and read back. *)
THEOREM TypeCorrect == Spec => []TypeOK
<1>1. Init => TypeOK /\ TwinKnown
  BY DEF Init, TypeOK, Statuses, Points, NotReceipts, TwinKnown, Saving
<1>2. TypeOK /\ TwinKnown /\ [Next]_vars => TypeOK' /\ TwinKnown'
  BY TypeStep
<1> QED
  BY <1>1, <1>2, PTL DEF Spec
-----------------------------------------------------------------------------

LEMMA NotAReceipt == Receipts \intersect NotReceipts = {}
  BY ConstantsAssumption DEF Receipts, NotReceipts

(* A receipt that was produced belongs to a job whose pipeline has returned. *)
LEMMA ProducedIsPast ==
  ASSUME IInv, NEW r \in Receipts, Produced(r)
  PROVE  pc[r.job] \notin {"unused", "inserted", "spawned", "capturing"}
  BY ConstantsAssumption DEF IInv, TwinKnown, Produced, Receipts

LEMMA CachedIsReceipt ==
  ASSUME TypeOK, NEW i \in 1..Len(cache)
  PROVE  cache[i] \in Receipts
  BY DEF TypeOK

(* What the invariant says beyond types. *)
Rest ==
  /\ Reporting
  /\ FileKept
  /\ OneEventPerTask
  /\ AnnouncedIsServed
  /\ ListedOnce
  /\ ReceiptsAreProduced

LEMMA InvStep == IInv /\ [Next]_vars => IInv'
<1> SUFFICES ASSUME IInv, [Next]_vars, TypeOK', TwinKnown'
             PROVE  Rest'
  BY TypeStep DEF IInv, Rest
<1> USE DEF Rest, IInv, TypeOK, TwinKnown, Reporting, FileKept,
            OneEventPerTask, AnnouncedIsServed, ListedOnce,
            ReceiptsAreProduced, Uncached, Saving, Undisturbed, Shared,
            Receipt, Listed, Produced, Receipts
<1>1. ASSUME NEW j \in Jobs, Capture(j) \/ Insert(j) \/ SpawnTask(j) PROVE Rest'
  BY <1>1 DEF Capture, Insert, SpawnTask
<1>2. ASSUME NEW j \in Jobs, Retry(j) PROVE Rest'
  BY <1>2 DEF Retry
<1>3. ASSUME NEW j \in Jobs, Begin(j) PROVE Rest'
  BY <1>3 DEF Begin
<1>4. ASSUME NEW j \in Jobs, CaptureFails(j) PROVE Rest'
  <2>1. j \notin announced
    BY <1>4 DEF CaptureFails
  <2>2. OneEventPerTask'
    BY <1>4, <2>1 DEF CaptureFails
  <2>3. ASSUME NEW r \in Receipts, Produced(r) PROVE Produced(r)'
    <3>1. r.job # j
      BY <1>4, <2>3, ProducedIsPast DEF CaptureFails
    <3> QED
      BY <1>4, <2>3, <3>1 DEF CaptureFails
  <2>4. ReceiptsAreProduced'
    <3>1. \A i \in 1..Len(cache) : cache[i] \in Receipts
      BY CachedIsReceipt
    <3> QED
      BY <1>4, <2>3, <3>1 DEF CaptureFails
  <2>5. Reporting' /\ FileKept' /\ AnnouncedIsServed' /\ ListedOnce'
    BY <1>4 DEF CaptureFails
  <2> QED
    BY <2>2, <2>4, <2>5
<1>5. ASSUME NEW j \in Jobs, NEW t \in Twins, CaptureSucceeds(j, t) PROVE Rest'
  <2>1. twin[j] = NoTwin /\ NoTwin \notin Twins
    BY <1>5, ConstantsAssumption DEF CaptureSucceeds
  <2>2. ASSUME NEW r \in Receipts, Produced(r) PROVE Produced(r)'
    <3>1. r.job # j
      BY <1>5, <2>2, ProducedIsPast DEF CaptureSucceeds
    <3> QED
      BY <1>5, <2>2, <3>1 DEF CaptureSucceeds
  <2>3. ReceiptsAreProduced'
    <3>1. \A i \in 1..Len(cache) : cache[i] \in Receipts
      BY CachedIsReceipt
    <3> QED
      BY <1>5, <2>2, <3>1 DEF CaptureSucceeds
  <2>4. ASSUME NEW k \in Jobs \ {j}, twin[k] \in Twins, Shared(k) PROVE Shared(k)'
    BY <1>5, <2>1, <2>4 DEF CaptureSucceeds
  <2>5. FileKept'
    <3>1. pc'[j] = "proving" /\ j \notin announced'
      BY <1>5 DEF CaptureSucceeds
    <3>2. ASSUME NEW k \in Jobs \ {j}
          PROVE  /\ pc'[k] = pc[k] /\ twin'[k] = twin[k]
                 /\ disk' = disk /\ faulted' = faulted /\ announced' = announced
      BY <1>5, <3>2 DEF CaptureSucceeds
    <3>3. ASSUME NEW k \in Jobs \ {j}, Undisturbed(k)', twin[k] \in Twins
          PROVE  Undisturbed(k)
      <4>1. ~Shared(k)
        BY <3>3, <2>4
      <4> QED
        BY <4>1, <3>2, <3>3
    <3> QED
      BY <3>1, <3>2, <3>3
  <2>6. Reporting' /\ OneEventPerTask' /\ AnnouncedIsServed' /\ ListedOnce'
    BY <1>5 DEF CaptureSucceeds
  <2> QED
    BY <2>3, <2>5, <2>6
<1>6. ASSUME NEW j \in Jobs, Prove(j) PROVE Rest'
  BY <1>6 DEF Prove
<1>7. ASSUME NEW j \in Jobs, Panic(j) PROVE Rest'
  BY <1>7 DEF Panic
<1>8. ASSUME NEW j \in Jobs, Open(j) PROVE Rest'
  <2>1. ReceiptsAreProduced'
    BY <1>8, NotAReceipt DEF Open, NotReceipts
  <2>2. FileKept'
    BY <1>8 DEF Open
  <2> QED
    BY <1>8, <2>1, <2>2 DEF Open
<1>9. ASSUME NEW j \in Jobs, Write(j) PROVE Rest'
  <2>1. Produced(Receipt(j))
    BY <1>9 DEF Write
  <2>2. Torn \notin Receipts
    BY NotAReceipt DEF NotReceipts
  <2>3. ReceiptsAreProduced'
    BY <1>9, <2>1, <2>2 DEF Write
  <2>4. FileKept'
    BY <1>9 DEF Write
  <2> QED
    BY <1>9, <2>3, <2>4 DEF Write
<1>10. ASSUME NEW j \in Jobs, OpenFails(j) PROVE Rest'
  BY <1>10 DEF OpenFails
<1>11. ASSUME NEW j \in Jobs, WriteFails(j) PROVE Rest'
  <2>1. Torn \notin Receipts
    BY NotAReceipt DEF NotReceipts
  <2>2. ReceiptsAreProduced'
    BY <1>11, <2>1 DEF WriteFails
  <2>3. FileKept'
    BY <1>11 DEF WriteFails
  <2> QED
    BY <1>11, <2>2, <2>3 DEF WriteFails
<1>12. ASSUME NEW j \in Jobs, PushCache(j) PROVE Rest'
  <2>1. Reporting'
    BY <1>12 DEF PushCache
  <2>2. FileKept' /\ OneEventPerTask'
    BY <1>12 DEF PushCache
  <2>3. AnnouncedIsServed'
    BY <1>12 DEF PushCache
  <2>4. ListedOnce'
    BY <1>12 DEF PushCache
  <2>5. ReceiptsAreProduced'
    BY <1>12 DEF PushCache
  <2> QED
    BY <2>1, <2>2, <2>3, <2>4, <2>5
<1>13. ASSUME NEW j \in Jobs, Announce(j) PROVE Rest'
  <2>1. j \notin failures
    BY <1>13 DEF Announce
  <2>2. OneEventPerTask'
    BY <1>13, <2>1 DEF Announce
  <2> QED
    BY <1>13, <2>2 DEF Announce
<1>14. CASE Restart
  <2>1. /\ cache' \in Seq(Receipts)
        /\ \A i \in 1..Len(cache') : cache'[i] \in OnDisk
        /\ \A i, k \in 1..Len(cache') : i # k => cache'[i] # cache'[k]
    BY <1>14, Loaded DEF Restart
  <2>2. \A r \in OnDisk : r \in Receipts /\ Produced(r)
    BY DEF OnDisk
  <2>3. ASSUME NEW r \in OnDisk, NEW s \in OnDisk, r.job = s.job PROVE r = s
    BY <2>2, <2>3
  <2>4. ListedOnce'
    BY <2>1, <2>3
  <2>5. \A k \in Jobs : pc'[k] \in {"unused", "gone"} /\ (pc'[k] = "unused" => pc[k] = "unused")
    BY <1>14 DEF Restart
  <2>6. ReceiptsAreProduced'
    BY <1>14, <2>1, <2>2 DEF Restart
  <2>7. Reporting'
    <3>1. ASSUME NEW k \in Jobs, pc[k] = "unused", NEW r \in OnDisk PROVE r.job # k
      BY <2>2, <3>1, ProducedIsPast
    <3> QED
      BY <1>14, <2>1, <2>5, <3>1 DEF Restart
  <2>8. FileKept' /\ OneEventPerTask' /\ AnnouncedIsServed'
    BY <1>14, <2>5 DEF Restart
  <2> QED
    BY <2>4, <2>6, <2>7, <2>8
<1>15. CASE UNCHANGED vars
  BY <1>15 DEF vars
<1> QED
  BY <1>1, <1>2, <1>3, <1>4, <1>5, <1>6, <1>7, <1>8, <1>9, <1>10, <1>11,
     <1>12, <1>13, <1>14, <1>15 DEF Next, TaskStep

LEMMA InitIsFine == Init => IInv
<1> SUFFICES ASSUME Init PROVE IInv
  OBVIOUS
<1>1. TypeOK /\ TwinKnown
  BY DEF Init, TypeOK, TwinKnown, Statuses, Points, NotReceipts, Saving
<1>2. Reporting /\ FileKept /\ OneEventPerTask /\ AnnouncedIsServed
  BY DEF Init, Reporting, FileKept, OneEventPerTask, AnnouncedIsServed, Uncached
<1>3. ListedOnce /\ ReceiptsAreProduced
  BY NotAReceipt DEF Init, ListedOnce, ReceiptsAreProduced, NotReceipts
<1> QED
  BY <1>1, <1>2, <1>3 DEF IInv

LEMMA InvHolds == Spec => []IInv
  BY InitIsFine, InvStep, PTL DEF Spec

(* The task of a capture reports exactly once (run_capture_job), whatever is
   retried or restarted meanwhile. *)
THEOREM Reported == Spec => []OneEventPerTask
<1>1. IInv => OneEventPerTask
  BY DEF IInv
<1> QED
  BY InvHolds, <1>1, PTL

(* A capture reported complete has its receipt in the list that GET /receipts
   serves (save_and_broadcast_capture), until a restart. *)
THEOREM Served == Spec => []AnnouncedIsServed
<1>1. IInv => AnnouncedIsServed
  BY DEF IInv
<1> QED
  BY InvHolds, <1>1, PTL

(* No schedule of saves, retries and restarts lists a receipt twice. *)
THEOREM ReceiptListedOnce == Spec => []ListedOnce
<1>1. IInv => ListedOnce
  BY DEF IInv
<1> QED
  BY InvHolds, <1>1, PTL

(* Files and cache hold only receipts some capture produced. *)
THEOREM NoInventedReceipt == Spec => []ReceiptsAreProduced
<1>1. IInv => ReceiptsAreProduced
  BY DEF IInv
<1> QED
  BY InvHolds, <1>1, PTL

(* An announced receipt stays on disk through any number of restarts, when no
   write to its file failed and no other capture has its twin. *)
THEOREM Durability == Spec => []DurableUnlessShared
<1>1. IInv => DurableUnlessShared
  BY DEF IInv, FileKept, DurableUnlessShared, Undisturbed, TypeOK
<1> QED
  BY InvHolds, <1>1, PTL

-----------------------------------------------------------------------------

(* The job table with its tasks implements the contract of JobLifecycle: a
   step of a task after its outcome is a stutter, so is the work of the
   pipeline before it. *)
THEOREM Refinement == Spec => ImplementsJobLifecycle
<1> USE DEF RunOf
<1>1. Init => Lifecycle!JobInit
  BY DEF Init, Lifecycle!JobInit
<1>2. TypeOK /\ [Next]_vars => [Lifecycle!JobNext]_Lifecycle!jobVars
  <2> SUFFICES ASSUME TypeOK, [Next]_vars
               PROVE  [Lifecycle!JobNext]_Lifecycle!jobVars
    OBVIOUS
  <2> USE DEF TypeOK, Lifecycle!JobNext, Lifecycle!jobVars
  <2>1. ASSUME NEW j \in Jobs, Capture(j) \/ Insert(j) \/ SpawnTask(j)
        PROVE  Lifecycle!Queue(j) \/ Lifecycle!Insert(j) \/ Lifecycle!Spawn(j)
    BY <2>1 DEF Capture, Insert, SpawnTask, Lifecycle!Queue, Lifecycle!Insert,
                Lifecycle!Spawn
  <2>2. ASSUME NEW j \in Jobs, Retry(j) PROVE Lifecycle!Retry(j)
    BY <2>2 DEF Retry, Lifecycle!Retry
  <2>3. ASSUME NEW j \in Jobs, Begin(j) PROVE Lifecycle!Start(j)
    BY <2>3 DEF Begin, Lifecycle!Start
  <2>4. ASSUME NEW j \in Jobs, CaptureFails(j) PROVE Lifecycle!Finish(j, "failed")
    BY <2>4 DEF CaptureFails, Lifecycle!Finish
  <2>5. ASSUME NEW j \in Jobs, Prove(j) PROVE Lifecycle!Finish(j, "completed")
    BY <2>5 DEF Prove, Lifecycle!Finish
  <2>6. ASSUME NEW j \in Jobs, Panic(j) PROVE Lifecycle!Vanish(j)
    BY <2>6 DEF Panic, Lifecycle!Vanish
  <2>7. ASSUME NEW j \in Jobs, NEW q \in Points,
               pc' = [pc EXCEPT ![j] = q], RunOf(q) = RunOf(pc[j]), jobs' = jobs
        PROVE  UNCHANGED Lifecycle!jobVars
    BY <2>7
  <2>8. ASSUME NEW j \in Jobs, NEW t \in Twins, CaptureSucceeds(j, t)
        PROVE  UNCHANGED Lifecycle!jobVars
    BY <2>7, <2>8 DEF CaptureSucceeds, Points
  <2>9. ASSUME NEW j \in Jobs,
               \/ Open(j) \/ Write(j) \/ OpenFails(j) \/ WriteFails(j)
               \/ PushCache(j) \/ Announce(j)
        PROVE  UNCHANGED Lifecycle!jobVars
    BY <2>7, <2>9 DEF Open, Write, OpenFails, WriteFails, PushCache, Announce, Points
  <2>10. CASE Restart
    BY <2>10 DEF Restart, Lifecycle!Restart
  <2>11. CASE UNCHANGED vars
    BY <2>11 DEF vars
  <2> QED
    BY <2>1, <2>2, <2>3, <2>4, <2>5, <2>6, <2>8, <2>9, <2>10, <2>11
       DEF Next, TaskStep
<1> QED
  BY <1>1, <1>2, TypeCorrect, PTL DEF Spec, ImplementsJobLifecycle, Lifecycle!JobSpec
=============================================================================
