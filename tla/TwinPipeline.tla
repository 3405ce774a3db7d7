---------------------------- MODULE TwinPipeline ----------------------------
(***************************************************************************)
(* What a capture job does between "running" and "completed": from the     *)
(* VCP session to the twin, and from the twin to its anchor.               *)
(*                                                                         *)
(*   src/sovereign-node/src/node.rs           run_capture_pipeline, B1-B4   *)
(*   src/sovereign-pipeline/src/              capture_pipeline.rs,          *)
(*                     go2_driver.rs, splat_engine.rs, proof_chain.rs,      *)
(*                     event_bus.rs                                         *)
(*   src/twin-protocol/src/                   capture.rs, scene.rs,         *)
(*                     osovm.rs, simulation.rs, sui_anchor.rs, sui_rpc.rs   *)
(*                                                                         *)
(* The steps refine CaptureNode's CaptureSucceeds, CaptureFails and Prove: *)
(* the last step of a phase is a step of that module, the others leave its *)
(* variables alone.  Jobs share two things here: the work directory of the *)
(* reconstruction engine, which is named after the device, and the chain.  *)
(***************************************************************************)
EXTENDS CaptureNode

CONSTANTS
  Dirs,            \* work directories {splat_output_dir}/{device_id}
  Stub,            \* the data of the stub driver, the same in every capture
  None,            \* no scan, no frame
  MaxFrames,       \* largest number of frames of a live scan
  SplatBin,        \* BOOLEAN: splat_bin is configured
  Gsplat,          \* BOOLEAN: it is gsplat, not ns-train
  SuiKey,          \* BOOLEAN: ProofChainConfig.sui_key decodes as a key
  Nostr            \* BOOLEAN: ProofChainConfig.nostr_npub is given

Sources == Jobs \union {Stub}

(* A reconstruction: none, the stub's bytes, or one trained from the frames
   of the given scans. *)
NoSplat == [kind |-> "none", of |-> {}]
StubSplat == [kind |-> "stub", of |-> {}]
Trained(m) == [kind |-> "trained", of |-> m]

Splats == {StubSplat} \union {Trained(m) : m \in SUBSET Sources}

(* twin_id_from_hashes: the id is determined by the data. *)
TwinData == [scan : Sources, splat : Splats]

ASSUME PipelineAssumption ==
  /\ MaxFrames \in Nat
  /\ {Stub, None} \intersect Jobs = {}
  /\ Stub # None
  /\ TwinData \subseteq Twins
  /\ {SplatBin, Gsplat, SuiKey, Nostr} \subseteq BOOLEAN

VARIABLES
  stage,           \* stage[j]: where the job stands within its phase
  dir,             \* dir[j]: the work directory of the job's device
  scan,            \* scan[j]: RawCapture: whose data, how many frames
  splat,           \* splat[j]: RawCapture.splat
  written,         \* written[j]: frames written by write_jpeg_frames
  images,          \* images[d]: whose frame each file of images/ holds
  train,           \* train[d]: the models under train/, as sets of sources
  export,          \* export[d]: the model in export/splat.ply
  users,           \* history: jobs that wrote a frame
  minted,          \* external: Twin NFTs the chain holds for each job
  anchor,          \* anchor[j]: sui_object_id of the scene receipt
  emitted          \* emitted[j]: the envelopes made by the event bus

dirVars == <<images, train, export, users>>
chainVars == <<minted, anchor, emitted>>
pipeVars == <<stage, dir, scan, splat, written, dirVars, chainVars>>
pVars == <<vars, pipeVars>>

Stages == {"start", "framing", "training", "exporting", "reading", "ready",
           "built", "simulating", "proven", "executed", "anchored", "done"}

(* Slot 0 is frame_00000.bin, the file of a scan without JPEG frames. *)
Slots == 0..MaxFrames

Anchors == {"none", "stub", "real"}
Envelope == [kind : {"capture", "scene", "session", "post"}, sui : Anchors]

(* emit_pipeline_output, and cross_post_to_nostr when there is an npub. *)
Sent(k, a) == [kind |-> k, sui |-> a]
Envelopes(a) ==
  IF Nostr
  THEN <<Sent("capture", "none"), Sent("scene", a), Sent("session", "none"), Sent("post", a)>>
  ELSE <<Sent("capture", "none"), Sent("scene", a), Sent("session", "none")>>

PipeFields ==
  /\ stage \in [Jobs -> Stages]
  /\ dir \in [Jobs -> Dirs]
  /\ scan \in [Jobs -> [of : Sources \union {None}, frames : Slots]]
  /\ splat \in [Jobs -> Splats \union {NoSplat}]
  /\ written \in [Jobs -> Slots]
  /\ images \in [Dirs -> [Slots -> Sources \union {None}]]
  /\ train \in [Dirs -> SUBSET SUBSET Sources]
  /\ export \in [Dirs -> SUBSET Sources]
  /\ users \subseteq Jobs
  /\ minted \in [Jobs -> Nat]
  /\ anchor \in [Jobs -> Anchors]
  /\ emitted \in [Jobs -> Seq(Envelope)]

PipeTypeOK == TypeOK /\ PipeFields

PipeInit ==
  /\ Init
  /\ stage = [j \in Jobs |-> "start"]
  /\ dir \in [Jobs -> Dirs]
  /\ scan = [j \in Jobs |-> [of |-> None, frames |-> 0]]
  /\ splat = [j \in Jobs |-> NoSplat]
  /\ written = [j \in Jobs |-> 0]
  /\ images = [d \in Dirs |-> [s \in Slots |-> None]]
  /\ train = [d \in Dirs |-> {}]
  /\ export = [d \in Dirs |-> {}]
  /\ users = {}
  /\ minted = [j \in Jobs |-> 0]
  /\ anchor = [j \in Jobs |-> "none"]
  /\ emitted = [j \in Jobs |-> <<>>]

At(j, p, st) == pc[j] = p /\ stage[j] = st
Goto(j, st) == stage' = [stage EXCEPT ![j] = st]

(* F1 in thousandths: the stub's constant, or estimate_f1_from_frame_count
   over the 30 seconds of a scan, whose rate saturates at 900 frames. *)
F1Gate == 777
F1(r) == IF r.of = Stub THEN 832
         ELSE 780 + (140 * (IF r.frames < 900 THEN r.frames ELSE 900)) \div 900

TwinOf(j) == [scan |-> scan[j].of, splat |-> splat[j]]

-----------------------------------------------------------------------------
(* Phase A: CapturePipeline::run on a blocking thread. *)

(* Request, grant, session and the three commands have no effect that another
   job sees; they fail when the grant has expired in between. *)
SessionFails(j) ==
  /\ At(j, "capturing", "start")
  /\ CaptureFails(j)
  /\ UNCHANGED pipeVars

AfterScan == IF SplatBin THEN "framing" ELSE "ready"

(* capture_from_go2: a scan with n camera frames (none, if only the lidar
   answered), and no reconstruction yet. *)
LiveScan(j, n) ==
  /\ At(j, "capturing", "start")
  /\ scan' = [scan EXCEPT ![j] = [of |-> j, frames |-> n]]
  /\ splat' = [splat EXCEPT ![j] = NoSplat]
  /\ Goto(j, AfterScan)
  /\ UNCHANGED <<vars, dir, written, dirVars, chainVars>>

(* No live device, or the scan failed or brought nothing. *)
StubScan(j) ==
  /\ At(j, "capturing", "start")
  /\ scan' = [scan EXCEPT ![j] = [of |-> Stub, frames |-> 0]]
  /\ splat' = [splat EXCEPT ![j] = StubSplat]
  /\ Goto(j, AfterScan)
  /\ UNCHANGED <<vars, dir, written, dirVars, chainVars>>

(* write_jpeg_frames, one file after the other; what the directory held under
   other names stays. *)
NextSlot(j) == IF scan[j].frames = 0 THEN 0 ELSE written[j] + 1

WriteFrame(j) ==
  /\ At(j, "capturing", "framing")
  /\ images' = [images EXCEPT ![dir[j]][NextSlot(j)] = scan[j].of]
  /\ written' = [written EXCEPT ![j] = NextSlot(j)]
  /\ users' = users \union {j}
  /\ Goto(j, IF NextSlot(j) = scan[j].frames THEN "training" ELSE "framing")
  /\ UNCHANGED <<vars, dir, scan, splat, train, export, chainVars>>

(* Mutation: all devices in one directory. *)
FramedAnywhere(d) == {images[e][s] : e \in Dirs, s \in Slots} \ {None}

Framed(d) == {images[d][s] : s \in Slots} \ {None}

(* ns-train adds a run under train/, gsplat writes over its last output. *)
Train(j) ==
  /\ At(j, "capturing", "training")
  /\ train' = [train EXCEPT ![dir[j]] =
                 (IF Gsplat THEN {} ELSE @) \union {Framed(dir[j])}]
  /\ Goto(j, "exporting")
  /\ UNCHANGED <<vars, dir, scan, splat, written, images, export, users, chainVars>>

(* export_to_ply: ns-export of the first config.yml that the directory yields,
   whichever run it is of.  gsplat needs no export. *)
Export(j) ==
  /\ At(j, "capturing", "exporting")
  /\ \E m \in train[dir[j]] :
       export' = IF Gsplat THEN export ELSE [export EXCEPT ![dir[j]] = m]
  /\ Goto(j, "reading")
  /\ UNCHANGED <<vars, dir, scan, splat, written, images, train, users, chainVars>>

ReadPly(j) ==
  /\ At(j, "capturing", "reading")
  /\ \E m \in (IF Gsplat THEN train[dir[j]] ELSE {export[dir[j]]}) :
       splat' = [splat EXCEPT ![j] = Trained(m)]
  /\ Goto(j, "ready")
  /\ UNCHANGED <<vars, dir, scan, written, dirVars, chainVars>>

(* Any error of run_splat keeps what the scan brought. *)
SplatFails(j) ==
  /\ \E st \in {"framing", "training", "exporting", "reading"} : At(j, "capturing", st)
  /\ Goto(j, "ready")
  /\ UNCHANGED <<vars, dir, scan, splat, written, dirVars, chainVars>>

(* CaptureReceipt::build, TwinQuality::new and SceneReceipt::build. *)
Acceptable(j) == F1(scan[j]) >= F1Gate /\ splat[j] # NoSplat

Build(j) ==
  /\ At(j, "capturing", "ready")
  /\ Acceptable(j)
  /\ CaptureSucceeds(j, TwinOf(j))
  /\ Goto(j, "built")
  /\ UNCHANGED <<dir, scan, splat, written, dirVars, chainVars>>

(* Mutation: a partial record for a twin that was never built. *)
BuildFailsSaves(j) ==
  /\ At(j, "capturing", "ready")
  /\ ~Acceptable(j)
  /\ jobs' = [jobs EXCEPT ![j] = "completed"]
  /\ pc' = [pc EXCEPT ![j] = "opening"]
  /\ UNCHANGED <<twin, disk, cache, announced, failures, faulted, pipeVars>>

BuildFails(j) ==
  /\ At(j, "capturing", "ready")
  /\ ~Acceptable(j)
  /\ CaptureFails(j)
  /\ UNCHANGED pipeVars

-----------------------------------------------------------------------------
(* Phase B: proof, anchor, events. *)

(* OsovmEngine::run looks at the day only here. *)
Simulate(j) ==
  /\ At(j, "proving", "built")
  /\ Goto(j, "simulating")
  /\ UNCHANGED <<vars, dir, scan, splat, written, dirVars, chainVars>>

(* Two attestations of the run's own commitment, and the receipt. *)
Attest(j) ==
  /\ At(j, "proving", "simulating")
  /\ Goto(j, "proven")
  /\ UNCHANGED <<vars, dir, scan, splat, written, dirVars, chainVars>>

(* It is Saturday, or the engine's answer has fewer than two policies or does
   not hold the selected one: the partial receipt, without anchor. *)
ProofFails(j) ==
  /\ At(j, "proving", "built") \/ At(j, "proving", "simulating")
  /\ Prove(j)
  /\ Goto(j, "done")
  /\ UNCHANGED <<dir, scan, splat, written, dirVars, chainVars>>

(* Mutation: the transaction is sent while the simulation runs. *)
ExecuteUnproven(j) ==
  /\ SuiKey
  /\ At(j, "proving", "simulating")
  /\ minted' = [minted EXCEPT ![j] = @ + 1]
  /\ UNCHANGED <<vars, stage, dir, scan, splat, written, dirVars, anchor, emitted>>

(* The chain executes the signed transaction. *)
Execute(j) ==
  /\ SuiKey
  /\ At(j, "proving", "proven")
  /\ minted' = [minted EXCEPT ![j] = @ + 1]
  /\ Goto(j, "executed")
  /\ UNCHANGED <<vars, dir, scan, splat, written, dirVars, anchor, emitted>>

(* Its answer arrives. *)
Anchor(j) ==
  /\ At(j, "proving", "executed")
  /\ anchor' = [anchor EXCEPT ![j] = "real"]
  /\ Goto(j, "anchored")
  /\ UNCHANGED <<vars, dir, scan, splat, written, dirVars, minted, emitted>>

(* No key, a call that failed, or an answer that was lost. *)
AnchorStub(j) ==
  /\ At(j, "proving", "proven") \/ At(j, "proving", "executed")
  /\ anchor' = [anchor EXCEPT ![j] = "stub"]
  /\ Goto(j, "anchored")
  /\ UNCHANGED <<vars, dir, scan, splat, written, dirVars, minted, emitted>>

(* Mutation: the events before the anchor. *)
EmitFirst(j) ==
  /\ At(j, "proving", "proven")
  /\ emitted' = [emitted EXCEPT ![j] = Envelopes(anchor[j])]
  /\ Prove(j)
  /\ Goto(j, "done")
  /\ UNCHANGED <<dir, scan, splat, written, dirVars, minted, anchor>>

(* The envelopes carry the receipts as they are now.  Building and routing
   them cannot fail: the bus registers both networks and its router is new.
   The status follows with no other effect in between. *)
Emit(j) ==
  /\ At(j, "proving", "anchored")
  /\ emitted' = [emitted EXCEPT ![j] = Envelopes(anchor[j])]
  /\ Prove(j)
  /\ Goto(j, "done")
  /\ UNCHANGED <<dir, scan, splat, written, dirVars, minted, anchor>>

-----------------------------------------------------------------------------

PipeStep(j) ==
  \/ SessionFails(j)
  \/ \E n \in Slots : LiveScan(j, n)
  \/ StubScan(j)
  \/ WriteFrame(j) \/ Train(j) \/ Export(j) \/ ReadPly(j) \/ SplatFails(j)
  \/ Build(j) \/ BuildFails(j)
  \/ Simulate(j) \/ Attest(j) \/ ProofFails(j)
  \/ Execute(j) \/ Anchor(j) \/ AnchorStub(j)
  \/ Emit(j)

(* The rest of the job's life.  The other way to start a job, and the retry,
   which writes a status that the pipeline never reads, are in CaptureNode. *)
OtherStep(j) ==
  /\ \/ Capture(j) \/ Begin(j) \/ Panic(j)
     \/ Open(j) \/ Write(j) \/ OpenFails(j) \/ WriteFails(j) \/ PushCache(j) \/ Announce(j)
  /\ UNCHANGED pipeVars

(* The work directories and the chain survive the process. *)
PipeRestart == Restart /\ UNCHANGED pipeVars

PipeNext ==
  \/ \E j \in Jobs : PipeStep(j) \/ OtherStep(j)
  \/ PipeRestart

PipeSpec == PipeInit /\ [][PipeNext]_pVars
-----------------------------------------------------------------------------
(* Properties. *)

(* The pipeline is an implementation of the two long steps of CaptureNode:
   what it does in between is invisible there, every way out of a phase is one
   of CaptureFails, CaptureSucceeds and Prove, and no phase is left twice. *)
PipelinesAreCaptures == Spec

(* A reconstruction is made of the job's own scan alone, or of scans of jobs
   on a device whose work directory it shares: run_splat is given the device
   id.  Nothing of another device ever enters a twin. *)
Neighbours(j) == {k \in users : dir[k] = dir[j]}

SplatStaysOnDevice ==
  \A j \in Jobs : splat[j].of \subseteq {scan[k].of : k \in Neighbours(j)}

(* Whatever fails, is lost or crashes, the chain holds at most the one Twin NFT
   that the job's proof allows (proof_chain.rs: simulation, then anchor): none
   for a job that has no twin or whose simulation failed. *)
MintIsEarned ==
  \A j \in Jobs :
    minted[j] > 0 => /\ minted[j] = 1
                     /\ twin[j] = TwinOf(j)
                     /\ stage[j] \in {"executed", "anchored", "done"}
                     /\ stage[j] = "done" => anchor[j] # "none"

(* A job is saved with an object id and its envelopes, or with neither; the
   envelopes come in the order capture, scene, session, and every copy of the
   scene was sent with the id that is saved (proof_chain.rs, "Invariants
   enforced end-to-end").  Of a partial record nothing left the job. *)
RecordTellsAnchor ==
  \A j \in Jobs :
    pc[j] \in Saving \union {"ended"} /\ j \notin failures =>
      \/ anchor[j] = "none" /\ emitted[j] = <<>> /\ minted[j] = 0
      \/ /\ anchor[j] # "none"
         /\ Len(emitted[j]) >= 3
         /\ [i \in 1..3 |-> emitted[j][i].kind] = <<"capture", "scene", "session">>
         /\ \A i \in 1..Len(emitted[j]) :
              emitted[j][i].kind \in {"scene", "post"} => emitted[j][i].sui = anchor[j]
=============================================================================
