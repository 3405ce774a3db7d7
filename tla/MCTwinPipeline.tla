--------------------------- MODULE MCTwinPipeline ---------------------------
(* TwinPipeline on small sets, for TLC (the twins are the data they hash), and
   TwinMerge, which works on clouds the pipeline made.  They share no state: a
   behaviour of TLC follows one of them (part). *)
EXTENDS TwinPipeline, TwinMerge, TLC

VARIABLE part

TwinsInit ==
  /\ part \in {"capture", "merge"} /\ PipeInit /\ MergeInit
  /\ part = "capture" => grid = 0

TwinsNext ==
  \/ part = "capture" /\ PipeNext /\ UNCHANGED <<part, mergeVars>>
  \/ part = "merge" /\ MergeNext /\ UNCHANGED <<part, pVars>>

TwinsSpec == TwinsInit /\ [][TwinsNext]_<<part, pVars, mergeVars>>

MCTwins == TwinData

(* A blob whose count leaves out a line, one with an unreadable line, one that
   repeats a point, and one that is no PLY file. *)
Blob(h, n, lines) == [header |-> h, count |-> n, lines |-> lines]
SomeBlobs ==
  { Blob(TRUE, 2, <<-1, 1>>), Blob(TRUE, 1, <<-4, 3>>), Blob(TRUE, 3, <<4, Unreadable, 2>>),
    Blob(TRUE, 3, <<-2, -2, 0>>), Blob(FALSE, 0, <<>>) }
SomeCoords == -4..4

Symmetry == Permutations(Jobs) \union Permutations(Dirs)
=============================================================================
