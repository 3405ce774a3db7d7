----------------------------- MODULE TwinMerge -----------------------------
(***************************************************************************)
(* Merging and comparing the point clouds of several devices:              *)
(* sovereign-pipeline/src/merge.rs and diff.rs.  A coordinate is an        *)
(* integer in the last place that write_ply prints, and one axis stands    *)
(* for three; divisions are exact.  A cloud is a bag of points: the cells  *)
(* come out of a HashMap in any order.                                     *)
(***************************************************************************)
EXTENDS Integers, Sequences, FiniteSets, FiniteSetsExt, Functions

CONSTANTS
    Coords,         \* coordinates
    Unreadable,     \* a line of a PLY file that is no point
    Blobs,          \* what devices send: [header, count, lines]
    Grids,          \* voxel sizes
    MaxPoints       \* bound of the points of a request

ASSUME MergeAssumption ==
    /\ Coords \subseteq Int /\ IsFiniteSet(Coords) /\ \A p, q \in Coords : p..q \subseteq Coords
    /\ Unreadable \notin Coords /\ IsFiniteSet(Blobs) /\ Grids \subseteq Nat /\ MaxPoints \in Nat
    /\ \A b \in Blobs : b.header \in BOOLEAN /\ b.count \in Nat /\ b.lines \in Seq(Coords \cup {Unreadable})

VARIABLES
    grid,           \* the voxel size of the requests
    scene,          \* the merged cloud, point -> how often
    contributed,    \* history: the points of the blobs that were merged
    diff            \* the last SpatialDiff

mergeVars == <<grid, scene, contributed, diff>>

NoPoints == [p \in Coords |-> 0]
NoDiff == [points |-> 0, moved |-> 0, grown |-> 0]

MergeInit ==
    /\ grid \in Grids
    /\ scene = NoPoints
    /\ contributed = {}
    /\ diff = NoDiff

SizeOf(cloud) == SumFunction(cloud)
Held(cloud) == {p \in Coords : cloud[p] > 0}

\* The lines after the header that its count covers, without the unreadable ones.
Parsed(blob) ==
    LET n == IF blob.count < Len(blob.lines) THEN blob.count ELSE Len(blob.lines)
    IN  [p \in Coords |-> Cardinality({i \in 1..n : blob.lines[i] = p})]

(* Mutant: the quotient is cut at zero instead of rounded down. *)
CellCut(p) == IF p < 0 THEN -((-p) \div grid) ELSE p \div grid

Cell(p) == p \div grid

\* The mean, as write_ply rounds it.
Rounded(sum, n) == (2 * sum + n) \div (2 * n)

Mean(cloud, S) ==
    Rounded(SumFunction([p \in S |-> p * cloud[p]]), SumFunction([p \in S |-> cloud[p]]))

\* One point for each voxel that holds any.
VoxelDownsample(cloud) ==
    IF grid = 0 THEN cloud
    ELSE LET voxels == {{q \in Held(cloud) : Cell(q) = Cell(p)} : p \in Held(cloud)}
         IN  [p \in Coords |-> Cardinality({v \in voxels : Mean(cloud, v) = p})]

\* The statistics of a cloud; an empty one has its corners and centre at zero.
PlyStats(cloud) ==
    LET held == Held(cloud)
    IN  IF held = {} THEN [points |-> 0, centroid |-> 0, low |-> 0, high |-> 0]
        ELSE [points |-> SizeOf(cloud), centroid |-> Mean(cloud, held), low |-> Min(held), high |-> Max(held)]

Distance(m, n) == IF m < n THEN n - m ELSE m - n

DiffStats(a, b) ==
    [points |-> b.points - a.points, moved |-> Distance(a.centroid, b.centroid),
     grown |-> (b.high - b.low) - (a.high - a.low)]

\* The caller sends blobs and, to add to it, the scene as it was written; it then
\* compares the two.  One blob without a header fails the request.
MergeSplats(sent, kept) ==
    LET total == [p \in Coords |->
            SumFunction([b \in sent |-> Parsed(b)[p]]) + (IF kept THEN scene[p] ELSE 0)]
    IN  /\ SizeOf(total) <= MaxPoints
        /\ sent # {} /\ \A b \in sent : b.header
        /\ scene' = VoxelDownsample(total)
        /\ contributed' = (IF kept THEN contributed ELSE {}) \cup UNION {Held(Parsed(b)) : b \in sent}
        /\ diff' = DiffStats(PlyStats(scene), PlyStats(scene'))
        /\ UNCHANGED grid

MergeNext == \E sent \in SUBSET Blobs, kept \in BOOLEAN : MergeSplats(sent, kept)

MergeSpec == MergeInit /\ [][MergeNext]_mergeVars

-----------------------------------------------------------------------------
\* However often clouds are merged into the scene, in whatever order, every point
\* ever sent keeps a point of the scene nearer than one voxel, and the scene never
\* reaches beyond what was sent (merge.rs:90-170).
SceneCoversClouds ==
    /\ \A p \in contributed : \E q \in Held(scene) : Distance(p, q) < Max({grid, 1})
    /\ contributed # {} =>
        LET stats == PlyStats(scene)
        IN  Min(contributed) <= stats.low /\ stats.high <= Max(contributed)

=============================================================================
