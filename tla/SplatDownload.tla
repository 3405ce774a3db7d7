--------------------------- MODULE SplatDownload ---------------------------
(***************************************************************************)
(* A splat on its way from the node's disk to a user's: run_splat leaves   *)
(* it in a directory, the WebSocket handler of ws.rs reads it there and    *)
(* sends it in chunks, and `sovereign splat` writes what comes into a      *)
(* file, which other downloads may be writing as well.                     *)
(***************************************************************************)
EXTENDS Naturals, Sequences

CONSTANTS
    Downloads,      \* `splat` commands
    SplatTwins,     \* ids of twins
    SplatDevices,   \* ids of devices
    Paths,          \* output files
    DirOf,          \* DirOf[id]: the directory an id is turned into
    Versions,       \* exported splats, each a sequence of chunks
    NoPly, Hole     \* no file, or nothing asked yet; bytes nobody wrote

Chunks == {Hole} \cup UNION {{v[i] : i \in DOMAIN v} : v \in Versions}

ASSUME DownloadAssumption ==
    /\ DOMAIN DirOf = SplatTwins \cup SplatDevices
    /\ Versions \subseteq Seq(Chunks)
    /\ NoPly \notin Versions \cup {<<>>}

VARIABLES
    ply,            \* export/splat.ply of each directory
    stage,          \* of a download: idle, asked, opened, reported or failed
    twinOf, pathOf, \* what is asked for, and where it goes
    stream,         \* the chunks the node sends before it closes; NoPly before it has read the file
    offset,         \* how many of them were written
    local,          \* the output files
    writers         \* history: the downloads that opened a file since it was last at rest

downloadVars == <<ply, stage, twinOf, pathOf, stream, offset, local, writers>>

DownloadInit ==
    /\ ply = [d \in {DirOf[i] : i \in DOMAIN DirOf} |-> NoPly]
    /\ stage = [c \in Downloads |-> "idle"]
    /\ twinOf = [c \in Downloads |-> NoPly]
    /\ pathOf = [c \in Downloads |-> NoPly]
    /\ stream = [c \in Downloads |-> NoPly]
    /\ offset = [c \in Downloads |-> 0]
    /\ local = [p \in Paths |-> <<>>]
    /\ writers = [p \in Paths |-> {}]

\* A reconstruction is exported under the device it was captured with.
ExportPly(d, v) ==
    /\ ply[DirOf[d]] # v
    /\ ply' = [ply EXCEPT ![DirOf[d]] = v]
    /\ UNCHANGED <<stage, twinOf, pathOf, stream, offset, local, writers>>

\* Somebody puts a splat where the handler looks for it.
PlacePly(t, v) ==
    /\ ply[DirOf[t]] # v
    /\ ply' = [ply EXCEPT ![DirOf[t]] = v]
    /\ UNCHANGED <<stage, twinOf, pathOf, stream, offset, local, writers>>

AskSplat(c, t, p) ==
    /\ stage[c] = "idle"
    /\ stage' = [stage EXCEPT ![c] = "asked"]
    /\ twinOf' = [twinOf EXCEPT ![c] = t]
    /\ pathOf' = [pathOf EXCEPT ![c] = p]
    /\ UNCHANGED <<ply, stream, offset, local, writers>>

\* A missing file is sent as nothing at all.
ReadPly(c) ==
    /\ stage[c] \in {"asked", "opened"} /\ stream[c] = NoPly
    /\ LET found == ply[DirOf[twinOf[c]]]
       IN  stream' = [stream EXCEPT ![c] = IF found = NoPly THEN <<>> ELSE found]
    /\ UNCHANGED <<ply, stage, twinOf, pathOf, offset, local, writers>>

(* Mutant: an existing file is opened as it is. *)
OpenedAsItIs(file) == file

Opened(file) == <<>>

OpenFile(c) ==
    LET p == pathOf[c]
        busy == \E d \in writers[p] : stage[d] = "opened"
    IN  /\ stage[c] = "asked"
        /\ stage' = [stage EXCEPT ![c] = "opened"]
        /\ local' = [local EXCEPT ![p] = Opened(@)]
        /\ writers' = [writers EXCEPT ![p] = IF busy THEN @ \cup {c} ELSE {c}]
        /\ UNCHANGED <<ply, twinOf, pathOf, stream, offset>>

\* Writing behind the end of a file that was cut meanwhile leaves a hole.
WriteAt(file, n, chunk) ==
    [i \in 1..(IF Len(file) > n THEN Len(file) ELSE n + 1) |->
        IF i = n + 1 THEN chunk ELSE IF i <= Len(file) THEN file[i] ELSE Hole]

WriteChunk(c) ==
    /\ stage[c] = "opened" /\ stream[c] # NoPly /\ offset[c] < Len(stream[c])
    /\ local' = [local EXCEPT ![pathOf[c]] = WriteAt(@, offset[c], stream[c][offset[c] + 1])]
    /\ offset' = [offset EXCEPT ![c] = @ + 1]
    /\ UNCHANGED <<ply, stage, twinOf, pathOf, stream, writers>>

\* The node closes after the last chunk, and the command reports what it wrote.
ReportSplat(c) ==
    /\ stage[c] = "opened" /\ stream[c] # NoPly /\ offset[c] = Len(stream[c])
    /\ stage' = [stage EXCEPT ![c] = "reported"]
    /\ UNCHANGED <<ply, twinOf, pathOf, stream, offset, local, writers>>

\* A connection that is refused, or breaks without a closing frame, is an error.
DownloadFails(c) ==
    /\ stage[c] \in {"asked", "opened"}
    /\ stage' = [stage EXCEPT ![c] = "failed"]
    /\ UNCHANGED <<ply, twinOf, pathOf, stream, offset, local, writers>>

DownloadStep(c) ==
    ReadPly(c) \/ OpenFile(c) \/ WriteChunk(c) \/ ReportSplat(c) \/ DownloadFails(c)

DownloadNext ==
    \/ \E v \in Versions : (\E d \in SplatDevices : ExportPly(d, v)) \/ \E t \in SplatTwins : PlacePly(t, v)
    \/ \E c \in Downloads : (\E t \in SplatTwins, p \in Paths : AskSplat(c, t, p)) \/ DownloadStep(c)

-----------------------------------------------------------------------------
\* When every download that had a file open at the same time has reported, and
\* the node sent them the same splat, the file is that splat: no chunk of an
\* older one, no hole and no missing end, although each truncates and overwrites
\* what the others write (main.rs:1475-1497).
DownloadIsWhole == \A p \in Paths : \A c \in writers[p] :
    (\A d \in writers[p] : stage[d] = "reported" /\ stream[d] = stream[c]) => local[p] = stream[c]

=============================================================================
