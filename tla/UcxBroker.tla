----------------------------- MODULE UcxBroker -----------------------------
(***************************************************************************)
(* The compute broker (ucx-broker, ucx-provider, ucx-protocol and the three *)
(* adapters): a submission may first refresh the provider list, is matched  *)
(* with the local machine or, if that will not have it, with one external   *)
(* network, and is created there by one call; callers then poll it, fetch   *)
(* its receipt and cancel it.  The broker keeps its records in memory; the  *)
(* networks, which are outside the repository, go their own way, and every  *)
(* call to one may be refused, lost, or answered by something unreadable.   *)
(***************************************************************************)
EXTENDS Integers, Sequences, FiniteSets

CONSTANTS
    Jobs,           \* ids given to submissions (Uuid::new_v4, never repeated)
    Bodies,         \* bodies of POST /api/jobs
    LocalGpu,       \* what probing the machine found: [vram, count, cuda] or Absent
    LocalSize,      \* its [ram, cores, deny]
    Externals,      \* the adapters with a key, in the order of registration
    Discovering,    \* whether VANTAGE_URL is set
    CacheSecs,      \* how long a provider list is served from the cache
    FetchSecs,      \* timeout of a fetch
    Price,          \* hourly price of the instance the market offers
    Absent,         \* a value that is not there
    Followed,       \* bound: the jobs that are looked at again after their placement
    MaxTime, MaxReceipts, MaxPolls  \* bounds

Adapters == {"gpu-ai-finetune", "gpu-ai-inference", "akash-network", "vast-ai"}
Providers == {"local"} \cup Adapters
Statuses == {"pending", "running", "completed", "failed", "cancelled"}
Ended == {"done", "failed", "cancelled", "gone"}
RemoteStates == {"queued", "running"} \cup Ended
Unknown == "unknown"    \* stands for the ids "unknown" and 0 a record gets without an answer

ASSUME UcxAssumption ==
    /\ Externals \in Seq(Adapters)
    /\ \A i, k \in DOMAIN Externals : Externals[i] = Externals[k] => i = k
    /\ \A b \in Bodies : b.vram \in Int \cup {Absent} /\ b.gpus \in Nat \cup {Absent}
    /\ Discovering \in BOOLEAN
    /\ CacheSecs \in Nat /\ FetchSecs \in Nat /\ MaxTime \in Nat /\ MaxReceipts \in Nat /\ MaxPolls \in Nat
    /\ Followed \subseteq Jobs
    /\ Absent \notin Providers \cup Statuses \cup RemoteStates

VARIABLES
    now,
    cached,     \* VantageDiscovery.cached_at: when it was filled, when its content was made
    phase,      \* where a submission is: new, listing, listed, offering, asking, over
    job,        \* the parsed Job
    fetch,      \* when the fetch of a submission began; then when the list it got was made
    provider,   \* the provider it was given to
    record,     \* the adapter's record of the job
    remote,     \* the job at the network
    calls,      \* history: calls that create the job
    polls,      \* status calls between the network's answer and the write
    reported,   \* history: the last status a caller was told
    finished,   \* history: jobs their network finished
    handedOut   \* history: the receipts handed out

network == <<remote, finished>>
answers == <<polls, reported>>
ucxVars == <<now, cached, phase, job, fetch, provider, record, network, calls, answers, handedOut>>

UcxInit ==
    /\ now = 0
    /\ cached = Absent
    /\ phase = [j \in Jobs |-> "new"]
    /\ job = [j \in Jobs |-> Absent]
    /\ fetch = [j \in Jobs |-> Absent]
    /\ provider = [j \in Jobs |-> Absent]
    /\ record = [j \in Jobs |-> Absent]
    /\ remote = [j \in Jobs |-> Absent]
    /\ calls = [j \in Jobs |-> 0]
    /\ polls = {}
    /\ reported = [j \in Jobs |-> Absent]
    /\ finished = {}
    /\ handedOut = [j \in Jobs |-> {}]

-----------------------------------------------------------------------------
(* Parsing.  A count of GPUs is cut to eight bits.                         *)

Workloads == {"Inference", "Training", "Rendering", "Simulation", "CiCd", "Generic"}
ParseWorkload(s) == IF s \in Workloads THEN s ELSE "Generic"

ParseRequirements(b) ==
    [vram |-> b.vram, gpus |-> IF b.gpus = Absent THEN Absent ELSE b.gpus % 256,
     ram |-> b.ram, cores |-> b.cores, cuda |-> b.cuda = TRUE]

AllowExternal(b) == b.external # FALSE

NewJob(b) ==
    [workload |-> ParseWorkload(b.workload), needs |-> ParseRequirements(b),
     external |-> AllowExternal(b), file |-> b.file]

-----------------------------------------------------------------------------
(* What the providers offer, and which jobs they take.                     *)

LocalCapability == [tier |-> "community", gpu |-> LocalGpu, price |-> Absent]
VastCapability == [tier |-> "community", gpu |-> [vram |-> 24, count |-> 1, cuda |-> TRUE], price |-> 30]
AkashCapability == [tier |-> "community", gpu |-> Absent, price |-> Absent]
TuneCapability == [tier |-> "professional", gpu |-> [vram |-> 80, count |-> 1, cuda |-> TRUE], price |-> 49]
InferenceCapability == [tier |-> "professional", gpu |-> [vram |-> 80, count |-> 1, cuda |-> TRUE], price |-> Absent]

Capability(p) ==
    CASE p = "local" -> LocalCapability
      [] p = "vast-ai" -> VastCapability
      [] p = "akash-network" -> AkashCapability
      [] p = "gpu-ai-finetune" -> TuneCapability
      [] p = "gpu-ai-inference" -> InferenceCapability

Enough(have, need) == need = Absent \/ need <= have

\* The GPU is looked at only for jobs that state their memory.
LocalAccepts(r) ==
    /\ r.needs.vram # Absent =>
        /\ LocalGpu # Absent
        /\ r.needs.vram <= LocalGpu.vram
        /\ r.needs.cuda => LocalGpu.cuda
    /\ Enough(LocalSize.ram, r.needs.ram)
    /\ Enough(LocalSize.cores, r.needs.cores)
    /\ r.workload \notin LocalSize.deny

VastAccepts(r) == r.external /\ r.workload \in {"Training", "Inference", "Rendering"}
AkashAccepts(r) == r.external
TuneAccepts(r) == r.external /\ r.workload = "Training"
InferenceAccepts(r) == r.external /\ r.workload = "Inference"

CanAccept(p, r) ==
    CASE p = "local" -> LocalAccepts(r)
      [] p = "vast-ai" -> VastAccepts(r)
      [] p = "akash-network" -> AkashAccepts(r)
      [] p = "gpu-ai-finetune" -> TuneAccepts(r)
      [] p = "gpu-ai-inference" -> InferenceAccepts(r)

-----------------------------------------------------------------------------
(* The score of a provider, and the choice.                                *)

\* have / need against 1.5, 2.5 and 4.
VramPoints(gpu, need) ==
    CASE need = Absent -> 20
      [] need # Absent /\ (gpu = Absent \/ gpu.vram < need) -> 0
      [] OTHER -> IF 2 * gpu.vram < 3 * need THEN 40
                  ELSE IF 2 * gpu.vram < 5 * need THEN 30
                  ELSE IF gpu.vram < 4 * need THEN 20 ELSE 10

CountPoints(gpu, need) ==
    CASE need = Absent -> 10
      [] need # Absent /\ (gpu = Absent \/ gpu.count < need) -> 0
      [] OTHER -> LET left == 20 - 3 * (gpu.count - need) IN IF left > 0 THEN left ELSE 0

TierPoints(tier) == IF tier = "professional" THEN 15 ELSE 10

PricePoints(price) ==
    CASE price = Absent -> 10
      [] price # Absent /\ price <= 30 -> 15
      [] price # Absent /\ price > 30 /\ price <= 60 -> 12
      [] price # Absent /\ price > 60 -> IF price <= 150 THEN 8 ELSE 3

TrustPoints == 4    \* every provider registers as Standard

ScoreProvider(p, r) ==
    LET c == Capability(p)
    IN  VramPoints(c.gpu, r.needs.vram) + CountPoints(c.gpu, r.needs.gpus)
            + TierPoints(c.tier) + PricePoints(c.price) + TrustPoints

(* Mutant: of equal scores the last wins. *)
LaterOrBetter(p, best, r) ==
    CanAccept(p, r) /\ (best = Absent \/ ScoreProvider(p, r) >= ScoreProvider(best, r))

Better(p, best, r) ==
    CanAccept(p, r) /\ (best = Absent \/ ScoreProvider(p, r) > ScoreProvider(best, r))

TryAllocate(pool, r) ==
    LET best[n \in 0..Len(pool)] ==
            IF n = 0 THEN Absent
            ELSE IF Better(pool[n], best[n - 1], r) THEN pool[n] ELSE best[n - 1]
    IN  best[Len(pool)]

Native == <<"local">>

Match(r) ==
    IF TryAllocate(Native, r) # Absent THEN TryAllocate(Native, r)
    ELSE IF r.external THEN TryAllocate(Externals, r) ELSE Absent

-----------------------------------------------------------------------------
(* Submission.                                                             *)

(* Mutant: the list is served a second longer. *)
CacheLasts == cached # Absent /\ now - cached.at <= CacheSecs

CacheIsFresh == cached # Absent /\ now - cached.at < CacheSecs

Submit(j, b) ==
    /\ phase[j] = "new"
    /\ job' = [job EXCEPT ![j] = NewJob(b)]
    /\ IF Discovering /\ ~ CacheIsFresh
       THEN /\ phase' = [phase EXCEPT ![j] = "listing"]
            /\ fetch' = [fetch EXCEPT ![j] = now]
       ELSE /\ phase' = [phase EXCEPT ![j] = "listed"]
            /\ fetch' = [fetch EXCEPT ![j] = IF Discovering THEN cached.made ELSE Absent]
    /\ UNCHANGED <<now, cached, provider, record, network, calls, answers, handedOut>>

\* The list is stamped when it arrives.
Stamp(made) == [at |-> now, made |-> made]

\* A list that Vantage made at some time of the call, or none: a failed fetch
\* is cached as an empty list.
Fetched(j) ==
    /\ phase[j] = "listing"
    /\ \E made \in fetch[j]..now :
        /\ cached' = Stamp(made)
        /\ fetch' = [fetch EXCEPT ![j] = made]
    /\ phase' = [phase EXCEPT ![j] = "listed"]
    /\ UNCHANGED <<now, job, provider, record, network, calls, answers, handedOut>>

NewRecord(id, status) ==
    [id |-> id, status |-> status, started |-> now, model |-> FALSE]

\* The stub runner completes the job in the call.
RunLocally(j) ==
    /\ record' = [record EXCEPT ![j] = NewRecord(j, "completed")]
    /\ finished' = finished \cup {j}
    /\ reported' = [reported EXCEPT ![j] = "completed"]
    /\ phase' = [phase EXCEPT ![j] = "over"]
    /\ UNCHANGED <<remote, polls, calls>>

\* A fine-tuning job without a file is refused before the call; the market is
\* asked for an offer first.
Place(j) ==
    LET p == Match(job[j])
        to == IF p = "vast-ai" THEN "offering"
              ELSE IF p = Absent \/ (p = "gpu-ai-finetune" /\ ~ job[j].file) THEN "over" ELSE "asking"
    IN  /\ phase[j] = "listed"
        /\ provider' = [provider EXCEPT ![j] = p]
        /\ IF p = "local"
           THEN RunLocally(j)
           ELSE /\ phase' = [phase EXCEPT ![j] = to]
                /\ calls' = [calls EXCEPT ![j] = IF to = "asking" THEN @ + 1 ELSE @]
                /\ UNCHANGED <<record, network, answers>>
        /\ UNCHANGED <<now, cached, job, fetch, handedOut>>

\* find_offer: the first offer of the market, or none.
FindOffer(j, found) ==
    /\ phase[j] = "offering"
    /\ phase' = [phase EXCEPT ![j] = IF found THEN "asking" ELSE "over"]
    /\ calls' = [calls EXCEPT ![j] = IF found THEN @ + 1 ELSE @]
    /\ UNCHANGED <<now, cached, job, fetch, provider, record, network, answers, handedOut>>

\* The network takes the job in; chat completions end within the call.
Accepted(j) ==
    /\ phase[j] = "asking" /\ remote[j] = Absent
    /\ IF provider[j] = "gpu-ai-inference"
       THEN remote' = [remote EXCEPT ![j] = "done"] /\ finished' = finished \cup {j}
       ELSE remote' = [remote EXCEPT ![j] = "queued"] /\ UNCHANGED finished
    /\ UNCHANGED <<now, cached, phase, job, fetch, provider, record, calls, answers, handedOut>>

FirstStatus(p) ==
    CASE p = "gpu-ai-finetune" -> "running"
      [] p = "gpu-ai-inference" -> "completed"
      [] p \in {"vast-ai", "akash-network"} -> "pending"

\* A success whose body does not name the job is recorded without its id.
Created(j, id) ==
    /\ phase[j] = "asking" /\ remote[j] # Absent
    /\ id \in {j, Unknown}
    /\ record' = [record EXCEPT ![j] = NewRecord(id, FirstStatus(provider[j]))]
    /\ reported' = [reported EXCEPT ![j] = FirstStatus(provider[j])]
    /\ phase' = [phase EXCEPT ![j] = "over"]
    /\ UNCHANGED <<now, cached, job, fetch, provider, network, calls, polls, handedOut>>

(* Mutant: a failed call is tried again. *)
RefusedRetries(j) ==
    /\ phase[j] = "asking" /\ calls[j] < 2
    /\ calls' = [calls EXCEPT ![j] = @ + 1]
    /\ UNCHANGED <<now, cached, phase, job, fetch, provider, record, network, answers, handedOut>>

\* Refused, or the answer is lost, with or without the job running; the caller
\* gets an error and nothing is recorded.
Refused(j) ==
    /\ phase[j] = "asking"
    /\ phase' = [phase EXCEPT ![j] = "over"]
    /\ UNCHANGED <<now, cached, job, fetch, provider, record, network, calls, answers, handedOut>>

-----------------------------------------------------------------------------
(* The networks.                                                           *)

RemoteMoves(j, to) ==
    /\ remote[j] \in {"queued", "running"}
    /\ to \in IF remote[j] = "queued" THEN {"running", "failed"} ELSE {"done", "failed"}
    /\ remote' = [remote EXCEPT ![j] = to]
    /\ finished' = IF to = "done" THEN finished \cup {j} ELSE finished
    /\ UNCHANGED <<now, cached, phase, job, fetch, provider, record, calls, answers, handedOut>>

-----------------------------------------------------------------------------
(* Status.  The id is read under the lock, the call made without it, and   *)
(* the outcome written under it: calls of one job overtake each other.     *)

VastStatus(s) ==
    CASE s = "running" -> "running"
      [] s = "done" -> "completed"
      [] s = "failed" -> "failed"
      [] s = "cancelled" -> "cancelled"
      [] OTHER -> "pending"

AkashStatus(s) ==
    CASE s = "running" -> "running"
      [] s = "done" -> "completed"
      [] s = "failed" -> "failed"
      [] s = "cancelled" -> "cancelled"
      [] OTHER -> "pending"

TuneStatus(s) ==
    CASE s = "running" -> "running"
      [] s = "done" -> "completed"
      [] s = "failed" -> "failed"
      [] s = "cancelled" -> "cancelled"
      [] OTHER -> "pending"

StatusOf(p, s) ==
    CASE p = "vast-ai" -> VastStatus(s)
      [] p = "akash-network" -> AkashStatus(s)
      [] p = "gpu-ai-finetune" -> TuneStatus(s)

Polled == {"vast-ai", "akash-network", "gpu-ai-finetune"}

\* Nothing is found under an id that was not given; a body that cannot be read
\* says as little; of two calls with the same answer one is kept.  `model` is whether the body names the trained model.
Poll(j, seen, model) ==
    /\ record[j] # Absent /\ provider[j] \in Polled
    /\ Cardinality({q \in polls : q.job = j}) < MaxPolls
    /\ seen \in IF record[j].id = Unknown THEN {Unknown} ELSE {remote[j], Unknown}
    /\ model => seen = "done" /\ provider[j] = "gpu-ai-finetune"
    /\ polls' = polls \cup {[job |-> j, seen |-> seen, model |-> model]}
    /\ UNCHANGED <<now, cached, phase, job, fetch, provider, record, network, calls, reported, handedOut>>

\* The fine-tuning adapter records nothing but a completion with a model.
PollAnswered(q) ==
    LET j == q.job
        status == StatusOf(provider[j], q.seen)
    IN  /\ polls' = polls \ {q}
        /\ reported' = [reported EXCEPT ![j] = status]
        /\ record' = IF provider[j] # "gpu-ai-finetune" \/ q.model
                     THEN [record EXCEPT ![j].status = status, ![j].model = q.model]
                     ELSE record
        /\ UNCHANGED <<now, cached, phase, job, fetch, provider, network, calls, handedOut>>

-----------------------------------------------------------------------------
(* Receipts and cancellation.                                              *)

\* The receipt of a local run is made with the record.
LocalReceipt(j) == [job |-> j, at |-> record[j].started, amount |-> 0]
VastReceipt(j) == [job |-> j, at |-> now, amount |-> Price * (now - record[j].started)]
AkashReceipt(j) == [job |-> j, at |-> now, amount |-> 0]
TuneReceipt(j) == [job |-> j, at |-> now, amount |-> 0]
\* The receipt of a completion is made for an id of its own.
InferenceReceipt(j) == [job |-> Unknown, at |-> now, amount |-> 0]

ReceiptOf(j) ==
    CASE provider[j] = "local" -> LocalReceipt(j)
      [] provider[j] = "vast-ai" -> VastReceipt(j)
      [] provider[j] = "akash-network" -> AkashReceipt(j)
      [] provider[j] = "gpu-ai-finetune" -> TuneReceipt(j)
      [] provider[j] = "gpu-ai-inference" -> InferenceReceipt(j)

(* Mutant: a record is enough. *)
RecordedAtAll(j) == record[j] # Absent

HasReceipt(j) == record[j] # Absent /\ record[j].status = "completed"

Receipt(j) ==
    /\ HasReceipt(j)
    /\ Cardinality(handedOut[j]) < MaxReceipts
    /\ handedOut' = [handedOut EXCEPT ![j] = @ \cup {ReceiptOf(j)}]
    /\ UNCHANGED <<now, cached, phase, job, fetch, provider, record, network, calls, answers>>

\* The call's outcome is not looked at and the record stays.  A deployment that
\* is taken down counts as closed, an instance is gone.
VastCancelled == "gone"
AkashCancelled == {"done", "cancelled"}
TuneCancelled == "cancelled"

Cancel(j, to) ==
    /\ record[j] # Absent /\ record[j].id = j /\ remote[j] \in {"queued", "running"}
    /\ \/ provider[j] = "vast-ai" /\ to = VastCancelled
       \/ provider[j] = "akash-network" /\ to \in AkashCancelled
       \/ provider[j] = "gpu-ai-finetune" /\ to = TuneCancelled
    /\ remote' = [remote EXCEPT ![j] = to]
    /\ finished' = IF to = "done" THEN finished \cup {j} ELSE finished
    /\ UNCHANGED <<now, cached, phase, job, fetch, provider, record, calls, answers, handedOut>>

\* Records, calls and polls go with the process.
UcxRestart ==
    /\ \E j \in Jobs : phase[j] # "new"
    /\ cached' = Absent
    /\ phase' = [j \in Jobs |-> IF phase[j] = "new" THEN "new" ELSE "over"]
    /\ record' = [j \in Jobs |-> Absent]
    /\ polls' = {}
    /\ UNCHANGED <<now, job, fetch, provider, network, calls, reported, handedOut>>

\* A fetch that takes FetchSecs is cut off.
Tick ==
    /\ now < MaxTime
    /\ \A j \in Jobs : phase[j] = "listing" => now - fetch[j] < FetchSecs
    /\ now' = now + 1
    /\ UNCHANGED <<cached, phase, job, fetch, provider, record, network, calls, answers, handedOut>>

UcxNext ==
    \/ Tick \/ UcxRestart
    \/ \E q \in polls : PollAnswered(q)
    \/ \E j \in Jobs :
        \/ \E b \in Bodies : Submit(j, b)
        \/ Fetched(j) \/ Place(j) \/ Accepted(j) \/ Refused(j)
        \/ \E found \in BOOLEAN : FindOffer(j, found)
        \/ \E id \in {j, Unknown} : Created(j, id)
    \/ \E j \in Followed :
        \/ Receipt(j)
        \/ \E to \in {"running"} \cup Ended : RemoteMoves(j, to) \/ Cancel(j, to)
        \/ \E seen \in {"queued", "running", Unknown} \cup Ended, model \in BOOLEAN :
            Poll(j, seen, model)

UcxSpec == UcxInit /\ [][UcxNext]_ucxVars

-----------------------------------------------------------------------------
(* Properties.                                                             *)

UcxTypeOK ==
    /\ now \in 0..MaxTime
    /\ cached # Absent => cached.at \in 0..now /\ cached.made \in 0..cached.at
    /\ provider \in [Jobs -> Providers \cup {Absent}]
    /\ \A j \in Jobs : record[j] # Absent => record[j].status \in Statuses /\ record[j].id \in {j, Unknown}
    /\ \A j \in Jobs : record[j] # Absent => phase[j] = "over" /\ provider[j] # Absent

\* A receipt is handed out only for work that was finished: by the machine, or by
\* the network as the job's own, however polls, cancellations, lost answers and
\* restarts fall (instance.rs:209-223, deployment.rs:190-205, fine_tune.rs:141-160).
ReceiptIsEarned == \A j \in Jobs : handedOut[j] # {} => j \in finished

\* A submission makes at most one call that creates a job, over all networks,
\* and none when the machine runs it: a failure is never followed by a second
\* placement that could run, and bill, the job twice (broker.rs:37-57).
PlacedOnce == \A j \in Jobs :
    /\ calls[j] <= 1
    /\ remote[j] # Absent => calls[j] = 1
    /\ provider[j] = "local" => calls[j] = 0

\* Where a job went nobody better would have taken it, ties go to the adapter
\* registered first, and an external network got it only if the job allows it
\* and the machine would not have it (broker.rs:59-74).
Index(p) == CHOOSE i \in DOMAIN Externals : Externals[i] = p

BestWilling == \A j \in Jobs :
    LET p == provider[j]
        r == job[j]
    IN  p \in Adapters =>
        /\ r.external /\ ~ LocalAccepts(r) /\ CanAccept(p, r)
        /\ \A i \in DOMAIN Externals : CanAccept(Externals[i], r) =>
            \/ ScoreProvider(Externals[i], r) < ScoreProvider(p, r)
            \/ ScoreProvider(Externals[i], r) = ScoreProvider(p, r) /\ Index(p) <= i

\* A list served from the cache was made less than CacheSecs + FetchSecs ago,
\* although fetches overlap and the later arrival need not be the later list
\* (vantage_discovery.rs:31-46).
ListIsFresh ==
    [][\A j \in Jobs : phase[j] = "new" /\ phase'[j] = "listed" /\ Discovering
        => now - fetch'[j] < CacheSecs + FetchSecs]_ucxVars

=============================================================================
