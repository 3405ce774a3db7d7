--------------------------- MODULE WitnessBroker ----------------------------
(***************************************************************************)
(* The witness broker and the swarm broker (witness-broker and             *)
(* swarm-broker, src/bin/main.rs): bundles of sensor readings,             *)
(* attestations that commit to one, and receipts of simulations.  All of   *)
(* it is memory of a process, each map under a lock of its own.            *)
(***************************************************************************)
EXTENDS Naturals, Sequences

CONSTANTS
    BundleIds,      \* ids of bundles, chosen by the devices
    Readings,       \* readings a bundle may carry; its hash tells only these apart
    Asks,           \* POST /api/attestations requests; each draws an id of its own
    Signatures,
    NoBundle,       \* no such bundle: "bundle_unknown:<id>"
    Simulations,    \* POST /api/sim/run requests
    Candidates,     \* numbers of candidates asked for
    MaxAnswers      \* bound: hashes told to clients

ASSUME WitnessAssumption == NoBundle \notin Readings /\ Candidates \subseteq Nat /\ MaxAnswers \in Nat

VARIABLES
    bundles,        \* bundle id -> readings
    asked,          \* of a request: unused, read, stored or gone
    named,          \* the bundle a request names
    attestations,   \* request -> attestation; the request stands for the id it draws
    told,           \* history: the canonical hashes clients were told
    observed,       \* history: all bundles submitted
    simulated       \* simulation -> receipt

witnessVars == <<bundles, asked, named, attestations, told, observed, simulated>>

Nothing == [status |-> "none"]

WitnessInit ==
    /\ bundles = [b \in BundleIds |-> NoBundle]
    /\ asked = [a \in Asks |-> "unused"]
    /\ named = [a \in Asks |-> NoBundle]
    /\ attestations = [a \in Asks |-> Nothing]
    /\ told = <<>>
    /\ observed = {}
    /\ simulated = [s \in Simulations |-> Nothing]

\* A bundle replaces the one with its id.
SubmitObservation(b, r) ==
    /\ bundles[b] # r
    /\ bundles' = [bundles EXCEPT ![b] = r]
    /\ observed' = observed \cup {<<b, r>>}
    /\ UNCHANGED <<asked, named, attestations, told, simulated>>

Attestation(a, b) ==
    [id |-> a, bundle |-> b, observation |-> bundles[b], status |-> "pending", signature |-> "-"]

(* Mutant: the hash covers the signature. *)
HashOfAll(t) == [id |-> t.id, observation |-> t.observation, signature |-> t.signature]

\* Id, session, observation, outcome and time; the session, the outcome and the
\* time of an attestation never change.
CanonicalHash(t) == [id |-> t.id, observation |-> t.observation]

Answers(t) == told' = Append(told, [of |-> t.id, bundle |-> t.bundle, hash |-> CanonicalHash(t)])

\* create_attestation reads the bundle under one lock and stores under another.
ReadBundle(a, b) ==
    /\ asked[a] = "unused"
    /\ asked' = [asked EXCEPT ![a] = "read"]
    /\ named' = [named EXCEPT ![a] = b]
    /\ attestations' = [attestations EXCEPT ![a] = [Attestation(a, b) EXCEPT !.status = "none"]]
    /\ UNCHANGED <<bundles, told, observed, simulated>>

StoreAttestation(a) ==
    /\ asked[a] = "read" /\ Len(told) < MaxAnswers
    /\ asked' = [asked EXCEPT ![a] = "stored"]
    /\ attestations' = [attestations EXCEPT ![a].status = "pending"]
    /\ Answers(attestations[a])
    /\ UNCHANGED <<bundles, named, observed, simulated>>

\* Whoever knows the id signs, also what was signed before.
SignAttestation(a, s) ==
    LET signed == [attestations[a] EXCEPT !.signature = s, !.status = "signed"]
    IN  /\ asked[a] = "stored" /\ Len(told) < MaxAnswers
        /\ attestations' = [attestations EXCEPT ![a] = signed]
        /\ Answers(signed)
        /\ UNCHANGED <<bundles, asked, named, observed, simulated>>

WitnessRestart ==
    /\ bundles' = [b \in BundleIds |-> NoBundle]
    /\ asked' = [a \in Asks |-> IF asked[a] = "unused" THEN "unused" ELSE "gone"]
    /\ attestations' = [a \in Asks |-> Nothing]
    /\ UNCHANGED <<named, told, observed, simulated>>

\* The stub selects a policy of any number of candidates, none included, and
\* calls a tenth of them infeasible.
RunSimulation(s, n) ==
    /\ simulated[s] = Nothing
    /\ simulated' = [simulated EXCEPT ![s] =
            [status |-> "policy_selected", candidates |-> n, feasible |-> n - (n \div 10)]]
    /\ UNCHANGED <<bundles, asked, named, attestations, told, observed>>

SwarmRestart ==
    /\ simulated' = [s \in Simulations |-> Nothing]
    /\ UNCHANGED <<bundles, asked, named, attestations, told, observed>>

WitnessNext ==
    \/ \E b \in BundleIds, r \in Readings : SubmitObservation(b, r)
    \/ \E a \in Asks :
        \/ \E b \in BundleIds : ReadBundle(a, b)
        \/ StoreAttestation(a)
        \/ \E s \in Signatures : SignAttestation(a, s)
    \/ \E s \in Simulations, n \in Candidates : RunSimulation(s, n)
    \/ WitnessRestart \/ SwarmRestart

WitnessSpec == WitnessInit /\ [][WitnessNext]_witnessVars

-----------------------------------------------------------------------------
\* Every answer about one attestation names the same hash, so what its creator
\* sent to Nostr is what the last signer signed, although its bundle is replaced
\* meanwhile and signatures overwrite each other; and the observation in it is one
\* that was submitted under the bundle's id (main.rs:91-132, 152-167).
AttestationStands ==
    /\ \A i, j \in DOMAIN told : told[i].of = told[j].of => told[i].hash = told[j].hash
    /\ \A i \in DOMAIN told : told[i].hash.observation = NoBundle \/ <<told[i].bundle, told[i].hash.observation>> \in observed

=============================================================================
