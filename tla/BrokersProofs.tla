--------------------------- MODULE BrokersProofs -----------------------------
(***************************************************************************)
(* Proofs about the brokers, ArpBroker, WitnessBroker and UcxBroker, for   *)
(* any numbers of agents, receipts, requests, jobs and providers.          *)
(***************************************************************************)
EXTENDS ArpBroker, WitnessBroker, UcxBroker, WellFoundedInduction, TLAPS

-----------------------------------------------------------------------------
(* The action receipt broker.  LinksPointBack is not inductive: a request  *)
(* that passed the check stores its receipt later, when the last entry of  *)
(* the list may be another one.  What survives in between is that the      *)
(* receipt it names is in the list.                                        *)

(* Lists hold written receipts, and pending requests carry them. *)
Written ==
  /\ \A a \in Agents : \A i \in 1..Len(byAgent[a]) : byAgent[a][i] \in drafted
  /\ \A p \in Posts : pc[p] \in {"checking", "storing"} => body[p] \in drafted

(* A request that passed the check names a receipt in the list of its agent. *)
CheckedLink ==
  \A p \in Posts :
    pc[p] = "storing" /\ previous[body[p]] # NoReceipt =>
      \E k \in 1..Len(byAgent[agent[body[p]]]) :
        byAgent[agent[body[p]]][k] = previous[body[p]]

PointBack ==
  \A a \in Agents : \A i \in 1..Len(byAgent[a]) :
    previous[byAgent[a][i]] # NoReceipt =>
      \E k \in 1..(i - 1) : byAgent[a][k] = previous[byAgent[a][i]]

IInv == TypeOK /\ Written /\ CheckedLink /\ PointBack

LEMMA Initially == ArpInit => IInv
BY ArpAssumption DEF ArpInit, IInv, TypeOK, Written, CheckedLink, PointBack

LEMMA Inductive == IInv /\ [ArpNext]_arpVars => IInv'
<1> SUFFICES ASSUME IInv, [ArpNext]_arpVars PROVE IInv'
  OBVIOUS
<1> USE ArpAssumption
<1>1. ASSUME NEW r \in Receipts, NEW prev \in Receipts \union {NoReceipt}, Draft(r, prev)
      PROVE  IInv'
  BY <1>1 DEF IInv, TypeOK, Written, CheckedLink, PointBack, Draft
<1>2. ASSUME NEW p \in Posts, NEW r \in Receipts, Post(p, r)
      PROVE  IInv'
  BY <1>2 DEF IInv, TypeOK, Written, CheckedLink, PointBack, Post, Goto
<1>3. ASSUME NEW p \in Posts, Check(p)
      PROVE  IInv'
  <2>1. TypeOK' /\ Written' /\ PointBack'
    BY <1>3 DEF IInv, TypeOK, Written, PointBack, Check, Goto
  <2>2. CheckedLink'
    <3> SUFFICES ASSUME NEW q \in Posts, pc'[q] = "storing", previous[body[q]] # NoReceipt
                 PROVE  \E k \in 1..Len(byAgent[agent[body[q]]]) :
                          byAgent[agent[body[q]]][k] = previous[body[q]]
      BY <1>3 DEF Check, CheckedLink
    <3>1. CASE q # p
      BY <1>3, <3>1 DEF IInv, TypeOK, CheckedLink, Check, Goto
    <3>2. CASE q = p
      <4> DEFINE list == byAgent[agent[body[q]]]
      <4>1. body[q] \in Receipts /\ list \in Seq(Receipts)
        BY <1>3, <3>2 DEF IInv, TypeOK, Written, Check
      <4>2. previous[body[q]] = LastOf(agent[body[q]])
        BY <1>3, <3>2 DEF IInv, TypeOK, Check, Goto, LinkOk
      <4>3. list # <<>> /\ list[Len(list)] = previous[body[q]]
        BY <4>2 DEF LastOf, Last
      <4>. QED
        BY <4>1, <4>3
    <3>. QED BY <3>1, <3>2
  <2>. QED BY <2>1, <2>2 DEF IInv
<1>4. ASSUME NEW p \in Posts, Store(p)
      PROVE  IInv'
  <2> DEFINE r == body[p]
             a == agent[r]
  <2>1. r \in Receipts /\ r \in drafted /\ a \in Agents /\ byAgent[a] \in Seq(Receipts)
    BY <1>4 DEF IInv, TypeOK, Written, Store
  <2>2. byAgent' = [byAgent EXCEPT ![a] = Append(byAgent[a], r)]
    BY <1>4 DEF Store
  <2>3. TypeOK' /\ Written'
    BY <1>4, <2>1, <2>2 DEF IInv, TypeOK, Written, Store, Goto
  <2>4. CheckedLink'
    <3> SUFFICES ASSUME NEW q \in Posts, q # p, pc[q] = "storing",
                        previous[body[q]] # NoReceipt
                 PROVE  \E k \in 1..Len(byAgent'[agent[body[q]]]) :
                          byAgent'[agent[body[q]]][k] = previous[body[q]]
      BY <1>4 DEF IInv, TypeOK, Store, Goto, CheckedLink
    <3> DEFINE b == agent[body[q]]
    <3>1. b \in Agents /\ byAgent[b] \in Seq(Receipts)
      BY DEF IInv, TypeOK, Written
    <3>2. PICK k \in 1..Len(byAgent[b]) : byAgent[b][k] = previous[body[q]]
      BY DEF IInv, CheckedLink
    <3>3. byAgent'[b] = IF b = a THEN Append(byAgent[b], r) ELSE byAgent[b]
      BY <2>1, <2>2, <3>1 DEF IInv, TypeOK
    <3>. QED
      BY <2>1, <3>1, <3>2, <3>3
  <2>5. PointBack'
    <3> SUFFICES ASSUME NEW b \in Agents, NEW i \in 1..Len(byAgent'[b]),
                        previous'[byAgent'[b][i]] # NoReceipt
                 PROVE  \E k \in 1..(i - 1) : byAgent'[b][k] = previous'[byAgent'[b][i]]
      BY DEF PointBack
    <3> previous' = previous
      BY <1>4 DEF Store
    <3>1. CASE b # a \/ i # Len(byAgent[a]) + 1
      <4>1. byAgent[b] \in Seq(Receipts) /\ byAgent'[b] = IF b = a THEN Append(byAgent[b], r) ELSE byAgent[b]
        BY <2>2 DEF IInv, TypeOK
      <4>2. /\ i \in 1..Len(byAgent[b])
            /\ \A k \in 1..Len(byAgent[b]) : byAgent'[b][k] = byAgent[b][k]
        BY <2>1, <3>1, <4>1
      <4>3. PICK k \in 1..(i - 1) : byAgent[b][k] = previous[byAgent[b][i]]
        BY <4>2 DEF IInv, PointBack
      <4>. QED
        BY <4>1, <4>2, <4>3
    <3>2. CASE b = a /\ i = Len(byAgent[a]) + 1
      <4>1. byAgent'[b][i] = r
        BY <2>1, <2>2, <3>2 DEF IInv, TypeOK
      <4>2. PICK k \in 1..Len(byAgent[a]) : byAgent[a][k] = previous[r]
        BY <1>4, <4>1 DEF IInv, CheckedLink, Store
      <4>. QED
        BY <2>1, <2>2, <3>2, <4>1, <4>2 DEF IInv, TypeOK
    <3>. QED BY <3>1, <3>2
  <2>. QED BY <2>3, <2>4, <2>5 DEF IInv
<1>5. CASE ArpRestart
  BY <1>5 DEF IInv, TypeOK, Written, CheckedLink, PointBack, ArpRestart
<1>6. CASE UNCHANGED arpVars
  BY <1>6 DEF IInv, TypeOK, Written, CheckedLink, PointBack, arpVars
<1>. QED
  BY <1>1, <1>2, <1>3, <1>4, <1>5, <1>6 DEF ArpNext

(* No list names a receipt that is not before it (Check, Store): for any number
   of agents, receipts and concurrent requests, across restarts. *)
THEOREM LinkTheorem == ArpSpec => []LinksPointBack
<1>1. IInv => LinksPointBack
  <2> SUFFICES ASSUME IInv, NEW a \in Agents, NEW i \in DOMAIN byAgent[a],
                      previous[byAgent[a][i]] # NoReceipt
               PROVE  \E k \in 1..(i - 1) : byAgent[a][k] = previous[byAgent[a][i]]
    BY DEF LinksPointBack
  <2>1. DOMAIN byAgent[a] = 1..Len(byAgent[a])
    BY DEF IInv, TypeOK
  <2>. QED
    BY <2>1 DEF IInv, PointBack
<1>. QED
  BY <1>1, Initially, Inductive, PTL DEF ArpSpec

(* The states of the broker are well formed. *)
THEOREM TypeTheorem == ArpSpec => []TypeOK
<1>1. IInv => TypeOK
  BY DEF IInv
<1>. QED
  BY <1>1, Initially, Inductive, PTL DEF ArpSpec
-----------------------------------------------------------------------------
(* The witness broker.  That all answers agree is not inductive: the next  *)
(* answer is made from the attestation, so every answer must agree with    *)
(* the attestation for as long as there is one, and nothing may be         *)
(* answered about one that is gone.                                        *)

Observations == Readings \cup {NoBundle}
Records == [id : Asks, bundle : BundleIds, observation : Observations,
            status : {"none", "pending", "signed"}, signature : Signatures \cup {"-"}]
Hashes == [id : Asks, observation : Observations]
Said == [of : Asks, bundle : BundleIds, hash : Hashes]

WitnessTypeOK ==
    /\ bundles \in [BundleIds -> Observations]
    /\ asked \in [Asks -> {"unused", "read", "stored", "gone"}]
    /\ DOMAIN attestations = Asks
    /\ \A a \in Asks : asked[a] \in {"read", "stored"} => attestations[a] \in Records
    /\ told \in Seq(Said)

Submitted(b, r) == r = NoBundle \/ <<b, r>> \in observed

(* What a broker holds was submitted under the id it holds it under. *)
HeldWasSubmitted ==
    /\ \A b \in BundleIds : Submitted(b, bundles[b])
    /\ \A a \in Asks : asked[a] \in {"read", "stored"} =>
        attestations[a].id = a /\ Submitted(attestations[a].bundle, attestations[a].observation)

(* An answer is about a request that was stored, and what it says of the
   attestation is what the attestation still says. *)
AnswerAgrees ==
    \A i \in 1..Len(told) :
        LET a == told[i].of
        IN  /\ asked[a] \in {"stored", "gone"}
            /\ told[i].hash.id = a
            /\ asked[a] = "stored" => told[i].hash = CanonicalHash(attestations[a])

OneHash == \A i, k \in 1..Len(told) : told[i].of = told[k].of => told[i].hash = told[k].hash

ToldWasSubmitted == \A i \in 1..Len(told) : Submitted(told[i].bundle, told[i].hash.observation)

WInv == WitnessTypeOK /\ HeldWasSubmitted /\ AnswerAgrees /\ OneHash /\ ToldWasSubmitted

LEMMA WitnessInitially == WitnessInit => WInv
BY DEF WitnessInit, WInv, WitnessTypeOK, HeldWasSubmitted, AnswerAgrees, OneHash,
       ToldWasSubmitted, Submitted, Observations, Hashes

(* Telling a client about a held attestation keeps all answers in agreement. *)
LEMMA AnswerKeeps ==
    ASSUME WInv, NEW a \in Asks, NEW t \in Records, Answers(t), t.id = a,
           asked[a] \in {"read", "stored"}, asked'[a] = "stored",
           \A c \in Asks \ {a} : asked'[c] = asked[c] /\ attestations'[c] = attestations[c],
           CanonicalHash(attestations'[a]) = CanonicalHash(attestations[a]),
           CanonicalHash(t) = CanonicalHash(attestations[a]),
           Submitted(t.bundle, t.observation), observed' = observed
    PROVE  /\ told' \in Seq(Said)
           /\ AnswerAgrees' /\ OneHash' /\ ToldWasSubmitted'
<1> DEFINE new == [of |-> t.id, bundle |-> t.bundle, hash |-> CanonicalHash(t)]
<1>1. told' = Append(told, new) /\ new \in Said
  BY DEF Answers, Records, Said, Hashes, CanonicalHash
<1>2. told \in Seq(Said)
  BY DEF WInv, WitnessTypeOK
<1> HIDE DEF new
<1>3. /\ told' \in Seq(Said)
      /\ Len(told') = Len(told) + 1 /\ told'[Len(told')] = new
      /\ \A i \in 1..Len(told) : told'[i] = told[i]
  BY <1>1, <1>2
<1>4. \A i \in 1..Len(told') : i \in 1..Len(told) \/ i = Len(told')
  BY <1>2, <1>3
<1>5. new.of = a /\ new.hash.id = a /\ new.hash = CanonicalHash(attestations[a])
      /\ Submitted(new.bundle, new.hash.observation)
  BY DEF new, CanonicalHash
<1>6. AnswerAgrees'
  <2> SUFFICES ASSUME NEW i \in 1..Len(told')
               PROVE  /\ asked'[told'[i].of] \in {"stored", "gone"}
                      /\ told'[i].hash.id = told'[i].of
                      /\ asked'[told'[i].of] = "stored" =>
                            told'[i].hash = CanonicalHash(attestations'[told'[i].of])
    BY DEF AnswerAgrees, CanonicalHash
  <2>1. CASE i = Len(told')
    BY <1>3, <1>5, <2>1
  <2>2. CASE i \in 1..Len(told)
    <3>1. told'[i] = told[i] /\ told[i] \in Said
      BY <1>2, <1>3, <2>2
    <3>2. asked[told[i].of] \in {"stored", "gone"} /\ told[i].hash.id = told[i].of
          /\ (asked[told[i].of] = "stored" => told[i].hash = CanonicalHash(attestations[told[i].of]))
      BY <2>2 DEF WInv, AnswerAgrees
    <3>. QED BY <3>1, <3>2 DEF WInv, WitnessTypeOK, Said
  <2>. QED BY <1>4, <2>1, <2>2
<1>7. \A i \in 1..Len(told) : told[i].of = a => told[i].hash = CanonicalHash(attestations[a])
  BY DEF WInv, AnswerAgrees
<1>8. OneHash'
  BY <1>3, <1>4, <1>5, <1>7 DEF WInv, OneHash
<1>9. ToldWasSubmitted'
  BY <1>3, <1>4, <1>5 DEF WInv, ToldWasSubmitted, Submitted
<1>. QED BY <1>3, <1>6, <1>8, <1>9

LEMMA WitnessInductive == WInv /\ [WitnessNext]_witnessVars => WInv'
<1> SUFFICES ASSUME WInv, [WitnessNext]_witnessVars PROVE WInv'
  OBVIOUS
<1>1. ASSUME NEW b \in BundleIds, NEW r \in Readings, SubmitObservation(b, r)
      PROVE  WInv'
  BY <1>1 DEF SubmitObservation, WInv, WitnessTypeOK, HeldWasSubmitted, AnswerAgrees, OneHash,
       ToldWasSubmitted, Submitted, Observations, CanonicalHash
<1>2. ASSUME NEW a \in Asks, NEW b \in BundleIds, ReadBundle(a, b)
      PROVE  WInv'
  <2> DEFINE t == [Attestation(a, b) EXCEPT !.status = "none"]
  <2>1. t \in Records /\ t.id = a /\ Submitted(t.bundle, t.observation)
    BY DEF WInv, WitnessTypeOK, HeldWasSubmitted, Attestation, Records
  <2>2. attestations' = [attestations EXCEPT ![a] = t]
    BY <1>2 DEF ReadBundle
  <2> HIDE DEF t
  <2>3. WitnessTypeOK' /\ HeldWasSubmitted'
    BY <1>2, <2>1, <2>2 DEF ReadBundle, WInv, WitnessTypeOK, HeldWasSubmitted, Submitted
  <2>4. AnswerAgrees'
    <3> SUFFICES ASSUME NEW i \in 1..Len(told)
                 PROVE  /\ asked'[told[i].of] \in {"stored", "gone"}
                        /\ told[i].hash.id = told[i].of
                        /\ asked'[told[i].of] = "stored" =>
                              told[i].hash = CanonicalHash(attestations'[told[i].of])
      BY <1>2 DEF ReadBundle, AnswerAgrees, CanonicalHash
    <3>1. told[i] \in Said
      BY DEF WInv, WitnessTypeOK
    <3>2. told[i].of # a
      BY <1>2, <3>1 DEF ReadBundle, WInv, AnswerAgrees, Said
    <3>. QED
      BY <1>2, <2>2, <3>1, <3>2 DEF ReadBundle, WInv, WitnessTypeOK, AnswerAgrees, Said
  <2>. QED BY <1>2, <2>3, <2>4 DEF ReadBundle, WInv, OneHash, ToldWasSubmitted, Submitted
<1>3. ASSUME NEW a \in Asks, StoreAttestation(a)
      PROVE  WInv'
  <2> DEFINE t == attestations[a]
             u == [attestations[a] EXCEPT !.status = "pending"]
  <2>1. t \in Records /\ t.id = a /\ Submitted(t.bundle, t.observation)
    BY <1>3 DEF StoreAttestation, WInv, WitnessTypeOK, HeldWasSubmitted
  <2>2. u \in Records /\ u.id = a /\ Submitted(u.bundle, u.observation)
        /\ CanonicalHash(u) = CanonicalHash(t)
    BY <2>1 DEF Records, CanonicalHash
  <2>3. attestations' = [attestations EXCEPT ![a] = u] /\ asked' = [asked EXCEPT ![a] = "stored"]
    BY <1>3 DEF StoreAttestation
  <2> HIDE DEF u
  <2>4. /\ told' \in Seq(Said)
        /\ AnswerAgrees' /\ OneHash' /\ ToldWasSubmitted'
    <3>1. Answers(t) /\ asked[a] = "read" /\ observed' = observed
      BY <1>3 DEF StoreAttestation
    <3>2. asked'[a] = "stored" /\ attestations'[a] = u
          /\ \A c \in Asks \ {a} : asked'[c] = asked[c] /\ attestations'[c] = attestations[c]
      BY <2>3 DEF WInv, WitnessTypeOK
    <3>. QED BY <2>1, <2>2, <3>1, <3>2, AnswerKeeps
  <2>5. UNCHANGED <<bundles, observed>>
    BY <1>3 DEF StoreAttestation
  <2>6. WitnessTypeOK'
    BY <2>2, <2>3, <2>4, <2>5 DEF WInv, WitnessTypeOK
  <2>7. HeldWasSubmitted'
    BY <1>3, <2>2, <2>3, <2>5 DEF StoreAttestation, WInv, WitnessTypeOK, HeldWasSubmitted, Submitted
  <2>. QED BY <2>4, <2>6, <2>7 DEF WInv
<1>4. ASSUME NEW a \in Asks, NEW s \in Signatures, SignAttestation(a, s)
      PROVE  WInv'
  <2> DEFINE u == [attestations[a] EXCEPT !.signature = s, !.status = "signed"]
  <2>1. attestations[a] \in Records /\ attestations[a].id = a
        /\ Submitted(attestations[a].bundle, attestations[a].observation)
    BY <1>4 DEF SignAttestation, WInv, WitnessTypeOK, HeldWasSubmitted
  <2>2. u \in Records /\ u.id = a /\ Submitted(u.bundle, u.observation)
        /\ CanonicalHash(u) = CanonicalHash(attestations[a])
    BY <2>1 DEF Records, CanonicalHash
  <2>3. attestations' = [attestations EXCEPT ![a] = u] /\ Answers(u)
    BY <1>4 DEF SignAttestation
  <2> HIDE DEF u
  <2>4. /\ told' \in Seq(Said)
        /\ AnswerAgrees' /\ OneHash' /\ ToldWasSubmitted'
    <3>1. asked[a] = "stored" /\ asked' = asked /\ observed' = observed
      BY <1>4 DEF SignAttestation
    <3>2. attestations'[a] = u /\ \A c \in Asks \ {a} : attestations'[c] = attestations[c]
      BY <2>3 DEF WInv, WitnessTypeOK
    <3>. QED BY <2>2, <2>3, <3>1, <3>2, AnswerKeeps
  <2>5. WitnessTypeOK' /\ HeldWasSubmitted'
    BY <1>4, <2>2, <2>3, <2>4 DEF SignAttestation, WInv, WitnessTypeOK, HeldWasSubmitted, Submitted
  <2>. QED BY <2>4, <2>5 DEF WInv
<1>5. ASSUME NEW s \in Simulations, NEW n \in Candidates, RunSimulation(s, n)
      PROVE  WInv'
  BY <1>5 DEF RunSimulation, WInv, WitnessTypeOK, HeldWasSubmitted, AnswerAgrees, OneHash,
       ToldWasSubmitted, Submitted, CanonicalHash
<1>6. CASE WitnessRestart
  <2>1. \A i \in 1..Len(told) : told[i] \in Said
    BY DEF WInv, WitnessTypeOK
  <2>2. WitnessTypeOK' /\ HeldWasSubmitted'
    BY <1>6 DEF WitnessRestart, WInv, WitnessTypeOK, HeldWasSubmitted, Submitted, Observations
  <2>3. AnswerAgrees'
    BY <1>6, <2>1 DEF WitnessRestart, WInv, WitnessTypeOK, AnswerAgrees, CanonicalHash, Said
  <2>. QED BY <1>6, <2>2, <2>3 DEF WitnessRestart, WInv, OneHash, ToldWasSubmitted, Submitted
<1>7. CASE SwarmRestart \/ UNCHANGED witnessVars
  BY <1>7 DEF SwarmRestart, witnessVars, WInv, WitnessTypeOK, HeldWasSubmitted, AnswerAgrees, OneHash,
       ToldWasSubmitted, Submitted, CanonicalHash
<1>. QED
  BY <1>1, <1>2, <1>3, <1>4, <1>5, <1>6, <1>7 DEF WitnessNext

(* All answers about one attestation name one hash, and what it covers was
   submitted under the id of its bundle (create_attestation, sign_attestation):
   for any number of requests, signers and replaced bundles, across restarts. *)
THEOREM AttestationTheorem == WitnessSpec => []AttestationStands
<1>1. WInv => AttestationStands
  <2> SUFFICES ASSUME WInv PROVE AttestationStands
    OBVIOUS
  <2>1. DOMAIN told = 1..Len(told)
    BY DEF WInv, WitnessTypeOK
  <2>. QED
    BY <2>1 DEF WInv, OneHash, ToldWasSubmitted, Submitted, AttestationStands
<1>. QED
  BY <1>1, WitnessInitially, WitnessInductive, PTL DEF WitnessSpec

-----------------------------------------------------------------------------
(* The compute broker's choice.  try_allocate goes through the providers;  *)
(* what it has found after n of them is found by the smallest n for which  *)
(* the claim fails.                                                        *)

(* < on the naturals, as a set of pairs. *)
Less == {ss \in Nat \X Nat : ss[1] < ss[2]}

LEMMA Smallest ==
  ASSUME NEW S \in SUBSET Nat, S # {}
  PROVE  \E m \in S : \A k \in S : m <= k
<1>1. IsWellFoundedOn(Less, Nat)
  BY NatLessThanWellFounded DEF OpToRel, Less
<1>2. PICK m \in S : \A y \in S : <<y, m>> \notin Less
  BY <1>1, WFMin
<1>3. SUFFICES ASSUME NEW k \in S, k < m PROVE FALSE
  OBVIOUS
<1>4. <<k, m>> \in Nat \X Nat /\ <<k, m>>[1] < <<k, m>>[2]
  BY <1>3
<1>. QED
  BY <1>2, <1>4 DEF Less

(* best, in try_allocate, after each of the first m providers. *)
Chooses(f, pool, r, m) ==
    f = [n \in 0..m |-> IF n = 0 THEN Absent
                        ELSE IF Better(pool[n], f[n - 1], r) THEN pool[n] ELSE f[n - 1]]

LEMMA ChoiceExists ==
  ASSUME NEW pool, NEW r, NEW m \in Nat
  PROVE  \E f : Chooses(f, pool, r, m)
<1> DEFINE S == {n \in Nat : ~ \E f : Chooses(f, pool, r, n)}
<1>1. SUFFICES ASSUME S # {} PROVE FALSE
  OBVIOUS
<1>2. PICK n \in S : \A k \in S : n <= k
  BY <1>1, Smallest
<1>3. CASE n = 0
  <2>1. Chooses([k \in 0..0 |-> Absent], pool, r, 0)
    BY DEF Chooses
  <2>. QED BY <1>3, <2>1
<1>4. CASE n # 0
  <2>1. n - 1 \in Nat /\ n - 1 \notin S
    BY <1>2, <1>4
  <2>2. PICK f : Chooses(f, pool, r, n - 1)
    BY <2>1
  <2> DEFINE new == IF Better(pool[n], f[n - 1], r) THEN pool[n] ELSE f[n - 1]
             g == [k \in 0..n |-> IF k = n THEN new ELSE f[k]]
  <2>3. Chooses(g, pool, r, n)
    <3>1. \A k \in 0..(n - 1) : f[k] = IF k = 0 THEN Absent
                 ELSE IF Better(pool[k], f[k - 1], r) THEN pool[k] ELSE f[k - 1]
      BY <2>1, <2>2 DEF Chooses
    <3>2. \A k \in 0..n : g[k] = IF k = 0 THEN Absent
                 ELSE IF Better(pool[k], g[k - 1], r) THEN pool[k] ELSE g[k - 1]
      BY <1>4, <2>1, <3>1
    <3>. QED BY <3>2 DEF Chooses
  <2>. QED BY <2>3
<1>. QED BY <1>3, <1>4

LEMMA ChosenStep ==
  ASSUME NEW pool, NEW r, Len(pool) \in Nat
  PROVE  \E f : /\ Chooses(f, pool, r, Len(pool))
                /\ TryAllocate(pool, r) = f[Len(pool)]
<1> DEFINE f == CHOOSE f : Chooses(f, pool, r, Len(pool))
<1>1. Chooses(f, pool, r, Len(pool))
  BY ChoiceExists
<1>2. TryAllocate(pool, r) = f[Len(pool)]
  BY DEF TryAllocate, Chooses
<1>. QED BY <1>1, <1>2

(* p stands at k in the pool, and of its first n providers none is better. *)
Best(pool, r, n, k) ==
  /\ CanAccept(pool[k], r)
  /\ \A i \in 1..n : CanAccept(pool[i], r) =>
       \/ ScoreProvider(pool[i], r) < ScoreProvider(pool[k], r)
       \/ ScoreProvider(pool[i], r) = ScoreProvider(pool[k], r) /\ k <= i

NoneOrBest(p, pool, r, n) ==
  \/ p = Absent /\ \A i \in 1..n : ~ CanAccept(pool[i], r)
  \/ \E k \in 1..n : p = pool[k] /\ Best(pool, r, n, k)

(* try_allocate: of the providers that take the job, the first of the best. *)
LEMMA AllocatesBest ==
  ASSUME NEW r, NEW pool \in Seq(Providers), \A i \in 1..Len(pool) : pool[i] # Absent,
         Len(pool) = 1 \/ \A i \in 1..Len(pool) : ScoreProvider(pool[i], r) \in Int
  PROVE  NoneOrBest(TryAllocate(pool, r), pool, r, Len(pool))
<1>1. Len(pool) \in Nat
  OBVIOUS
<1>2. PICK f : Chooses(f, pool, r, Len(pool)) /\ TryAllocate(pool, r) = f[Len(pool)]
  BY <1>1, ChosenStep
<1>3. \A n \in 0..Len(pool) : f[n] = IF n = 0 THEN Absent
                 ELSE IF Better(pool[n], f[n - 1], r) THEN pool[n] ELSE f[n - 1]
  BY <1>2 DEF Chooses
<1> DEFINE S == {n \in 0..Len(pool) : ~ NoneOrBest(f[n], pool, r, n)}
<1>4. SUFFICES ASSUME S # {} PROVE FALSE
  BY <1>1, <1>2
<1>5. PICK n \in S : \A k \in S : n <= k
  <2>1. S \in SUBSET Nat
    BY <1>1
  <2>. QED BY <1>4, <2>1, Smallest
<1>6. CASE n = 0
  BY <1>3, <1>5, <1>6 DEF NoneOrBest
<1>7. CASE n # 0
  <2>1. n \in 1..Len(pool) /\ NoneOrBest(f[n - 1], pool, r, n - 1)
    BY <1>1, <1>5, <1>7
  <2>2. f[n] = IF Better(pool[n], f[n - 1], r) THEN pool[n] ELSE f[n - 1]
    BY <1>3, <2>1
  <2>3. CASE f[n - 1] = Absent /\ \A i \in 1..(n - 1) : ~ CanAccept(pool[i], r)
    <3>1. CASE CanAccept(pool[n], r)
      <4>1. \A i \in 1..n : CanAccept(pool[i], r) => i = n
        BY <2>1, <2>3
      <4>. QED BY <1>5, <2>1, <2>2, <2>3, <3>1, <4>1 DEF Better, NoneOrBest, Best
    <3>2. CASE ~ CanAccept(pool[n], r)
      BY <1>5, <2>1, <2>2, <2>3, <3>2 DEF Better, NoneOrBest
    <3>. QED BY <3>1, <3>2
  <2>4. ASSUME NEW k \in 1..(n - 1), f[n - 1] = pool[k], Best(pool, r, n - 1, k)
        PROVE  FALSE
    <3>1. k \in 1..Len(pool) /\ pool[k] # Absent
      BY <2>1
    <3>2. ScoreProvider(pool[k], r) \in Int /\ ScoreProvider(pool[n], r) \in Int
          /\ \A i \in 1..(n - 1) : ScoreProvider(pool[i], r) \in Int
      BY <2>1, <3>1
    <3>3. CASE Better(pool[n], pool[k], r)
      <4>1. f[n] = pool[n] /\ CanAccept(pool[n], r)
            /\ ScoreProvider(pool[n], r) > ScoreProvider(pool[k], r)
        BY <2>2, <2>4, <3>1, <3>3 DEF Better
      <4>2. Best(pool, r, n, n)
        BY <2>1, <2>4, <3>2, <4>1 DEF Best
      <4>. QED BY <1>5, <2>1, <4>1, <4>2 DEF NoneOrBest
    <3>4. CASE ~ Better(pool[n], pool[k], r)
      <4>1. f[n] = pool[k] /\ (CanAccept(pool[n], r) =>
              ScoreProvider(pool[n], r) <= ScoreProvider(pool[k], r))
        BY <2>2, <2>4, <3>1, <3>2, <3>4 DEF Better
      <4>2. Best(pool, r, n, k)
        BY <2>1, <2>4, <3>2, <4>1 DEF Best
      <4>. QED BY <1>5, <2>1, <4>1, <4>2 DEF NoneOrBest
    <3>. QED BY <3>3, <3>4
  <2>. QED BY <2>1, <2>3, <2>4 DEF NoneOrBest
<1>. QED BY <1>6, <1>7

JobOK(r) ==
  /\ r.needs.vram \in Int \cup {Absent} /\ r.needs.gpus \in Int \cup {Absent}
  /\ r.external \in BOOLEAN

LEMMA ScoreIsInt ==
  ASSUME NEW r, JobOK(r), NEW p \in Adapters
  PROVE  ScoreProvider(p, r) \in Int
<1> DEFINE c == Capability(p)
<1>1. c \in {VastCapability, AkashCapability, TuneCapability, InferenceCapability}
  BY DEF Adapters, Capability
<1>2. c.gpu = Absent \/ (c.gpu.vram \in Int /\ c.gpu.count \in Int)
  BY <1>1 DEF VastCapability, AkashCapability, TuneCapability, InferenceCapability
<1>3. c.price = Absent \/ c.price \in Int
  BY <1>1 DEF VastCapability, AkashCapability, TuneCapability, InferenceCapability
<1> HIDE DEF c
<1>4. VramPoints(c.gpu, r.needs.vram) \in Int
  BY <1>2 DEF VramPoints, JobOK
<1>5. CountPoints(c.gpu, r.needs.gpus) \in Int
  BY <1>2 DEF CountPoints, JobOK
<1>6. TierPoints(c.tier) \in Int /\ PricePoints(c.price) \in Int /\ TrustPoints \in Int
  BY <1>3 DEF TierPoints, PricePoints, TrustPoints
<1>. QED BY <1>4, <1>5, <1>6 DEF ScoreProvider, c

Willing(p, r) ==
  p \in Adapters =>
    /\ r.external /\ ~ LocalAccepts(r) /\ CanAccept(p, r)
    /\ \A i \in DOMAIN Externals : CanAccept(Externals[i], r) =>
        \/ ScoreProvider(Externals[i], r) < ScoreProvider(p, r)
        \/ ScoreProvider(Externals[i], r) = ScoreProvider(p, r) /\ Index(p) <= i

(* submit: where a well-formed job goes. *)
LEMMA MatchIsWilling ==
  ASSUME NEW r, JobOK(r)
  PROVE  Match(r) \in Providers \cup {Absent} /\ Willing(Match(r), r)
<1>1. NoneOrBest(TryAllocate(Native, r), Native, r, 1)
  <2>1. Native \in Seq(Providers) /\ Len(Native) = 1 /\ Native[1] # Absent
    BY UcxAssumption DEF Native, Providers
  <2>2. \A i \in 1..Len(Native) : Native[i] # Absent
    BY <2>1
  <2>. QED BY <2>1, <2>2, AllocatesBest
<1>2. TryAllocate(Native, r) \in {"local", Absent}
      /\ (TryAllocate(Native, r) = Absent => ~ LocalAccepts(r))
  <2>1. Native[1] = "local" /\ (CanAccept("local", r) <=> LocalAccepts(r))
    BY DEF Native, CanAccept
  <2>2. CASE TryAllocate(Native, r) = Absent /\ \A i \in 1..1 : ~ CanAccept(Native[i], r)
    <3>1. ~ CanAccept(Native[1], r)
      BY <2>2
    <3>. QED BY <2>1, <2>2, <3>1
  <2>3. ASSUME NEW k \in 1..1, TryAllocate(Native, r) = Native[k]
        PROVE  TryAllocate(Native, r) = "local"
    BY <2>1, <2>3
  <2>. QED BY <1>1, <2>2, <2>3, UcxAssumption DEF NoneOrBest, Providers
<1>3. Externals \in Seq(Providers) /\ \A i \in 1..Len(Externals) : Externals[i] \in Adapters
  BY UcxAssumption DEF Providers
<1>4. NoneOrBest(TryAllocate(Externals, r), Externals, r, Len(Externals))
  <2>1. \A i \in 1..Len(Externals) : Externals[i] # Absent /\ ScoreProvider(Externals[i], r) \in Int
    BY <1>3, UcxAssumption, ScoreIsInt DEF Providers
  <2>. QED BY <1>3, <2>1, AllocatesBest
<1>5. CASE Match(r) \in {"local", Absent}
  BY <1>5, UcxAssumption DEF Providers, Adapters, Willing
<1>6. CASE Match(r) \notin {"local", Absent}
  <2>1. r.external /\ ~ LocalAccepts(r) /\ Match(r) = TryAllocate(Externals, r)
    BY <1>2, <1>6 DEF Match
  <2>2. PICK k \in 1..Len(Externals) : Match(r) = Externals[k] /\ Best(Externals, r, Len(Externals), k)
    BY <1>4, <1>6, <2>1 DEF NoneOrBest
  <2>3. DOMAIN Externals = 1..Len(Externals)
    BY <1>3
  <2>4. Index(Match(r)) = k
    BY <2>2, <2>3, UcxAssumption DEF Index
  <2>. QED
    BY <1>3, <2>1, <2>2, <2>3, <2>4 DEF Best, Willing, Providers
<1>. QED BY <1>5, <1>6


-----------------------------------------------------------------------------
(* The compute broker's records.  Polls overtake each other, so what a     *)
(* poll saw must stay true until its answer is written, whatever happened  *)
(* to the job since; and a lost answer leaves a job no record tells of,    *)
(* so how often a job was created shows only in how far it came.           *)

Entries == [id : Jobs \cup {Unknown}, status : Statuses, started : Nat, model : BOOLEAN]

UcxShape ==
  /\ phase \in [Jobs -> {"new", "listing", "listed", "offering", "asking", "over"}]
  /\ provider \in [Jobs -> Providers \cup {Absent}]
  /\ calls \in [Jobs -> 0..1]
  /\ DOMAIN job = Jobs /\ DOMAIN fetch = Jobs /\ DOMAIN record = Jobs
  /\ DOMAIN remote = Jobs /\ DOMAIN handedOut = Jobs
  /\ \A j \in Jobs : record[j] # Absent => record[j] \in Entries

(* The list in the cache was made at most FetchSecs before it came. *)
Dated ==
  /\ now \in 0..MaxTime
  /\ cached # Absent =>
       /\ cached.at \in 0..now /\ cached.made \in 0..cached.at
       /\ cached.at - cached.made <= FetchSecs
  /\ \A j \in Jobs : phase[j] = "listing" =>
       fetch[j] \in 0..now /\ now - fetch[j] <= FetchSecs

(* How far a submission came tells how many calls it made. *)
CallsCount ==
  \A j \in Jobs :
    /\ phase[j] \in {"new", "listing", "listed"} => provider[j] = Absent
    /\ phase[j] = "offering" => provider[j] = "vast-ai"
    /\ phase[j] = "asking" => provider[j] \in Adapters /\ calls[j] = 1
    /\ phase[j] \notin {"asking", "over"} => calls[j] = 0
    /\ remote[j] # Absent => calls[j] = 1
    /\ provider[j] = "local" => calls[j] = 0 /\ phase[j] = "over"

(* Every job goes where submit sends it. *)
Matched ==
  \A j \in Jobs :
    /\ phase[j] # "new" => JobOK(job[j])
    /\ provider[j] # Absent => phase[j] # "new" /\ provider[j] = Match(job[j])

(* What anybody takes for a completion is one. *)
CompletionIsTrue ==
  /\ \A j \in Jobs :
       /\ record[j] # Absent => phase[j] = "over" /\ provider[j] # Absent /\ record[j].id \in {j, Unknown}
       /\ record[j] # Absent /\ record[j].status = "completed" => j \in finished
       /\ remote[j] = "done" => j \in finished
       /\ provider[j] = "gpu-ai-inference" /\ remote[j] # Absent => remote[j] = "done"
       /\ handedOut[j] # {} => j \in finished
  /\ \A q \in polls :
       /\ q.job \in Jobs /\ q.model \in BOOLEAN /\ record[q.job] \in Entries
       /\ phase[q.job] = "over" /\ provider[q.job] \in Polled /\ record[q.job].id \in {q.job, Unknown}
       /\ q.seen = "done" => q.job \in finished

UcxInv == UcxShape /\ Dated /\ CallsCount /\ Matched /\ CompletionIsTrue

LEMMA UcxInitially == UcxInit => UcxInv
<1> USE UcxAssumption
<1> SUFFICES ASSUME UcxInit PROVE UcxInv
  OBVIOUS
<1>1. UcxShape /\ Dated /\ Matched
  BY DEF UcxInit, UcxShape, Dated, Matched
<1>2. CallsCount /\ CompletionIsTrue
  BY DEF UcxInit, CallsCount, CompletionIsTrue, Providers, RemoteStates, Ended
<1>. QED BY <1>1, <1>2 DEF UcxInv

LEMMA SubmitStep ==
  ASSUME UcxInv, NEW j \in Jobs, NEW b \in Bodies, Submit(j, b)
  PROVE  UcxInv'
<1> USE UcxAssumption DEF network, answers
<1>1. JobOK(NewJob(b))
  BY DEF JobOK, NewJob, ParseRequirements, AllowExternal
<1>2. UcxShape' /\ Dated'
  BY DEF UcxInv, UcxShape, Dated, Submit
<1>3. CallsCount'
  BY DEF UcxInv, UcxShape, CallsCount, Submit
<1>4. Matched'
  BY <1>1 DEF UcxInv, UcxShape, Matched, CallsCount, Submit
<1>5. CompletionIsTrue'
  BY DEF UcxInv, UcxShape, CompletionIsTrue, Submit
<1>. QED BY <1>2, <1>3, <1>4, <1>5 DEF UcxInv

LEMMA FetchedStep ==
  ASSUME UcxInv, NEW j \in Jobs, Fetched(j)
  PROVE  UcxInv'
<1> USE UcxAssumption DEF network, answers
<1>1. PICK made \in fetch[j]..now : cached' = Stamp(made) /\ fetch' = [fetch EXCEPT ![j] = made]
  BY DEF Fetched
<1>2. UcxShape' /\ CallsCount' /\ Matched' /\ CompletionIsTrue'
  BY <1>1 DEF UcxInv, UcxShape, CallsCount, Matched, CompletionIsTrue, Fetched
<1>3. Dated'
  BY <1>1 DEF UcxInv, UcxShape, Dated, Fetched, Stamp
<1>. QED BY <1>2, <1>3 DEF UcxInv

LEMMA PlaceStep ==
  ASSUME UcxInv, NEW j \in Jobs, Place(j)
  PROVE  UcxInv'
<1> USE UcxAssumption DEF network, answers
<1> DEFINE p == Match(job[j])
           to == IF p = "vast-ai" THEN "offering"
              ELSE IF p = Absent \/ (p = "gpu-ai-finetune" /\ ~ job[j].file) THEN "over" ELSE "asking"
<1>1. JobOK(job[j]) /\ p \in Providers \cup {Absent}
  BY MatchIsWilling DEF UcxInv, Matched, Place
<1>2. provider' = [provider EXCEPT ![j] = p] /\ phase[j] = "listed"
      /\ UNCHANGED <<now, cached, job, fetch, handedOut>>
  BY DEF Place
<1>3. remote[j] = Absent /\ calls[j] = 0 /\ provider[j] = Absent /\ record[j] = Absent
  BY <1>2 DEF UcxInv, UcxShape, CallsCount, CompletionIsTrue
<1>4. CASE p = "local"
  <2>1. RunLocally(j)
    BY <1>4 DEF Place
  <2>2. UcxShape' /\ Dated' /\ CallsCount' /\ Matched'
    BY <1>1, <1>2, <1>3, <1>4, <2>1 DEF RunLocally, NewRecord, Entries, UcxInv, UcxShape, Dated,
         CallsCount, Matched, Statuses, Providers, Adapters
  <2>3. CompletionIsTrue'
    BY <1>1, <1>2, <1>3, <1>4, <2>1 DEF RunLocally, NewRecord, Entries, UcxInv, UcxShape,
         CompletionIsTrue, Statuses, Providers, Dated
  <2>. QED BY <2>2, <2>3 DEF UcxInv
<1>5. CASE p # "local"
  <2>1. /\ phase' = [phase EXCEPT ![j] = to]
        /\ calls' = [calls EXCEPT ![j] = IF to = "asking" THEN @ + 1 ELSE @]
        /\ UNCHANGED <<record, remote, finished, polls, reported>>
    BY <1>5 DEF Place
  <2>2. UcxShape' /\ Dated' /\ Matched'
    BY <1>1, <1>2, <1>3, <1>5, <2>1 DEF UcxInv, UcxShape, Dated, Matched
  <2>3. CallsCount'
    BY <1>1, <1>2, <1>3, <1>5, <2>1 DEF UcxInv, UcxShape, CallsCount, Providers, Adapters
  <2>4. CompletionIsTrue'
    BY <1>2, <1>3, <1>5, <2>1 DEF UcxInv, UcxShape, CompletionIsTrue
  <2>. QED BY <2>2, <2>3, <2>4 DEF UcxInv
<1>. QED BY <1>4, <1>5

LEMMA FindOfferStep ==
  ASSUME UcxInv, NEW j \in Jobs, NEW found \in BOOLEAN, FindOffer(j, found)
  PROVE  UcxInv'
<1> USE UcxAssumption DEF network, answers
<1>1. UcxShape' /\ Dated' /\ Matched'
  BY DEF UcxInv, UcxShape, Dated, Matched, CallsCount, FindOffer
<1>2. CallsCount'
  BY DEF UcxInv, UcxShape, CallsCount, FindOffer, Adapters, Providers
<1>3. CompletionIsTrue'
  BY DEF UcxInv, UcxShape, CompletionIsTrue, FindOffer
<1>. QED BY <1>1, <1>2, <1>3 DEF UcxInv

LEMMA CreatedStep ==
  ASSUME UcxInv, NEW j \in Jobs, NEW id \in {j, Unknown}, Created(j, id)
  PROVE  UcxInv'
<1> USE UcxAssumption DEF network, answers
<1>1. provider[j] \in Adapters /\ phase[j] = "asking" /\ remote[j] # Absent /\ record[j] = Absent
  BY DEF UcxInv, UcxShape, CallsCount, CompletionIsTrue, Created
<1> DEFINE r == NewRecord(id, FirstStatus(provider[j]))
<1>2. r \in Entries /\ r.id = id /\ (r.status = "completed" => provider[j] = "gpu-ai-inference")
  BY <1>1 DEF NewRecord, FirstStatus, Entries, Statuses, Adapters, UcxInv, Dated
<1>3. record' = [record EXCEPT ![j] = r]
  BY DEF Created
<1> HIDE DEF r
<1>4. UcxShape' /\ Dated' /\ Matched' /\ CallsCount'
  BY <1>1, <1>2, <1>3 DEF UcxInv, UcxShape, Dated, Matched, CallsCount, Created
<1>5. CompletionIsTrue'
  BY <1>1, <1>2, <1>3 DEF UcxInv, UcxShape, CompletionIsTrue, Created, Providers
<1>. QED BY <1>4, <1>5 DEF UcxInv

LEMMA PollStep ==
  ASSUME UcxInv, NEW j \in Jobs, NEW seen, NEW model \in BOOLEAN, Poll(j, seen, model)
  PROVE  UcxInv'
<1> USE UcxAssumption DEF network, answers
<1>1. UcxShape' /\ Dated' /\ Matched' /\ CallsCount'
  BY DEF UcxInv, UcxShape, Dated, Matched, CallsCount, Poll
<1> DEFINE q == [job |-> j, seen |-> seen, model |-> model]
<1>2. polls' = polls \cup {q} /\ UNCHANGED <<phase, record, provider, remote, finished, handedOut>>
  BY DEF Poll
<1>3. record[j] # Absent /\ provider[j] \in Polled /\ (seen = "done" => remote[j] = "done")
  BY DEF Poll, Unknown
<1>4. /\ q.job \in Jobs /\ q.model \in BOOLEAN /\ record[q.job] \in Entries
      /\ phase[q.job] = "over" /\ provider[q.job] \in Polled /\ record[q.job].id \in {q.job, Unknown}
      /\ q.seen = "done" => q.job \in finished
  BY <1>3 DEF UcxInv, UcxShape, CompletionIsTrue
<1> HIDE DEF q
<1>5. CompletionIsTrue'
  BY <1>2, <1>4 DEF UcxInv, CompletionIsTrue
<1>. QED BY <1>1, <1>5 DEF UcxInv

LEMMA PollAnsweredStep ==
  ASSUME UcxInv, NEW q \in polls, PollAnswered(q)
  PROVE  UcxInv'
<1> USE UcxAssumption DEF network, answers
<1> DEFINE j == q.job
           status == StatusOf(provider[j], q.seen)
           r == [record[j] EXCEPT !.status = status, !.model = q.model]
<1>1. /\ j \in Jobs /\ q.model \in BOOLEAN /\ record[j] \in Entries
      /\ phase[j] = "over" /\ provider[j] \in Polled /\ record[j].id \in {j, Unknown}
      /\ q.seen = "done" => j \in finished
  BY DEF UcxInv, CompletionIsTrue
<1>2. status \in Statuses /\ (status = "completed" => q.seen = "done")
  BY <1>1 DEF StatusOf, VastStatus, AkashStatus, TuneStatus, Polled, Statuses
<1>3. r \in Entries /\ r.id = record[j].id /\ r.status = status
  BY <1>1, <1>2 DEF Entries
<1>4. provider[j] # Absent
  BY <1>1 DEF Polled, Providers, Adapters
<1>5. record' = record \/ record' = [record EXCEPT ![j] = r]
  BY DEF PollAnswered
<1>6. polls' \subseteq polls /\ UNCHANGED <<now, cached, phase, job, fetch, provider, remote, finished, calls, handedOut>>
  BY DEF PollAnswered
<1> HIDE DEF j, r, status
<1>7. UcxShape' /\ Dated' /\ Matched' /\ CallsCount'
  BY <1>1, <1>3, <1>5, <1>6 DEF UcxInv, UcxShape, Dated, Matched, CallsCount
<1>8. CompletionIsTrue'
  BY <1>1, <1>2, <1>3, <1>4, <1>5, <1>6 DEF UcxInv, UcxShape, CompletionIsTrue
<1>. QED BY <1>7, <1>8 DEF UcxInv

LEMMA RemoteStep ==
  ASSUME UcxInv, NEW j \in Jobs, NEW to \in RemoteStates, RemoteMoves(j, to) \/ Cancel(j, to)
  PROVE  UcxInv'
<1> USE UcxAssumption DEF network, answers
<1>1. /\ remote[j] \in {"queued", "running"} /\ remote' = [remote EXCEPT ![j] = to]
      /\ finished' = IF to = "done" THEN finished \cup {j} ELSE finished
      /\ UNCHANGED <<now, cached, phase, job, fetch, provider, record, calls, polls, handedOut>>
  BY DEF RemoteMoves, Cancel
<1>2. remote[j] # Absent /\ remote[j] # "done" /\ to # Absent
  BY <1>1 DEF RemoteStates
<1>3. UcxShape' /\ Dated' /\ Matched' /\ CallsCount'
  BY <1>1, <1>2 DEF UcxInv, UcxShape, Dated, Matched, CallsCount
<1>4. CompletionIsTrue'
  BY <1>1, <1>2 DEF UcxInv, UcxShape, CompletionIsTrue
<1>. QED BY <1>3, <1>4 DEF UcxInv

LEMMA UcxInductive == UcxInv /\ [UcxNext]_ucxVars => UcxInv'
<1> SUFFICES ASSUME UcxInv, [UcxNext]_ucxVars PROVE UcxInv'
  OBVIOUS
<1> USE UcxAssumption DEF network, answers
<1>1. CASE Tick
  BY <1>1 DEF Tick, UcxInv, UcxShape, Dated, CallsCount, Matched, CompletionIsTrue
<1>2. CASE UcxRestart
  <2>1. UcxShape' /\ Dated' /\ Matched'
    BY <1>2 DEF UcxRestart, UcxInv, UcxShape, Dated, Matched
  <2>2. CallsCount' /\ CompletionIsTrue'
    BY <1>2 DEF UcxRestart, UcxInv, UcxShape, CallsCount, CompletionIsTrue
  <2>. QED BY <2>1, <2>2 DEF UcxInv
<1>3. ASSUME NEW j \in Jobs, Accepted(j)
      PROVE  UcxInv'
  <2>1. UcxShape' /\ Dated' /\ Matched'
    BY <1>3 DEF Accepted, UcxInv, UcxShape, Dated, Matched
  <2>2. CallsCount' /\ CompletionIsTrue'
    BY <1>3 DEF Accepted, UcxInv, UcxShape, CallsCount, CompletionIsTrue
  <2>. QED BY <2>1, <2>2 DEF UcxInv
<1>4. ASSUME NEW j \in Jobs, Refused(j)
      PROVE  UcxInv'
  <2>1. UcxShape' /\ Dated' /\ Matched'
    BY <1>4 DEF Refused, UcxInv, UcxShape, Dated, Matched
  <2>2. CallsCount' /\ CompletionIsTrue'
    BY <1>4 DEF Refused, UcxInv, UcxShape, CallsCount, CompletionIsTrue
  <2>. QED BY <2>1, <2>2 DEF UcxInv
<1>5. ASSUME NEW j \in Jobs, Receipt(j)
      PROVE  UcxInv'
  BY <1>5 DEF Receipt, HasReceipt, UcxInv, UcxShape, Dated, Matched, CallsCount, CompletionIsTrue
<1>6. CASE UNCHANGED ucxVars
  BY <1>6 DEF ucxVars, UcxInv, UcxShape, Dated, Matched, CallsCount, CompletionIsTrue
<1>7. Followed \subseteq Jobs /\ {"running"} \cup Ended \subseteq RemoteStates
  BY DEF RemoteStates
<1>. QED
  BY <1>1, <1>2, <1>3, <1>4, <1>5, <1>6, <1>7, SubmitStep, FetchedStep, PlaceStep, FindOfferStep,
     CreatedStep, PollStep, PollAnsweredStep, RemoteStep DEF UcxNext

(* No submission makes a second call that could create its job (submit, the
   adapters' submit): for any jobs, adapters and networks. *)
THEOREM PlacedTheorem == UcxSpec => []PlacedOnce
<1>1. UcxInv => PlacedOnce
  BY DEF UcxInv, UcxShape, CallsCount, PlacedOnce
<1>. QED BY <1>1, UcxInitially, UcxInductive, PTL DEF UcxSpec

(* A receipt is for work that was finished (receipt, status, cancel): for any
   number of overtaking polls and of lost answers. *)
THEOREM EarnedTheorem == UcxSpec => []ReceiptIsEarned
<1>1. UcxInv => ReceiptIsEarned
  BY DEF UcxInv, CompletionIsTrue, ReceiptIsEarned
<1>. QED BY <1>1, UcxInitially, UcxInductive, PTL DEF UcxSpec

(* A job goes to the best provider that takes it, the first of equals, and
   abroad only if it may and must (submit, try_allocate, score_provider): for
   any requirements and any list of adapters. *)
THEOREM WillingTheorem == UcxSpec => []BestWilling
<1>1. UcxInv => BestWilling
  <2> SUFFICES ASSUME UcxInv, NEW j \in Jobs
               PROVE  Willing(provider[j], job[j])
    BY DEF BestWilling, Willing
  <2>1. CASE provider[j] = Absent
    BY <2>1, UcxAssumption DEF Willing, Providers
  <2>2. CASE provider[j] # Absent
    BY <2>2, MatchIsWilling DEF UcxInv, Matched
  <2>. QED BY <2>1, <2>2
<1>. QED BY <1>1, UcxInitially, UcxInductive, PTL DEF UcxSpec

(* No submission is served a list older than CacheSecs + FetchSecs
   (VantageDiscovery::providers): for any number of overlapping fetches. *)
THEOREM FreshTheorem == UcxSpec => ListIsFresh
<1>1. UcxInv /\ [UcxNext]_ucxVars =>
        [\A j \in Jobs : phase[j] = "new" /\ phase'[j] = "listed" /\ Discovering
           => now - fetch'[j] < CacheSecs + FetchSecs]_ucxVars
  <2> SUFFICES ASSUME UcxInv, UcxNext, NEW j \in Jobs,
                      phase[j] = "new", phase'[j] = "listed", Discovering
               PROVE  now - fetch'[j] < CacheSecs + FetchSecs
    BY DEF ucxVars
  <2>1. PICK b \in Bodies : Submit(j, b)
    <3>1. phase \in [Jobs -> {"new", "listing", "listed", "offering", "asking", "over"}]
      BY DEF UcxInv, UcxShape
    <3>2. ~ Tick /\ ~ UcxRestart /\ ~ \E q \in polls : PollAnswered(q)
      BY <3>1 DEF Tick, UcxRestart, PollAnswered
    <3>3. ASSUME NEW i \in Jobs, i # j \/ ~ \E b \in Bodies : Submit(i, b)
          PROVE  /\ ~ \E b \in Bodies : Submit(i, b)
                 /\ ~ Fetched(i) /\ ~ Place(i) /\ ~ Accepted(i) /\ ~ Refused(i)
                 /\ ~ \E found \in BOOLEAN : FindOffer(i, found)
                 /\ ~ \E id \in {i, Unknown} : Created(i, id)
      <4>1. ~ \E b \in Bodies : Submit(i, b)
        BY <3>1, <3>3 DEF Submit
      <4>2. ~ Fetched(i)
        BY <3>1 DEF Fetched
      <4>3. ~ Place(i)
        BY <3>1 DEF Place, RunLocally
      <4>4. ~ Accepted(i) /\ ~ Refused(i)
        BY <3>1 DEF Accepted, Refused
      <4>5. ~ (\E found \in BOOLEAN : FindOffer(i, found)) /\ ~ \E id \in {i, Unknown} : Created(i, id)
        BY <3>1 DEF FindOffer, Created
      <4>. QED BY <4>1, <4>2, <4>3, <4>4, <4>5
    <3>4. ASSUME NEW i \in Followed
          PROVE  /\ ~ Receipt(i)
                 /\ ~ \E to \in {"running"} \cup Ended : RemoteMoves(i, to) \/ Cancel(i, to)
                 /\ ~ \E seen \in {"queued", "running", Unknown} \cup Ended, model \in BOOLEAN :
                        Poll(i, seen, model)
      BY <3>1 DEF Receipt, RemoteMoves, Cancel, Poll
    <3>. QED BY <3>2, <3>3, <3>4 DEF UcxNext
  <2>2. CacheIsFresh /\ fetch'[j] = cached.made
    BY <2>1 DEF Submit, UcxInv, UcxShape
  <2>. QED BY <2>2, UcxAssumption DEF CacheIsFresh, UcxInv, Dated
<1>. QED BY <1>1, UcxInitially, UcxInductive, PTL DEF UcxSpec, ListIsFresh

=============================================================================
