-------------------------- MODULE EmissionAllocator --------------------------
(***************************************************************************)
(* DailyEmissionAllocator of src/twin-protocol/src/emission.rs: who gets   *)
(* the micro-Ase of a minute.                                              *)
(*                                                                         *)
(* allocate_minute is one call: it filters the claims, shares the minute's *)
(* emission in proportion to score and novelty, and marks the simulation   *)
(* outputs (UTXOs) it pays for as claimed.  What is hard is what a         *)
(* sequence of calls, and a batch with related claims, adds up to.         *)
(*                                                                         *)
(* Scores are integers (parts of a hundred), 1/sqrt(n) is the constant     *)
(* function Novelty, and a share is rounded down as the cast to u64 does.  *)
(***************************************************************************)
EXTENDS Integers, FiniteSets, FiniteSetsExt, Functions, Sequences

CONSTANTS
  Claims,          \* records [worker, utxo, env, score]
  Utxos, Envs,     \* SimulationUTXO keys; hashes of simulation environments
  Minutes,         \* epoch minutes
  Difficulty,      \* Difficulty[m]: current_difficulty(m)
  Novelty,         \* Novelty[n]: weight after n payments for the same environment
  MicroPerMinute,  \* MICRO_ASE_PER_MINUTE
  Wallets,         \* INHERITANCE_WALLET_COUNT
  MaxBatch,        \* bound on the claims of a call
  MaxCalls         \* bound on the calls of a behaviour

ASSUME EmissionAssumption ==
  /\ Claims \subseteq [worker : STRING, utxo : Utxos, env : Envs, score : Nat]
  /\ Difficulty \in [Minutes -> Nat \ {0}]
  /\ MaxBatch \in Nat /\ MaxCalls \in Nat
  /\ 0..(MaxBatch * MaxCalls) \subseteq DOMAIN Novelty
  /\ \A n \in DOMAIN Novelty : Novelty[n] \in Nat \ {0}
  /\ MicroPerMinute \in Nat
  /\ Wallets \in Nat \ {0}

VARIABLES
  claimed,         \* the keys of claimed_utxos
  envCount,        \* env_hash_counts
  chain,           \* what the receipts hashed into chain_hash say
  ledger           \* history: the MinuteAllocations returned, oldest first

vars == <<claimed, envCount, chain, ledger>>

(* What is paid to the claims of a batch, by their positions in it. *)
Payments == UNION {[P -> [claim : Claims, micro : Nat]] : P \in SUBSET (1..MaxBatch)}
Allocation == [minute : Minutes, sabbath : BOOLEAN, pays : Payments, perWallet : Nat]

EmissionTypeOK ==
  /\ claimed \subseteq Utxos
  /\ envCount \in [Envs -> 0..(MaxBatch * MaxCalls)]
  /\ ledger \in Seq(Allocation)
  /\ chain \in Seq(Minutes \X Nat \X Payments) /\ Len(chain) <= Len(ledger)

Init ==
  /\ claimed = {}
  /\ envCount = [e \in Envs |-> 0]
  /\ chain = <<>>
  /\ ledger = <<>>

-----------------------------------------------------------------------------
(* Mutation: the difficulty alone decides. *)
EligibleTwice(m, batch) == {i \in DOMAIN batch : batch[i].score >= Difficulty[m]}

(* Rejected are claims below the difficulty and claims on a UTXO that a call
   before this one paid. *)
Eligible(m, batch) ==
  {i \in DOMAIN batch : batch[i].score >= Difficulty[m] /\ batch[i].utxo \notin claimed}

(* The weights of the claims at the positions P. *)
Weighted(batch, P) == [i \in P |-> batch[i].score * Novelty[envCount[batch[i].env]]]

RoundedShares(w, P) == [i \in P |-> (w[i] * MicroPerMinute) \div SumFunction(w)]

(* Mutation: the last worker gets its rounded share like the others. *)
SharesRounded(w) == RoundedShares(w, DOMAIN w)

(* Every worker but the last gets its rounded share, the last what is left. *)
Shares(w) ==
  LET last == Max(DOMAIN w)
      others == RoundedShares(w, DOMAIN w \ {last})
  IN  [i \in DOMAIN w |-> IF i = last THEN MicroPerMinute - SumFunction(others) ELSE others[i]]

(* The receipt hash covers the minute, the total and the workers. *)
Receipt(a, total) == <<a.minute, total, a.pays>>

(* allocate_minute on a Saturday: nothing is paid, nothing is remembered. *)
Sabbath(m, batch) ==
  /\ ledger' = Append(ledger, [minute |-> m, sabbath |-> TRUE, pays |-> <<>>, perWallet |-> 0])
  /\ UNCHANGED <<claimed, envCount, chain>>

(* Without an eligible claim every inheritance wallet gets the same. *)
Inherit(m, batch) ==
  LET a == [minute |-> m, sabbath |-> FALSE, pays |-> <<>>,
            perWallet |-> MicroPerMinute \div Wallets]
  IN  /\ Eligible(m, batch) = {}
      /\ ledger' = Append(ledger, a)
      /\ chain' = Append(chain, Receipt(a, MicroPerMinute))
      /\ UNCHANGED <<claimed, envCount>>

Pay(m, batch) ==
  LET el == Eligible(m, batch)
      share == Shares(Weighted(batch, el))
      a == [minute |-> m, sabbath |-> FALSE, perWallet |-> 0,
            pays |-> [i \in el |-> [claim |-> batch[i], micro |-> share[i]]]]
  IN  /\ el # {}
      /\ ledger' = Append(ledger, a)
      /\ chain' = Append(chain, Receipt(a, MicroPerMinute))
      /\ claimed' = claimed \union {batch[i].utxo : i \in el}
      /\ envCount' = [e \in Envs |-> envCount[e] + Cardinality({i \in el : batch[i].env = e})]

AllocateMinute ==
  /\ Len(ledger) < MaxCalls
  /\ \E m \in Minutes, n \in 0..MaxBatch : \E batch \in [1..n -> Claims] :
       \/ Sabbath(m, batch)
       \/ Inherit(m, batch)
       \/ Pay(m, batch)

Spec == Init /\ [][AllocateMinute]_vars
-----------------------------------------------------------------------------
(* Properties. *)

PaidTo(k) == {i \in DOMAIN ledger : \E n \in DOMAIN ledger[i].pays : ledger[i].pays[n].claim.utxo = k}

PaidOut(a) ==
  LET micro == [n \in DOMAIN a.pays |-> a.pays[n].micro]
  IN  /\ \A n \in DOMAIN micro : micro[n] >= 0
      /\ a.sabbath => SumFunction(micro) = 0 /\ a.perWallet = 0
      /\ a.pays # <<>> => SumFunction(micro) = MicroPerMinute

(* "Prevents double-claiming the same simulation result across multiple
   emission rounds": no two calls pay for the same UTXO (Eligible, Pay). *)
OneRoundPerUtxo == \A k \in Utxos : Cardinality(PaidTo(k)) <= 1

(* A call that pays workers pays out the whole emission of a minute, however
   the shares round, and to nobody less than nothing; on a Saturday nothing is
   paid (Shares, Sabbath). *)
MinuteIsPaidOut == \A i \in DOMAIN ledger : PaidOut(ledger[i])

(* Refuted by the code. *)

(* emission.rs:15: "SimulationUTXO: (veil_id, epoch_minute, trajectory_hash) is
   one-time-claimable".  Two claims of one batch on the same UTXO are both paid,
   since claims are checked before any of the batch is marked. *)
UtxoClaimedOnce ==
  \A i \in DOMAIN ledger :
    \A n, k \in DOMAIN ledger[i].pays :
      ledger[i].pays[n].claim.utxo = ledger[i].pays[k].claim.utxo => n = k
=============================================================================
