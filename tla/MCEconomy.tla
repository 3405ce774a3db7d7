----------------------------- MODULE MCEconomy -----------------------------
(* EmissionAllocator with the emission and the wallets of the code and a few
   claims (on the same UTXO, for the same environment, below the difficulty),
   TileEconomy and TrustTiers, on small sets, for TLC.  They share no state, nor
   do the chain and the mint of TileEconomy: a behaviour of TLC follows one of
   the four (part). *)
EXTENDS EmissionAllocator, TileEconomy, TrustTiers

VARIABLE part

EconomyInit == part \in {"emission", "chain", "mint", "tiers"} /\ Init /\ TileInit /\ TierInit

EconomyNext ==
  \/ part = "emission" /\ AllocateMinute /\ UNCHANGED <<part, tileVars, tierVars>>
  \/ part = "chain" /\ ChainNext /\ UNCHANGED <<part, vars, tierVars>>
  \/ part = "mint" /\ MintNext /\ UNCHANGED <<part, vars, tierVars>>
  \/ part = "tiers" /\ TierNext /\ UNCHANGED <<part, vars, tileVars>>

EconomySpec == EconomyInit /\ [][EconomyNext]_<<part, vars, tileVars, tierVars>>

Claim(w, u, e, s) == [worker |-> w, utxo |-> u, env |-> e, score |-> s]

SomeClaims ==
  { Claim("alice", "k1", "e1", 90), Claim("bob", "k1", "e1", 80),
    Claim("bob", "k2", "e1", 79), Claim("carol", "k3", "e2", 97),
    Claim("carol", "k4", "e2", 70) }

(* 0.777 at genesis, more for later minutes; 10/sqrt(n), rounded. *)
DifficultyOf == [m \in 1..2 |-> IF m = 1 THEN 78 ELSE 90]
NoveltyOf == [n \in 0..9 |-> <<10, 10, 7, 6, 5, 4, 4, 4, 4, 3>>[n + 1]]
=============================================================================
