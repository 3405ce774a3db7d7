---------------------------- MODULE TileEconomy ----------------------------
(***************************************************************************)
(* The economy of the Odu tiles: the contract tile_governance.move, the    *)
(* anchor that is to call it (tile_governance.rs over sui_rpc.rs) and the  *)
(* mint of ase.rs.  A transaction of the chain is one step.  Amounts are   *)
(* micro-ase; the floating point products are exact here, rounded down     *)
(* once.                                                                   *)
(***************************************************************************)
EXTENDS Integers, Sequences, FiniteSets, Functions

CONSTANTS
    Addresses,      \* accounts of the chain
    Tiles,          \* tile ids of the form odu:XY
    Objects,        \* ids of TileRecords, drawn by the chain
    NoTile,         \* an id of another form
    Coins,          \* ase of an address at first
    Stakes,         \* amounts that are staked
    Fees,           \* usage fees, in percent
    Scores,         \* quality and novelty, in thousandths
    MaxMints        \* bound of the mints and of the captures of a record

ASSUME EconomyAssumption ==
    /\ IsFiniteSet(Addresses) /\ IsFiniteSet(Objects) /\ NoTile \notin Tiles
    /\ Coins \in Nat /\ Stakes \subseteq Nat \ {0} /\ Fees \subseteq 0..100 /\ Scores \subseteq 0..1000
    /\ MaxMints \in Nat

VARIABLES
    coins,          \* address -> ase it holds
    records,        \* object -> TileRecord
    spent,          \* history: objects that were ever created
    anchors,        \* the answers of the anchor that some caller holds
    economy,        \* tile -> TileEconomy
    mints           \* the mint results, with a flag for those applied to the tile

tileVars == <<coins, records, spent, anchors, economy, mints>>

NoRecord == [tile |-> NoTile]
Unowned == [owned |-> FALSE, fee |-> 5, earned |-> 0, captures |-> 0]

TileInit ==
    /\ coins = [a \in Addresses |-> Coins]
    /\ records = [o \in Objects |-> NoRecord]
    /\ spent = {}
    /\ anchors = {}
    /\ economy = [t \in Tiles |-> Unowned]
    /\ mints = <<>>

-----------------------------------------------------------------------------
(* The contract. *)
Exists(o) == records[o] # NoRecord

\* E_ALREADY_CLAIMED is never raised: a tile may have several records.
ClaimTile(a, t, fee, o) ==
    /\ t \in Tiles /\ o \notin spent
    /\ records' = [records EXCEPT ![o] =
            [tile |-> t, owner |-> a, holder |-> a, stake |-> 0, fee |-> fee, captures |-> 0]]
    /\ spent' = spent \cup {o}
    /\ UNCHANGED <<coins, anchors, economy, mints>>

StakeTile(o, n) ==
    LET r == records[o]
    IN  /\ Exists(o) /\ r.holder = r.owner
        /\ coins[r.owner] >= n
        /\ coins' = [coins EXCEPT ![r.owner] = @ - n]
        /\ records' = [records EXCEPT ![o].stake = @ + n]
        /\ UNCHANGED <<spent, anchors, economy, mints>>

\* The record has `store`: whoever holds it may give it away, but stake and
\* release ask for the owner it was created with.
TransferRecord(o, a) ==
    /\ Exists(o) /\ records[o].holder # a
    /\ records' = [records EXCEPT ![o].holder = a]
    /\ UNCHANGED <<coins, spent, anchors, economy, mints>>

\* A record is an owned object: only its holder can record a capture.
RecordCapture(o) ==
    /\ Exists(o) /\ records[o].captures < MaxMints
    /\ records' = [records EXCEPT ![o].captures = @ + 1]
    /\ UNCHANGED <<coins, spent, anchors, economy, mints>>

(* Mutant: the record is destroyed with the stake in it. *)
StakeKept(o) == 0

StakeReturned(o) == records[o].stake

ReleaseTile(o) ==
    LET r == records[o]
    IN  /\ Exists(o) /\ r.holder = r.owner
        /\ coins' = [coins EXCEPT ![r.owner] = @ + StakeReturned(o)]
        /\ records' = [records EXCEPT ![o] = NoRecord]
        /\ UNCHANGED <<spent, anchors, economy, mints>>

-----------------------------------------------------------------------------
(* The anchor.  Without a key it answers with a stub.  With one it goes by the
   bridge mint_twin of sui_rpc.rs, which asks the package for the function
   mint_twin of its module twin_nft (the tile contract has neither) and turns
   every failure into the ids of a stub: nothing is done on the chain, and the
   answer does not say so. *)
Anchor(call, t, keyed) ==
    LET answer == [call |-> call, tile |-> t, stub |-> ~keyed]
    IN  /\ answer \notin anchors
        /\ anchors' = anchors \cup {answer}
        /\ UNCHANGED <<coins, records, spent, economy, mints>>

AnchorClaim(t, keyed) == Anchor("claim_tile", t, keyed)
AnchorStake(t, keyed) == Anchor("stake_tile", t, keyed)

-----------------------------------------------------------------------------
(* The mint. *)

\* saturating_sub.
Saturating(a, b) == IF a > b THEN a - b ELSE 0

\* A million, times 1 to 3 for the quality and 1 to 1.5 for the novelty.
MintAmount(quality, novelty) == (1000 + 2 * quality) * (1000 + novelty \div 2)

OwnerFee(tokens, pct) == (tokens * pct) \div 100

\* The parts of ten thousand of each wallet; the last takes what is left.
ElegbaraParts == <<3000, 2000, 1000, 1000, 1000, 1000, 500>>
Part(n, i) == (n * ElegbaraParts[i]) \div 10000
Distributed(n) == SumFunction([i \in 1..7 |-> Part(n, i)])
ElegbaraRoute(n) == [i \in 1..8 |-> IF i < 8 THEN Part(n, i) ELSE Saturating(n, Distributed(n))]

EshuTithe(tokens) == (tokens * 369) \div 10000

MintAse(t, quality, novelty) ==
    LET tokens == MintAmount(quality, novelty)
        net == Saturating(tokens, EshuTithe(tokens))
        fee == IF economy[t].owned THEN OwnerFee(net, economy[t].fee) ELSE 0
    IN  /\ Len(mints) < MaxMints
        /\ mints' = Append(mints, [tile |-> t, tokens |-> tokens, net |-> net, fee |-> fee,
                                   route |-> ElegbaraRoute(EshuTithe(tokens)), applied |-> FALSE])
        /\ UNCHANGED <<coins, records, spent, anchors, economy>>

(* Mutant: the fee is taken a second time, at the rate of the moment. *)
ShareRecomputed(m) == m.net - OwnerFee(m.net, economy[m.tile].fee)

MinerShare(m) == Saturating(m.net, m.fee)

\* The result is applied after the mint was awaited.
UpdateTileEconomy(i) ==
    LET m == mints[i]
    IN  /\ ~m.applied
        /\ mints' = [mints EXCEPT ![i].applied = TRUE]
        /\ economy' = [economy EXCEPT ![m.tile].captures = @ + 1,
                                     ![m.tile].earned = @ + MinerShare(m)]
        /\ UNCHANGED <<coins, records, spent, anchors>>

\* The host of the library sets the owner and the fee of a tile.
SetOwner(t, fee) ==
    /\ economy[t].owned = FALSE \/ economy[t].fee # fee
    /\ economy' = [economy EXCEPT ![t] = [@ EXCEPT !.owned = TRUE, !.fee = fee]]
    /\ UNCHANGED <<coins, records, spent, anchors, mints>>

ChainNext ==
    \/ \E a \in Addresses, t \in Tiles, fee \in Fees, o \in Objects : ClaimTile(a, t, fee, o)
    \/ \E o \in Objects :
        \/ \E n \in Stakes : StakeTile(o, n)
        \/ \E a \in Addresses : TransferRecord(o, a)
        \/ RecordCapture(o) \/ ReleaseTile(o)
    \/ \E t \in Tiles, keyed \in BOOLEAN : AnchorClaim(t, keyed) \/ AnchorStake(t, keyed)

MintNext ==
    \/ \E t \in Tiles, q, n \in Scores : MintAse(t, q, n)
    \/ \E i \in DOMAIN mints : UpdateTileEconomy(i)
    \/ \E t \in Tiles, fee \in Fees : SetOwner(t, fee)

TileNext == ChainNext \/ MintNext

TileSpec == TileInit /\ [][TileNext]_tileVars

-----------------------------------------------------------------------------
\* The stake in each record.
Kept == [o \in Objects |-> IF Exists(o) THEN records[o].stake ELSE 0]

\* No ase is made or lost on the chain, whatever is staked, given away or released
\* and whatever the anchor answers: what the accounts hold and what the records keep is
\* what the accounts held at first (tile_governance.move:114-176).
StakesAreKept == SumFunction(coins) + SumFunction(Kept) = Cardinality(Addresses) * Coins

\* The mints whose result was applied to a tile.
Applied(t) == {i \in DOMAIN mints : mints[i].applied /\ mints[i].tile = t}

\* A mint is shared out to the last unit between its maker, the owner of the tile
\* and the eight wallets, and a tile has earned the makers' shares of the mints
\* applied to it, although its owner and fee change while a mint is awaited
\* (ase.rs:86-115, 141-145, 212-260).
MintsAddUp ==
    /\ \A i \in DOMAIN mints :
        LET m == mints[i]
        IN  m.fee <= m.net /\ m.tokens = m.net + SumFunction(m.route)
    /\ \A t \in Tiles :
        /\ economy[t].earned = SumFunction([i \in Applied(t) |-> mints[i].net - mints[i].fee])
        /\ economy[t].captures = Cardinality(Applied(t))

=============================================================================
