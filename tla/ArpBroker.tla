----------------------------- MODULE ArpBroker ------------------------------
(***************************************************************************)
(* The action receipt broker, src/arp-broker/src/bin/main.rs: receipts of  *)
(* agents, each naming the hash of the one before it.                      *)
(*                                                                         *)
(* submit_receipt compares previous_hash with the last stored receipt      *)
(* under the read locks, drops them, and stores under the write locks.     *)
(* Requests run concurrently, and a client that missed an answer posts     *)
(* the same receipt again.                                                 *)
(*                                                                         *)
(* A receipt stands for its id and its hash: both are determined by its    *)
(* content, and clients draw fresh ids.                                    *)
(***************************************************************************)
EXTENDS Naturals, Sequences, SequencesExt

CONSTANTS
  Agents,
  Receipts,        \* contents of receipts
  Posts,           \* POST /api/receipts requests
  NoReceipt        \* previous_hash is absent

ASSUME ArpAssumption == NoReceipt \notin Receipts

VARIABLES
  agent,           \* agent[r]: the agent of r, once the client wrote r
  previous,        \* previous[r]: the receipt whose hash r names
  drafted,         \* receipts some client wrote
  receipts,        \* the map receipt_id -> receipt
  byAgent,         \* the map agent_id -> list of receipt ids
  pc,              \* pc[p]: where the handler of p is
  body             \* body[p]: the receipt p carries

arpVars == <<agent, previous, drafted, receipts, byAgent, pc, body>>

TypeOK ==
  /\ agent \in [Receipts -> Agents]
  /\ previous \in [Receipts -> Receipts \union {NoReceipt}]
  /\ drafted \subseteq Receipts
  /\ receipts \subseteq drafted
  /\ byAgent \in [Agents -> Seq(Receipts)]
  /\ pc \in [Posts -> {"unused", "checking", "storing", "done"}]
  /\ body \in [Posts -> Receipts \union {NoReceipt}]

ArpInit ==
  /\ agent \in [Receipts -> Agents]
  /\ previous = [r \in Receipts |-> NoReceipt]
  /\ drafted = {}
  /\ receipts = {}
  /\ byAgent = [a \in Agents |-> <<>>]
  /\ pc = [p \in Posts |-> "unused"]
  /\ body = [p \in Posts |-> NoReceipt]

Goto(p, l) == pc' = [pc EXCEPT ![p] = l]

(* A client writes a receipt; it can only name a hash that exists. *)
Draft(r, prev) ==
  /\ r \notin drafted
  /\ prev \in drafted \union {NoReceipt}
  /\ drafted' = drafted \union {r}
  /\ previous' = [previous EXCEPT ![r] = prev]
  /\ UNCHANGED <<agent, receipts, byAgent, pc, body>>

Post(p, r) ==
  /\ pc[p] = "unused"
  /\ r \in drafted
  /\ body' = [body EXCEPT ![p] = r]
  /\ Goto(p, "checking")
  /\ UNCHANGED <<agent, previous, drafted, receipts, byAgent>>

LastOf(a) == IF byAgent[a] = <<>> THEN NoReceipt ELSE Last(byAgent[a])

(* Mutation: the hash only has to be known to the broker. *)
LinkKnown(r) == previous[r] \in receipts \union {NoReceipt}

(* previous_hash is absent, or the hash of the agent's last stored receipt. *)
LinkOk(r) == previous[r] = NoReceipt \/ previous[r] = LastOf(agent[r])

(* The check; 409 CONFLICT ends the request. *)
Check(p) ==
  /\ pc[p] = "checking"
  /\ Goto(p, IF LinkOk(body[p]) THEN "storing" ELSE "done")
  /\ UNCHANGED <<agent, previous, drafted, receipts, byAgent, body>>

Store(p) ==
  /\ pc[p] = "storing"
  /\ receipts' = receipts \union {body[p]}
  /\ byAgent' = [byAgent EXCEPT ![agent[body[p]]] = Append(@, body[p])]
  /\ Goto(p, "done")
  /\ UNCHANGED <<agent, previous, drafted, body>>

(* Both maps are memory of the process. *)
ArpRestart ==
  /\ receipts' = {}
  /\ byAgent' = [a \in Agents |-> <<>>]
  /\ pc' = [p \in Posts |-> IF pc[p] = "unused" THEN "unused" ELSE "done"]
  /\ UNCHANGED <<agent, previous, drafted, body>>

ArpNext ==
  \/ \E r \in Receipts, prev \in Receipts \union {NoReceipt} : Draft(r, prev)
  \/ \E p \in Posts :
       \/ \E r \in Receipts : Post(p, r)
       \/ Check(p)
       \/ Store(p)
  \/ ArpRestart

ArpSpec == ArpInit /\ [][ArpNext]_arpVars
-----------------------------------------------------------------------------
(* Properties. *)

(* In the list of an agent, a receipt comes after the receipt it names, which
   is one of the same agent: no interleaving of requests, repeated post or
   restart leaves a link that cannot be followed (Check, Store). *)
LinksPointBack ==
  \A a \in Agents : \A i \in DOMAIN byAgent[a] :
    LET prev == previous[byAgent[a][i]]
    IN  prev # NoReceipt => \E k \in 1..(i - 1) : byAgent[a][k] = prev

=============================================================================
