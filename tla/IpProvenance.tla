---------------------------- MODULE IpProvenance ----------------------------
(***************************************************************************)
(* `sovereign ip`: the signed events of ip-layer and what a relay is sent. *)
(* Publishing a root, and sealing a splat with a twin binding and a        *)
(* creation receipt that names it.  An event is its content; its id, the   *)
(* hash of the content, is the event itself.                               *)
(***************************************************************************)
EXTENDS Naturals, Sequences

CONSTANTS
    Provers,        \* `ip` commands
    SecretKeys,     \* keys that decode; the public key stands for the key
    BadKey,         \* a key that is not 32 bytes of hex
    SealedTwins,    \* twins that are sealed
    Licenses,       \* licenses of roots
    DefaultLicense, \* cc-by-4.0
    MaxSecond       \* bound: seconds of a behaviour

ASSUME ProvenanceAssumption ==
    BadKey \notin SecretKeys /\ DefaultLicense \in Licenses /\ MaxSecond \in Nat

VARIABLES
    second,         \* the wall clock
    ask,            \* what each command was called with; NoAsk before
    ipStage,        \* idle, signing, publishing, done or failed
    signed,         \* the events it has still to publish
    heard,          \* history: the events relays were sent, in order
    printed         \* what each command printed

provenanceVars == <<second, ask, ipStage, signed, heard, printed>>

NoAsk == [what |-> "nothing"]

Asks == [what : {"pubkey"}, key : SecretKeys \cup {BadKey}]
    \cup [what : {"root"}, key : SecretKeys \cup {BadKey}, license : Licenses]
    \cup [what : {"seal"}, key : SecretKeys \cup {BadKey}, twin : SealedTwins, relay : BOOLEAN]

ProvenanceInit ==
    /\ second = 1
    /\ ask = [p \in Provers |-> NoAsk]
    /\ ipStage = [p \in Provers |-> "idle"]
    /\ signed = [p \in Provers |-> <<>>]
    /\ heard = <<>>
    /\ printed = [p \in Provers |-> <<>>]

\* The root of a creator is its public key; the relay keeps one per creator.
IpRoot(key, license, at) == [kind |-> 31900, key |-> key, at |-> at, d |-> key, license |-> license]

TwinBinding(key, twin, at) == [kind |-> 1903, key |-> key, at |-> at, root |-> key, sim |-> twin]

\* No caller sets a license, and the root's is not looked up.
CreationReceipt(key, binding, at) ==
    [kind |-> 1901, key |-> key, at |-> at, root |-> key, twin |-> binding, license |-> DefaultLicense]

SealGaussianSplat(key, twin, now) ==
    LET binding == TwinBinding(key, twin, now)
    IN  <<binding, CreationReceipt(key, binding, now + 1)>>

\* The command reads its key, looks at the clock once, and signs.
Sign(p, a) ==
    LET events == CASE a.what = "pubkey" -> <<>>
                    [] a.what = "root" -> <<IpRoot(a.key, a.license, second)>>
                    [] a.what = "seal" -> SealGaussianSplat(a.key, a.twin, second)
        local == a.what = "pubkey" \/ (a.what = "seal" /\ ~a.relay)
    IN  /\ ipStage[p] = "idle"
        /\ ask' = [ask EXCEPT ![p] = a]
        /\ ipStage' = [ipStage EXCEPT ![p] =
                IF a.key = BadKey THEN "failed" ELSE IF local THEN "done" ELSE "publishing"]
        /\ signed' = [signed EXCEPT ![p] = IF a.key = BadKey \/ local THEN <<>> ELSE events]
        /\ printed' = [printed EXCEPT ![p] = IF a.key = BadKey THEN <<>> ELSE events]
        /\ UNCHANGED <<second, heard>>

\* One connection per event; whatever the relay answers, the event counts as published.
PublishNostr(p) ==
    /\ ipStage[p] = "publishing"
    /\ heard' = Append(heard, Head(signed[p]))
    /\ signed' = [signed EXCEPT ![p] = Tail(@)]
    /\ ipStage' = [ipStage EXCEPT ![p] = IF Len(signed[p]) = 1 THEN "done" ELSE @]
    /\ UNCHANGED <<second, ask, printed>>

(* Mutant: an event that cannot be published is passed over. *)
UnpublishedGoesOn(p) ==
    /\ signed' = [signed EXCEPT ![p] = Tail(@)]
    /\ ipStage' = [ipStage EXCEPT ![p] = IF Len(signed[p]) = 1 THEN "done" ELSE @]

\* A relay that cannot be reached ends the command with an error.
Unpublished(p) ==
    /\ signed' = [signed EXCEPT ![p] = <<>>]
    /\ ipStage' = [ipStage EXCEPT ![p] = "failed"]

PublishFails(p) ==
    /\ ipStage[p] = "publishing"
    /\ Unpublished(p)
    /\ UNCHANGED <<second, ask, heard, printed>>

SecondPasses ==
    /\ second < MaxSecond
    /\ second' = second + 1
    /\ UNCHANGED <<ask, ipStage, signed, heard, printed>>

ProvenanceStep(p) == PublishNostr(p) \/ PublishFails(p)

ProvenanceNext ==
    \/ SecondPasses
    \/ \E p \in Provers : (\E a \in Asks : Sign(p, a)) \/ ProvenanceStep(p)

-----------------------------------------------------------------------------
\* A creation receipt a relay is sent names a twin binding of the same root that
\* was sent before it and carries an earlier time, whichever of several commands
\* publish at once and whichever of them fail (lib.rs:61-90, main.rs:1541-1557).
ReceiptFollowsBinding == \A i \in DOMAIN heard : heard[i].kind = 1901 =>
    /\ heard[i].twin.root = heard[i].root /\ heard[i].twin.at < heard[i].at
    /\ \E j \in 1..(i - 1) : heard[j] = heard[i].twin

=============================================================================
