----------------------------- MODULE TrustTiers -----------------------------
(***************************************************************************)
(* The trust tiers of sovereign-types/src/tier.rs and the embodiment they  *)
(* allow, vcp/src/body.rs: proofs add to the score of a domain, the scores *)
(* make an agent eligible for a tier, and the tier opens sessions and      *)
(* capabilities of a body.  A score is a natural number here.              *)
(***************************************************************************)
EXTENDS Naturals, FiniteSets

CONSTANTS
    Workers,        \* agents
    Deltas,         \* what is added at once; a large one stands for many proofs
    MaxEvaluations, MaxSessions     \* bounds

ASSUME TierAssumption == Deltas \subseteq Nat /\ MaxEvaluations \in Nat /\ MaxSessions \in Nat

VARIABLES
    scores,         \* agent -> ProofVector
    evaluations,    \* how many proofs were evaluated
    sessions,       \* the BodySessions that were opened
    granted         \* agent -> capabilities it was granted

tierVars == <<scores, evaluations, sessions, granted>>

ProofDomains == {"simulation", "spatial", "work", "witness", "physical"}
Tiers == 0..5
Modes == {"supervised", "autonomous", "replay"}

TierInit ==
    /\ scores = [a \in Workers |-> [d \in ProofDomains |-> 0]]
    /\ evaluations = 0
    /\ sessions = {}
    /\ granted = [a \in Workers |-> {}]

MinProofScore == <<0, 10, 50, 250, 1250, 10000>>
Aggregate(v) == v.simulation + v.spatial + v.work + v.witness + v.physical

\* What a tier asks for beside the aggregate.
Needs(tier, v) ==
    CASE tier = 5 -> v.simulation >= 2000 /\ v.spatial >= 1000 /\ v.physical >= 500
      [] tier = 4 -> v.simulation >= 400 /\ v.spatial >= 200
      [] tier = 3 -> v.simulation >= 80
      [] OTHER -> TRUE

\* The highest tier whose conditions hold, whatever the tiers below ask for.
EligibleTier(v) ==
    LET open == {t \in Tiers : Aggregate(v) >= MinProofScore[t + 1] /\ Needs(t, v)}
    IN  CHOOSE t \in open : \A u \in open : u <= t

(* Mutant: the score of a domain is set. *)
ScoreSet(v, d, delta) == [v EXCEPT ![d] = delta]

AddScore(v, d, delta) == [v EXCEPT ![d] = @ + delta]

\* A proof whose value is at most one adds nothing (ln, cut at zero).
Evaluate(a, d, delta) ==
    /\ evaluations < MaxEvaluations
    /\ evaluations' = evaluations + 1
    /\ scores' = [scores EXCEPT ![a] = AddScore(@, d, delta)]
    /\ UNCHANGED <<sessions, granted>>

ModeAllowed(mode, tier) ==
    CASE mode = "supervised" -> tier >= 4
      [] OTHER -> tier = 5

\* A session keeps the tier of the moment it was opened.
OpenBody(a, mode) ==
    LET tier == EligibleTier(scores[a])
    IN  /\ Cardinality(sessions) < MaxSessions
        /\ ModeAllowed(mode, tier)
        /\ sessions' = sessions \cup {[agent |-> a, tier |-> tier, mode |-> mode]}
        /\ UNCHANGED <<scores, evaluations, granted>>

\* The capabilities of the StampFly: the tier and whether a simulation proof is asked for.
Sensors == {"sensor.imu", "sensor.altitude", "sensor.distance", "sensor.battery"}
StampflyCapabilities ==
    {[id |-> s, tier |-> 0, proof |-> FALSE] : s \in Sensors \cup {"flight.emergency_stop"}}
    \cup {[id |-> "flight.arm", tier |-> 2, proof |-> FALSE], [id |-> "flight.takeoff", tier |-> 3, proof |-> TRUE],
          [id |-> "flight.navigate", tier |-> 4, proof |-> TRUE], [id |-> "flight.land", tier |-> 3, proof |-> FALSE],
          [id |-> "flight.autonomous_mission", tier |-> 5, proof |-> TRUE]}

Grantable(tier, proof) == {c.id : c \in {x \in StampflyCapabilities : x.tier <= tier /\ (x.proof => proof)}}

Grant(a, proof) ==
    LET ids == Grantable(EligibleTier(scores[a]), proof)
    IN  /\ ids # granted[a]
        /\ granted' = [granted EXCEPT ![a] = ids]
        /\ UNCHANGED <<scores, evaluations, sessions>>

TierNext == \E a \in Workers :
    \/ \E d \in ProofDomains, delta \in Deltas : Evaluate(a, d, delta)
    \/ \E mode \in Modes : OpenBody(a, mode)
    \/ \E proof \in BOOLEAN : Grant(a, proof)

TierSpec == TierInit /\ [][TierNext]_tierVars

-----------------------------------------------------------------------------
\* An embodiment once earned stays earned: a session never has a tier its agent is
\* no longer eligible for, nor a capability that it could not be granted again,
\* though the tier is looked at only when it is opened or granted (tier.rs:146-181,
\* body.rs:75-110, 235-247).
EmbodimentStaysEarned ==
    /\ \A s \in sessions : s.tier <= EligibleTier(scores[s.agent]) /\ ModeAllowed(s.mode, EligibleTier(scores[s.agent]))
    /\ \A a \in Workers : granted[a] \subseteq Grantable(EligibleTier(scores[a]), TRUE)

=============================================================================
