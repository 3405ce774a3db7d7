-------------------------- MODULE SovereignRuntime --------------------------
(***************************************************************************)
(* One process that embeds sovereign-runtime and sovereign-os: it begins   *)
(* acts for principals, asks the safety supervisor before it moves, makes  *)
(* a receipt of every act, signs it, and links the agent's receipts in a   *)
(* chain.  The crates are libraries whose callers are not in the           *)
(* repository, so the callers' order is free: acts run side by side        *)
(* (run_sovereign awaits the caller's function), and every call that the   *)
(* types allow at a point may be made there.                               *)
(*                                                                         *)
(* Hashes are injective: a hash is what it is a hash of.  A signature is   *)
(* the payload it was made over.                                           *)
(***************************************************************************)
EXTENDS Naturals, Sequences

CONSTANTS
    Acts,       \* the acts of a behaviour, one work unit each
    Requests,   \* what each act may be: [principal, cap, action, resource, params]
    Commands,   \* what an act may ask of the actuators
    Results,    \* what the function of an act may return
    Works,      \* work ids a caller may attach besides the generated ones
    NoCap,      \* a request that comes without a capability
    None,       \* absence of a context, verdict, receipt, link or signature
    Settings,   \* the tiers an operator chooses
    MaxTime     \* bound of the clock

Tiers == {"development", "production", "critical_zone", "emergency_stop"}
Verdicts == {"clear", "conditional", "blocked", "halt"}

\* SafetyLevel, in its order.
Standard == 2
Elevated == 3

ASSUME RuntimeAssumption == MaxTime \in Nat /\ None \notin Verdicts /\ None \notin Acts /\ Settings \subseteq Tiers

VARIABLES
    now,        \* the caller's clock
    stopped,    \* SafetySupervisor.emergency_stop_active
    tier,       \* SafetySupervisor.tier, a public field
    ctx,        \* the live ExecutionContext of an act
    verdict,    \* the last verdict given for an act
    moved,      \* the acts whose command reached the actuators
    receipt,    \* the ActionReceipt of an act
    draft,      \* its AgentActReceipt before it is pushed
    chain,      \* the ActReceiptChain
    undone      \* history: what an operator did since the last stop

supervision == <<stopped, tier, undone>>
vars == <<now, supervision, ctx, verdict, moved, receipt, draft, chain>>

Init ==
    /\ now = 0
    /\ stopped = FALSE
    /\ tier \in Settings \ {"emergency_stop"}
    /\ ctx = [a \in Acts |-> None]
    /\ verdict = [a \in Acts |-> None]
    /\ moved = {}
    /\ receipt = [a \in Acts |-> None]
    /\ draft = [a \in Acts |-> None]
    /\ chain = <<>>
    /\ undone = {"cleared", "reconfigured"}

-----------------------------------------------------------------------------
(* Authorization.                                                          *)

\* Every constraint of a capability but windows of time and empty fences is
\* let through.
ConstraintsMet(c, t) == t \in c.window /\ ~ c.emptyFence

Granted(p, c, action, resource, t) ==
    /\ c.grantedTo = p.id
    /\ c.action = action
    /\ resource \in c.covers
    /\ t <= c.expiresAt
    /\ c.level <= p.ceiling
    /\ ConstraintsMet(c, t)

\* ExecutionEngine::begin looks at the capability only if there is one.
MayBegin(r, t) ==
    /\ r.principal.valid
    /\ r.cap # NoCap => Granted(r.principal, r.cap, r.action, r.resource, t)

-----------------------------------------------------------------------------
(* Action receipts.                                                        *)

\* The fields a receipt id is computed from, and those a signature covers.
IdFields == {"work", "principal", "action", "inHash", "outHash", "completed"}
SignedFields == IdFields \cup {"id", "resource", "cap", "evidence", "outcome", "started"}

Project(r, fields) == [f \in fields |-> r[f]]

WithId(r) == [r EXCEPT !.id = Project(r, IdFields)]

NewReceipt(a, c, outcome, result, t) ==
    WithId([id |-> None, work |-> a, principal |-> c.request.principal,
            action |-> c.request.action, resource |-> c.request.resource,
            cap |-> c.request.cap, params |-> c.request.params, result |-> result,
            outcome |-> outcome, inHash |-> c.request.params, outHash |-> result,
            evidence |-> c.evidence, started |-> c.started, completed |-> t,
            sig |-> None])

\* A denial names neither the capability nor the parameters.
Denied(a, r, t) ==
    NewReceipt(a, [request |-> [r EXCEPT !.cap = NoCap, !.params = None],
                   evidence |-> 0, started |-> t], "denied", None, t)

(* Mutant: the hashes are not compared with the payloads. *)
ConformantWithoutPayload(r) ==
    /\ r.id = Project(r, IdFields)
    /\ r.outcome # "denied" => r.sig # None

IsSep1Conformant(r) ==
    /\ r.inHash = r.params
    /\ r.outHash = r.result
    /\ r.id = Project(r, IdFields)
    /\ r.outcome # "denied" => r.sig # None

-----------------------------------------------------------------------------
(* The supervisor.                                                         *)

CheckProduction(cmd) ==
    IF \/ cmd.level > Elevated
       \/ cmd.physical /\ cmd.magnitude > 85
    THEN "blocked"
    ELSE "clear"

Evaluation(cmd) ==
    CASE stopped \/ tier = "emergency_stop" -> "halt"
      [] ~ stopped /\ tier = "development" -> "conditional"
      [] ~ stopped /\ tier = "production" -> CheckProduction(cmd)
      [] ~ stopped /\ tier = "critical_zone" ->
            IF cmd.magnitude > 25 THEN "blocked" ELSE CheckProduction(cmd)

IsClear(v) == v \in {"clear", "conditional"}

Fresh(a) == ctx[a] = None /\ receipt[a] = None

\* Bound: what the supervisor is told when no act can move any more is of no
\* consequence.
Awaited == \E a \in Acts :
    ctx[a] # None \/ (Fresh(a) /\ \E r \in Requests[a] : MayBegin(r, now))

EmergencyStop ==
    /\ Awaited
    /\ stopped' = TRUE
    /\ tier' = "emergency_stop"
    /\ undone' = {}
    /\ UNCHANGED <<now, ctx, verdict, moved, receipt, draft, chain>>

(* Mutant: clearing an emergency also restores the tier. *)
RestoredTier == IF tier = "emergency_stop" THEN "production" ELSE tier

ClearedTier == tier

ClearEmergency ==
    /\ Awaited
    /\ stopped' = FALSE
    /\ tier' = ClearedTier
    /\ undone' = undone \cup {"cleared"}
    /\ UNCHANGED <<now, ctx, verdict, moved, receipt, draft, chain>>

\* The operator writes the field.
Reconfigure(t) ==
    /\ Awaited
    /\ tier' = t
    /\ undone' = IF t = "emergency_stop" THEN undone \ {"reconfigured"}
                                         ELSE undone \cup {"reconfigured"}
    /\ UNCHANGED <<now, stopped, ctx, verdict, moved, receipt, draft, chain>>

-----------------------------------------------------------------------------
(* An act.                                                                 *)

Begin(a, r) ==
    /\ Fresh(a)
    /\ IF MayBegin(r, now)
       THEN /\ ctx' = [ctx EXCEPT ![a] = [request |-> r, evidence |-> 0, started |-> now]]
            /\ UNCHANGED receipt
       ELSE /\ receipt' = [receipt EXCEPT ![a] = Denied(a, r, now)]
            /\ UNCHANGED ctx
    /\ UNCHANGED <<now, supervision, verdict, moved, draft, chain>>

AddEvidence(a) ==
    /\ ctx[a] # None /\ ctx[a].evidence = 0
    /\ ctx' = [ctx EXCEPT ![a].evidence = 1]
    /\ UNCHANGED <<now, supervision, verdict, moved, receipt, draft, chain>>

Evaluate(a, cmd) ==
    /\ ctx[a] # None /\ a \notin moved
    /\ verdict' = [verdict EXCEPT ![a] = Evaluation(cmd)]
    /\ UNCHANGED <<now, supervision, ctx, moved, receipt, draft, chain>>

\* The verdict is a value the caller holds; a stop in between does not take it back.
Actuate(a) ==
    /\ ctx[a] # None /\ verdict[a] # None
    /\ moved' = IF IsClear(verdict[a]) THEN moved \cup {a} ELSE moved
    /\ verdict' = [verdict EXCEPT ![a] = None]
    /\ UNCHANGED <<now, supervision, ctx, receipt, draft, chain>>

\* run_sovereign passes the time at which the act began; a caller of complete
\* or fail passes its own.
EndAct(a, outcome, result, t) ==
    /\ ctx[a] # None /\ t \in {ctx[a].started, now}
    /\ receipt' = [receipt EXCEPT ![a] = NewReceipt(a, ctx[a], outcome, result, t)]
    /\ ctx' = [ctx EXCEPT ![a] = None]
    /\ verdict' = [verdict EXCEPT ![a] = None]
    /\ UNCHANGED <<now, supervision, moved, draft, chain>>

CompleteAct(a, result, t) == EndAct(a, "success", result, t)
FailAct(a, t) == EndAct(a, "failure", None, t)

\* The receipt as long as its holder has not made it the base of an act receipt.
\* Bound: denials, which need no signature, are handed on as they are.
Holds(a) ==
    receipt[a] # None /\ draft[a] = None /\ \A i \in DOMAIN chain : chain[i].id # a

Rewrite(a, r) ==
    /\ Holds(a) /\ receipt[a].outcome # "denied"
    /\ receipt' = [receipt EXCEPT ![a] = r]
    /\ UNCHANGED <<now, supervision, ctx, verdict, moved, draft, chain>>

Sign(a) == Rewrite(a, [receipt[a] EXCEPT !.sig = Project(receipt[a], SignedFields)])
WithWorkId(a, w) ==
    /\ Holds(a) /\ receipt[a].work = a
    /\ Rewrite(a, WithId([receipt[a] EXCEPT !.work = w]))
\* The fields are public; the conformance tests write the result of a signed receipt.
SetResult(a, result) ==
    /\ Holds(a) /\ receipt[a].sig # None
    /\ Rewrite(a, [receipt[a] EXCEPT !.result = result])

-----------------------------------------------------------------------------
(* The agent's receipts.                                                   *)

\* `signedAt` is history: how long the chain was when the receipt, linked to
\* the chain's last, was signed.
\* Bound: chaining starts after the acts have ended, with which it shares no state.
NewActReceipt(a) ==
    /\ \A b \in Acts : receipt[b] # None
    /\ Holds(a) /\ IsSep1Conformant(receipt[a])
    /\ draft' = [draft EXCEPT ![a] =
                    [id |-> a, action |-> receipt[a].id, prev |-> None, sig |-> None, signedAt |-> 0]]
    /\ UNCHANGED <<now, supervision, ctx, verdict, moved, receipt, chain>>

Latest == chain[Len(chain)]

\* A caller that wants the link signed must set it, and sign, before the push.
LinkDraft(a) ==
    /\ draft[a] # None /\ chain # <<>>
    /\ draft' = [draft EXCEPT ![a].prev = Latest.id]
    /\ UNCHANGED <<now, supervision, ctx, verdict, moved, receipt, chain>>

ActPayload(d) == <<d.id, d.prev>>

\* Bound: a draft is signed once; a second signature replaces the first.
SignDraft(a) ==
    /\ draft[a] # None /\ draft[a].sig = None
    /\ LET d == draft[a]
           current == chain # <<>> /\ d.prev = Latest.id
       IN  draft' = [draft EXCEPT ![a].sig = ActPayload(d),
                                  ![a].signedAt = IF current THEN Len(chain) ELSE 0]
    /\ UNCHANGED <<now, supervision, ctx, verdict, moved, receipt, chain>>

(* Mutant: a receipt that has a link keeps it. *)
LinkedIfUnlinked(d) ==
    IF chain = <<>> \/ d.prev # None THEN d ELSE [d EXCEPT !.prev = Latest.id]

Linked(d) == IF chain = <<>> THEN d ELSE [d EXCEPT !.prev = Latest.id]

Push(a) ==
    /\ draft[a] # None
    /\ chain' = Append(chain, Linked(draft[a]))
    /\ draft' = [draft EXCEPT ![a] = None]
    /\ UNCHANGED <<now, supervision, ctx, verdict, moved, receipt>>

Tick ==
    /\ now < MaxTime
    /\ now' = now + 1
    /\ UNCHANGED <<supervision, ctx, verdict, moved, receipt, draft, chain>>

Next ==
    \/ EmergencyStop \/ ClearEmergency \/ Tick
    \/ \E t \in Settings : Reconfigure(t)
    \/ \E a \in Acts :
        \/ \E r \in Requests[a] : Begin(a, r)
        \/ AddEvidence(a) \/ Actuate(a)
        \/ \E cmd \in Commands : Evaluate(a, cmd)
        \/ \E t \in 0..MaxTime : FailAct(a, t) \/ \E v \in Results : CompleteAct(a, v, t)
        \/ Sign(a)
        \/ \E w \in Works : WithWorkId(a, w)
        \/ \E v \in Results : SetResult(a, v)
        \/ NewActReceipt(a) \/ LinkDraft(a) \/ SignDraft(a) \/ Push(a)

Spec == Init /\ [][Next]_vars

-----------------------------------------------------------------------------
(* Properties.                                                             *)

RuntimeTypeOK ==
    /\ now \in 0..MaxTime /\ stopped \in BOOLEAN /\ tier \in Tiers
    /\ \A a \in Acts : verdict[a] \in Verdicts \cup {None}
    /\ \A a \in Acts : ctx[a] # None => receipt[a] = None /\ ctx[a].started \in 0..now

\* After an emergency stop no command is let through until the operator has
\* both cleared the emergency and set a tier again, in whichever order, and
\* has not been overtaken by another stop (safety.rs:77-93).
StopHolds ==
    [][\A a \in Acts : ~ IsClear(verdict[a]) /\ IsClear(verdict'[a])
            => undone = {"cleared", "reconfigured"}]_vars

\* A receipt that passes the conformance gate and is signed reports what was
\* signed: its payloads, outcome and times are those of the act, whatever was
\* written to it and whichever builders ran in between (receipt.rs:363-415).
SignedPayloadStands ==
    \A a \in Acts : LET r == receipt[a] IN
        r # None /\ IsSep1Conformant(r) /\ r.sig # None =>
            /\ r.result = r.sig.outHash /\ r.params = r.sig.inHash
            /\ r.outcome = r.sig.outcome /\ r.evidence = r.sig.evidence

\* The agent's chain verifies however its pushes interleave, and the signature
\* of a receipt that was linked and signed, and overtaken by no push, still covers
\* its link (act_receipt.rs:144-183).
ActPayloadHolds(i) ==
    chain[i].signedAt = i - 1 => chain[i].sig = ActPayload(chain[i])

ChainHolds ==
    /\ \A i \in 2..Len(chain) : chain[i].prev = chain[i - 1].id
    /\ \A i \in 2..Len(chain) : ActPayloadHolds(i)

=============================================================================
