---------------------------- MODULE CommandLine ----------------------------
(***************************************************************************)
(* The `sovereign` command line (sovereign-cli/src/main.rs) against the    *)
(* router of the node (node.rs): one request per command, the answer that  *)
(* is printed or cannot be read, the task command that polls, delegation,  *)
(* and the commands that stream, download and seal, each in its module.    *)
(* A command keeps nothing, and the four kinds share no state: a behaviour *)
(* explores one kind (scene).  A path is a sequence of segments, "ID" an   *)
(* argument and ":" a parameter of a route.                                *)
(***************************************************************************)
EXTENDS TwinStreams, SplatDownload, IpProvenance, TLC

CONSTANTS
    Callers,        \* commands that ask the node once, or poll a task
    Scenes,         \* the kinds of commands explored
    MaxRestarts     \* bound: restarts of the node in the scene of calls

VARIABLES
    scene,          \* view, download, seal or call
    called,         \* the command and its input; NoCall before
    outcome,        \* idle, sent, polling, printed or failed
    why,            \* history: why a command failed
    task,           \* at the node: the task a command submitted
    nodeUp,
    restarts

callVars == <<called, outcome, why, task, nodeUp, restarts>>
vars == <<scene, streamVars, downloadVars, provenanceVars, callVars>>

-----------------------------------------------------------------------------
Get(path) == [method |-> "GET", path |-> path]
Post(path) == [method |-> "POST", path |-> path]
Id == "ID"

StatusRequests ==
    [status |-> Get(<<"status">>), devices |-> Get(<<"devices">>), jobs |-> Get(<<"jobs">>),
     receipts |-> Get(<<"receipts">>), job |-> Get(<<"jobs", Id>>), receipt |-> Get(<<"receipts", Id>>)]

CaptureRequests == [capture |-> Post(<<"capture", Id>>)]
ToolRequests == [mcp |-> Post(<<"mcp">>)]
RegisterRequests == [device_register |-> Post(<<"devices", "register">>)]
EnvelopeRequests == [dip_send |-> Post(<<"dip", "inbound">>)]
DelegateRequests == [delegate |-> Post(<<"capture", "delegate">>)]
TaskRequests ==
    [a2a_agent |-> Get(<<"a2a", "agent">>), a2a_task |-> Post(<<"a2a", "tasks">>), a2a_poll |-> Get(<<"a2a", "tasks", Id>>)]

TileRequests ==
    [tiles |-> Get(<<"tiles">>), tile |-> Get(<<"tiles", Id, "receipts">>)]
TimelineRequests ==
    [timelines |-> Get(<<"timelines">>), timeline |-> Get(<<"twins", Id, "timeline">>),
     timeline_diff |-> Get(<<"twins", Id, "timeline", "diff">>)]
SwarmRequests ==
    [swarm |-> Post(<<"capture", "swarm">>), swarm_status |-> Get(<<"swarm", Id>>), swarm_list |-> Get(<<"swarm">>)]
LedgerRequests ==
    [peers |-> Get(<<"federation", "peers">>), merkle_root |-> Get(<<"receipts", "root">>),
     tile_economy |-> Get(<<"tiles", Id, "economy">>), gossip |-> Post(<<"dip", "gossip">>),
     ip_root |-> Get(<<"ip", "root">>), ip_receipt |-> Get(<<"ip", "receipt", Id>>),
     verify |-> Get(<<"receipts", "verify", Id>>), job_retry |-> Post(<<"jobs", Id, "retry">>)]

Proposals == <<"governance", "proposals">>
GovernanceRequests ==
    [proposals |-> Get(Proposals), propose |-> Post(Proposals), vote_for |-> Post(Proposals \o <<Id, "vote_for">>),
     vote_against |-> Post(Proposals \o <<Id, "vote_against">>), execute |-> Post(Proposals \o <<Id, "execute">>)]
OracleRequests ==
    [oracle |-> Get(<<"oracle", "today">>), oracle_day |-> Get(<<"oracle", "day", Id>>),
     emission_status |-> Get(<<"emission", "status">>), emission_claim |-> Post(<<"emission", "claim">>)]
WalletRequests ==
    [wallets |-> Get(<<"wallets">>), wallet |-> Get(<<"wallets", Id>>), wallet_credit |-> Post(<<"wallets", Id, "credit">>)]
ProofRequests ==
    [simulate |-> Post(<<"proofs", "simulation">>), proof |-> Get(<<"proofs", "simulation", Id>>),
     gaussian |-> Post(<<"proofs", "gaussian">>), physical |-> Post(<<"proofs", "physical">>),
     observation |-> Post(<<"proofs", "observation">>), observation_get |-> Get(<<"proofs", "observation", Id>>)]
LicenseRequests ==
    [licenses |-> Get(<<"licenses">>), licenses_for_twin |-> Get(<<"twins", Id, "licenses">>),
     license_issue |-> Post(<<"twins", Id, "licenses">>), license |-> Get(<<"licenses", Id>>),
     license_accept |-> Post(<<"licenses", Id, "accept">>)]
Sessions == <<"body", "sessions">>
BodyRequests ==
    [body_sessions |-> Get(Sessions), body_open |-> Post(Sessions), body_session |-> Get(Sessions \o <<Id>>),
     body_telemetry |-> Post(Sessions \o <<Id, "telemetry">>), body_close |-> Post(Sessions \o <<Id, "close">>),
     body_receipts |-> Get(<<"body", Id, "receipts">>), body_capabilities |-> Get(<<"body", "capabilities">>)]

\* A program with the client of sovereign-a2a rather than the command line.
ClientRequests ==
    [agent_card |-> Get(<<"a2a", "agent">>), submit_task |-> Post(<<"a2a", "tasks">>), get_task |-> Get(<<"a2a", "tasks", Id>>)]

Requests ==
    StatusRequests @@ CaptureRequests @@ ToolRequests @@ RegisterRequests @@ EnvelopeRequests @@ DelegateRequests
    @@ TaskRequests @@ TileRequests @@ TimelineRequests @@ SwarmRequests @@ LedgerRequests @@ GovernanceRequests
    @@ OracleRequests @@ WalletRequests @@ ProofRequests @@ LicenseRequests @@ BodyRequests @@ ClientRequests

\* The routes of the node and of the router nested under /a2a.
TaskRoutes ==
    {Get(<<"a2a", "agent">>), Post(<<"a2a", "tasks">>), Get(<<"a2a", "tasks", ":">>), Post(<<"a2a", "tasks", ":", "cancel">>)}
Routes == TaskRoutes \cup
    {Get(p) : p \in {<<"health">>, <<"status">>, <<"devices">>, <<"devices", ":">>, <<"jobs">>, <<"jobs", ":">>,
        <<"config", "check">>, <<"receipts">>, <<"receipts", "root">>, <<"receipts", "export">>, <<"receipts", ":">>,
        <<"receipts", "verify", ":">>, <<"dip", "did">>, <<"ws", "twin", ":">>, <<"ws", "splat", ":">>,
        <<"events", "receipts">>, <<"events", "jobs">>, <<"swarm">>, <<"swarm", ":">>}}
    \cup {Post(p) : p \in {<<"devices", "register">>, <<"capture", ":">>, <<"capture", "delegate">>, <<"capture", "swarm">>,
        <<"jobs", ":", "retry">>, <<"dip", "inbound">>, <<"dip", "gossip">>, <<"mcp">>}}
    \cup {[method |-> "DELETE", path |-> <<"devices", ":">>]}

Routed(request) == \E r \in Routes :
    /\ r.method = request.method /\ Len(r.path) = Len(request.path)
    /\ \A i \in DOMAIN r.path : r.path[i] \in {":", request.path[i]}

\* What a user may hand over: a good input, JSON that is not what the node
\* expects, or no JSON.  A delegation without a hint sends a null for it.
Inputs(k) ==
    CASE k \in {"device_register", "dip_send", "observation"} -> {"good", "shape", "broken"}
      [] k = "mcp" -> {"good", "broken"}
      [] k = "delegate" -> {"good", "shape"}
      [] OTHER -> {"good"}

\* Arguments of a tool that are no JSON are replaced by an empty object.
Unreadable(k, input) == input = "broken" /\ k # "mcp"

-----------------------------------------------------------------------------
NoCall == [command |-> "none", input |-> "good"]
SubmitsTask == {"a2a_task", "submit_task"}
Waiting == {"sent", "polling"}

CallInit ==
    /\ called = [c \in Callers |-> NoCall]
    /\ outcome = [c \in Callers |-> "idle"]
    /\ why = [c \in Callers |-> "-"]
    /\ task = [c \in Callers |-> "none"]
    /\ nodeUp = TRUE
    /\ restarts = 0

End(c, o, reason) ==
    /\ outcome' = [outcome EXCEPT ![c] = o]
    /\ why' = [why EXCEPT ![c] = reason]

Call(c, k, input) ==
    /\ outcome[c] = "idle"
    /\ called' = [called EXCEPT ![c] = [command |-> k, input |-> input]]
    /\ IF Unreadable(k, input) THEN End(c, "failed", "input") ELSE End(c, "sent", "-")
    /\ UNCHANGED <<task, nodeUp, restarts>>

\* The node answers in JSON, also that it cannot do what it is asked, unless no
\* route or no handler takes the request.
Answer(c) ==
    LET k == called[c].command
        taken == Routed(Requests[k]) /\ called[c].input # "shape"
    IN  /\ outcome[c] = "sent" /\ nodeUp
        /\ IF ~taken
           THEN End(c, "failed", IF Routed(Requests[k]) THEN "rejected" ELSE "unserved") /\ UNCHANGED task
           ELSE IF k \in SubmitsTask
           THEN /\ task' = [task EXCEPT ![c] = "submitted"]
                /\ End(c, "polling", "-")
           ELSE End(c, "printed", "-") /\ UNCHANGED task
        /\ UNCHANGED <<called, nodeUp, restarts>>

\* Of all commands delegate alone looks at the status of the answer.
DelegationFails(c) ==
    /\ outcome[c] = "sent" /\ nodeUp
    /\ called[c] = [command |-> "delegate", input |-> "good"]
    /\ End(c, "failed", "refused")
    /\ UNCHANGED <<called, task, nodeUp, restarts>>

\* No connection, or thirty seconds without an answer.
CallFails(c) ==
    /\ outcome[c] \in Waiting
    /\ End(c, "failed", "unanswered")
    /\ UNCHANGED <<called, task, nodeUp, restarts>>

(* Mutant: a task that is canceled is polled on. *)
TerminalButCanceled == {"completed", "failed", "input_required"}

TerminalStates == {"completed", "failed", "canceled", "input_required"}

\* An unknown task has no state: the command goes on, the client fails.
PollTask(c) ==
    /\ outcome[c] = "polling" /\ nodeUp
    /\ IF called[c].command = "a2a_task"
       THEN task[c] \in TerminalStates /\ End(c, "printed", "-")
       ELSE \/ task[c] \in {"completed", "failed", "canceled"} /\ End(c, "printed", "-")
            \/ task[c] = "lost" /\ End(c, "failed", "unknown")
    /\ UNCHANGED <<called, task, nodeUp, restarts>>

PollDeadline(c) ==
    /\ outcome[c] = "polling" /\ called[c].command = "submit_task"
    /\ End(c, "failed", "deadline")
    /\ UNCHANGED <<called, task, nodeUp, restarts>>

\* The node works on a task, and whoever knows its id may cancel it.
WorkOnTask(c) ==
    /\ nodeUp
    /\ \/ task[c] = "submitted" /\ task' = [task EXCEPT ![c] = "working"]
       \/ task[c] = "working" /\ \E s \in {"completed", "failed"} : task' = [task EXCEPT ![c] = s]
    /\ UNCHANGED <<called, outcome, why, nodeUp, restarts>>

CancelTask(c) ==
    /\ nodeUp /\ task[c] \in {"submitted", "working"}
    /\ task' = [task EXCEPT ![c] = "canceled"]
    /\ UNCHANGED <<called, outcome, why, nodeUp, restarts>>

NodeStops ==
    /\ nodeUp /\ restarts < MaxRestarts
    /\ nodeUp' = FALSE
    /\ UNCHANGED <<called, outcome, why, task, restarts>>

\* Tasks are kept in memory only.
NodeStarts ==
    /\ ~nodeUp
    /\ nodeUp' = TRUE
    /\ restarts' = restarts + 1
    /\ task' = [c \in Callers |-> IF task[c] = "none" THEN "none" ELSE "lost"]
    /\ UNCHANGED <<called, outcome, why>>

\* The program is looked for in the path alone: the second candidate, a local
\* build, is never reached.
Installs == {"path", "build", "nowhere"}
Finetune(c, installed, code) ==
    /\ outcome[c] = "idle"
    /\ called' = [called EXCEPT ![c] = [command |-> "finetune", input |-> installed]]
    /\ IF installed = "path" /\ code = 0 THEN End(c, "printed", "-") ELSE End(c, "failed", "subprocess")
    /\ UNCHANGED <<task, nodeUp, restarts>>

CommandStep(c) == Answer(c) \/ DelegationFails(c) \/ CallFails(c) \/ PollTask(c) \/ PollDeadline(c)

CallNext ==
    \/ NodeStops \/ NodeStarts
    \/ \E c \in Callers :
        \/ \E k \in DOMAIN Requests : \E input \in Inputs(k) : Call(c, k, input)
        \/ \E i \in Installs, code \in {0, 1} : Finetune(c, i, code)
        \/ CommandStep(c) \/ WorkOnTask(c) \/ CancelTask(c)

-----------------------------------------------------------------------------
Init == scene \in Scenes /\ StreamInit /\ DownloadInit /\ ProvenanceInit /\ CallInit

\* A step of one kind of command leaves the state of the others alone.
Viewing(A) == scene = "view" /\ A /\ UNCHANGED <<scene, downloadVars, provenanceVars, callVars>>
Downloading(A) == scene = "download" /\ A /\ UNCHANGED <<scene, streamVars, provenanceVars, callVars>>
Sealing(A) == scene = "seal" /\ A /\ UNCHANGED <<scene, streamVars, downloadVars, callVars>>
Calling(A) == scene = "call" /\ A /\ UNCHANGED <<scene, streamVars, downloadVars, provenanceVars>>

Next == Viewing(StreamNext) \/ Downloading(DownloadNext) \/ Sealing(ProvenanceNext) \/ Calling(CallNext)

\* A command that runs takes its next step; the node starts again when it was
\* stopped and works on its tasks (A2ATask shows that they settle).
Fairness ==
    /\ WF_vars(Calling(NodeStarts))
    /\ \A c \in Callers :
        /\ WF_vars(Calling(Answer(c))) /\ WF_vars(Calling(PollTask(c))) /\ WF_vars(Calling(WorkOnTask(c)))
    /\ \A c \in Downloads : WF_vars(Downloading(DownloadStep(c)))
    /\ \A p \in Provers : WF_vars(Sealing(ProvenanceStep(p)))

Spec == Init /\ [][Next]_vars /\ Fairness

-----------------------------------------------------------------------------
\* Every command that asks, downloads or seals comes to its end, also when the
\* node is stopped under it; only the task command can wait for ever, and only
\* on a task the node forgot in a restart (main.rs:1294-1327, 1450-1498, 1541-1557).
EveryCommandEnds ==
    /\ \A c \in Callers :
        outcome[c] \in Waiting ~> (outcome[c] \notin Waiting \/ (called[c].command = "a2a_task" /\ task[c] = "lost"))
    /\ \A c \in Downloads : stage[c] = "asked" ~> stage[c] \in {"reported", "failed"}
    /\ \A p \in Provers : ipStage[p] = "publishing" ~> ipStage[p] \in {"done", "failed"}

\* "List all 256 Odù tiles with receipt counts" (main.rs:126) and the other
\* commands the help text offers: a good command that reaches the node is answered.
CommandIsServed == \A c \in Callers : why[c] # "unserved"

=============================================================================
