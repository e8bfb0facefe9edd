-------------------------- MODULE DeploymentSession --------------------------
(***************************************************************************)
(* LLMDEPLOYER: its sessions, kept in memory, and the orchestrations that  *)
(* submit_answers leaves behind.  One event loop runs them together with   *)
(* the handlers of SessionSockets.                                         *)
(*                                                                         *)
(* An orchestration is a program whose steps are nearly all a              *)
(* send_to_session: `Script' says of each what it sends, which status is   *)
(* set before or after it, and where the program goes on when it returns   *)
(* or raises.  A send is at least one action, also when there is nobody to *)
(* send to and the code does not wait.                                     *)
(***************************************************************************)
EXTENDS SessionSockets

CONSTANTS
    MaxIterations,   \* MAX_ITERATIONS of the agent
    MaxTools         \* bound: tool calls in one answer of the model

ASSUME AgentAssumption == MaxIterations \in Nat \ {0} /\ MaxTools \in Nat \ {0}

\* The orchestrations that may be started; each is a sender of its own.
Runs == Senders

VARIABLES
    status,          \* the status of each session
    lastEnd,         \* what the orchestrator's messages say of the last submission
    agentEnd,        \* what the agent's own messages say of it
    run,             \* the orchestrations
    registry,        \* _sandboxes: whose sandbox a session has
    kept,            \* sandboxes created and not asked to be deleted
    overlapped       \* the sessions that ever had two orchestrations at once

vars == <<socketVars, status, lastEnd, agentEnd, run, registry, kept, overlapped>>

-----------------------------------------------------------------------------
\* Records.

None == "NONE"

Status == {None, "created", "analyzing", "deploying", "executing", "completed", "failed"}

Ended == {"completed", "failed"}

\* The steps that send, those that wait for something else, and the ends.
Sends == {"ready", "deploying", "analyzing", "greeting", "text", "executing",
          "running", "result", "exhausted", "agent_done", "farewell",
          "agent_failed", "apology", "complete", "error"}

Pc == Sends \cup {"idle", "start", "ask", "tool", "cleanup", "done"}

\* `turn' counts the model's answers, `tools' the tool calls still to make.
RunRecord == [pc : Pc, session : Sessions \cup {Nobody}, turn : Nat, tools : Nat]

Idle == [pc |-> "idle", session |-> Nobody, turn |-> 0, tools |-> 0]

Active(r) == run[r].pc \notin {"idle", "done"}

Busy(s) == \E r \in Runs : Active(r) /\ run[r].session = s

Goto(r, pc) == run' = [run EXCEPT ![r].pc = pc]

Same == "SAME"

Set(s, new) == status' = [status EXCEPT ![s] = IF new = Same THEN @ ELSE new]

-----------------------------------------------------------------------------
\* The script.

Say(before, after, next, raised) ==
    [before |-> before, after |-> after, next |-> next, raised |-> raised]

\* Mutant of OnMessage: what its send raises is swallowed.
OnMessageSwallows(next) == Say(Same, Same, next, next)

\* on_status sends first and then sets; on_message only sends.  Both are called
\* inside the try block of the agent, except where it reports its own failure.
OnStatus(new, next) == Say(Same, new, next, "agent_failed")

OnMessage(next) == Say(Same, Same, next, "agent_failed")

\* Where the program goes on after the text and after a tool of an answer.
AfterText(record) == IF record.tools > 0 THEN "executing" ELSE "agent_done"

AfterTool(record) ==
    IF record.tools > 1 THEN "executing"
    ELSE IF record.turn < MaxIterations THEN "ask" ELSE "exhausted"

AgentScript(record) ==
    [analyzing    |-> OnStatus("analyzing", "greeting"),
     greeting     |-> OnMessage("ask"),
     text         |-> OnMessage(AfterText(record)),
     executing    |-> OnStatus("executing", "running"),
     running      |-> OnMessage("tool"),
     result       |-> OnMessage(AfterTool(record)),
     exhausted    |-> OnMessage("agent_done"),
     agent_done   |-> OnStatus("completed", "farewell"),
     farewell     |-> OnMessage("complete"),
     agent_failed |-> Say(Same, "failed", "apology", "error"),
     apology      |-> Say(Same, Same, "complete", "error")]

\* Mutant of OrchestratorScript: the except clause does not set the status.
ScriptKeepsStatus ==
    [ready     |-> Say(Same, Same, "deploying", "deploying"),
     deploying |-> Say("deploying", Same, "analyzing", "error"),
     complete  |-> Say("completed", Same, "cleanup", "error"),
     error     |-> Say(Same, Same, "cleanup", "cleanup")]

\* The agent returns also when it has failed, and the orchestrator goes on to
\* "complete".  What the error message raises leaves through finally.
OrchestratorScript ==
    [ready     |-> Say(Same, Same, "deploying", "deploying"),
     deploying |-> Say("deploying", Same, "analyzing", "error"),
     complete  |-> Say("completed", Same, "cleanup", "error"),
     error     |-> Say("failed", Same, "cleanup", "cleanup")]

Script(r) ==
    IF run[r].pc \in DOMAIN OrchestratorScript THEN OrchestratorScript[run[r].pc]
    ELSE AgentScript(run[r])[run[r].pc]

-----------------------------------------------------------------------------
\* The calls.  A session that does not exist is answered 404.

CreateSession(s) ==
    /\ status[s] = None
    /\ Set(s, "created")
    /\ UNCHANGED <<socketVars, lastEnd, agentEnd, run, registry, kept, overlapped>>

\* Complete answers become the requirements, whatever the status is.
SubmitAnswers(r, s) ==
    /\ status[s] # None
    /\ run[r].pc = "idle"
    /\ run' = [run EXCEPT ![r] = [Idle EXCEPT !.pc = "start", !.session = s]]
    /\ Set(s, "analyzing")
    /\ lastEnd' = [lastEnd EXCEPT ![s] = None]
    /\ agentEnd' = [agentEnd EXCEPT ![s] = None]
    /\ overlapped' = IF Busy(s) THEN overlapped \cup {s} ELSE overlapped
    /\ UNCHANGED <<socketVars, registry, kept>>

-----------------------------------------------------------------------------
\* Orchestrations.

\* Mutant of Start: the sandbox is not entered in the table.
StartFilesNothing(r) ==
    /\ run[r].pc = "start"
    /\ kept' = kept \cup {r}
    /\ Goto(r, "ready")
    /\ UNCHANGED <<socketVars, status, lastEnd, agentEnd, registry, overlapped>>

\* create_sandbox blocks the loop; if it fails the deployment goes on without.
Start(r) ==
    LET s == run[r].session IN
    /\ run[r].pc = "start"
    /\ \/ /\ registry' = [registry EXCEPT ![s] = r]
          /\ kept' = kept \cup {r}
          /\ Goto(r, "ready")
       \/ /\ UNCHANGED <<registry, kept>>
          /\ Goto(r, "deploying")
    /\ UNCHANGED <<socketVars, status, lastEnd, agentEnd, overlapped>>

\* A message that tells of an end is now in the log of the session.
Logged(s, pc) ==
    /\ lastEnd' = [lastEnd EXCEPT ![s] = IF pc \in {"complete", "error"} THEN pc ELSE @]
    /\ agentEnd' = [agentEnd EXCEPT ![s] = IF pc \in {"farewell", "apology"} THEN pc ELSE @]

\* The send has returned: its message is in the log of the session.
Said(r) ==
    LET s == run[r].session
        pc == run[r].pc IN
    /\ run' = [run EXCEPT ![r].pc = Script(r).next,
                          ![r].tools = IF pc = "result" THEN @ - 1 ELSE @]
    /\ Logged(s, pc)
    /\ Set(s, Script(r).after)

\* The send has raised, and its message is not in the log.
Unsaid(r) == Goto(r, Script(r).raised) /\ UNCHANGED <<lastEnd, agentEnd, status>>

BeginSend(r) ==
    /\ run[r].pc \in Sends /\ ~Walking(r)
    /\ listeners[run[r].session] # <<>>
    /\ BeginWalk(r, run[r].session)
    /\ Set(run[r].session, Script(r).before)
    /\ UNCHANGED <<lastEnd, agentEnd, run, registry, kept, overlapped>>

\* Nobody listens: the message goes to the log only.
SendToNobody(r) ==
    LET s == run[r].session IN
    /\ run[r].pc \in Sends /\ ~Walking(r)
    /\ listeners[s] = <<>>
    /\ run' = [run EXCEPT ![r].pc = Script(r).next,
                          ![r].tools = IF run[r].pc = "result" THEN @ - 1 ELSE @]
    /\ Logged(s, run[r].pc)
    /\ Set(s, IF Script(r).after = Same THEN Script(r).before ELSE Script(r).after)
    /\ UNCHANGED <<socketVars, registry, kept, overlapped>>

\* The awaited socket is done; the next one follows, or the end of the send.
SocketAnswers(r) ==
    /\ Walking(r)
    /\ \E outcome \in SendOutcomes(walk[r].now) :
          IF MoreToSend(r)
          THEN WalkOn(r, outcome) /\ UNCHANGED <<run, lastEnd, agentEnd, status>>
          ELSE /\ EndWalk(r, DeadAfter(r, outcome))
               /\ IF Missing(r, DeadAfter(r, outcome)) = {} THEN Said(r) ELSE Unsaid(r)
    /\ UNCHANGED <<registry, kept, overlapped>>

\* The model calls tools, or has answered finally, with a text or without; or
\* the request raises.
ModelAnswers(r) ==
    /\ run[r].pc = "ask"
    /\ \/ \E tools \in 0 .. MaxTools :
             LET answered == [run[r] EXCEPT !.turn = @ + 1, !.tools = tools]
             IN  \E pc \in {"text", AfterText(answered)} :
                    run' = [run EXCEPT ![r] = [answered EXCEPT !.pc = pc]]
       \/ Goto(r, "agent_failed")
    /\ UNCHANGED <<socketVars, status, lastEnd, agentEnd, registry, kept, overlapped>>

\* _execute_tool turns whatever a tool raises into its result.
ToolReturns(r) ==
    /\ run[r].pc = "tool"
    /\ Goto(r, "result")
    /\ UNCHANGED <<socketVars, status, lastEnd, agentEnd, registry, kept, overlapped>>

\* Mutant of Cleanup: the entry is dropped, its sandbox is not deleted.
CleanupForgetsSandbox(r) ==
    /\ run[r].pc = "cleanup"
    /\ registry' = [registry EXCEPT ![run[r].session] = Nobody]
    /\ Goto(r, "done")
    /\ UNCHANGED <<socketVars, status, lastEnd, agentEnd, kept, overlapped>>

\* destroy_sandbox goes by the session: it may find another run's sandbox.
Cleanup(r) ==
    LET s == run[r].session IN
    /\ run[r].pc = "cleanup"
    /\ registry' = [registry EXCEPT ![s] = Nobody]
    /\ kept' = kept \ {registry[s]}
    /\ Goto(r, "done")
    /\ UNCHANGED <<socketVars, status, lastEnd, agentEnd, overlapped>>

-----------------------------------------------------------------------------
Init ==
    /\ SocketsInit
    /\ status = [s \in Sessions |-> None]
    /\ lastEnd = [s \in Sessions |-> None]
    /\ agentEnd = [s \in Sessions |-> None]
    /\ run = [r \in Runs |-> Idle]
    /\ registry = [s \in Sessions |-> Nobody]
    /\ kept = {}
    /\ overlapped = {}

\* A handler serves only sessions that exist.
ClientStep ==
    /\ SocketStep
    /\ \A w \in Sockets : socket'[w].state = "open" => status[socket'[w].session] # None
    /\ UNCHANGED <<status, lastEnd, agentEnd, run, registry, kept, overlapped>>

RunStep(r) ==
    \/ Start(r) \/ BeginSend(r) \/ SendToNobody(r) \/ SocketAnswers(r)
    \/ ModelAnswers(r) \/ ToolReturns(r) \/ Cleanup(r)

Next ==
    \/ \E s \in Sessions : CreateSession(s)
    \/ \E r \in Runs, s \in Sessions : SubmitAnswers(r, s)
    \/ \E r \in Runs : RunStep(r)
    \/ ClientStep

Spec == Init /\ [][Next]_vars

\* The event loop is fair; the client of the model has a timeout, so has the
\* server's send to a socket; tools are assumed to return.
FairSpec == Spec /\ \A r \in Runs : WF_vars(RunStep(r))

-----------------------------------------------------------------------------
\* Safety.

\* Every variable keeps its type.
TypeOK ==
    /\ SocketTypeOK
    /\ status \in [Sessions -> Status]
    /\ lastEnd \in [Sessions -> {None, "complete", "error"}]
    /\ agentEnd \in [Sessions -> {None, "farewell", "apology"}]
    /\ run \in [Runs -> RunRecord]
    /\ registry \in [Sessions -> Runs \cup {Nobody}]
    /\ kept \subseteq Runs
    /\ overlapped \subseteq Sessions

\* Whatever handlers and sends do to the lists in between, a client that is
\* still there is listed exactly once, and one that has left is not.
ListedWhileThere ==
    \A w \in Sockets : \A s \in Sessions :
        LET places == {i \in DOMAIN listeners[s] : listeners[s][i] = w} IN
        /\ socket[w].state = "open" /\ socket[w].session = s => Cardinality(places) = 1
        /\ socket[w].state = "left" => places = {}

\* A session with nothing running says completed or failed, also when
\* orchestrations overlapped, sends raised, or the message of a failure itself
\* could not be sent.
IdleSessionHasEnded ==
    \A s \in Sessions : status[s] \notin {None, "created"} /\ ~Busy(s) => status[s] \in Ended

-----------------------------------------------------------------------------
\* What a client can rely on that submits again only after the end.

\* The table of sandboxes has an entry only for a session somebody works on,
\* and the sandbox of a run stays its own and is deleted in the end.
SandboxesAreOwned ==
    /\ \A s \in Sessions : registry[s] # Nobody => Busy(s)
    /\ \A r \in kept : run[r].session \notin overlapped =>
          Active(r) /\ registry[run[r].session] = r

\* A client that polls messages and one that polls the status learn the same
\* end, although each is written at another time and sends may raise; and a
\* session is completed only once the log has the agent's own account.  That
\* account may be of a failure: the orchestrator completes it all the same.
LogAgreesWithStatus ==
    \A s \in Sessions \ overlapped : status[s] \in Ended /\ ~Busy(s) =>
        /\ status[s] = "completed" <=> lastEnd[s] = "complete"
        /\ status[s] = "completed" => agentEnd[s] # None

\* While a message goes round, clients come and go; no client that is there is
\* passed over.
NobodyPassedOver ==
    \A r \in Runs : Walking(r) /\ walk[r].session \notin overlapped =>
        {w \in walk[r].owed : socket[w].state = "open"} \subseteq Ahead(r)

-----------------------------------------------------------------------------
\* The contract.

\* What a session shows at rest; at work its status is not yet an answer.
Shown(s) ==
    CASE Busy(s) -> "working"
      [] ~Busy(s) /\ status[s] = None -> "absent"
      [] OTHER -> status[s]

Told(s) == IF Busy(s) THEN None ELSE lastEnd[s]

Held == {run[r].session : r \in kept}

Contract == INSTANCE DeploymentContract WITH
    shown <- [s \in Sessions |-> Shown(s)],
    told  <- [s \in Sessions |-> Told(s)],
    held  <- Held

\* A session implements DeploymentContract: however orchestrations overlap and
\* sends raise, it changes at rest only by new answers, and an end comes with its
\* messages and without its sandbox.
DeploymentKept == Contract!Spec

-----------------------------------------------------------------------------
\* Liveness.

\* Every deployment comes to an end that the session shows.
DeploymentEnds ==
    \A s \in Sessions : Busy(s) ~> (~Busy(s) /\ status[s] \in Ended)
=============================================================================
