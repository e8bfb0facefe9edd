-------------------------- MODULE DeploymentProofs --------------------------
(***************************************************************************)
(* Proofs about DeploymentSession, for any sessions, orchestrations,       *)
(* sockets and iterations: an idle session has ended, sandboxes have       *)
(* owners, the log says what the status says, clients that are there are   *)
(* listed, and a message that goes round passes over none of them.         *)
(*                                                                         *)
(* For these the lists of sockets do not enter: whatever the clients do, a *)
(* send returns or raises.  Every step of an orchestration has one of four *)
(* shapes (StepShape), from which the three properties follow.             *)
(*                                                                         *)
(* A second invariant (ListeningInv) is about the lists themselves: whom   *)
(* they contain, and whom a loop that goes over one by position reaches.   *)
(***************************************************************************)
EXTENDS DeploymentSession, ListProofs

SessionTypeOK ==
    /\ status \in [Sessions -> Status]
    /\ lastEnd \in [Sessions -> {None, "complete", "error"}]
    /\ run \in [Runs -> RunRecord]
    /\ registry \in [Sessions -> Runs \cup {Nobody}]
    /\ kept \subseteq Runs
    /\ overlapped \subseteq Sessions

\* A loop belongs to a step that sends.  Of the record of a loop only the field
\* that says whether it runs is needed, and that it has one.
WalkInv ==
    /\ DOMAIN walk = Runs
    /\ \A r \in Runs :
          /\ DOMAIN walk[r] = DOMAIN AtRest
          /\ Walking(r) => run[r].pc \in Sends

\* A run has a session, and a tool to count when it has used one.
RunInv ==
    \A r \in Runs :
        /\ run[r].pc # "idle" => run[r].session \in Sessions
        /\ run[r].pc \in {"executing", "running", "tool", "result"} => run[r].tools > 0

BaseInv == SessionTypeOK /\ WalkInv /\ RunInv

-----------------------------------------------------------------------------
\* The shapes of a run's steps.

Closing == {"complete", "error"}

EndOf(pc) == IF pc = "complete" THEN "completed" ELSE "failed"

\* A run that has still to set the status of an end.
Pending(r) ==
    /\ Active(r)
    /\ run[r].pc # "cleanup"
    /\ run[r].pc \in Closing => ~Walking(r)

\* It works on, and the end is still to come.
Works(r) == run[r].pc # "cleanup" /\ Pending(r)' /\ lastEnd' = lastEnd

\* It announces the end it has set.
Announces(r) ==
    /\ run[r].pc \in Closing /\ run'[r].pc = run[r].pc /\ Walking(r)'
    /\ status' = IF Walking(r) THEN status
                 ELSE [status EXCEPT ![run[r].session] = EndOf(run[r].pc)]
    /\ lastEnd' = lastEnd

\* The end is announced; or the announcement of a failure raises.
Ends(r) ==
    /\ run[r].pc \in Closing /\ run'[r].pc = "cleanup"
    /\ status' = IF Walking(r) THEN status
                 ELSE [status EXCEPT ![run[r].session] = EndOf(run[r].pc)]
    /\ \/ lastEnd' = [lastEnd EXCEPT ![run[r].session] = run[r].pc]
       \/ run[r].pc = "error" /\ lastEnd' = lastEnd

Cleans(r) ==
    /\ run[r].pc = "cleanup" /\ run'[r].pc = "done"
    /\ status' = status /\ lastEnd' = lastEnd

\* What every step leaves alone: the other runs and sessions.
Others(r) ==
    /\ run'[r].session = run[r].session
    /\ \A q \in Runs \ {r} : run'[q] = run[q] /\ Walking(q)' = Walking(q)
    /\ \A s \in Sessions \ {run[r].session} :
          status'[s] = status[s] /\ lastEnd'[s] = lastEnd[s]
    /\ overlapped' = overlapped

StepShape(r) ==
    /\ Active(r)
    /\ Others(r)
    /\ Works(r) \/ Announces(r) \/ Ends(r) \/ Cleans(r)

-----------------------------------------------------------------------------
\* What the script says of a step that sends.
LEMMA ScriptFacts ==
    ASSUME NEW r \in Runs, BaseInv, run[r].pc \in Sends
    PROVE  /\ Script(r).before \in Status \cup {Same}
           /\ Script(r).after \in Status \cup {Same}
           /\ {Script(r).before, Script(r).after} \cap {None, "created"} = {}
           /\ Script(r).next \in Pc
           /\ Script(r).next \notin {"idle", "start", "done"}
           /\ Script(r).raised \in {"deploying", "error", "cleanup", "agent_failed"}
           /\ run[r].pc \in Closing =>
                 /\ Script(r).before = EndOf(run[r].pc)
                 /\ Script(r).after = Same
                 /\ Script(r).next = "cleanup"
           /\ run[r].pc = "complete" => Script(r).raised = "error"
           /\ run[r].pc = "error" => Script(r).raised = "cleanup"
           /\ run[r].pc \notin Closing => Script(r).next # "cleanup" /\ Script(r).raised # "cleanup"
           /\ Script(r).next \in {"executing", "running", "tool", "result"} =>
                 run[r].tools > (IF run[r].pc = "result" THEN 1 ELSE 0)
  <1>1. /\ run[r] \in RunRecord
        /\ run[r].tools \in Nat
        /\ run[r].pc \in {"executing", "running", "tool", "result"} => run[r].tools > 0
    BY DEF BaseInv, SessionTypeOK, RunInv, RunRecord
  <1>2. DOMAIN OrchestratorScript = {"ready", "deploying", "complete", "error"}
    BY DEF OrchestratorScript
  <1>3. CASE run[r].pc = "ready"
    BY <1>1, <1>2, <1>3 DEF Script, OrchestratorScript, Say, Closing, EndOf, Same, None,
                               Status, Pc, Sends
  <1>4. CASE run[r].pc = "deploying"
    BY <1>1, <1>2, <1>4 DEF Script, OrchestratorScript, Say, Closing, EndOf, Same, None,
                               Status, Pc, Sends
  <1>5. CASE run[r].pc = "complete"
    BY <1>1, <1>2, <1>5 DEF Script, OrchestratorScript, Say, Closing, EndOf, Same, None,
                               Status, Pc, Sends
  <1>6. CASE run[r].pc = "error"
    BY <1>1, <1>2, <1>6 DEF Script, OrchestratorScript, Say, Closing, EndOf, Same, None,
                               Status, Pc, Sends
  <1>7. CASE run[r].pc \notin DOMAIN OrchestratorScript
    <2>1. Script(r) = AgentScript(run[r])[run[r].pc]
      BY <1>7 DEF Script
    <2>2. run[r].pc \in Sends \ {"ready", "deploying", "complete", "error"}
      BY <1>2, <1>7
    <2>3. /\ run[r].pc = "analyzing" => Script(r) = OnStatus("analyzing", "greeting")
          /\ run[r].pc = "greeting" => Script(r) = OnMessage("ask")
          /\ run[r].pc = "text" => Script(r) = OnMessage(AfterText(run[r]))
          /\ run[r].pc = "executing" => Script(r) = OnStatus("executing", "running")
          /\ run[r].pc = "running" => Script(r) = OnMessage("tool")
          /\ run[r].pc = "result" => Script(r) = OnMessage(AfterTool(run[r]))
          /\ run[r].pc = "exhausted" => Script(r) = OnMessage("agent_done")
          /\ run[r].pc = "agent_done" => Script(r) = OnStatus("completed", "farewell")
          /\ run[r].pc = "farewell" => Script(r) = OnMessage("complete")
          /\ run[r].pc = "agent_failed" => Script(r) = Say(Same, "failed", "apology", "error")
          /\ run[r].pc = "apology" => Script(r) = Say(Same, Same, "complete", "error")
      BY <2>1 DEF AgentScript
    <2>4. /\ AfterText(run[r]) \in {"executing", "agent_done"}
          /\ AfterText(run[r]) = "executing" => run[r].tools > 0
          /\ AfterTool(run[r]) \in {"executing", "ask", "exhausted"}
          /\ AfterTool(run[r]) = "executing" => run[r].tools > 1
      BY <1>1 DEF AfterText, AfterTool
    <2>5. /\ Script(r).before = Same
          /\ Script(r).after \in {Same, "analyzing", "executing", "completed", "failed"}
          /\ Script(r).raised \in {"agent_failed", "error"}
          /\ Script(r).next \in {"greeting", "ask", "executing", "agent_done", "running", "tool",
                                  "exhausted", "farewell", "complete", "apology"}
      BY <2>2, <2>3, <2>4 DEF OnStatus, OnMessage, Say, Sends
    <2>6. Script(r).next \in {"executing", "running", "tool"} =>
             run[r].tools > (IF run[r].pc = "result" THEN 1 ELSE 0)
      BY <1>1, <2>2, <2>3, <2>4 DEF OnStatus, OnMessage, Say, Sends
    <2> QED BY <2>2, <2>5, <2>6 DEF Closing, Same, None, Status, Pc, Sends
  <1> QED BY <1>2, <1>3, <1>4, <1>5, <1>6, <1>7

\* Records with a field changed.
LEMMA Moved ==
    ASSUME NEW record \in RunRecord, NEW pc \in Pc
    PROVE  LET new == [record EXCEPT !.pc = pc] IN
           /\ new \in RunRecord
           /\ new.pc = pc /\ new.session = record.session
           /\ new.tools = record.tools /\ new.tools \in Nat
  BY DEF RunRecord

\* The record when the model has answered.
LEMMA Answered ==
    ASSUME NEW record \in RunRecord, NEW tools \in Nat
    PROVE  LET new == [record EXCEPT !.turn = @ + 1, !.tools = tools] IN
           new \in RunRecord /\ new.session = record.session /\ new.tools = tools
  <1> DEFINE turned == [record EXCEPT !.turn = @ + 1]
             new == [turned EXCEPT !.tools = tools]
  <1>1. record.turn + 1 \in Nat
    BY DEF RunRecord
  <1>2. turned \in RunRecord /\ turned.session = record.session
    BY <1>1 DEF RunRecord
  <1>3. new \in RunRecord /\ new.session = turned.session /\ new.tools = tools
    <2> HIDE DEF turned
    <2> QED BY <1>2 DEF RunRecord
  <1> QED BY <1>2, <1>3

\* A step that changes the record of one run and keeps the loops.
LEMMA RunTyped ==
    ASSUME NEW r \in Runs, BaseInv, NEW new \in RunRecord,
           run' = [run EXCEPT ![r] = new], new.session = run[r].session,
           run[r].pc # "idle", new.pc # "idle",
           new.pc \in {"executing", "running", "tool", "result"} => new.tools > 0
    PROVE  run' \in [Runs -> RunRecord] /\ RunInv'
  BY DEF BaseInv, SessionTypeOK, RunInv

\* Nothing but statuses can be set.
LEMMA SetTyped ==
    ASSUME NEW s \in Sessions, NEW new \in Status \cup {Same}, BaseInv, Set(s, new)
    PROVE  /\ status' \in [Sessions -> Status]
           /\ \A t \in Sessions \ {s} : status'[t] = status[t]
           /\ new = Same => status' = status
           /\ new # Same => status' = [status EXCEPT ![s] = new]
  BY DEF BaseInv, SessionTypeOK, Set, Same, Status, None

\* The sandbox, the model and the tools.
LEMMA QuietShape ==
    ASSUME NEW r \in Runs, BaseInv, Start(r) \/ ModelAnswers(r) \/ ToolReturns(r)
    PROVE  StepShape(r) /\ BaseInv'
  <1> DEFINE s == run[r].session
  <1>1. /\ run[r] \in RunRecord /\ run \in [Runs -> RunRecord]
        /\ run[r].pc \in {"start", "ask", "tool"}
        /\ s \in Sessions
    BY DEF BaseInv, SessionTypeOK, RunInv, RunRecord, Start, ModelAnswers, ToolReturns
  <1>2. ~Walking(r)
    BY <1>1 DEF BaseInv, WalkInv, Sends
  <1>3. PICK new \in RunRecord :
           /\ run' = [run EXCEPT ![r] = new] /\ new.session = s
           /\ new.pc \in {"ready", "deploying", "text", "executing", "agent_done",
                          "agent_failed", "result"}
           /\ new.pc \in {"executing", "result"} => new.tools > 0
    <2>1. CASE Start(r)
      <3>1. PICK pc \in {"ready", "deploying"} : Goto(r, pc)
        BY <2>1 DEF Start
      <3>2. pc \in Pc
        BY DEF Pc, Sends
      <3> DEFINE new == [run[r] EXCEPT !.pc = pc]
      <3>3. run' = [run EXCEPT ![r] = new]
        BY <3>1 DEF Goto
      <3>4. new \in RunRecord /\ new.session = s /\ new.pc \in {"ready", "deploying"}
        BY <1>1, <3>2, Moved
      <3> HIDE DEF new
      <3> QED BY <3>3, <3>4
    <2>2. CASE ToolReturns(r)
      <3>1. Goto(r, "result") /\ "result" \in Pc /\ run[r].tools > 0
        BY <2>2 DEF ToolReturns, Pc, Sends, BaseInv, RunInv
      <3> DEFINE new == [run[r] EXCEPT !.pc = "result"]
      <3>2. run' = [run EXCEPT ![r] = new]
        BY <3>1 DEF Goto
      <3>3. /\ new \in RunRecord /\ new.session = s
            /\ new.pc = "result" /\ new.tools > 0
        BY <1>1, <3>1, Moved
      <3> HIDE DEF new
      <3> QED BY <3>2, <3>3
    <2>3. CASE ModelAnswers(r)
      <3>1. CASE Goto(r, "agent_failed")
        <4>1. "agent_failed" \in Pc
          BY DEF Pc, Sends
        <4> QED BY <1>1, <3>1, <4>1, Moved DEF Goto
      <3>2. CASE ~Goto(r, "agent_failed")
        <4>1. PICK tools \in 0 .. MaxTools :
                 LET answered == [run[r] EXCEPT !.turn = @ + 1, !.tools = tools]
                 IN  \E pc \in {"text", AfterText(answered)} :
                        run' = [run EXCEPT ![r] = [answered EXCEPT !.pc = pc]]
          BY <2>3, <3>2 DEF ModelAnswers
        <4> DEFINE answered == [run[r] EXCEPT !.turn = @ + 1, !.tools = tools]
        <4>2. PICK pc \in {"text", AfterText(answered)} :
                 run' = [run EXCEPT ![r] = [answered EXCEPT !.pc = pc]]
          BY <4>1
        <4>3. tools \in Nat /\ answered \in RunRecord /\ answered.tools = tools
                 /\ answered.session = s
          <5>1. tools \in Nat
            BY AgentAssumption
          <5> QED BY <1>1, <5>1, Answered
        <4>4. pc \in {"text", "executing", "agent_done"} /\ (pc = "executing" => tools > 0)
          BY <4>3 DEF AfterText
        <4>5. pc \in Pc
          BY <4>4 DEF Pc, Sends
        <4> HIDE DEF answered
        <4> DEFINE new == [answered EXCEPT !.pc = pc]
        <4>6. run' = [run EXCEPT ![r] = new]
          BY <4>2
        <4>7. /\ new \in RunRecord /\ new.session = s
              /\ new.pc = pc /\ new.tools = tools
          BY <4>3, <4>5, Moved
        <4> HIDE DEF new
        <4> QED BY <4>4, <4>6, <4>7
      <3> QED BY <3>1, <3>2
    <2> QED BY <2>1, <2>2, <2>3
  <1>4. /\ walk' = walk /\ status' = status /\ lastEnd' = lastEnd /\ overlapped' = overlapped
    BY DEF Start, ModelAnswers, ToolReturns, socketVars
  <1>5. registry' \in [Sessions -> Runs \cup {Nobody}] /\ kept' \subseteq Runs
    BY <1>1 DEF Start, ModelAnswers, ToolReturns, BaseInv, SessionTypeOK
  <1>6. run'[r] = new /\ \A q \in Runs \ {r} : run'[q] = run[q]
    BY <1>1, <1>3
  <1>7. StepShape(r)
    BY <1>1, <1>2, <1>3, <1>4, <1>6
       DEF StepShape, Active, Others, Works, Pending, Walking, Closing
  <1>8. WalkInv'
    BY <1>2, <1>4, <1>6 DEF BaseInv, WalkInv, Walking
  <1>9. run' \in [Runs -> RunRecord] /\ RunInv'
    BY <1>1, <1>3, RunTyped
  <1> QED BY <1>4, <1>5, <1>7, <1>8, <1>9 DEF BaseInv, SessionTypeOK

\* The start of a loop.
LEMMA BeginShape ==
    ASSUME NEW r \in Runs, BaseInv, BeginSend(r)
    PROVE  StepShape(r) /\ BaseInv'
  <1> DEFINE s == run[r].session
  <1>1. /\ run[r].pc \in Sends /\ ~Walking(r)
        /\ s \in Sessions
        /\ lastEnd' = lastEnd /\ run' = run /\ overlapped' = overlapped
        /\ registry' = registry /\ kept' = kept
    BY DEF BaseInv, RunInv, BeginSend, Sends
  <1>2. /\ \A q \in Runs \ {r} : walk'[q] = walk[q]
        /\ DOMAIN walk' = Runs /\ DOMAIN walk'[r] = DOMAIN AtRest
    BY DEF BaseInv, WalkInv, BeginSend, BeginWalk, AtRest
  <1>3. /\ Script(r).before \in Status \cup {Same}
        /\ run[r].pc \in Closing => Script(r).before = EndOf(run[r].pc)
    BY <1>1, ScriptFacts
  <1>4. /\ status' \in [Sessions -> Status]
        /\ \A t \in Sessions \ {s} : status'[t] = status[t]
        /\ Script(r).before # Same => status' = [status EXCEPT ![s] = Script(r).before]
    BY <1>1, <1>3, SetTyped DEF BeginSend
  <1>5. WalkInv'
    BY <1>1, <1>2 DEF BaseInv, WalkInv, Walking
  <1>6. BaseInv'
    BY <1>1, <1>4, <1>5 DEF BaseInv, SessionTypeOK, RunInv
  <1>7. Others(r) /\ Active(r)
    BY <1>1, <1>2, <1>4 DEF Others, Active, Walking, Sends
  <1>8. CASE run[r].pc \notin Closing
    BY <1>1, <1>6, <1>7, <1>8 DEF StepShape, Works, Pending, Active, Sends
  <1>9. CASE run[r].pc \in Closing
    <2>1. status' = [status EXCEPT ![s] = EndOf(run[r].pc)]
      BY <1>3, <1>4, <1>9 DEF EndOf, Same
    <2>2. CASE Walking(r)'
      BY <1>1, <1>6, <1>7, <1>9, <2>1, <2>2 DEF StepShape, Announces
    <2>3. CASE ~Walking(r)'
      BY <1>1, <1>6, <1>7, <1>9, <2>3 DEF StepShape, Works, Pending, Active, Closing
    <2> QED BY <2>2, <2>3
  <1> QED BY <1>6, <1>8, <1>9

\* Where the program goes on, with or without a tool counted.
LEMMA WentOn ==
    ASSUME NEW r \in Runs, BaseInv, run[r].pc \in Sends, NEW pc \in Pc
    PROVE  LET new == [run[r] EXCEPT !.pc = pc,
                                     !.tools = IF run[r].pc = "result" THEN @ - 1 ELSE @] IN
           /\ new \in RunRecord
           /\ new.pc = pc /\ new.session = run[r].session
           /\ new.tools = IF run[r].pc = "result" THEN run[r].tools - 1 ELSE run[r].tools
  <1> DEFINE tools == IF run[r].pc = "result" THEN run[r].tools - 1 ELSE run[r].tools
             moved == [run[r] EXCEPT !.pc = pc]
             new == [run[r] EXCEPT !.pc = pc,
                                   !.tools = IF run[r].pc = "result" THEN @ - 1 ELSE @]
  <1>1. run[r] \in RunRecord /\ run[r].tools \in Nat
           /\ (run[r].pc = "result" => run[r].tools > 0)
    BY DEF BaseInv, SessionTypeOK, RunInv, RunRecord
  <1>2. tools \in Nat
    BY <1>1
  <1>3. /\ moved \in RunRecord /\ moved.pc = pc /\ moved.session = run[r].session
        /\ moved.tools = run[r].tools
    BY <1>1, Moved
  <1>4. new = [moved EXCEPT !.tools = tools]
    BY <1>1, <1>3
  <1> HIDE DEF moved, tools, new
  <1>5. /\ [moved EXCEPT !.tools = tools] \in RunRecord
        /\ [moved EXCEPT !.tools = tools].pc = moved.pc
        /\ [moved EXCEPT !.tools = tools].session = moved.session
        /\ [moved EXCEPT !.tools = tools].tools = tools
    BY <1>2, <1>3 DEF RunRecord
  <1> QED BY <1>3, <1>4, <1>5 DEF tools, new

\* A message that has reached the log, after a loop or without one.
LEMMA SaidShape ==
    ASSUME NEW r \in Runs, BaseInv, run[r].pc \in Sends,
           NEW new \in Status \cup {Same}, Set(run[r].session, new),
           IF Walking(r) THEN new = Script(r).after
           ELSE new = IF Script(r).after = Same THEN Script(r).before ELSE Script(r).after,
           run' = [run EXCEPT ![r].pc = Script(r).next,
                              ![r].tools = IF run[r].pc = "result" THEN @ - 1 ELSE @],
           lastEnd' = [lastEnd EXCEPT ![run[r].session] =
                          IF run[r].pc \in Closing THEN run[r].pc ELSE @],
           \A q \in Runs \ {r} : Walking(q)' = Walking(q),
           DOMAIN walk' = Runs, \A q \in Runs : DOMAIN walk'[q] = DOMAIN AtRest,
           ~Walking(r)',
           UNCHANGED <<registry, kept, overlapped>>
    PROVE  StepShape(r) /\ BaseInv'
  <1> DEFINE s == run[r].session
             moved == [run[r] EXCEPT !.pc = Script(r).next,
                                     !.tools = IF run[r].pc = "result" THEN @ - 1 ELSE @]
  <1>1. /\ run[r] \in RunRecord /\ run \in [Runs -> RunRecord] /\ s \in Sessions
        /\ run[r].tools \in Nat
    BY DEF BaseInv, SessionTypeOK, RunInv, RunRecord, Sends
  <1>2. /\ Script(r).next \in Pc \ {"idle", "start", "done"}
        /\ run[r].pc \in Closing => /\ Script(r).before = EndOf(run[r].pc)
                                    /\ Script(r).after = Same
                                    /\ Script(r).next = "cleanup"
        /\ run[r].pc \notin Closing => Script(r).next # "cleanup"
        /\ Script(r).next \in {"executing", "running", "tool", "result"} =>
              run[r].tools > (IF run[r].pc = "result" THEN 1 ELSE 0)
    BY ScriptFacts
  <1>3. /\ moved \in RunRecord /\ moved.pc = Script(r).next /\ moved.session = s
        /\ moved.tools = IF run[r].pc = "result" THEN run[r].tools - 1 ELSE run[r].tools
    BY <1>2, WentOn
  <1>4. run' = [run EXCEPT ![r] = moved]
    BY <1>1
  <1> HIDE DEF moved
  <1>5. moved.pc \in {"executing", "running", "tool", "result"} => moved.tools > 0
    BY <1>1, <1>2, <1>3
  <1>6. run' \in [Runs -> RunRecord] /\ RunInv'
    BY <1>2, <1>3, <1>4, <1>5, RunTyped DEF Sends
  <1>7. run'[r] = moved /\ \A q \in Runs \ {r} : run'[q] = run[q]
    BY <1>1, <1>4
  <1>8. /\ status' \in [Sessions -> Status]
        /\ \A t \in Sessions \ {s} : status'[t] = status[t]
        /\ new = Same => status' = status
        /\ new # Same => status' = [status EXCEPT ![s] = new]
    BY <1>1, SetTyped
  <1>9. /\ lastEnd' \in [Sessions -> {None, "complete", "error"}]
        /\ \A t \in Sessions \ {s} : lastEnd'[t] = lastEnd[t]
        /\ run[r].pc \notin Closing => lastEnd' = lastEnd
        /\ run[r].pc \in Closing => lastEnd' = [lastEnd EXCEPT ![s] = run[r].pc]
    BY <1>1 DEF BaseInv, SessionTypeOK, Closing
  <1>10. BaseInv'
    <2>1. WalkInv'
      BY <1>7 DEF BaseInv, WalkInv
    <2> QED BY <1>6, <1>8, <1>9, <2>1 DEF BaseInv, SessionTypeOK
  <1>11. Others(r) /\ Active(r)
    BY <1>3, <1>7, <1>8, <1>9 DEF Others, Active, Sends
  <1>12. CASE run[r].pc \notin Closing
    <2>1. Pending(r)'
      BY <1>2, <1>3, <1>7, <1>12 DEF Pending, Active
    <2> QED BY <1>9, <1>10, <1>11, <1>12, <2>1 DEF StepShape, Works, Sends
  <1>13. CASE run[r].pc \in Closing
    <2>1. status' = IF Walking(r) THEN status ELSE [status EXCEPT ![s] = EndOf(run[r].pc)]
      BY <1>2, <1>8, <1>13 DEF EndOf, Same
    <2>2. Ends(r)
      BY <1>2, <1>3, <1>7, <1>9, <1>13, <2>1 DEF Ends
    <2> QED BY <1>10, <1>11, <2>2 DEF StepShape
  <1> QED BY <1>12, <1>13

\* A message to nobody.
LEMMA NobodyShape ==
    ASSUME NEW r \in Runs, BaseInv, SendToNobody(r)
    PROVE  StepShape(r) /\ BaseInv'
  <1> DEFINE new == IF Script(r).after = Same THEN Script(r).before ELSE Script(r).after
  <1>1. /\ run[r].pc \in Sends /\ ~Walking(r) /\ Set(run[r].session, new)
        /\ walk' = walk /\ UNCHANGED <<registry, kept, overlapped>>
    BY DEF SendToNobody, socketVars
  <1>2. new \in Status \cup {Same}
    BY <1>1, ScriptFacts
  <1>3. /\ \A q \in Runs : Walking(q)' = Walking(q)
        /\ DOMAIN walk' = Runs /\ \A q \in Runs : DOMAIN walk'[q] = DOMAIN AtRest
    BY <1>1 DEF BaseInv, WalkInv, Walking
  <1>4. /\ run' = [run EXCEPT ![r].pc = Script(r).next,
                              ![r].tools = IF run[r].pc = "result" THEN @ - 1 ELSE @]
        /\ lastEnd' = [lastEnd EXCEPT ![run[r].session] =
                          IF run[r].pc \in Closing THEN run[r].pc ELSE @]
    BY DEF SendToNobody, Logged, Closing
  <1> HIDE DEF new
  <1>5. IF Walking(r) THEN new = Script(r).after
        ELSE new = IF Script(r).after = Same THEN Script(r).before ELSE Script(r).after
    BY <1>1 DEF new
  <1> QED BY <1>1, <1>2, <1>3, <1>4, <1>5, SaidShape

\* The socket that was awaited answers or raises.
LEMMA AnswerShape ==
    ASSUME NEW r \in Runs, BaseInv, SocketAnswers(r)
    PROVE  StepShape(r) /\ BaseInv'
  <1> DEFINE s == run[r].session
  <1>1. /\ Walking(r) /\ run[r].pc \in Sends /\ s \in Sessions
        /\ run[r] \in RunRecord /\ run \in [Runs -> RunRecord]
        /\ UNCHANGED <<registry, kept, overlapped>>
    BY DEF SocketAnswers, BaseInv, SessionTypeOK, WalkInv, RunInv, Sends
  <1>2. PICK outcome \in SendOutcomes(walk[r].now) :
           IF MoreToSend(r)
           THEN WalkOn(r, outcome) /\ UNCHANGED <<run, lastEnd, agentEnd, status>>
           ELSE /\ EndWalk(r, DeadAfter(r, outcome))
                /\ IF Missing(r, DeadAfter(r, outcome)) = {} THEN Said(r) ELSE Unsaid(r)
    BY DEF SocketAnswers
  <1>3. CASE MoreToSend(r)
    <2>1. WalkOn(r, outcome) /\ run' = run /\ lastEnd' = lastEnd /\ status' = status
      BY <1>2, <1>3
    <2>2. /\ \A q \in Runs \ {r} : walk'[q] = walk[q]
          /\ DOMAIN walk' = Runs /\ DOMAIN walk'[r] = DOMAIN AtRest
      BY <2>1 DEF BaseInv, WalkInv, WalkOn
    <2>3. BaseInv'
      BY <1>1, <2>1, <2>2 DEF BaseInv, SessionTypeOK, WalkInv, RunInv, Walking
    <2>4. Others(r) /\ Active(r)
      BY <1>1, <2>1, <2>2 DEF Others, Active, Walking, Sends
    <2>5. CASE run[r].pc \in Closing /\ Walking(r)'
      BY <1>1, <2>1, <2>3, <2>4, <2>5 DEF StepShape, Announces
    <2>6. CASE ~(run[r].pc \in Closing /\ Walking(r)')
      BY <1>1, <2>1, <2>3, <2>4, <2>6 DEF StepShape, Works, Pending, Active, Sends
    <2> QED BY <2>5, <2>6
  <1>4. CASE ~MoreToSend(r)
    <2>1. walk' = [walk EXCEPT ![r] = AtRest]
      BY <1>2, <1>4 DEF EndWalk
    <2>2. /\ \A q \in Runs \ {r} : walk'[q] = walk[q] /\ Walking(q)' = Walking(q)
          /\ DOMAIN walk' = Runs /\ \A q \in Runs : DOMAIN walk'[q] = DOMAIN AtRest
          /\ ~Walking(r)'
      BY <2>1 DEF BaseInv, WalkInv, Walking, AtRest
    <2>3. CASE Said(r)
      <3>1. /\ Set(s, Script(r).after)
            /\ run' = [run EXCEPT ![r].pc = Script(r).next,
                                  ![r].tools = IF run[r].pc = "result" THEN @ - 1 ELSE @]
            /\ lastEnd' = [lastEnd EXCEPT ![s] =
                              IF run[r].pc \in Closing THEN run[r].pc ELSE @]
        BY <2>3 DEF Said, Logged, Closing
      <3>2. Script(r).after \in Status \cup {Same}
        BY <1>1, ScriptFacts
      <3> QED BY <1>1, <2>2, <3>1, <3>2, SaidShape
    <2>4. CASE Unsaid(r)
      <3> DEFINE moved == [run[r] EXCEPT !.pc = Script(r).raised]
      <3>1. /\ Script(r).raised \in {"deploying", "error", "cleanup", "agent_failed"}
            /\ run[r].pc = "complete" => Script(r).raised = "error"
            /\ run[r].pc = "error" => Script(r).raised = "cleanup"
            /\ run[r].pc \notin Closing => Script(r).raised # "cleanup"
        BY <1>1, ScriptFacts
      <3>2. Script(r).raised \in Pc
        BY <3>1 DEF Pc, Sends
      <3>3. moved \in RunRecord /\ moved.pc = Script(r).raised /\ moved.session = s
        BY <1>1, <3>2, Moved
      <3>4. run' = [run EXCEPT ![r] = moved] /\ lastEnd' = lastEnd /\ status' = status
        BY <2>4 DEF Unsaid, Goto
      <3> HIDE DEF moved
      <3>5. run' \in [Runs -> RunRecord] /\ RunInv'
        BY <1>1, <3>1, <3>3, <3>4, RunTyped DEF Sends
      <3>6. run'[r] = moved /\ \A q \in Runs \ {r} : run'[q] = run[q]
        BY <1>1, <3>4
      <3>7. BaseInv'
        BY <1>1, <2>2, <3>4, <3>5, <3>6 DEF BaseInv, SessionTypeOK, WalkInv
      <3>8. Others(r) /\ Active(r)
        BY <1>1, <2>2, <3>3, <3>4, <3>6 DEF Others, Active, Sends
      <3>9. CASE run[r].pc = "error"
        BY <1>1, <3>1, <3>3, <3>4, <3>6, <3>7, <3>8, <3>9 DEF StepShape, Ends, Closing
      <3>10. CASE run[r].pc # "error"
        BY <1>1, <2>2, <3>1, <3>3, <3>4, <3>6, <3>7, <3>8, <3>10
           DEF StepShape, Works, Pending, Active, Closing, Sends
      <3> QED BY <3>9, <3>10
    <2> QED BY <1>2, <1>4, <2>3, <2>4
  <1> QED BY <1>3, <1>4

\* The end of a run.
LEMMA CleanupShape ==
    ASSUME NEW r \in Runs, BaseInv, Cleanup(r)
    PROVE  StepShape(r) /\ BaseInv'
  <1> DEFINE moved == [run[r] EXCEPT !.pc = "done"]
  <1>1. /\ run[r] \in RunRecord /\ run \in [Runs -> RunRecord]
        /\ run[r].pc = "cleanup" /\ run[r].session \in Sessions /\ ~Walking(r)
    BY DEF Cleanup, BaseInv, SessionTypeOK, RunInv, WalkInv, Sends
  <1>2. moved \in RunRecord /\ moved.pc = "done" /\ moved.session = run[r].session
    <2>1. "done" \in Pc
      BY DEF Pc
    <2> QED BY <1>1, <2>1, Moved
  <1>3. /\ run' = [run EXCEPT ![r] = moved] /\ walk' = walk
        /\ status' = status /\ lastEnd' = lastEnd /\ overlapped' = overlapped
    BY DEF Cleanup, Goto, socketVars
  <1>4. registry' \in [Sessions -> Runs \cup {Nobody}] /\ kept' \subseteq Runs
    BY DEF Cleanup, BaseInv, SessionTypeOK
  <1> HIDE DEF moved
  <1>5. run' \in [Runs -> RunRecord] /\ RunInv'
    BY <1>1, <1>2, <1>3, RunTyped
  <1>6. run'[r] = moved /\ \A q \in Runs \ {r} : run'[q] = run[q]
    BY <1>1, <1>3
  <1>7. BaseInv'
    BY <1>1, <1>3, <1>4, <1>5, <1>6 DEF BaseInv, SessionTypeOK, WalkInv, Walking
  <1> QED BY <1>1, <1>2, <1>3, <1>6, <1>7
          DEF StepShape, Active, Others, Cleans, Walking

\* All steps of a run.
LEMMA RunShape ==
    ASSUME NEW r \in Runs, BaseInv, RunStep(r)
    PROVE  StepShape(r) /\ BaseInv'
  BY QuietShape, BeginShape, NobodyShape, AnswerShape, CleanupShape DEF RunStep

-----------------------------------------------------------------------------
\* The other steps.

\* Clients change no run, no session and no sandbox, and end no loop.
LEMMA ClientShape ==
    ASSUME BaseInv, ClientStep
    PROVE  /\ BaseInv'
           /\ \A q \in Runs : Walking(q)' = Walking(q)
           /\ UNCHANGED <<status, lastEnd, run, registry, kept, overlapped>>
  <1>1. /\ DOMAIN walk' = Runs
        /\ \A q \in Runs : walk'[q].now = walk[q].now /\ DOMAIN walk'[q] = DOMAIN AtRest
    <2>1. CASE walk' = walk
      BY <2>1 DEF BaseInv, WalkInv
    <2>2. CASE walk' # walk
      <3>1. PICK w \in Sockets : Disconnect(w)
        BY <2>2 DEF ClientStep, SocketStep, Connect, PeerLeaves, HandlerRaises
      <3> DEFINE s == socket[w].session
      <3>2. /\ DOMAIN walk' = Runs
            /\ \A q \in Runs : walk'[q] = IF walk[q].live /\ walk[q].session = s
                  THEN [walk[q] EXCEPT !.live = FALSE, !.frozen = listeners[s]]
                  ELSE walk[q]
        BY <3>1 DEF Disconnect, Runs
      <3>3. \A q \in Runs : DOMAIN walk[q] = DOMAIN AtRest /\ "now" \in DOMAIN walk[q]
        BY DEF BaseInv, WalkInv, AtRest
      <3> QED BY <3>2, <3>3
    <2> QED BY <2>1, <2>2
  <1>2. UNCHANGED <<status, lastEnd, run, registry, kept, overlapped>>
    BY DEF ClientStep
  <1> QED BY <1>1, <1>2 DEF BaseInv, SessionTypeOK, WalkInv, RunInv, Walking

\* A session is created.
LEMMA CreateShape ==
    ASSUME NEW s \in Sessions, BaseInv, CreateSession(s)
    PROVE  /\ BaseInv'
           /\ status[s] = None /\ status' = [status EXCEPT ![s] = "created"]
           /\ \A q \in Runs : Walking(q)' = Walking(q)
           /\ UNCHANGED <<lastEnd, run, registry, kept, overlapped>>
  <1>1. /\ status[s] = None /\ UNCHANGED <<walk, lastEnd, run, registry, kept, overlapped>>
        /\ Set(s, "created") /\ "created" \in Status /\ "created" # Same
    BY DEF CreateSession, socketVars, Status, Same
  <1>2. status' \in [Sessions -> Status] /\ status' = [status EXCEPT ![s] = "created"]
    BY <1>1, SetTyped
  <1> QED BY <1>1, <1>2 DEF BaseInv, SessionTypeOK, WalkInv, RunInv, Walking

\* Answers are submitted.
LEMMA SubmitShape ==
    ASSUME NEW r \in Runs, NEW s \in Sessions, BaseInv, SubmitAnswers(r, s)
    PROVE  /\ BaseInv'
           /\ run[r].pc = "idle" /\ run'[r].pc = "start" /\ run'[r].session = s
           /\ \A q \in Runs \ {r} : run'[q] = run[q]
           /\ \A q \in Runs : Walking(q)' = Walking(q)
           /\ \A t \in Sessions \ {s} : status'[t] = status[t] /\ lastEnd'[t] = lastEnd[t]
           /\ lastEnd'[s] = None
           /\ overlapped' = IF Busy(s) THEN overlapped \cup {s} ELSE overlapped
           /\ UNCHANGED <<registry, kept>>
  <1> DEFINE started == [Idle EXCEPT !.pc = "start"]
             new == [Idle EXCEPT !.pc = "start", !.session = s]
  <1>1. started \in RunRecord /\ started.pc = "start"
    <2>1. Idle \in RunRecord /\ "start" \in Pc
      BY DEF Idle, RunRecord, Pc
    <2> QED BY <2>1, Moved
  <1>2. new \in RunRecord /\ new.pc = "start" /\ new.session = s
    <2>1. new = [started EXCEPT !.session = s]
      OBVIOUS
    <2> HIDE DEF started, new
    <2> QED BY <1>1, <2>1 DEF RunRecord
  <1>3. run' = [run EXCEPT ![r] = new]
    BY DEF SubmitAnswers
  <1> HIDE DEF new
  <1>4. /\ run[r].pc = "idle" /\ walk' = walk /\ UNCHANGED <<registry, kept>>
        /\ lastEnd' = [lastEnd EXCEPT ![s] = None]
        /\ overlapped' = IF Busy(s) THEN overlapped \cup {s} ELSE overlapped
        /\ Set(s, "analyzing") /\ "analyzing" \in Status
    BY DEF SubmitAnswers, socketVars, Status
  <1>5. status' \in [Sessions -> Status] /\ \A t \in Sessions \ {s} : status'[t] = status[t]
    BY <1>4, SetTyped
  <1>6. run \in [Runs -> RunRecord] /\ lastEnd \in [Sessions -> {None, "complete", "error"}]
           /\ overlapped \subseteq Sessions
    BY DEF BaseInv, SessionTypeOK
  <1>7. run' \in [Runs -> RunRecord] /\ run'[r] = new /\ \A q \in Runs \ {r} : run'[q] = run[q]
    BY <1>2, <1>3, <1>6
  <1>8. RunInv'
    BY <1>2, <1>7 DEF BaseInv, RunInv
  <1>9. ~Walking(r)
    BY <1>4 DEF BaseInv, WalkInv, Sends
  <1>10. WalkInv'
    BY <1>4, <1>7, <1>9 DEF BaseInv, WalkInv, Walking
  <1> QED BY <1>2, <1>4, <1>5, <1>6, <1>7, <1>8, <1>10
          DEF BaseInv, SessionTypeOK, Walking

-----------------------------------------------------------------------------
\* The invariants.

\* A session that is neither new nor ended has a run that will set its end.
EndInv ==
    \A s \in Sessions :
        \/ status[s] \in Ended \cup {None, "created"}
        \/ \E r \in Runs : Pending(r) /\ run[r].session = s

\* Who submits only after the end has one run at a time.
OneRun ==
    \A q, r \in Runs :
        Active(q) /\ Active(r) /\ run[q].session = run[r].session
                  /\ run[r].session \notin overlapped => q = r

\* Sandboxes are filed under the session of their run until it ends.
OwnerInv ==
    /\ \A s \in Sessions, q \in Runs :
          registry[s] = q /\ q # Nobody => Active(q) /\ run[q].session = s
    /\ \A r \in kept :
          /\ run[r].pc # "idle"
          /\ run[r].session \notin overlapped =>
                Active(r) /\ registry[run[r].session] = r

Agrees(s) == status[s] \in Ended /\ (status[s] = "completed" <=> lastEnd[s] = "complete")

\* How far status and log have come at each stage of a run.
LogInv ==
    \A s \in Sessions \ overlapped :
        /\ \A r \in Runs : Active(r) /\ run[r].session = s =>
              /\ run[r].pc # "cleanup" => lastEnd[s] = None
              /\ run[r].pc \in Closing /\ Walking(r) => status[s] = EndOf(run[r].pc)
              /\ run[r].pc = "cleanup" => Agrees(s)
        /\ ~Busy(s) /\ status[s] \in Ended => Agrees(s)

DeploymentInv == BaseInv /\ EndInv /\ OneRun /\ OwnerInv /\ LogInv

\* The initial state satisfies them all.
LEMMA InitDeployment == Init => DeploymentInv
  <1> SUFFICES ASSUME Init PROVE DeploymentInv
    OBVIOUS
  <1>1. /\ status = [s \in Sessions |-> None] /\ lastEnd = [s \in Sessions |-> None]
        /\ run = [r \in Runs |-> Idle] /\ registry = [s \in Sessions |-> Nobody]
        /\ kept = {} /\ overlapped = {} /\ walk = [r \in Runs |-> AtRest]
    BY DEF Init, SocketsInit, Runs
  <1>2. Idle \in RunRecord /\ Idle.pc = "idle"
    BY DEF Idle, RunRecord, Pc
  <1>3. AtRest.now = Nobody
    BY DEF AtRest
  <1>4. BaseInv
    <2>1. SessionTypeOK
      BY <1>1, <1>2 DEF SessionTypeOK, Status
    <2>2. WalkInv
      BY <1>1, <1>3 DEF WalkInv, Walking
    <2>3. RunInv
      BY <1>1, <1>2 DEF RunInv
    <2> QED BY <2>1, <2>2, <2>3 DEF BaseInv
  <1>5. EndInv
    BY <1>1 DEF EndInv
  <1>6. OneRun
    BY <1>1, <1>2 DEF OneRun, Active
  <1>7. OwnerInv
    BY <1>1 DEF OwnerInv
  <1>8. LogInv
    BY <1>1, <1>2 DEF LogInv, Active, Ended, None
  <1> QED BY <1>4, <1>5, <1>6, <1>7, <1>8 DEF DeploymentInv

\* A step of a run keeps EndInv: before it stops pending it sets an end.
LEMMA RunEnds ==
    ASSUME NEW r \in Runs, BaseInv, EndInv, StepShape(r), BaseInv'
    PROVE  EndInv'
  <1> SUFFICES ASSUME NEW s \in Sessions,
                      status'[s] \notin Ended \cup {None, "created"}
               PROVE  \E q \in Runs : (Pending(q) /\ run[q].session = s)'
    BY DEF EndInv
  <1>1. /\ run'[r].session = run[r].session /\ status \in [Sessions -> Status]
        /\ \A q \in Runs \ {r} : Pending(q)' = Pending(q) /\ run'[q].session = run[q].session
    BY DEF StepShape, Others, Pending, Active, BaseInv, SessionTypeOK
  <1>2. CASE run[r].session # s
    <2>1. status'[s] = status[s]
      BY <1>2 DEF StepShape, Others
    <2>2. PICK q \in Runs : Pending(q) /\ run[q].session = s
      BY <2>1 DEF EndInv
    <2> QED BY <1>1, <1>2, <2>2
  <1>3. CASE run[r].session = s /\ Works(r)
    BY <1>1, <1>3 DEF Works
  <1>4. CASE run[r].session = s /\ (Announces(r) \/ Ends(r))
    <2>1. status' = status /\ run[r].pc \in Closing /\ Walking(r)
      <3>1. \/ status' = [status EXCEPT ![s] = EndOf(run[r].pc)]
            \/ status' = status /\ Walking(r)
        BY <1>4 DEF Announces, Ends
      <3>2. EndOf(run[r].pc) \in Ended
        BY DEF EndOf, Ended
      <3> QED BY <1>1, <1>4, <3>1, <3>2 DEF Announces, Ends
    <2>2. PICK q \in Runs : Pending(q) /\ run[q].session = s
      BY <2>1 DEF EndInv
    <2>3. q # r
      BY <2>1, <2>2 DEF Pending
    <2> QED BY <1>1, <2>2, <2>3
  <1>5. CASE run[r].session = s /\ Cleans(r)
    <2>1. PICK q \in Runs : Pending(q) /\ run[q].session = s
      BY <1>5 DEF EndInv, Cleans
    <2>2. q # r
      BY <1>5, <2>1 DEF Pending, Cleans
    <2> QED BY <1>1, <2>1, <2>2
  <1> QED BY <1>2, <1>3, <1>4, <1>5 DEF StepShape

\* What a step of a run does to the sandboxes.
LEMMA SandboxShape ==
    ASSUME NEW r \in Runs, BaseInv, RunStep(r), StepShape(r)
    PROVE  LET s == run[r].session IN
           /\ run'[r].pc # "idle"
           /\ \/ registry' = registry /\ kept' = kept /\ Active(r)'
              \/ /\ registry' = [registry EXCEPT ![s] = r]
                 /\ kept' = kept \cup {r}
                 /\ Active(r)'
              \/ /\ registry' = [registry EXCEPT ![s] = Nobody]
                 /\ kept' = kept \ {registry[s]}
                 /\ run[r].pc = "cleanup" /\ run'[r].pc = "done"
  <1>1. run'[r].pc # "idle"
    BY DEF StepShape, Works, Announces, Ends, Cleans, Pending, Active, Closing
  <1>2. CASE run[r].pc # "cleanup"
    <2>1. Active(r)'
      BY <1>2 DEF StepShape, Works, Announces, Ends, Cleans, Pending, Active, Closing
    <2>2. ~Cleanup(r)
      BY <1>2 DEF Cleanup
    <2> QED BY <1>1, <2>1, <2>2
            DEF RunStep, Start, BeginSend, SendToNobody, SocketAnswers, ModelAnswers, ToolReturns
  <1>3. CASE run[r].pc = "cleanup"
    <2>1. Cleanup(r)
      BY <1>3 DEF RunStep, Start, BeginSend, SendToNobody, SocketAnswers, ModelAnswers,
                  ToolReturns, Sends, BaseInv, WalkInv
    <2>2. run'[r].pc = "done"
      BY <1>3 DEF StepShape, Works, Announces, Ends, Cleans, Closing
    <2> QED BY <1>1, <1>3, <2>1, <2>2 DEF Cleanup
  <1> QED BY <1>2, <1>3

\* A step of a run keeps runs apart and sandboxes filed.
LEMMA RunOwns ==
    ASSUME NEW r \in Runs, BaseInv, OneRun, OwnerInv, RunStep(r), StepShape(r), BaseInv'
    PROVE  OneRun' /\ OwnerInv'
  <1> DEFINE s == run[r].session
  <1>1. /\ Active(r) /\ run'[r].session = s /\ s \in Sessions
        /\ overlapped' = overlapped
        /\ \A q \in Runs \ {r} : run'[q] = run[q] /\ Active(q)' = Active(q)
    BY DEF StepShape, Others, Active, BaseInv, RunInv
  <1>2. OneRun'
    BY <1>1 DEF OneRun
  <1>3. registry \in [Sessions -> Runs \cup {Nobody}] /\ kept \subseteq Runs
    BY DEF BaseInv, SessionTypeOK
  <1>4. run'[r].pc # "idle"
    BY SandboxShape
  <1>5. CASE registry' = registry /\ kept' = kept /\ Active(r)'
    BY <1>1, <1>2, <1>3, <1>4, <1>5 DEF OwnerInv
  <1>6. CASE /\ registry' = [registry EXCEPT ![s] = r]
             /\ kept' = kept \cup {r}
             /\ Active(r)'
    <2>1. \A q \in kept : run[q].session = s /\ s \notin overlapped => q = r
      BY <1>1, <1>3 DEF OwnerInv, OneRun
    <2>2. registry'[s] = r /\ \A t \in Sessions \ {s} : registry'[t] = registry[t]
      BY <1>1, <1>3, <1>6
    <2>3. \A t \in Sessions, q \in Runs :
             registry'[t] = q /\ q # Nobody => Active(q)' /\ run'[q].session = t
      BY <1>1, <1>3, <1>6, <2>2 DEF OwnerInv
    <2>4. \A q \in kept' : /\ run'[q].pc # "idle"
                           /\ run'[q].session \notin overlapped' =>
                                 Active(q)' /\ registry'[run'[q].session] = q
      <3> SUFFICES ASSUME NEW q \in kept'
                   PROVE  /\ run'[q].pc # "idle"
                          /\ run'[q].session \notin overlapped' =>
                                Active(q)' /\ registry'[run'[q].session] = q
        OBVIOUS
      <3>1. CASE q = r
        BY <1>1, <1>4, <1>6, <2>2, <3>1
      <3>2. CASE q # r
        <4>1. q \in kept /\ q \in Runs /\ run'[q] = run[q] /\ Active(q)' = Active(q)
          BY <1>1, <1>3, <1>6, <3>2
        <4>2. run[q].session \in Sessions
          BY <4>1 DEF OwnerInv, BaseInv, RunInv
        <4> QED BY <1>1, <2>1, <2>2, <3>2, <4>1, <4>2 DEF OwnerInv
      <3> QED BY <3>1, <3>2
    <2> QED BY <1>2, <2>3, <2>4 DEF OwnerInv
  <1>7. CASE /\ registry' = [registry EXCEPT ![s] = Nobody]
             /\ kept' = kept \ {registry[s]}
    <2>1. registry'[s] = Nobody /\ \A t \in Sessions \ {s} : registry'[t] = registry[t]
      BY <1>1, <1>3, <1>7
    <2>2. \A t \in Sessions, q \in Runs :
             registry'[t] = q /\ q # Nobody => Active(q)' /\ run'[q].session = t
      <3> SUFFICES ASSUME NEW t \in Sessions, NEW q \in Runs,
                          registry'[t] = q, q # Nobody
                   PROVE  Active(q)' /\ run'[q].session = t
        OBVIOUS
      <3>1. t # s /\ registry[t] = q
        BY <1>3, <2>1
      <3>2. Active(q) /\ run[q].session = t
        BY <3>1 DEF OwnerInv
      <3>3. q # r
        BY <3>1, <3>2
      <3> QED BY <1>1, <3>2, <3>3
    <2>3. \A q \in kept' : /\ run'[q].pc # "idle"
                           /\ run'[q].session \notin overlapped' =>
                                 Active(q)' /\ registry'[run'[q].session] = q
      <3> SUFFICES ASSUME NEW q \in kept'
                   PROVE  /\ run'[q].pc # "idle"
                          /\ run'[q].session \notin overlapped' =>
                                Active(q)' /\ registry'[run'[q].session] = q
        OBVIOUS
      <3>1. q \in kept /\ q \in Runs /\ q # registry[s] /\ run[q].pc # "idle"
        BY <1>3, <1>7 DEF OwnerInv
      <3>2. run[q].session \in Sessions
        BY <3>1 DEF BaseInv, RunInv
      <3>3. CASE q = r
        BY <1>1, <1>4, <3>1, <3>3 DEF OwnerInv
      <3>4. CASE q # r
        BY <1>1, <2>1, <3>1, <3>2, <3>4 DEF OwnerInv
      <3> QED BY <3>3, <3>4
    <2> QED BY <1>2, <2>2, <2>3 DEF OwnerInv
  <1> QED BY <1>5, <1>6, <1>7, SandboxShape

\* A step of a run keeps log and status together.
LEMMA RunLogs ==
    ASSUME NEW r \in Runs, BaseInv, OneRun, LogInv, StepShape(r), BaseInv'
    PROVE  LogInv'
  <1>1. /\ Active(r) /\ run'[r].session = run[r].session /\ run[r].session \in Sessions
        /\ overlapped' = overlapped
        /\ \A q \in Runs \ {r} : /\ run'[q] = run[q] /\ Active(q)' = Active(q)
                                 /\ Walking(q)' = Walking(q)
        /\ status \in [Sessions -> Status]
        /\ lastEnd \in [Sessions -> {None, "complete", "error"}]
    BY DEF StepShape, Others, Active, BaseInv, RunInv, SessionTypeOK
  <1> DEFINE Part(s) ==
        /\ \A q \in Runs : Active(q) /\ run[q].session = s =>
              /\ run[q].pc # "cleanup" => lastEnd[s] = None
              /\ run[q].pc \in Closing /\ Walking(q) => status[s] = EndOf(run[q].pc)
              /\ run[q].pc = "cleanup" => Agrees(s)
        /\ ~Busy(s) /\ status[s] \in Ended => Agrees(s)
  <1> SUFFICES ASSUME NEW s \in Sessions, s \notin overlapped
               PROVE  Part(s)'
    BY <1>1 DEF LogInv
  <1>2. Part(s)
    BY DEF LogInv
  <1>3. CASE run[r].session # s
    <2>1. /\ status'[s] = status[s] /\ lastEnd'[s] = lastEnd[s]
          /\ Busy(s)' = Busy(s)
      BY <1>1, <1>3 DEF StepShape, Others, Busy
    <2>2. Agrees(s)' = Agrees(s)
      BY <2>1 DEF Agrees
    <2> QED BY <1>1, <1>2, <1>3, <2>1, <2>2
  <1>4. CASE run[r].session = s
    <2>1. \A q \in Runs \ {r} : ~(Active(q) /\ run[q].session = s)
      BY <1>1, <1>4 DEF OneRun
    <2>2. \A q \in Runs : (Active(q) /\ run[q].session = s)' => q = r
      BY <1>1, <2>1
    <2>3. /\ run[r].pc # "cleanup" => lastEnd[s] = None
          /\ run[r].pc \in Closing /\ Walking(r) => status[s] = EndOf(run[r].pc)
          /\ run[r].pc = "cleanup" => Agrees(s)
      BY <1>1, <1>2, <1>4
    <2>4. CASE Works(r)
      <3>1. Busy(s)'
        BY <1>1, <1>4, <2>4 DEF Works, Pending, Busy
      <3> QED BY <2>2, <2>3, <2>4, <3>1 DEF Works, Pending
    <2>5. CASE Announces(r)
      <3>1. Busy(s)'
        BY <1>1, <1>4, <2>5 DEF Announces, Busy, Active
      <3>2. lastEnd'[s] = None /\ status'[s] = EndOf(run[r].pc) /\ run'[r].pc = run[r].pc
               /\ run[r].pc # "cleanup"
        BY <1>1, <1>4, <2>3, <2>5 DEF Announces, Closing
      <3> QED BY <2>2, <3>1, <3>2
    <2>6. CASE Ends(r)
      <3>1. Busy(s)'
        BY <1>1, <1>4, <2>6 DEF Ends, Busy, Active
      <3>2. status'[s] = EndOf(run[r].pc)
        BY <1>1, <1>4, <2>3, <2>6 DEF Ends
      <3>3. lastEnd'[s] = run[r].pc \/ (run[r].pc = "error" /\ lastEnd'[s] = None)
        BY <1>1, <1>4, <2>3, <2>6 DEF Ends
      <3>4. run[r].pc \in Closing /\ run'[r].pc = "cleanup"
        BY <2>6 DEF Ends
      <3>5. Agrees(s)'
        BY <3>2, <3>3, <3>4 DEF Agrees, EndOf, Ended, Closing, None
      <3> QED BY <2>2, <3>1, <3>4, <3>5 DEF Closing
    <2>7. CASE Cleans(r)
      <3>1. Agrees(s)'
        BY <2>3, <2>7 DEF Cleans, Agrees
      <3>2. ~Active(r)'
        BY <2>7 DEF Cleans, Active
      <3> QED BY <2>2, <3>1, <3>2
    <2> QED BY <2>4, <2>5, <2>6, <2>7 DEF StepShape
  <1> QED BY <1>3, <1>4

\* Answers keep them: the run that begins will set an end, and if another one is
\* at work the session counts as overlapped.
LEMMA SubmitKeeps ==
    ASSUME NEW r \in Runs, NEW s \in Sessions, DeploymentInv, SubmitAnswers(r, s)
    PROVE  DeploymentInv'
  <1>1. /\ BaseInv /\ EndInv /\ OneRun /\ OwnerInv /\ LogInv
        /\ BaseInv'
        /\ run[r].pc = "idle" /\ run'[r].pc = "start" /\ run'[r].session = s
        /\ \A q \in Runs \ {r} : run'[q] = run[q]
        /\ \A q \in Runs : Walking(q)' = Walking(q)
        /\ \A t \in Sessions \ {s} : status'[t] = status[t] /\ lastEnd'[t] = lastEnd[t]
        /\ lastEnd'[s] = None
        /\ overlapped' = IF Busy(s) THEN overlapped \cup {s} ELSE overlapped
        /\ registry' = registry /\ kept' = kept
    BY SubmitShape DEF DeploymentInv
  <1>2. /\ \A q \in Runs \ {r} : Active(q)' = Active(q) /\ Pending(q)' = Pending(q)
        /\ ~Active(r) /\ Active(r)' /\ Pending(r)'
        /\ s \notin overlapped' => \A q \in Runs : ~(Active(q) /\ run[q].session = s)
        /\ \A t \in Sessions : t \notin overlapped' => t \notin overlapped
    BY <1>1 DEF Active, Pending, Closing, Busy
  <1>3. EndInv'
    BY <1>1, <1>2 DEF EndInv, Pending
  <1>4. OneRun'
    BY <1>1, <1>2 DEF OneRun, BaseInv, RunInv, Active
  <1>5. OwnerInv'
    <2>1. kept \subseteq Runs /\ r \notin kept
      BY <1>1 DEF OwnerInv, BaseInv, SessionTypeOK
    <2>2. \A q \in kept : run[q].session \in Sessions
      BY <1>1, <2>1 DEF OwnerInv, BaseInv, RunInv
    <2>3. \A t \in Sessions, q \in Runs :
             registry'[t] = q /\ q # Nobody => Active(q)' /\ run'[q].session = t
      BY <1>1, <1>2 DEF OwnerInv
    <2>4. \A q \in kept' : /\ run'[q].pc # "idle"
                           /\ run'[q].session \notin overlapped' =>
                                 Active(q)' /\ registry'[run'[q].session] = q
      BY <1>1, <1>2, <2>1, <2>2 DEF OwnerInv
    <2> QED BY <2>3, <2>4 DEF OwnerInv
  <1>6. LogInv'
    <2> DEFINE Part(t) ==
          /\ \A q \in Runs : Active(q) /\ run[q].session = t =>
                /\ run[q].pc # "cleanup" => lastEnd[t] = None
                /\ run[q].pc \in Closing /\ Walking(q) => status[t] = EndOf(run[q].pc)
                /\ run[q].pc = "cleanup" => Agrees(t)
          /\ ~Busy(t) /\ status[t] \in Ended => Agrees(t)
    <2> SUFFICES ASSUME NEW t \in Sessions, t \notin overlapped'
                 PROVE  Part(t)'
      BY DEF LogInv
    <2>1. Part(t)
      BY <1>1, <1>2 DEF LogInv
    <2>2. CASE t = s
      <3>1. Busy(s)'
        BY <1>1, <1>2 DEF Busy
      <3>2. \A q \in Runs : (Active(q) /\ run[q].session = s)' => q = r
        BY <1>1, <1>2, <2>2
      <3> QED BY <1>1, <2>2, <3>1, <3>2 DEF Closing
    <2>3. CASE t # s
      <3>1. /\ Agrees(t)' = Agrees(t) /\ Busy(t)' = Busy(t)
            /\ \A q \in Runs : Active(q)' /\ run'[q].session = t => q # r
        BY <1>1, <1>2, <2>3 DEF Agrees, Busy
      <3> QED BY <1>1, <1>2, <2>1, <2>3, <3>1
    <2> QED BY <2>2, <2>3
  <1> QED BY <1>1, <1>3, <1>4, <1>5, <1>6 DEF DeploymentInv

\* Every step keeps the invariants.
LEMMA NextDeployment == DeploymentInv /\ [Next]_vars => DeploymentInv'
  <1> SUFFICES ASSUME DeploymentInv, [Next]_vars PROVE DeploymentInv'
    OBVIOUS
  <1>1. BaseInv /\ EndInv /\ OneRun /\ OwnerInv /\ LogInv
    BY DEF DeploymentInv
  <1>2. ASSUME BaseInv', \A q \in Runs : Walking(q)' = Walking(q),
               UNCHANGED <<status, lastEnd, run, registry, kept, overlapped>>
        PROVE  DeploymentInv'
    <2>1. EndInv' /\ OneRun' /\ OwnerInv'
      BY <1>1, <1>2 DEF EndInv, OneRun, OwnerInv, Pending, Active
    <2>2. LogInv'
      BY <1>1, <1>2 DEF LogInv, Agrees, Busy, Active
    <2> QED BY <1>2, <2>1, <2>2 DEF DeploymentInv
  <1>3. ASSUME NEW s \in Sessions, CreateSession(s)
        PROVE  DeploymentInv'
    <2>1. /\ BaseInv'
          /\ status[s] = None /\ status' = [status EXCEPT ![s] = "created"]
          /\ \A q \in Runs : Walking(q)' = Walking(q)
          /\ UNCHANGED <<lastEnd, run, registry, kept, overlapped>>
          /\ status \in [Sessions -> Status]
      BY <1>1, <1>3, CreateShape DEF BaseInv, SessionTypeOK
    <2>2. \A t \in Sessions : t # s => status'[t] = status[t]
      BY <2>1
    <2>3. status'[s] = "created"
      BY <2>1
    <2>4. EndInv' /\ OneRun' /\ OwnerInv'
      BY <1>1, <2>1, <2>2, <2>3 DEF EndInv, OneRun, OwnerInv, Pending, Active
    <2>5. LogInv'
      BY <1>1, <2>1, <2>2, <2>3 DEF LogInv, Agrees, Busy, Active, EndOf, Ended, None
    <2> QED BY <2>1, <2>4, <2>5 DEF DeploymentInv
  <1>4. ASSUME NEW r \in Runs, NEW s \in Sessions, SubmitAnswers(r, s)
        PROVE  DeploymentInv'
    BY <1>4, SubmitKeeps
  <1>5. ASSUME NEW r \in Runs, RunStep(r)
        PROVE  DeploymentInv'
    <2>1. StepShape(r) /\ BaseInv'
      BY <1>1, <1>5, RunShape
    <2> QED BY <1>1, <1>5, <2>1, RunEnds, RunOwns, RunLogs DEF DeploymentInv
  <1>6. CASE ClientStep
    BY <1>1, <1>2, <1>6, ClientShape
  <1>7. CASE UNCHANGED vars
    <2>1. /\ UNCHANGED <<status, lastEnd, run, registry, kept, overlapped>> /\ walk' = walk
      BY <1>7 DEF vars, socketVars
    <2>2. BaseInv' /\ \A q \in Runs : Walking(q)' = Walking(q)
      BY <1>1, <2>1 DEF BaseInv, SessionTypeOK, WalkInv, RunInv, Walking
    <2> QED BY <1>2, <2>1, <2>2
  <1> QED BY <1>3, <1>4, <1>5, <1>6, <1>7 DEF Next

-----------------------------------------------------------------------------
\* The invariant of the deployments.
THEOREM DeploymentInvariant == Spec => []DeploymentInv
  BY InitDeployment, NextDeployment, PTL DEF Spec

\* However orchestrations overlap and sends raise, a session with nothing running
\* has ended, been left as created, or does not exist.
THEOREM IdleHasEnded == Spec => []IdleSessionHasEnded
  <1>1. DeploymentInv => IdleSessionHasEnded
    BY DEF DeploymentInv, EndInv, IdleSessionHasEnded, Pending, Busy
  <1> QED BY DeploymentInvariant, <1>1, PTL

\* The table of sandboxes knows only runs at work, and each run's own sandbox is
\* deleted when it ends.
THEOREM SandboxesHaveOwners == Spec => []SandboxesAreOwned
  <1>1. ASSUME DeploymentInv PROVE SandboxesAreOwned
    <2>1. BaseInv /\ OwnerInv
      BY <1>1 DEF DeploymentInv
    <2>2. \A s \in Sessions : registry[s] # Nobody => Busy(s)
      BY <2>1 DEF BaseInv, SessionTypeOK, OwnerInv, Busy
    <2> QED BY <2>1, <2>2 DEF OwnerInv, SandboxesAreOwned
  <1> QED BY DeploymentInvariant, <1>1, PTL

\* Where the program comes to its last message from.
LEMMA CompleteAfterAccount ==
    ASSUME NEW r \in Runs, BaseInv, run[r].pc \in Sends, Script(r).next = "complete"
    PROVE  run[r].pc \in {"farewell", "apology"}
  <1>1. DOMAIN OrchestratorScript = {"ready", "deploying", "complete", "error"}
    BY DEF OrchestratorScript
  <1>2. CASE run[r].pc \in DOMAIN OrchestratorScript
    BY <1>1, <1>2 DEF Script, OrchestratorScript, Say
  <1>3. CASE run[r].pc \notin DOMAIN OrchestratorScript
    <2>1. Script(r) = AgentScript(run[r])[run[r].pc]
      BY <1>3 DEF Script
    <2>2. run[r].pc \in Sends \ {"ready", "deploying", "complete", "error"}
      BY <1>1, <1>3
    <2>3. AfterText(run[r]) # "complete" /\ AfterTool(run[r]) # "complete"
      BY DEF AfterText, AfterTool
    <2> QED BY <2>1, <2>2, <2>3 DEF Sends, AgentScript, OnStatus, OnMessage, Say
  <1> QED BY <1>2, <1>3

\* A message of success is in the log, or is the next to be sent.
Completing(s) ==
    \/ lastEnd[s] = "complete"
    \/ \E r \in Runs : run[r].session = s /\ run[r].pc = "complete"

\* The orchestrator comes to its last message only from an account of the agent's
\* that is in the log; that account stays until answers are submitted again.
AccountInv ==
    /\ agentEnd \in [Sessions -> {None, "farewell", "apology"}]
    /\ \A s \in Sessions \ overlapped : Completing(s) => agentEnd[s] # None

\* No step of a run takes an account back, and only its last message, or the
\* step to it, needs one.
AccountShape(r) ==
    /\ agentEnd' \in [Sessions -> {None, "farewell", "apology"}]
    /\ \A s \in Sessions : agentEnd[s] # None => agentEnd'[s] # None
    /\ \A s \in Sessions : lastEnd'[s] = "complete" =>
          lastEnd[s] = "complete" \/ (s = run[r].session /\ run[r].pc = "complete")
    /\ run'[r].pc = "complete" =>
          run[r].pc = "complete" \/ agentEnd'[run[r].session] # None

\* A message is logged, and the program goes on.
LEMMA LoggedAccount ==
    ASSUME NEW r \in Runs, BaseInv, AccountInv, run[r].pc \in Sends,
           Logged(run[r].session, run[r].pc), run'[r].pc = Script(r).next
    PROVE  AccountShape(r)
  <1>1. /\ run[r].session \in Sessions
        /\ agentEnd \in [Sessions -> {None, "farewell", "apology"}]
        /\ lastEnd \in [Sessions -> {None, "complete", "error"}]
    BY DEF BaseInv, RunInv, SessionTypeOK, AccountInv, Sends
  <1>2. \A s \in Sessions :
           /\ agentEnd'[s] = IF s = run[r].session /\ run[r].pc \in {"farewell", "apology"}
                             THEN run[r].pc ELSE agentEnd[s]
           /\ lastEnd'[s] = IF s = run[r].session /\ run[r].pc \in {"complete", "error"}
                            THEN run[r].pc ELSE lastEnd[s]
    BY <1>1 DEF Logged
  <1>3. agentEnd' \in [Sessions -> {None, "farewell", "apology"}]
    BY <1>1 DEF Logged
  <1>4. run'[r].pc = "complete" => run[r].pc \in {"farewell", "apology"}
    BY CompleteAfterAccount
  <1> QED BY <1>1, <1>2, <1>3, <1>4 DEF AccountShape, None

LEMMA RunAccounts ==
    ASSUME NEW r \in Runs, BaseInv, AccountInv, RunStep(r)
    PROVE  AccountShape(r)
  <1>1. /\ agentEnd \in [Sessions -> {None, "farewell", "apology"}]
        /\ run[r] \in RunRecord /\ run \in [Runs -> RunRecord]
        /\ \A pc : Goto(r, pc) => run'[r].pc = pc
    BY DEF AccountInv, BaseInv, SessionTypeOK, RunRecord, Goto
  <1>2. CASE SendToNobody(r)
    <2>1. /\ run[r].pc \in Sends /\ Logged(run[r].session, run[r].pc)
          /\ run'[r].pc = Script(r).next
      BY <1>1, <1>2 DEF SendToNobody, RunRecord
    <2> QED BY <2>1, LoggedAccount
  <1>3. CASE SocketAnswers(r)
    <2>1. run[r].pc \in Sends
      BY <1>3 DEF SocketAnswers, BaseInv, WalkInv
    <2>2. \/ UNCHANGED <<run, lastEnd, agentEnd>>
          \/ Said(r)
          \/ Unsaid(r)
      BY <1>3 DEF SocketAnswers
    <2>3. CASE Said(r)
      <3>1. Logged(run[r].session, run[r].pc) /\ run'[r].pc = Script(r).next
        BY <1>1, <2>3 DEF Said, RunRecord
      <3> QED BY <2>1, <3>1, LoggedAccount
    <2>4. CASE Unsaid(r)
      <3>1. run'[r].pc # "complete"
        BY <1>1, <2>1, <2>4, ScriptFacts DEF Unsaid
      <3> QED BY <1>1, <2>4, <3>1 DEF Unsaid, AccountShape
    <2> QED BY <1>1, <2>2, <2>3, <2>4 DEF AccountShape
  <1>4. CASE BeginSend(r)
    BY <1>1, <1>4 DEF BeginSend, AccountShape
  <1>5. CASE ModelAnswers(r)
    <2>1. run'[r].pc # "complete"
      <3>1. CASE Goto(r, "agent_failed")
        BY <1>1, <3>1
      <3>2. CASE ~Goto(r, "agent_failed")
        <4>1. PICK tools \in 0 .. MaxTools :
                 LET answered == [run[r] EXCEPT !.turn = @ + 1, !.tools = tools]
                 IN  \E pc \in {"text", AfterText(answered)} :
                        run' = [run EXCEPT ![r] = [answered EXCEPT !.pc = pc]]
          BY <1>5, <3>2 DEF ModelAnswers
        <4> DEFINE answered == [run[r] EXCEPT !.turn = @ + 1, !.tools = tools]
        <4>2. PICK pc \in {"text", AfterText(answered)} :
                 run' = [run EXCEPT ![r] = [answered EXCEPT !.pc = pc]]
          BY <4>1
        <4>3. pc # "complete"
          BY DEF AfterText
        <4>4. "pc" \in DOMAIN answered
          BY <1>1 DEF RunRecord
        <4> HIDE DEF answered
        <4>5. [answered EXCEPT !.pc = pc].pc = pc
          BY <4>4
        <4> QED BY <1>1, <4>2, <4>3, <4>5
      <3> QED BY <3>1, <3>2
    <2> QED BY <1>1, <1>5, <2>1 DEF ModelAnswers, AccountShape
  <1>6. CASE Start(r) \/ ToolReturns(r) \/ Cleanup(r)
    <2>1. /\ run'[r].pc \in {"ready", "deploying", "result", "done"}
          /\ UNCHANGED <<lastEnd, agentEnd>>
      BY <1>1, <1>6 DEF Start, ToolReturns, Cleanup
    <2> QED BY <1>1, <2>1 DEF AccountShape
  <1> QED BY <1>2, <1>3, <1>4, <1>5, <1>6 DEF RunStep

\* Every step keeps the accounts.
LEMMA NextAccount == DeploymentInv /\ AccountInv /\ [Next]_vars => AccountInv'
  <1> SUFFICES ASSUME DeploymentInv, AccountInv, [Next]_vars PROVE AccountInv'
    OBVIOUS
  <1>1. BaseInv
    BY DEF DeploymentInv
  <1>2. ASSUME UNCHANGED <<lastEnd, agentEnd, run, overlapped>> PROVE AccountInv'
    BY <1>2 DEF AccountInv, Completing
  <1>3. CASE \E s \in Sessions : CreateSession(s)
    BY <1>2, <1>3 DEF CreateSession
  <1>4. CASE ClientStep \/ UNCHANGED vars
    BY <1>2, <1>4 DEF ClientStep, vars
  <1>5. ASSUME NEW r \in Runs, NEW s \in Sessions, SubmitAnswers(r, s)
        PROVE  AccountInv'
    <2>1. /\ run'[r].pc = "start" /\ run'[r].session = s /\ run[r].pc = "idle"
          /\ \A q \in Runs \ {r} : run'[q] = run[q]
          /\ \A t \in Sessions \ {s} : lastEnd'[t] = lastEnd[t]
          /\ lastEnd'[s] = None
          /\ overlapped' = IF Busy(s) THEN overlapped \cup {s} ELSE overlapped
      BY <1>1, <1>5, SubmitShape
    <2>2. /\ agentEnd' \in [Sessions -> {None, "farewell", "apology"}]
          /\ \A t \in Sessions \ {s} : agentEnd'[t] = agentEnd[t]
      BY <1>5 DEF SubmitAnswers, AccountInv
    <2> SUFFICES ASSUME NEW t \in Sessions \ overlapped', Completing(t)'
                 PROVE  agentEnd'[t] # None
      BY <2>2 DEF AccountInv
    <2>3. CASE t = s
      <3>1. ~Busy(s)
        BY <2>1, <2>3
      <3>2. \A q \in Runs : ~(run'[q].session = s /\ run'[q].pc = "complete")
        BY <2>1, <3>1 DEF Busy, Active
      <3> QED BY <2>1, <2>3, <3>2 DEF Completing, None
    <2>4. CASE t # s
      <3>1. t \in Sessions \ overlapped
        BY <2>1
      <3> QED BY <2>1, <2>2, <2>4, <3>1 DEF AccountInv, Completing
    <2> QED BY <2>3, <2>4
  <1>6. ASSUME NEW r \in Runs, RunStep(r)
        PROVE  AccountInv'
    <2>1. AccountShape(r) /\ StepShape(r)
      BY <1>1, <1>6, RunAccounts, RunShape
    <2>2. /\ run'[r].session = run[r].session /\ overlapped' = overlapped
          /\ \A q \in Runs \ {r} : run'[q] = run[q]
      BY <2>1 DEF StepShape, Others
    <2> SUFFICES ASSUME NEW t \in Sessions \ overlapped, Completing(t)'
                 PROVE  agentEnd'[t] # None
      BY <2>1, <2>2 DEF AccountInv, AccountShape
    <2>3. CASE lastEnd'[t] = "complete"
      BY <2>1, <2>3 DEF AccountInv, AccountShape, Completing
    <2>4. ASSUME NEW q \in Runs, run'[q].session = t, run'[q].pc = "complete"
          PROVE  agentEnd'[t] # None
      <3>1. CASE q = r
        BY <2>1, <2>2, <2>4, <3>1 DEF AccountInv, AccountShape, Completing
      <3>2. CASE q # r
        BY <2>1, <2>2, <2>4, <3>2 DEF AccountInv, AccountShape, Completing
      <3> QED BY <3>1, <3>2
    <2> QED BY <2>3, <2>4 DEF Completing
  <1> QED BY <1>3, <1>4, <1>5, <1>6 DEF Next

\* The status and the log of a session name the same end, and a completed session
\* has the agent's account in its log.
THEOREM LogIsTrue == Spec => []LogAgreesWithStatus
  <1>1. Init => AccountInv
    BY DEF Init, AccountInv, Completing, Idle, None
  <1>2. DeploymentInv /\ AccountInv => LogAgreesWithStatus
    BY DEF DeploymentInv, LogInv, AccountInv, Completing, LogAgreesWithStatus, Agrees
  <1> QED BY DeploymentInvariant, NextAccount, <1>1, <1>2, PTL DEF Spec

-----------------------------------------------------------------------------
(***************************************************************************)
(* The lists of sockets.                                                   *)
(*                                                                         *)
(* A client that is there is listed once (ListedInv).  A send may remove   *)
(* what another handler has listed since, but only sockets whose send has  *)
(* raised, and those are never open again (LoopInv).                       *)
(*                                                                         *)
(* A loop goes by position.  No socket moves in the list it goes over:     *)
(* connect appends to it, disconnect replaces it, and the one thing that   *)
(* removes in place, the end of another loop, is excluded while a session  *)
(* has one orchestration (AheadInv).                                       *)
(***************************************************************************)
In(w, list) == \E a \in 1 .. Len(list) : list[a] = w

Distinct(list) == \A a, b \in 1 .. Len(list) : list[a] = list[b] => a = b

\* What the types of the connections leave open.
SocketInv ==
    /\ SocketTypeOK
    /\ \A w \in Sockets : socket[w].state # "new" => socket[w].session \in Sessions
    /\ \A r \in Runs : Walking(r) => walk[r].session = run[r].session /\ walk[r].session \in Sessions
    /\ \A r \in Runs : walk[r].live => Walking(r)

\* The lists and the sockets agree.
ListedInv ==
    /\ \A s \in Sessions : Distinct(listeners[s])
    /\ \A s \in Sessions, w \in Sockets : In(w, listeners[s]) =>
          socket[w].session = s /\ socket[w].state \in {"open", "gone", "stray"}
    /\ \A w \in Sockets : socket[w].state = "open" => In(w, listeners[socket[w].session])

\* What a loop has in hand.
LoopInv ==
    \A r \in Runs :
        /\ \A w \in Sockets : In(w, walk[r].frozen) => socket[w].state # "new"
        /\ Walking(r) => socket[walk[r].now].state # "new"
        /\ \A w \in Sockets : In(w, walk[r].dead) => socket[w].state \notin {"new", "open"}

\* Whoever a loop owes a turn is still ahead of it.
AheadInv ==
    \A r \in Runs : Walking(r) /\ walk[r].session \notin overlapped =>
        walk[r].owed \subseteq Ahead(r)

ListeningInv == SocketInv /\ ListedInv /\ LoopInv /\ AheadInv

LEMMA WithoutKeeps ==
    ASSUME NEW list \in Seq(Sockets), NEW gone, Distinct(list)
    PROVE  /\ Without(list, gone) \in Seq(Sockets)
           /\ Distinct(Without(list, gone))
           /\ \A w : In(w, Without(list, gone)) <=> In(w, list) /\ w \notin gone
  <1> DEFINE n == Len(list)
             chosen == ToSet(list) \ gone
             new == Without(list, gone)
  <1>1. n \in Nat /\ DOMAIN list = 1 .. n
    BY LenProperties
  <1>2. new \in Seq(Sockets) /\ \E place : IsPlacing(list, chosen, n, new, place)
    BY OnlyKeepsOrder DEF Without
  <1>3. PICK place : IsPlacing(list, chosen, n, new, place)
    BY <1>2
  <1>4. \A i \in 1 .. n : list[i] \in chosen <=> list[i] \notin gone
    BY <1>1 DEF ToSet
  <1> HIDE DEF new, chosen
  <1>5. /\ \A a \in 1 .. Len(new) : place[a] \in 1 .. n /\ list[place[a]] \in chosen
        /\ \A a \in 1 .. Len(new) : new[a] = list[place[a]]
        /\ \A a, b \in 1 .. Len(new) : a < b => place[a] < place[b]
        /\ \A i \in 1 .. n : list[i] \in chosen => \E a \in 1 .. Len(new) : place[a] = i
    BY <1>3 DEF IsPlacing
  <1>6. ASSUME NEW w PROVE In(w, new) <=> In(w, list) /\ w \notin gone
    <2>1. ASSUME In(w, new) PROVE In(w, list) /\ w \notin gone
      BY <1>4, <1>5, <2>1 DEF In
    <2>2. ASSUME In(w, list), w \notin gone PROVE In(w, new)
      BY <1>4, <1>5, <2>2 DEF In
    <2> QED BY <2>1, <2>2
  <1>7. Distinct(new)
    <2> SUFFICES ASSUME NEW a \in 1 .. Len(new), NEW b \in 1 .. Len(new), new[a] = new[b], a # b
                 PROVE  FALSE
      BY DEF Distinct
    <2>1. place[a] = place[b]
      BY <1>5 DEF Distinct
    <2>2. a \in Int /\ b \in Int /\ (a < b \/ b < a)
      OBVIOUS
    <2>3. place[a] \in Int /\ place[b] \in Int /\ (place[a] < place[b] \/ place[b] < place[a])
      BY <1>5, <2>2
    <2> QED BY <2>1, <2>3
  <1> QED BY <1>2, <1>6, <1>7 DEF new

LEMMA AppendKeeps ==
    ASSUME NEW list \in Seq(Sockets), NEW w \in Sockets, ~In(w, list), Distinct(list)
    PROVE  /\ Append(list, w) \in Seq(Sockets)
           /\ Distinct(Append(list, w))
           /\ \A v : In(v, Append(list, w)) <=> In(v, list) \/ v = w
  <1> DEFINE new == Append(list, w)
  <1>1. /\ new \in Seq(Sockets) /\ Len(list) \in Nat /\ Len(new) = Len(list) + 1
        /\ \A i \in 1 .. Len(list) : new[i] = list[i]
        /\ new[Len(list) + 1] = w
    BY AppendProperties, LenProperties
  <1> HIDE DEF new
  <1>2. \A i \in 1 .. Len(new) : i \in 1 .. Len(list) \/ i = Len(list) + 1
    BY <1>1
  <1>3. Distinct(new)
    BY <1>1, <1>2 DEF Distinct, In
  <1>4. \A v : In(v, new) <=> In(v, list) \/ v = w
    BY <1>1, <1>2 DEF In
  <1> QED BY <1>1, <1>3, <1>4 DEF new

-----------------------------------------------------------------------------
\* Steps that leave connections and loops alone.
LEMMA QuietListening ==
    ASSUME ListeningInv, UNCHANGED socketVars,
           \A r \in Runs : Walking(r) => run'[r].session = run[r].session,
           overlapped \subseteq overlapped'
    PROVE  ListeningInv'
  <1>1. socket' = socket /\ listeners' = listeners /\ walk' = walk
    BY DEF socketVars
  <1>2. SocketInv'
    BY <1>1 DEF ListeningInv, SocketInv, SocketTypeOK, Walking
  <1>3. ListedInv' /\ LoopInv'
    BY <1>1 DEF ListeningInv, ListedInv, LoopInv, Walking
  <1>4. AheadInv'
    BY <1>1 DEF ListeningInv, AheadInv, Walking, Ahead, Walked
  <1> QED BY <1>2, <1>3, <1>4 DEF ListeningInv

\* A peer leaves, or a handler raises: no list changes.
LEMMA PeerListening ==
    ASSUME ListeningInv, NEW w \in Sockets, PeerLeaves(w) \/ HandlerRaises(w),
           run' = run, overlapped' = overlapped
    PROVE  ListeningInv'
  <1>1. PICK state \in {"gone", "stray"} :
           /\ socket' = [socket EXCEPT ![w].state = state]
           /\ socket[w].state \in {"open", "gone"}
           /\ listeners' = listeners /\ walk' = walk
    BY DEF PeerLeaves, HandlerRaises
  <1>2. /\ socket \in [Sockets -> SocketRecord]
        /\ socket[w] \in SocketRecord
    BY DEF ListeningInv, SocketInv, SocketTypeOK
  <1>3. /\ socket' \in [Sockets -> SocketRecord]
        /\ socket'[w].state = state /\ socket'[w].session = socket[w].session
        /\ \A v \in Sockets \ {w} : socket'[v] = socket[v]
    BY <1>1, <1>2 DEF SocketRecord, SocketState
  <1>4. SocketInv'
    BY <1>1, <1>2, <1>3 DEF ListeningInv, SocketInv, SocketTypeOK, Walking
  <1>5. ListedInv'
    BY <1>1, <1>3 DEF ListeningInv, ListedInv
  <1>6. LoopInv'
    <2>1. \A r \in Runs : Walking(r) => walk[r].now \in Sockets
      BY DEF ListeningInv, SocketInv, SocketTypeOK, Walk, Walking, Runs
    <2> QED BY <1>1, <1>3, <2>1 DEF ListeningInv, LoopInv, Walking
  <1>7. AheadInv'
    BY <1>1 DEF ListeningInv, AheadInv, Walking, Ahead, Walked
  <1> QED BY <1>4, <1>5, <1>6, <1>7 DEF ListeningInv

\* A client connects: every loop over the list has one socket more ahead.
LEMMA ConnectListening ==
    ASSUME ListeningInv, NEW w \in Sockets, NEW s \in Sessions, Connect(w, s),
           run' = run, overlapped' = overlapped
    PROVE  ListeningInv'
  <1>1. /\ socket[w].state = "new"
        /\ socket' = [socket EXCEPT ![w] = [state |-> "open", session |-> s]]
        /\ listeners' = [listeners EXCEPT ![s] = Append(listeners[s], w)]
        /\ walk' = walk
    BY DEF Connect
  <1>2. /\ socket \in [Sockets -> SocketRecord]
        /\ listeners \in [Sessions -> Seq(Sockets)] /\ listeners[s] \in Seq(Sockets)
        /\ walk \in [Runs -> Walk]
    BY DEF ListeningInv, SocketInv, SocketTypeOK, Runs
  <1>3. ~In(w, listeners[s]) /\ Distinct(listeners[s])
    BY <1>1 DEF ListeningInv, ListedInv
  <1> DEFINE new == Append(listeners[s], w)
  <1>4. /\ new \in Seq(Sockets) /\ Distinct(new)
        /\ \A v : In(v, new) <=> In(v, listeners[s]) \/ v = w
    BY <1>2, <1>3, AppendKeeps
  <1>5. /\ listeners' = [listeners EXCEPT ![s] = new]
        /\ Len(listeners[s]) \in Nat /\ Len(new) = Len(listeners[s]) + 1
        /\ \A i \in 1 .. Len(listeners[s]) : new[i] = listeners[s][i]
    BY <1>1, <1>2, AppendProperties, LenProperties
  <1> HIDE DEF new
  <1>6. /\ listeners' \in [Sessions -> Seq(Sockets)] /\ listeners'[s] = new
        /\ \A t \in Sessions \ {s} : listeners'[t] = listeners[t]
    BY <1>2, <1>4, <1>5
  <1>7. [state |-> "open", session |-> s] \in SocketRecord
    BY DEF SocketRecord, SocketState
  <1>8. /\ socket' \in [Sockets -> SocketRecord]
        /\ socket'[w].state = "open" /\ socket'[w].session = s
        /\ \A v \in Sockets \ {w} : socket'[v] = socket[v]
    BY <1>1, <1>2, <1>7
  <1>9. SocketInv'
    BY <1>1, <1>2, <1>6, <1>8 DEF ListeningInv, SocketInv, SocketTypeOK, Walking, Runs
  <1>10. ListedInv'
    <2>1. ASSUME NEW t \in Sessions PROVE Distinct(listeners'[t])
      BY <1>4, <1>6 DEF ListeningInv, ListedInv
    <2>2. ASSUME NEW t \in Sessions, NEW v \in Sockets, In(v, listeners'[t])
          PROVE  socket'[v].session = t /\ socket'[v].state \in {"open", "gone", "stray"}
      <3>1. CASE v = w
        <4>1. ~In(w, listeners[t])
          BY <1>1 DEF ListeningInv, ListedInv
        <4> QED BY <1>6, <1>8, <2>2, <3>1, <4>1
      <3>2. CASE v # w
        BY <1>4, <1>6, <1>8, <2>2, <3>2 DEF ListeningInv, ListedInv
      <3> QED BY <3>1, <3>2
    <2>3. ASSUME NEW v \in Sockets, socket'[v].state = "open"
          PROVE  In(v, listeners'[socket'[v].session])
      <3>1. CASE v = w
        BY <1>4, <1>6, <1>8, <3>1
      <3>2. CASE v # w
        <4>1. socket[v].session \in Sessions /\ In(v, listeners[socket[v].session])
          BY <1>8, <2>3, <3>2 DEF ListeningInv, ListedInv, SocketInv
        <4> QED BY <1>4, <1>6, <1>8, <3>2, <4>1
      <3> QED BY <3>1, <3>2
    <2> QED BY <2>1, <2>2, <2>3 DEF ListedInv
  <1>11. LoopInv'
    <2>1. \A r \in Runs : /\ Walking(r) => walk[r].now # w
                          /\ ~In(w, walk[r].frozen) /\ ~In(w, walk[r].dead)
      BY <1>1 DEF ListeningInv, LoopInv
    <2>2. \A r \in Runs : Walking(r) => walk[r].now \in Sockets
      BY <1>2 DEF Walk, Walking
    <2> QED BY <1>1, <1>8, <2>1, <2>2 DEF ListeningInv, LoopInv, Walking
  <1>12. AheadInv'
    <2> SUFFICES ASSUME NEW r \in Runs, Walking(r), walk[r].session \notin overlapped
                 PROVE  walk[r].owed \subseteq Ahead(r)'
      BY <1>1 DEF AheadInv, Walking
    <2>1. walk[r].owed \subseteq Ahead(r) /\ walk[r].at \in Nat
      BY <1>2 DEF ListeningInv, AheadInv, Walk
    <2>2. CASE walk[r].live /\ walk[r].session = s
      <3>1. Walked(r) = listeners[s] /\ Walked(r)' = new
        BY <1>1, <1>6, <2>2 DEF Walked
      <3>2. \A i \in walk[r].at + 1 .. Len(listeners[s]) :
               i \in walk[r].at + 1 .. Len(new) /\ new[i] = listeners[s][i]
        BY <1>5, <2>1
      <3> QED BY <1>1, <2>1, <3>1, <3>2 DEF Ahead
    <2>3. CASE ~(walk[r].live /\ walk[r].session = s)
      <3>1. Walked(r)' = Walked(r)
        <4>1. CASE walk[r].live
          <5>1. listeners'[walk[r].session] = listeners[walk[r].session]
            BY <1>2, <1>5, <2>3, <4>1
          <5> QED BY <1>1, <4>1, <5>1 DEF Walked
        <4>2. CASE ~walk[r].live
          BY <1>1, <4>2 DEF Walked
        <4> QED BY <4>1, <4>2
      <3> QED BY <1>1, <2>1, <3>1 DEF Ahead
    <2> QED BY <2>2, <2>3
  <1> QED BY <1>9, <1>10, <1>11, <1>12 DEF ListeningInv

\* A client is taken off by a new list; loops go on over the old one.
LEMMA DisconnectListening ==
    ASSUME ListeningInv, NEW w \in Sockets, Disconnect(w),
           run' = run, overlapped' = overlapped
    PROVE  ListeningInv'
  <1> DEFINE s == socket[w].session
             new == Without(listeners[s], {w})
  <1>1. /\ socket[w].state = "gone"
        /\ socket' = [socket EXCEPT ![w].state = "left"]
        /\ walk' = [r \in Runs |-> IF walk[r].live /\ walk[r].session = s
                       THEN [walk[r] EXCEPT !.live = FALSE, !.frozen = listeners[s]]
                       ELSE walk[r]]
        /\ listeners' = [listeners EXCEPT ![s] = new]
    BY DEF Disconnect, Runs
  <1>2. /\ socket \in [Sockets -> SocketRecord] /\ socket[w] \in SocketRecord
        /\ s \in Sessions
        /\ listeners \in [Sessions -> Seq(Sockets)] /\ listeners[s] \in Seq(Sockets)
        /\ walk \in [Runs -> Walk]
        /\ Distinct(listeners[s])
    BY <1>1 DEF ListeningInv, SocketInv, SocketTypeOK, ListedInv, Runs
  <1>3. /\ new \in Seq(Sockets) /\ Distinct(new)
        /\ \A v : In(v, new) <=> In(v, listeners[s]) /\ v # w
    BY <1>2, WithoutKeeps
  <1> HIDE DEF new
  <1>4. /\ listeners' \in [Sessions -> Seq(Sockets)] /\ listeners'[s] = new
        /\ \A t \in Sessions \ {s} : listeners'[t] = listeners[t]
    BY <1>1, <1>2, <1>3
  <1>5. /\ socket' \in [Sockets -> SocketRecord]
        /\ socket'[w].state = "left" /\ socket'[w].session = s
        /\ \A v \in Sockets \ {w} : socket'[v] = socket[v]
    BY <1>1, <1>2 DEF SocketRecord, SocketState
  <1>6. ASSUME NEW r \in Runs
        PROVE  /\ walk'[r] \in Walk
               /\ walk'[r].session = walk[r].session /\ walk'[r].at = walk[r].at
               /\ walk'[r].now = walk[r].now /\ walk'[r].dead = walk[r].dead
               /\ walk'[r].owed = walk[r].owed
               /\ walk'[r].frozen \in {walk[r].frozen, listeners[s]}
               /\ walk'[r].live => walk[r].live
               /\ Walked(r)' = Walked(r)
    <2>1. walk[r] \in Walk
      BY <1>2
    <2>2. CASE walk[r].live /\ walk[r].session = s
      <3>1. walk'[r] = [walk[r] EXCEPT !.live = FALSE, !.frozen = listeners[s]]
        BY <1>1, <2>2
      <3>2. /\ walk'[r] \in Walk /\ walk'[r].live = FALSE /\ walk'[r].frozen = listeners[s]
            /\ walk'[r].session = walk[r].session /\ walk'[r].at = walk[r].at
            /\ walk'[r].now = walk[r].now /\ walk'[r].dead = walk[r].dead
            /\ walk'[r].owed = walk[r].owed
        BY <1>2, <2>1, <3>1 DEF Walk
      <3> QED BY <2>2, <3>2 DEF Walked
    <2>3. CASE ~(walk[r].live /\ walk[r].session = s)
      <3>1. walk'[r] = walk[r]
        BY <1>1, <2>3
      <3>2. Walked(r)' = Walked(r)
        <4>1. CASE walk[r].live
          <5>1. walk[r].session \in Sessions
            BY <4>1 DEF ListeningInv, SocketInv
          <5>2. listeners'[walk[r].session] = listeners[walk[r].session]
            BY <1>4, <2>3, <4>1, <5>1
          <5> QED BY <3>1, <4>1, <5>2 DEF Walked
        <4>2. CASE ~walk[r].live
          BY <3>1, <4>2 DEF Walked
        <4> QED BY <4>1, <4>2
      <3> QED BY <2>1, <3>1, <3>2
    <2> QED BY <2>2, <2>3
  <1>7. walk' \in [Runs -> Walk]
    <2>1. walk' = [r \in Runs |-> walk'[r]]
      BY <1>1, Zenon
    <2> QED BY <1>6, <2>1
  <1>8. SocketInv'
    <2>1. SocketTypeOK'
      BY <1>2, <1>4, <1>5, <1>7 DEF SocketTypeOK, Runs
    <2>2. \A v \in Sockets : socket'[v].state # "new" => socket'[v].session \in Sessions
      BY <1>2, <1>5 DEF ListeningInv, SocketInv
    <2>3. \A r \in Runs : /\ Walking(r)' => walk'[r].session = run'[r].session
                                              /\ walk'[r].session \in Sessions
                          /\ walk'[r].live => Walking(r)'
      BY <1>5, <1>6 DEF ListeningInv, SocketInv, Walking
    <2> QED BY <2>1, <2>2, <2>3 DEF SocketInv
  <1>9. ListedInv'
    <2>1. ASSUME NEW t \in Sessions PROVE Distinct(listeners'[t])
      BY <1>3, <1>4 DEF ListeningInv, ListedInv
    <2>2. ASSUME NEW t \in Sessions, NEW v \in Sockets, In(v, listeners'[t])
          PROVE  socket'[v].session = t /\ socket'[v].state \in {"open", "gone", "stray"}
      <3>1. In(v, listeners[t])
        BY <1>3, <1>4, <2>2
      <3>2. socket[v].session = t /\ socket[v].state \in {"open", "gone", "stray"}
        BY <3>1 DEF ListeningInv, ListedInv
      <3>3. v # w
        BY <1>3, <1>4, <2>2, <3>2
      <3> QED BY <1>5, <3>2, <3>3
    <2>3. ASSUME NEW v \in Sockets, socket'[v].state = "open"
          PROVE  In(v, listeners'[socket'[v].session])
      <3>1. v # w /\ socket'[v] = socket[v]
        BY <1>5, <2>3
      <3>2. socket[v].session \in Sessions /\ In(v, listeners[socket[v].session])
        BY <2>3, <3>1 DEF ListeningInv, ListedInv, SocketInv
      <3> QED BY <1>3, <1>4, <3>1, <3>2
    <2> QED BY <2>1, <2>2, <2>3 DEF ListedInv
  <1>10. LoopInv'
    <2>1. \A v \in Sockets : In(v, listeners[s]) => socket[v].state # "new"
      BY <1>2 DEF ListeningInv, ListedInv
    <2>2. \A v \in Sockets : socket[v].state # "new" => socket'[v].state # "new"
      BY <1>5
    <2>3. \A v \in Sockets : socket[v].state # "open" /\ socket[v].state # "new" =>
             socket'[v].state # "open" /\ socket'[v].state # "new"
      BY <1>5
    <2> SUFFICES ASSUME NEW r \in Runs
                 PROVE  /\ \A v \in Sockets : In(v, walk'[r].frozen) => socket'[v].state # "new"
                        /\ Walking(r) => socket'[walk'[r].now].state # "new"
                        /\ \A v \in Sockets : In(v, walk'[r].dead) =>
                              socket'[v].state \notin {"new", "open"}
      BY <1>6 DEF LoopInv, Walking
    <2>4. Walking(r) => walk[r].now \in Sockets
      BY <1>2 DEF Walk, Walking
    <2>5. /\ \A v \in Sockets : In(v, walk[r].frozen) => socket[v].state # "new"
          /\ Walking(r) => socket[walk[r].now].state # "new"
          /\ \A v \in Sockets : In(v, walk[r].dead) => socket[v].state \notin {"new", "open"}
      BY DEF ListeningInv, LoopInv
    <2> QED BY <1>6, <2>1, <2>2, <2>3, <2>4, <2>5
  <1>11. AheadInv'
    <2> SUFFICES ASSUME NEW r \in Runs, Walking(r), walk[r].session \notin overlapped
                 PROVE  walk'[r].owed \subseteq Ahead(r)'
      BY <1>6 DEF AheadInv, Walking
    <2> QED BY <1>6 DEF ListeningInv, AheadInv, Ahead
  <1> QED BY <1>8, <1>9, <1>10, <1>11 DEF ListeningInv

\* A loop begins: everybody but the first of the list is ahead.
LEMMA BeginListening ==
    ASSUME ListeningInv, BaseInv, NEW r \in Runs, BeginSend(r)
    PROVE  ListeningInv'
  <1> DEFINE s == run[r].session
             list == listeners[s]
             new == [session |-> s, live |-> TRUE, frozen |-> <<>>, at |-> 1,
                     now |-> Head(list), dead |-> <<>>, owed |-> ToSet(Tail(list))]
  <1>1. /\ s \in Sessions /\ list # <<>>
        /\ walk' = [walk EXCEPT ![r] = new]
        /\ UNCHANGED <<socket, listeners, run, overlapped>>
    BY DEF BeginSend, BeginWalk, BaseInv, RunInv, Sends
  <1>2. /\ socket \in [Sockets -> SocketRecord]
        /\ listeners \in [Sessions -> Seq(Sockets)] /\ list \in Seq(Sockets)
        /\ walk \in [Runs -> Walk]
    BY <1>1 DEF ListeningInv, SocketInv, SocketTypeOK, Runs
  <1>3. /\ Len(list) \in Nat \ {0} /\ Head(list) = list[1] /\ list[1] \in Sockets
        /\ Tail(list) \in Seq(Sockets) /\ Len(Tail(list)) = Len(list) - 1
        /\ \A i \in 1 .. Len(list) - 1 : Tail(list)[i] = list[i + 1]
    BY <1>1, <1>2, HeadTailProperties, EmptySeq, LenProperties, ElementOfSeq
  <1>4. ToSet(Tail(list)) \subseteq {list[i] : i \in 2 .. Len(list)} /\ ToSet(Tail(list)) \subseteq Sockets
    <2>1. DOMAIN Tail(list) = 1 .. Len(list) - 1
      BY <1>3, LenProperties
    <2>2. \A i \in 1 .. Len(list) - 1 : i + 1 \in 2 .. Len(list)
      BY <1>3
    <2>3. \A i \in 1 .. Len(list) - 1 : Tail(list)[i] \in Sockets
      BY <1>3, ElementOfSeq
    <2> QED BY <1>3, <2>1, <2>2, <2>3 DEF ToSet
  <1>5. new \in Walk
    <2>1. <<>> \in Seq(Sockets)
      OBVIOUS
    <2> QED BY <1>1, <1>3, <1>4, <2>1 DEF Walk
  <1>6. /\ new.session = s /\ new.live = TRUE /\ new.frozen = <<>> /\ new.at = 1
        /\ new.now = list[1] /\ new.dead = <<>> /\ new.owed = ToSet(Tail(list))
    BY <1>3
  <1>7. In(list[1], list)
    BY <1>3 DEF In
  <1> HIDE DEF new, list
  <1>8. /\ walk' \in [Runs -> Walk] /\ walk'[r] = new
        /\ \A q \in Runs \ {r} : walk'[q] = walk[q]
    BY <1>1, <1>2, <1>5
  <1>9. list[1] # Nobody
    BY <1>3, SocketAssumption
  <1>10. SocketInv'
    <2>1. \A q \in Runs :
             (Walking(q) => walk[q].session = run[q].session /\ walk[q].session \in Sessions)'
      BY <1>1, <1>6, <1>8 DEF ListeningInv, SocketInv, Walking
    <2>2. \A q \in Runs : (walk[q].live => Walking(q))'
      BY <1>6, <1>8, <1>9 DEF ListeningInv, SocketInv, Walking
    <2> QED BY <1>1, <1>8, <2>1, <2>2 DEF ListeningInv, SocketInv, SocketTypeOK, Runs
  <1>11. ListedInv'
    BY <1>1 DEF ListeningInv, ListedInv
  <1>12. LoopInv'
    <2>1. socket[list[1]].state # "new"
      BY <1>1, <1>3, <1>7 DEF ListeningInv, ListedInv, list
    <2>2. \A v : ~In(v, <<>>)
      BY DEF In
    <2> QED BY <1>1, <1>6, <1>8, <2>1, <2>2 DEF ListeningInv, LoopInv, Walking
  <1>13. AheadInv'
    <2> SUFFICES ASSUME NEW q \in Runs, Walking(q)', walk'[q].session \notin overlapped
                 PROVE  walk'[q].owed \subseteq Ahead(q)'
      BY <1>1 DEF AheadInv
    <2>1. CASE q = r
      <3>1. Walked(r)' = list
        BY <1>1, <1>6, <1>8 DEF Walked, list
      <3> QED BY <1>4, <1>6, <1>8, <2>1, <3>1 DEF Ahead
    <2>2. CASE q # r
      <3>1. walk'[q] = walk[q]
        BY <1>8, <2>2
      <3> QED BY <1>1, <3>1 DEF ListeningInv, AheadInv, Walking, Ahead, Walked
    <2> QED BY <2>1, <2>2
  <1> QED BY <1>10, <1>11, <1>12, <1>13 DEF ListeningInv

\* The facts of a loop that runs.
LEMMA LoopFacts ==
    ASSUME ListeningInv, NEW r \in Runs, Walking(r)
    PROVE  /\ walk[r].session \in Sessions /\ walk[r].session = run[r].session
           /\ walk[r] \in Walk /\ walk[r].now \in Sockets /\ walk[r].dead \in Seq(Sockets)
           /\ walk[r].at \in Nat
           /\ Walked(r) \in Seq(Sockets)
           /\ \A v \in Sockets : In(v, Walked(r)) => socket[v].state # "new"
           /\ \A outcome \in SendOutcomes(walk[r].now) :
                 /\ DeadAfter(r, outcome) \in Seq(Sockets)
                 /\ \A v \in Sockets : In(v, DeadAfter(r, outcome)) =>
                       socket[v].state \notin {"new", "open"}
  <1> DEFINE w == walk[r].now
             dead == walk[r].dead
  <1>1. /\ walk[r] \in Walk /\ listeners \in [Sessions -> Seq(Sockets)]
        /\ walk[r].session = run[r].session /\ walk[r].session \in Sessions
    BY DEF ListeningInv, SocketInv, SocketTypeOK, Runs
  <1>2. /\ w \in Sockets /\ dead \in Seq(Sockets) /\ walk[r].at \in Nat
        /\ walk[r].frozen \in Seq(Sockets)
    BY <1>1 DEF Walk, Walking
  <1>3. /\ Walked(r) \in Seq(Sockets)
        /\ \A v \in Sockets : In(v, Walked(r)) => socket[v].state # "new"
    BY <1>1, <1>2 DEF Walked, ListeningInv, ListedInv, LoopInv
  <1>4. ASSUME NEW outcome \in SendOutcomes(w)
        PROVE  /\ DeadAfter(r, outcome) \in Seq(Sockets)
               /\ \A v \in Sockets : In(v, DeadAfter(r, outcome)) =>
                     socket[v].state \notin {"new", "open"}
    <2>1. \A v \in Sockets : In(v, dead) => socket[v].state \notin {"new", "open"}
      BY DEF ListeningInv, LoopInv
    <2>2. CASE outcome = "sent"
      BY <1>2, <2>1, <2>2 DEF DeadAfter
    <2>3. CASE outcome # "sent"
      <3>1. socket[w].state \notin {"new", "open"}
        BY <1>4, <2>3 DEF SendOutcomes, ListeningInv, LoopInv
      <3> DEFINE longer == Append(dead, w)
      <3>2. /\ longer \in Seq(Sockets) /\ Len(dead) \in Nat /\ Len(longer) = Len(dead) + 1
            /\ \A i \in 1 .. Len(dead) : longer[i] = dead[i]
            /\ longer[Len(dead) + 1] = w
        BY <1>2, AppendProperties, LenProperties
      <3> HIDE DEF longer
      <3>3. \A v \in Sockets : In(v, longer) => In(v, dead) \/ v = w
        BY <3>2 DEF In
      <3>4. DeadAfter(r, outcome) = longer
        BY <2>3 DEF DeadAfter, longer
      <3> QED BY <2>1, <3>1, <3>2, <3>3, <3>4
    <2> QED BY <2>2, <2>3
  <1> QED BY <1>1, <1>2, <1>3, <1>4

\* The record of a loop that goes on.
Further(record, at, w, dead, owed) ==
    [record EXCEPT !.at = at, !.now = w, !.dead = dead, !.owed = owed]

LEMMA LoopMoved ==
    ASSUME NEW record \in Walk, NEW at \in Nat, NEW w \in Sockets, NEW dead \in Seq(Sockets),
           NEW owed \in SUBSET Sockets
    PROVE  LET new == Further(record, at, w, dead, owed) IN
           /\ new \in Walk
           /\ new.session = record.session /\ new.live = record.live
           /\ new.frozen = record.frozen /\ new.at = at /\ new.now = w
           /\ new.dead = dead /\ new.owed = owed
  <1> DEFINE new == [record EXCEPT !.at = at, !.now = w, !.dead = dead, !.owed = owed]
  <1> DEFINE first == [record EXCEPT !.at = at, !.now = w]
             second == [first EXCEPT !.dead = dead, !.owed = owed]
  <1>1. /\ first \in Walk
        /\ first.session = record.session /\ first.live = record.live
        /\ first.frozen = record.frozen /\ first.at = at /\ first.now = w
    BY DEF Walk
  <1>2. new = second
    OBVIOUS
  <1> HIDE DEF first, new
  <1>3. /\ second \in Walk
        /\ second.session = first.session /\ second.live = first.live
        /\ second.frozen = first.frozen /\ second.at = first.at /\ second.now = first.now
        /\ second.dead = dead /\ second.owed = owed
    BY <1>1 DEF Walk
  <1> HIDE DEF second
  <1>4. /\ new \in Walk
        /\ new.session = record.session /\ new.live = record.live
        /\ new.frozen = record.frozen /\ new.at = at /\ new.now = w
        /\ new.dead = dead /\ new.owed = owed
    BY <1>1, <1>2, <1>3
  <1> QED BY <1>4 DEF new, Further

\* A loop goes on to the next socket.
LEMMA OnListening ==
    ASSUME ListeningInv, NEW r \in Runs, Walking(r), NEW outcome \in SendOutcomes(walk[r].now),
           MoreToSend(r), WalkOn(r, outcome), run' = run, overlapped' = overlapped
    PROVE  ListeningInv'
  <1> DEFINE w == Walked(r)[walk[r].at + 1]
             dead == DeadAfter(r, outcome)
             left == walk[r].owed \ {w}
             new == [walk[r] EXCEPT !.at = walk[r].at + 1, !.now = w, !.dead = dead,
                                    !.owed = left]
  <1>1. /\ walk[r].session \in Sessions /\ walk[r].session = run[r].session
        /\ walk[r] \in Walk /\ walk[r].at \in Nat
        /\ dead \in Seq(Sockets)
        /\ \A v \in Sockets : In(v, dead) => socket[v].state \notin {"new", "open"}
        /\ Walked(r) \in Seq(Sockets)
        /\ \A v \in Sockets : In(v, Walked(r)) => socket[v].state # "new"
    BY LoopFacts
  <1>2. /\ socket' = socket /\ listeners' = listeners
        /\ walk' = [walk EXCEPT ![r].at = @ + 1, ![r].now = w, ![r].owed = @ \ {w},
                                ![r].dead = dead]
        /\ walk \in [Runs -> Walk]
    BY DEF WalkOn, ListeningInv, SocketInv, SocketTypeOK, Runs
  <1>3. /\ Len(Walked(r)) \in Nat /\ walk[r].at + 1 \in 1 .. Len(Walked(r))
        /\ w \in Sockets /\ In(w, Walked(r))
    BY <1>1, LenProperties, ElementOfSeq DEF MoreToSend, In
  <1> HIDE DEF w, dead
  <1>4. /\ walk'[r] = new /\ \A q \in Runs \ {r} : walk'[q] = walk[q]
        /\ DOMAIN walk' = Runs
        /\ walk' = [q \in Runs |-> walk'[q]]
    BY <1>1, <1>2 DEF Walk
  <1>5. left \in SUBSET Sockets
    BY <1>1 DEF Walk
  <1> HIDE DEF left
  <1>6. /\ new \in Walk /\ new.session = walk[r].session /\ new.live = walk[r].live
        /\ new.frozen = walk[r].frozen /\ new.at = walk[r].at + 1 /\ new.now = w
        /\ new.dead = dead /\ new.owed = left
    <2>1. walk[r].at + 1 \in Nat
      BY <1>1
    <2>2. new = Further(walk[r], walk[r].at + 1, w, dead, left)
      BY DEF Further
    <2> HIDE DEF new, left
    <2> QED BY <1>1, <1>3, <1>5, <2>1, <2>2, LoopMoved
  <1> HIDE DEF new
  <1>7. walk' \in [Runs -> Walk]
    BY <1>2, <1>4, <1>6
  <1>8. w # Nobody
    BY <1>3, SocketAssumption
  <1>9. SocketInv'
    <2>1. \A q \in Runs :
             (Walking(q) => walk[q].session = run[q].session /\ walk[q].session \in Sessions)'
      BY <1>1, <1>4, <1>6 DEF ListeningInv, SocketInv, Walking
    <2>2. \A q \in Runs : (walk[q].live => Walking(q))'
      BY <1>4, <1>6, <1>8 DEF ListeningInv, SocketInv, Walking
    <2> QED BY <1>2, <1>7, <2>1, <2>2 DEF ListeningInv, SocketInv, SocketTypeOK, Runs
  <1>10. ListedInv'
    BY <1>2 DEF ListeningInv, ListedInv
  <1>11. LoopInv'
    BY <1>1, <1>2, <1>3, <1>4, <1>6 DEF ListeningInv, LoopInv, Walking
  <1>12. AheadInv'
    <2> SUFFICES ASSUME NEW q \in Runs, Walking(q)', walk'[q].session \notin overlapped
                 PROVE  walk'[q].owed \subseteq Ahead(q)'
      BY DEF AheadInv
    <2>1. CASE q = r
      <3>1. Walked(r)' = Walked(r)
        BY <1>2, <1>4, <1>6 DEF Walked
      <3>2. walk[r].owed \subseteq Ahead(r)
        BY <1>6, <1>4, <2>1 DEF ListeningInv, AheadInv
      <3>3. \A i \in walk[r].at + 1 .. Len(Walked(r)) :
               i = walk[r].at + 1 \/ i \in (walk[r].at + 1) + 1 .. Len(Walked(r))
        BY <1>1, <1>3
      <3>4. Ahead(r)' = {Walked(r)[i] : i \in (walk[r].at + 1) + 1 .. Len(Walked(r))}
        BY <1>4, <1>6, <3>1 DEF Ahead
      <3>5. Ahead(r) = {Walked(r)[i] : i \in walk[r].at + 1 .. Len(Walked(r))}
        BY DEF Ahead
      <3>6. \A v \in Ahead(r) : v = w \/ v \in Ahead(r)'
        BY <3>3, <3>4, <3>5 DEF w
      <3>7. \A v \in left : v \in walk[r].owed /\ v # w
        BY DEF left
      <3> QED BY <1>4, <1>6, <2>1, <3>2, <3>6, <3>7
    <2>2. CASE q # r
      <3>1. walk'[q] = walk[q]
        BY <1>4, <2>2
      <3>2. Walked(q)' = Walked(q)
        BY <1>2, <3>1 DEF Walked
      <3>3. Ahead(q)' = Ahead(q)
        BY <3>1, <3>2 DEF Ahead
      <3> QED BY <3>1, <3>3 DEF ListeningInv, AheadInv, Walking
    <2> QED BY <2>1, <2>2
  <1> QED BY <1>9, <1>10, <1>11, <1>12 DEF ListeningInv

\* A loop ends and removes sockets whose send has raised.  Only the loops of
\* other orchestrations of the same session could go over the changed list.
LEMMA EndListening ==
    ASSUME ListeningInv, BaseInv, OneRun,
           NEW r \in Runs, Walking(r), NEW outcome \in SendOutcomes(walk[r].now),
           EndWalk(r, DeadAfter(r, outcome)),
           \A q \in Runs : run'[q].session = run[q].session, overlapped' = overlapped
    PROVE  ListeningInv'
  <1> DEFINE s == walk[r].session
             dead == DeadAfter(r, outcome)
             removed == Removed(r, dead)
             new == Without(listeners[s], removed)
  <1>1. /\ s \in Sessions /\ s = run[r].session
        /\ dead \in Seq(Sockets)
        /\ \A v \in Sockets : In(v, dead) => socket[v].state \notin {"new", "open"}
    BY LoopFacts
  <1>2. /\ socket' = socket
        /\ listeners' = [listeners EXCEPT ![s] = new]
        /\ walk' = [walk EXCEPT ![r] = AtRest]
    BY DEF EndWalk
  <1>3. /\ listeners \in [Sessions -> Seq(Sockets)] /\ listeners[s] \in Seq(Sockets)
        /\ walk \in [Runs -> Walk]
        /\ Distinct(listeners[s])
    BY <1>1 DEF ListeningInv, SocketInv, SocketTypeOK, ListedInv, Runs
  <1>4. \A v \in removed : In(v, dead)
    <2>1. DOMAIN dead = 1 .. Len(dead)
      BY <1>1, LenProperties
    <2> QED BY <2>1 DEF Removed, In
  <1>5. \A v \in Sockets : v \in removed => socket[v].state \notin {"new", "open"}
    BY <1>1, <1>4
  <1>6. /\ new \in Seq(Sockets) /\ Distinct(new)
        /\ \A v : In(v, new) <=> In(v, listeners[s]) /\ v \notin removed
    BY <1>3, WithoutKeeps
  <1> HIDE DEF new, removed, dead
  <1>7. /\ listeners' \in [Sessions -> Seq(Sockets)] /\ listeners'[s] = new
        /\ \A t \in Sessions \ {s} : listeners'[t] = listeners[t]
    BY <1>1, <1>2, <1>3, <1>6
  <1>8. /\ AtRest \in Walk /\ AtRest.now = Nobody /\ AtRest.live = FALSE
        /\ AtRest.frozen = <<>> /\ AtRest.dead = <<>>
    <2>1. <<>> \in Seq(Sockets)
      OBVIOUS
    <2> QED BY <2>1 DEF AtRest, Walk
  <1>9. /\ walk' \in [Runs -> Walk] /\ walk'[r] = AtRest
        /\ \A q \in Runs \ {r} : walk'[q] = walk[q]
    BY <1>2, <1>3, <1>8
  <1>10. SocketInv'
    <2>1. \A q \in Runs :
             (Walking(q) => walk[q].session = run[q].session /\ walk[q].session \in Sessions)'
      BY <1>8, <1>9 DEF ListeningInv, SocketInv, Walking
    <2>2. \A q \in Runs : (walk[q].live => Walking(q))'
      BY <1>8, <1>9 DEF ListeningInv, SocketInv, Walking
    <2> QED BY <1>2, <1>7, <1>9, <2>1, <2>2 DEF ListeningInv, SocketInv, SocketTypeOK, Runs
  <1>11. ListedInv'
    <2>1. ASSUME NEW t \in Sessions PROVE Distinct(listeners'[t])
      BY <1>6, <1>7 DEF ListeningInv, ListedInv
    <2>2. ASSUME NEW t \in Sessions, NEW v \in Sockets, In(v, listeners'[t])
          PROVE  In(v, listeners[t])
      BY <1>6, <1>7, <2>2
    <2>3. ASSUME NEW v \in Sockets, socket[v].state = "open"
          PROVE  In(v, listeners'[socket[v].session])
      <3>1. socket[v].session \in Sessions /\ In(v, listeners[socket[v].session])
        BY <2>3 DEF ListeningInv, ListedInv, SocketInv
      <3>2. v \notin removed
        BY <1>5, <2>3
      <3> QED BY <1>6, <1>7, <3>1, <3>2
    <2> QED BY <1>2, <2>1, <2>2, <2>3 DEF ListeningInv, ListedInv
  <1>12. LoopInv'
    <2>1. \A v : ~In(v, <<>>)
      BY DEF In
    <2> QED BY <1>2, <1>8, <1>9, <2>1 DEF ListeningInv, LoopInv, Walking
  <1>13. AheadInv'
    <2> SUFFICES ASSUME NEW q \in Runs, Walking(q)', walk'[q].session \notin overlapped
                 PROVE  walk'[q].owed \subseteq Ahead(q)'
      BY DEF AheadInv
    <2>1. q # r /\ walk'[q] = walk[q] /\ Walking(q)
      BY <1>8, <1>9 DEF Walking
    <2>2. walk[q].session = run[q].session /\ walk[q].session \in Sessions
      BY <2>1 DEF ListeningInv, SocketInv
    <2>3. Active(q) /\ Active(r)
      BY <2>1 DEF BaseInv, WalkInv, Active, Sends
    <2>4. walk[q].session # s
      BY <1>1, <2>1, <2>2, <2>3 DEF OneRun
    <2>5. Walked(q)' = Walked(q)
      BY <1>7, <2>1, <2>2, <2>4 DEF Walked
    <2> QED BY <2>1, <2>5 DEF ListeningInv, AheadInv, Ahead
  <1> QED BY <1>10, <1>11, <1>12, <1>13 DEF ListeningInv

\* An awaited send is over.
LEMMA AnswerListening ==
    ASSUME ListeningInv, BaseInv, OneRun, NEW r \in Runs, SocketAnswers(r)
    PROVE  ListeningInv'
  <1>1. Walking(r) /\ overlapped' = overlapped
    BY DEF SocketAnswers
  <1>2. \A q \in Runs : run'[q].session = run[q].session
    <2>1. StepShape(r)
      BY AnswerShape
    <2> QED BY <2>1 DEF StepShape, Others
  <1>3. PICK outcome \in SendOutcomes(walk[r].now) :
           IF MoreToSend(r)
           THEN WalkOn(r, outcome) /\ UNCHANGED <<run, lastEnd, agentEnd, status>>
           ELSE EndWalk(r, DeadAfter(r, outcome))
    BY DEF SocketAnswers
  <1>4. CASE MoreToSend(r)
    BY <1>1, <1>3, <1>4, OnListening
  <1>5. CASE ~MoreToSend(r)
    BY <1>1, <1>2, <1>3, <1>5, EndListening
  <1> QED BY <1>4, <1>5

LEMMA InitListening == Init => ListeningInv
  <1> SUFFICES ASSUME Init PROVE ListeningInv
    OBVIOUS
  <1>1. /\ socket = [w \in Sockets |-> [state |-> "new", session |-> Nobody]]
        /\ listeners = [s \in Sessions |-> <<>>]
        /\ walk = [r \in Runs |-> AtRest]
    BY DEF Init, SocketsInit, Runs
  <1>2. /\ <<>> \in Seq(Sockets)
        /\ [state |-> "new", session |-> Nobody] \in SocketRecord
    BY DEF SocketRecord, SocketState
  <1>3. /\ AtRest \in Walk /\ AtRest.now = Nobody /\ AtRest.live = FALSE
        /\ AtRest.frozen = <<>> /\ AtRest.dead = <<>>
    BY <1>2 DEF AtRest, Walk
  <1>4. \A w : ~In(w, <<>>)
    BY DEF In
  <1>5. SocketInv
    BY <1>1, <1>2, <1>3 DEF SocketInv, SocketTypeOK, Walking, Runs
  <1>6. ListedInv
    BY <1>1, <1>4 DEF ListedInv, Distinct
  <1>7. LoopInv /\ AheadInv
    BY <1>1, <1>3, <1>4 DEF LoopInv, AheadInv, Walking
  <1> QED BY <1>5, <1>6, <1>7 DEF ListeningInv

LEMMA NextListening == DeploymentInv /\ ListeningInv /\ [Next]_vars => ListeningInv'
  <1> SUFFICES ASSUME DeploymentInv, ListeningInv, [Next]_vars PROVE ListeningInv'
    OBVIOUS
  <1>1. BaseInv /\ OneRun
    BY DEF DeploymentInv
  <1>2. ASSUME NEW s \in Sessions, CreateSession(s)
        PROVE  ListeningInv'
    BY <1>2, QuietListening DEF CreateSession
  <1>3. ASSUME NEW r \in Runs, NEW s \in Sessions, SubmitAnswers(r, s)
        PROVE  ListeningInv'
    <2>1. /\ UNCHANGED socketVars
          /\ \A q \in Runs \ {r} : run'[q] = run[q]
          /\ overlapped' = overlapped \/ overlapped' = overlapped \cup {s}
      BY <1>1, <1>3, SubmitShape DEF SubmitAnswers
    <2>2. ~Walking(r)
      BY <1>1, <1>3 DEF SubmitAnswers, BaseInv, WalkInv, Sends
    <2> QED BY <2>1, <2>2, QuietListening
  <1>4. ASSUME NEW r \in Runs, RunStep(r)
        PROVE  ListeningInv'
    <2>1. overlapped' = overlapped /\ \A q \in Runs : run'[q].session = run[q].session
      BY <1>1, <1>4, RunShape DEF StepShape, Others
    <2>2. CASE BeginSend(r)
      BY <1>1, <2>2, BeginListening
    <2>3. CASE SocketAnswers(r)
      BY <1>1, <2>3, AnswerListening
    <2>4. CASE ~BeginSend(r) /\ ~SocketAnswers(r)
      <3>1. UNCHANGED socketVars
        BY <1>4, <2>4 DEF RunStep, Start, SendToNobody, ModelAnswers, ToolReturns, Cleanup
      <3> QED BY <2>1, <3>1, QuietListening
    <2> QED BY <2>2, <2>3, <2>4
  <1>5. CASE ClientStep
    <2>1. run' = run /\ overlapped' = overlapped /\ SocketStep
      BY <1>5 DEF ClientStep
    <2>2. CASE \E w \in Sockets, s \in Sessions : Connect(w, s)
      BY <2>1, <2>2, ConnectListening
    <2>3. CASE \E w \in Sockets : PeerLeaves(w) \/ Disconnect(w) \/ HandlerRaises(w)
      BY <2>1, <2>3, PeerListening, DisconnectListening
    <2> QED BY <2>1, <2>2, <2>3 DEF SocketStep
  <1>6. CASE UNCHANGED vars
    BY <1>6, QuietListening DEF vars
  <1> QED BY <1>2, <1>3, <1>4, <1>5, <1>6 DEF Next

\* The invariant of the lists of sockets and of the loops over them.
THEOREM ListeningInvariant == Spec => []ListeningInv
  BY InitDeployment, InitListening, NextDeployment, NextListening, PTL DEF Spec

\* However handlers and sends change the lists in between, a client that is
\* there is listed exactly once, and one that has left is not.
THEOREM ClientsAreListed == Spec => []ListedWhileThere
  <1>1. ASSUME ListeningInv PROVE ListedWhileThere
    <2> SUFFICES ASSUME NEW w \in Sockets, NEW s \in Sessions
                 PROVE  LET places == {i \in DOMAIN listeners[s] : listeners[s][i] = w} IN
                        /\ socket[w].state = "open" /\ socket[w].session = s =>
                              Cardinality(places) = 1
                        /\ socket[w].state = "left" => places = {}
      BY DEF ListedWhileThere
    <2> DEFINE places == {i \in DOMAIN listeners[s] : listeners[s][i] = w}
    <2>1. /\ listeners[s] \in Seq(Sockets)
          /\ DOMAIN listeners[s] = 1 .. Len(listeners[s])
          /\ Distinct(listeners[s])
      BY <1>1, LenProperties DEF ListeningInv, SocketInv, SocketTypeOK, ListedInv
    <2>2. ASSUME socket[w].state = "open", socket[w].session = s
          PROVE  Cardinality(places) = 1
      <3>1. In(w, listeners[s])
        BY <1>1, <2>2 DEF ListeningInv, ListedInv
      <3>2. PICK a \in 1 .. Len(listeners[s]) : listeners[s][a] = w
        BY <3>1 DEF In
      <3>3. places = {a}
        BY <2>1, <3>2 DEF Distinct
      <3> QED BY <3>3, FS_Singleton
    <2>3. ASSUME socket[w].state = "left" PROVE places = {}
      <3>1. ~In(w, listeners[s])
        BY <1>1, <2>3 DEF ListeningInv, ListedInv
      <3> QED BY <2>1, <3>1 DEF In
    <2> QED BY <2>2, <2>3
  <1> QED BY ListeningInvariant, <1>1, PTL

\* While a session has one orchestration, a message that goes round passes over
\* no client that is there, whoever comes and goes meanwhile.
THEOREM NobodyIsPassedOver == Spec => []NobodyPassedOver
  <1>1. ListeningInv => NobodyPassedOver
    BY DEF ListeningInv, AheadInv, NobodyPassedOver
  <1> QED BY ListeningInvariant, <1>1, PTL

-----------------------------------------------------------------------------
(***************************************************************************)
(* A session implements DeploymentContract.                                *)
(*                                                                         *)
(* What a session shows changes when its last run is done (Cleanup), and   *)
(* not when the status is set: the agent's own end, and the status that    *)
(* the except clause sets before its message, are steps of the work.  By   *)
(* then EndInv says that the status is an end, LogInv that the messages    *)
(* tell the same, and OwnerInv that the sandbox deleted is the session's.  *)
(***************************************************************************)

\* Whoever works on a session, or has worked, has set its status.
StartedInv ==
    \A r \in Runs : run[r].pc # "idle" => status[run[r].session] \notin {None, "created"}

\* A run never sets a session back.
LEMMA StatusWritten ==
    ASSUME NEW r \in Runs, BaseInv, RunStep(r), run[r].session \in Sessions
    PROVE  LET s == run[r].session IN
           status'[s] = status[s] \/ status'[s] \notin {None, "created"}
  <1> DEFINE s == run[r].session
  <1>1. ASSUME NEW new \in Status \cup {Same}, new \notin {None, "created"}, Set(s, new)
        PROVE  status'[s] = status[s] \/ status'[s] \notin {None, "created"}
    <2>1. \/ status' = status
          \/ status' = [status EXCEPT ![s] = new]
      BY <1>1, SetTyped
    <2>2. status \in [Sessions -> Status]
      BY DEF BaseInv, SessionTypeOK
    <2> QED BY <1>1, <2>1, <2>2
  <1>2. CASE Start(r) \/ ModelAnswers(r) \/ ToolReturns(r) \/ Cleanup(r)
    BY <1>2 DEF Start, ModelAnswers, ToolReturns, Cleanup
  <1>3. ASSUME run[r].pc \in Sends
        PROVE  /\ Script(r).before \in Status \cup {Same}
               /\ Script(r).after \in Status \cup {Same}
               /\ Script(r).before \notin {None, "created"}
               /\ Script(r).after \notin {None, "created"}
    BY <1>3, ScriptFacts
  <1>4. CASE BeginSend(r)
    BY <1>1, <1>3, <1>4 DEF BeginSend
  <1>5. CASE SendToNobody(r)
    BY <1>1, <1>3, <1>5 DEF SendToNobody
  <1>6. CASE SocketAnswers(r)
    <2>1. run[r].pc \in Sends
      BY <1>6 DEF SocketAnswers, BaseInv, WalkInv
    <2>2. Set(s, Script(r).after) \/ status' = status
      BY <1>6 DEF SocketAnswers, Said, Unsaid
    <2> QED BY <1>1, <1>3, <2>1, <2>2
  <1> QED BY <1>2, <1>4, <1>5, <1>6 DEF RunStep

LEMMA NextStarted == DeploymentInv /\ StartedInv /\ [Next]_vars => StartedInv'
  <1> SUFFICES ASSUME DeploymentInv, StartedInv, [Next]_vars PROVE StartedInv'
    OBVIOUS
  <1>1. /\ BaseInv /\ status \in [Sessions -> Status]
        /\ \A q \in Runs : run[q].pc # "idle" => run[q].session \in Sessions
    BY DEF DeploymentInv, BaseInv, SessionTypeOK, RunInv
  <1>2. ASSUME NEW s \in Sessions, CreateSession(s)
        PROVE  StartedInv'
    <2>1. status[s] = None /\ status' = [status EXCEPT ![s] = "created"] /\ run' = run
      BY <1>1, <1>2, CreateShape
    <2>2. \A q \in Runs : run[q].pc # "idle" => run[q].session # s
      BY <2>1 DEF StartedInv
    <2> QED BY <1>1, <2>1, <2>2 DEF StartedInv
  <1>3. ASSUME NEW r \in Runs, NEW s \in Sessions, SubmitAnswers(r, s)
        PROVE  StartedInv'
    <2>1. /\ run'[r].session = s /\ \A q \in Runs \ {r} : run'[q] = run[q]
          /\ \A t \in Sessions \ {s} : status'[t] = status[t]
      BY <1>1, <1>3, SubmitShape
    <2>2. status'[s] = "analyzing" /\ "analyzing" \notin {None, "created"}
      BY <1>1, <1>3 DEF SubmitAnswers, Set, Same, None
    <2> QED BY <1>1, <2>1, <2>2 DEF StartedInv
  <1>4. ASSUME NEW r \in Runs, RunStep(r)
        PROVE  StartedInv'
    <2> DEFINE s == run[r].session
    <2>1. StepShape(r)
      BY <1>1, <1>4, RunShape
    <2>2. /\ run[r].pc # "idle" /\ s \in Sessions /\ run'[r].session = s
          /\ \A q \in Runs \ {r} : run'[q] = run[q]
          /\ \A t \in Sessions \ {s} : status'[t] = status[t]
      BY <1>1, <2>1 DEF StepShape, Others, Active
    <2>3. status'[s] \notin {None, "created"}
      BY <1>1, <1>4, <2>2, StatusWritten DEF StartedInv
    <2> QED BY <1>1, <2>2, <2>3 DEF StartedInv
  <1>5. CASE ClientStep \/ UNCHANGED vars
    BY <1>5 DEF StartedInv, ClientStep, vars
  <1> QED BY <1>2, <1>3, <1>4, <1>5 DEF Next

\* A step that leaves all of this alone is none of the contract.
LEMMA ContractStutters ==
    ASSUME \A s \in Sessions : Shown(s)' = Shown(s) /\ Told(s)' = Told(s),
           Held' = Held, overlapped' = overlapped
    PROVE  UNCHANGED Contract!vars
  BY DEF Contract!vars

LEMMA CreateIsContract ==
    ASSUME NEW s \in Sessions, DeploymentInv, StartedInv, CreateSession(s)
    PROVE  Contract!Create(s)
  <1>1. /\ BaseInv /\ status \in [Sessions -> Status]
    BY DEF DeploymentInv, BaseInv, SessionTypeOK
  <1>2. /\ status[s] = None /\ status' = [status EXCEPT ![s] = "created"]
        /\ UNCHANGED <<lastEnd, run, registry, kept, overlapped>>
    BY <1>1, CreateShape
  <1>3. ~Busy(s) /\ \A t \in Sessions : Busy(t)' = Busy(t)
    BY <1>2 DEF Busy, Active, StartedInv
  <1>4. Shown(s) = "absent" /\ Shown(s)' = "created"
    BY <1>1, <1>2, <1>3 DEF Shown, None
  <1>5. \A t \in Sessions \ {s} : Shown(t)' = Shown(t)
    BY <1>1, <1>2, <1>3 DEF Shown
  <1>6. /\ \A t \in Sessions : Told(t)' = Told(t)
        /\ Held' = Held
    BY <1>2, <1>3 DEF Told, Held
  <1> QED BY <1>2, <1>4, <1>5, <1>6 DEF Contract!Create

LEMMA SubmitIsContract ==
    ASSUME NEW r \in Runs, NEW s \in Sessions, DeploymentInv, SubmitAnswers(r, s)
    PROVE  Contract!Submit(s)
  <1>1. BaseInv /\ OwnerInv /\ status \in [Sessions -> Status] /\ kept \subseteq Runs
    BY DEF DeploymentInv, BaseInv, SessionTypeOK
  <1>2. /\ run[r].pc = "idle" /\ run'[r].pc = "start" /\ run'[r].session = s
        /\ \A q \in Runs \ {r} : run'[q] = run[q]
        /\ \A t \in Sessions \ {s} : status'[t] = status[t] /\ lastEnd'[t] = lastEnd[t]
        /\ overlapped' = IF Busy(s) THEN overlapped \cup {s} ELSE overlapped
        /\ kept' = kept
    BY <1>1, SubmitShape
  <1>3. status[s] \in Status \ {None}
    BY <1>1 DEF SubmitAnswers
  <1>4. /\ ~Active(r) /\ Active(r)'
        /\ \A q \in Runs \ {r} : Active(q)' = Active(q)
    BY <1>2 DEF Active
  <1>5. Busy(s)' /\ \A t \in Sessions \ {s} : Busy(t)' = Busy(t)
    BY <1>2, <1>4 DEF Busy
  <1>6. /\ Shown(s) # "absent" /\ Shown(s)' = "working"
        /\ Shown(s) = "working" <=> Busy(s)
    BY <1>3, <1>5 DEF Shown, Status, None
  <1>7. \A t \in Sessions \ {s} : Shown(t)' = Shown(t) /\ Told(t)' = Told(t)
    BY <1>2, <1>5 DEF Shown, Told
  <1>8. Told(s)' = Contract!Nothing
    BY <1>5 DEF Told, None, Contract!Nothing
  <1>9. Held' = Held
    <2>1. \A q \in kept : q # r /\ q \in Runs
      BY <1>1, <1>2 DEF OwnerInv
    <2> QED BY <1>2, <2>1 DEF Held
  <1> QED BY <1>2, <1>6, <1>7, <1>8, <1>9 DEF Contract!Submit

\* What a step of a run does to the sandboxes that sessions have.
LEMMA HeldShape ==
    ASSUME NEW r \in Runs, DeploymentInv, RunStep(r), StepShape(r)
    PROVE  LET s == run[r].session IN
           \/ Held' = Held /\ Active(r)'
           \/ Held' = Held \cup {s} /\ Active(r)'
           \/ /\ Held' = Held \ {s} \/ (Held' = Held /\ s \in overlapped)
              /\ run[r].pc = "cleanup" /\ run'[r].pc = "done"
  <1> DEFINE s == run[r].session
  <1>1. /\ OwnerInv /\ kept \subseteq Runs /\ s \in Sessions
        /\ registry \in [Sessions -> Runs \cup {Nobody}]
    BY DEF DeploymentInv, BaseInv, SessionTypeOK, RunInv, StepShape, Active
  <1>2. \A q \in Runs : run'[q].session = run[q].session
    BY DEF StepShape, Others
  <1>3. CASE registry' = registry /\ kept' = kept /\ Active(r)'
    BY <1>1, <1>2, <1>3 DEF Held
  <1>4. CASE kept' = kept \cup {r} /\ Active(r)'
    <2>1. Held' = Held \cup {s}
      BY <1>1, <1>2, <1>4 DEF Held
    <2> QED BY <1>4, <2>1
  <1>5. CASE /\ registry' = [registry EXCEPT ![s] = Nobody]
             /\ kept' = kept \ {registry[s]}
             /\ run[r].pc = "cleanup" /\ run'[r].pc = "done"
    <2> DEFINE owner == registry[s]
    <2>1. owner \in kept => run[owner].session = s
      BY <1>1, SocketAssumption DEF OwnerInv, Runs
    <2>2. kept' = kept \ {owner}
      BY <1>5
    <2> HIDE DEF owner
    <2>3. CASE \A q \in kept' : run[q].session # s
      <3>1. Held' = Held \ {s}
        BY <1>1, <1>2, <2>1, <2>2, <2>3 DEF Held
      <3> QED BY <1>5, <3>1
    <2>4. CASE \E q \in kept' : run[q].session = s
      <3>1. Held' = Held
        BY <1>1, <1>2, <2>1, <2>2, <2>4 DEF Held
      <3>2. s \in overlapped
        BY <1>1, <2>2, <2>4 DEF OwnerInv, owner
      <3> QED BY <1>5, <3>1, <3>2
    <2> QED BY <2>3, <2>4
  <1> QED BY <1>3, <1>4, <1>5, SandboxShape DEF DeploymentInv

LEMMA RunIsContract ==
    ASSUME NEW r \in Runs, NEW s \in Sessions, s = run[r].session,
           DeploymentInv, StartedInv, RunStep(r), DeploymentInv', StartedInv'
    PROVE  Contract!Next \/ UNCHANGED Contract!vars
  <1>1. StepShape(r)
    BY RunShape DEF DeploymentInv
  <1>2. /\ Active(r) /\ run'[r].session = s /\ overlapped' = overlapped
        /\ \A q \in Runs \ {r} : run'[q] = run[q] /\ Active(q)' = Active(q)
        /\ \A t \in Sessions \ {s} : status'[t] = status[t] /\ lastEnd'[t] = lastEnd[t]
    BY <1>1 DEF StepShape, Others, Active
  <1>3. \A t \in Sessions \ {s} : Busy(t)' = Busy(t)
    BY <1>2 DEF Busy
  <1>4. \A t \in Sessions \ {s} : Shown(t)' = Shown(t) /\ Told(t)' = Told(t)
    BY <1>2, <1>3 DEF Shown, Told
  <1>5. Busy(s) /\ Shown(s) = "working" /\ Told(s) = None
    BY <1>2 DEF Busy, Shown, Told
  <1>6. ASSUME Busy(s)'
        PROVE  \A t \in Sessions : Shown(t)' = Shown(t) /\ Told(t)' = Told(t)
    BY <1>4, <1>5, <1>6 DEF Shown, Told
  <1>7. ASSUME Active(r)' PROVE Busy(s)'
    BY <1>2, <1>7 DEF Busy
  <1>8. CASE Held' = Held /\ Active(r)'
    BY <1>2, <1>6, <1>7, <1>8, ContractStutters
  <1>9. CASE Held' = Held \cup {s} /\ Active(r)'
    <2>1. Contract!Provide(s)
      BY <1>2, <1>5, <1>6, <1>7, <1>9 DEF Contract!Provide
    <2> QED BY <1>2, <2>1 DEF Contract!Next
  <1>10. CASE /\ Held' = Held \ {s} \/ (Held' = Held /\ s \in overlapped)
              /\ run[r].pc = "cleanup" /\ run'[r].pc = "done"
    <2>1. CASE Busy(s)'
      <3>1. s \in overlapped
        <4>1. PICK q \in Runs : Active(q)' /\ run'[q].session = s
          BY <2>1 DEF Busy
        <4>2. q # r
          BY <1>10, <4>1 DEF Active
        <4> QED BY <1>2, <4>1, <4>2 DEF DeploymentInv, OneRun
      <3>2. CASE Held' = Held
        BY <1>2, <1>6, <2>1, <3>2, ContractStutters
      <3>3. CASE Held' = Held \ {s}
        <4>1. Contract!Lose(s)
          BY <1>2, <1>5, <1>6, <2>1, <3>1, <3>3 DEF Contract!Lose
        <4> QED BY <1>2, <4>1 DEF Contract!Next
      <3> QED BY <1>10, <3>2, <3>3
    <2>2. CASE ~Busy(s)'
      <3>1. status'[s] \notin {None, "created"}
        BY <1>2, <1>10 DEF StartedInv
      <3>2. \A q \in Runs : ~(Pending(q) /\ run[q].session = s)'
        BY <2>2 DEF Busy, Pending
      <3>3. status'[s] \in Ended
        BY <1>2, <3>1, <3>2 DEF DeploymentInv, EndInv
      <3>4. Shown(s)' = status'[s] /\ Told(s)' = lastEnd'[s]
        BY <2>2, <3>1 DEF Shown, Told
      <3>5. lastEnd'[s] \in {Contract!Nothing, "complete", "error"}
        BY <1>2 DEF DeploymentInv, BaseInv, SessionTypeOK, None, Contract!Nothing
      <3>6. s \notin overlapped => (lastEnd'[s] = "complete" <=> status'[s] = "completed")
        BY <1>2, <2>2, <3>3 DEF DeploymentInv, LogInv, Agrees
      <3>7. Contract!End(s)
        <4> DEFINE end == status'[s]
                   message == lastEnd'[s]
        <4>1. /\ end \in {"completed", "failed"}
              /\ message \in {Contract!Nothing, "complete", "error"}
              /\ s \notin overlapped => Contract!Tells(message, end)
          BY <3>3, <3>5, <3>6 DEF Ended, Contract!Tells
        <4>2. /\ [t \in Sessions |-> Shown(t)]'
                    = [[t \in Sessions |-> Shown(t)] EXCEPT ![s] = end]
              /\ [t \in Sessions |-> Told(t)]'
                    = [[t \in Sessions |-> Told(t)] EXCEPT ![s] = message]
          BY <1>4, <3>4
        <4> HIDE DEF end, message
        <4> QED BY <1>2, <1>5, <1>10, <4>1, <4>2 DEF Contract!End
      <3> QED BY <1>2, <3>7 DEF Contract!Next
    <2> QED BY <2>1, <2>2
  <1> QED BY <1>1, <1>8, <1>9, <1>10, HeldShape

\* Whatever overlaps and raises, a session at rest changes only by new answers,
\* and comes to rest with an end that status and messages agree on and without
\* its sandbox, unless it was given two orchestrations.
THEOREM DeploymentKeepsContract == Spec => DeploymentKept
  <1>1. Init => StartedInv
    BY DEF Init, Idle, StartedInv
  <1>2. Init => Contract!Init
    <2> SUFFICES ASSUME Init PROVE Contract!Init
      OBVIOUS
    <2>1. \A s \in Sessions : ~Busy(s)
      BY DEF Init, Busy, Active, Idle
    <2>2. \A s \in Sessions : Shown(s) = "absent" /\ Told(s) = Contract!Nothing
      BY <2>1 DEF Init, Shown, Told, None, Contract!Nothing
    <2>3. Held = {} /\ overlapped = {}
      BY DEF Init, Held
    <2> QED BY <2>2, <2>3 DEF Contract!Init
  <1>3. DeploymentInv /\ DeploymentInv' /\ StartedInv /\ StartedInv' /\ [Next]_vars
           => [Contract!Next]_Contract!vars
    <2> SUFFICES ASSUME DeploymentInv, DeploymentInv', StartedInv, StartedInv', [Next]_vars
                 PROVE  Contract!Next \/ UNCHANGED Contract!vars
      OBVIOUS
    <2>1. CASE \E s \in Sessions : CreateSession(s)
      BY <2>1, CreateIsContract DEF Contract!Next
    <2>2. CASE \E r \in Runs, s \in Sessions : SubmitAnswers(r, s)
      BY <2>2, SubmitIsContract DEF Contract!Next
    <2>3. CASE \E r \in Runs : RunStep(r)
      <3>1. PICK r \in Runs : RunStep(r)
        BY <2>3
      <3>2. run[r].session \in Sessions
        <4>1. StepShape(r)
          BY <3>1, RunShape DEF DeploymentInv
        <4> QED BY <4>1 DEF StepShape, Active, DeploymentInv, BaseInv, RunInv
      <3> QED BY <3>1, <3>2, RunIsContract
    <2>4. CASE ClientStep \/ UNCHANGED vars
      <3>1. UNCHANGED <<status, lastEnd, run, kept, overlapped>>
        BY <2>4 DEF ClientStep, vars
      <3>2. \A s \in Sessions : Busy(s)' = Busy(s)
        BY <3>1 DEF Busy, Active
      <3>3. \A s \in Sessions : Shown(s)' = Shown(s) /\ Told(s)' = Told(s)
        BY <3>1, <3>2 DEF Shown, Told
      <3>4. Held' = Held
        BY <3>1 DEF Held
      <3> QED BY <3>1, <3>3, <3>4, ContractStutters
    <2> QED BY <2>1, <2>2, <2>3, <2>4 DEF Next
  <1> QED BY DeploymentInvariant, NextStarted, <1>1, <1>2, <1>3, PTL
          DEF Spec, DeploymentKept, Contract!Spec
=============================================================================
