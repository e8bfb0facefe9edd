-------------------------- MODULE JobServiceProofs --------------------------
(***************************************************************************)
(* Proofs about JobService, for any sets of jobs and tasks and any limits. *)
(* Layer 1 is the control of a task: where it may be, and which states it  *)
(* may have left to write.  Layer 2 shows that _active_jobs excludes       *)
(* builders from each other, and that generate() implements BuildSlots.    *)
(* Layer 3 follows from both: only the builder of a job writes VERIFIED.   *)
(* Layer 4 is about clients that make one call at a time and never cancel: *)
(* a job then has at most one task at work on it, at a stage that fits its *)
(* row, and every state that task writes is one the table allows.          *)
(***************************************************************************)
EXTENDS JobService, FiniteSetTheorems, SequenceTheorems, TLAPS

-----------------------------------------------------------------------------
\* Layer 1: types and control.

Reaching(record) == record.pc \in {"check", "write"}

\* The states a call may write on its way, PUSHED being the end of a push.
Modest == JobState \ {"VERIFIED", "PUSHED"}

\* A build has one state at a time to write, and stays a build until Release.
BuildRoute(path, pc, fallback) ==
    /\ Len(path) = 1
    /\ path[1] # "PUSHED"
    /\ pc \in {"build", "review", "release"}
    /\ pc = "review" => path[1] = "REVIEWING"
    /\ fallback = None \/ (fallback = "REVIEW_FAILED" /\ pc = "release")

BuildControl(record) ==
    /\ record.pc \in {"admit", "load", "check", "write", "build", "review",
                      "release", "done"}
    /\ Reaching(record) => BuildRoute(record.path, record.next, record.fallback)

\* Any other task never comes to the steps of a build, and never has VERIFIED
\* to write.
CallRoute(path, pc, fallback) ==
    /\ path # <<>>
    /\ path \in Seq(Modest) \/ path = <<"PUSHED">>
    /\ pc \in {"plan", "respond", "publish", "done"}
    /\ fallback = None \/ (fallback = "PUSH_FAILED" /\ pc = "done")

CallControl(record) ==
    /\ record.pc \in {"idle", "save", "plan", "check", "write", "respond",
                      "publish", "done"}
    /\ Reaching(record) => CallRoute(record.path, record.next, record.fallback)

Control(record) ==
    /\ record.pc # "idle" => record.job \in Jobs
    /\ IF record.op = "generate" THEN BuildControl(record) ELSE CallControl(record)

ControlInv ==
    /\ TypeOK
    /\ \A t \in Tasks : Control(task[t])

\* The paths the tasks are sent through have one state or two.
LEMMA OneStatePath ==
    ASSUME NEW s \in JobState
    PROVE  /\ <<s>> \in Seq(JobState) /\ Len(<<s>>) = 1 /\ <<s>>[1] = s /\ <<s>> # <<>>
           /\ s \in Modest => <<s>> \in Seq(Modest)
  OBVIOUS

\* A path of two modest states, as planning and push decisions take it.
LEMMA TwoStatePath ==
    ASSUME NEW s \in Modest, NEW u \in Modest
    PROVE  /\ <<s, u>> \in Seq(JobState) /\ <<s, u>> \in Seq(Modest) /\ <<s, u>> # <<>>
  BY DEF Modest

\* What is left of a longer path after one write is a path again.
LEMMA RestOfPath ==
    ASSUME NEW S, NEW path \in Seq(S), Len(path) > 1
    PROVE  Tail(path) \in Seq(S) /\ Tail(path) # <<>>
  <1> DEFINE rest == Tail(path)
  <1>1. rest \in Seq(S) /\ Len(rest) = Len(path) - 1 /\ Len(path) \in Nat
    OBVIOUS
  <1>2. Len(rest) # 0
    BY <1>1
  <1> HIDE DEF rest
  <1>3. rest # <<>>
    BY <1>2, EmptySeq, Zenon
  <1> QED BY <1>1, <1>3 DEF rest

\* The record of a task that has done nothing.
LEMMA BlankControl ==
    Blank \in TaskRecord /\ Control(Blank)
    /\ Blank.pc = "idle" /\ Blank.fallback = None
  BY DEF Blank, TaskRecord, Pc, Operation, Control, CallControl, Reaching, None

\* Every task is idle at first.
LEMMA InitControl == Init => ControlInv
  <1> SUFFICES ASSUME Init PROVE ControlInv
    OBVIOUS
  <1> USE DEF Init
  <1>1. NoRow \in JobRow
    BY DEF NoRow, JobRow
  <1> QED BY <1>1, BlankControl DEF ControlInv, TypeOK

\* A step of one task keeps the invariant if the row and the record it leaves
\* are well formed.
LEMMA OneTask ==
    ASSUME ControlInv, NEW t \in Tasks,
           NEW record \in TaskRecord, Control(record),
           task' = [task EXCEPT ![t] = record],
           jobs' \in [Jobs -> JobRow], active' \subseteq Jobs, restarts' \in Nat
    PROVE  ControlInv'
  BY DEF ControlInv, TypeOK

\* Sending a build through one state, or any other task through modest ones or
\* to PUSHED, is well formed.
LEMMA ThroughControl ==
    ASSUME NEW record \in TaskRecord, NEW path \in Seq(JobState), NEW pc \in Pc,
           NEW fallback \in JobState \cup {None},
           record.job \in Jobs,
           Control(record),
           IF record.op = "generate" THEN BuildRoute(path, pc, fallback)
                                     ELSE CallRoute(path, pc, fallback)
    PROVE  /\ Through(record, path, pc, fallback) \in TaskRecord
           /\ Control(Through(record, path, pc, fallback))
  <1>1. Through(record, path, pc, fallback) \in TaskRecord
    BY DEF Through, TaskRecord, Pc
  <1>2. Control(Through(record, path, pc, fallback))
    BY DEF Through, TaskRecord, Control, BuildControl, CallControl, Reaching
  <1> QED BY <1>1, <1>2

\* A call that begins does so from a well-formed record.
LEMMA BeginControl ==
    ASSUME NEW t \in Tasks, NEW op \in Operation \ {"generate"}, NEW j \in Jobs
    PROVE  Begin(t, op, j) \in TaskRecord /\ Control(Begin(t, op, j))
           /\ Begin(t, op, j).op = op /\ Begin(t, op, j).job = j
  BY BlankControl DEF Begin, TaskRecord, Control, CallControl, Reaching

\* A call that goes straight to its writes.
LEMMA BeginThrough ==
    ASSUME NEW t \in Tasks, NEW op \in Operation \ {"generate"}, NEW j \in Jobs,
           NEW path \in Seq(JobState), path # <<>>, path \in Seq(Modest),
           NEW pc \in {"plan", "respond", "publish", "done"}
    PROVE  /\ Through(Begin(t, op, j), path, pc, None) \in TaskRecord
           /\ Control(Through(Begin(t, op, j), path, pc, None))
  <1> DEFINE record == Begin(t, op, j)
  <1>1. record \in TaskRecord /\ Control(record) /\ record.op = op /\ record.job = j
    BY BeginControl
  <1>2. pc \in Pc
    BY DEF Pc
  <1> HIDE DEF record
  <1>3. /\ Through(record, path, pc, None) \in TaskRecord
        /\ Control(Through(record, path, pc, None))
    BY <1>1, <1>2, ThroughControl DEF CallRoute
  <1> QED BY <1>3 DEF record

\* A background build begins at admit.
LEMMA AdmitControl ==
    ASSUME NEW t \in Tasks, NEW j \in Jobs
    PROVE  LET record == [Begin(t, "generate", j) EXCEPT !.pc = "admit"]
           IN  record \in TaskRecord /\ Control(record)
  BY BlankControl DEF Begin, TaskRecord, Operation, Pc, Control, BuildControl, Reaching

\* The calls.
LEMMA CallKeepsControl ==
    ASSUME ControlInv, NEW t \in Tasks, NEW j \in Jobs, Call(t, j)
    PROVE  ControlInv'
  <1>0. jobs \in [Jobs -> JobRow] /\ active \subseteq Jobs /\ restarts \in Nat
    BY DEF ControlInv, TypeOK
  <1> USE DEF Operation
  <1>1. CASE CreateJob(t, j)
    <2> DEFINE record == Through(Begin(t, "create", j), <<"ARCHITECTURE_PROPOSED">>, "plan", None)
    <2>1. record \in TaskRecord /\ Control(record)
      <3>1. "ARCHITECTURE_PROPOSED" \in Modest /\ "ARCHITECTURE_PROPOSED" \in JobState
        BY DEF Modest, JobState, EndState
      <3> QED BY <3>1, OneStatePath, BeginThrough
    <2>2. jobs' \in [Jobs -> JobRow]
      BY <1>0, <1>1 DEF CreateJob, JobRow, JobState
    <2> HIDE DEF record
    <2>3. task' = [task EXCEPT ![t] = record] /\ active' = active /\ restarts' = restarts
      BY <1>1 DEF CreateJob, record
    <2> QED BY <1>0, <2>1, <2>2, <2>3, OneTask
  <1>2. CASE SubmitAnswers(t, j)
    <2> DEFINE record == [Begin(t, "answer", j) EXCEPT !.pc = "save", !.copy = jobs[j].answers \cup {t}]
    <2>1. record \in TaskRecord /\ Control(record)
      BY <1>0, BlankControl DEF Begin, JobRow, TaskRecord, Pc, Control, CallControl, Reaching
    <2> HIDE DEF record
    <2>2. task' = [task EXCEPT ![t] = record] /\ UNCHANGED <<jobs, active, restarts>>
      BY <1>2 DEF SubmitAnswers, record
    <2> QED BY <1>0, <2>1, <2>2, OneTask
  <1>3. CASE RequestBuild(t, j)
    BY <1>0, <1>3, AdmitControl, OneTask DEF RequestBuild
  <1>4. CASE PushDecision(t, j)
    <2> PICK choice \in {"AWAITING_GITHUB_TOKEN", "CANCELLED"} :
          task' = [task EXCEPT ![t] = Through(Begin(t, "decide", j),
                      <<"AWAITING_PUSH_DECISION", choice>>, "done", None)]
      BY <1>4 DEF PushDecision
    <2> DEFINE record == Through(Begin(t, "decide", j), <<"AWAITING_PUSH_DECISION", choice>>, "done", None)
    <2>1. record \in TaskRecord /\ Control(record)
      <3>1. "AWAITING_PUSH_DECISION" \in Modest /\ choice \in Modest
        BY DEF Modest, JobState, EndState
      <3> QED BY <3>1, TwoStatePath, BeginThrough
    <2> HIDE DEF record
    <2>2. UNCHANGED <<jobs, active, restarts>>
      BY <1>4 DEF PushDecision
    <2> QED BY <1>0, <2>1, <2>2, OneTask DEF record
  <1>5. CASE PushToGitHub(t, j)
    <2> DEFINE record == Through(Begin(t, "push", j), <<"PUSHING">>, "publish", None)
    <2>1. record \in TaskRecord /\ Control(record)
      <3>1. "PUSHING" \in Modest /\ "PUSHING" \in JobState
        BY DEF Modest, JobState, EndState
      <3> QED BY <3>1, OneStatePath, BeginThrough
    <2> HIDE DEF record
    <2>2. task' = [task EXCEPT ![t] = record] /\ UNCHANGED <<jobs, active, restarts>>
      BY <1>5 DEF PushToGitHub, record
    <2> QED BY <1>0, <2>1, <2>2, OneTask
  <1>6. CASE Cancel(t, j)
    <2> DEFINE record == Through(Begin(t, "cancel", j), <<"CANCELLED">>, "done", None)
    <2>1. record \in TaskRecord /\ Control(record)
      <3>1. "CANCELLED" \in Modest /\ "CANCELLED" \in JobState
        BY DEF Modest, JobState, EndState
      <3> QED BY <3>1, OneStatePath, BeginThrough
    <2> HIDE DEF record
    <2>2. task' = [task EXCEPT ![t] = record] /\ UNCHANGED <<jobs, active, restarts>>
      BY <1>6 DEF Cancel, record
    <2> QED BY <1>0, <2>1, <2>2, OneTask
  <1> QED BY <1>1, <1>2, <1>3, <1>4, <1>5, <1>6 DEF Call

\* A task that sends itself through states keeps the invariant.
LEMMA PursueControl ==
    ASSUME ControlInv, NEW t \in Tasks, NEW path \in Seq(JobState), NEW pc \in Pc,
           NEW fallback \in JobState \cup {None},
           task[t].pc # "idle",
           IF task[t].op = "generate" THEN BuildRoute(path, pc, fallback)
                                      ELSE CallRoute(path, pc, fallback),
           Pursue(t, path, pc, fallback),
           jobs' \in [Jobs -> JobRow], UNCHANGED <<active, restarts>>
    PROVE  ControlInv'
  <1>1. task[t] \in TaskRecord /\ Control(task[t]) /\ task[t].job \in Jobs
    BY DEF ControlInv, TypeOK, Control
  <1>2. /\ Through(task[t], path, pc, fallback) \in TaskRecord
        /\ Control(Through(task[t], path, pc, fallback))
    BY <1>1, ThroughControl
  <1>3. task' = [task EXCEPT ![t] = Through(task[t], path, pc, fallback)]
    BY DEF Pursue
  <1>4. active' \subseteq Jobs /\ restarts' \in Nat
    BY DEF ControlInv, TypeOK
  <1> QED BY <1>2, <1>3, <1>4, OneTask

\* A task that goes on to a step of its own kind keeps the invariant.
LEMMA GotoControl ==
    ASSUME ControlInv, NEW t \in Tasks, NEW pc \in Pc,
           task[t].pc # "idle",
           IF task[t].op = "generate"
           THEN pc \in {"load", "build", "review", "release", "done"}
           ELSE pc \in {"plan", "respond", "publish", "done"},
           Goto(t, pc),
           jobs' \in [Jobs -> JobRow], active' \subseteq Jobs, UNCHANGED restarts
    PROVE  ControlInv'
  <1> DEFINE record == [task[t] EXCEPT !.pc = pc]
  <1>1. task[t] \in TaskRecord /\ Control(task[t])
    BY DEF ControlInv, TypeOK
  <1>2. record \in TaskRecord /\ Control(record)
    BY <1>1 DEF TaskRecord, Control, BuildControl, CallControl, Reaching
  <1> HIDE DEF record
  <1>3. task' = [task EXCEPT ![t] = record]
    BY DEF Goto, record
  <1>4. restarts' \in Nat
    BY DEF ControlInv, TypeOK
  <1> QED BY <1>2, <1>3, <1>4, OneTask

\* A row stays a row when one of its fields gets a value of its type.
LEMMA RowUpdates ==
    ASSUME jobs \in [Jobs -> JobRow], NEW j \in Jobs
    PROVE  /\ \A v \in JobState : [jobs EXCEPT ![j].state = v] \in [Jobs -> JobRow]
           /\ \A v \in SUBSET Tasks :
                /\ [jobs EXCEPT ![j].answers = v] \in [Jobs -> JobRow]
                /\ [jobs EXCEPT ![j].brief = v] \in [Jobs -> JobRow]
                /\ [jobs EXCEPT ![j].built = v] \in [Jobs -> JobRow]
           /\ \A v \in {"passed", "failed"} :
                [jobs EXCEPT ![j].report = v] \in [Jobs -> JobRow]
           /\ \A n \in {0, 1}, reached \in BOOLEAN :
                [jobs EXCEPT ![j].repositories = @ + n,
                             ![j].published = @ \/ reached] \in [Jobs -> JobRow]
           /\ [jobs EXCEPT ![j].repositories = @ + 1,
                           ![j].published = TRUE] \in [Jobs -> JobRow]
  <1>1. /\ jobs[j] \in JobRow
        /\ \A row \in JobRow : [jobs EXCEPT ![j] = row] \in [Jobs -> JobRow]
    OBVIOUS
  <1>2. \A v \in JobState : [jobs[j] EXCEPT !.state = v] \in JobRow
    BY <1>1 DEF JobRow
  <1>3. \A v \in SUBSET Tasks : [jobs[j] EXCEPT !.answers = v] \in JobRow
    BY <1>1 DEF JobRow
  <1>4. \A v \in SUBSET Tasks : [jobs[j] EXCEPT !.brief = v] \in JobRow
    BY <1>1 DEF JobRow
  <1>5. \A v \in SUBSET Tasks : [jobs[j] EXCEPT !.built = v] \in JobRow
    BY <1>1 DEF JobRow
  <1>6. \A v \in {"passed", "failed"} : [jobs[j] EXCEPT !.report = v] \in JobRow
    BY <1>1 DEF JobRow
  <1>7. \A n \in {0, 1} : [jobs[j] EXCEPT !.repositories = @ + n] \in JobRow
    BY <1>1 DEF JobRow
  <1>8. \A row \in JobRow, v \in BOOLEAN : [row EXCEPT !.published = v] \in JobRow
    BY ZenonT(30) DEF JobRow
  <1> DEFINE row == [jobs[j] EXCEPT !.repositories = @ + 1]
             pushed == [row EXCEPT !.published = TRUE]
  <1>9. [jobs EXCEPT ![j].repositories = @ + 1, ![j].published = TRUE]
          = [jobs EXCEPT ![j] = pushed]
    OBVIOUS
  <1>10. pushed \in JobRow
    <2> HIDE DEF row
    <2>1. row \in JobRow
      BY <1>7 DEF row
    <2> QED BY <1>8, <2>1, Zenon
  <1>11. ASSUME NEW n \in {0, 1}, NEW reached \in BOOLEAN
         PROVE  [jobs EXCEPT ![j].repositories = @ + n, ![j].published = @ \/ reached]
                   \in [Jobs -> JobRow]
    <2> DEFINE created == [jobs[j] EXCEPT !.repositories = @ + n]
               known == jobs[j].published \/ reached
               failed == [created EXCEPT !.published = known]
    <2>1. created \in JobRow
      BY <1>7
    <2>2. created.published = jobs[j].published
      BY <1>1 DEF JobRow
    <2>3. known \in BOOLEAN
      OBVIOUS
    <2>4. failed \in JobRow
      <3> HIDE DEF created, known
      <3> QED BY <1>8, <2>1, <2>3, Zenon
    <2>5. [jobs EXCEPT ![j].repositories = @ + n, ![j].published = @ \/ reached]
            = [jobs EXCEPT ![j] = [created EXCEPT !.published = @ \/ reached]]
      OBVIOUS
    <2>6. [created EXCEPT !.published = @ \/ reached] = failed
      BY <2>2
    <2> HIDE DEF failed
    <2> QED BY <1>1, <2>4, <2>5, <2>6
  <1> HIDE DEF pushed
  <1> QED BY <1>1, <1>2, <1>3, <1>4, <1>5, <1>6, <1>9, <1>10, <1>11

\* _update_state.
LEMMA UpdateKeepsControl ==
    ASSUME ControlInv, NEW t \in Tasks, CheckTransition(t) \/ WriteState(t)
    PROVE  ControlInv'
  <1>0. /\ jobs \in [Jobs -> JobRow] /\ active \subseteq Jobs
        /\ task[t] \in TaskRecord /\ Control(task[t])
    BY DEF ControlInv, TypeOK
  <1>1. CASE CheckTransition(t)
    <2>0. task[t].pc = "check" /\ task[t].job \in Jobs /\ UNCHANGED <<jobs, active, restarts>>
      BY <1>0, <1>1 DEF CheckTransition, Control
    <2>1. CASE Goto(t, "write")
      <3> DEFINE record == [task[t] EXCEPT !.pc = "write"]
      <3>1. record \in TaskRecord /\ Control(record)
        BY <1>0, <2>0 DEF TaskRecord, Pc, Control, BuildControl, CallControl, Reaching
      <3> HIDE DEF record
      <3>2. task' = [task EXCEPT ![t] = record]
        BY <2>1 DEF Goto, record
      <3>3. restarts' \in Nat
        BY <2>0 DEF ControlInv, TypeOK
      <3> QED BY <1>0, <2>0, <3>1, <3>2, <3>3, OneTask
    <2>2. CASE Refused(t)
      <3>1. CASE task[t].fallback # None
        <4> DEFINE s == task[t].fallback
        <4>1. Pursue(t, <<s>>, task[t].next, None)
          BY <2>2, <3>1 DEF Refused
        <4>2. IF task[t].op = "generate"
              THEN s = "REVIEW_FAILED" /\ task[t].next = "release"
              ELSE s = "PUSH_FAILED" /\ task[t].next = "done"
          BY <1>0, <2>0, <3>1 DEF Control, BuildControl, CallControl, BuildRoute, CallRoute, Reaching
        <4>3. s \in JobState /\ s \in Modest /\ task[t].next \in Pc
          BY <4>2 DEF JobState, EndState, Modest, Pc
        <4>4. IF task[t].op = "generate" THEN BuildRoute(<<s>>, task[t].next, None)
                                         ELSE CallRoute(<<s>>, task[t].next, None)
          BY <4>2, <4>3, OneStatePath DEF BuildRoute, CallRoute
        <4> HIDE DEF s
        <4> QED BY <1>0, <2>0, <4>1, <4>3, <4>4, OneStatePath, PursueControl
      <3>2. CASE task[t].fallback = None
        <4>1. Goto(t, IF Builder(t) THEN "release" ELSE "done")
          BY <2>2, <3>2 DEF Refused
        <4>2. Builder(t) <=> task[t].op = "generate"
          BY <2>0 DEF Builder
        <4> QED BY <1>0, <2>0, <4>1, <4>2, GotoControl DEF Pc
      <3> QED BY <3>1, <3>2
    <2> QED BY <1>1, <2>1, <2>2 DEF CheckTransition
  <1>2. CASE WriteState(t)
    <2> DEFINE record == [task[t] EXCEPT
                            !.path = Tail(@),
                            !.pc = IF Len(task[t].path) > 1 THEN "check" ELSE task[t].next]
    <2>0. task[t].pc = "write" /\ task[t].job \in Jobs /\ UNCHANGED <<active, restarts>>
      BY <1>0, <1>2 DEF WriteState, Control
    <2>1. task[t].path \in Seq(JobState) /\ task[t].path # <<>>
      BY <1>0, <2>0 DEF TaskRecord, Control, BuildControl, CallControl, BuildRoute, CallRoute, Reaching
    <2>2. Head(task[t].path) \in JobState /\ Tail(task[t].path) \in Seq(JobState)
      BY <2>1
    <2>3. record \in TaskRecord
      BY <1>0, <2>2 DEF TaskRecord, Pc
    <2>4. Control(record)
      <3>1. CASE task[t].op = "generate"
        <4>1. Len(task[t].path) = 1 /\ task[t].next \in {"build", "review", "release"}
          BY <1>0, <2>0, <3>1 DEF Control, BuildControl, BuildRoute, Reaching
        <4>2. /\ record.pc = task[t].next /\ record.op = task[t].op
              /\ record.job = task[t].job
          BY <1>0, <4>1 DEF TaskRecord
        <4> QED BY <2>0, <3>1, <4>1, <4>2 DEF Control, BuildControl, Reaching
      <3>2. CASE task[t].op # "generate" /\ Len(task[t].path) > 1
        <4>1. CallRoute(task[t].path, task[t].next, task[t].fallback)
          BY <1>0, <2>0, <3>2 DEF Control, CallControl, Reaching
        <4>2. task[t].path \in Seq(Modest)
          <5>1. CASE task[t].path = <<"PUSHED">>
            BY <3>2, <5>1
          <5> QED BY <4>1, <5>1 DEF CallRoute
        <4>3. Tail(task[t].path) \in Seq(Modest) /\ Tail(task[t].path) # <<>>
          BY <3>2, <4>2, RestOfPath
        <4>4. CallRoute(Tail(task[t].path), task[t].next, task[t].fallback)
          BY <4>1, <4>3 DEF CallRoute
        <4> QED BY <1>0, <2>0, <3>2, <4>4 DEF TaskRecord, Control, CallControl, Reaching
      <3>3. CASE task[t].op # "generate" /\ ~(Len(task[t].path) > 1)
        <4>1. task[t].next \in {"plan", "respond", "publish", "done"}
          BY <1>0, <2>0, <3>3 DEF Control, CallControl, CallRoute, Reaching
        <4> QED BY <1>0, <2>0, <3>3, <4>1 DEF TaskRecord, Control, CallControl, Reaching
      <3> QED BY <3>1, <3>2, <3>3
    <2>5. jobs' \in [Jobs -> JobRow]
      BY <1>0, <1>2, <2>0, <2>2, RowUpdates DEF WriteState
    <2>6. task' = [task EXCEPT ![t] = record]
      BY <1>2 DEF WriteState
    <2>7. active' \subseteq Jobs /\ restarts' \in Nat
      BY <1>0, <2>0 DEF ControlInv, TypeOK
    <2> HIDE DEF record
    <2> QED BY <2>3, <2>4, <2>5, <2>6, <2>7, OneTask
  <1> QED BY <1>1, <1>2

\* The agents.
LEMMA AgentKeepsControl ==
    ASSUME ControlInv, NEW t \in Tasks, AgentStep(t)
    PROVE  ControlInv'
  <1> DEFINE j == task[t].job
  <1>0. /\ jobs \in [Jobs -> JobRow] /\ active \subseteq Jobs
        /\ task[t] \in TaskRecord /\ Control(task[t])
    BY DEF ControlInv, TypeOK
  <1>1. CASE Plan(t)
    <2>0. /\ task[t].pc = "plan" /\ j \in Jobs /\ task[t].op # "generate"
          /\ UNCHANGED <<active, restarts>>
      BY <1>0, <1>1 DEF Plan, Control, BuildControl
    <2>1. task[t].copy \in SUBSET Tasks /\ {} \in SUBSET Tasks
      BY <1>0 DEF TaskRecord
    <2>2. CASE PlannerAsks(t)
      <3>1. CASE task[t].op = "create"
        <4>1. jobs' = [jobs EXCEPT ![j].brief = {}]
              /\ Pursue(t, <<"AWAITING_ANSWERS">>, "respond", None)
          BY <2>2, <3>1 DEF PlannerAsks
        <4>2. "AWAITING_ANSWERS" \in JobState /\ "AWAITING_ANSWERS" \in Modest
          BY DEF JobState, Modest, EndState
        <4>3. CallRoute(<<"AWAITING_ANSWERS">>, "respond", None)
          BY <4>2, OneStatePath DEF CallRoute
        <4>4. jobs' \in [Jobs -> JobRow]
          BY <1>0, <2>0, <2>1, <4>1, RowUpdates
        <4> QED BY <2>0, <4>1, <4>2, <4>3, <4>4, OneStatePath, PursueControl DEF Pc
      <3>2. CASE task[t].op # "create"
        <4> DEFINE path == <<"ARCHITECTURE_PROPOSED", "AWAITING_ANSWERS">>
        <4>1. jobs' = jobs /\ Pursue(t, path, "respond", None)
          BY <2>2, <3>2 DEF PlannerAsks
        <4>2. "ARCHITECTURE_PROPOSED" \in Modest /\ "AWAITING_ANSWERS" \in Modest
          BY DEF JobState, Modest, EndState
        <4>3. path \in Seq(JobState) /\ CallRoute(path, "respond", None)
          BY <4>2, TwoStatePath DEF CallRoute
        <4> HIDE DEF path
        <4> QED BY <1>0, <2>0, <4>1, <4>3, PursueControl DEF Pc
      <3> QED BY <3>1, <3>2
    <2>3. CASE PlannerSettles(t)
      <3>1. jobs' = [jobs EXCEPT ![j].brief = task[t].copy]
            /\ Pursue(t, <<"READY_TO_GENERATE">>, "respond", None)
        BY <2>3 DEF PlannerSettles
      <3>2. "READY_TO_GENERATE" \in JobState /\ "READY_TO_GENERATE" \in Modest
        BY DEF JobState, Modest, EndState
      <3>3. CallRoute(<<"READY_TO_GENERATE">>, "respond", None)
        BY <3>2, OneStatePath DEF CallRoute
      <3>4. jobs' \in [Jobs -> JobRow]
        BY <1>0, <2>0, <2>1, <3>1, RowUpdates
      <3> QED BY <2>0, <3>1, <3>2, <3>3, <3>4, OneStatePath, PursueControl DEF Pc
    <2>4. CASE PlannerFails(t)
      BY <1>0, <2>0, <2>4, GotoControl DEF PlannerFails, Pc
    <2> QED BY <1>1, <2>2, <2>3, <2>4 DEF Plan
  <1>2. CASE Build(t)
    <2>0. /\ task[t].pc = "build" /\ j \in Jobs /\ task[t].op = "generate"
          /\ UNCHANGED <<active, restarts>>
      BY <1>0, <1>2 DEF Build, Control, CallControl
    <2>1. CASE /\ jobs' = [jobs EXCEPT ![j].built = task[t].copy]
               /\ Pursue(t, <<"REVIEWING">>, "review", None)
      <3>1. "REVIEWING" \in JobState
        BY DEF JobState
      <3>2. BuildRoute(<<"REVIEWING">>, "review", None)
        BY <3>1, OneStatePath DEF BuildRoute
      <3>3. task[t].copy \in SUBSET Tasks
        BY <1>0 DEF TaskRecord
      <3>4. jobs' \in [Jobs -> JobRow]
        BY <1>0, <2>0, <2>1, <3>3, RowUpdates
      <3> QED BY <2>0, <2>1, <3>1, <3>2, <3>4, OneStatePath, PursueControl DEF Pc
    <2>2. CASE UNCHANGED jobs /\ Pursue(t, <<"FAILED">>, "release", None)
      <3>1. "FAILED" \in JobState
        BY DEF JobState, EndState
      <3>2. BuildRoute(<<"FAILED">>, "release", None)
        BY <3>1, OneStatePath DEF BuildRoute
      <3> QED BY <1>0, <2>0, <2>2, <3>1, <3>2, OneStatePath, PursueControl DEF Pc
    <2> QED BY <1>2, <2>1, <2>2 DEF Build
  <1>3. CASE Review(t)
    <2>0. /\ task[t].pc = "review" /\ j \in Jobs /\ task[t].op = "generate"
          /\ UNCHANGED <<active, restarts>>
      BY <1>0, <1>3 DEF Review, Control, CallControl
    <2>1. jobs' \in [Jobs -> JobRow]
      <3>1. (\E v \in {"passed", "failed"} : jobs' = [jobs EXCEPT ![j].report = v]) \/ jobs' = jobs
        BY <1>3 DEF Review
      <3>2. \A v \in {"passed", "failed"} : [jobs EXCEPT ![j].report = v] \in [Jobs -> JobRow]
        BY <1>0, <2>0, RowUpdates
      <3> HIDE DEF j
      <3> QED BY <1>0, <3>1, <3>2
    <2>2. PICK s \in {"VERIFIED", "REVIEW_FAILED"}, fallback \in {"REVIEW_FAILED", None} :
            Pursue(t, <<s>>, "release", fallback)
      BY <1>3 DEF Review
    <2>3. s \in JobState /\ fallback \in JobState \cup {None}
      BY DEF JobState, EndState
    <2>4. BuildRoute(<<s>>, "release", fallback)
      BY <2>3, OneStatePath DEF BuildRoute
    <2> QED BY <2>0, <2>1, <2>2, <2>3, <2>4, OneStatePath, PursueControl DEF Pc
  <1> QED BY <1>1, <1>2, <1>3 DEF AgentStep

\* What a task does alone.
LEMMA OwnKeepsControl ==
    ASSUME ControlInv, NEW t \in Tasks, OwnStep(t)
    PROVE  ControlInv'
  <1> DEFINE j == task[t].job
  <1>0. /\ jobs \in [Jobs -> JobRow] /\ active \subseteq Jobs /\ restarts \in Nat
        /\ task[t] \in TaskRecord /\ Control(task[t])
    BY DEF ControlInv, TypeOK
  <1>1. CASE CheckTransition(t) \/ WriteState(t)
    BY <1>1, UpdateKeepsControl
  <1>2. CASE SaveAnswers(t)
    <2>0. task[t].pc = "save" /\ j \in Jobs /\ task[t].op # "generate"
      BY <1>0, <1>2 DEF SaveAnswers, Control, BuildControl
    <2>1. task[t].copy \in SUBSET Tasks
      BY <1>0 DEF TaskRecord
    <2>2. jobs' \in [Jobs -> JobRow]
      BY <1>0, <1>2, <2>0, <2>1, RowUpdates DEF SaveAnswers
    <2> QED BY <1>0, <1>2, <2>0, <2>2, GotoControl DEF SaveAnswers, Pc
  <1>3. CASE Respond(t)
    <2>0. /\ task[t].pc = "respond" /\ j \in Jobs /\ task[t].op # "generate"
          /\ UNCHANGED <<jobs, active, restarts>>
      BY <1>0, <1>3 DEF Respond, Control, BuildControl
    <2>1. CASE StateOf(t) = "READY_TO_GENERATE"
      <3> DEFINE record == [Begin(t, "generate", j) EXCEPT !.pc = "admit"]
      <3>1. record \in TaskRecord /\ Control(record)
        BY <2>0, AdmitControl
      <3>2. task' = [task EXCEPT ![t] = record]
        BY <1>3, <2>1 DEF Respond
      <3> HIDE DEF record
      <3> QED BY <1>0, <2>0, <3>1, <3>2, OneTask
    <2>2. CASE StateOf(t) # "READY_TO_GENERATE"
      <3>1. Goto(t, "done")
        BY <1>3, <2>2 DEF Respond, Goto
      <3> QED BY <1>0, <2>0, <3>1, GotoControl DEF Pc
    <2> QED BY <2>1, <2>2
  <1>4. CASE Admit(t)
    <2>0. task[t].pc = "admit" /\ j \in Jobs /\ task[t].op = "generate"
      BY <1>0, <1>4 DEF Admit, Control, CallControl
    <2>1. PICK pc \in {"load", "done"} : Goto(t, pc)
      BY <1>4 DEF Admit
    <2>2. active' \subseteq Jobs /\ jobs' = jobs /\ restarts' = restarts
      BY <1>0, <1>4, <2>0 DEF Admit
    <2> QED BY <1>0, <2>0, <2>1, <2>2, GotoControl DEF Pc
  <1>5. CASE Load(t)
    <2>0. /\ task[t].pc = "load" /\ j \in Jobs /\ task[t].op = "generate"
          /\ UNCHANGED <<jobs, active, restarts>>
      BY <1>0, <1>5 DEF Load, Control, CallControl
    <2>1. CASE StateOf(t) = "READY_TO_GENERATE"
      <3> DEFINE gone == Through(task[t], <<"GENERATING">>, "build", None)
                 record == [gone EXCEPT !.copy = jobs[j].brief]
      <3>1. "GENERATING" \in JobState
        BY DEF JobState
      <3>2. BuildRoute(<<"GENERATING">>, "build", None)
        BY <3>1, OneStatePath DEF BuildRoute
      <3>3. gone \in TaskRecord /\ Control(gone)
        BY <1>0, <2>0, <3>1, <3>2, OneStatePath, ThroughControl DEF Pc
      <3>4. jobs[j].brief \in SUBSET Tasks
        BY <1>0, <2>0 DEF JobRow
      <3>5. task' = [task EXCEPT ![t] = record]
        BY <1>5, <2>1 DEF Load
      <3> HIDE DEF gone
      <3>6. record \in TaskRecord /\ Control(record)
        BY <3>3, <3>4 DEF TaskRecord, Control, BuildControl, CallControl, Reaching
      <3> QED BY <1>0, <2>0, <3>5, <3>6, OneTask
    <2>2. CASE StateOf(t) # "READY_TO_GENERATE"
      <3>1. Goto(t, "release")
        BY <1>5, <2>2 DEF Load, Goto
      <3> QED BY <1>0, <2>0, <3>1, GotoControl DEF Pc
    <2> QED BY <2>1, <2>2
  <1>6. CASE Release(t)
    <2>0. task[t].pc = "release" /\ task[t].op = "generate"
      BY <1>0, <1>6 DEF Release, Control, CallControl
    <2>1. active' \subseteq Jobs /\ jobs' = jobs /\ restarts' = restarts /\ Goto(t, "done")
      BY <1>0, <1>6 DEF Release
    <2> QED BY <1>0, <2>0, <2>1, GotoControl DEF Pc
  <1>7. CASE Publish(t)
    <2>0. /\ task[t].pc = "publish" /\ j \in Jobs /\ task[t].op # "generate"
          /\ UNCHANGED <<active, restarts>>
      BY <1>0, <1>7 DEF Publish, Control, BuildControl
    <2>1. CASE PushSucceeds(t)
      <3>1. CallRoute(<<"PUSHED">>, "done", "PUSH_FAILED") /\ <<"PUSHED">> \in Seq(JobState)
            /\ "PUSH_FAILED" \in JobState \cup {None}
        BY OneStatePath DEF CallRoute, JobState, EndState
      <3>2. jobs' \in [Jobs -> JobRow]
        BY <1>0, <2>0, <2>1, RowUpdates DEF PushSucceeds
      <3>3. Pursue(t, <<"PUSHED">>, "done", "PUSH_FAILED")
        BY <2>1 DEF PushSucceeds
      <3> QED BY <2>0, <3>1, <3>2, <3>3, PursueControl DEF Pc
    <2>2. CASE PushFails(t)
      <3>1. "PUSH_FAILED" \in JobState /\ "PUSH_FAILED" \in Modest
        BY DEF JobState, EndState, Modest
      <3>2. CallRoute(<<"PUSH_FAILED">>, "done", None)
        BY <3>1, OneStatePath DEF CallRoute
      <3>3. jobs' \in [Jobs -> JobRow]
        <4>1. PICK n \in {0, 1}, reached \in BOOLEAN :
                 jobs' = [jobs EXCEPT ![j].repositories = @ + n, ![j].published = @ \/ reached]
          BY <2>2 DEF PushFails
        <4>2. [jobs EXCEPT ![j].repositories = @ + n, ![j].published = @ \/ reached]
                \in [Jobs -> JobRow]
          BY <1>0, <2>0, RowUpdates
        <4> QED BY <4>1, <4>2
      <3>4. Pursue(t, <<"PUSH_FAILED">>, "done", None)
        BY <2>2 DEF PushFails
      <3> QED BY <2>0, <3>1, <3>2, <3>3, <3>4, OneStatePath, PursueControl DEF Pc
    <2> QED BY <1>7, <2>1, <2>2 DEF Publish
  <1> QED BY <1>1, <1>2, <1>3, <1>4, <1>5, <1>6, <1>7 DEF OwnStep

\* Every step keeps the control of the tasks.
LEMMA NextControl == ControlInv /\ [Next]_vars => ControlInv'
  <1> SUFFICES ASSUME ControlInv, [Next]_vars PROVE ControlInv'
    OBVIOUS
  <1>1. ASSUME NEW t \in Tasks, NEW j \in Jobs, Call(t, j) PROVE ControlInv'
    BY <1>1, CallKeepsControl
  <1>2. ASSUME NEW t \in Tasks, AgentStep(t) \/ OwnStep(t) PROVE ControlInv'
    BY <1>2, AgentKeepsControl, OwnKeepsControl
  <1>3. CASE Restart
    <2>1. restarts' \in Nat /\ jobs' = jobs /\ active' = {}
      BY <1>3 DEF Restart, ControlInv, TypeOK
    <2>2. \A t \in Tasks : task'[t] \in TaskRecord /\ Control(task'[t])
      <3> SUFFICES ASSUME NEW t \in Tasks PROVE task'[t] \in TaskRecord /\ Control(task'[t])
        OBVIOUS
      <3>1. task[t] \in TaskRecord /\ Control(task[t])
        BY DEF ControlInv, TypeOK
      <3>2. task'[t] = task[t] \/ (task[t].pc # "idle" /\ task'[t] = [task[t] EXCEPT !.pc = "done"])
        BY <1>3 DEF Restart
      <3> QED BY <3>1, <3>2 DEF TaskRecord, Pc, Control, BuildControl, CallControl, Reaching
    <2>3. task' \in [Tasks -> TaskRecord]
      BY <1>3, <2>2 DEF Restart
    <2> QED BY <2>1, <2>2, <2>3 DEF ControlInv, TypeOK
  <1>4. CASE UNCHANGED vars
    BY <1>4 DEF vars, ControlInv, TypeOK
  <1> QED BY <1>1, <1>2, <1>3, <1>4 DEF Next

\* The control of the tasks holds in every reachable state.
THEOREM ControlKept == Spec => []ControlInv
  BY InitControl, NextControl, PTL DEF Spec

\* Every variable keeps its type (TypeOK).
THEOREM JobTypeCorrect == Spec => []TypeOK
  <1>1. ControlInv => TypeOK
    BY DEF ControlInv
  <1> QED BY <1>1, ControlKept, PTL

-----------------------------------------------------------------------------
\* Layer 2: build slots.

Builders == {u \in Tasks : Builder(u)}

\* _active_jobs names the jobs that are built, once each, and is finite.
SlotInv ==
    /\ SlotsExact
    /\ \A t, u \in Tasks : Builder(t) /\ Builder(u) /\ task[t].job = task[u].job => t = u
    /\ IsFiniteSet(active)

\* What a step can do to the slots: nothing, one build more, one less, or none.
SameBuild(u) == (Builder(u)' <=> Builder(u)) /\ (Builder(u) => task'[u].job = task[u].job)

Quiet == active' = active /\ \A u \in Tasks : SameBuild(u)

Admitted(t) ==
    /\ ~Builder(t) /\ Builder(t)'
    /\ task[t].job \in Jobs /\ task'[t].job = task[t].job
    /\ Admissible(task[t].job)
    /\ active' = active \cup {task[t].job}
    /\ \A u \in Tasks \ {t} : SameBuild(u)

Released(t) ==
    /\ Builder(t) /\ ~Builder(t)'
    /\ active' = active \ {task[t].job}
    /\ \A u \in Tasks \ {t} : SameBuild(u)

Stopped == active' = {} /\ \A u \in Tasks : ~Builder(u)'

\* A step that changes one record and neither starts nor ends a build.
LEMMA OneQuiet ==
    ASSUME ControlInv, NEW t \in Tasks, NEW record,
           task' = [task EXCEPT ![t] = record],
           (record.op = "generate" /\ record.pc \notin {"idle", "admit", "done"}) <=> Builder(t),
           Builder(t) => record.job = task[t].job,
           active' = active
    PROVE  Quiet
  BY DEF ControlInv, TypeOK, Quiet, SameBuild, Builder

\* A call begins no build.
LEMMA CallIsQuiet ==
    ASSUME ControlInv, NEW t \in Tasks, NEW j \in Jobs, Call(t, j)
    PROVE  Quiet
  <1>0. task[t].pc = "idle" /\ active' = active
    BY DEF Call, CanCall, CreateJob, SubmitAnswers, RequestBuild, PushDecision, PushToGitHub, Cancel
  <1> DEFINE calls == task'[t].op # "generate" \/ task'[t].pc = "admit"
             others == \A u \in Tasks \ {t} : task'[u] = task[u]
  <1>1. task \in [Tasks -> TaskRecord]
    BY DEF ControlInv, TypeOK
  <1>2. calls /\ others
    <2>1. CASE CreateJob(t, j)
      BY <1>1, <2>1 DEF CreateJob, Through, Begin, Blank
    <2>2. CASE SubmitAnswers(t, j)
      BY <1>1, <2>2 DEF SubmitAnswers, Begin, Blank
    <2>3. CASE RequestBuild(t, j)
      BY <1>1, <2>3 DEF RequestBuild, Begin, Blank
    <2>4. CASE PushDecision(t, j)
      BY <1>1, <2>4 DEF PushDecision, Through, Begin, Blank
    <2>5. CASE PushToGitHub(t, j)
      BY <1>1, <2>5 DEF PushToGitHub, Through, Begin, Blank
    <2>6. CASE Cancel(t, j)
      BY <1>1, <2>6 DEF Cancel, Through, Begin, Blank
    <2> QED BY <2>1, <2>2, <2>3, <2>4, <2>5, <2>6 DEF Call
  <1> QED BY <1>0, <1>2 DEF Quiet, SameBuild, Builder

\* A task that sends itself through states starts and ends no build.
LEMMA PursueIsQuiet ==
    ASSUME ControlInv, NEW t \in Tasks, NEW path, NEW pc, NEW fallback,
           Pursue(t, path, pc, fallback), active' = active,
           Builder(t) <=> task[t].op = "generate"
    PROVE  Quiet
  <1> DEFINE record == Through(task[t], path, pc, fallback)
  <1>1. task' = [task EXCEPT ![t] = record]
    BY DEF Pursue
  <1>2. task[t] \in TaskRecord
    BY DEF ControlInv, TypeOK
  <1>3. record.pc = "check" /\ record.op = task[t].op /\ record.job = task[t].job
    BY <1>2 DEF Through, TaskRecord
  <1> HIDE DEF record
  <1> QED BY <1>1, <1>3, OneQuiet

\* A task that goes on within its kind starts and ends no build.
LEMMA GotoIsQuiet ==
    ASSUME ControlInv, NEW t \in Tasks, NEW pc,
           Goto(t, pc), active' = active,
           IF task[t].op = "generate" THEN Builder(t) <=> pc \notin {"idle", "admit", "done"}
                                      ELSE ~Builder(t)
    PROVE  Quiet
  <1> DEFINE record == [task[t] EXCEPT !.pc = pc]
  <1>1. task' = [task EXCEPT ![t] = record]
    BY DEF Goto
  <1>2. task[t] \in TaskRecord
    BY DEF ControlInv, TypeOK
  <1>3. record.pc = pc /\ record.op = task[t].op /\ record.job = task[t].job
    BY <1>2 DEF TaskRecord
  <1> HIDE DEF record
  <1> QED BY <1>1, <1>3, OneQuiet

\* Agents neither start nor end a build.
LEMMA AgentIsQuiet ==
    ASSUME ControlInv, NEW t \in Tasks, AgentStep(t)
    PROVE  Quiet
  <1>0. Control(task[t])
    BY DEF ControlInv
  <1>1. CASE Plan(t)
    <2>1. task[t].op # "generate" /\ ~Builder(t) /\ active' = active
      BY <1>0, <1>1 DEF Plan, Control, BuildControl, Builder
    <2>2. CASE PlannerAsks(t)
      BY <2>1, <2>2, PursueIsQuiet DEF PlannerAsks
    <2>3. CASE PlannerSettles(t)
      BY <2>1, <2>3, PursueIsQuiet DEF PlannerSettles
    <2>4. CASE PlannerFails(t)
      BY <2>1, <2>4, GotoIsQuiet DEF PlannerFails
    <2> QED BY <1>1, <2>2, <2>3, <2>4 DEF Plan
  <1>2. CASE Build(t) \/ Review(t)
    <2>1. task[t].op = "generate" /\ Builder(t) /\ active' = active
      BY <1>0, <1>2 DEF Build, Review, Control, CallControl, Builder
    <2>2. PICK path, pc, fallback : Pursue(t, path, pc, fallback)
      BY <1>2 DEF Build, Review
    <2> QED BY <2>1, <2>2, PursueIsQuiet
  <1> QED BY <1>1, <1>2 DEF AgentStep

\* Of the other steps only Admit and Release do.
LEMMA OwnStepShape ==
    ASSUME ControlInv, NEW t \in Tasks, OwnStep(t)
    PROVE  Quiet \/ Admitted(t) \/ Released(t)
  <1>0. task[t] \in TaskRecord /\ Control(task[t])
    BY DEF ControlInv, TypeOK
  <1>1. CASE CheckTransition(t)
    <2>1. (Builder(t) <=> task[t].op = "generate") /\ active' = active
      BY <1>1 DEF CheckTransition, Builder
    <2>2. CASE Goto(t, "write")
      BY <2>1, <2>2, GotoIsQuiet
    <2>3. CASE Refused(t)
      <3>1. CASE task[t].fallback # None
        BY <2>1, <2>3, <3>1, PursueIsQuiet DEF Refused
      <3>2. CASE task[t].fallback = None
        BY <2>1, <2>3, <3>2, GotoIsQuiet DEF Refused
      <3> QED BY <3>1, <3>2
    <2> QED BY <1>1, <2>2, <2>3 DEF CheckTransition
  <1>2. CASE WriteState(t)
    <2> DEFINE record == [task[t] EXCEPT
                            !.path = Tail(@),
                            !.pc = IF Len(task[t].path) > 1 THEN "check" ELSE task[t].next]
    <2>1. (Builder(t) <=> task[t].op = "generate") /\ active' = active
          /\ task' = [task EXCEPT ![t] = record]
      BY <1>2 DEF WriteState, Builder
    <2>2. record.op = task[t].op /\ record.job = task[t].job
      BY <1>0 DEF TaskRecord
    <2>3. task[t].op = "generate" => record.pc \in {"check", "build", "review", "release"}
      BY <1>0, <1>2 DEF WriteState, TaskRecord, Control, BuildControl, BuildRoute, Reaching
    <2> HIDE DEF record
    <2> QED BY <2>1, <2>2, <2>3, OneQuiet
  <1>3. CASE SaveAnswers(t)
    <2>1. task[t].op # "generate" /\ ~Builder(t) /\ active' = active
      BY <1>0, <1>3 DEF SaveAnswers, Control, BuildControl, Builder
    <2> QED BY <1>3, <2>1, GotoIsQuiet DEF SaveAnswers
  <1>4. CASE Respond(t)
    <2>1. task[t].op # "generate" /\ ~Builder(t) /\ active' = active
      BY <1>0, <1>4 DEF Respond, Control, BuildControl, Builder
    <2>2. CASE StateOf(t) = "READY_TO_GENERATE"
      <3> DEFINE record == [Begin(t, "generate", task[t].job) EXCEPT !.pc = "admit"]
      <3>1. task' = [task EXCEPT ![t] = record] /\ record.pc = "admit"
        BY <1>4, <2>2 DEF Respond, Begin, Blank
      <3> HIDE DEF record
      <3> QED BY <2>1, <3>1, OneQuiet
    <2>3. CASE StateOf(t) # "READY_TO_GENERATE"
      <3>1. Goto(t, "done")
        BY <1>4, <2>3 DEF Respond, Goto
      <3> QED BY <2>1, <3>1, GotoIsQuiet
    <2> QED BY <2>2, <2>3
  <1>5. CASE Admit(t)
    <2>1. task[t].op = "generate" /\ ~Builder(t) /\ task[t].job \in Jobs
      BY <1>0, <1>5 DEF Admit, Control, CallControl, Builder
    <2>2. CASE Admissible(task[t].job)
      <3>1. Goto(t, "load") /\ active' = active \cup {task[t].job}
        BY <1>5, <2>2 DEF Admit
      <3>2. task'[t].pc = "load" /\ task'[t].op = "generate" /\ task'[t].job = task[t].job
            /\ \A u \in Tasks \ {t} : task'[u] = task[u]
        BY <2>1, <3>1 DEF Goto, ControlInv, TypeOK, TaskRecord
      <3>3. Builder(t)' /\ \A u \in Tasks \ {t} : SameBuild(u)
        BY <3>2 DEF Builder, SameBuild
      <3> QED BY <2>1, <2>2, <3>1, <3>2, <3>3 DEF Admitted
    <2>3. CASE ~Admissible(task[t].job)
      BY <1>5, <2>1, <2>3, GotoIsQuiet DEF Admit
    <2> QED BY <2>2, <2>3
  <1>6. CASE Load(t)
    <2>1. task[t].op = "generate" /\ Builder(t) /\ active' = active
      BY <1>0, <1>6 DEF Load, Control, CallControl, Builder
    <2>2. CASE StateOf(t) = "READY_TO_GENERATE"
      <3> DEFINE record == [Through(task[t], <<"GENERATING">>, "build", None) EXCEPT
                              !.copy = jobs[task[t].job].brief]
      <3>1. task' = [task EXCEPT ![t] = record]
        BY <1>6, <2>2 DEF Load
      <3>2. record.pc = "check" /\ record.op = task[t].op /\ record.job = task[t].job
        BY <1>0 DEF Through, TaskRecord
      <3> HIDE DEF record
      <3> QED BY <2>1, <3>1, <3>2, OneQuiet
    <2>3. CASE StateOf(t) # "READY_TO_GENERATE"
      <3>1. Goto(t, "release")
        BY <1>6, <2>3 DEF Load, Goto
      <3> QED BY <2>1, <3>1, GotoIsQuiet
    <2> QED BY <2>2, <2>3
  <1>7. CASE Release(t)
    <2>1. task[t].op = "generate" /\ Builder(t) /\ active' = active \ {task[t].job}
      BY <1>0, <1>7 DEF Release, Control, CallControl, Builder
    <2>2. task'[t].pc = "done" /\ \A u \in Tasks \ {t} : task'[u] = task[u]
      BY <1>7 DEF Release, Goto, ControlInv, TypeOK, TaskRecord
    <2>3. ~Builder(t)' /\ \A u \in Tasks \ {t} : SameBuild(u)
      BY <2>2 DEF Builder, SameBuild
    <2> QED BY <2>1, <2>3 DEF Released
  <1>8. CASE Publish(t)
    <2>1. task[t].op # "generate" /\ ~Builder(t) /\ active' = active
      BY <1>0, <1>8 DEF Publish, Control, BuildControl, Builder
    <2>2. PICK path, pc, fallback : Pursue(t, path, pc, fallback)
      BY <1>8 DEF Publish, PushSucceeds, PushFails
    <2> QED BY <2>1, <2>2, PursueIsQuiet
  <1> QED BY <1>1, <1>2, <1>3, <1>4, <1>5, <1>6, <1>7, <1>8 DEF OwnStep

\* Every step has one of the four shapes.
LEMMA StepShape ==
    ASSUME ControlInv, [Next]_vars
    PROVE  Quiet \/ Stopped \/ \E t \in Tasks : Admitted(t) \/ Released(t)
  <1>1. ASSUME NEW t \in Tasks, NEW j \in Jobs, Call(t, j) PROVE Quiet
    BY <1>1, CallIsQuiet
  <1>2. ASSUME NEW t \in Tasks, AgentStep(t) PROVE Quiet
    BY <1>2, AgentIsQuiet
  <1>3. ASSUME NEW t \in Tasks, OwnStep(t) PROVE Quiet \/ Admitted(t) \/ Released(t)
    BY <1>3, OwnStepShape
  <1>4. CASE Restart
    <2>1. \A u \in Tasks : task'[u].pc \in {"idle", "done"}
      BY <1>4 DEF Restart, ControlInv, TypeOK, TaskRecord
    <2> QED BY <1>4, <2>1 DEF Restart, Stopped, Builder
  <1>5. CASE UNCHANGED vars
    BY <1>5 DEF vars, Quiet, SameBuild, Builder
  <1> QED BY <1>1, <1>2, <1>3, <1>4, <1>5 DEF Next

\* No slot is taken at first.
LEMMA InitSlots == Init => SlotInv
  BY FS_EmptySet DEF Init, Blank, SlotInv, SlotsExact, Builder, None

\* The shapes keep _active_jobs exact and exclusive.
LEMMA NextSlots == ControlInv /\ SlotInv /\ [Next]_vars => SlotInv'
  <1> SUFFICES ASSUME ControlInv, SlotInv, [Next]_vars PROVE SlotInv'
    OBVIOUS
  <1>1. CASE Quiet
    BY <1>1 DEF Quiet, SameBuild, SlotInv, SlotsExact
  <1>2. ASSUME NEW t \in Tasks, Admitted(t) PROVE SlotInv'
    <2>1. IsFiniteSet(active')
      BY <1>2, FS_AddElement DEF Admitted, SlotInv
    <2>2. \A u \in Tasks : Builder(u) => task[u].job # task[t].job
      BY <1>2 DEF Admitted, Admissible, SlotInv, SlotsExact
    <2>3. SlotsExact'
      BY <1>2 DEF Admitted, SameBuild, SlotInv, SlotsExact
    <2> QED BY <1>2, <2>1, <2>2, <2>3 DEF Admitted, SameBuild, SlotInv
  <1>3. ASSUME NEW t \in Tasks, Released(t) PROVE SlotInv'
    <2>1. IsFiniteSet(active')
      BY <1>3, FS_RemoveElement DEF Released, SlotInv
    <2>2. SlotsExact'
      BY <1>3 DEF Released, SameBuild, SlotInv, SlotsExact
    <2> QED BY <1>3, <2>1, <2>2 DEF Released, SameBuild, SlotInv
  <1>4. CASE Stopped
    BY <1>4, FS_EmptySet DEF Stopped, SlotInv, SlotsExact
  <1> QED BY <1>1, <1>2, <1>3, <1>4, StepShape

\* Slots are exact and exclusive in every reachable state.
THEOREM SlotsExclusive == Spec => []SlotInv
  BY InitSlots, NextSlots, ControlKept, PTL DEF Spec

\* No refused, failed or cancelled build uses up capacity (SlotsExact).
THEOREM NoSlotIsLost == Spec => []SlotsExact
  <1>1. SlotInv => SlotsExact
    BY DEF SlotInv
  <1> QED BY <1>1, SlotsExclusive, PTL

Building == {[task |-> t, job |-> task[t].job] : t \in {u \in Tasks : Builder(u)}}

\* There are at most as many builds as entries in _active_jobs.
LEMMA BuildsAreCounted ==
    ASSUME SlotInv
    PROVE  IsFiniteSet(Building) /\ Cardinality(Building) <= Cardinality(active)
  <1> DEFINE f == [build \in Building |-> build.job]
  <1>1. f \in [Building -> active]
    BY DEF SlotInv, SlotsExact, Building
  <1>2. \A a, b \in Building : f[a] = f[b] => a = b
    BY DEF SlotInv, Building
  <1>3. f \in Injection(Building, active)
    BY <1>1, <1>2 DEF Injection, IsInjective
  <1>4. IsFiniteSet(active)
    BY DEF SlotInv
  <1> HIDE DEF f
  <1> QED BY <1>3, <1>4, FS_Injection

\* An admitted task begins a build that BuildSlots allows.
LEMMA AdmittedBegins ==
    ASSUME ControlInv, SlotInv, NEW t \in Tasks, Admitted(t)
    PROVE  Slots!Next
  <1>1. PICK mine \in Slots!Build : mine = [task |-> t, job |-> task[t].job]
    BY DEF Admitted, Slots!Build
  <1>2. \A other \in Building : other.job # mine.job /\ other.task # mine.task
    BY <1>1 DEF Admitted, Admissible, SlotInv, SlotsExact, Building
  <1>3. Cardinality(Building) < MaxConcurrent
    <2>1. Cardinality(active) \in Nat /\ Cardinality(Building) \in Nat
      BY BuildsAreCounted, FS_CardinalityType DEF SlotInv
    <2>2. Cardinality(Building) <= Cardinality(active) /\ Cardinality(active) < MaxConcurrent
      BY BuildsAreCounted DEF Admitted, Admissible
    <2> QED BY <2>1, <2>2, BoundAssumption
  <1>4. Building' = Building \cup {mine}
    BY <1>1 DEF Admitted, SameBuild, Building
  <1>5. Slots!Cardinality(Building) = Cardinality(Building)
    BY DEF Slots!Cardinality, Cardinality
  <1>6. Slots!Begin(mine)
    BY <1>2, <1>3, <1>4, <1>5 DEF Slots!Begin, Building
  <1> QED BY <1>6 DEF Slots!Next

\* A release ends one.
LEMMA ReleasedEnds ==
    ASSUME ControlInv, SlotInv, NEW t \in Tasks, Released(t)
    PROVE  Slots!Next
  <1>1. task[t].job \in Jobs
    BY DEF Released, Builder, ControlInv, Control
  <1>2. PICK mine \in Slots!Build : mine = [task |-> t, job |-> task[t].job]
    BY <1>1 DEF Slots!Build
  <1>3. mine \in Building
    BY <1>2 DEF Released, Building
  <1>4. Building' = Building \ {mine}
    BY <1>2 DEF Released, SameBuild, Building
  <1>5. Slots!End(mine)
    BY <1>3, <1>4 DEF Slots!End, Building
  <1> QED BY <1>5 DEF Slots!Next

\* generate() keeps the promise of BuildSlots (SlotsKept): never two builds of
\* a job, never more than max_concurrent, for any number of tasks.
THEOREM GenerateKeepsSlots == Spec => SlotsKept
  <1>1. Init => Slots!Init
    BY DEF Init, Blank, Slots!Init, Builder, None
  <1>2. ControlInv /\ SlotInv /\ [Next]_vars => [Slots!Next]_Building
    <2> SUFFICES ASSUME ControlInv, SlotInv, [Next]_vars PROVE [Slots!Next]_Building
      OBVIOUS
    <2>1. CASE Quiet
      BY <2>1 DEF Quiet, SameBuild, Building
    <2>2. ASSUME NEW t \in Tasks, Admitted(t) \/ Released(t) PROVE Slots!Next
      BY <2>2, AdmittedBegins, ReleasedEnds
    <2>3. CASE Stopped
      BY <2>3 DEF Stopped, Slots!Next, Slots!Stop
    <2> QED BY <2>1, <2>2, <2>3, StepShape
  <1> QED BY <1>1, <1>2, ControlKept, SlotsExclusive, PTL DEF Spec, SlotsKept, Slots!Spec, Building

-----------------------------------------------------------------------------
\* Layer 3: what VERIFIED and PUSHED stand for.

Passed(row) == row.report = "passed"
OnGitHub(row) == row.published /\ row.repositories > 0

\* A task about to write VERIFIED or PUSHED has earned it.
Earned(t) ==
    Reaching(task[t]) =>
        /\ Head(task[t].path) = "VERIFIED" => Passed(jobs[task[t].job])
        /\ Head(task[t].path) = "PUSHED" => OnGitHub(jobs[task[t].job])

\* While its builder waits for the review a job does not read VERIFIED, so the
\* report about to be stored contradicts nobody.
Unjudged(t) == task[t].pc = "review" => jobs[task[t].job].state # "VERIFIED"

LabelInv ==
    /\ VerifiedPassed
    /\ PushedIsPublished
    /\ \A t \in Tasks : Earned(t) /\ Unjudged(t)

\* No job exists at first.
LEMMA InitLabels == Init => LabelInv
  BY DEF Init, Blank, NoRow, None, LabelInv, VerifiedPassed, PushedIsPublished, Earned,
         Unjudged, Reaching

\* A step of one task that stores no report, writes neither label, and takes
\* nothing off GitHub.
LEMMA Unlabelled ==
    ASSUME ControlInv, LabelInv, NEW t \in Tasks,
           \A u \in Tasks \ {t} : task'[u] = task[u],
           \A j \in Jobs :
              /\ jobs'[j].state = jobs[j].state \/ jobs'[j].state \notin {"VERIFIED", "PUSHED"}
              /\ jobs'[j].report = jobs[j].report
              /\ OnGitHub(jobs[j]) => OnGitHub(jobs'[j]),
           task'[t].pc # "review",
           Earned(t)'
    PROVE  LabelInv'
  <1>1. VerifiedPassed' /\ PushedIsPublished'
    BY DEF LabelInv, VerifiedPassed, PushedIsPublished, OnGitHub
  <1>2. ASSUME NEW u \in Tasks \ {t} PROVE Earned(u)' /\ Unjudged(u)'
    <2>1. task[u].pc # "idle" => task[u].job \in Jobs
      BY DEF ControlInv, Control
    <2>2. Reaching(task[u]) \/ task[u].pc = "review" => task[u].job \in Jobs
      BY <2>1 DEF Reaching
    <2>3. Earned(u) /\ Unjudged(u) /\ task'[u] = task[u]
      BY DEF LabelInv
    <2>4. Earned(u)'
      BY <2>2, <2>3 DEF Earned, Passed
    <2>5. Unjudged(u)'
      BY <2>2, <2>3 DEF Unjudged
    <2> QED BY <2>4, <2>5
  <1>3. Unjudged(t)'
    BY DEF Unjudged
  <1> QED BY <1>1, <1>2, <1>3 DEF LabelInv

\* An update of one state leaves reports and repositories alone.
LEMMA StateWritten ==
    ASSUME jobs \in [Jobs -> JobRow], NEW j \in Jobs, NEW v,
           jobs' = [jobs EXCEPT ![j].state = v]
    PROVE  \A k \in Jobs :
              /\ jobs'[k].state = IF k = j THEN v ELSE jobs[k].state
              /\ jobs'[k].report = jobs[k].report
              /\ OnGitHub(jobs[k]) => OnGitHub(jobs'[k])
  BY DEF JobRow, OnGitHub

\* Calls.
LEMMA CallKeepsLabels ==
    ASSUME ControlInv, LabelInv, NEW t \in Tasks, NEW j \in Jobs, Call(t, j)
    PROVE  LabelInv'
  <1>0. task \in [Tasks -> TaskRecord] /\ jobs \in [Jobs -> JobRow]
    BY DEF ControlInv, TypeOK
  <1> DEFINE rows == \A k \in Jobs :
                /\ jobs'[k].state = jobs[k].state \/ jobs'[k].state \notin {"VERIFIED", "PUSHED"}
                /\ jobs'[k].report = jobs[k].report
                /\ OnGitHub(jobs[k]) => OnGitHub(jobs'[k])
             others == \A u \in Tasks \ {t} : task'[u] = task[u]
             mine == /\ task'[t].pc # "review"
                     /\ Reaching(task'[t]) => Head(task'[t].path) \notin {"VERIFIED", "PUSHED"}
  <1>1. rows
    <2>1. CASE CreateJob(t, j)
      <3>1. jobs' = [jobs EXCEPT ![j].state = "CREATED"]
        BY <2>1 DEF CreateJob
      <3>2. \A k \in Jobs :
              /\ jobs'[k].state = IF k = j THEN "CREATED" ELSE jobs[k].state
              /\ jobs'[k].report = jobs[k].report
              /\ OnGitHub(jobs[k]) => OnGitHub(jobs'[k])
        BY <1>0, <3>1, StateWritten
      <3> QED BY <3>2
    <2>2. CASE ~CreateJob(t, j)
      <3>1. jobs' = jobs
        BY <2>2 DEF Call, SubmitAnswers, RequestBuild, PushDecision, PushToGitHub, Cancel
      <3> QED BY <3>1 DEF OnGitHub
    <2> QED BY <2>1, <2>2
  <1>2. others /\ mine
    <2>1. CASE CreateJob(t, j)
      BY <1>0, <2>1 DEF CreateJob, Through, Begin, Blank, Reaching
    <2>2. CASE SubmitAnswers(t, j)
      BY <1>0, <2>2 DEF SubmitAnswers, Begin, Blank, Reaching
    <2>3. CASE RequestBuild(t, j)
      BY <1>0, <2>3 DEF RequestBuild, Begin, Blank, Reaching
    <2>4. CASE PushDecision(t, j)
      BY <1>0, <2>4 DEF PushDecision, Through, Begin, Blank, Reaching
    <2>5. CASE PushToGitHub(t, j)
      BY <1>0, <2>5 DEF PushToGitHub, Through, Begin, Blank, Reaching
    <2>6. CASE Cancel(t, j)
      BY <1>0, <2>6 DEF Cancel, Through, Begin, Blank, Reaching
    <2> QED BY <2>1, <2>2, <2>3, <2>4, <2>5, <2>6 DEF Call
  <1>3. Earned(t)'
    BY <1>2 DEF Earned
  <1> HIDE DEF rows, others, mine
  <1> QED BY <1>1, <1>2, <1>3, Unlabelled DEF rows, others, mine

\* A task that sends itself through other states than the two labels.
LEMMA PursueUnlabelled ==
    ASSUME ControlInv, LabelInv, NEW t \in Tasks, NEW path, NEW pc, NEW fallback,
           Pursue(t, path, pc, fallback),
           Head(path) \notin {"VERIFIED", "PUSHED"},
           \A j \in Jobs :
              /\ jobs'[j].state = jobs[j].state
              /\ jobs'[j].report = jobs[j].report
              /\ OnGitHub(jobs[j]) => OnGitHub(jobs'[j])
    PROVE  LabelInv'
  <1>1. task \in [Tasks -> TaskRecord]
    BY DEF ControlInv, TypeOK
  <1>2. /\ \A u \in Tasks \ {t} : task'[u] = task[u]
        /\ task'[t].pc = "check" /\ task'[t].path = path
    BY <1>1 DEF Pursue, Through, TaskRecord
  <1>3. Earned(t)'
    BY <1>2 DEF Earned
  <1> QED BY <1>2, <1>3, Unlabelled

\* A task that goes on to a step other than a write or the review.
LEMMA GotoUnlabelled ==
    ASSUME ControlInv, LabelInv, NEW t \in Tasks,
           NEW pc \in Pc \ {"check", "write", "review"},
           Goto(t, pc),
           \A j \in Jobs :
              /\ jobs'[j].state = jobs[j].state
              /\ jobs'[j].report = jobs[j].report
              /\ OnGitHub(jobs[j]) => OnGitHub(jobs'[j])
    PROVE  LabelInv'
  <1>1. task \in [Tasks -> TaskRecord]
    BY DEF ControlInv, TypeOK
  <1>2. (\A u \in Tasks \ {t} : task'[u] = task[u]) /\ task'[t].pc = pc
    BY <1>1 DEF Goto, TaskRecord
  <1>3. Earned(t)'
    BY <1>2 DEF Earned, Reaching
  <1> QED BY <1>2, <1>3, Unlabelled

\* Storing a brief, answers or files touches no label.
LEMMA OtherColumns ==
    ASSUME jobs \in [Jobs -> JobRow], NEW i \in Jobs, NEW v,
           \/ jobs' = jobs
           \/ jobs' = [jobs EXCEPT ![i].answers = v]
           \/ jobs' = [jobs EXCEPT ![i].brief = v]
           \/ jobs' = [jobs EXCEPT ![i].built = v]
    PROVE  \A j \in Jobs :
              /\ jobs'[j].state = jobs[j].state
              /\ jobs'[j].report = jobs[j].report
              /\ OnGitHub(jobs[j]) => OnGitHub(jobs'[j])
  BY DEF JobRow, OnGitHub

\* The agents: only a review bears on a label.
LEMMA AgentKeepsLabels ==
    ASSUME ControlInv, SlotInv, LabelInv, NEW t \in Tasks, AgentStep(t)
    PROVE  LabelInv'
  <1> DEFINE i == task[t].job
  <1>0. jobs \in [Jobs -> JobRow] /\ task \in [Tasks -> TaskRecord] /\ Control(task[t])
    BY DEF ControlInv, TypeOK
  <1>1. CASE Plan(t)
    <2>0. i \in Jobs
      BY <1>0, <1>1 DEF Plan, Control
    <2>1. PICK v : jobs' = jobs \/ jobs' = [jobs EXCEPT ![i].brief = v]
      BY <1>1 DEF Plan, PlannerAsks, PlannerSettles, PlannerFails
    <2>2. \A j \in Jobs : /\ jobs'[j].state = jobs[j].state
                          /\ jobs'[j].report = jobs[j].report
                          /\ OnGitHub(jobs[j]) => OnGitHub(jobs'[j])
      BY <1>0, <2>0, <2>1, OtherColumns
    <2>3. CASE Goto(t, "done")
      BY <2>2, <2>3, GotoUnlabelled DEF Pc
    <2>4. CASE Pursue(t, <<"AWAITING_ANSWERS">>, "respond", None)
      BY <2>2, <2>4, PursueUnlabelled
    <2>5. CASE Pursue(t, <<"ARCHITECTURE_PROPOSED", "AWAITING_ANSWERS">>, "respond", None)
      BY <2>2, <2>5, PursueUnlabelled
    <2>6. CASE Pursue(t, <<"READY_TO_GENERATE">>, "respond", None)
      BY <2>2, <2>6, PursueUnlabelled
    <2> QED BY <1>1, <2>3, <2>4, <2>5, <2>6 DEF Plan, PlannerAsks, PlannerSettles, PlannerFails
  <1>2. CASE Build(t)
    <2>0. i \in Jobs
      BY <1>0, <1>2 DEF Build, Control
    <2>1. PICK v : jobs' = jobs \/ jobs' = [jobs EXCEPT ![i].built = v]
      BY <1>2 DEF Build
    <2>2. \A j \in Jobs : /\ jobs'[j].state = jobs[j].state
                          /\ jobs'[j].report = jobs[j].report
                          /\ OnGitHub(jobs[j]) => OnGitHub(jobs'[j])
      BY <1>0, <2>0, <2>1, OtherColumns
    <2>3. CASE Pursue(t, <<"REVIEWING">>, "review", None)
      BY <2>2, <2>3, PursueUnlabelled
    <2>4. CASE Pursue(t, <<"FAILED">>, "release", None)
      BY <2>2, <2>4, PursueUnlabelled
    <2> QED BY <1>2, <2>3, <2>4 DEF Build
  <1>3. CASE Review(t)
    <2>0. /\ i \in Jobs /\ Builder(t) /\ task[t].pc = "review"
          /\ jobs[i].state # "VERIFIED"
      BY <1>0, <1>3 DEF Review, Control, CallControl, Builder, LabelInv, Unjudged
    <2>1. /\ \A k \in Jobs : k # i => jobs'[k] = jobs[k]
          /\ jobs'[i].state = jobs[i].state
          /\ OnGitHub(jobs'[i]) = OnGitHub(jobs[i])
      <3>1. (\E v : jobs' = [jobs EXCEPT ![i].report = v]) \/ jobs' = jobs
        BY <1>3 DEF Review
      <3> HIDE DEF i
      <3> QED BY <1>0, <2>0, <3>1 DEF JobRow, OnGitHub
    <2>2. /\ \A u \in Tasks \ {t} : task'[u] = task[u]
          /\ task'[t].pc = "check" /\ task'[t].job = i
          /\ \/ task'[t].path = <<"VERIFIED">> /\ jobs'[i].report = "passed"
             \/ task'[t].path = <<"REVIEW_FAILED">>
      <3>1. CASE jobs' = [jobs EXCEPT ![i].report = "passed"]
                 /\ Pursue(t, <<"VERIFIED">>, "release", "REVIEW_FAILED")
        BY <1>0, <2>0, <3>1 DEF Pursue, Through, TaskRecord, JobRow
      <3>2. ASSUME NEW fallback, Pursue(t, <<"REVIEW_FAILED">>, "release", fallback)
            PROVE  /\ \A u \in Tasks \ {t} : task'[u] = task[u]
                   /\ task'[t].pc = "check" /\ task'[t].job = i
                   /\ task'[t].path = <<"REVIEW_FAILED">>
        BY <1>0, <3>2 DEF Pursue, Through, TaskRecord
      <3> QED BY <1>3, <3>1, <3>2 DEF Review
    <2>3. VerifiedPassed'
      BY <2>0, <2>1 DEF LabelInv, VerifiedPassed
    <2>4. PushedIsPublished'
      <3>1. \A k \in Jobs : /\ jobs'[k].state = jobs[k].state
                             /\ OnGitHub(jobs'[k]) = OnGitHub(jobs[k])
        BY <2>1
      <3> QED BY <3>1 DEF LabelInv, PushedIsPublished, OnGitHub
    <2>5. Earned(t)' /\ Unjudged(t)'
      BY <2>0, <2>2 DEF Earned, Unjudged, Passed
    <2>6. ASSUME NEW u \in Tasks \ {t} PROVE Earned(u)' /\ Unjudged(u)'
      <3>1. Earned(u) /\ Unjudged(u) /\ task'[u] = task[u] /\ Control(task[u])
        BY <2>2 DEF LabelInv, ControlInv
      <3>2. Unjudged(u)'
        BY <2>1, <3>1 DEF Unjudged, Control
      <3>3. CASE Reaching(task[u]) /\ Head(task[u].path) = "VERIFIED"
        <4>1. Builder(u) /\ task[u].job \in Jobs
          BY <3>1, <3>3 DEF Control, CallControl, CallRoute, Modest, Reaching, Builder
        <4>2. task[u].job # i
          BY <2>0, <4>1 DEF SlotInv
        <4> QED BY <2>1, <3>1, <3>2, <3>3, <4>1, <4>2 DEF Earned, Passed
      <3>4. CASE Reaching(task[u]) /\ Head(task[u].path) = "PUSHED"
        <4>1. task[u].job \in Jobs
          BY <3>1, <3>4 DEF Control, Reaching
        <4>2. OnGitHub(jobs'[task[u].job]) = OnGitHub(jobs[task[u].job])
          BY <2>1, <4>1
        <4> QED BY <3>1, <3>2, <3>4, <4>2 DEF Earned
      <3>5. CASE ~Reaching(task[u]) \/ Head(task[u].path) \notin {"VERIFIED", "PUSHED"}
        BY <3>1, <3>2, <3>5 DEF Earned
      <3> QED BY <3>3, <3>4, <3>5
    <2> QED BY <2>3, <2>4, <2>5, <2>6 DEF LabelInv
  <1> QED BY <1>1, <1>2, <1>3 DEF AgentStep

\* _update_state: a label is written only by the task that has earned it.
LEMMA UpdateKeepsLabels ==
    ASSUME ControlInv, SlotInv, LabelInv, NEW t \in Tasks,
           CheckTransition(t) \/ WriteState(t)
    PROVE  LabelInv'
  <1> DEFINE i == task[t].job
             s == Head(task[t].path)
  <1>0. /\ jobs \in [Jobs -> JobRow] /\ task \in [Tasks -> TaskRecord]
        /\ Control(task[t]) /\ Earned(t) /\ Reaching(task[t]) /\ i \in Jobs
    BY DEF ControlInv, TypeOK, LabelInv, CheckTransition, WriteState, Reaching, Control
  <1>1. CASE CheckTransition(t)
    <2>0. \A j \in Jobs : /\ jobs'[j].state = jobs[j].state
                          /\ jobs'[j].report = jobs[j].report
                          /\ OnGitHub(jobs[j]) => OnGitHub(jobs'[j])
      BY <1>1 DEF CheckTransition
    <2>1. CASE Goto(t, "write")
      <3>1. /\ \A u \in Tasks \ {t} : task'[u] = task[u]
            /\ task'[t].pc = "write" /\ task'[t].job = i /\ task'[t].path = task[t].path
        BY <1>0, <2>1 DEF Goto, TaskRecord
      <3>2. jobs' = jobs
        BY <1>1 DEF CheckTransition
      <3>3. Earned(t)'
        BY <1>0, <3>1, <3>2 DEF Earned
      <3> QED BY <2>0, <3>1, <3>3, Unlabelled
    <2>2. CASE Refused(t)
      <3>1. CASE task[t].fallback # None
        <4>1. task[t].fallback \in {"REVIEW_FAILED", "PUSH_FAILED"}
          BY <1>0, <3>1 DEF Control, BuildControl, CallControl, BuildRoute, CallRoute
        <4>2. Pursue(t, <<task[t].fallback>>, task[t].next, None)
          BY <2>2, <3>1 DEF Refused
        <4>3. Head(<<task[t].fallback>>) \notin {"VERIFIED", "PUSHED"}
          BY <4>1
        <4> QED BY <2>0, <4>2, <4>3, PursueUnlabelled
      <3>2. CASE task[t].fallback = None
        BY <2>0, <2>2, <3>2, GotoUnlabelled DEF Refused, Pc
      <3> QED BY <3>1, <3>2
    <2> QED BY <1>1, <2>1, <2>2 DEF CheckTransition
  <1>2. CASE WriteState(t)
    <2>0. jobs' = [jobs EXCEPT ![i].state = s]
      BY <1>2 DEF WriteState
    <2>1. \A k \in Jobs : /\ jobs'[k].state = IF k = i THEN s ELSE jobs[k].state
                          /\ jobs'[k].report = jobs[k].report
                          /\ OnGitHub(jobs[k]) => OnGitHub(jobs'[k])
      BY <1>0, <2>0, StateWritten
    <2>2. /\ \A u \in Tasks \ {t} : task'[u] = task[u]
          /\ task'[t].pc = IF Len(task[t].path) > 1 THEN "check" ELSE task[t].next
          /\ task'[t].job = i /\ task'[t].path = Tail(task[t].path)
      BY <1>0, <1>2 DEF WriteState, TaskRecord
    <2>3. VerifiedPassed'
      <3>1. s = "VERIFIED" => Passed(jobs[i])
        BY <1>0 DEF Earned
      <3> HIDE DEF i, s
      <3> QED BY <2>1, <3>1 DEF LabelInv, VerifiedPassed, Passed
    <2>4. PushedIsPublished'
      <3>1. s = "PUSHED" => OnGitHub(jobs[i])
        BY <1>0 DEF Earned
      <3>2. \A k \in Jobs : jobs[k].state = "PUSHED" => OnGitHub(jobs[k])
        BY DEF LabelInv, PushedIsPublished, OnGitHub
      <3> HIDE DEF i, s
      <3>3. \A k \in Jobs : jobs'[k].state = "PUSHED" => OnGitHub(jobs'[k])
        BY <2>1, <3>1, <3>2
      <3> QED BY <3>3 DEF PushedIsPublished, OnGitHub
    <2>5. Earned(t)'
      <3>1. CASE Len(task[t].path) > 1
        <4>1. task[t].path \in Seq(Modest)
          <5>1. task[t].path \in Seq(Modest) \/ task[t].path = <<"PUSHED">> \/ Len(task[t].path) = 1
            BY <1>0 DEF Control, BuildControl, CallControl, BuildRoute, CallRoute
          <5>2. CASE task[t].path = <<"PUSHED">>
            BY <3>1, <5>2
          <5>3. CASE Len(task[t].path) = 1
            BY <3>1, <5>3
          <5> QED BY <5>1, <5>2, <5>3
        <4>2. Tail(task[t].path) \in Seq(Modest) /\ Tail(task[t].path) # <<>>
          BY <3>1, <4>1, RestOfPath
        <4>3. Head(Tail(task[t].path)) \in Modest
          BY <4>2
        <4> QED BY <2>2, <4>3 DEF Earned, Modest
      <3>2. CASE ~(Len(task[t].path) > 1)
        <4>1. task[t].next \notin {"check", "write"}
          BY <1>0 DEF Control, BuildControl, CallControl, BuildRoute, CallRoute
        <4> QED BY <2>2, <3>2, <4>1 DEF Earned, Reaching
      <3> QED BY <3>1, <3>2
    <2>6. Unjudged(t)'
      <3>1. CASE task'[t].pc = "review"
        <4>1. task[t].next = "review"
          BY <2>2, <3>1
        <4>2. task[t].path[1] = "REVIEWING" /\ task[t].path \in Seq(JobState) /\ Len(task[t].path) = 1
          BY <1>0, <4>1 DEF Control, BuildControl, CallControl, BuildRoute, CallRoute, TaskRecord
        <4>3. s = "REVIEWING"
          BY <4>2
        <4> QED BY <1>0, <2>1, <2>2, <4>3 DEF Unjudged
      <3>2. CASE task'[t].pc # "review"
        BY <3>2 DEF Unjudged
      <3> QED BY <3>1, <3>2
    <2>7. ASSUME NEW u \in Tasks \ {t} PROVE Earned(u)' /\ Unjudged(u)'
      <3>1. Earned(u) /\ Unjudged(u) /\ task'[u] = task[u] /\ Control(task[u])
        BY <2>2 DEF LabelInv, ControlInv
      <3>2. Reaching(task[u]) \/ task[u].pc = "review" => task[u].job \in Jobs
        BY <3>1 DEF Control, Reaching
      <3>3. Earned(u)'
        BY <2>1, <3>1, <3>2 DEF Earned, Passed
      <3>4. Unjudged(u)'
        <4>1. CASE task[u].pc = "review" /\ task[u].job = i
          <5>1. Builder(u)
            BY <3>1, <4>1 DEF Control, CallControl, Builder
          <5>2. ~Builder(t)
            BY <4>1, <5>1 DEF SlotInv
          <5>3. task[t].op # "generate"
            BY <1>0, <5>2 DEF Builder, Reaching
          <5>4. (task[t].path \in Seq(Modest) /\ task[t].path # <<>>) \/ task[t].path = <<"PUSHED">>
            BY <1>0, <5>3 DEF Control, CallControl, CallRoute
          <5>5. s # "VERIFIED"
            BY <5>4 DEF Modest
          <5> QED BY <1>0, <2>1, <3>1, <4>1, <5>5 DEF Unjudged
        <4>2. CASE task[u].pc = "review" /\ task[u].job # i
          BY <2>1, <3>1, <3>2, <4>2 DEF Unjudged
        <4>3. CASE task[u].pc # "review"
          BY <3>1, <4>3 DEF Unjudged
        <4> QED BY <4>1, <4>2, <4>3
      <3> QED BY <3>3, <3>4
    <2> QED BY <2>3, <2>4, <2>5, <2>6, <2>7 DEF LabelInv
  <1> QED BY <1>1, <1>2

\* What a task does alone, writes apart.
LEMMA OwnKeepsLabels ==
    ASSUME ControlInv, SlotInv, LabelInv, NEW t \in Tasks, OwnStep(t)
    PROVE  LabelInv'
  <1> DEFINE i == task[t].job
             rows == \A j \in Jobs : /\ jobs'[j].state = jobs[j].state
                                     /\ jobs'[j].report = jobs[j].report
                                     /\ OnGitHub(jobs[j]) => OnGitHub(jobs'[j])
  <1>0. /\ jobs \in [Jobs -> JobRow] /\ task \in [Tasks -> TaskRecord]
        /\ Control(task[t])
    BY DEF ControlInv, TypeOK
  <1>1. CASE CheckTransition(t) \/ WriteState(t)
    BY <1>1, UpdateKeepsLabels
  <1>2. CASE SaveAnswers(t)
    <2>1. i \in Jobs
      BY <1>0, <1>2 DEF SaveAnswers, Control
    <2>2. PICK v : jobs' = [jobs EXCEPT ![i].answers = v]
      BY <1>2 DEF SaveAnswers
    <2>3. rows
      BY <1>0, <2>1, <2>2, OtherColumns
    <2> QED BY <1>2, <2>3, GotoUnlabelled DEF SaveAnswers, Pc
  <1>3. CASE Respond(t) \/ Load(t)
    <2>1. jobs' = jobs
      BY <1>3 DEF Respond, Load
    <2>2. /\ \A u \in Tasks \ {t} : task'[u] = task[u]
          /\ \/ task'[t].pc \in {"admit", "release", "done"}
             \/ task'[t].pc = "check" /\ task'[t].path = <<"GENERATING">>
      <3>1. CASE Respond(t)
        BY <1>0, <3>1 DEF Respond, Begin, Blank, TaskRecord
      <3>2. CASE Load(t)
        BY <1>0, <3>2 DEF Load, Through, TaskRecord
      <3> QED BY <1>3, <3>1, <3>2
    <2>3. Earned(t)'
      BY <2>2 DEF Earned, Reaching
    <2> QED BY <2>1, <2>2, <2>3, Unlabelled
  <1>4. CASE Admit(t) \/ Release(t)
    <2>1. rows /\ \E pc \in {"load", "done"} : Goto(t, pc)
      BY <1>4 DEF Admit, Release
    <2> QED BY <2>1, GotoUnlabelled DEF Pc
  <1>5. CASE Publish(t)
    <2>0. i \in Jobs
      BY <1>0, <1>5 DEF Publish, Control
    <2>1. CASE PushSucceeds(t)
      <3>1. /\ \A k \in Jobs : k # i => jobs'[k] = jobs[k]
            /\ jobs'[i].state = jobs[i].state /\ jobs'[i].report = jobs[i].report
            /\ OnGitHub(jobs'[i])
        BY <1>0, <2>0, <2>1 DEF PushSucceeds, JobRow, OnGitHub
      <3>2. /\ \A u \in Tasks \ {t} : task'[u] = task[u]
            /\ task'[t].pc = "check" /\ task'[t].job = i /\ task'[t].path = <<"PUSHED">>
        BY <1>0, <2>1 DEF PushSucceeds, Pursue, Through, TaskRecord
      <3>3. Earned(t)'
        BY <3>1, <3>2 DEF Earned
      <3>4. rows
        BY <2>0, <3>1
      <3> QED BY <3>2, <3>3, <3>4, Unlabelled
    <2>2. CASE PushFails(t)
      <3>1. PICK n \in {0, 1}, reached \in BOOLEAN :
               jobs' = [jobs EXCEPT ![i].repositories = @ + n, ![i].published = @ \/ reached]
        BY <2>2 DEF PushFails
      <3>2. rows
        BY <1>0, <2>0, <3>1 DEF JobRow, OnGitHub
      <3>3. Pursue(t, <<"PUSH_FAILED">>, "done", None)
        BY <2>2 DEF PushFails
      <3> QED BY <3>2, <3>3, PursueUnlabelled
    <2> QED BY <1>5, <2>1, <2>2 DEF Publish
  <1> QED BY <1>1, <1>2, <1>3, <1>4, <1>5 DEF OwnStep

\* Every step keeps the labels earned.
LEMMA NextLabels == ControlInv /\ SlotInv /\ LabelInv /\ [Next]_vars => LabelInv'
  <1> SUFFICES ASSUME ControlInv, SlotInv, LabelInv, [Next]_vars PROVE LabelInv'
    OBVIOUS
  <1>1. ASSUME NEW t \in Tasks, NEW j \in Jobs, Call(t, j) PROVE LabelInv'
    BY <1>1, CallKeepsLabels
  <1>2. ASSUME NEW t \in Tasks, AgentStep(t) \/ OwnStep(t) PROVE LabelInv'
    BY <1>2, AgentKeepsLabels, OwnKeepsLabels
  <1>3. CASE Restart
    <2>1. jobs' = jobs
      BY <1>3 DEF Restart
    <2>2. \A t \in Tasks : task'[t].pc \in {"idle", "done"}
      BY <1>3 DEF Restart, ControlInv, TypeOK, TaskRecord
    <2> QED BY <2>1, <2>2 DEF LabelInv, VerifiedPassed, PushedIsPublished, Earned, Unjudged, Reaching
  <1>4. CASE UNCHANGED vars
    BY <1>4 DEF vars, LabelInv, VerifiedPassed, PushedIsPublished, Earned, Unjudged, Reaching, Passed, OnGitHub
  <1> QED BY <1>1, <1>2, <1>3, <1>4 DEF Next

\* A label is earned in every reachable state.
THEOREM LabelsEarned == Spec => []LabelInv
  BY InitLabels, NextLabels, ControlKept, SlotsExclusive, PTL DEF Spec

\* A job reads VERIFIED only if its last stored review passed (VerifiedPassed),
\* for any number of overlapping calls, cancels and restarts.
THEOREM VerifiedIsHonest == Spec => []VerifiedPassed
  <1>1. LabelInv => VerifiedPassed
    BY DEF LabelInv
  <1> QED BY <1>1, LabelsEarned, PTL

\* A job that reads PUSHED is on GitHub (PushedIsPublished).
THEOREM PushedIsHonest == Spec => []PushedIsPublished
  <1>1. LabelInv => PushedIsPublished
    BY DEF LabelInv
  <1> QED BY <1>1, LabelsEarned, PTL

-----------------------------------------------------------------------------
\* Layer 4: one call at a time.  A job passes from one task to the next, and
\* every transition it makes is of the table.

\* A task that works on its job, and on its way to pc through the states of path.
Acting(record) == record.pc \in {"save", "plan", "check", "write", "build", "review", "publish"}

Going(record, path, pc) == Reaching(record) /\ record.path = path /\ record.next = pc

\* Where a task that acts finds its job, and what it has made of it.
CreateStage(record, row) ==
    /\ row.answers = {} /\ record.copy = {}
    /\ \/ Going(record, <<"ARCHITECTURE_PROPOSED">>, "plan") /\ row.state = "CREATED"
       \/ record.pc = "plan" /\ row.state = "ARCHITECTURE_PROPOSED"
       \/ /\ Going(record, <<"AWAITING_ANSWERS">>, "respond")
          /\ row.state = "ARCHITECTURE_PROPOSED"
       \/ /\ Going(record, <<"READY_TO_GENERATE">>, "respond")
          /\ row.state = "ARCHITECTURE_PROPOSED" /\ row.brief = row.answers

AnswerStage(record, row) ==
    \/ record.pc = "save" /\ row.state = "AWAITING_ANSWERS"
    \/ record.pc = "plan" /\ row.state = "AWAITING_ANSWERS" /\ record.copy = row.answers
    \/ /\ Going(record, <<"READY_TO_GENERATE">>, "respond")
       /\ row.state = "AWAITING_ANSWERS" /\ row.brief = row.answers
    \/ /\ Going(record, <<"ARCHITECTURE_PROPOSED", "AWAITING_ANSWERS">>, "respond")
       /\ row.state = "AWAITING_ANSWERS"
    \/ /\ Going(record, <<"AWAITING_ANSWERS">>, "respond")
       /\ row.state = "ARCHITECTURE_PROPOSED"

BuildStage(record, row) ==
    \/ /\ Going(record, <<"GENERATING">>, "build")
       /\ row.state = "READY_TO_GENERATE" /\ record.copy = row.answers
    \/ record.pc = "build" /\ row.state = "GENERATING" /\ record.copy = row.answers
    \/ /\ Going(record, <<"REVIEWING">>, "review")
       /\ row.state = "GENERATING" /\ row.built = row.answers
    \/ Going(record, <<"FAILED">>, "release") /\ row.state = "GENERATING"
    \/ record.pc = "review" /\ row.state = "REVIEWING"
    \/ /\ Going(record, <<"VERIFIED">>, "release")
       /\ row.state = "REVIEWING" /\ row.report = "passed"
    \/ Going(record, <<"REVIEW_FAILED">>, "release") /\ row.state = "REVIEWING"

DecideStage(record, row) ==
    \E choice \in {"AWAITING_GITHUB_TOKEN", "CANCELLED"} :
        \/ /\ Going(record, <<"AWAITING_PUSH_DECISION", choice>>, "done")
           /\ row.state = "VERIFIED"
        \/ Going(record, <<choice>>, "done") /\ row.state = "AWAITING_PUSH_DECISION"

\* No push has left anything on GitHub yet.
Unpushed(row) == row.repositories = 0 /\ ~row.published

PushStage(record, row) ==
    \/ Going(record, <<"PUSHING">>, "publish") /\ row.state = "AWAITING_GITHUB_TOKEN"
    \/ record.pc = "publish" /\ row.state = "PUSHING" /\ Unpushed(row)
    \/ Going(record, <<"PUSHED">>, "done") /\ row.state = "PUSHING"
    \/ Going(record, <<"PUSH_FAILED">>, "done") /\ row.state = "PUSHING"

Stage(record, row) ==
    \/ record.op = "create" /\ CreateStage(record, row)
    \/ record.op = "answer" /\ AnswerStage(record, row)
    \/ record.op = "generate" /\ BuildStage(record, row)
    \/ record.op = "decide" /\ DecideStage(record, row)
    \/ record.op = "push" /\ PushStage(record, row)

\* What the columns of a row have to do with its state.
Offered == {"VERIFIED", "AWAITING_PUSH_DECISION", "AWAITING_GITHUB_TOKEN", "PUSHING",
            "PUSHED", "PUSH_FAILED"}

Sent == {"PUSHING", "PUSHED", "PUSH_FAILED"}

SoundRow(row) ==
    /\ row.state \in {None, "CREATED"} => row.answers = {}
    /\ row.state = "READY_TO_GENERATE" => row.brief = row.answers
    /\ row.state \in Offered \cup {"REVIEWING"} => row.built = row.answers
    /\ row.state \in Offered => row.report = "passed"
    /\ \/ Unpushed(row)
       \/ row.repositories = 1 /\ row.state \in Sent

OneActor ==
    \A t, u \in Tasks :
        Acting(task[t]) /\ Acting(task[u]) /\ task[t].job = task[u].job => t = u

OneWaits == \A t, u \in Tasks : Waiting(t) /\ Waiting(u) => t = u

StageInv ==
    /\ OneActor
    /\ OneWaits
    /\ \A j \in Jobs : SoundRow(jobs[j])
    /\ \A t \in Tasks : Acting(task[t]) => Stage(task[t], jobs[task[t].job])

\* No job exists at first.
LEMMA InitStage == Init => StageInv
  <1> SUFFICES ASSUME Init PROVE StageInv
    OBVIOUS
  <1>1. SoundRow(NoRow) /\ ~Acting(Blank)
    BY DEF SoundRow, NoRow, Offered, Unpushed, None, Acting, Blank
  <1>2. \A t \in Tasks : ~Acting(task[t]) /\ ~Waiting(t)
    BY <1>1 DEF Init, Waiting, Blank
  <1>3. \A j \in Jobs : SoundRow(jobs[j])
    BY <1>1 DEF Init
  <1> QED BY <1>2, <1>3 DEF StageInv, OneActor, OneWaits

\* The state of a job tells who may be acting on it.
LEMMA ActorOfState ==
    ASSUME StageInv, NEW t \in Tasks, NEW j \in Jobs, Acting(task[t]), task[t].job = j
    PROVE  /\ jobs[j].state # None
           /\ jobs[j].state = "READY_TO_GENERATE" => Builder(t)
           /\ jobs[j].state \in {"AWAITING_ANSWERS", "AWAITING_GITHUB_TOKEN"} \cup Offered =>
                 Waiting(t)
  <1>1. Stage(task[t], jobs[j])
    BY DEF StageInv
  <1>2. jobs[j].state # None
    BY <1>1 DEF Stage, CreateStage, AnswerStage, BuildStage, DecideStage, PushStage, None
  <1>3. jobs[j].state = "READY_TO_GENERATE" => task[t].op = "generate"
    BY <1>1 DEF Stage, CreateStage, AnswerStage, BuildStage, DecideStage, PushStage
  <1>4. jobs[j].state \in {"AWAITING_ANSWERS", "AWAITING_GITHUB_TOKEN"} \cup Offered =>
           task[t].op \in {"answer", "decide", "push"}
    BY <1>1 DEF Stage, CreateStage, AnswerStage, BuildStage, DecideStage, PushStage, Offered
  <1> QED BY <1>2, <1>3, <1>4 DEF Builder, Waiting, Acting

Waits(record) ==
    /\ record.pc \notin {"idle", "done"}
    /\ record.op \in {"answer", "decide", "push", "cancel"}

\* A step of one task keeps the invariant if it leaves its own job at a stage of
\* its own, and nobody else is at one.
LEMMA OneStage ==
    ASSUME ControlInv, StageInv, NEW t \in Tasks, NEW j \in Jobs,
           NEW record, NEW row, record.job = j, SoundRow(row),
           Acting(record) => Stage(record, row),
           Acting(record) \/ row # jobs[j] =>
              \A u \in Tasks \ {t} : Acting(task[u]) => task[u].job # j,
           Waits(record) => \A u \in Tasks \ {t} : ~Waiting(u),
           task' = [task EXCEPT ![t] = record],
           jobs' = [jobs EXCEPT ![j] = row]
    PROVE  StageInv'
  <1>1. /\ \A u \in Tasks : task'[u] = IF u = t THEN record ELSE task[u]
        /\ \A k \in Jobs : jobs'[k] = IF k = j THEN row ELSE jobs[k]
    BY DEF ControlInv, TypeOK
  <1>2. OneActor'
    BY <1>1 DEF StageInv, OneActor
  <1>3. OneWaits'
    <2>1. \A u \in Tasks : Waiting(u)' <=> IF u = t THEN Waits(record) ELSE Waiting(u)
      BY <1>1 DEF Waiting, Waits
    <2> QED BY <2>1 DEF StageInv, OneWaits
  <1>4. ASSUME NEW k \in Jobs PROVE SoundRow(jobs[k])'
    <2>1. SoundRow(jobs'[k])
      BY <1>1 DEF StageInv
    <2> QED BY <2>1 DEF SoundRow
  <1>5. ASSUME NEW u \in Tasks, Acting(task'[u])
        PROVE  Stage(task'[u], jobs'[task'[u].job])
    <2>1. CASE u = t
      BY <1>1, <1>5, <2>1
    <2>2. CASE u # t
      <3>1. Acting(task[u]) /\ task'[u] = task[u] /\ Stage(task[u], jobs[task[u].job])
        BY <1>1, <1>5, <2>2 DEF StageInv
      <3>2. task[u].job \in Jobs
        BY <3>1 DEF ControlInv, Control, Acting
      <3>3. jobs'[task[u].job] = jobs[task[u].job]
        BY <1>1, <2>2, <3>1, <3>2
      <3> QED BY <3>1, <3>3
    <2> QED BY <2>1, <2>2
  <1>6. (\A u \in Tasks : Acting(task[u]) => Stage(task[u], jobs[task[u].job]))'
    BY <1>5 DEF Acting, Stage, CreateStage, AnswerStage, BuildStage, DecideStage, PushStage,
                Going, Reaching
  <1> QED BY <1>2, <1>3, <1>4, <1>6 DEF StageInv

\* A task that acts is the only one, so it may move its own job on.
LEMMA ActorMoves ==
    ASSUME ControlInv, StageInv, NEW t \in Tasks, Acting(task[t]),
           NEW record, NEW row, record.job = task[t].job, record.op = task[t].op,
           SoundRow(row),
           Acting(record) => Stage(record, row),
           task' = [task EXCEPT ![t] = record],
           jobs' = [jobs EXCEPT ![task[t].job] = row]
    PROVE  StageInv'
  <1>1. PICK j \in Jobs : j = task[t].job
    BY DEF ControlInv, Control, Acting
  <1>2. \A u \in Tasks \ {t} : Acting(task[u]) => task[u].job # j
    BY <1>1 DEF StageInv, OneActor
  <1>3. Waits(record) => \A u \in Tasks \ {t} : ~Waiting(u)
    BY DEF StageInv, OneWaits, Waits, Waiting, Acting
  <1> QED BY <1>1, <1>2, <1>3, OneStage

\* A task that does not act, and will not, leaves all rows alone.
LEMMA BystanderKeepsStage ==
    ASSUME ControlInv, StageInv, NEW t \in Tasks,
           NEW record, record.job \in Jobs, ~Acting(record), Waits(record) => Waiting(t),
           task' = [task EXCEPT ![t] = record], jobs' = jobs
    PROVE  StageInv'
  <1>1. jobs' = [jobs EXCEPT ![record.job] = jobs[record.job]]
    BY DEF ControlInv, TypeOK
  <1>2. SoundRow(jobs[record.job])
    BY DEF StageInv
  <1>3. Waits(record) => \A u \in Tasks \ {t} : ~Waiting(u)
    BY DEF StageInv, OneWaits
  <1> QED BY <1>1, <1>2, <1>3, OneStage

-----------------------------------------------------------------------------
\* Calls.  With MaxOpen = 1 a call is admitted only when none is open.
LEMMA CalledAlone ==
    ASSUME MaxOpen = 1, StageInv, NEW t \in Tasks, CanCall(t)
    PROVE  \A u \in Tasks : ~Waiting(u)
  <1> SUFFICES ASSUME NEW u \in Tasks, Waiting(u) PROVE FALSE
    OBVIOUS
  <1>1. {v \in Tasks : Waiting(v)} = {u}
    BY DEF StageInv, OneWaits
  <1>2. Cardinality({v \in Tasks : Waiting(v)}) = 1
    BY <1>1, FS_Singleton
  <1> QED BY <1>2 DEF CanCall

LEMMA CallKeepsStage ==
    ASSUME MaxOpen = 1, "cancel" \notin Calls, ControlInv, SlotInv, StageInv,
           NEW t \in Tasks, NEW j \in Jobs, Call(t, j)
    PROVE  StageInv'
  <1>1. /\ task \in [Tasks -> TaskRecord] /\ jobs \in [Jobs -> JobRow] /\ jobs[j] \in JobRow
        /\ SoundRow(jobs[j])
        /\ jobs = [jobs EXCEPT ![j] = jobs[j]]
    BY DEF ControlInv, TypeOK, StageInv
  <1>2. ASSUME NEW op \in Operation, NEW path, NEW pc
        PROVE  LET record == Through(Begin(t, op, j), path, pc, None)
               IN  /\ record.op = op /\ record.job = j /\ record.copy = {}
                   /\ Going(record, path, pc)
    BY DEF Through, Begin, Blank, Going, Reaching
  <1>3. ASSUME CanCall(t),
               jobs[j].state \in {"AWAITING_ANSWERS", "AWAITING_GITHUB_TOKEN"} \cup Offered
        PROVE  \A u \in Tasks \ {t} : Acting(task[u]) => task[u].job # j
    BY <1>3, CalledAlone, ActorOfState
  <1>4. ASSUME NEW record, CanCall(t), record.job = j, Stage(record, jobs[j]),
               jobs[j].state \in {"AWAITING_ANSWERS", "AWAITING_GITHUB_TOKEN"} \cup Offered,
               task' = [task EXCEPT ![t] = record], jobs' = jobs
        PROVE  StageInv'
    BY <1>1, <1>3, <1>4, CalledAlone, OneStage
  <1>5. CASE CreateJob(t, j)
    <2> DEFINE record == Through(Begin(t, "create", j), <<"ARCHITECTURE_PROPOSED">>, "plan", None)
               row == [jobs[j] EXCEPT !.state = "CREATED"]
    <2>1. task' = [task EXCEPT ![t] = record] /\ jobs' = [jobs EXCEPT ![j] = row]
          /\ jobs[j].state = None
      BY <1>5 DEF CreateJob
    <2>2. /\ record.op = "create" /\ record.job = j /\ record.copy = {}
          /\ Going(record, <<"ARCHITECTURE_PROPOSED">>, "plan")
      BY <1>2 DEF Operation
    <2>3. row.state = "CREATED" /\ row.answers = {} /\ Unpushed(row)
      BY <1>1, <2>1 DEF JobRow, SoundRow, Unpushed, Sent, None
    <2>4. \A u \in Tasks \ {t} : Acting(task[u]) => task[u].job # j
      BY <2>1, ActorOfState
    <2> HIDE DEF record, row
    <2>5. SoundRow(row)
      BY <2>3 DEF SoundRow, Offered, None
    <2>6. Stage(record, row) /\ ~Waits(record)
      BY <2>2, <2>3 DEF Stage, CreateStage, Waits
    <2> QED BY <2>1, <2>2, <2>4, <2>5, <2>6, OneStage
  <1>6. CASE SubmitAnswers(t, j)
    <2> DEFINE record == [Begin(t, "answer", j) EXCEPT
                             !.pc = "save", !.copy = jobs[j].answers \cup {t}]
    <2>1. /\ task' = [task EXCEPT ![t] = record] /\ jobs' = jobs /\ CanCall(t)
          /\ jobs[j].state = "AWAITING_ANSWERS"
      BY <1>6 DEF SubmitAnswers
    <2>2. record.op = "answer" /\ record.job = j /\ record.pc = "save"
      BY DEF Begin, Blank
    <2> HIDE DEF record
    <2>3. Stage(record, jobs[j])
      BY <2>1, <2>2 DEF Stage, AnswerStage
    <2> QED BY <1>4, <2>1, <2>2, <2>3
  <1>7. CASE RequestBuild(t, j)
    <2> DEFINE record == [Begin(t, "generate", j) EXCEPT !.pc = "admit"]
    <2>1. task' = [task EXCEPT ![t] = record] /\ jobs' = jobs
      BY <1>7 DEF RequestBuild
    <2>2. record.op = "generate" /\ record.job = j /\ record.pc = "admit"
      BY DEF Begin, Blank
    <2> HIDE DEF record
    <2> QED BY <2>1, <2>2, BystanderKeepsStage DEF Acting, Waits
  <1>8. CASE PushDecision(t, j)
    <2>1. PICK choice \in {"AWAITING_GITHUB_TOKEN", "CANCELLED"} :
              task' = [task EXCEPT ![t] = Through(Begin(t, "decide", j),
                          <<"AWAITING_PUSH_DECISION", choice>>, "done", None)]
      BY <1>8 DEF PushDecision
    <2> DEFINE record == Through(Begin(t, "decide", j),
                                 <<"AWAITING_PUSH_DECISION", choice>>, "done", None)
    <2>2. jobs' = jobs /\ CanCall(t) /\ jobs[j].state = "VERIFIED"
      BY <1>8 DEF PushDecision
    <2>3. /\ record.op = "decide" /\ record.job = j
          /\ Going(record, <<"AWAITING_PUSH_DECISION", choice>>, "done")
      BY <1>2 DEF Operation
    <2>4. task' = [task EXCEPT ![t] = record]
      BY <2>1
    <2> HIDE DEF record
    <2>5. Stage(record, jobs[j])
      BY <2>2, <2>3 DEF Stage, DecideStage
    <2> QED BY <1>4, <2>2, <2>3, <2>4, <2>5 DEF Offered
  <1>9. CASE PushToGitHub(t, j)
    <2> DEFINE record == Through(Begin(t, "push", j), <<"PUSHING">>, "publish", None)
    <2>1. /\ task' = [task EXCEPT ![t] = record] /\ jobs' = jobs /\ CanCall(t)
          /\ jobs[j].state = "AWAITING_GITHUB_TOKEN"
      BY <1>9 DEF PushToGitHub
    <2>2. record.op = "push" /\ record.job = j /\ Going(record, <<"PUSHING">>, "publish")
      BY <1>2 DEF Operation
    <2> HIDE DEF record
    <2>3. Stage(record, jobs[j])
      BY <2>1, <2>2 DEF Stage, PushStage
    <2> QED BY <1>4, <2>1, <2>2, <2>3
  <1> QED BY <1>5, <1>6, <1>7, <1>8, <1>9 DEF Call

-----------------------------------------------------------------------------
\* _update_state.  What a task at its stage writes next, the table allows.
LEMMA StageFollowsTable ==
    ASSUME NEW record, NEW row, Stage(record, row), Reaching(record)
    PROVE  JobTransition(row.state, Head(record.path))
  <1>1. CASE record.op = "create" /\ CreateStage(record, row)
    BY <1>1 DEF CreateStage, Going, Reaching, JobTransition, Closed, JobTargets, JobState,
                EndState
  <1>2. CASE record.op = "answer" /\ AnswerStage(record, row)
    BY <1>2 DEF AnswerStage, Going, Reaching, JobTransition, Closed, JobTargets, JobState,
                EndState
  <1>3. CASE record.op = "generate" /\ BuildStage(record, row)
    BY <1>3 DEF BuildStage, Going, Reaching, JobTransition, Closed, JobTargets, JobState,
                EndState
  <1>4. CASE record.op = "decide" /\ DecideStage(record, row)
    BY <1>4 DEF DecideStage, Going, Reaching, JobTransition, Closed, JobTargets, JobState,
                EndState
  <1>5. CASE record.op = "push" /\ PushStage(record, row)
    BY <1>5 DEF PushStage, Going, Reaching, JobTransition, Closed, JobTargets, JobState,
                EndState
  <1> QED BY <1>1, <1>2, <1>3, <1>4, <1>5 DEF Stage

\* So no transition is refused.
LEMMA CheckKeepsStage ==
    ASSUME ControlInv, StageInv, NEW t \in Tasks, CheckTransition(t)
    PROVE  StageInv'
  <1> DEFINE record == [task[t] EXCEPT !.pc = "write"]
  <1>1. /\ task[t] \in TaskRecord /\ task[t].pc = "check" /\ Acting(task[t]) /\ Reaching(task[t])
        /\ task[t].job \in Jobs /\ jobs \in [Jobs -> JobRow]
    BY DEF ControlInv, TypeOK, Control, CheckTransition, Acting, Reaching
  <1>2. Stage(task[t], jobs[task[t].job]) /\ SoundRow(jobs[task[t].job])
    BY <1>1 DEF StageInv
  <1>3. task' = [task EXCEPT ![t] = record]
    BY <1>1, <1>2, StageFollowsTable DEF CheckTransition, StateOf, Goto
  <1>4. jobs' = [jobs EXCEPT ![task[t].job] = jobs[task[t].job]]
    BY <1>1 DEF CheckTransition
  <1>5. /\ record.op = task[t].op /\ record.job = task[t].job /\ record.copy = task[t].copy
        /\ record.path = task[t].path /\ record.next = task[t].next /\ record.pc = "write"
    BY <1>1 DEF TaskRecord
  <1> HIDE DEF record
  <1>6. Stage(record, jobs[task[t].job])
    <2> DEFINE row == jobs[task[t].job]
               old == task[t]
    <2>1. /\ record.op = old.op /\ record.copy = old.copy /\ record.path = old.path
          /\ record.next = old.next /\ record.pc = "write" /\ old.pc = "check"
      BY <1>1, <1>5
    <2>2. Stage(old, row)
      BY <1>2
    <2> SUFFICES Stage(record, row)
      BY DEF row
    <2> HIDE DEF row, old, record
    <2>3. CASE old.op = "create" /\ CreateStage(old, row)
      BY <2>1, <2>3 DEF Stage, CreateStage, Going, Reaching
    <2>4. CASE old.op = "answer" /\ AnswerStage(old, row)
      BY <2>1, <2>4 DEF Stage, AnswerStage, Going, Reaching
    <2>5. CASE old.op = "generate" /\ BuildStage(old, row)
      BY <2>1, <2>5 DEF Stage, BuildStage, Going, Reaching
    <2>6. CASE old.op = "decide" /\ DecideStage(old, row)
      BY <2>1, <2>6 DEF Stage, DecideStage, Going, Reaching
    <2>7. CASE old.op = "push" /\ PushStage(old, row)
      BY <2>1, <2>7 DEF Stage, PushStage, Going, Reaching
    <2> QED BY <2>2, <2>3, <2>4, <2>5, <2>6, <2>7 DEF Stage
  <1> QED BY <1>1, <1>2, <1>3, <1>4, <1>5, <1>6, ActorMoves

\* The record and the row that a write leaves.
Advanced(record) ==
    [record EXCEPT !.path = Tail(record.path),
                   !.pc = IF Len(record.path) > 1 THEN "check" ELSE record.next]

Rewritten(row, s) == [row EXCEPT !.state = s]

\* The last state of a path, and the first of two.
LEMMA LastState ==
    ASSUME NEW record \in TaskRecord, NEW s, NEW pc, Going(record, <<s>>, pc)
    PROVE  /\ Head(record.path) = s
           /\ Advanced(record).pc = pc
           /\ Advanced(record).op = record.op /\ Advanced(record).copy = record.copy
  <1>1. Len(<<s>>) = 1 /\ Head(<<s>>) = s
    OBVIOUS
  <1> QED BY <1>1 DEF Advanced, Going, TaskRecord

LEMMA FirstState ==
    ASSUME NEW record \in TaskRecord, NEW s, NEW u, NEW pc, Going(record, <<s, u>>, pc)
    PROVE  /\ Head(record.path) = s
           /\ Going(Advanced(record), <<u>>, pc)
           /\ Advanced(record).op = record.op
  <1>1. Len(<<s, u>>) = 2 /\ Head(<<s, u>>) = s /\ Tail(<<s, u>>) = <<u>>
    OBVIOUS
  <1> QED BY <1>1 DEF Advanced, Going, Reaching, TaskRecord

\* A write brings the job to the next stage of the task that wrote.
LEMMA WriteKeepsStage ==
    ASSUME ControlInv, StageInv, NEW t \in Tasks, WriteState(t)
    PROVE  StageInv'
  <1> DEFINE s == Head(task[t].path)
             old == jobs[task[t].job]
             record == Advanced(task[t])
             row == Rewritten(old, s)
  <1>1. /\ task[t] \in TaskRecord /\ task[t].pc = "write" /\ Acting(task[t]) /\ Reaching(task[t])
        /\ task[t].job \in Jobs /\ jobs \in [Jobs -> JobRow] /\ old \in JobRow
    BY DEF ControlInv, TypeOK, Control, WriteState, Acting, Reaching
  <1>2. Stage(task[t], old) /\ SoundRow(old)
    BY <1>1 DEF StageInv
  <1>3. task' = [task EXCEPT ![t] = record]
    BY <1>1 DEF WriteState, Advanced
  <1>4. jobs' = [jobs EXCEPT ![task[t].job] = row]
    BY <1>1 DEF WriteState, Rewritten
  <1>5. record.job = task[t].job /\ record.op = task[t].op
    BY <1>1 DEF Advanced, TaskRecord
  <1>6. /\ row.state = s /\ row.answers = old.answers /\ row.brief = old.brief
        /\ row.built = old.built /\ row.report = old.report
        /\ row.repositories = old.repositories /\ row.published = old.published
    BY <1>1 DEF Rewritten, JobRow
  <1> HIDE DEF record, row
  <1> USE DEF Offered, Sent, Unpushed, None
  <1>7. SoundRow(row) /\ (Acting(record) => Stage(record, row))
    <2>1. CASE task[t].op = "create" /\ CreateStage(task[t], old)
      <3>1. CASE Going(task[t], <<"ARCHITECTURE_PROPOSED">>, "plan") /\ old.state = "CREATED"
        <4>1. s = "ARCHITECTURE_PROPOSED" /\ record.pc = "plan" /\ record.copy = task[t].copy
          BY <1>1, <3>1, LastState DEF record
        <4> HIDE DEF s
        <4> QED BY <1>2, <1>5, <1>6, <2>1, <3>1, <4>1 DEF SoundRow, Stage, CreateStage
      <3>2. CASE /\ Going(task[t], <<"AWAITING_ANSWERS">>, "respond")
                 /\ old.state = "ARCHITECTURE_PROPOSED"
        <4>1. s = "AWAITING_ANSWERS" /\ record.pc = "respond"
          BY <1>1, <3>2, LastState DEF record
        <4> HIDE DEF s
        <4> QED BY <1>2, <1>6, <3>2, <4>1 DEF SoundRow, Acting
      <3>3. CASE /\ Going(task[t], <<"READY_TO_GENERATE">>, "respond")
                 /\ old.state = "ARCHITECTURE_PROPOSED" /\ old.brief = old.answers
        <4>1. s = "READY_TO_GENERATE" /\ record.pc = "respond"
          BY <1>1, <3>3, LastState DEF record
        <4> HIDE DEF s
        <4> QED BY <1>2, <1>6, <3>3, <4>1 DEF SoundRow, Acting
      <3> QED BY <1>1, <2>1, <3>1, <3>2, <3>3 DEF CreateStage, Reaching
    <2>2. CASE task[t].op = "answer" /\ AnswerStage(task[t], old)
      <3>1. CASE /\ Going(task[t], <<"READY_TO_GENERATE">>, "respond")
                 /\ old.state = "AWAITING_ANSWERS" /\ old.brief = old.answers
        <4>1. s = "READY_TO_GENERATE" /\ record.pc = "respond"
          BY <1>1, <3>1, LastState DEF record
        <4> HIDE DEF s
        <4> QED BY <1>2, <1>6, <3>1, <4>1 DEF SoundRow, Acting
      <3>2. CASE /\ Going(task[t], <<"ARCHITECTURE_PROPOSED", "AWAITING_ANSWERS">>, "respond")
                 /\ old.state = "AWAITING_ANSWERS"
        <4>1. s = "ARCHITECTURE_PROPOSED" /\ Going(record, <<"AWAITING_ANSWERS">>, "respond")
          BY <1>1, <3>2, FirstState DEF record
        <4> HIDE DEF s
        <4> QED BY <1>2, <1>5, <1>6, <2>2, <3>2, <4>1 DEF SoundRow, Stage, AnswerStage
      <3>3. CASE /\ Going(task[t], <<"AWAITING_ANSWERS">>, "respond")
                 /\ old.state = "ARCHITECTURE_PROPOSED"
        <4>1. s = "AWAITING_ANSWERS" /\ record.pc = "respond"
          BY <1>1, <3>3, LastState DEF record
        <4> HIDE DEF s
        <4> QED BY <1>2, <1>6, <3>3, <4>1 DEF SoundRow, Acting
      <3> QED BY <1>1, <2>2, <3>1, <3>2, <3>3 DEF AnswerStage
    <2>3. CASE task[t].op = "generate" /\ BuildStage(task[t], old)
      <3>1. CASE /\ Going(task[t], <<"GENERATING">>, "build")
                 /\ old.state = "READY_TO_GENERATE" /\ task[t].copy = old.answers
        <4>1. s = "GENERATING" /\ record.pc = "build" /\ record.copy = task[t].copy
          BY <1>1, <3>1, LastState DEF record
        <4> HIDE DEF s
        <4> QED BY <1>2, <1>5, <1>6, <2>3, <3>1, <4>1 DEF SoundRow, Stage, BuildStage
      <3>2. CASE /\ Going(task[t], <<"REVIEWING">>, "review")
                 /\ old.state = "GENERATING" /\ old.built = old.answers
        <4>1. s = "REVIEWING" /\ record.pc = "review"
          BY <1>1, <3>2, LastState DEF record
        <4> HIDE DEF s
        <4> QED BY <1>2, <1>5, <1>6, <2>3, <3>2, <4>1 DEF SoundRow, Stage, BuildStage
      <3>3. CASE Going(task[t], <<"FAILED">>, "release") /\ old.state = "GENERATING"
        <4>1. s = "FAILED" /\ record.pc = "release"
          BY <1>1, <3>3, LastState DEF record
        <4> HIDE DEF s
        <4> QED BY <1>2, <1>6, <3>3, <4>1 DEF SoundRow, Acting
      <3>4. CASE /\ Going(task[t], <<"VERIFIED">>, "release")
                 /\ old.state = "REVIEWING" /\ old.report = "passed"
        <4>1. s = "VERIFIED" /\ record.pc = "release"
          BY <1>1, <3>4, LastState DEF record
        <4> HIDE DEF s
        <4> QED BY <1>2, <1>6, <3>4, <4>1 DEF SoundRow, Acting
      <3>5. CASE Going(task[t], <<"REVIEW_FAILED">>, "release") /\ old.state = "REVIEWING"
        <4>1. s = "REVIEW_FAILED" /\ record.pc = "release"
          BY <1>1, <3>5, LastState DEF record
        <4> HIDE DEF s
        <4> QED BY <1>2, <1>6, <3>5, <4>1 DEF SoundRow, Acting
      <3> QED BY <1>1, <2>3, <3>1, <3>2, <3>3, <3>4, <3>5 DEF BuildStage
    <2>4. CASE task[t].op = "decide" /\ DecideStage(task[t], old)
      <3>1. PICK choice \in {"AWAITING_GITHUB_TOKEN", "CANCELLED"} :
                \/ /\ Going(task[t], <<"AWAITING_PUSH_DECISION", choice>>, "done")
                   /\ old.state = "VERIFIED"
                \/ Going(task[t], <<choice>>, "done") /\ old.state = "AWAITING_PUSH_DECISION"
        BY <2>4 DEF DecideStage
      <3>2. CASE /\ Going(task[t], <<"AWAITING_PUSH_DECISION", choice>>, "done")
                 /\ old.state = "VERIFIED"
        <4>1. s = "AWAITING_PUSH_DECISION" /\ Going(record, <<choice>>, "done")
          BY <1>1, <3>2, FirstState DEF record
        <4> HIDE DEF s
        <4> QED BY <1>2, <1>5, <1>6, <2>4, <3>2, <4>1 DEF SoundRow, Stage, DecideStage
      <3>3. CASE Going(task[t], <<choice>>, "done") /\ old.state = "AWAITING_PUSH_DECISION"
        <4>1. s = choice /\ record.pc = "done"
          BY <1>1, <3>3, LastState DEF record
        <4> HIDE DEF s
        <4> QED BY <1>2, <1>6, <3>3, <4>1 DEF SoundRow, Acting
      <3> QED BY <3>1, <3>2, <3>3
    <2>5. CASE task[t].op = "push" /\ PushStage(task[t], old)
      <3>1. CASE /\ Going(task[t], <<"PUSHING">>, "publish")
                 /\ old.state = "AWAITING_GITHUB_TOKEN"
        <4>1. s = "PUSHING" /\ record.pc = "publish"
          BY <1>1, <3>1, LastState DEF record
        <4>2. Unpushed(old)
          BY <1>2, <3>1 DEF SoundRow
        <4> HIDE DEF s
        <4> QED BY <1>2, <1>5, <1>6, <2>5, <3>1, <4>1, <4>2 DEF SoundRow, Stage, PushStage
      <3>2. CASE Going(task[t], <<"PUSHED">>, "done") /\ old.state = "PUSHING"
        <4>1. s = "PUSHED" /\ record.pc = "done"
          BY <1>1, <3>2, LastState DEF record
        <4> HIDE DEF s
        <4> QED BY <1>2, <1>6, <3>2, <4>1 DEF SoundRow, Acting
      <3>3. CASE Going(task[t], <<"PUSH_FAILED">>, "done") /\ old.state = "PUSHING"
        <4>1. s = "PUSH_FAILED" /\ record.pc = "done"
          BY <1>1, <3>3, LastState DEF record
        <4> HIDE DEF s
        <4> QED BY <1>2, <1>6, <3>3, <4>1 DEF SoundRow, Acting
      <3> QED BY <1>1, <2>5, <3>1, <3>2, <3>3 DEF PushStage
    <2> QED BY <1>2, <2>1, <2>2, <2>3, <2>4, <2>5 DEF Stage
  <1> QED BY <1>1, <1>3, <1>4, <1>5, <1>7, ActorMoves

-----------------------------------------------------------------------------
\* A task at its stage that sends itself through states, having stored what it
\* made in a row of the same state.
LEMMA PursueKeepsStage ==
    ASSUME ControlInv, StageInv, NEW t \in Tasks, Acting(task[t]),
           NEW path, NEW pc, NEW fallback, NEW row,
           Pursue(t, path, pc, fallback),
           jobs' = [jobs EXCEPT ![task[t].job] = row],
           SoundRow(row),
           \A record : (/\ record.op = task[t].op /\ record.copy = task[t].copy
                        /\ Going(record, path, pc)) => Stage(record, row)
    PROVE  StageInv'
  <1> DEFINE record == Through(task[t], path, pc, fallback)
  <1>1. task[t] \in TaskRecord
    BY DEF ControlInv, TypeOK
  <1>2. /\ record.op = task[t].op /\ record.job = task[t].job /\ record.copy = task[t].copy
        /\ Going(record, path, pc)
    BY <1>1 DEF Through, TaskRecord, Going, Reaching
  <1>3. task' = [task EXCEPT ![t] = record]
    BY DEF Pursue
  <1> HIDE DEF record
  <1>4. Stage(record, row)
    BY <1>2
  <1> QED BY <1>2, <1>3, <1>4, ActorMoves

\* A task that goes on without acting.
LEMMA GotoKeepsStage ==
    ASSUME ControlInv, StageInv, NEW t \in Tasks, NEW pc, task[t].pc \notin {"idle", "done"},
           ~Acting([pc |-> pc]), Goto(t, pc), jobs' = jobs
    PROVE  StageInv'
  <1> DEFINE record == [task[t] EXCEPT !.pc = pc]
  <1>1. task[t] \in TaskRecord /\ task[t].job \in Jobs
    BY DEF ControlInv, TypeOK, Control
  <1>2. record.pc = pc /\ record.job = task[t].job /\ record.op = task[t].op
    BY <1>1 DEF TaskRecord
  <1>3. task' = [task EXCEPT ![t] = record]
    BY DEF Goto
  <1> HIDE DEF record
  <1>4. ~Acting(record) /\ (Waits(record) => Waiting(t))
    BY <1>2 DEF Acting, Waits, Waiting
  <1> QED BY <1>1, <1>2, <1>3, <1>4, BystanderKeepsStage

\* Planning.
LEMMA PlanKeepsStage ==
    ASSUME ControlInv, StageInv, NEW t \in Tasks, Plan(t)
    PROVE  StageInv'
  <1> DEFINE old == jobs[task[t].job]
  <1>1. /\ task[t] \in TaskRecord /\ task[t].pc = "plan" /\ Acting(task[t])
        /\ task[t].job \in Jobs /\ jobs \in [Jobs -> JobRow] /\ old \in JobRow
        /\ jobs = [jobs EXCEPT ![task[t].job] = old]
    BY DEF ControlInv, TypeOK, Control, Plan, Acting
  <1>2. Stage(task[t], old) /\ SoundRow(old)
    BY <1>1 DEF StageInv
  <1>3. \/ /\ task[t].op = "create" /\ old.answers = {} /\ task[t].copy = {}
           /\ old.state = "ARCHITECTURE_PROPOSED"
        \/ /\ task[t].op = "answer" /\ task[t].copy = old.answers
           /\ old.state = "AWAITING_ANSWERS"
    BY <1>1, <1>2 DEF Stage, CreateStage, AnswerStage, BuildStage, DecideStage, PushStage,
                      Going, Reaching
  <1>4. ASSUME NEW v PROVE LET row == [old EXCEPT !.brief = v]
                           IN  /\ row.state = old.state /\ row.answers = old.answers
                               /\ row.built = old.built /\ row.report = old.report
                               /\ row.brief = v /\ SoundRow(row)
    BY <1>1, <1>2, <1>3 DEF JobRow, SoundRow, Offered, Unpushed, Sent
  <1>5. CASE PlannerAsks(t) /\ task[t].op = "create"
    <2> DEFINE row == [old EXCEPT !.brief = {}]
    <2>1. jobs' = [jobs EXCEPT ![task[t].job] = row]
      BY <1>5 DEF PlannerAsks
    <2>2. /\ row.state = "ARCHITECTURE_PROPOSED" /\ row.answers = {} /\ task[t].copy = {}
          /\ SoundRow(row)
      BY <1>3, <1>4, <1>5
    <2> HIDE DEF row
    <2> QED BY <1>1, <1>5, <2>1, <2>2, PursueKeepsStage
            DEF PlannerAsks, Stage, CreateStage
  <1>6. CASE PlannerAsks(t) /\ task[t].op # "create"
    <2>1. /\ jobs' = [jobs EXCEPT ![task[t].job] = old]
          /\ Pursue(t, <<"ARCHITECTURE_PROPOSED", "AWAITING_ANSWERS">>, "respond", None)
      BY <1>1, <1>6 DEF PlannerAsks
    <2> HIDE DEF old
    <2> QED BY <1>1, <1>2, <1>3, <1>6, <2>1, PursueKeepsStage DEF Stage, AnswerStage
  <1>7. CASE PlannerSettles(t)
    <2> DEFINE row == [old EXCEPT !.brief = task[t].copy]
    <2>1. /\ jobs' = [jobs EXCEPT ![task[t].job] = row]
          /\ Pursue(t, <<"READY_TO_GENERATE">>, "respond", None)
      BY <1>7 DEF PlannerSettles
    <2>2. /\ row.state = old.state /\ row.answers = old.answers /\ row.brief = old.answers
          /\ SoundRow(row)
      BY <1>3, <1>4
    <2> HIDE DEF row, old
    <2> QED BY <1>1, <1>3, <2>1, <2>2, PursueKeepsStage
            DEF Stage, CreateStage, AnswerStage
  <1>8. CASE PlannerFails(t)
    BY <1>1, <1>8, GotoKeepsStage DEF PlannerFails, Acting
  <1> QED BY <1>5, <1>6, <1>7, <1>8 DEF Plan

\* Building.
LEMMA BuildKeepsStage ==
    ASSUME ControlInv, StageInv, NEW t \in Tasks, Build(t)
    PROVE  StageInv'
  <1> DEFINE old == jobs[task[t].job]
             row == [old EXCEPT !.built = task[t].copy]
  <1>1. /\ task[t] \in TaskRecord /\ task[t].pc = "build" /\ Acting(task[t])
        /\ task[t].job \in Jobs /\ jobs \in [Jobs -> JobRow] /\ old \in JobRow
        /\ jobs = [jobs EXCEPT ![task[t].job] = old]
    BY DEF ControlInv, TypeOK, Control, Build, Acting
  <1>2. Stage(task[t], old) /\ SoundRow(old)
    BY <1>1 DEF StageInv
  <1>3. task[t].op = "generate" /\ old.state = "GENERATING" /\ task[t].copy = old.answers
    BY <1>1, <1>2 DEF Stage, CreateStage, AnswerStage, BuildStage, DecideStage, PushStage,
                      Going, Reaching
  <1>4. /\ row.state = "GENERATING" /\ row.answers = old.answers /\ row.built = old.answers
        /\ row.repositories = old.repositories /\ row.published = old.published
    BY <1>1, <1>3 DEF JobRow
  <1> HIDE DEF row
  <1>5. SoundRow(row)
    BY <1>2, <1>3, <1>4 DEF SoundRow, Offered, Unpushed, Sent, None
  <1>6. CASE /\ jobs' = [jobs EXCEPT ![task[t].job] = row]
             /\ Pursue(t, <<"REVIEWING">>, "review", None)
    BY <1>1, <1>3, <1>4, <1>5, <1>6, PursueKeepsStage DEF Stage, BuildStage
  <1>7. CASE /\ jobs' = [jobs EXCEPT ![task[t].job] = old]
             /\ Pursue(t, <<"FAILED">>, "release", None)
    <2> HIDE DEF old
    <2> QED BY <1>1, <1>2, <1>3, <1>7, PursueKeepsStage DEF Stage, BuildStage
  <1> QED BY <1>1, <1>6, <1>7 DEF Build, row

\* Reviewing.
LEMMA ReviewKeepsStage ==
    ASSUME ControlInv, StageInv, NEW t \in Tasks, Review(t)
    PROVE  StageInv'
  <1> DEFINE old == jobs[task[t].job]
  <1>1. /\ task[t] \in TaskRecord /\ task[t].pc = "review" /\ Acting(task[t])
        /\ task[t].job \in Jobs /\ jobs \in [Jobs -> JobRow] /\ old \in JobRow
        /\ jobs = [jobs EXCEPT ![task[t].job] = old]
    BY DEF ControlInv, TypeOK, Control, Review, Acting
  <1>2. Stage(task[t], old) /\ SoundRow(old)
    BY <1>1 DEF StageInv
  <1>3. task[t].op = "generate" /\ old.state = "REVIEWING"
    BY <1>1, <1>2 DEF Stage, CreateStage, AnswerStage, BuildStage, DecideStage, PushStage,
                      Going, Reaching
  <1>4. ASSUME NEW v PROVE LET row == [old EXCEPT !.report = v]
                           IN  row.state = "REVIEWING" /\ row.report = v /\ SoundRow(row)
    BY <1>1, <1>2, <1>3 DEF JobRow, SoundRow, Offered, Unpushed, Sent, None
  <1>5. CASE /\ jobs' = [jobs EXCEPT ![task[t].job].report = "passed"]
             /\ Pursue(t, <<"VERIFIED">>, "release", "REVIEW_FAILED")
    <2> DEFINE row == [old EXCEPT !.report = "passed"]
    <2>1. jobs' = [jobs EXCEPT ![task[t].job] = row]
      BY <1>5
    <2>2. row.state = "REVIEWING" /\ row.report = "passed" /\ SoundRow(row)
      BY <1>4
    <2> HIDE DEF row
    <2> QED BY <1>1, <1>3, <1>5, <2>1, <2>2, PursueKeepsStage DEF Stage, BuildStage
  <1>6. CASE /\ jobs' = [jobs EXCEPT ![task[t].job].report = "failed"]
             /\ Pursue(t, <<"REVIEW_FAILED">>, "release", "REVIEW_FAILED")
    <2> DEFINE row == [old EXCEPT !.report = "failed"]
    <2>1. jobs' = [jobs EXCEPT ![task[t].job] = row]
      BY <1>6
    <2>2. row.state = "REVIEWING" /\ row.report = "failed" /\ SoundRow(row)
      BY <1>4
    <2> HIDE DEF row
    <2> QED BY <1>1, <1>3, <1>6, <2>1, <2>2, PursueKeepsStage DEF Stage, BuildStage
  <1>7. CASE jobs' = jobs /\ Pursue(t, <<"REVIEW_FAILED">>, "release", None)
    <2>1. jobs' = [jobs EXCEPT ![task[t].job] = old]
      BY <1>1, <1>7
    <2> HIDE DEF old
    <2> QED BY <1>1, <1>2, <1>3, <1>7, <2>1, PursueKeepsStage DEF Stage, BuildStage
  <1> QED BY <1>5, <1>6, <1>7 DEF Review

\* Publishing: the job is in PUSHING and no push was made of it before.
LEMMA PublishKeepsStage ==
    ASSUME ControlInv, StageInv, NEW t \in Tasks, Publish(t)
    PROVE  StageInv'
  <1> DEFINE old == jobs[task[t].job]
  <1>1. /\ task[t] \in TaskRecord /\ task[t].pc = "publish" /\ Acting(task[t])
        /\ task[t].job \in Jobs /\ jobs \in [Jobs -> JobRow] /\ old \in JobRow
    BY DEF ControlInv, TypeOK, Control, Publish, Acting
  <1>2. Stage(task[t], old) /\ SoundRow(old)
    BY <1>1 DEF StageInv
  <1>3. task[t].op = "push" /\ old.state = "PUSHING" /\ Unpushed(old)
    BY <1>1, <1>2 DEF Stage, CreateStage, AnswerStage, BuildStage, DecideStage, PushStage,
                      Going, Reaching
  <1>4. CASE PushSucceeds(t)
    <2> DEFINE created == [old EXCEPT !.repositories = @ + 1]
               row == [created EXCEPT !.published = TRUE]
    <2>1. /\ jobs' = [jobs EXCEPT ![task[t].job] = row]
          /\ Pursue(t, <<"PUSHED">>, "done", "PUSH_FAILED")
      BY <1>4 DEF PushSucceeds
    <2>2. /\ row.state = "PUSHING" /\ row.answers = old.answers /\ row.brief = old.brief
          /\ row.built = old.built /\ row.report = old.report /\ row.repositories = 1
      BY <1>1, <1>3 DEF JobRow, Unpushed
    <2> HIDE DEF row
    <2>3. SoundRow(row)
      BY <1>2, <1>3, <2>2 DEF SoundRow, Offered, Sent, None
    <2> QED BY <1>1, <1>3, <2>1, <2>2, <2>3, PursueKeepsStage DEF Stage, PushStage
  <1>5. CASE PushFails(t)
    <2>1. PICK n \in {0, 1}, reached \in BOOLEAN :
             /\ reached => n = 1
             /\ jobs' = [jobs EXCEPT ![task[t].job].repositories = @ + n,
                                     ![task[t].job].published = @ \/ reached]
             /\ Pursue(t, <<"PUSH_FAILED">>, "done", None)
      BY <1>5 DEF PushFails
    <2> DEFINE created == [old EXCEPT !.repositories = @ + n]
               row == [created EXCEPT !.published = @ \/ reached]
    <2>2. jobs' = [jobs EXCEPT ![task[t].job] = row]
      BY <2>1
    <2>3. /\ row.state = "PUSHING" /\ row.answers = old.answers /\ row.brief = old.brief
          /\ row.built = old.built /\ row.report = old.report
          /\ row.repositories = n /\ row.published = reached
      BY <1>1, <1>3 DEF JobRow, Unpushed
    <2> HIDE DEF row
    <2>4. SoundRow(row)
      BY <1>2, <1>3, <2>1, <2>3 DEF SoundRow, Offered, Unpushed, Sent, None
    <2> QED BY <1>1, <1>3, <2>1, <2>2, <2>3, <2>4, PursueKeepsStage DEF Stage, PushStage
  <1> QED BY <1>4, <1>5 DEF Publish

\* Answers are stored before the planner sees them.
LEMMA SaveKeepsStage ==
    ASSUME ControlInv, StageInv, NEW t \in Tasks, SaveAnswers(t)
    PROVE  StageInv'
  <1> DEFINE old == jobs[task[t].job]
             row == [old EXCEPT !.answers = task[t].copy]
             record == [task[t] EXCEPT !.pc = "plan"]
  <1>1. /\ task[t] \in TaskRecord /\ task[t].pc = "save" /\ Acting(task[t])
        /\ task[t].job \in Jobs /\ jobs \in [Jobs -> JobRow] /\ old \in JobRow
    BY DEF ControlInv, TypeOK, Control, SaveAnswers, Acting
  <1>2. Stage(task[t], old) /\ SoundRow(old)
    BY <1>1 DEF StageInv
  <1>3. task[t].op = "answer" /\ old.state = "AWAITING_ANSWERS"
    BY <1>1, <1>2 DEF Stage, CreateStage, AnswerStage, BuildStage, DecideStage, PushStage,
                      Going, Reaching
  <1>4. task' = [task EXCEPT ![t] = record] /\ jobs' = [jobs EXCEPT ![task[t].job] = row]
    BY DEF SaveAnswers, Goto
  <1>5. /\ record.op = task[t].op /\ record.job = task[t].job /\ record.copy = task[t].copy
        /\ record.pc = "plan"
        /\ row.state = "AWAITING_ANSWERS" /\ row.answers = task[t].copy
        /\ row.repositories = old.repositories /\ row.published = old.published
    BY <1>1, <1>3 DEF TaskRecord, JobRow
  <1> HIDE DEF record, row
  <1>6. SoundRow(row) /\ Stage(record, row)
    BY <1>2, <1>3, <1>5 DEF SoundRow, Offered, Unpushed, Sent, None, Stage, AnswerStage
  <1> QED BY <1>1, <1>4, <1>5, <1>6, ActorMoves

\* A build that finds the job ready has it for itself.
LEMMA LoadKeepsStage ==
    ASSUME ControlInv, SlotInv, StageInv, NEW t \in Tasks, Load(t)
    PROVE  StageInv'
  <1> DEFINE j == task[t].job
  <1>1. /\ task[t] \in TaskRecord /\ task[t].pc = "load" /\ task[t].op = "generate" /\ Builder(t)
        /\ j \in Jobs /\ jobs \in [Jobs -> JobRow] /\ jobs' = jobs
        /\ SoundRow(jobs[j])
    BY DEF ControlInv, TypeOK, Control, CallControl, Load, Builder, StageInv
  <1>2. CASE StateOf(t) = "READY_TO_GENERATE"
    <2> DEFINE sent == Through(task[t], <<"GENERATING">>, "build", None)
               record == [sent EXCEPT !.copy = jobs[j].brief]
    <2>1. task' = [task EXCEPT ![t] = record] /\ jobs' = [jobs EXCEPT ![j] = jobs[j]]
      BY <1>1, <1>2 DEF Load
    <2>2. /\ record.op = "generate" /\ record.job = j /\ record.copy = jobs[j].answers
          /\ Going(record, <<"GENERATING">>, "build")
      BY <1>1, <1>2 DEF Through, TaskRecord, Going, Reaching, SoundRow, StateOf
    <2>3. \A u \in Tasks \ {t} : Acting(task[u]) => task[u].job # j
      BY <1>1, <1>2, ActorOfState DEF SlotInv, StateOf
    <2> HIDE DEF record
    <2>4. Stage(record, jobs[j]) /\ ~Waits(record)
      BY <1>2, <2>2 DEF Stage, BuildStage, StateOf, Waits
    <2> HIDE DEF j
    <2> QED BY <1>1, <2>1, <2>2, <2>3, <2>4, OneStage
  <1>3. CASE StateOf(t) # "READY_TO_GENERATE"
    <2>1. Goto(t, "release")
      BY <1>1, <1>3 DEF Load, Goto
    <2> QED BY <1>1, <2>1, GotoKeepsStage DEF Acting
  <1> QED BY <1>2, <1>3

\* The steps that take up no work.
LEMMA IdleKeepsStage ==
    ASSUME ControlInv, StageInv, NEW t \in Tasks, Respond(t) \/ Admit(t) \/ Release(t)
    PROVE  StageInv'
  <1>1. task[t] \in TaskRecord /\ task[t].job \in Jobs /\ task[t].pc \notin {"idle", "done"}
        /\ jobs' = jobs
    BY DEF ControlInv, TypeOK, Control, Respond, Admit, Release
  <1>2. CASE Respond(t) /\ StateOf(t) = "READY_TO_GENERATE"
    <2> DEFINE record == [Begin(t, "generate", task[t].job) EXCEPT !.pc = "admit"]
    <2>1. task' = [task EXCEPT ![t] = record]
      BY <1>2 DEF Respond
    <2>2. record.op = "generate" /\ record.job = task[t].job /\ record.pc = "admit"
      BY DEF Begin, Blank
    <2> HIDE DEF record
    <2> QED BY <1>1, <2>1, <2>2, BystanderKeepsStage DEF Acting, Waits
  <1>3. CASE Respond(t) /\ StateOf(t) # "READY_TO_GENERATE"
    <2>1. Goto(t, "done")
      BY <1>3 DEF Respond, Goto
    <2> QED BY <1>1, <2>1, GotoKeepsStage DEF Acting
  <1>4. CASE Admit(t) \/ Release(t)
    <2>1. \E pc \in {"load", "done"} : Goto(t, pc)
      BY <1>4 DEF Admit, Release
    <2> QED BY <1>1, <2>1, GotoKeepsStage DEF Acting
  <1> QED BY <1>2, <1>3, <1>4

\* A restart leaves the rows, and nobody at work on them.
LEMMA RestartKeepsStage ==
    ASSUME ControlInv, StageInv, Restart PROVE StageInv'
  <1>1. jobs' = jobs /\ \A t \in Tasks : task'[t].pc \in {"idle", "done"}
    BY DEF Restart, ControlInv, TypeOK, TaskRecord
  <1>2. \A t \in Tasks : ~Acting(task'[t])
    BY <1>1 DEF Acting
  <1>3. OneActor' /\ OneWaits'
    BY <1>1, <1>2 DEF OneActor, OneWaits, Acting, Waiting
  <1>4. (\A j \in Jobs : SoundRow(jobs[j]))'
    BY <1>1 DEF StageInv, SoundRow
  <1> QED BY <1>2, <1>3, <1>4 DEF StageInv, Acting

\* Every step keeps the invariant, of clients that make one call at a time and
\* do not cancel.
LEMMA NextStage ==
    ASSUME MaxOpen = 1, "cancel" \notin Calls, ControlInv, SlotInv, StageInv, [Next]_vars
    PROVE  StageInv'
  <1>1. ASSUME NEW t \in Tasks, AgentStep(t) \/ OwnStep(t) PROVE StageInv'
    BY <1>1, PlanKeepsStage, BuildKeepsStage, ReviewKeepsStage, CheckKeepsStage,
       WriteKeepsStage, SaveKeepsStage, LoadKeepsStage, IdleKeepsStage, PublishKeepsStage
       DEF AgentStep, OwnStep
  <1>2. CASE UNCHANGED vars
    BY <1>2 DEF vars, StageInv, OneActor, OneWaits, SoundRow, Acting, Waiting, Stage,
                CreateStage, AnswerStage, BuildStage, DecideStage, PushStage, Going, Reaching
  <1> QED BY <1>1, <1>2, CallKeepsStage, RestartKeepsStage DEF Next

\* A job is at one stage at a time.
THEOREM OneStageAtATime ==
    ASSUME MaxOpen = 1, "cancel" \notin Calls PROVE Spec => []StageInv
  <1>1. ControlInv /\ SlotInv /\ StageInv /\ [Next]_vars => StageInv'
    BY NextStage
  <1> QED BY <1>1, InitStage, ControlKept, SlotsExclusive, PTL DEF Spec

\* The files of a job under review or beyond were built from every answer it was
\* given.
THEOREM BuildsUseAllAnswers ==
    ASSUME MaxOpen = 1, "cancel" \notin Calls PROVE Spec => []BuiltFromAnswers
  <1>1. StageInv => BuiltFromAnswers
    BY DEF StageInv, SoundRow, Offered, BuiltFromAnswers
  <1> QED BY <1>1, OneStageAtATime, PTL

\* Only a job whose review passed gets as far as asking for a token.
THEOREM PushesAreOfPassed ==
    ASSUME MaxOpen = 1, "cancel" \notin Calls PROVE Spec => []PushOffersPassed
  <1>1. StageInv => PushOffersPassed
    BY DEF StageInv, SoundRow, Offered, PushOffersPassed
  <1> QED BY <1>1, OneStageAtATime, PTL

\* A job leaves at most one repository on GitHub: a push that failed, was reported
\* as failed although it reached GitHub, or was cut off is never made again.
THEOREM OneRepositoryPerJob ==
    ASSUME MaxOpen = 1, "cancel" \notin Calls PROVE Spec => []OneRepository
  <1>1. StageInv => OneRepository
    BY DEF StageInv, SoundRow, Unpushed, Sent, OneRepository
  <1> QED BY <1>1, OneStageAtATime, PTL

-----------------------------------------------------------------------------
\* What a step does to the states: two of them change one, the rest store what
\* an agent or a client made.
TableStep ==
    \A j \in Jobs :
        \/ jobs'[j].state = jobs[j].state
        \/ jobs[j].state = None /\ jobs'[j].state = "CREATED"
        \/ JobTransition(jobs[j].state, jobs'[j].state)

LEMMA StoresKeepStates ==
    ASSUME ControlInv, NEW t \in Tasks,
           \/ Plan(t) \/ Build(t) \/ Review(t) \/ SaveAnswers(t) \/ Publish(t)
    PROVE  \A j \in Jobs : jobs'[j].state = jobs[j].state
  <1>1. jobs \in [Jobs -> JobRow] /\ \A j \in Jobs : jobs[j] \in JobRow
    BY DEF ControlInv, TypeOK
  <1>2. CASE Plan(t)
    BY <1>1, <1>2 DEF Plan, PlannerAsks, PlannerSettles, PlannerFails, JobRow
  <1>3. CASE Build(t)
    BY <1>1, <1>3 DEF Build, JobRow
  <1>4. CASE Review(t)
    BY <1>1, <1>4 DEF Review, JobRow
  <1>5. CASE SaveAnswers(t)
    BY <1>1, <1>5 DEF SaveAnswers, JobRow
  <1>6. CASE Publish(t)
    <2>1. CASE PushSucceeds(t)
      BY <1>1, <2>1 DEF PushSucceeds, JobRow
    <2>2. CASE PushFails(t)
      <3>1. PICK n \in {0, 1}, reached \in BOOLEAN :
               jobs' = [jobs EXCEPT ![task[t].job].repositories = @ + n,
                                    ![task[t].job].published = @ \/ reached]
        BY <2>2 DEF PushFails
      <3> QED BY <1>1, <3>1 DEF JobRow
    <2> QED BY <1>6, <2>1, <2>2 DEF Publish
  <1> QED BY <1>2, <1>3, <1>4, <1>5, <1>6

LEMMA WriteIsTableStep ==
    ASSUME ControlInv, StageInv, NEW t \in Tasks, WriteState(t)
    PROVE  TableStep
  <1>1. /\ task[t].pc = "write" /\ Acting(task[t]) /\ Reaching(task[t])
        /\ task[t].job \in Jobs /\ jobs \in [Jobs -> JobRow]
        /\ jobs[task[t].job] \in JobRow
    BY DEF ControlInv, TypeOK, Control, WriteState, Acting, Reaching
  <1>2. JobTransition(jobs[task[t].job].state, Head(task[t].path))
    BY <1>1, StageFollowsTable DEF StageInv
  <1>3. \A j \in Jobs : jobs'[j].state = IF j = task[t].job THEN Head(task[t].path)
                                         ELSE jobs[j].state
    BY <1>1 DEF WriteState, JobRow
  <1> QED BY <1>2, <1>3 DEF TableStep

LEMMA NextIsTableStep ==
    ASSUME ControlInv, StageInv, [Next]_vars
    PROVE  TableStep
  <1>1. jobs \in [Jobs -> JobRow] /\ \A j \in Jobs : jobs[j] \in JobRow
    BY DEF ControlInv, TypeOK
  <1>2. jobs' = jobs => TableStep
    BY DEF TableStep
  <1>3. ASSUME NEW t \in Tasks, NEW j \in Jobs, Call(t, j) PROVE TableStep
    <2>1. CASE CreateJob(t, j)
      <3>1. \A k \in Jobs : jobs'[k].state = IF k = j THEN "CREATED" ELSE jobs[k].state
        BY <1>1, <2>1 DEF CreateJob, JobRow
      <3> QED BY <2>1, <3>1 DEF CreateJob, TableStep
    <2>2. CASE ~CreateJob(t, j)
      BY <1>2, <1>3, <2>2 DEF Call, SubmitAnswers, RequestBuild, PushDecision, PushToGitHub,
                              Cancel
    <2> QED BY <2>1, <2>2
  <1>4. ASSUME NEW t \in Tasks, AgentStep(t) \/ OwnStep(t) PROVE TableStep
    <2>1. CASE \/ Plan(t) \/ Build(t) \/ Review(t) \/ SaveAnswers(t) \/ Publish(t)
      BY <2>1, StoresKeepStates DEF TableStep
    <2>2. CASE WriteState(t)
      BY <2>2, WriteIsTableStep
    <2>3. CASE CheckTransition(t) \/ Respond(t) \/ Admit(t) \/ Load(t) \/ Release(t)
      BY <1>2, <2>3 DEF CheckTransition, Respond, Admit, Load, Release
    <2> QED BY <1>4, <2>1, <2>2, <2>3 DEF AgentStep, OwnStep
  <1>5. Restart \/ UNCHANGED vars => TableStep
    BY <1>2 DEF Restart, vars
  <1> QED BY <1>3, <1>4, <1>5 DEF Next

\* Every change of state is one of the transition table, although the state is
\* checked in another transaction than it is written in.
THEOREM StatesFollowTable ==
    ASSUME MaxOpen = 1, "cancel" \notin Calls PROVE Spec => FollowsTable
  <1>1. ControlInv /\ StageInv /\ [Next]_vars =>
           [\A j \in Jobs :
              \/ jobs'[j].state = jobs[j].state
              \/ jobs[j].state = None /\ jobs'[j].state = "CREATED"
              \/ JobTransition(jobs[j].state, jobs'[j].state)]_vars
    BY NextIsTableStep DEF TableStep
  <1> QED BY <1>1, ControlKept, OneStageAtATime, PTL DEF Spec, FollowsTable
=============================================================================
