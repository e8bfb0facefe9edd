----------------------------- MODULE JobService -----------------------------
(***************************************************************************)
(* JobService of APPDEVELOPER: the jobs in its SQLite database, and the    *)
(* coroutines that work on them.  All of them run in one event loop, so an *)
(* action is what happens between two awaits; every repository call is a   *)
(* transaction of its own.                                                 *)
(*                                                                         *)
(* A task is one HTTP call with the background work it leaves behind.      *)
(* Whatever it does to the state of a job it does by _update_state, which  *)
(* reads the state, validates the transition, and then writes in another   *)
(* transaction: the actions CheckTransition and WriteState here.  A task   *)
(* carries the targets it has still to go through in `path' and what comes *)
(* after them in `next'.  Database errors are not modelled.                *)
(***************************************************************************)
EXTENDS Naturals, Sequences, FiniteSets, JobStates

CONSTANTS
    Jobs,            \* the jobs that may be created
    Tasks,           \* the calls that may be made
    NoJob,           \* not a job
    MaxConcurrent,   \* APPDEVELOPER_MAX_CONCURRENT_JOBS
    Calls,           \* the calls clients make, besides creating jobs
    MaxOpen,         \* bound: calls waiting for their answer at one time
    MaxRestarts      \* bound: restarts of the process

ASSUME JobAssumption == NoJob \notin Jobs
ASSUME BoundAssumption ==
    /\ MaxConcurrent \in Nat
    /\ MaxOpen \in Nat
    /\ MaxRestarts \in Nat

VARIABLES
    jobs,            \* the rows of the jobs table
    active,          \* _active_jobs
    task,            \* the coroutines
    restarts         \* restarts so far

vars == <<jobs, active, task, restarts>>

-----------------------------------------------------------------------------
\* Records.

None == "NONE"

\* `answers' and `brief' hold the calls whose answers they include, `built'
\* those the generated files were made from.  `report' is the outcome of the
\* last stored review.  `repositories' counts the repositories created on
\* GitHub for the job, and `published' says that its code was pushed to one.
JobRow == [state : JobState \cup {None}, answers : SUBSET Tasks,
           brief : SUBSET Tasks, built : SUBSET Tasks,
           report : {"passed", "failed", None},
           repositories : Nat, published : BOOLEAN]

NoRow == [state |-> None, answers |-> {}, brief |-> {}, built |-> {},
          report |-> None, repositories |-> 0, published |-> FALSE]

Pc == {"idle", "save", "plan", "check", "write", "respond", "admit", "load",
       "build", "review", "publish", "release", "done"}

Operation == {None, "create", "answer", "generate", "decide", "push", "cancel"}

\* `copy' is what the task has read of the job's answers or brief; `fallback'
\* the state its except clause writes if a transition of `path' is refused.
TaskRecord == [pc : Pc, op : Operation, job : Jobs \cup {NoJob},
               path : Seq(JobState), next : Pc,
               fallback : JobState \cup {None}, copy : SUBSET Tasks]

Blank == [pc |-> "idle", op |-> None, job |-> NoJob, path |-> <<>>,
          next |-> "done", fallback |-> None, copy |-> {}]

StateOf(t) == jobs[task[t].job].state

\* The calls that answer only when their work is done; create and generate
\* answer at once and go on as background tasks.
Waiting(t) ==
    /\ task[t].pc \notin {"idle", "done"}
    /\ task[t].op \in {"answer", "decide", "push", "cancel"}

CanCall(t) == task[t].pc = "idle" /\ Cardinality({u \in Tasks : Waiting(u)}) < MaxOpen

\* The tasks between taking a build slot and giving it back.
Builder(t) == task[t].op = "generate" /\ task[t].pc \notin {"idle", "admit", "done"}

\* Task t goes on at pc, or goes through the states of path and on at pc.
Goto(t, pc) == task' = [task EXCEPT ![t].pc = pc]

Through(record, path, pc, fallback) ==
    [record EXCEPT !.pc = "check", !.path = path, !.next = pc, !.fallback = fallback]

Pursue(t, path, pc, fallback) ==
    task' = [task EXCEPT ![t] = Through(@, path, pc, fallback)]

-----------------------------------------------------------------------------
\* Calls.  A call whose state check fails is answered 400 and does nothing.

Begin(t, op, j) == [Blank EXCEPT !.op = op, !.job = j]

\* POST /v1/jobs: the row is committed, then run_pipeline starts the planner.
CreateJob(t, j) ==
    /\ task[t].pc = "idle"
    /\ jobs[j].state = None
    /\ jobs' = [jobs EXCEPT ![j].state = "CREATED"]
    /\ task' = [task EXCEPT ![t] =
          Through(Begin(t, "create", j), <<"ARCHITECTURE_PROPOSED">>, "plan", None)]
    /\ UNCHANGED <<active, restarts>>

SubmitAnswers(t, j) ==
    /\ CanCall(t)
    /\ jobs[j].state = "AWAITING_ANSWERS"
    /\ task' = [task EXCEPT ![t] = [Begin(t, "answer", j) EXCEPT
                  !.pc = "save", !.copy = jobs[j].answers \cup {t}]]
    /\ UNCHANGED <<jobs, active, restarts>>

\* POST generate schedules the build whatever the state of the job.
RequestBuild(t, j) ==
    /\ task[t].pc = "idle"
    /\ jobs[j].state # None
    /\ task' = [task EXCEPT ![t] = [Begin(t, "generate", j) EXCEPT !.pc = "admit"]]
    /\ UNCHANGED <<jobs, active, restarts>>

PushDecision(t, j) ==
    /\ CanCall(t)
    /\ jobs[j].state = "VERIFIED"
    /\ \E choice \in {"AWAITING_GITHUB_TOKEN", "CANCELLED"} :
          task' = [task EXCEPT ![t] = Through(Begin(t, "decide", j),
                      <<"AWAITING_PUSH_DECISION", choice>>, "done", None)]
    /\ UNCHANGED <<jobs, active, restarts>>

\* Mutant of PushToGitHub: PUSHING is not written before the push.
PushWithoutMark(t, j) ==
    /\ CanCall(t)
    /\ jobs[j].state = "AWAITING_GITHUB_TOKEN"
    /\ task' = [task EXCEPT ![t] = [Begin(t, "push", j) EXCEPT !.pc = "publish"]]
    /\ UNCHANGED <<jobs, active, restarts>>

PushToGitHub(t, j) ==
    /\ CanCall(t)
    /\ jobs[j].state = "AWAITING_GITHUB_TOKEN"
    /\ task' = [task EXCEPT ![t] =
          Through(Begin(t, "push", j), <<"PUSHING">>, "publish", None)]
    /\ UNCHANGED <<jobs, active, restarts>>

Cancel(t, j) ==
    /\ CanCall(t)
    /\ jobs[j].state \notin Closed \cup {None}
    /\ task' = [task EXCEPT ![t] =
          Through(Begin(t, "cancel", j), <<"CANCELLED">>, "done", None)]
    /\ UNCHANGED <<jobs, active, restarts>>

-----------------------------------------------------------------------------
\* _update_state.

\* Mutant of Refused: a refused build does not reach the finally clause.
RefusedWithoutFinally(t) ==
    IF task[t].fallback # None
    THEN Pursue(t, <<task[t].fallback>>, task[t].next, None)
    ELSE Goto(t, "done")

\* A refused transition raises: the except clause of the task tries its own
\* state, else the task ends, through generate's finally if it is a build.
Refused(t) ==
    IF task[t].fallback # None
    THEN Pursue(t, <<task[t].fallback>>, task[t].next, None)
    ELSE Goto(t, IF Builder(t) THEN "release" ELSE "done")

CheckTransition(t) ==
    /\ task[t].pc = "check"
    /\ IF JobTransition(StateOf(t), Head(task[t].path)) THEN Goto(t, "write") ELSE Refused(t)
    /\ UNCHANGED <<jobs, active, restarts>>

\* Mutant of WriteState: of several targets only the last is written.
WriteLastState(t) ==
    /\ task[t].pc = "write"
    /\ jobs' = [jobs EXCEPT ![task[t].job].state = task[t].path[Len(task[t].path)]]
    /\ Goto(t, task[t].next)
    /\ UNCHANGED <<active, restarts>>

\* The UPDATE names the job and no expected state.
WriteState(t) ==
    /\ task[t].pc = "write"
    /\ jobs' = [jobs EXCEPT ![task[t].job].state = Head(task[t].path)]
    /\ task' = [task EXCEPT
          ![t].path = Tail(@),
          ![t].pc = IF Len(task[t].path) > 1 THEN "check" ELSE task[t].next]
    /\ UNCHANGED <<active, restarts>>

-----------------------------------------------------------------------------
\* Planning: start_architecture and submit_answers.

\* set_answers replaces the stored answers by the copy read with the state.
SaveAnswers(t) ==
    /\ task[t].pc = "save"
    /\ jobs' = [jobs EXCEPT ![task[t].job].answers = task[t].copy]
    /\ Goto(t, "plan")
    /\ UNCHANGED <<active, restarts>>

\* The brief of the first plan is stored at once, a later one when settled.
PlannerAsks(t) ==
    IF task[t].op = "create"
    THEN /\ jobs' = [jobs EXCEPT ![task[t].job].brief = {}]
         /\ Pursue(t, <<"AWAITING_ANSWERS">>, "respond", None)
    ELSE /\ UNCHANGED jobs
         /\ Pursue(t, <<"ARCHITECTURE_PROPOSED", "AWAITING_ANSWERS">>, "respond", None)

\* Mutant of PlannerSettles: the brief is made as in the first plan.
PlannerSettlesEarly(t) ==
    /\ jobs' = [jobs EXCEPT ![task[t].job].brief = {}]
    /\ Pursue(t, <<"READY_TO_GENERATE">>, "respond", None)

PlannerSettles(t) ==
    /\ jobs' = [jobs EXCEPT ![task[t].job].brief = task[t].copy]
    /\ Pursue(t, <<"READY_TO_GENERATE">>, "respond", None)

\* The planner raises: nothing records it in the state of the job.
PlannerFails(t) == Goto(t, "done") /\ UNCHANGED jobs

Plan(t) ==
    /\ task[t].pc = "plan"
    /\ PlannerAsks(t) \/ PlannerSettles(t) \/ PlannerFails(t)
    /\ UNCHANGED <<active, restarts>>

\* The answer repeats the state of the job; if that is READY_TO_GENERATE the
\* same task goes on to build it in the background.
Respond(t) ==
    /\ task[t].pc = "respond"
    /\ task' = [task EXCEPT ![t] =
          IF StateOf(t) = "READY_TO_GENERATE"
          THEN [Begin(t, "generate", @.job) EXCEPT !.pc = "admit"]
          ELSE [@ EXCEPT !.pc = "done"]]
    /\ UNCHANGED <<jobs, active, restarts>>

-----------------------------------------------------------------------------
\* Builds: generate.

\* Mutant of Admissible: one build too many.
AdmissibleOneMore(j) == Cardinality(active) <= MaxConcurrent /\ j \notin active

Admissible(j) == Cardinality(active) < MaxConcurrent /\ j \notin active

\* Under the lock: at capacity, or when the job is being built, the call raises
\* before the try block, and only a log line says so.
Admit(t) ==
    /\ task[t].pc = "admit"
    /\ IF Admissible(task[t].job)
       THEN active' = active \cup {task[t].job} /\ Goto(t, "load")
       ELSE UNCHANGED active /\ Goto(t, "done")
    /\ UNCHANGED <<jobs, restarts>>

Load(t) ==
    /\ task[t].pc = "load"
    /\ task' = [task EXCEPT ![t] =
          IF StateOf(t) = "READY_TO_GENERATE"
          THEN [Through(@, <<"GENERATING">>, "build", None) EXCEPT
                  !.copy = jobs[task[t].job].brief]
          ELSE [@ EXCEPT !.pc = "release"]]
    /\ UNCHANGED <<jobs, active, restarts>>

\* run_builder and the files it returns, or anything they raise.
Build(t) ==
    /\ task[t].pc = "build"
    /\ \/ /\ jobs' = [jobs EXCEPT ![task[t].job].built = task[t].copy]
          /\ Pursue(t, <<"REVIEWING">>, "review", None)
       \/ /\ UNCHANGED jobs
          /\ Pursue(t, <<"FAILED">>, "release", None)
    /\ UNCHANGED <<active, restarts>>

\* Mutant of Review: the stored report's answer is not consulted.
ReviewUnread(t) ==
    /\ task[t].pc = "review"
    /\ \E judged \in {"passed", "failed"} :
          jobs' = [jobs EXCEPT ![task[t].job].report = judged]
    /\ Pursue(t, <<"VERIFIED">>, "release", "REVIEW_FAILED")
    /\ UNCHANGED <<active, restarts>>

\* Mutant of Review: what the reviewer raises is stored as a report.
ReviewStoresError(t) ==
    /\ task[t].pc = "review"
    /\ jobs' = [jobs EXCEPT ![task[t].job].report = "error"]
    /\ Pursue(t, <<"REVIEW_FAILED">>, "release", None)
    /\ UNCHANGED <<active, restarts>>

\* run_review_cycle and its report, or anything they raise.
Review(t) ==
    /\ task[t].pc = "review"
    /\ \/ /\ jobs' = [jobs EXCEPT ![task[t].job].report = "passed"]
          /\ Pursue(t, <<"VERIFIED">>, "release", "REVIEW_FAILED")
       \/ /\ jobs' = [jobs EXCEPT ![task[t].job].report = "failed"]
          /\ Pursue(t, <<"REVIEW_FAILED">>, "release", "REVIEW_FAILED")
       \/ /\ UNCHANGED jobs
          /\ Pursue(t, <<"REVIEW_FAILED">>, "release", None)
    /\ UNCHANGED <<active, restarts>>

Release(t) ==
    /\ task[t].pc = "release"
    /\ active' = active \ {task[t].job}
    /\ Goto(t, "done")
    /\ UNCHANGED <<jobs, restarts>>

-----------------------------------------------------------------------------
\* Pushes and restarts.

\* push_to_repository creates a repository, commits and pushes, and may fail
\* at any of these.  A workspace that was pushed has nothing left to commit,
\* so a second push of it fails after it has created its repository.
PushSucceeds(t) ==
    /\ ~jobs[task[t].job].published
    /\ jobs' = [jobs EXCEPT ![task[t].job].repositories = @ + 1,
                            ![task[t].job].published = TRUE]
    /\ Pursue(t, <<"PUSHED">>, "done", "PUSH_FAILED")

\* Mutant of PushFails: the exit codes of git are not looked at.
PushFailsUnnoticed(t) ==
    /\ jobs' = [jobs EXCEPT ![task[t].job].repositories = @ + 1]
    /\ Pursue(t, <<"PUSHED">>, "done", "PUSH_FAILED")

\* Mutant of PushFails: the exception is not caught.
PushRaises(t) ==
    /\ \E created \in {0, 1} :
          jobs' = [jobs EXCEPT ![task[t].job].repositories = @ + created]
    /\ Goto(t, "done")

\* A push that fails may have reached GitHub: `git push' is killed after its
\* timeout, and the clean-up or the last event may raise after it.
PushFails(t) ==
    /\ \E created \in {0, 1}, reached \in BOOLEAN :
          /\ reached => created = 1 /\ ~jobs[task[t].job].published
          /\ jobs' = [jobs EXCEPT ![task[t].job].repositories = @ + created,
                                  ![task[t].job].published = @ \/ reached]
    /\ Pursue(t, <<"PUSH_FAILED">>, "done", None)

Publish(t) ==
    /\ task[t].pc = "publish"
    /\ PushSucceeds(t) \/ PushFails(t)
    /\ UNCHANGED <<active, restarts>>

\* The process restarts: coroutines and _active_jobs are gone, the rows stay,
\* and lifespan() starts nothing for them.
Restart ==
    /\ restarts < MaxRestarts
    /\ restarts' = restarts + 1
    /\ task' = [t \in Tasks |-> IF task[t].pc = "idle" THEN task[t]
                                ELSE [task[t] EXCEPT !.pc = "done"]]
    /\ active' = {}
    /\ UNCHANGED jobs

-----------------------------------------------------------------------------
Init ==
    /\ jobs = [j \in Jobs |-> NoRow]
    /\ active = {}
    /\ task = [t \in Tasks |-> Blank]
    /\ restarts = 0

Call(t, j) ==
    \/ CreateJob(t, j)
    \/ "answer" \in Calls /\ SubmitAnswers(t, j)
    \/ "generate" \in Calls /\ RequestBuild(t, j)
    \/ "decide" \in Calls /\ PushDecision(t, j)
    \/ "push" \in Calls /\ PushToGitHub(t, j)
    \/ "cancel" \in Calls /\ Cancel(t, j)

\* What a planner, builder or reviewer agent does for t, and what t does alone.
AgentStep(t) == Plan(t) \/ Build(t) \/ Review(t)

OwnStep(t) ==
    \/ CheckTransition(t) \/ WriteState(t)
    \/ SaveAnswers(t) \/ Respond(t)
    \/ Admit(t) \/ Load(t) \/ Release(t)
    \/ Publish(t)

Next ==
    \/ \E t \in Tasks, j \in Jobs : Call(t, j)
    \/ \E t \in Tasks : AgentStep(t) \/ OwnStep(t)
    \/ Restart

Spec == Init /\ [][Next]_vars

\* The event loop is fair, and GitHub and git calls have timeouts.  The query
\* of an agent has none, so nothing is assumed of agents.
FairSpec == Spec /\ \A t \in Tasks : WF_vars(OwnStep(t))

-----------------------------------------------------------------------------
\* Safety.

\* Every variable keeps its type.
TypeOK ==
    /\ jobs \in [Jobs -> JobRow]
    /\ active \subseteq Jobs
    /\ task \in [Tasks -> TaskRecord]
    /\ restarts \in Nat

\* generate() keeps the promise of BuildSlots: with the jobs in _active_jobs as
\* its only record it never lets two tasks build one job, nor more than
\* max_concurrent tasks build, and whatever is refused or raised on the way
\* no build leaves its entry behind.
Slots == INSTANCE BuildSlots WITH
    building <- {[task |-> t, job |-> task[t].job] : t \in {u \in Tasks : Builder(u)}}

SlotsKept == Slots!Spec

\* _active_jobs is exact: the jobs in it are the jobs somebody builds, so no
\* refused, failed or cancelled build uses up capacity.
SlotsExact == active = {task[t].job : t \in {u \in Tasks : Builder(u)}}

\* IMPLEMENTATION_PROMPT.md, "never label it verified": a job reads VERIFIED
\* only if its last stored review passed, also when late writes of other calls
\* send it through a second build.
VerifiedPassed ==
    \A j \in Jobs : jobs[j].state = "VERIFIED" => jobs[j].report = "passed"

\* A job that reads PUSHED is on GitHub, although push_to_github writes PUSHED
\* over whatever overlapping pushes and cancels have made of the job.
PushedIsPublished ==
    \A j \in Jobs : jobs[j].state = "PUSHED" =>
        jobs[j].published /\ jobs[j].repositories > 0

-----------------------------------------------------------------------------
\* What a client that makes one call at a time can rely on.

\* Every change of state is one of the transition table, although the table is
\* consulted in another transaction than the write.
FollowsTable ==
    [][\A j \in Jobs :
          \/ jobs'[j].state = jobs[j].state
          \/ jobs[j].state = None /\ jobs'[j].state = "CREATED"
          \/ JobTransition(jobs[j].state, jobs'[j].state)]_vars

\* The files of a job under review or beyond were built from every answer it
\* was given, although brief and answers are stored by separate transactions
\* and the builder reads the brief once.
BuiltFromAnswers ==
    \A j \in Jobs : jobs[j].state \in {"REVIEWING", "VERIFIED", "PUSHING", "PUSHED"} =>
        jobs[j].built = jobs[j].answers

\* IMPLEMENTATION_PROMPT.md, "never offer GitHub push": only a job whose
\* review passed gets as far as asking for a token.
PushOffersPassed ==
    \A j \in Jobs :
        jobs[j].state \in {"AWAITING_GITHUB_TOKEN", "PUSHING", "PUSHED", "PUSH_FAILED"} =>
            jobs[j].report = "passed"

\* A job leaves at most one repository on GitHub, and its state tells of the push
\* that made it: a push that failed, was reported as failed although it reached
\* GitHub, or was cut off by a restart is never made a second time.
OneRepository ==
    \A j \in Jobs :
        \/ jobs[j].repositories = 0 /\ ~jobs[j].published
        \/ jobs[j].repositories = 1 /\ jobs[j].state \in {"PUSHING", "PUSHED", "PUSH_FAILED"}

-----------------------------------------------------------------------------
\* Liveness.

AgentWorks(j) ==
    \E t \in Tasks : task[t].job = j /\ task[t].pc \in {"plan", "build", "review"}

\* A build slot comes back unless an agent keeps the build waiting.
SlotComesBack == \A j \in Jobs : j \in active ~> (j \notin active \/ AgentWorks(j))

InWork == {"CREATED", "GENERATING", "REVIEWING", "PUSHING"}

\* A job does not stay in a state that says somebody works on it, unless an
\* agent does.
WorkIsFinished ==
    \A j \in Jobs :
        jobs[j].state \in InWork ~> (jobs[j].state \notin InWork \/ AgentWorks(j))
=============================================================================
