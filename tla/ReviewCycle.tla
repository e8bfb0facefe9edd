----------------------------- MODULE ReviewCycle -----------------------------
(***************************************************************************)
(* The review of a generated application: run_review_cycle with the        *)
(* validation it runs and the reviewer and fixer it asks, and what         *)
(* generate() makes of its report.  All of it is announced by JobEvents,   *)
(* and a call of cancel may end the job meanwhile.                         *)
(***************************************************************************)
EXTENDS JobEvents

CONSTANTS
    MaxRounds,       \* MAX_REVIEW_ROUNDS
    MaxFindings,     \* bound: findings of one report
    FirstCancel,     \* bound: the round from which on a cancel is made
    Leaves           \* bound: the sets of files a builder may leave

ASSUME RoundAssumption == MaxRounds \in Nat \ {0} /\ MaxFindings \in Nat /\ FirstCancel \in Nat \ {0}

VARIABLES
    files,           \* what the workspace holds that validation looks at
    cycle,           \* the review
    cancel,          \* the cancelling calls
    cancelled        \* a cancelling call has written its state

reviewVars == <<files, cycle, cancel, cancelled>>

vars == <<eventVars, reviewVars>>

-----------------------------------------------------------------------------
\* The manifests in the order in which they are looked for.
Manifests == <<"pyproject.toml", "requirements.txt", "package.json", "Cargo.toml">>

Commands(manifest) ==
    CASE manifest = "pyproject.toml"   -> {"install", "test", "lint", "format", "typecheck"}
      [] manifest = "requirements.txt" -> {"install", "test"}
      [] manifest = "package.json"     -> {"install", "test", "lint", "build"}
      [] manifest = "Cargo.toml"       -> {"install", "test", "lint"}

\* The files a builder may leave, and those of them that cannot be decoded.
Files == [names : SUBSET Range(Manifests), broken : SUBSET Range(Manifests)]

Present == {i \in DOMAIN Manifests : Manifests[i] \in files.names}

Detected == Manifests[Min(Present)]

\* run_subprocess: a command exits with 0 or not, or is killed at its timeout.
\* One that cannot be started raises, and counts as failed.
Outcome == [passed : BOOLEAN]

\* The others are run all the same.  Without a manifest nothing is run.
Validations ==
    IF Present = {} THEN {TRUE}
    ELSE {\A c \in Commands(Detected) : result[c].passed :
             result \in [Commands(Detected) -> Outcome]}

\* FileNotFoundError alone means that there is no such manifest.
ValidationRaises == Present # {} /\ Detected \in files.broken

-----------------------------------------------------------------------------
\* Reports and the steps of the review.

\* `claimed' is the reviewer's own count of rounds, `open' its findings that
\* have not passed.
Report == [rounds : Nat, passed : BOOLEAN, findings : Nat, open : Nat]

NoReport == [rounds |-> 0, passed |-> FALSE, findings |-> 0, open |-> 0]

Step == {"idle", "begin", "validate", "review", "result", "finding",
         "fix", "returned", "raised", "final", "done"}

\* `said' counts the findings announced in this round, `clean' is all_passed.
CycleRecord == [pc : Step, round : Nat, clean : BOOLEAN, report : Report, said : Nat]

NotStarted == [pc |-> "idle", round |-> 0, clean |-> FALSE, report |-> NoReport, said |-> 0]

Goto(pc) == cycle' = [cycle EXCEPT !.pc = pc]

\* The coroutine goes on when the emit it awaits has returned.
At(pc) == cycle.pc = pc /\ AtRest(Build)

ReviewInit ==
    /\ files \in Leaves
    /\ cycle = NotStarted
    /\ cancel = [c \in Cancels |-> "new"]
    /\ cancelled = FALSE

-----------------------------------------------------------------------------
\* One round.

\* The loop begins another round, or generate() the first.
BeginRound ==
    /\ At("idle") \/ At("begin")
    /\ cycle' = [cycle EXCEPT !.pc = "validate", !.round = @ + 1]
    /\ BeginEmit(Build, EventOf("VALIDATION_STARTED"))
    /\ UNCHANGED <<files, cancel, cancelled>>

Validate ==
    /\ At("validate")
    /\ IF ValidationRaises THEN Goto("raised")
       ELSE \E clean \in Validations :
               cycle' = [cycle EXCEPT !.pc = "review", !.clean = clean]
    /\ UNCHANGED <<eventVars, files, cancel, cancelled>>

\* What a reviewer that answers may report, its own count of rounds included.
\* Findings of a report that passes are not told apart: nothing is fixed.
Reports(round) ==
    {report \in [rounds : {1, round}, passed : BOOLEAN, findings : 0 .. MaxFindings,
                 open : 0 .. MaxFindings] :
        report.open <= report.findings /\ (report.passed => report.open = 0)}

\* Mutant of Stamped: the reviewer's count of rounds is believed.
Believed(report, round) == report

\* The round number replaces the reviewer's.
Stamped(report, round) == [report EXCEPT !.rounds = round]

\* Whatever run_reviewer raises becomes a failed report without findings.
RunReviewer ==
    /\ At("review")
    /\ \E report \in {Stamped(r, cycle.round) : r \in Reports(cycle.round)}
                        \cup {[NoReport EXCEPT !.rounds = cycle.round]} :
          cycle' = [cycle EXCEPT !.pc = "result", !.report = report, !.said = 0]
    /\ UNCHANGED <<eventVars, files, cancel, cancelled>>

AnnounceResult ==
    /\ At("result")
    /\ Goto("finding")
    /\ BeginEmit(Build, [name |-> "VALIDATION_RESULT", passed |-> cycle.report.passed])
    /\ UNCHANGED <<files, cancel, cancelled>>

AnnounceFinding ==
    /\ At("finding") /\ cycle.said < cycle.report.findings
    /\ cycle' = [cycle EXCEPT !.said = @ + 1]
    /\ BeginEmit(Build, EventOf("REVIEW_FINDING"))
    /\ UNCHANGED <<files, cancel, cancelled>>

\* Mutant of AfterReport: the fixer is also run after the last round.
AfterReportFixLast(round, report) ==
    IF report.passed \/ report.open = 0 THEN "returned" ELSE "fix"

\* Passed, or nothing to fix: the report is returned; also after the last round.
AfterReport(round, report) ==
    IF report.passed \/ report.open = 0 \/ round = MaxRounds THEN "returned" ELSE "fix"

Decide ==
    /\ At("finding") /\ cycle.said = cycle.report.findings
    /\ Goto(AfterReport(cycle.round, cycle.report))
    /\ UNCHANGED <<eventVars, files, cancel, cancelled>>

\* run_fixer answers with fixes that nothing writes, or raises: no file changes.
RunFixer ==
    /\ At("fix")
    /\ Goto("begin")
    /\ UNCHANGED <<eventVars, files, cancel, cancelled>>

-----------------------------------------------------------------------------
\* generate() after the review, and cancel().

\* Mutant of Conclude: what breaks the review off is logged and no more.
ConcludeQuietly ==
    /\ At("returned") \/ At("raised")
    /\ IF cycle.pc = "returned" THEN Goto("final") /\ BeginEmit(Build, EventOf("STATE_CHANGED"))
       ELSE Goto("done") /\ UNCHANGED eventVars
    /\ UNCHANGED <<files, cancel, cancelled>>

\* _update_state writes VERIFIED or REVIEW_FAILED; it may find the job cancelled
\* and raise, and then the except clause of generate raises too.
Conclude ==
    /\ At("returned") \/ At("raised")
    /\ \/ /\ Goto("final")
          /\ BeginEmit(Build, EventOf("STATE_CHANGED"))
       \/ /\ cancelled
          /\ Goto("done")
          /\ UNCHANGED eventVars
    /\ UNCHANGED <<files, cancel, cancelled>>

Verified == cycle.report.passed

AnnounceEnd ==
    /\ At("final")
    /\ Goto("done")
    /\ BeginEmit(Build, EventOf(IF Verified THEN "COMPLETED" ELSE "ERROR"))
    /\ UNCHANGED <<files, cancel, cancelled>>

\* cancel() has found the job under review or verified, and writes CANCELLED.
\* Two calls may both have read the state before either writes.
Cancel(c) ==
    /\ cancel[c] = "new" /\ AtRest(c)
    /\ cycle.round >= FirstCancel /\ cycle.pc # "done"
    /\ cycle.pc = "final" => Verified
    /\ cancel' = [cancel EXCEPT ![c] = "written"]
    /\ cancelled' = TRUE
    /\ BeginEmit(c, EventOf("STATE_CHANGED"))
    /\ UNCHANGED <<files, cycle>>

AnnounceCancel(c) ==
    /\ cancel[c] = "written" /\ AtRest(c)
    /\ cancel' = [cancel EXCEPT ![c] = "done"]
    /\ BeginEmit(c, EventOf("COMPLETED"))
    /\ UNCHANGED <<files, cycle, cancelled>>

-----------------------------------------------------------------------------
AgentStep == RunReviewer \/ RunFixer

\* What waits for the event loop, the database, or commands with a timeout.
CycleStep ==
    \/ BeginRound \/ Validate \/ AnnounceResult \/ AnnounceFinding \/ Decide
    \/ Conclude \/ AnnounceEnd

Init == EventsInit /\ ReviewInit

Next ==
    \/ CycleStep \/ AgentStep
    \/ \E c \in Cancels : Cancel(c) \/ AnnounceCancel(c)
    \/ \E e \in Emitters : EmitStep(e) /\ UNCHANGED reviewVars
    \/ \E w \in Watchers : WatcherStep(w) /\ UNCHANGED reviewVars

Spec == Init /\ [][Next]_vars

\* One event loop runs everything; agents may keep a review waiting for ever.
FairSpec ==
    /\ Spec
    /\ WF_vars(CycleStep)
    /\ \A c \in Cancels : WF_vars(AnnounceCancel(c))
    /\ \A e \in Emitters : WF_vars(EmitStep(e) /\ UNCHANGED reviewVars)
    /\ \A w \in Watchers : WF_vars(Subscribe(w) /\ UNCHANGED reviewVars)

-----------------------------------------------------------------------------
\* Safety.

\* Every variable keeps its type.
TypeOK ==
    /\ EventsTypeOK
    /\ files \in Files
    /\ cycle \in CycleRecord
    /\ cancel \in [Cancels -> {"new", "written", "done"}]
    /\ cancelled \in BOOLEAN

\* emit numbers, stores and broadcasts in three steps that may interleave with
\* those of others, and a snapshot is another step than the subscription.  All
\* the same, of each emitter's events a client gets an initial stretch in the
\* snapshot and one unbroken stretch live, both in the order they were emitted;
\* at the seam one event may come twice, or some may be missing.
FeedHasOneSeam ==
    \A w \in Watchers, e \in Emitters :
        LET told == Own(e, watcher[w].snapshot)
            live == Own(e, watcher[w].live)
            own == RowsOf(e) IN
        /\ IsPrefix(told, own)
        /\ live # <<>> => \E k \in 1 .. Len(own) :
              k >= Len(told) /\ IsPrefix(live, SubSeq(own, k, Len(own)))

\* When the review has returned, its events say what the report says: as many
\* rounds, the same judgement in the last of them, and that round's findings,
\* whatever the reviewer claims and however other calls' events come between.
ReportMatchesFeed ==
    At("returned") =>
        LET own == RowsOf(Build)
            places(name) == {i \in DOMAIN own : rows[own[i]].event.name = name}
            last == Max(places("VALIDATION_RESULT")) IN
        /\ Cardinality(places("VALIDATION_STARTED")) = cycle.report.rounds
        /\ Cardinality(places("VALIDATION_RESULT")) = cycle.report.rounds
        /\ rows[own[last]].event.passed = cycle.report.passed
        /\ Len(own) - last = cycle.report.findings

\* The review keeps ReviewContract.
Phase ==
    CASE cycle.pc \in {"idle", "begin", "validate", "review"} -> "due"
      [] cycle.pc = "raised" -> "failed"
      [] OTHER -> IF cycle.report.passed THEN "passed"
                  ELSE IF cycle.report.open > 0 /\ cycle.pc \in {"result", "finding", "fix"}
                  THEN "found" ELSE "failed"

Contract == INSTANCE ReviewContract WITH
    rounds <- cycle.report.rounds,
    phase <- Phase

CycleKeepsContract == Contract!Spec

-----------------------------------------------------------------------------
\* Liveness.

Ends == {"COMPLETED", "ERROR"}

Told(w) == \E i \in DOMAIN watcher[w].live : rows[watcher[w].live[i]].event.name \in Ends

AgentWorks == cycle.pc \in {"review", "fix"}

\* A client that is subscribed before the end of the job is in the table, and
\* stays, is told that the job has ended, by its review or by a cancel,
\* unless an agent never answers.
WatcherLearnsEnd ==
    \A w \in Watchers :
        (watcher[w].pc = "live" /\ \A i \in DOMAIN rows : rows[i].event.name \notin Ends)
            ~> (Told(w) \/ watcher[w].pc = "gone" \/ []AgentWorks)
=============================================================================
