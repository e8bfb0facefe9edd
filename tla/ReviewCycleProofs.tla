------------------------- MODULE ReviewCycleProofs -------------------------
(***************************************************************************)
(* Proofs about a review and its events, for any number of rounds, of      *)
(* findings, of cancelling calls and of clients, and any files: that it    *)
(* keeps ReviewContract, which depends on the record of the cycle alone;   *)
(* that the feed of a client has one seam, which depends on emit and the   *)
(* connections alone; and that its events say what its report says, which  *)
(* relates the two.                                                        *)
(***************************************************************************)
EXTENDS ReviewCycle, ListProofs

\* Before the reviewer of a round answers.
Working == {"validate", "review"}

\* The round that is counted and the round that has been reported.
RoundInv ==
    /\ cycle.pc = "idle" => cycle.round = 0 /\ cycle.report.rounds = 0
    /\ cycle.pc \in Working =>
          cycle.round = cycle.report.rounds + 1 /\ cycle.round <= MaxRounds
    /\ cycle.pc \in {"result", "finding"} =>
          cycle.round = cycle.report.rounds /\ cycle.round <= MaxRounds
    /\ cycle.pc \in {"fix", "begin"} =>
          cycle.round = cycle.report.rounds /\ cycle.round < MaxRounds

\* A round follows only a report that did not pass; what is fixed was found.
AnswerInv ==
    /\ cycle.pc \in Working \cup {"idle", "begin", "fix", "raised"} => ~cycle.report.passed
    /\ cycle.pc = "fix" => cycle.report.open > 0

CycleInv == cycle \in CycleRecord /\ RoundInv /\ AnswerInv

-----------------------------------------------------------------------------
\* The phase that each step of the review stands for.
LEMMA PhaseFacts ==
    ASSUME cycle \in CycleRecord
    PROVE  /\ cycle.pc \in Working \cup {"idle", "begin"} => Phase = "due"
           /\ cycle.pc = "raised" => Phase = "failed"
           /\ cycle.pc \in {"result", "finding", "fix", "returned", "final", "done"} =>
                 /\ cycle.report.passed => Phase = "passed"
                 /\ ~cycle.report.passed =>
                       Phase = IF cycle.report.open > 0
                                  /\ cycle.pc \in {"result", "finding", "fix"}
                               THEN "found" ELSE "failed"
  BY DEF CycleRecord, Phase, Working

\* The same of the next state.
LEMMA NextPhaseFacts ==
    ASSUME (cycle \in CycleRecord)'
    PROVE  /\ cycle'.pc \in Working \cup {"idle", "begin"} => Phase' = "due"
           /\ cycle'.pc = "raised" => Phase' = "failed"
           /\ cycle'.pc \in {"result", "finding", "fix", "returned", "final", "done"} =>
                 /\ cycle'.report.passed => Phase' = "passed"
                 /\ ~cycle'.report.passed =>
                       Phase' = IF cycle'.report.open > 0
                                   /\ cycle'.pc \in {"result", "finding", "fix"}
                                THEN "found" ELSE "failed"
  BY DEF CycleRecord, Phase, Working

\* A step that only moves the program on.
LEMMA GotoFacts ==
    ASSUME cycle \in CycleRecord, NEW pc \in Step, Goto(pc)
    PROVE  /\ cycle' \in CycleRecord
           /\ cycle'.pc = pc /\ cycle'.round = cycle.round
           /\ cycle'.report = cycle.report /\ cycle'.said = cycle.said
  BY DEF CycleRecord, Goto

\* Nothing that is no step of the review changes its record or its phase.
LEMMA Elsewhere ==
    ASSUME CycleInv, cycle' = cycle
    PROVE  CycleInv' /\ UNCHANGED Contract!vars
  BY DEF CycleInv, RoundInv, AnswerInv, Phase, Contract!vars

\* What an answering reviewer, or one that raises, leaves as the report.
LEMMA ReportFacts ==
    ASSUME CycleInv, RunReviewer
    PROVE  /\ cycle' \in CycleRecord
           /\ cycle'.pc = "result" /\ cycle'.round = cycle.round
           /\ cycle'.report.rounds = cycle.round
  <1>1. cycle \in CycleRecord
    BY DEF CycleInv
  <1>2. cycle.round \in Nat
    BY <1>1 DEF CycleRecord
  <1>3. PICK report \in {Stamped(r, cycle.round) : r \in Reports(cycle.round)}
                          \cup {[NoReport EXCEPT !.rounds = cycle.round]} :
           cycle' = [cycle EXCEPT !.pc = "result", !.report = report, !.said = 0]
    BY DEF RunReviewer
  <1>4. report \in Report /\ report.rounds = cycle.round
    <2>1. CASE report = [NoReport EXCEPT !.rounds = cycle.round]
      BY <2>1, <1>2 DEF NoReport, Report
    <2>2. ASSUME NEW r \in Reports(cycle.round), report = Stamped(r, cycle.round)
          PROVE  report \in Report /\ report.rounds = cycle.round
      <3>1. r \in Report
        BY <1>2, RoundAssumption DEF Reports, Report
      <3> QED BY <3>1, <2>2, <1>2 DEF Stamped, Report
    <2> QED BY <1>3, <2>1, <2>2
  <1> QED BY <1>1, <1>3, <1>4 DEF CycleRecord, Step

-----------------------------------------------------------------------------
\* A step of the review keeps the invariant and is a step of the contract.
LEMMA StepKeeps ==
    ASSUME CycleInv, CycleStep \/ AgentStep
    PROVE  CycleInv' /\ (Contract!Next \/ UNCHANGED Contract!vars)
  <1> USE DEF CycleInv
  <1>1. cycle.round \in Nat /\ cycle.report.rounds \in Nat /\ cycle.report.open \in Nat
        /\ cycle.report.passed \in BOOLEAN /\ cycle.pc \in Step /\ MaxRounds \in Nat \ {0}
    BY RoundAssumption DEF CycleRecord, Report
  <1>2. CASE BeginRound
    <2>1. /\ cycle.pc \in {"idle", "begin"}
          /\ cycle' = [cycle EXCEPT !.pc = "validate", !.round = @ + 1]
      BY <1>2 DEF BeginRound, At
    <2>2. /\ cycle' \in CycleRecord
          /\ cycle'.pc = "validate" /\ cycle'.round = cycle.round + 1
          /\ cycle'.report = cycle.report
      <3>1. cycle.round + 1 \in Nat /\ "validate" \in Step
        BY <1>1 DEF Step
      <3>2. cycle' = [cycle EXCEPT !.pc = "validate", !.round = cycle.round + 1]
        BY <2>1 DEF CycleRecord
      <3> HIDE DEF Step
      <3> QED BY <3>1, <3>2 DEF CycleRecord
    <2>3. CycleInv'
      BY <1>1, <2>1, <2>2 DEF RoundInv, AnswerInv, Working
    <2>4. Phase = "due" /\ Phase' = "due"
      BY <2>1, <2>2, PhaseFacts, NextPhaseFacts DEF Working
    <2> QED BY <2>2, <2>3, <2>4 DEF Contract!vars
  <1>3. CASE Validate
    <2>1. cycle.pc = "validate"
      BY <1>3 DEF Validate, At
    <2>2. Phase = "due"
      BY <2>1, PhaseFacts DEF Working
    <2>3. CASE Goto("raised")
      <3>1. /\ cycle' \in CycleRecord /\ cycle'.pc = "raised"
            /\ cycle'.round = cycle.round /\ cycle'.report = cycle.report
        BY <2>3, GotoFacts DEF Step
      <3>2. CycleInv'
        BY <2>1, <3>1 DEF RoundInv, AnswerInv, Working
      <3>3. Phase' = "failed"
        BY <3>1, NextPhaseFacts
      <3>4. Contract!Break
        BY <2>2, <3>1, <3>3 DEF Contract!Break
      <3> QED BY <3>2, <3>4 DEF Contract!Next
    <2>4. CASE \E clean \in Validations :
                  cycle' = [cycle EXCEPT !.pc = "review", !.clean = clean]
      <3>1. Validations \subseteq BOOLEAN
        BY DEF Validations
      <3>2. /\ cycle' \in CycleRecord /\ cycle'.pc = "review"
            /\ cycle'.round = cycle.round /\ cycle'.report = cycle.report
        BY <2>4, <3>1 DEF CycleRecord, Step
      <3>3. CycleInv'
        BY <2>1, <3>2 DEF RoundInv, AnswerInv, Working
      <3>4. Phase' = "due"
        BY <3>2, NextPhaseFacts DEF Working
      <3> QED BY <2>2, <3>2, <3>3, <3>4 DEF Contract!vars
    <2> QED BY <1>3, <2>3, <2>4 DEF Validate
  <1>4. CASE RunReviewer
    <2>1. cycle.pc = "review"
      BY <1>4 DEF RunReviewer, At
    <2>2. /\ cycle' \in CycleRecord
          /\ cycle'.pc = "result" /\ cycle'.round = cycle.round
          /\ cycle'.report.rounds = cycle.round
      BY <1>4, ReportFacts
    <2>3. CycleInv'
      BY <2>1, <2>2 DEF RoundInv, AnswerInv, Working
    <2>4. Phase = "due"
      BY <2>1, PhaseFacts DEF Working
    <2>5. Phase' \in {"found", "passed", "failed"}
      BY <2>2, NextPhaseFacts
    <2>6. cycle.report.rounds < MaxRounds /\ cycle'.report.rounds = cycle.report.rounds + 1
      BY <1>1, <2>1, <2>2 DEF RoundInv, Working
    <2>7. Contract!Review
      BY <2>4, <2>5, <2>6 DEF Contract!Review
    <2> QED BY <2>3, <2>7 DEF Contract!Next
  <1>5. CASE AnnounceResult
    <2>1. cycle.pc = "result" /\ Goto("finding")
      BY <1>5 DEF AnnounceResult, At
    <2>2. /\ cycle' \in CycleRecord /\ cycle'.pc = "finding"
          /\ cycle'.round = cycle.round /\ cycle'.report = cycle.report
      BY <2>1, GotoFacts DEF Step
    <2>3. CycleInv'
      BY <2>1, <2>2 DEF RoundInv, AnswerInv, Working
    <2>4. Phase' = Phase
      BY <1>1, <2>1, <2>2, PhaseFacts, NextPhaseFacts
    <2> QED BY <2>2, <2>3, <2>4 DEF Contract!vars
  <1>6. CASE AnnounceFinding
    <2>1. cycle.pc = "finding" /\ cycle' = [cycle EXCEPT !.said = @ + 1]
      BY <1>6 DEF AnnounceFinding, At
    <2>2. /\ cycle' \in CycleRecord /\ cycle'.pc = "finding"
          /\ cycle'.round = cycle.round /\ cycle'.report = cycle.report
      BY <2>1 DEF CycleRecord
    <2>3. CycleInv'
      BY <2>1, <2>2 DEF RoundInv, AnswerInv, Working
    <2>4. Phase' = Phase
      BY <1>1, <2>1, <2>2, PhaseFacts, NextPhaseFacts
    <2> QED BY <2>2, <2>3, <2>4 DEF Contract!vars
  <1>7. CASE Decide
    <2>1. cycle.pc = "finding" /\ Goto(AfterReport(cycle.round, cycle.report))
      BY <1>7 DEF Decide, At
    <2>2. CASE cycle.report.passed \/ cycle.report.open = 0 \/ cycle.round = MaxRounds
      <3>1. Goto("returned")
        BY <2>1, <2>2 DEF AfterReport
      <3>2. /\ cycle' \in CycleRecord /\ cycle'.pc = "returned"
            /\ cycle'.round = cycle.round /\ cycle'.report = cycle.report
        BY <3>1, GotoFacts DEF Step
      <3>3. CycleInv'
        BY <3>2 DEF RoundInv, AnswerInv, Working
      <3>4. CASE cycle.report.passed \/ cycle.report.open = 0
        <4>1. Phase' = Phase
          BY <1>1, <2>1, <3>2, <3>4, PhaseFacts, NextPhaseFacts
        <4> QED BY <3>2, <3>3, <4>1 DEF Contract!vars
      <3>5. CASE ~cycle.report.passed /\ cycle.report.open # 0
        <4>1. Phase = "found" /\ Phase' = "failed"
          BY <1>1, <2>1, <3>2, <3>5, PhaseFacts, NextPhaseFacts
        <4>2. cycle.report.rounds = MaxRounds
          BY <2>1, <2>2, <3>5 DEF RoundInv
        <4>3. Contract!GiveUp
          BY <3>2, <4>1, <4>2 DEF Contract!GiveUp
        <4> QED BY <3>3, <4>3 DEF Contract!Next
      <3> QED BY <3>4, <3>5
    <2>3. CASE ~cycle.report.passed /\ cycle.report.open # 0 /\ cycle.round # MaxRounds
      <3>1. Goto("fix")
        BY <2>1, <2>3 DEF AfterReport
      <3>2. /\ cycle' \in CycleRecord /\ cycle'.pc = "fix"
            /\ cycle'.round = cycle.round /\ cycle'.report = cycle.report
        BY <3>1, GotoFacts DEF Step
      <3>3. CycleInv'
        BY <1>1, <2>1, <2>3, <3>2 DEF RoundInv, AnswerInv, Working
      <3>4. Phase' = Phase
        BY <1>1, <2>1, <3>2, PhaseFacts, NextPhaseFacts
      <3> QED BY <3>2, <3>3, <3>4 DEF Contract!vars
    <2> QED BY <2>2, <2>3
  <1>8. CASE RunFixer
    <2>1. cycle.pc = "fix" /\ Goto("begin")
      BY <1>8 DEF RunFixer, At
    <2>2. /\ cycle' \in CycleRecord /\ cycle'.pc = "begin"
          /\ cycle'.round = cycle.round /\ cycle'.report = cycle.report
      BY <2>1, GotoFacts DEF Step
    <2>3. CycleInv'
      BY <2>1, <2>2 DEF RoundInv, AnswerInv, Working
    <2>4. Phase = "found" /\ Phase' = "due"
      BY <1>1, <2>1, <2>2, PhaseFacts, NextPhaseFacts DEF AnswerInv, Working
    <2>5. cycle.report.rounds < MaxRounds
      BY <2>1 DEF RoundInv
    <2>6. Contract!Fix
      BY <2>2, <2>4, <2>5 DEF Contract!Fix
    <2> QED BY <2>3, <2>6 DEF Contract!Next
  <1>9. CASE Conclude \/ AnnounceEnd
    <2>1. /\ cycle.pc \in {"returned", "raised", "final"}
          /\ \/ Goto("final")
             \/ Goto("done")
      BY <1>9 DEF Conclude, AnnounceEnd, At
    <2>2. /\ cycle' \in CycleRecord /\ cycle'.pc \in {"final", "done"}
          /\ cycle'.round = cycle.round /\ cycle'.report = cycle.report
      BY <2>1, GotoFacts DEF Step
    <2>3. CycleInv'
      BY <2>2 DEF RoundInv, AnswerInv, Working
    <2>4. Phase' = Phase
      BY <1>1, <2>1, <2>2, PhaseFacts, NextPhaseFacts DEF AnswerInv
    <2> QED BY <2>2, <2>3, <2>4 DEF Contract!vars
  <1> QED BY <1>2, <1>3, <1>4, <1>5, <1>6, <1>7, <1>8, <1>9 DEF CycleStep, AgentStep

\* Every step keeps the invariant and the contract.
LEMMA NextKeeps ==
    ASSUME CycleInv, [Next]_vars
    PROVE  CycleInv' /\ [Contract!Next]_Contract!vars
  <1>1. CASE CycleStep \/ AgentStep
    BY <1>1, StepKeeps
  <1>2. CASE \/ \E c \in Cancels : Cancel(c) \/ AnnounceCancel(c)
             \/ \E e \in Emitters : EmitStep(e) /\ UNCHANGED reviewVars
             \/ \E w \in Watchers : WatcherStep(w) /\ UNCHANGED reviewVars
             \/ UNCHANGED vars
    <2>1. cycle' = cycle
      BY <1>2 DEF Cancel, AnnounceCancel, reviewVars, vars
    <2> QED BY <2>1, Elsewhere
  <1> QED BY <1>1, <1>2 DEF Next

\* The initial state satisfies the invariant and the contract's.
LEMMA InitKeeps == Init => CycleInv /\ Contract!Init
  <1> SUFFICES ASSUME Init PROVE CycleInv /\ Contract!Init
    OBVIOUS
  <1>1. cycle = NotStarted
    BY DEF Init, ReviewInit
  <1>2. CycleInv
    BY <1>1 DEF NotStarted, NoReport, CycleInv, RoundInv, AnswerInv, Working,
                CycleRecord, Report, Step
  <1>3. Phase = "due" /\ cycle.report.rounds = 0
    BY <1>1, <1>2, PhaseFacts DEF NotStarted, NoReport, CycleInv
  <1> QED BY <1>2, <1>3 DEF Contract!Init

-----------------------------------------------------------------------------
\* The inductive invariant: a round is counted before its report and never
\* beyond MaxRounds, and only a report that found something leads to a fix.
THEOREM RoundsAreCounted == Spec => []CycleInv
  BY InitKeeps, NextKeeps, PTL DEF Spec

\* Whatever the agents answer, whatever raises, and however cancels and clients
\* come between, a review keeps ReviewContract: at most MaxRounds rounds, each
\* after a fix, and an end at the first report that passes.
THEOREM ReviewKeepsContract == Spec => CycleKeepsContract
  <1>1. Init => Contract!Init
    BY InitKeeps
  <1>2. CycleInv /\ [Next]_vars => [Contract!Next]_Contract!vars
    BY NextKeeps
  <1> QED BY RoundsAreCounted, <1>1, <1>2, PTL
          DEF Spec, CycleKeepsContract, Contract!Spec

-----------------------------------------------------------------------------
(***************************************************************************)
(* The feed of a client has one seam.                                      *)
(*                                                                         *)
(* The numbers an emitter gives its own events go up, since it takes a     *)
(* number when all its earlier rows are stored.  So a listing in the order *)
(* of the numbers has each emitter's rows in the order of the table,       *)
(* whatever it does with equal numbers of different emitters.  What is     *)
(* broadcast to a client are always an emitter's latest rows: all that     *)
(* have come since it subscribed.                                          *)
(***************************************************************************)

\* The rows of an emitter in a list of rows, and all of them, for any table.
OwnIn(table, e, list) == Only(list, {i \in DOMAIN table : table[i].by = e})

RowsIn(table, e) == OwnIn(table, e, [i \in DOMAIN table |-> i])

LEMMA OwnIsOwnIn ==
    ASSUME NEW e, NEW list
    PROVE  Own(e, list) = OwnIn(rows, e, list) /\ RowsOf(e) = RowsIn(rows, e)
  BY DEF Own, OwnIn, RowsOf, RowsIn

\* The rows of an emitter, in the order of the table.
LEMMA RowsFacts ==
    ASSUME NEW table \in Seq(Row), NEW e
    PROVE  /\ RowsIn(table, e) \in Seq(1 .. Len(table))
           /\ Rising(RowsIn(table, e))
           /\ \A i \in 1 .. Len(table) :
                 table[i].by = e <=> \E a \in 1 .. Len(RowsIn(table, e)) : RowsIn(table, e)[a] = i
  <1> DEFINE n == Len(table)
             chosen == {i \in DOMAIN table : table[i].by = e}
  <1>1. n \in Nat /\ DOMAIN table = 1 .. n
    BY LenProperties
  <1>2. RowsIn(table, e) = Only([i \in 1 .. n |-> i], chosen)
    BY <1>1 DEF RowsIn, OwnIn
  <1>3. \A i \in 1 .. n : i \in chosen <=> table[i].by = e
    BY <1>1
  <1> DEFINE own == Only([i \in 1 .. n |-> i], chosen)
  <1> HIDE DEF n, chosen
  <1>4. /\ own \in Seq(1 .. n)
        /\ Rising(own)
        /\ \A i \in 1 .. n : i \in chosen <=> \E a \in 1 .. Len(own) : own[a] = i
    BY <1>1, OnlyOfNumbers, ZenonT(30)
  <1> HIDE DEF own
  <1> QED BY <1>2, <1>3, <1>4 DEF n, own

\* What is taken from a list is by the emitter.
LEMMA OwnFacts ==
    ASSUME NEW table \in Seq(Row), NEW e, NEW list \in Seq(1 .. Len(table))
    PROVE  /\ OwnIn(table, e, list) \in Seq(1 .. Len(table))
           /\ \A a \in 1 .. Len(OwnIn(table, e, list)) : table[OwnIn(table, e, list)[a]].by = e
  <1> DEFINE own == OwnIn(table, e, list)
             chosen == {i \in DOMAIN table : table[i].by = e}
  <1>1. own \in Seq(1 .. Len(table)) /\ \E place : IsPlacing(list, chosen, Len(list), own, place)
    BY OnlyKeepsOrder DEF OwnIn
  <1>2. PICK place : IsPlacing(list, chosen, Len(list), own, place)
    BY <1>1
  <1> HIDE DEF own
  <1>3. \A a \in 1 .. Len(own) : own[a] \in chosen
    BY <1>2 DEF IsPlacing
  <1> QED BY <1>1, <1>3 DEF own

\* A row more changes nothing in a list of earlier rows.
LEMMA OwnStays ==
    ASSUME NEW table \in Seq(Row), NEW row \in Row, NEW e, NEW list \in Seq(1 .. Len(table))
    PROVE  OwnIn(Append(table, row), e, list) = OwnIn(table, e, list)
  <1> DEFINE longer == Append(table, row)
             n == Len(table)
             chosen == {i \in DOMAIN table : table[i].by = e}
             wanted == {i \in DOMAIN longer : longer[i].by = e}
  <1>1. /\ n \in Nat /\ DOMAIN table = 1 .. n
        /\ DOMAIN longer = 1 .. n + 1 /\ \A i \in 1 .. n : longer[i] = table[i]
    BY AppendProperties, LenProperties
  <1>2. \A i \in 1 .. n : i \in wanted <=> i \in chosen
    BY <1>1
  <1>3. Len(list) \in Nat /\ \A a \in 1 .. Len(list) : list[a] \in 1 .. n
    BY LenProperties, ElementOfSeq
  <1>4. \A a \in 1 .. Len(list) : list[a] \in wanted <=> list[a] \in chosen
    BY <1>2, <1>3
  <1> HIDE DEF chosen, wanted
  <1>5. Only(list, wanted) = Only(list, chosen)
    BY <1>3, <1>4, OnlyAgree
  <1> QED BY <1>5 DEF OwnIn, chosen, wanted

\* A row more is the last of its emitter's.
LEMMA RowsGrow ==
    ASSUME NEW table \in Seq(Row), NEW row \in Row, NEW e
    PROVE  RowsIn(Append(table, row), e) =
               IF row.by = e THEN Append(RowsIn(table, e), Len(table) + 1) ELSE RowsIn(table, e)
  <1> DEFINE longer == Append(table, row)
             n == Len(table)
             wanted == {i \in DOMAIN longer : longer[i].by = e}
             list == [i \in 1 .. n |-> i]
             more == [i \in 1 .. n + 1 |-> i]
  <1>1. /\ n \in Nat /\ DOMAIN table = 1 .. n
        /\ DOMAIN longer = 1 .. n + 1 /\ longer[n + 1] = row
    BY AppendProperties, LenProperties
  <1>2. list \in Seq(Nat) /\ n + 1 \in Nat /\ more = Append(list, n + 1) /\ list \in Seq(1 .. n)
    BY <1>1
  <1>3. n + 1 \in wanted <=> row.by = e
    BY <1>1
  <1>4. RowsIn(longer, e) = Only(more, wanted)
    BY <1>1 DEF RowsIn, OwnIn
  <1>5. RowsIn(table, e) = OwnIn(table, e, list)
    BY <1>1 DEF RowsIn
  <1>6. Only(list, wanted) = OwnIn(longer, e, list)
    BY DEF OwnIn
  <1>7. OwnIn(longer, e, list) = OwnIn(table, e, list)
    BY <1>2, OwnStays
  <1> HIDE DEF wanted, list, more
  <1>8. Only(Append(list, n + 1), wanted) =
           IF n + 1 \in wanted THEN Append(Only(list, wanted), n + 1) ELSE Only(list, wanted)
    <2> DEFINE m == n + 1
    <2>1. list \in Seq(Nat) /\ m \in Nat
      BY <1>2
    <2> HIDE DEF m
    <2>2. Only(Append(list, m), wanted) =
             IF m \in wanted THEN Append(Only(list, wanted), m) ELSE Only(list, wanted)
      BY <2>1, OnlyAppend
    <2> QED BY <2>2 DEF m
  <1> QED BY <1>2, <1>3, <1>4, <1>5, <1>6, <1>7, <1>8

\* A row more in a list.
LEMMA OwnGrows ==
    ASSUME NEW table \in Seq(Row), NEW e, NEW list \in Seq(1 .. Len(table)),
           NEW i \in 1 .. Len(table)
    PROVE  OwnIn(table, e, Append(list, i)) =
               IF table[i].by = e THEN Append(OwnIn(table, e, list), i) ELSE OwnIn(table, e, list)
  <1> DEFINE chosen == {k \in DOMAIN table : table[k].by = e}
  <1>1. i \in chosen <=> table[i].by = e
    BY LenProperties
  <1> HIDE DEF chosen
  <1>2. Only(Append(list, i), chosen) =
           IF i \in chosen THEN Append(Only(list, chosen), i) ELSE Only(list, chosen)
    <2> DEFINE S == 1 .. Len(table)
    <2>1. list \in Seq(S) /\ i \in S
      OBVIOUS
    <2> HIDE DEF S
    <2> QED BY <2>1, OnlyAppend
  <1> QED BY <1>1, <1>2 DEF OwnIn, chosen

-----------------------------------------------------------------------------
\* Among finitely many numbers one is highest.
LEMMA HighestExists ==
    ASSUME NEW n \in Nat, n > 0, NEW f, \A i \in 1 .. n : f[i] \in Nat
    PROVE  \E i \in 1 .. n : \A k \in 1 .. n : f[k] <= f[i]
  <1> DEFINE T == {m \in Nat : m > 0 /\ m <= n /\ ~\E i \in 1 .. m : \A k \in 1 .. m : f[k] <= f[i]}
  <1> SUFFICES ASSUME T # {} PROVE FALSE
    OBVIOUS
  <1>1. PICK m \in T : \A k \in T : m <= k
    BY LeastNumber
  <1>2. m \in Nat /\ m > 0 /\ m <= n /\ ~\E i \in 1 .. m : \A k \in 1 .. m : f[k] <= f[i]
    OBVIOUS
  <1>3. CASE m = 1
    BY <1>2, <1>3
  <1>4. CASE m > 1
    <2>1. m - 1 \in Nat /\ m - 1 > 0 /\ m - 1 <= n /\ ~(m <= m - 1)
      BY <1>2, <1>4
    <2>2. m - 1 \notin T
      BY <1>1, <2>1
    <2>3. PICK i \in 1 .. m - 1 : \A k \in 1 .. m - 1 : f[k] <= f[i]
      BY <2>1, <2>2
    <2>4. /\ i \in 1 .. m /\ m \in 1 .. m /\ f[i] \in Nat /\ f[m] \in Nat
          /\ \A k \in 1 .. m : k \in 1 .. m - 1 \/ k = m
          /\ \A k \in 1 .. m - 1 : f[k] \in Nat
      BY <1>2
    <2>5. CASE f[m] <= f[i]
      BY <1>2, <2>3, <2>4, <2>5
    <2>6. CASE f[m] > f[i]
      <3>1. ASSUME NEW k \in 1 .. m PROVE f[k] <= f[m]
        <4>1. CASE k = m
          BY <2>4, <4>1
        <4>2. CASE k \in 1 .. m - 1
          BY <2>3, <2>4, <2>6, <4>2
        <4> QED BY <2>4, <4>1, <4>2
      <3> QED BY <1>2, <2>4, <3>1
    <2> QED BY <2>4, <2>5, <2>6
  <1> QED BY <1>2, <1>3, <1>4

LEMMA MaxIs ==
    ASSUME NEW S \in SUBSET Int, NEW x \in S, \A y \in S : y <= x
    PROVE  Max(S) = x
  <1>1. x \in S /\ \A y \in S : x >= y
    OBVIOUS
  <1>2. \A z \in S : (\A y \in S : z >= y) => z = x
    OBVIOUS
  <1> QED BY <1>1, <1>2 DEF Max

\* The number that an event is given is above all in the table.
LEMMA NextIsAbove ==
    ASSUME rows \in Seq(Row)
    PROVE  /\ NextSequence \in Nat \ {0}
           /\ \A i \in 1 .. Len(rows) : rows[i].sequence < NextSequence
  <1> DEFINE n == Len(rows)
  <1>1. /\ n \in Nat /\ DOMAIN rows = 1 .. n /\ (rows # <<>> => n > 0)
        /\ \A i \in 1 .. n : rows[i] \in Row
    BY LenProperties, ElementOfSeq, EmptySeq
  <1>2. \A i \in 1 .. n : rows[i].sequence \in Nat \ {0}
    BY <1>1 DEF Row
  <1>3. CASE rows = <<>>
    BY <1>3 DEF NextSequence
  <1>4. CASE rows # <<>>
    <2> DEFINE f == [i \in 1 .. n |-> rows[i].sequence]
               numbers == {rows[i].sequence : i \in DOMAIN rows}
    <2>1. \A i \in 1 .. n : f[i] = rows[i].sequence /\ f[i] \in Nat
      BY <1>2
    <2> HIDE DEF f
    <2>2. PICK i \in 1 .. n : \A k \in 1 .. n : f[k] <= f[i]
      BY <1>1, <1>4, <2>1, HighestExists
    <2>3. /\ numbers \in SUBSET Int /\ f[i] \in numbers
          /\ \A y \in numbers : y <= f[i]
      BY <1>1, <1>2, <2>1, <2>2
    <2>4. Max(numbers) = f[i]
      <3> HIDE DEF numbers
      <3> QED BY <2>3, MaxIs
    <2>5. NextSequence = f[i] + 1
      BY <1>4, <2>4 DEF NextSequence
    <2> QED BY <1>2, <2>1, <2>2, <2>5
  <1> QED BY <1>3, <1>4

-----------------------------------------------------------------------------
\* The order of a listing is total, so every row has a rank of its own, which
\* is the number of those before it; and all ranks are taken.
Earlier(i, olderFirst) == {k \in DOMAIN rows : Precedes(k, i, olderFirst)}

Rank(olderFirst) == [i \in 1 .. Len(rows) |-> Cardinality(Earlier(i, olderFirst))]

LEMMA PrecedesFacts ==
    ASSUME rows \in Seq(Row), NEW o \in BOOLEAN
    PROVE  /\ \A i \in 1 .. Len(rows) : ~Precedes(i, i, o)
           /\ \A i, k \in 1 .. Len(rows) : i # k => Precedes(i, k, o) \/ Precedes(k, i, o)
           /\ \A i, j, k \in 1 .. Len(rows) :
                 Precedes(i, j, o) /\ Precedes(j, k, o) => Precedes(i, k, o)
  <1>1. Len(rows) \in Nat /\ \A i \in 1 .. Len(rows) : rows[i] \in Row
    BY ElementOfSeq, LenProperties
  <1>2. \A i \in 1 .. Len(rows) : rows[i].sequence \in Nat /\ i \in Int
    BY <1>1 DEF Row
  <1> QED BY <1>2 DEF Precedes

LEMMA RankFacts ==
    ASSUME rows \in Seq(Row), NEW o \in BOOLEAN
    PROVE  /\ Rank(o) \in Bijection(1 .. Len(rows), 0 .. Len(rows) - 1)
           /\ \A i, k \in 1 .. Len(rows) : Precedes(i, k, o) <=> Rank(o)[i] < Rank(o)[k]
  <1> DEFINE n == Len(rows)
             rank == Rank(o)
  <1>1. n \in Nat /\ DOMAIN rows = 1 .. n
    BY LenProperties
  <1>2. /\ IsFiniteSet(1 .. n) /\ Cardinality(1 .. n) = n
        /\ IsFiniteSet(0 .. n - 1) /\ Cardinality(0 .. n - 1) = n
    <2>1. PICK m \in Nat : m = n
      BY <1>1
    <2>2. m - 1 \in Int
      OBVIOUS
    <2>3. IsFiniteSet(1 .. m) /\ Cardinality(1 .. m) = IF 1 > m THEN 0 ELSE m - 1 + 1
      BY FS_Interval
    <2>4. IsFiniteSet(0 .. m - 1) /\ Cardinality(0 .. m - 1) = IF 0 > m - 1 THEN 0 ELSE m - 1 - 0 + 1
      BY <2>2, FS_Interval
    <2> HIDE DEF n
    <2> QED BY <2>1, <2>3, <2>4
  <1>3. ASSUME NEW i \in 1 .. n
        PROVE  /\ IsFiniteSet(Earlier(i, o)) /\ Cardinality(Earlier(i, o)) \in 0 .. n - 1
               /\ Earlier(i, o) \subseteq 1 .. n /\ i \notin Earlier(i, o)
    <2>1. Earlier(i, o) \subseteq 1 .. n /\ i \notin Earlier(i, o)
      BY <1>1, PrecedesFacts DEF Earlier
    <2>2. /\ IsFiniteSet(Earlier(i, o)) /\ Cardinality(Earlier(i, o)) <= n
          /\ n = Cardinality(Earlier(i, o)) => 1 .. n = Earlier(i, o)
      BY <1>2, <2>1, FS_Subset
    <2>3. Cardinality(Earlier(i, o)) \in Nat
      BY <2>2, FS_CardinalityType
    <2> QED BY <1>1, <2>1, <2>2, <2>3
  <1>4. /\ rank \in [1 .. n -> 0 .. n - 1]
        /\ \A i \in 1 .. n : rank[i] = Cardinality(Earlier(i, o)) /\ rank[i] \in Nat
    BY <1>3 DEF Rank
  <1> HIDE DEF rank
  <1>5. ASSUME NEW i \in 1 .. n, NEW k \in 1 .. n, Precedes(i, k, o)
        PROVE  rank[i] < rank[k]
    <2>1. Earlier(i, o) \cup {i} \subseteq Earlier(k, o)
      BY <1>1, <1>5, PrecedesFacts DEF Earlier
    <2>2. Cardinality(Earlier(i, o) \cup {i}) = Cardinality(Earlier(i, o)) + 1
      BY <1>3, FS_AddElement
    <2>3. Cardinality(Earlier(i, o) \cup {i}) <= Cardinality(Earlier(k, o))
      BY <1>3, <2>1, FS_Subset
    <2> QED BY <1>4, <2>2, <2>3
  <1>6. ASSUME NEW i \in 1 .. n, NEW k \in 1 .. n, rank[i] < rank[k]
        PROVE  Precedes(i, k, o)
    <2>1. rank[i] \in Nat /\ rank[k] \in Nat
      BY <1>4
    <2>2. i # k
      BY <1>6, <2>1
    <2>3. ~Precedes(k, i, o)
      BY <1>5, <1>6, <2>1
    <2> QED BY <2>2, <2>3, PrecedesFacts
  <1>7. rank \in Injection(1 .. n, 0 .. n - 1)
    <2>1. \A i, k \in 1 .. n : rank[i] = rank[k] => i = k
      <3>1. ASSUME NEW i \in 1 .. n, NEW k \in 1 .. n, rank[i] = rank[k], i # k PROVE FALSE
        <4>1. Precedes(i, k, o) \/ Precedes(k, i, o)
          BY <3>1, PrecedesFacts
        <4>2. rank[i] < rank[k] \/ rank[k] < rank[i]
          BY <1>5, <4>1
        <4> QED BY <1>4, <3>1, <4>2
      <3> QED BY <3>1
    <2> QED BY <1>4, <2>1 DEF Injection, IsInjective
  <1>8. rank \in Surjection(1 .. n, 0 .. n - 1)
    <2> HIDE DEF n
    <2> QED BY <1>2, <1>7, FS_Injection
  <1> QED BY <1>5, <1>6, <1>7, <1>8 DEF Bijection, rank

\* A listing has all rows, each where its rank says.
LEMMA ListingFacts ==
    ASSUME rows \in Seq(Row), NEW o \in BOOLEAN
    PROVE  /\ Listing(o) \in Seq(1 .. Len(rows)) /\ Len(Listing(o)) = Len(rows)
           /\ \A a \in 1 .. Len(rows) : Rank(o)[Listing(o)[a]] = a - 1
           /\ \A i \in 1 .. Len(rows) : \E a \in 1 .. Len(rows) : Listing(o)[a] = i
  <1> DEFINE n == Len(rows)
             rank == Rank(o)
             list == Listing(o)
  <1>1. n \in Nat /\ DOMAIN rows = 1 .. n
    BY LenProperties
  <1>2. /\ rank \in [1 .. n -> 0 .. n - 1]
        /\ \A i, k \in 1 .. n : rank[i] = rank[k] => i = k
        /\ \A m \in 0 .. n - 1 : \E i \in 1 .. n : rank[i] = m
    BY RankFacts DEF Bijection, Injection, Surjection, IsInjective
  <1>3. /\ DOMAIN list = 1 .. n
        /\ \A a \in 1 .. n : list[a] = CHOOSE i \in 1 .. n : rank[i] = a - 1
    <2>1. \A a, i \in 1 .. n :
             Cardinality({k \in DOMAIN rows : Precedes(k, i, o)}) = rank[i]
      BY DEF Rank, Earlier
    <2>2. \A a \in 1 .. n :
             list[a] = CHOOSE i \in 1 .. n :
                          Cardinality({k \in DOMAIN rows : Precedes(k, i, o)}) = a - 1
      BY <1>1 DEF Listing
    <2>3. DOMAIN list = 1 .. n
      BY <1>1 DEF Listing
    <2> HIDE DEF rank, list
    <2> QED BY <2>1, <2>2, <2>3
  <1> HIDE DEF rank, list
  <1>4. \A a \in 1 .. n : list[a] \in 1 .. n /\ rank[list[a]] = a - 1
    <2>1. ASSUME NEW a \in 1 .. n PROVE list[a] \in 1 .. n /\ rank[list[a]] = a - 1
      <3>1. a - 1 \in 0 .. n - 1
        BY <1>1
      <3>2. \E i \in 1 .. n : rank[i] = a - 1
        BY <1>2, <3>1
      <3> QED BY <1>3, <3>2
    <2> QED BY <2>1
  <1>5. list \in Seq(1 .. n) /\ Len(list) = n
    <2> DEFINE at(a) == CHOOSE i \in DOMAIN rows :
                             Cardinality({k \in DOMAIN rows : Precedes(k, i, o)}) = a - 1
    <2>1. list = [a \in 1 .. n |-> at(a)]
      BY <1>1 DEF list, Listing
    <2> HIDE DEF at
    <2>2. \A a \in 1 .. n : at(a) \in 1 .. n
      BY <1>4, <2>1
    <2> QED BY <1>1, <2>1, <2>2
  <1>6. ASSUME NEW i \in 1 .. n PROVE \E a \in 1 .. n : list[a] = i
    <2>1. rank[i] \in 0 .. n - 1
      BY <1>2
    <2>2. PICK a \in 1 .. n : a = rank[i] + 1
      BY <1>1, <2>1
    <2>3. rank[list[a]] = rank[i] /\ list[a] \in 1 .. n
      BY <1>4, <2>1, <2>2
    <2> QED BY <1>2, <2>3
  <1> QED BY <1>4, <1>5, <1>6 DEF list, rank

-----------------------------------------------------------------------------
\* The rows that have been offered to the subscribers.
Offers(e) == Len(RowsIn(rows, e)) - (IF emit[e].pc = "stored" THEN 1 ELSE 0)

\* Each emitter's numbers go up in the table, and the next one is higher still.
NumberInv ==
    /\ \A i, k \in 1 .. Len(rows) :
          rows[i].by = rows[k].by /\ i < k => rows[i].sequence < rows[k].sequence
    /\ \A e \in Emitters : emit[e].pc = "numbered" =>
          /\ emit[e].sequence > 0
          /\ \A i \in 1 .. Len(rows) : rows[i].by = e => rows[i].sequence < emit[e].sequence
    /\ \A e \in Emitters : emit[e].pc = "stored" => Len(RowsIn(rows, e)) > 0

\* What a client has is in the table, and nothing comes live unsubscribed.
HeldInv ==
    \A w \in Watchers :
        /\ watcher[w].snapshot \in Seq(1 .. Len(rows))
        /\ watcher[w].live \in Seq(1 .. Len(rows))
        /\ watcher[w].pc \in {"new", "snapshot", "gone"} => ~watcher[w].subscribed
        /\ ~watcher[w].subscribed => watcher[w].live = <<>>

\* `told' are one emitter's rows in a snapshot, `live' those that have come
\* since, `own' all it has written and `offers' how many it has broadcast.  The
\* snapshot is where own begins; what has come is the last that was offered;
\* and at most the one row not yet offered when the snapshot was taken is in both.
Seam(told, live, own, offers) ==
    /\ Len(told) <= Len(own)
    /\ \A j \in 1 .. Len(told) : told[j] = own[j]
    /\ Len(live) <= offers
    /\ Len(told) <= offers - Len(live) + 1
    /\ \A j \in 1 .. Len(live) : live[j] = own[offers - Len(live) + j]

SeamInv ==
    \A w \in Watchers, e \in Emitters :
        Seam(OwnIn(rows, e, watcher[w].snapshot), OwnIn(rows, e, watcher[w].live),
             RowsIn(rows, e), Offers(e))

FeedInv == EventsTypeOK /\ NumberInv /\ HeldInv /\ SeamInv

-----------------------------------------------------------------------------
\* An emitter's row is stored.
LEMMA SeamStored ==
    ASSUME NEW told \in Seq(Nat), NEW live \in Seq(Nat), NEW own \in Seq(Nat), NEW i \in Nat,
           NEW offers \in Nat, offers <= Len(own), Seam(told, live, own, offers)
    PROVE  Seam(told, live, Append(own, i), offers)
  <1> DEFINE more == Append(own, i)
  <1>1. /\ Len(own) \in Nat /\ Len(told) \in Nat /\ Len(live) \in Nat
        /\ Len(more) = Len(own) + 1 /\ \A j \in 1 .. Len(own) : more[j] = own[j]
    BY AppendProperties, LenProperties
  <1> HIDE DEF more
  <1>2. \A j \in 1 .. Len(told) : j \in 1 .. Len(own)
    BY <1>1 DEF Seam
  <1>3. \A j \in 1 .. Len(live) : offers - Len(live) + j \in 1 .. Len(own)
    BY <1>1 DEF Seam
  <1>4. \A j \in 1 .. Len(told) : told[j] = more[j]
    BY <1>1, <1>2 DEF Seam
  <1>5. \A j \in 1 .. Len(live) : live[j] = more[offers - Len(live) + j]
    BY <1>1, <1>3 DEF Seam
  <1>6. Len(told) <= Len(more) /\ Len(live) <= offers /\ Len(told) <= offers - Len(live) + 1
    BY <1>1 DEF Seam
  <1>7. Seam(told, live, more, offers)
    BY <1>4, <1>5, <1>6 DEF Seam
  <1> QED BY <1>7 DEF more

\* Its latest row is offered to one who has subscribed.
LEMMA SeamOffered ==
    ASSUME NEW told \in Seq(Nat), NEW live \in Seq(Nat), NEW own \in Seq(Nat),
           NEW offers \in Nat, Len(own) = offers + 1, Seam(told, live, own, offers)
    PROVE  Seam(told, Append(live, own[Len(own)]), own, offers + 1)
  <1> DEFINE more == Append(live, own[Len(own)])
  <1>1. /\ Len(own) \in Nat /\ Len(told) \in Nat /\ Len(live) \in Nat
        /\ own[Len(own)] \in Nat
    BY LenProperties, ElementOfSeq
  <1>2. /\ Len(more) = Len(live) + 1 /\ \A j \in 1 .. Len(live) : more[j] = live[j]
        /\ more[Len(live) + 1] = own[Len(own)]
    BY <1>1, AppendProperties
  <1> HIDE DEF more
  <1>3. ASSUME NEW j \in 1 .. Len(more) PROVE more[j] = own[offers + 1 - Len(more) + j]
    <2>1. offers + 1 - Len(more) + j = offers - Len(live) + j
      BY <1>1, <1>2
    <2>2. CASE j \in 1 .. Len(live)
      BY <1>2, <2>1, <2>2 DEF Seam
    <2>3. CASE j = Len(live) + 1
      <3>1. offers - Len(live) + j = Len(own)
        BY <1>1, <2>3
      <3> QED BY <1>2, <2>1, <2>3, <3>1
    <2> QED BY <1>1, <1>2, <2>2, <2>3
  <1>4. /\ Len(told) <= Len(own) /\ Len(more) <= offers + 1
        /\ Len(told) <= offers + 1 - Len(more) + 1
        /\ \A j \in 1 .. Len(told) : told[j] = own[j]
    BY <1>1, <1>2 DEF Seam
  <1>5. Seam(told, more, own, offers + 1)
    BY <1>3, <1>4 DEF Seam
  <1> QED BY <1>5 DEF more

\* Its latest row is offered, and nobody has subscribed here.
LEMMA SeamSkipped ==
    ASSUME NEW told \in Seq(Nat), NEW own \in Seq(Nat), NEW offers \in Nat,
           Seam(told, <<>>, own, offers)
    PROVE  Seam(told, <<>>, own, offers + 1)
  <1>1. Len(told) \in Nat /\ Len(<<>>) = 0
    BY LenProperties
  <1> QED BY <1>1 DEF Seam

\* A snapshot is taken, or dropped with all that has come.
LEMMA SeamTaken ==
    ASSUME NEW told, NEW own \in Seq(Nat), NEW offers \in Nat, offers <= Len(own),
           \/ told = own /\ Len(own) <= offers + 1
           \/ told = <<>>
    PROVE  Seam(told, <<>>, own, offers)
  <1>1. Len(own) \in Nat /\ Len(<<>>) = 0
    BY LenProperties
  <1> QED BY <1>1 DEF Seam

\* The types of what the seam is about.
LEMMA SeamTypes ==
    ASSUME FeedInv, NEW e \in Emitters
    PROVE  /\ RowsIn(rows, e) \in Seq(1 .. Len(rows)) /\ RowsIn(rows, e) \in Seq(Nat)
           /\ Len(rows) \in Nat /\ rows \in Seq(Row)
           /\ Offers(e) \in Nat /\ Offers(e) <= Len(RowsIn(rows, e))
           /\ Len(RowsIn(rows, e)) <= Offers(e) + 1
           /\ emit[e].pc # "stored" => Offers(e) = Len(RowsIn(rows, e))
           /\ emit[e].pc = "stored" => Len(RowsIn(rows, e)) = Offers(e) + 1
           /\ \A w \in Watchers :
                 /\ watcher[w].snapshot \in Seq(1 .. Len(rows))
                 /\ watcher[w].live \in Seq(1 .. Len(rows))
                 /\ OwnIn(rows, e, watcher[w].snapshot) \in Seq(Nat)
                 /\ OwnIn(rows, e, watcher[w].live) \in Seq(Nat)
  <1>1. rows \in Seq(Row)
    BY DEF FeedInv, EventsTypeOK
  <1>2. Len(rows) \in Nat /\ \A list \in Seq(1 .. Len(rows)) : list \in Seq(Nat)
    BY <1>1, LenProperties
  <1>3. RowsIn(rows, e) \in Seq(1 .. Len(rows)) /\ Len(RowsIn(rows, e)) \in Nat
    BY <1>1, RowsFacts, LenProperties
  <1>4. /\ emit[e].pc # "stored" => Offers(e) = Len(RowsIn(rows, e))
        /\ emit[e].pc = "stored" =>
              Offers(e) = Len(RowsIn(rows, e)) - 1 /\ Len(RowsIn(rows, e)) > 0
    BY DEF Offers, FeedInv, NumberInv
  <1>5. \A w \in Watchers :
           /\ watcher[w].snapshot \in Seq(1 .. Len(rows))
           /\ watcher[w].live \in Seq(1 .. Len(rows))
    BY DEF FeedInv, HeldInv
  <1>6. \A w \in Watchers :
           /\ OwnIn(rows, e, watcher[w].snapshot) \in Seq(1 .. Len(rows))
           /\ OwnIn(rows, e, watcher[w].live) \in Seq(1 .. Len(rows))
    BY <1>1, <1>5, OwnFacts
  <1> QED BY <1>1, <1>2, <1>3, <1>4, <1>5, <1>6

\* The newest row of an emitter is the last of its rows.
LEMMA NewestIsLast ==
    ASSUME FeedInv, NEW e \in Emitters, emit[e].pc = "stored"
    PROVE  LET own == RowsIn(rows, e) IN
           /\ Newest(e) = own[Len(own)] /\ Newest(e) \in 1 .. Len(rows)
           /\ rows[Newest(e)].by = e
  <1> DEFINE own == RowsIn(rows, e)
             mine == {i \in DOMAIN rows : rows[i].by = e}
             n == Len(rows)
  <1>1. /\ own \in Seq(1 .. n) /\ n \in Nat /\ rows \in Seq(Row) /\ Len(own) \in Nat \ {0}
    BY SeamTypes, LenProperties
  <1>2. /\ DOMAIN rows = 1 .. n /\ Rising(own)
        /\ \A i \in 1 .. n : rows[i].by = e <=> \E a \in 1 .. Len(own) : own[a] = i
        /\ \A a \in 1 .. Len(own) : own[a] \in 1 .. n
    BY <1>1, LenProperties, RowsFacts, ElementOfSeq
  <1> HIDE DEF own
  <1>3. Len(own) \in 1 .. Len(own) /\ own[Len(own)] \in mine /\ mine \in SUBSET Int
    BY <1>1, <1>2
  <1>4. \A i \in mine : i <= own[Len(own)]
    <2> SUFFICES ASSUME NEW i \in mine PROVE i <= own[Len(own)]
      OBVIOUS
    <2>1. PICK a \in 1 .. Len(own) : own[a] = i
      BY <1>2
    <2>2. a = Len(own) \/ a < Len(own)
      BY <1>1
    <2> QED BY <1>2, <1>3, <2>1, <2>2 DEF Rising
  <1>5. Newest(e) = Max(mine)
    BY DEF Newest
  <1> HIDE DEF mine
  <1>6. Newest(e) = own[Len(own)]
    BY <1>3, <1>4, <1>5, MaxIs
  <1> QED BY <1>2, <1>3, <1>6 DEF own, mine

\* In a listing each emitter's rows come as in the table.
LEMMA ListingIsOwn ==
    ASSUME FeedInv, NEW e, NEW o \in BOOLEAN
    PROVE  OwnIn(rows, e, Listing(o)) = RowsIn(rows, e)
  <1> DEFINE n == Len(rows)
             list == Listing(o)
             chosen == {i \in DOMAIN rows : rows[i].by = e}
             told == OwnIn(rows, e, list)
             own == RowsIn(rows, e)
             rank == Rank(o)
  <1>1. /\ rows \in Seq(Row) /\ n \in Nat /\ DOMAIN rows = 1 .. n
        /\ \A i \in 1 .. n : rows[i].sequence \in Nat
    <2>1. rows \in Seq(Row) /\ n \in Nat /\ DOMAIN rows = 1 .. n
      BY LenProperties DEF FeedInv, EventsTypeOK
    <2>2. \A i \in 1 .. n : rows[i] \in Row
      BY <2>1, ElementOfSeq
    <2> QED BY <2>1, <2>2 DEF Row
  <1>2. /\ list \in Seq(1 .. n) /\ Len(list) = n
        /\ \A a \in 1 .. n : rank[list[a]] = a - 1
        /\ \A i \in 1 .. n : \E a \in 1 .. n : list[a] = i
        /\ \A a \in 1 .. n : list[a] \in 1 .. n
    BY <1>1, ListingFacts, ElementOfSeq
  <1>3. \A i, k \in 1 .. n : Precedes(i, k, o) <=> rank[i] < rank[k]
    BY <1>1, RankFacts
  <1>4. told \in Seq(1 .. n) /\ \E place : IsPlacing(list, chosen, Len(list), told, place)
    BY <1>2, OnlyKeepsOrder DEF OwnIn
  <1>5. PICK place : IsPlacing(list, chosen, Len(list), told, place)
    BY <1>4
  <1>6. /\ own \in Seq(1 .. n) /\ Rising(own)
        /\ \A i \in 1 .. n : rows[i].by = e <=> \E a \in 1 .. Len(own) : own[a] = i
        /\ \A a \in 1 .. Len(own) : own[a] \in 1 .. n
    BY <1>1, RowsFacts, ElementOfSeq
  <1> HIDE DEF told, own, list, rank
  <1>7. /\ \A a \in 1 .. Len(told) : place[a] \in 1 .. n /\ told[a] = list[place[a]]
                                     /\ told[a] \in 1 .. n /\ rows[told[a]].by = e
        /\ \A a, b \in 1 .. Len(told) : a < b => place[a] < place[b]
        /\ \A i \in 1 .. n : rows[list[i]].by = e => \E a \in 1 .. Len(told) : place[a] = i
    <2>1. \A i \in 1 .. n : list[i] \in chosen <=> rows[list[i]].by = e
      BY <1>1, <1>2
    <2> HIDE DEF chosen
    <2>2. /\ \A a \in 1 .. Len(told) : place[a] \in {i \in 1 .. n : list[i] \in chosen}
          /\ \A a \in 1 .. Len(told) : told[a] = list[place[a]]
          /\ \A a, b \in 1 .. Len(told) : a < b => place[a] < place[b]
          /\ \A i \in 1 .. n : list[i] \in chosen => \E a \in 1 .. Len(told) : place[a] = i
      BY <1>2, <1>5 DEF IsPlacing
    <2>3. ASSUME NEW a \in 1 .. Len(told)
          PROVE  /\ place[a] \in 1 .. n /\ told[a] = list[place[a]]
                 /\ told[a] \in 1 .. n /\ rows[told[a]].by = e
      <3>1. PICK i \in 1 .. n : i = place[a] /\ list[i] \in chosen
        BY <2>2
      <3>2. told[a] = list[i]
        BY <2>2, <3>1
      <3> QED BY <1>2, <2>1, <3>1, <3>2
    <2> QED BY <2>1, <2>2, <2>3
  <1>8. Rising(told)
    <2> SUFFICES ASSUME NEW a \in 1 .. Len(told), NEW b \in 1 .. Len(told), a < b
                 PROVE  told[a] < told[b]
      BY DEF Rising
    <2>1. rank[told[a]] < rank[told[b]] /\ rank[told[a]] # rank[told[b]]
      <3>1. place[a] < place[b] /\ place[a] \in 1 .. n /\ place[b] \in 1 .. n
        BY <1>7
      <3>2. rank[told[a]] = place[a] - 1 /\ rank[told[b]] = place[b] - 1
        BY <1>2, <1>7
      <3> QED BY <3>1, <3>2
    <2>2. Precedes(told[a], told[b], o) /\ told[a] # told[b]
      BY <1>3, <1>7, <2>1
    <2>3. ASSUME told[b] < told[a] PROVE FALSE
      <3>1. rows[told[b]].sequence < rows[told[a]].sequence
        BY <1>7, <2>3 DEF FeedInv, NumberInv
      <3> QED BY <1>1, <1>7, <2>2, <3>1 DEF Precedes
    <2> QED BY <1>7, <2>2, <2>3
  <1>9. \A i \in 1 .. n : rows[i].by = e <=> \E a \in 1 .. Len(told) : told[a] = i
    <2> SUFFICES ASSUME NEW i \in 1 .. n, rows[i].by = e
                 PROVE  \E a \in 1 .. Len(told) : told[a] = i
      BY <1>7
    <2>1. PICK k \in 1 .. n : list[k] = i
      BY <1>2
    <2> QED BY <1>7, <2>1
  <1>10. told \in Seq(Nat) /\ own \in Seq(Nat)
    BY <1>1, <1>4, <1>6 DEF told
  <1>11. \A i \in Nat : (\E a \in 1 .. Len(told) : told[a] = i)
                            <=> (\E a \in 1 .. Len(own) : own[a] = i)
    BY <1>6, <1>7, <1>9
  <1> HIDE DEF n
  <1>12. told = own
    BY <1>6, <1>8, <1>10, <1>11, RisingIsUnique
  <1> QED BY <1>12 DEF told, own, list

-----------------------------------------------------------------------------
\* The steps that are no broadcast and store nothing leave the seams alone.
LEMMA SeamsStay ==
    ASSUME SeamInv, rows' = rows, watcher' = watcher,
           \A e \in Emitters : emit'[e].pc = "stored" <=> emit[e].pc = "stored"
    PROVE  SeamInv'
  <1>1. \A e \in Emitters : Offers(e)' = Offers(e)
    BY DEF Offers
  <1> QED BY <1>1 DEF SeamInv

\* An event gets its number.
LEMMA BeginFeed ==
    ASSUME FeedInv, NEW e \in Emitters, NEW event \in Event, BeginEmit(e, event)
    PROVE  FeedInv'
  <1> DEFINE record == [pc |-> "numbered", event |-> event, sequence |-> NextSequence]
  <1>1. /\ emit[e].pc = "rest" /\ emit' = [emit EXCEPT ![e] = record]
        /\ rows' = rows /\ watcher' = watcher
    BY DEF BeginEmit, AtRest
  <1>2. rows \in Seq(Row) /\ emit \in [Emitters -> EmitRecord]
           /\ watcher \in [Watchers -> WatcherRecord]
    BY DEF FeedInv, EventsTypeOK
  <1>3. /\ NextSequence \in Nat \ {0}
        /\ \A i \in 1 .. Len(rows) : rows[i].sequence < NextSequence
    BY <1>2, NextIsAbove
  <1>4. record \in EmitRecord /\ record.pc = "numbered" /\ record.sequence = NextSequence
    BY <1>3 DEF EmitRecord
  <1> HIDE DEF record
  <1>5. /\ emit' \in [Emitters -> EmitRecord] /\ emit'[e] = record
        /\ \A q \in Emitters \ {e} : emit'[q] = emit[q]
    BY <1>1, <1>2, <1>4
  <1>6. NumberInv'
    BY <1>1, <1>3, <1>4, <1>5 DEF FeedInv, NumberInv
  <1>7. SeamInv'
    BY <1>1, <1>4, <1>5, SeamsStay DEF FeedInv
  <1> QED BY <1>1, <1>2, <1>5, <1>6, <1>7 DEF FeedInv, EventsTypeOK, HeldInv

\* What storing an event changes.
LEMMA StoreFacts ==
    ASSUME FeedInv, NEW e \in Emitters, Store(e)
    PROVE  /\ rows' \in Seq(Row) /\ Len(rows') = Len(rows) + 1
           /\ \A i \in 1 .. Len(rows) : rows'[i] = rows[i]
           /\ rows'[Len(rows) + 1] =
                 [by |-> e, event |-> emit[e].event, sequence |-> emit[e].sequence]
           /\ emit' \in [Emitters -> EmitRecord]
           /\ emit[e].pc = "numbered" /\ emit'[e].pc = "stored"
           /\ \A q \in Emitters \ {e} : emit'[q] = emit[q]
           /\ RowsIn(rows', e) = Append(RowsIn(rows, e), Len(rows) + 1)
           /\ \A q \in Emitters \ {e} : RowsIn(rows', q) = RowsIn(rows, q)
           /\ \A q, list : list \in Seq(1 .. Len(rows)) =>
                 OwnIn(rows', q, list) = OwnIn(rows, q, list)
  <1> DEFINE row == [by |-> e, event |-> emit[e].event, sequence |-> emit[e].sequence]
  <1>1. rows \in Seq(Row) /\ emit \in [Emitters -> EmitRecord] /\ emit[e] \in EmitRecord
    BY DEF FeedInv, EventsTypeOK
  <1>2. /\ emit[e].pc = "numbered" /\ rows' = Append(rows, row)
        /\ emit' = [emit EXCEPT ![e].pc = "stored"]
    BY DEF Store
  <1>3. emit[e].sequence \in Nat \ {0} /\ emit[e].event \in Event
    BY <1>1, <1>2 DEF EmitRecord, FeedInv, NumberInv
  <1>4. row \in Row /\ row.by = e
    BY <1>3 DEF Row
  <1>5. /\ emit' \in [Emitters -> EmitRecord] /\ emit'[e].pc = "stored"
        /\ \A q \in Emitters \ {e} : emit'[q] = emit[q]
    BY <1>1, <1>2 DEF EmitRecord
  <1> HIDE DEF row
  <1>6. /\ rows' \in Seq(Row) /\ Len(rows') = Len(rows) + 1
        /\ \A i \in 1 .. Len(rows) : rows'[i] = rows[i]
        /\ rows'[Len(rows) + 1] = row
    BY <1>1, <1>2, <1>4, AppendProperties
  <1>7. /\ RowsIn(rows', e) = Append(RowsIn(rows, e), Len(rows) + 1)
        /\ \A q \in Emitters \ {e} : RowsIn(rows', q) = RowsIn(rows, q)
    BY <1>1, <1>2, <1>4, RowsGrow
  <1>8. \A q, list : list \in Seq(1 .. Len(rows)) =>
           OwnIn(rows', q, list) = OwnIn(rows, q, list)
    BY <1>1, <1>2, <1>4, OwnStays
  <1> QED BY <1>2, <1>5, <1>6, <1>7, <1>8 DEF row

\* An event is stored.
LEMMA StoreFeed ==
    ASSUME FeedInv, NEW e \in Emitters, Store(e)
    PROVE  FeedInv'
  <1> DEFINE n == Len(rows)
  <1>1. /\ rows' \in Seq(Row) /\ Len(rows') = n + 1
        /\ \A i \in 1 .. n : rows'[i] = rows[i]
        /\ rows'[n + 1] = [by |-> e, event |-> emit[e].event, sequence |-> emit[e].sequence]
        /\ emit' \in [Emitters -> EmitRecord]
        /\ emit[e].pc = "numbered" /\ emit'[e].pc = "stored"
        /\ \A q \in Emitters \ {e} : emit'[q] = emit[q]
        /\ RowsIn(rows', e) = Append(RowsIn(rows, e), n + 1)
        /\ \A q \in Emitters \ {e} : RowsIn(rows', q) = RowsIn(rows, q)
        /\ \A q, list : list \in Seq(1 .. n) => OwnIn(rows', q, list) = OwnIn(rows, q, list)
    BY StoreFacts
  <1>2. watcher' = watcher /\ watcher \in [Watchers -> WatcherRecord] /\ n \in Nat
    BY SeamTypes DEF Store, FeedInv, EventsTypeOK
  <1>3. RowsIn(rows, e) \in Seq(Nat) /\ Len(RowsIn(rows, e)) \in Nat
           /\ Len(RowsIn(rows', e)) = Len(RowsIn(rows, e)) + 1
    BY <1>1, <1>2, SeamTypes, AppendProperties, LenProperties
  <1>4. NumberInv'
    <2>1. ASSUME NEW i \in 1 .. n + 1, NEW k \in 1 .. n + 1, rows'[i].by = rows'[k].by, i < k
          PROVE  rows'[i].sequence < rows'[k].sequence
      <3>1. i \in 1 .. n
        BY <1>2, <2>1
      <3>2. CASE k \in 1 .. n
        BY <1>1, <2>1, <3>1, <3>2 DEF FeedInv, NumberInv
      <3>3. CASE k = n + 1
        BY <1>1, <2>1, <3>1, <3>3 DEF FeedInv, NumberInv
      <3> QED BY <1>2, <3>2, <3>3
    <2>2. ASSUME NEW q \in Emitters, emit'[q].pc = "numbered"
          PROVE  /\ emit'[q].sequence > 0
                 /\ \A i \in 1 .. n + 1 : rows'[i].by = q => rows'[i].sequence < emit'[q].sequence
      <3>1. q # e /\ emit'[q] = emit[q]
        BY <1>1, <2>2
      <3>2. \A i \in 1 .. n + 1 : i \in 1 .. n \/ i = n + 1
        BY <1>2
      <3> QED BY <1>1, <2>2, <3>1, <3>2 DEF FeedInv, NumberInv
    <2>3. ASSUME NEW q \in Emitters, emit'[q].pc = "stored"
          PROVE  Len(RowsIn(rows', q)) > 0
      <3>1. CASE q = e
        BY <1>3, <3>1
      <3>2. CASE q # e
        BY <1>1, <1>3, <2>3, <3>2 DEF FeedInv, NumberInv
      <3> QED BY <3>1, <3>2
    <2> QED BY <1>1, <2>1, <2>2, <2>3 DEF NumberInv
  <1>5. HeldInv'
    <2>1. \A list \in Seq(1 .. n) : list \in Seq(1 .. n + 1)
      BY <1>2
    <2> QED BY <1>1, <1>2, <2>1 DEF FeedInv, HeldInv
  <1>6. SeamInv'
    <2> SUFFICES ASSUME NEW w \in Watchers, NEW q \in Emitters
                 PROVE  Seam(OwnIn(rows', q, watcher[w].snapshot), OwnIn(rows', q, watcher[w].live),
                             RowsIn(rows', q), Offers(q)')
      BY <1>2 DEF SeamInv
    <2>1. /\ OwnIn(rows', q, watcher[w].snapshot) = OwnIn(rows, q, watcher[w].snapshot)
          /\ OwnIn(rows', q, watcher[w].live) = OwnIn(rows, q, watcher[w].live)
      BY <1>1, SeamTypes
    <2>2. Seam(OwnIn(rows, q, watcher[w].snapshot), OwnIn(rows, q, watcher[w].live),
               RowsIn(rows, q), Offers(q))
      BY DEF FeedInv, SeamInv
    <2>3. CASE q = e
      <3>1. Offers(e) = Len(RowsIn(rows, e)) /\ Offers(e)' = Len(RowsIn(rows, e))
        BY <1>1, <1>3 DEF Offers
      <3>2. Seam(OwnIn(rows, e, watcher[w].snapshot), OwnIn(rows, e, watcher[w].live),
                 Append(RowsIn(rows, e), n + 1), Offers(e))
        BY <1>2, <2>2, <2>3, SeamTypes, SeamStored
      <3> QED BY <1>1, <2>1, <2>3, <3>1, <3>2
    <2>4. CASE q # e
      <3>1. Offers(q)' = Offers(q)
        BY <1>1, <2>4 DEF Offers
      <3> QED BY <1>1, <2>1, <2>2, <2>4, <3>1
    <2> QED BY <2>3, <2>4
  <1> QED BY <1>1, <1>2, <1>4, <1>5, <1>6 DEF FeedInv, EventsTypeOK

\* An event is offered to those who have subscribed.
LEMMA BroadcastFeed ==
    ASSUME FeedInv, NEW e \in Emitters, Broadcast(e)
    PROVE  FeedInv'
  <1> DEFINE n == Len(rows)
             newest == Newest(e)
             own == RowsIn(rows, e)
  <1>1. /\ emit[e].pc = "stored" /\ emit' = [emit EXCEPT ![e] = Silent] /\ rows' = rows
        /\ watcher' = [w \in Watchers |-> Offered(w, newest)]
    BY DEF Broadcast
  <1>2. emit \in [Emitters -> EmitRecord] /\ watcher \in [Watchers -> WatcherRecord]
    BY DEF FeedInv, EventsTypeOK
  <1>3. newest = own[Len(own)] /\ newest \in 1 .. n /\ rows[newest].by = e
    BY <1>1, NewestIsLast
  <1>4. /\ Silent \in EmitRecord /\ Silent.pc = "rest"
        /\ emit' \in [Emitters -> EmitRecord] /\ emit'[e] = Silent
        /\ \A q \in Emitters \ {e} : emit'[q] = emit[q]
    <2>1. Nothing \in Event
      BY DEF Nothing, EventOf, Event, EventName
    <2>2. Silent \in EmitRecord /\ Silent.pc = "rest"
      BY <2>1 DEF Silent, EmitRecord
    <2> QED BY <1>1, <1>2, <2>2
  <1> HIDE DEF newest, own
  <1>5. ASSUME NEW w \in Watchers
        PROVE  /\ watcher'[w] \in WatcherRecord
               /\ watcher'[w].snapshot = watcher[w].snapshot
               /\ watcher'[w].pc = watcher[w].pc
               /\ watcher'[w].subscribed = watcher[w].subscribed
               /\ watcher'[w].live = IF watcher[w].subscribed
                                     THEN Append(watcher[w].live, newest) ELSE watcher[w].live
    <2>1. watcher'[w] = Offered(w, newest) /\ watcher[w] \in WatcherRecord
      BY <1>1, <1>2
    <2>2. Append(watcher[w].live, newest) \in Seq(Nat)
      <3>1. watcher[w].live \in Seq(Nat) /\ newest \in Nat
        BY <1>3, <2>1 DEF WatcherRecord
      <3> QED BY <3>1, AppendProperties
    <2>3. CASE watcher[w].subscribed
      <3>1. watcher'[w] = [watcher[w] EXCEPT !.live = Append(watcher[w].live, newest)]
        BY <2>1, <2>3 DEF Offered
      <3> QED BY <2>1, <2>2, <2>3, <3>1 DEF WatcherRecord
    <2>4. CASE ~watcher[w].subscribed
      BY <2>1, <2>4 DEF Offered
    <2> QED BY <2>3, <2>4
  <1>6. watcher' \in [Watchers -> WatcherRecord]
    <2>1. \A w \in Watchers : Offered(w, newest) \in WatcherRecord
      BY <1>1, <1>5
    <2> QED BY <1>1, <2>1
  <1>7. NumberInv'
    BY <1>1, <1>4 DEF FeedInv, NumberInv
  <1>8. HeldInv'
    <2>1. \A w \in Watchers : watcher[w].live \in Seq(1 .. n) =>
             Append(watcher[w].live, newest) \in Seq(1 .. n)
      BY <1>3, AppendProperties
    <2>2. \A w \in Watchers : watcher'[w].live \in Seq(1 .. n)
      BY <1>5, <2>1 DEF FeedInv, HeldInv
    <2> QED BY <1>1, <1>5, <2>2 DEF FeedInv, HeldInv
  <1>9. SeamInv'
    <2> SUFFICES ASSUME NEW w \in Watchers, NEW q \in Emitters
                 PROVE  Seam(OwnIn(rows, q, watcher[w].snapshot), OwnIn(rows, q, watcher'[w].live),
                             RowsIn(rows, q), Offers(q)')
      BY <1>1, <1>5 DEF SeamInv
    <2> DEFINE told == OwnIn(rows, q, watcher[w].snapshot)
               live == OwnIn(rows, q, watcher[w].live)
    <2>1. /\ watcher[w].live \in Seq(1 .. n) /\ rows \in Seq(Row)
          /\ told \in Seq(Nat) /\ live \in Seq(Nat)
          /\ RowsIn(rows, q) \in Seq(Nat) /\ Offers(q) \in Nat
      BY SeamTypes
    <2>2. Seam(told, live, RowsIn(rows, q), Offers(q))
      BY DEF FeedInv, SeamInv
    <2>3. OwnIn(rows, q, Append(watcher[w].live, newest)) =
             IF q = e THEN Append(live, newest) ELSE live
      <3>1. PICK list \in Seq(1 .. n) : list = watcher[w].live
        BY <2>1
      <3>2. PICK i \in 1 .. n : i = newest
        BY <1>3
      <3>3. OwnIn(rows, q, Append(list, i)) =
               IF rows[i].by = q THEN Append(OwnIn(rows, q, list), i) ELSE OwnIn(rows, q, list)
        BY <2>1, OwnGrows
      <3> QED BY <1>3, <3>1, <3>2, <3>3
    <2>4. ~watcher[w].subscribed => watcher[w].live = <<>> /\ live = <<>>
      <3>1. ~watcher[w].subscribed => watcher[w].live = <<>>
        BY DEF FeedInv, HeldInv
      <3>2. OwnIn(rows, q, <<>>) = <<>>
        BY OnlyEmpty DEF OwnIn
      <3> QED BY <3>1, <3>2
    <2> HIDE DEF told, live
    <2>5. CASE q = e
      <3>1. Offers(e)' = Offers(e) + 1 /\ Len(own) = Offers(e) + 1
        BY <1>1, <1>4, SeamTypes DEF Offers, own
      <3>2. CASE watcher[w].subscribed
        <4>1. Seam(told, Append(live, newest), own, Offers(e) + 1)
          BY <1>3, <2>1, <2>2, <2>5, <3>1, SeamOffered DEF own
        <4> QED BY <1>5, <2>3, <2>5, <3>1, <3>2, <4>1 DEF told, own
      <3>3. CASE ~watcher[w].subscribed
        <4>1. Seam(told, <<>>, own, Offers(e) + 1)
          BY <2>1, <2>2, <2>4, <2>5, <3>3, SeamSkipped DEF own
        <4> QED BY <1>5, <2>4, <2>5, <3>1, <3>3, <4>1 DEF told, own, live
      <3> QED BY <3>2, <3>3
    <2>6. CASE q # e
      <3>1. Offers(q)' = Offers(q)
        BY <1>1, <1>4, <2>6 DEF Offers
      <3> QED BY <1>5, <2>2, <2>3, <2>6, <3>1 DEF told, live
    <2> QED BY <2>5, <2>6
  <1> QED BY <1>1, <1>4, <1>6, <1>7, <1>8, <1>9 DEF FeedInv, EventsTypeOK

\* A handler takes its snapshot, subscribes, or is left.
LEMMA WatchFeed ==
    ASSUME FeedInv, NEW w \in Watchers, WatcherStep(w)
    PROVE  FeedInv'
  <1> DEFINE n == Len(rows)
  <1>1. /\ rows \in Seq(Row) /\ watcher \in [Watchers -> WatcherRecord]
        /\ watcher[w] \in WatcherRecord /\ n \in Nat
        /\ rows' = rows /\ emit' = emit
    BY LenProperties DEF FeedInv, EventsTypeOK, WatcherStep, ReadEvents, Subscribe, Leave
  <1>2. /\ watcher[w].snapshot \in Seq(1 .. n) /\ watcher[w].live \in Seq(1 .. n)
        /\ watcher[w].pc \in {"new", "snapshot", "gone"} => ~watcher[w].subscribed
        /\ ~watcher[w].subscribed => watcher[w].live = <<>>
    BY DEF FeedInv, HeldInv
  <1>3. PICK new \in WatcherRecord :
           /\ watcher' = [watcher EXCEPT ![w] = new]
           /\ new.snapshot \in Seq(1 .. n) /\ new.live \in Seq(1 .. n)
           /\ new.pc \in {"new", "snapshot", "gone"} => ~new.subscribed
           /\ ~new.subscribed => new.live = <<>>
           /\ \/ new.snapshot = watcher[w].snapshot /\ new.live = watcher[w].live
              \/ new.live = <<>> /\ \E o \in BOOLEAN : new.snapshot = Listing(o)
              \/ new.live = <<>> /\ new.snapshot = <<>>
    <2>1. CASE ReadEvents(w)
      <3>1. PICK o \in BOOLEAN :
               watcher' = [watcher EXCEPT ![w].pc = "snapshot", ![w].snapshot = Listing(o)]
        BY <2>1 DEF ReadEvents
      <3>2. Listing(o) \in Seq(1 .. n)
        BY <1>1, ListingFacts
      <3>3. PICK list \in Seq(1 .. n) : list = Listing(o) /\ list \in Seq(Nat)
        BY <1>1, <3>2
      <3> DEFINE new == [watcher[w] EXCEPT !.pc = "snapshot", !.snapshot = list]
      <3>4. watcher' = [watcher EXCEPT ![w] = new]
        BY <1>1, <3>1, <3>3
      <3>5. /\ new \in WatcherRecord /\ new.pc = "snapshot" /\ new.snapshot = list
            /\ new.subscribed = watcher[w].subscribed /\ new.live = watcher[w].live
        BY <1>1, <3>3 DEF WatcherRecord
      <3>6. watcher[w].pc = "new"
        BY <2>1 DEF ReadEvents
      <3> HIDE DEF new
      <3> QED BY <1>2, <3>3, <3>4, <3>5, <3>6
    <2>2. CASE Subscribe(w)
      <3> DEFINE new == [watcher[w] EXCEPT !.pc = "live", !.subscribed = TRUE]
      <3>1. watcher' = [watcher EXCEPT ![w] = new]
        BY <1>1, <2>2 DEF Subscribe
      <3>2. /\ new \in WatcherRecord /\ new.pc = "live" /\ new.snapshot = watcher[w].snapshot
            /\ new.subscribed = TRUE /\ new.live = watcher[w].live
        BY <1>1 DEF WatcherRecord
      <3> HIDE DEF new
      <3> QED BY <1>2, <3>1, <3>2
    <2>3. CASE Leave(w)
      <3>1. watcher' = [watcher EXCEPT ![w] = Watcher("gone")]
        BY <2>3 DEF Leave
      <3>2. <<>> \in Seq(Nat) /\ <<>> \in Seq(1 .. n)
        OBVIOUS
      <3>3. /\ Watcher("gone") \in WatcherRecord /\ Watcher("gone").subscribed = FALSE
            /\ Watcher("gone").live = <<>> /\ Watcher("gone").snapshot = <<>>
        BY <3>2 DEF Watcher, WatcherRecord
      <3> QED BY <3>1, <3>2, <3>3
    <2> QED BY <2>1, <2>2, <2>3 DEF WatcherStep
  <1>4. /\ watcher' \in [Watchers -> WatcherRecord] /\ watcher'[w] = new
        /\ \A v \in Watchers \ {w} : watcher'[v] = watcher[v]
    BY <1>1, <1>3
  <1>5. NumberInv' /\ HeldInv'
    BY <1>1, <1>3, <1>4 DEF FeedInv, NumberInv, HeldInv
  <1>6. SeamInv'
    <2> SUFFICES ASSUME NEW v \in Watchers, NEW q \in Emitters
                 PROVE  Seam(OwnIn(rows, q, watcher'[v].snapshot), OwnIn(rows, q, watcher'[v].live),
                             RowsIn(rows, q), Offers(q))
      <3>1. \A q \in Emitters : Offers(q)' = Offers(q)
        BY <1>1 DEF Offers
      <3> QED BY <1>1, <3>1 DEF SeamInv
    <2>1. Seam(OwnIn(rows, q, watcher[v].snapshot), OwnIn(rows, q, watcher[v].live),
               RowsIn(rows, q), Offers(q))
      BY DEF FeedInv, SeamInv
    <2>2. CASE v # w \/ (new.snapshot = watcher[w].snapshot /\ new.live = watcher[w].live)
      BY <1>4, <2>1, <2>2
    <2>3. CASE v = w /\ new.live = <<>>
                  /\ (new.snapshot = <<>> \/ \E o \in BOOLEAN : new.snapshot = Listing(o))
      <3>1. OwnIn(rows, q, <<>>) = <<>>
        BY OnlyEmpty DEF OwnIn
      <3>2. \/ OwnIn(rows, q, new.snapshot) = RowsIn(rows, q)
            \/ OwnIn(rows, q, new.snapshot) = <<>>
        BY <2>3, <3>1, ListingIsOwn
      <3>3. Seam(OwnIn(rows, q, new.snapshot), <<>>, RowsIn(rows, q), Offers(q))
        BY <3>2, SeamTypes, SeamTaken
      <3> QED BY <1>4, <2>3, <3>1, <3>3
    <2> QED BY <1>3, <2>2, <2>3
  <1> QED BY <1>1, <1>4, <1>5, <1>6 DEF FeedInv, EventsTypeOK

LEMMA InitFeed == Init => FeedInv
  <1> SUFFICES ASSUME Init PROVE FeedInv
    OBVIOUS
  <1>1. /\ rows = <<>> /\ emit = [e \in Emitters |-> Silent]
        /\ watcher = [w \in Watchers |-> Watcher("new")]
    BY DEF Init, EventsInit
  <1>2. Nothing \in Event
    BY DEF Nothing, EventOf, Event, EventName
  <1>3. <<>> \in Seq(Nat) /\ <<>> \in Seq(Row) /\ Len(<<>>) = 0 /\ <<>> \in Seq(1 .. 0)
    OBVIOUS
  <1>4. /\ Silent \in EmitRecord /\ Silent.pc = "rest"
        /\ Watcher("new") \in WatcherRecord /\ ~Watcher("new").subscribed
        /\ Watcher("new").snapshot = <<>> /\ Watcher("new").live = <<>>
    BY <1>2, <1>3 DEF Silent, EmitRecord, Watcher, WatcherRecord
  <1>5. EventsTypeOK
    BY <1>1, <1>3, <1>4 DEF EventsTypeOK
  <1>6. NumberInv
    BY <1>1, <1>3, <1>4 DEF NumberInv
  <1>7. HeldInv
    BY <1>1, <1>3, <1>4 DEF HeldInv
  <1>8. SeamInv
    <2> SUFFICES ASSUME NEW w \in Watchers, NEW e \in Emitters
                 PROVE  Seam(OwnIn(rows, e, watcher[w].snapshot), OwnIn(rows, e, watcher[w].live),
                             RowsIn(rows, e), Offers(e))
      BY DEF SeamInv
    <2>1. OwnIn(rows, e, <<>>) = <<>>
      BY OnlyEmpty DEF OwnIn
    <2>2. RowsIn(rows, e) \in Seq(1 .. 0) /\ Len(RowsIn(rows, e)) \in Nat
      BY <1>1, <1>3, RowsFacts, LenProperties
    <2>3. RowsIn(rows, e) \in Seq(Nat) /\ Offers(e) = Len(RowsIn(rows, e))
      BY <1>1, <1>4, <2>2 DEF Offers
    <2>4. Seam(<<>>, <<>>, RowsIn(rows, e), Offers(e))
      BY <2>2, <2>3, SeamTaken
    <2> QED BY <1>1, <1>4, <2>1, <2>4
  <1> QED BY <1>5, <1>6, <1>7, <1>8 DEF FeedInv

\* Nothing but the named steps changes the feed.
LEMMA QuietFeed ==
    ASSUME FeedInv, UNCHANGED eventVars
    PROVE  FeedInv'
  <1>1. rows' = rows /\ emit' = emit /\ watcher' = watcher
    BY DEF eventVars
  <1>2. SeamInv'
    BY <1>1, SeamsStay DEF FeedInv
  <1> QED BY <1>1, <1>2 DEF FeedInv, EventsTypeOK, NumberInv, HeldInv

LEMMA NextFeed == CycleInv /\ FeedInv /\ [Next]_vars => FeedInv'
  <1> SUFFICES ASSUME CycleInv, FeedInv, [Next]_vars PROVE FeedInv'
    OBVIOUS
  <1>1. /\ Build \in Emitters /\ \A c \in Cancels : c \in Emitters
        /\ \A name \in EventName : EventOf(name) \in Event
        /\ [name |-> "VALIDATION_RESULT", passed |-> cycle.report.passed] \in Event
    BY DEF Emitters, EventOf, Event, EventName, CycleInv, CycleRecord, Report
  <1>2. CASE CycleStep \/ AgentStep
    <2>1. \/ UNCHANGED eventVars
          \/ \E event \in Event : BeginEmit(Build, event)
      BY <1>1, <1>2
         DEF CycleStep, AgentStep, BeginRound, Validate, AnnounceResult, AnnounceFinding, Decide,
             Conclude, AnnounceEnd, RunReviewer, RunFixer, EventName
    <2> QED BY <1>1, <2>1, BeginFeed, QuietFeed
  <1>3. ASSUME NEW c \in Cancels, Cancel(c) \/ AnnounceCancel(c)
        PROVE  FeedInv'
    <2>1. \E event \in Event : BeginEmit(c, event)
      BY <1>1, <1>3 DEF Cancel, AnnounceCancel, EventName
    <2> QED BY <1>1, <2>1, BeginFeed
  <1>4. ASSUME NEW e \in Emitters, EmitStep(e)
        PROVE  FeedInv'
    BY <1>4, StoreFeed, BroadcastFeed DEF EmitStep
  <1>5. ASSUME NEW w \in Watchers, WatcherStep(w)
        PROVE  FeedInv'
    BY <1>5, WatchFeed
  <1>6. CASE UNCHANGED vars
    BY <1>6, QuietFeed DEF vars
  <1> QED BY <1>2, <1>3, <1>4, <1>5, <1>6 DEF Next

LEMMA PrefixIs ==
    ASSUME NEW list \in Seq(Nat), NEW longer \in Seq(Nat), Len(list) <= Len(longer),
           \A j \in 1 .. Len(list) : list[j] = longer[j]
    PROVE  IsPrefix(list, longer)
  <1>1. /\ Len(list) \in Nat /\ Len(longer) \in Nat
        /\ \A j \in 1 .. Len(list) : list[j] \in Nat /\ longer[j] \in Nat
    BY LenProperties, ElementOfSeq
  <1>2. 1 \in Int /\ Len(list) \in Int
    BY <1>1
  <1>3. /\ SubSeq(list, 1, Len(list)) \in Seq(Nat)
        /\ Len(SubSeq(list, 1, Len(list))) = Len(list)
        /\ \A j \in 1 .. Len(list) : SubSeq(list, 1, Len(list))[j] = list[j]
    <2>1. PICK n \in Nat : n = Len(list)
      BY <1>1
    <2>2. /\ SubSeq(list, 1, n) \in Seq(Nat)
          /\ Len(SubSeq(list, 1, n)) = IF 1 <= n THEN n - 1 + 1 ELSE 0
          /\ \A j \in 1 .. n - 1 + 1 : SubSeq(list, 1, n)[j] = list[1 + j - 1]
      BY <1>1, <2>1, SubSeqProperties
    <2>3. \A j \in 1 .. n : j \in 1 .. n - 1 + 1 /\ 1 + j - 1 = j
      OBVIOUS
    <2> QED BY <2>1, <2>2, <2>3
  <1>4. /\ SubSeq(longer, 1, Len(list)) \in Seq(Nat)
        /\ Len(SubSeq(longer, 1, Len(list))) = Len(list)
        /\ \A j \in 1 .. Len(list) : SubSeq(longer, 1, Len(list))[j] = longer[j]
    <2>1. PICK n \in Nat : n = Len(list)
      BY <1>1
    <2>2. /\ SubSeq(longer, 1, n) \in Seq(Nat)
          /\ Len(SubSeq(longer, 1, n)) = IF 1 <= n THEN n - 1 + 1 ELSE 0
          /\ \A j \in 1 .. n - 1 + 1 : SubSeq(longer, 1, n)[j] = longer[1 + j - 1]
      BY <1>1, <2>1, SubSeqProperties
    <2>3. \A j \in 1 .. n : j \in 1 .. n - 1 + 1 /\ 1 + j - 1 = j
      OBVIOUS
    <2> QED BY <2>1, <2>2, <2>3
  <1>5. SubSeq(list, 1, Len(list)) = SubSeq(longer, 1, Len(list))
    BY <1>3, <1>4, SeqEqual
  <1> QED BY <1>5 DEF IsPrefix

\* The invariant of the feeds.
THEOREM FeedInvariant == Spec => []FeedInv
  <1>1. Init => FeedInv
    BY InitFeed
  <1>2. CycleInv /\ FeedInv /\ [Next]_vars => FeedInv'
    BY NextFeed
  <1> QED BY RoundsAreCounted, <1>1, <1>2, PTL DEF Spec

\* However emits interleave and numbers collide, a client gets of each emitter
\* an initial stretch and then one unbroken stretch, in the emitter's order.
THEOREM FeedsHaveOneSeam == Spec => []FeedHasOneSeam
  <1>1. ASSUME FeedInv PROVE FeedHasOneSeam
    <2> SUFFICES ASSUME NEW w \in Watchers, NEW e \in Emitters
                 PROVE  LET told == Own(e, watcher[w].snapshot)
                            live == Own(e, watcher[w].live)
                            own == RowsOf(e) IN
                        /\ IsPrefix(told, own)
                        /\ live # <<>> => \E k \in 1 .. Len(own) :
                              k >= Len(told) /\ IsPrefix(live, SubSeq(own, k, Len(own)))
      BY DEF FeedHasOneSeam
    <2> DEFINE told == OwnIn(rows, e, watcher[w].snapshot)
               live == OwnIn(rows, e, watcher[w].live)
               own == RowsIn(rows, e)
               offers == Offers(e)
               k == offers - Len(live) + 1
    <2>1. told \in Seq(Nat) /\ live \in Seq(Nat) /\ own \in Seq(Nat) /\ offers \in Nat
          /\ offers <= Len(own)
      BY <1>1, SeamTypes
    <2>2. Seam(told, live, own, offers)
      BY <1>1 DEF FeedInv, SeamInv
    <2>3. /\ told = Own(e, watcher[w].snapshot) /\ live = Own(e, watcher[w].live)
          /\ own = RowsOf(e)
      BY OwnIsOwnIn
    <2> HIDE DEF told, live, own, offers
    <2>4. Len(told) \in Nat /\ Len(live) \in Nat /\ Len(own) \in Nat
      BY <2>1, LenProperties
    <2>5. IsPrefix(told, own)
      <3>1. /\ Len(told) <= Len(own)
            /\ \A j \in 1 .. Len(told) : told[j] = own[j]
        BY <2>2 DEF Seam
      <3> QED BY <2>1, <3>1, PrefixIs
    <2>6. ASSUME live # <<>>
          PROVE  /\ k \in 1 .. Len(own) /\ k >= Len(told)
                 /\ IsPrefix(live, SubSeq(own, k, Len(own)))
      <3>1. Len(live) > 0
        BY <2>1, <2>6, EmptySeq
      <3>2. k \in 1 .. Len(own) /\ k >= Len(told)
        BY <2>1, <2>2, <2>4, <3>1 DEF Seam
      <3> DEFINE rest == SubSeq(own, k, Len(own))
      <3>3. /\ rest \in Seq(Nat) /\ Len(rest) = Len(own) - k + 1
            /\ \A j \in 1 .. Len(own) - k + 1 : rest[j] = own[k + j - 1]
        <4>1. \A i \in k .. Len(own) : own[i] \in Nat
          BY <2>1, <3>2, ElementOfSeq
        <4>2. k \in Int /\ Len(own) \in Int /\ k <= Len(own)
          BY <2>4, <3>2
        <4> HIDE DEF k
        <4> QED BY <4>1, <4>2, SubSeqProperties
      <3> HIDE DEF rest
      <3>4. Len(live) <= Len(rest)
        BY <2>1, <2>4, <3>3
      <3>5. ASSUME NEW j \in 1 .. Len(live) PROVE live[j] = rest[j]
        <4>1. live[j] = own[offers - Len(live) + j]
          BY <2>2 DEF Seam
        <4>2. j \in 1 .. Len(own) - k + 1 /\ k + j - 1 = offers - Len(live) + j
          BY <2>1, <2>4, <3>3, <3>4
        <4> QED BY <3>3, <4>1, <4>2
      <3>6. IsPrefix(live, rest)
        BY <2>1, <3>3, <3>4, <3>5, PrefixIs
      <3> QED BY <3>2, <3>6 DEF rest
    <2> HIDE DEF k
    <2> QED BY <2>3, <2>5, <2>6
  <1> QED BY FeedInvariant, <1>1, PTL

-----------------------------------------------------------------------------
(***************************************************************************)
(* The report of a review and its events.  `Announced' are the events the  *)
(* review has called emit with, the one that is not stored yet included:   *)
(* only a call of emit by the review changes it, by one event at its end,  *)
(* and each step of a round calls emit in a way the report can be read     *)
(* off.  Once the review is at rest all its events are in the table.       *)
(***************************************************************************)
Feed(table, call) ==
    [i \in 1 .. Len(RowsIn(table, Build)) + (IF call.pc = "numbered" THEN 1 ELSE 0) |->
        IF i <= Len(RowsIn(table, Build)) THEN table[RowsIn(table, Build)[i]].event
        ELSE call.event]

Announced == Feed(rows, emit[Build])

Places(feed, name) == {i \in 1 .. Len(feed) : feed[i].name = name}

\* Until the review has returned, its events tell how far it is.
Tells(feed, c) ==
    /\ c.pc \notin {"raised", "final", "done"} =>
          /\ Cardinality(Places(feed, "VALIDATION_STARTED")) = c.round
          /\ Cardinality(Places(feed, "VALIDATION_RESULT")) =
                 IF c.pc \in {"validate", "review", "result"} THEN c.round - 1 ELSE c.round
    /\ c.pc = "result" => c.said = 0
    /\ c.pc \in {"finding", "returned"} =>
          \E last \in Places(feed, "VALIDATION_RESULT") :
              /\ \A i \in Places(feed, "VALIDATION_RESULT") : i <= last
              /\ feed[last].passed = c.report.passed
              /\ Len(feed) - last = c.said
    /\ c.pc = "returned" => c.report.rounds = c.round /\ c.said = c.report.findings

TellsInv == Tells(Announced, cycle)

-----------------------------------------------------------------------------
LEMMA PlacesFacts ==
    ASSUME NEW feed \in Seq(Event), NEW name
    PROVE  /\ IsFiniteSet(Places(feed, name)) /\ Cardinality(Places(feed, name)) \in Nat
           /\ Places(feed, name) \subseteq 1 .. Len(feed)
  <1>1. PICK n \in Nat : n = Len(feed)
    BY LenProperties
  <1>2. IsFiniteSet(1 .. n)
    BY FS_Interval
  <1>3. Places(feed, name) \subseteq 1 .. n
    BY <1>1 DEF Places
  <1>4. IsFiniteSet(Places(feed, name))
    BY <1>2, <1>3, FS_Subset
  <1> QED BY <1>1, <1>3, <1>4, FS_CardinalityType

\* An event more is one more of its name.
LEMMA PlacesGrow ==
    ASSUME NEW feed \in Seq(Event), NEW event \in Event, NEW name
    PROVE  /\ Places(Append(feed, event), name) =
                  IF event.name = name THEN Places(feed, name) \cup {Len(feed) + 1}
                  ELSE Places(feed, name)
           /\ Cardinality(Places(Append(feed, event), name)) =
                  IF event.name = name THEN Cardinality(Places(feed, name)) + 1
                  ELSE Cardinality(Places(feed, name))
  <1> DEFINE more == Append(feed, event)
  <1>1. /\ Len(feed) \in Nat /\ Len(more) = Len(feed) + 1 /\ more[Len(feed) + 1] = event
        /\ \A i \in 1 .. Len(feed) : more[i] = feed[i]
    BY AppendProperties, LenProperties
  <1> HIDE DEF more
  <1>2. \A i \in 1 .. Len(feed) + 1 : i \in 1 .. Len(feed) \/ i = Len(feed) + 1
    BY <1>1
  <1>3. Places(more, name) = IF event.name = name THEN Places(feed, name) \cup {Len(feed) + 1}
                             ELSE Places(feed, name)
    BY <1>1, <1>2 DEF Places
  <1>4. Len(feed) + 1 \notin Places(feed, name)
    BY <1>1, PlacesFacts
  <1>5. Cardinality(Places(feed, name) \cup {Len(feed) + 1}) = Cardinality(Places(feed, name)) + 1
    BY <1>4, PlacesFacts, FS_AddElement
  <1> QED BY <1>3, <1>5 DEF more

\* The events called for are events, and at rest they are those in the table.
LEMMA AnnouncedFacts ==
    ASSUME FeedInv
    PROVE  /\ Announced \in Seq(Event)
           /\ Len(Announced) = Len(RowsIn(rows, Build))
                                  + (IF emit[Build].pc = "numbered" THEN 1 ELSE 0)
           /\ \A i \in 1 .. Len(Announced) :
                 Announced[i] = IF i <= Len(RowsIn(rows, Build))
                                THEN rows[RowsIn(rows, Build)[i]].event ELSE emit[Build].event
  <1> DEFINE own == RowsIn(rows, Build)
  <1>1. Build \in Emitters
    BY DEF Emitters
  <1>2. /\ own \in Seq(1 .. Len(rows)) /\ Len(own) \in Nat /\ rows \in Seq(Row)
        /\ emit[Build] \in EmitRecord
    BY <1>1, SeamTypes, LenProperties DEF FeedInv, EventsTypeOK
  <1>3. /\ \A i \in 1 .. Len(own) : own[i] \in 1 .. Len(rows)
        /\ \A i \in 1 .. Len(rows) : rows[i] \in Row
    BY <1>2, ElementOfSeq
  <1> HIDE DEF own
  <1>4. PICK n \in Nat : n = Len(own) + (IF emit[Build].pc = "numbered" THEN 1 ELSE 0)
    BY <1>2
  <1> DEFINE at(i) == IF i <= Len(own) THEN rows[own[i]].event ELSE emit[Build].event
  <1>5. Announced = [i \in 1 .. n |-> at(i)]
    BY <1>4 DEF Announced, Feed, own
  <1>6. \A i \in 1 .. n : at(i) \in Event
    <2> SUFFICES ASSUME NEW i \in 1 .. n PROVE at(i) \in Event
      OBVIOUS
    <2>1. emit[Build].event \in Event
      BY <1>2 DEF EmitRecord
    <2>2. i <= Len(own) => rows[own[i]] \in Row
      BY <1>2, <1>3, <1>4
    <2> QED BY <2>1, <2>2 DEF Row
  <1> HIDE DEF at
  <1>7. Announced \in Seq(Event) /\ Len(Announced) = n /\ \A i \in 1 .. n : Announced[i] = at(i)
    BY <1>5, <1>6
  <1> QED BY <1>4, <1>7 DEF at, own

-----------------------------------------------------------------------------
\* The review calls emit: its event is the next one announced.
LEMMA BeginTells ==
    ASSUME FeedInv, NEW event \in Event, BeginEmit(Build, event)
    PROVE  Announced' = Append(Announced, event)
  <1> DEFINE own == RowsIn(rows, Build)
             record == [pc |-> "numbered", event |-> event, sequence |-> NextSequence]
  <1>1. Build \in Emitters
    BY DEF Emitters
  <1>2. own \in Seq(1 .. Len(rows)) /\ Len(own) \in Nat /\ emit \in [Emitters -> EmitRecord]
    BY <1>1, SeamTypes, LenProperties DEF FeedInv, EventsTypeOK
  <1>3. emit[Build].pc = "rest" /\ rows' = rows /\ emit'[Build] = record
    BY <1>1, <1>2 DEF BeginEmit, AtRest
  <1>4. /\ Announced \in Seq(Event) /\ Len(Announced) = Len(own)
        /\ \A i \in 1 .. Len(own) : Announced[i] = rows[own[i]].event
    BY <1>2, <1>3, AnnouncedFacts
  <1>5. Announced' = Feed(rows, record)
    BY <1>3 DEF Announced
  <1>6. record.pc = "numbered" /\ record.event = event
    OBVIOUS
  <1> HIDE DEF own, record
  <1> DEFINE more == [i \in 1 .. Len(own) + 1 |->
                         IF i <= Len(own) THEN rows[own[i]].event ELSE event]
  <1>7. Feed(rows, record) = more
    BY <1>6 DEF Feed, own
  <1>8. PICK feed \in Seq(Event) : feed = Announced
    BY <1>4
  <1>9. PICK n \in Nat : n = Len(own)
    BY <1>2
  <1>10. \A i \in 1 .. n + 1 : more[i] = IF i <= n THEN feed[i] ELSE event
    <2> SUFFICES ASSUME NEW i \in 1 .. n + 1 PROVE more[i] = IF i <= n THEN feed[i] ELSE event
      OBVIOUS
    <2>1. CASE i <= n
      <3>1. i \in 1 .. n
        BY <2>1
      <3> QED BY <1>4, <1>8, <1>9, <2>1, <3>1
    <2>2. CASE ~(i <= n)
      BY <1>9, <2>2
    <2> QED BY <2>1, <2>2
  <1>11. DOMAIN more = 1 .. n + 1
    BY <1>9
  <1> HIDE DEF more
  <1>12. /\ Append(feed, event) \in Seq(Event) /\ Len(Append(feed, event)) = n + 1
         /\ \A i \in 1 .. n : Append(feed, event)[i] = feed[i]
         /\ Append(feed, event)[n + 1] = event
    BY <1>4, <1>8, <1>9, AppendProperties
  <1>13. more \in Seq(Event) /\ Len(more) = n + 1
    <2>1. ASSUME NEW i \in 1 .. n + 1 PROVE more[i] \in Event
      <3>1. Append(feed, event)[i] \in Event
        BY <1>12, ElementOfSeq
      <3> QED BY <1>10, <1>12, <3>1
    <2>2. more = [i \in 1 .. n + 1 |-> more[i]]
      <3>1. more = [i \in DOMAIN more |-> more[i]]
        BY <1>9 DEF more
      <3> QED BY <1>11, <3>1
    <2> QED BY <2>1, <2>2
  <1>14. Append(feed, event) = more
    BY <1>10, <1>12, <1>13, SeqEqual
  <1> QED BY <1>5, <1>7, <1>8, <1>14

\* Storing and broadcasting announce nothing, nor does another's call of emit.
LEMMA QuietTells ==
    ASSUME FeedInv,
           \/ UNCHANGED eventVars
           \/ \E e \in Emitters : EmitStep(e)
           \/ \E c \in Cancels, event \in Event : BeginEmit(c, event)
           \/ \E w \in Watchers : WatcherStep(w)
    PROVE  Announced' = Announced
  <1> DEFINE own == RowsIn(rows, Build)
  <1>1. Build \in Emitters /\ Build \notin Cancels /\ \A c \in Cancels : c \in Emitters
    BY EmitterAssumption DEF Emitters
  <1>2. /\ own \in Seq(1 .. Len(rows)) /\ Len(own) \in Nat /\ Len(rows) \in Nat
        /\ emit \in [Emitters -> EmitRecord]
        /\ \A i \in 1 .. Len(own) : own[i] \in 1 .. Len(rows)
    BY <1>1, SeamTypes, LenProperties, ElementOfSeq DEF FeedInv, EventsTypeOK
  <1>3. ASSUME rows' = rows,
               \/ emit'[Build] = emit[Build]
               \/ emit'[Build].pc # "numbered" /\ emit[Build].pc # "numbered"
        PROVE  Announced' = Announced
    <2>1. CASE emit'[Build] = emit[Build]
      BY <1>3, <2>1 DEF Announced
    <2>2. CASE emit'[Build].pc # "numbered" /\ emit[Build].pc # "numbered"
      <3>1. ASSUME NEW call, call.pc # "numbered"
            PROVE  Feed(rows, call) = [i \in 1 .. Len(own) |-> rows[own[i]].event]
        BY <1>2, <3>1 DEF Feed
      <3>2. Feed(rows, emit[Build]) = Feed(rows, emit'[Build])
        BY <2>2, <3>1
      <3> QED BY <1>3, <3>2 DEF Announced
    <2> QED BY <1>3, <2>1, <2>2
  <1>4. CASE UNCHANGED eventVars
    BY <1>3, <1>4 DEF eventVars
  <1>5. ASSUME NEW c \in Cancels, NEW event \in Event, BeginEmit(c, event)
        PROVE  Announced' = Announced
    <2>1. rows' = rows /\ emit'[Build] = emit[Build]
      BY <1>1, <1>2, <1>5 DEF BeginEmit
    <2> QED BY <1>3, <2>1
  <1>6. ASSUME NEW w \in Watchers, WatcherStep(w)
        PROVE  Announced' = Announced
    BY <1>3, <1>6 DEF WatcherStep, ReadEvents, Subscribe, Leave
  <1>7. ASSUME NEW e \in Emitters, Broadcast(e)
        PROVE  Announced' = Announced
    <2>1. rows' = rows /\ emit[e].pc = "stored" /\ emit' = [emit EXCEPT ![e] = Silent]
      BY <1>7 DEF Broadcast
    <2>2. Silent.pc = "rest"
      BY DEF Silent
    <2> QED BY <1>1, <1>2, <1>3, <2>1, <2>2
  <1>8. ASSUME NEW e \in Emitters, Store(e)
        PROVE  Announced' = Announced
    <2> DEFINE after == RowsIn(rows', Build)
    <2>1. /\ \A i \in 1 .. Len(rows) : rows'[i] = rows[i]
          /\ rows'[Len(rows) + 1].event = emit[e].event
          /\ emit[e].pc = "numbered" /\ emit'[e].pc = "stored"
          /\ e = Build => after = Append(own, Len(rows) + 1)
          /\ e # Build => after = own /\ emit'[Build] = emit[Build]
      <3>1. /\ \A i \in 1 .. Len(rows) : rows'[i] = rows[i]
            /\ rows'[Len(rows) + 1] =
                  [by |-> e, event |-> emit[e].event, sequence |-> emit[e].sequence]
            /\ emit[e].pc = "numbered" /\ emit'[e].pc = "stored"
            /\ \A q \in Emitters \ {e} : emit'[q] = emit[q]
            /\ RowsIn(rows', e) = Append(RowsIn(rows, e), Len(rows) + 1)
            /\ \A q \in Emitters \ {e} : RowsIn(rows', q) = RowsIn(rows, q)
        BY <1>8, StoreFacts
      <3>2. e # Build => Build \in Emitters \ {e}
        BY <1>1
      <3> QED BY <3>1, <3>2
    <2>2. Announced' = Feed(rows', emit'[Build])
      BY DEF Announced
    <2>3. CASE e # Build
      <3>1. \A i \in 1 .. Len(own) : rows'[own[i]] = rows[own[i]]
        BY <1>2, <2>1
      <3> HIDE DEF own, after
      <3>2. Feed(rows', emit[Build]) =
              [i \in 1 .. Len(own) + (IF emit[Build].pc = "numbered" THEN 1 ELSE 0) |->
                  IF i <= Len(own) THEN rows'[own[i]].event ELSE emit[Build].event]
        BY <2>1, <2>3 DEF Feed, own, after
      <3>3. Feed(rows, emit[Build]) =
              [i \in 1 .. Len(own) + (IF emit[Build].pc = "numbered" THEN 1 ELSE 0) |->
                  IF i <= Len(own) THEN rows[own[i]].event ELSE emit[Build].event]
        BY DEF Feed, own
      <3>4. \A i \in 1 .. Len(own) + (IF emit[Build].pc = "numbered" THEN 1 ELSE 0) :
               i <= Len(own) => rows'[own[i]].event = rows[own[i]].event
        BY <1>2, <3>1
      <3> QED BY <2>1, <2>2, <2>3, <3>2, <3>3, <3>4 DEF Announced
    <2>4. CASE e = Build
      <3>1. /\ Len(after) = Len(own) + 1 /\ after[Len(own) + 1] = Len(rows) + 1
            /\ \A i \in 1 .. Len(own) : after[i] = own[i]
        <4>1. own \in Seq(Nat) /\ Len(rows) + 1 \in Nat
          BY <1>1, <1>2, SeamTypes
        <4> QED BY <2>1, <2>4, <4>1, AppendProperties
      <3>2. \A i \in 1 .. Len(own) : rows'[after[i]] = rows[own[i]]
        BY <1>2, <2>1, <3>1
      <3> HIDE DEF own, after
      <3>3. PICK n \in Nat : n = Len(own)
        BY <1>2 DEF own
      <3>4. Feed(rows', emit'[Build]) = [i \in 1 .. n + 1 |-> rows'[after[i]].event]
        <4>1. Feed(rows', emit'[Build]) =
                 [i \in 1 .. n + 1 + 0 |->
                     IF i <= n + 1 THEN rows'[after[i]].event ELSE emit'[Build].event]
          BY <2>1, <2>4, <3>1, <3>3 DEF Feed, after
        <4> QED BY <4>1
      <3>5. Feed(rows, emit[Build]) =
               [i \in 1 .. n + 1 |-> IF i <= n THEN rows[own[i]].event ELSE emit[Build].event]
        BY <2>1, <2>4, <3>3 DEF Feed, own
      <3>6. \A i \in 1 .. n + 1 :
               rows'[after[i]].event = IF i <= n THEN rows[own[i]].event ELSE emit[Build].event
        <4> SUFFICES ASSUME NEW i \in 1 .. n + 1
                     PROVE  rows'[after[i]].event = IF i <= n THEN rows[own[i]].event
                                                    ELSE emit[Build].event
          OBVIOUS
        <4>1. CASE i <= n
          <5>1. i \in 1 .. Len(own)
            BY <3>3, <4>1
          <5> QED BY <3>2, <4>1, <5>1
        <4>2. CASE i = n + 1
          BY <2>1, <2>4, <3>1, <3>3, <4>2
        <4> QED BY <4>1, <4>2
      <3> QED BY <2>2, <3>4, <3>5, <3>6 DEF Announced
    <2> QED BY <2>3, <2>4
  <1> QED BY <1>4, <1>5, <1>6, <1>7, <1>8 DEF EmitStep

-----------------------------------------------------------------------------
\* A step of the review, or of an agent, keeps its events in line with it.
LEMMA StepTells ==
    ASSUME CycleInv, FeedInv, TellsInv, CycleStep \/ AgentStep
    PROVE  TellsInv'
  <1> DEFINE started(feed) == Cardinality(Places(feed, "VALIDATION_STARTED"))
             results(feed) == Cardinality(Places(feed, "VALIDATION_RESULT"))
  <1>1. /\ cycle \in CycleRecord /\ cycle.round \in Nat /\ cycle.said \in Nat
        /\ cycle.report.passed \in BOOLEAN /\ cycle.report.findings \in Nat
        /\ cycle.report.rounds \in Nat
    BY DEF CycleInv, CycleRecord, Report
  <1>2. PICK feed \in Seq(Event) : feed = Announced
    BY AnnouncedFacts
  <1>3. Len(feed) \in Nat /\ Tells(feed, cycle)
    BY <1>2, LenProperties DEF TellsInv
  <1>4. SUFFICES Tells(Announced', cycle')
    BY DEF TellsInv
  <1>5. UNCHANGED eventVars => Announced' = feed
    BY <1>2, QuietTells
  <1>6. \A event \in Event : BeginEmit(Build, event) => Announced' = Append(feed, event)
    BY <1>2, BeginTells
  <1>7. CASE BeginRound
    <2> DEFINE event == EventOf("VALIDATION_STARTED")
               next == Append(feed, event)
    <2>1. event \in Event /\ event.name = "VALIDATION_STARTED"
      BY DEF EventOf, Event, EventName
    <2>2. Announced' = next
      BY <1>6, <1>7, <2>1 DEF BeginRound
    <2> HIDE DEF event
    <2>3. started(next) = started(feed) + 1 /\ results(next) = results(feed)
      BY <2>1, PlacesGrow
    <2>4. /\ cycle.pc \in {"idle", "begin"}
          /\ cycle'.pc = "validate" /\ cycle'.round = cycle.round + 1
      BY <1>1, <1>7 DEF BeginRound, At, CycleRecord
    <2>5. started(feed) = cycle.round /\ results(feed) = cycle.round
      BY <1>3, <2>4 DEF Tells
    <2> HIDE DEF next
    <2> QED BY <1>1, <2>2, <2>3, <2>4, <2>5 DEF Tells
  <1>8. CASE Validate
    <2>1. cycle.pc = "validate" /\ Announced' = feed
      BY <1>5, <1>8 DEF Validate, At
    <2>2. /\ cycle'.pc \in {"raised", "review"} /\ cycle'.round = cycle.round
      BY <1>1, <1>8 DEF Validate, Goto, CycleRecord
    <2> QED BY <1>3, <2>1, <2>2 DEF Tells
  <1>9. CASE RunReviewer
    <2>1. cycle.pc = "review" /\ Announced' = feed
      BY <1>5, <1>9 DEF RunReviewer, At
    <2>2. cycle'.pc = "result" /\ cycle'.round = cycle.round /\ cycle'.said = 0
      BY <1>1, <1>9 DEF RunReviewer, CycleRecord
    <2> QED BY <1>3, <2>1, <2>2 DEF Tells
  <1>10. CASE AnnounceResult
    <2> DEFINE event == [name |-> "VALIDATION_RESULT", passed |-> cycle.report.passed]
               next == Append(feed, event)
               last == Len(feed) + 1
    <2>1. /\ event \in Event /\ event.name = "VALIDATION_RESULT"
          /\ event.passed = cycle.report.passed
      BY <1>1 DEF Event, EventName
    <2>2. Announced' = next
      BY <1>6, <1>10, <2>1 DEF AnnounceResult
    <2>3. /\ cycle.pc = "result" /\ cycle'.pc = "finding" /\ cycle'.round = cycle.round
          /\ cycle'.report = cycle.report /\ cycle'.said = cycle.said
      BY <1>1, <1>10 DEF AnnounceResult, At, Goto, CycleRecord
    <2> HIDE DEF event
    <2>4. /\ started(next) = started(feed) /\ results(next) = results(feed) + 1
          /\ Places(next, "VALIDATION_RESULT") = Places(feed, "VALIDATION_RESULT") \cup {last}
      BY <2>1, PlacesGrow
    <2>5. Len(next) = last /\ next[last] = event
      BY <2>1, AppendProperties
    <2>6. started(feed) = cycle.round /\ results(feed) = cycle.round - 1 /\ cycle.said = 0
      BY <1>3, <2>3 DEF Tells
    <2>7. \A i \in Places(next, "VALIDATION_RESULT") : i <= last
      BY <1>3, <2>4, PlacesFacts
    <2>8. last \in Places(next, "VALIDATION_RESULT") /\ Len(next) - last = 0
      BY <1>3, <2>4, <2>5
    <2>9. next[last].passed = cycle'.report.passed
      BY <2>1, <2>3, <2>5
    <2> HIDE DEF next, last
    <2> QED BY <1>1, <2>2, <2>3, <2>4, <2>6, <2>7, <2>8, <2>9 DEF Tells
  <1>11. CASE AnnounceFinding
    <2> DEFINE event == EventOf("REVIEW_FINDING")
               next == Append(feed, event)
    <2>1. event \in Event /\ event.name = "REVIEW_FINDING"
      BY DEF EventOf, Event, EventName
    <2>2. Announced' = next
      BY <1>6, <1>11, <2>1 DEF AnnounceFinding
    <2>3. /\ cycle.pc = "finding" /\ cycle'.pc = "finding" /\ cycle'.round = cycle.round
          /\ cycle'.report = cycle.report /\ cycle'.said = cycle.said + 1
      BY <1>1, <1>11 DEF AnnounceFinding, At, CycleRecord
    <2> HIDE DEF event
    <2>4. /\ started(next) = started(feed) /\ results(next) = results(feed)
          /\ Places(next, "VALIDATION_RESULT") = Places(feed, "VALIDATION_RESULT")
      BY <2>1, PlacesGrow
    <2>5. Len(next) = Len(feed) + 1 /\ \A i \in 1 .. Len(feed) : next[i] = feed[i]
      BY <2>1, AppendProperties
    <2>6. PICK last \in Places(feed, "VALIDATION_RESULT") :
             /\ \A i \in Places(feed, "VALIDATION_RESULT") : i <= last
             /\ feed[last].passed = cycle.report.passed
             /\ Len(feed) - last = cycle.said
      BY <1>3, <2>3 DEF Tells
    <2>7. last \in 1 .. Len(feed)
      BY PlacesFacts
    <2>8. next[last].passed = cycle'.report.passed /\ Len(next) - last = cycle'.said
      BY <1>1, <1>3, <2>3, <2>5, <2>6, <2>7
    <2>9. started(feed) = cycle.round /\ results(feed) = cycle.round
      BY <1>3, <2>3 DEF Tells
    <2> HIDE DEF next
    <2> QED BY <2>2, <2>3, <2>4, <2>6, <2>8, <2>9 DEF Tells
  <1>12. CASE Decide
    <2>1. /\ cycle.pc = "finding" /\ Announced' = feed /\ cycle.said = cycle.report.findings
      BY <1>5, <1>12 DEF Decide, At
    <2>2. /\ cycle'.pc \in {"returned", "fix"} /\ cycle'.round = cycle.round
          /\ cycle'.report = cycle.report /\ cycle'.said = cycle.said
      BY <1>1, <1>12 DEF Decide, Goto, AfterReport, CycleRecord
    <2>3. cycle.report.rounds = cycle.round
      BY <2>1 DEF CycleInv, RoundInv
    <2> QED BY <1>3, <2>1, <2>2, <2>3 DEF Tells
  <1>13. CASE RunFixer
    <2>1. cycle.pc = "fix" /\ Announced' = feed
      BY <1>5, <1>13 DEF RunFixer, At
    <2>2. cycle'.pc = "begin" /\ cycle'.round = cycle.round
      BY <1>1, <1>13 DEF RunFixer, Goto, CycleRecord
    <2> QED BY <1>3, <2>1, <2>2 DEF Tells
  <1>14. CASE Conclude \/ AnnounceEnd
    <2>1. cycle'.pc \in {"final", "done"}
      BY <1>1, <1>14 DEF Conclude, AnnounceEnd, Goto, CycleRecord
    <2> QED BY <2>1 DEF Tells
  <1> QED BY <1>7, <1>8, <1>9, <1>10, <1>11, <1>12, <1>13, <1>14 DEF CycleStep, AgentStep

LEMMA NextTells ==
    ASSUME CycleInv, FeedInv, TellsInv, [Next]_vars
    PROVE  TellsInv'
  <1>1. CASE CycleStep \/ AgentStep
    BY <1>1, StepTells
  <1>2. ASSUME \/ \E c \in Cancels : Cancel(c) \/ AnnounceCancel(c)
               \/ \E e \in Emitters : EmitStep(e) /\ UNCHANGED reviewVars
               \/ \E w \in Watchers : WatcherStep(w) /\ UNCHANGED reviewVars
               \/ UNCHANGED vars
        PROVE  TellsInv'
    <2>1. EventOf("STATE_CHANGED") \in Event /\ EventOf("COMPLETED") \in Event
      BY DEF EventOf, Event, EventName
    <2>2. cycle' = cycle
      BY <1>2 DEF Cancel, AnnounceCancel, reviewVars, vars
    <2>3. \/ UNCHANGED eventVars
          \/ \E e \in Emitters : EmitStep(e)
          \/ \E c \in Cancels, event \in Event : BeginEmit(c, event)
          \/ \E w \in Watchers : WatcherStep(w)
      BY <1>2, <2>1 DEF Cancel, AnnounceCancel, vars
    <2>4. Announced' = Announced
      BY <2>3, QuietTells
    <2> QED BY <2>2, <2>4 DEF TellsInv
  <1> QED BY <1>1, <1>2 DEF Next

LEMMA InitTells == Init => TellsInv
  <1> SUFFICES ASSUME Init PROVE TellsInv
    OBVIOUS
  <1>1. cycle = NotStarted /\ emit = [e \in Emitters |-> Silent] /\ rows = <<>>
    BY DEF Init, ReviewInit, EventsInit
  <1>2. cycle.pc = "idle" /\ cycle.round = 0
    BY <1>1 DEF NotStarted
  <1>3. emit[Build].pc = "rest"
    BY <1>1 DEF Emitters, Silent
  <1>4. Len(RowsIn(rows, Build)) = 0
    <2>1. <<>> \in Seq(Row) /\ Len(<<>>) = 0
      OBVIOUS
    <2>2. RowsIn(rows, Build) \in Seq(1 .. 0)
      BY <1>1, <2>1, RowsFacts
    <2>3. PICK list \in Seq(1 .. 0) : list = RowsIn(rows, Build)
      BY <2>2
    <2>4. Len(list) \in Nat /\ \A i \in 1 .. Len(list) : list[i] \in 1 .. 0
      BY LenProperties, ElementOfSeq
    <2>5. Len(list) = 0
      <3>1. ASSUME Len(list) # 0 PROVE FALSE
        <4>1. 1 \in 1 .. Len(list)
          BY <2>4, <3>1
        <4> QED BY <2>4, <4>1
      <3> QED BY <3>1
    <2> QED BY <2>3, <2>5
  <1>5. Announced \in Seq(Event) /\ Len(Announced) = 0
    BY <1>3, <1>4, InitFeed, AnnouncedFacts
  <1>6. \A name : Cardinality(Places(Announced, name)) = 0
    <2>1. \A name : Places(Announced, name) = {}
      BY <1>5 DEF Places
    <2> QED BY <2>1, FS_EmptySet
  <1> QED BY <1>2, <1>6 DEF TellsInv, Tells

\* The invariant of the report: until a review has returned, the events it has
\* called emit with tell which round it is in and what that round has found.
THEOREM ReportInvariant == Spec => []TellsInv
  <1>1. Init => TellsInv
    BY InitTells
  <1>2. CycleInv /\ FeedInv /\ TellsInv /\ [Next]_vars => TellsInv'
    BY NextTells
  <1> QED BY RoundsAreCounted, FeedInvariant, <1>1, <1>2, PTL DEF Spec

\* The events of a review that has returned say what its report says: as many
\* rounds, the judgement of the last of them, and that round's findings, for any
\* number of rounds and findings and whatever cancels emit in between.
THEOREM ReportsMatchFeed == Spec => []ReportMatchesFeed
  <1>1. ASSUME FeedInv, TellsInv PROVE ReportMatchesFeed
    <2> SUFFICES ASSUME At("returned")
                 PROVE  LET own == RowsOf(Build)
                            places(name) == {i \in DOMAIN own : rows[own[i]].event.name = name}
                            last == Max(places("VALIDATION_RESULT")) IN
                        /\ Cardinality(places("VALIDATION_STARTED")) = cycle.report.rounds
                        /\ Cardinality(places("VALIDATION_RESULT")) = cycle.report.rounds
                        /\ rows[own[last]].event.passed = cycle.report.passed
                        /\ Len(own) - last = cycle.report.findings
      BY DEF ReportMatchesFeed
    <2> DEFINE own == RowsOf(Build)
               places(name) == {i \in DOMAIN own : rows[own[i]].event.name = name}
    <2>1. cycle.pc = "returned" /\ emit[Build].pc = "rest"
      BY DEF At, AtRest
    <2>2. own = RowsIn(rows, Build)
      BY OwnIsOwnIn
    <2>3. own \in Seq(Nat) /\ Len(own) \in Nat /\ DOMAIN own = 1 .. Len(own)
      BY <1>1, <2>2, SeamTypes, LenProperties DEF Emitters
    <2> HIDE DEF own
    <2>4. /\ Announced \in Seq(Event) /\ Len(Announced) = Len(own)
          /\ \A i \in 1 .. Len(own) : Announced[i] = rows[own[i]].event
      BY <1>1, <2>1, <2>2, <2>3, AnnouncedFacts
    <2>5. \A name : places(name) = Places(Announced, name)
      BY <2>3, <2>4 DEF Places
    <2> HIDE DEF places
    <2>6. /\ Cardinality(Places(Announced, "VALIDATION_STARTED")) = cycle.report.rounds
          /\ Cardinality(Places(Announced, "VALIDATION_RESULT")) = cycle.report.rounds
      BY <1>1, <2>1 DEF TellsInv, Tells
    <2>7. PICK last \in Places(Announced, "VALIDATION_RESULT") :
             /\ \A i \in Places(Announced, "VALIDATION_RESULT") : i <= last
             /\ Announced[last].passed = cycle.report.passed
             /\ Len(Announced) - last = cycle.report.findings
      BY <1>1, <2>1 DEF TellsInv, Tells
    <2>8. Places(Announced, "VALIDATION_RESULT") \subseteq 1 .. Len(own)
      BY <2>4, PlacesFacts
    <2>9. Max(Places(Announced, "VALIDATION_RESULT")) = last
      <3>1. Places(Announced, "VALIDATION_RESULT") \in SUBSET Int
        BY <2>8
      <3> QED BY <2>7, <3>1, MaxIs
    <2>10. last \in 1 .. Len(own)
      BY <2>8
    <2>11. /\ rows[own[last]].event.passed = cycle.report.passed
           /\ Len(own) - last = cycle.report.findings
      BY <2>4, <2>7, <2>10
    <2> QED BY <2>5, <2>6, <2>9, <2>11 DEF own, places
  <1> QED BY FeedInvariant, ReportInvariant, <1>1, PTL
=============================================================================
