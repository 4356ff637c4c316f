------------------------------ MODULE Compare ------------------------------
(***************************************************************************)
(* What a recorded case holds the emulator to: the comparison of a replay  *)
(* with the record (internal/conformance/compare.go), and the reduction of *)
(* a case to what that comparison enforces, by which a new record is       *)
(* compared with the one on disk (enforcedCase in record.go).              *)
(*                                                                         *)
(* An observation is [outcome, sqlstate, message, tag, columns, rows,      *)
(* results]; a command tag is a sequence of words; a recorded case is      *)
(* [name, group, ignoreRows, race, knownGap, recordOnly, obs, results]:    *)
(* what the only session saw, or what each of the concurrent ones did.     *)
(***************************************************************************)
EXTENDS Naturals, Sequences, FiniteSets, Functions

\* The elements of a sequence at some of its positions, in order.
Kept(seq, at) ==
  LET kept[i \in 0 .. Len(seq)] ==
        IF i = 0 THEN <<>>
        ELSE IF i \in at THEN Append(kept[i - 1], seq[i]) ELSE kept[i - 1]
  IN  kept[Len(seq)]

\* A session's last step, and the steps before it.
Final(steps)  == steps[Len(steps)]
Before(steps) == SubSeq(steps, 1, Len(steps) - 1)

\* isRowCountTag: SELECT and a number.
isRowCountTag(tag) == Len(tag) = 2 /\ tag[1] = "SELECT"

-----------------------------------------------------------------------------
(* Compare: the differences between a recorded case and its replay.        *)

Diff(session, step, field, advisory) ==
  {[session |-> session, step |-> step, field |-> field, advisory |-> advisory]}

When(cond, diffs) == IF cond THEN diffs ELSE {}

\* The answer of one statement: an Observation's own, or one of its results.
answerDiffs(ignoreRows, w, g, session, step) ==
  When(w.tag # g.tag /\ ~(ignoreRows /\ isRowCountTag(w.tag)),
       Diff(session, step, "command_tag", FALSE))
  \cup When(w.columns # g.columns, Diff(session, step, "columns", FALSE))
  \cup When(~ignoreRows /\ w.rows # g.rows, Diff(session, step, "rows", FALSE))

stepDiffs(ignoreRows, w, g, session, step) ==
  CASE w.outcome # g.outcome ->
         Diff(session, step, "outcome", FALSE) \cup Diff(session, step, "detail", TRUE)
    [] w.outcome = g.outcome /\ w.outcome = "error" ->
         When(w.sqlstate # "" /\ w.sqlstate # g.sqlstate,
              Diff(session, step, "sqlstate", FALSE))
         \cup When(w.message # g.message, Diff(session, step, "message", TRUE))
    [] OTHER ->
         answerDiffs(ignoreRows, w, g, session, step)
         \cup IF Len(w.results) # Len(g.results)
              THEN Diff(session, step, "result_count", FALSE)
              ELSE UNION {answerDiffs(ignoreRows, w.results[n], g.results[n], session, step)
                            : n \in DOMAIN w.results}

compareObservations(ignoreRows, session, want, got) ==
  IF Len(want) # Len(got) THEN Diff(session, 0, "step_count", FALSE)
  ELSE UNION {stepDiffs(ignoreRows, want[i], got[i], session, i) : i \in DOMAIN want}

\* The sessions whose last step is compared as the one a conflict surfaces at.
Raced(golden, emulated) ==
  {i \in DOMAIN golden.results :
     Len(golden.results[i]) = Len(emulated.results[i]) /\ golden.results[i] # <<>>}

\* The last steps that failed, in the order of their sessions.
Lost(results, raced) ==
  LET lost == Kept(results, {i \in raced : Final(results[i]).outcome = "error"})
  IN  [n \in DOMAIN lost |-> Final(lost[n])]

compareConflictRace(golden, emulated) ==
  LET raced  == Raced(golden, emulated)
      want   == Lost(golden.results, raced)
      got    == Lost(emulated.results, raced)
      before == UNION {LET whole == i \notin raced IN
                       compareObservations(emulated.ignoreRows, i,
                         IF whole THEN golden.results[i] ELSE Before(golden.results[i]),
                         IF whole THEN emulated.results[i] ELSE Before(emulated.results[i]))
                         : i \in DOMAIN golden.results}
  IN  before \cup
      IF Len(want) # Len(got) THEN Diff(0, 0, "conflict_losers", FALSE)
      ELSE When(\E i \in DOMAIN want : want[i].sqlstate # got[i].sqlstate,
                Diff(0, 0, "sqlstate", FALSE))

compareSessions(golden, emulated) ==
  CASE Len(golden.results) # Len(emulated.results) -> Diff(0, 0, "session_count", FALSE)
    [] Len(golden.results) = Len(emulated.results) /\ (golden.race \/ emulated.race) ->
         compareConflictRace(golden, emulated)
    [] OTHER -> UNION {compareObservations(emulated.ignoreRows, i, golden.results[i],
                                           emulated.results[i])
                         : i \in DOMAIN golden.results}

CompareCase(golden, emulated) ==
  IF golden.results # <<>> \/ emulated.results # <<>>
  THEN compareSessions(golden, emulated)
  ELSE compareObservations(emulated.ignoreRows, 0, golden.obs, emulated.obs)

\* Failures: what is neither advisory nor an accepted gap. A session count
\* that differs is reported without the case's gap.
Failures(golden, emulated) ==
  {d \in CompareCase(golden, emulated) :
     ~d.advisory /\ (emulated.knownGap => d.field = "session_count")}

\* CompareSuites, over cases of different names: those that fail, and those
\* that are missing though the record did not keep them for itself.
Failing(golden, emulated) ==
  {want.name : want \in
     {w \in golden :
        LET replayed == {g \in emulated : g.name = w.name}
        IN  IF replayed = {} THEN ~w.recordOnly
            ELSE \E g \in replayed : Failures(w, g) # {}}}

-----------------------------------------------------------------------------
(* enforcedCase: a copy of a case without what the comparison waives.      *)

withoutRowsIn(answer) ==
  [answer EXCEPT !.rows = <<>>, !.tag = IF isRowCountTag(@) THEN <<>> ELSE @]

withoutRows(obs) ==
  [i \in DOMAIN obs |->
     [withoutRowsIn(obs[i]) EXCEPT
        !.results = [n \in DOMAIN @ |-> withoutRowsIn(@[n])]]]

Count(seq) == [o \in Range(seq) |-> Cardinality({i \in DOMAIN seq : seq[i] = o})]


\* withConflictFinalsPooled: the last steps, sorted, away from their sessions.
Pooled(results) ==
  LET ran == Kept(results, {i \in DOMAIN results : results[i] # <<>>})
  IN  [steps  |-> [i \in DOMAIN results |->
                     IF results[i] = <<>> THEN <<>> ELSE Before(results[i])],
       finals |-> Count([n \in DOMAIN ran |-> Final(ran[n])])]

enforcedCase(c) ==
  LET obs     == IF c.ignoreRows THEN withoutRows(c.obs) ELSE c.obs
      results == IF c.ignoreRows THEN [i \in DOMAIN c.results |-> withoutRows(c.results[i])]
                 ELSE c.results
  IN  [c EXCEPT !.obs = obs,
                !.results = IF c.race THEN Pooled(results)
                            ELSE [steps |-> results, finals |-> Count(<<>>)]]
=============================================================================
