------------------------------ MODULE Recorder ------------------------------
(***************************************************************************)
(* The baseline recorder (cmd/dsql-baseline and conformance.RunSuite): it  *)
(* sets up a schema on a cluster, probes it case by case, drops what it    *)
(* created and saves what it saw. The cluster conflicts, loses relations   *)
(* and connections; the user interrupts; the process dies; the command is  *)
(* run again.                                                              *)
(***************************************************************************)
EXTENDS Fixtures

CONSTANTS
  Suites,          \* the suites the command is built with over time: sequences
                   \* of [name, group, steps, sessions, ignoreRows, race, ...]
  StepAnswers,     \* what the target may answer a step of a case
  RaceAnswers,     \* what the sessions of a case may observe
  Objects,         \* the relations Setup creates, in its order
  DroppedFirst,    \* those Setup drops before it creates any
  schemaAttempts,  \* tries of a schema statement
  Versions,        \* what SELECT version() may give, "" where it fails
  MaxRuns          \* bound on the runs of the command

VARIABLES
  cluster,  \* the suite's objects that exist on the cluster
  conn,     \* the recorder's connection
  ctx,      \* whether the context is cancelled
  run       \* the run in progress

vars == <<dir, save, cluster, conn, ctx, run>>

\* failedObservation of an error that is not the target's.
NoAnswer(why) ==
  [outcome |-> "error", sqlstate |-> "", message |-> why, tag |-> <<>>,
   columns |-> <<>>, rows |-> <<>>, results |-> <<>>]

Answered(o) == o.outcome # "error" \/ o.sqlstate # ""

\* A case of a suite, and what is recorded of one.
Cases ==
  [name : STRING, group : Groups \cup {NoGroup}, steps : Nat, sessions : BOOLEAN,
   ignoreRows : BOOLEAN, race : BOOLEAN, knownGap : BOOLEAN, recordOnly : BOOLEAN]

Observations ==
  StepAnswers \cup {NoAnswer(met) : met \in {"undecoded", "closed", "cancelled", "lost"}}

RecordedCases ==
  [name : STRING, group : Groups \cup {NoGroup}, ignoreRows : BOOLEAN, race : BOOLEAN,
   knownGap : BOOLEAN, recordOnly : BOOLEAN, obs : Seq(Observations),
   results : RaceAnswers \cup {<<>>}]

Goldens ==
  [at : Nat, version : Versions \cup {""}, cases : Seq(RecordedCases)]

\* The suite's own test checks that no two cases have one name; Verify is not
\* empty; a file is a record, half a record or none.
ASSUME RecorderAssumption ==
  /\ Suites \subseteq Seq(Cases)
  /\ \A suite \in Suites :
       \A i, j \in DOMAIN suite : suite[i].name = suite[j].name => i = j
  /\ \A o \in StepAnswers : Answered(o)
  /\ Objects \in Seq(STRING) /\ Objects # <<>>
  /\ DroppedFirst \in Seq(Range(Objects))
  /\ schemaAttempts \in Nat \ {0}
  /\ MaxRuns \in Nat
  /\ Absent # Torn /\ Absent \notin Goldens /\ Torn \notin Goldens

NoRun ==
  [pc |-> "idle", no |-> 0, suite |-> <<>>, todo |-> <<>>, attempt |-> 0,
   obs |-> <<>>, golden |-> [at |-> 0, version |-> "", cases |-> <<>>],
   err |-> "", skipped |-> FALSE, blind |-> FALSE, report |-> ""]

Init ==
  /\ dir = [g \in Groups |-> Absent]
  /\ save = NoSave
  /\ cluster = {}
  /\ conn = [open |-> FALSE, txn |-> "none"]
  /\ ctx = "live"
  /\ run = NoRun

\* What a statement may meet: answers of the cluster, and the loss of the
\* connection. A cancelled context stops a statement before it is sent.
Meets(answers) ==
  CASE ~conn.open -> {"closed"}
    [] conn.open /\ ctx = "cancelled" -> {"cancelled"}
    [] OTHER -> answers \cup {"lost"}

Connection(met) ==
  conn' = [open |-> conn.open /\ met # "lost",
           txn  |-> IF conn.txn = "open" /\ met \in {"error", "conflict"}
                    THEN "failed" ELSE conn.txn]

\* The statement being run is the head of todo.
Done(r) == [r EXCEPT !.todo = Tail(@), !.attempt = 0]

\* Mutation: the tries are not counted up.
AgainUncounted(r) == [r EXCEPT !.attempt = 1 - @]

Again(r) == [r EXCEPT !.attempt = @ + 1]

\* execRetryingConflicts: only a conflict is tried again, and not for ever.
Retries(met) == met = "conflict" /\ run.attempt + 1 < schemaAttempts

\* A statement whose answer is lost may have run.
Effect(met, done) ==
  CASE met = "ok" -> {done} [] met = "lost" -> {cluster, done} [] OTHER -> {cluster}

\* RunSuite returns; the deferred cleanup runs first, with a context of its
\* own.
Return(err) ==
  [run EXCEPT !.pc = "cleanup", !.todo = Objects, !.attempt = 0, !.err = err]

-----------------------------------------------------------------------------
(* The command.                                                            *)

\* main connects and RunSuite reads the server's version, which need not
\* answer; with --cleanup-only there is only the cleanup.
Start(suite, mode) ==
  /\ run.pc = "idle" /\ run.no < MaxRuns
  /\ \E version \in Versions :
       run' = [NoRun EXCEPT
         !.pc = IF mode = "record" THEN "setup" ELSE "cleanupOnly",
         !.no = run.no + 1, !.suite = suite,
         !.todo = IF mode = "record" THEN DroppedFirst ELSE Objects,
         !.golden = [at |-> run.no + 1, version |-> version, cases |-> <<>>]]
  /\ conn' = [open |-> TRUE, txn |-> "none"]
  /\ ctx' = "live"
  /\ UNCHANGED <<dir, save, cluster>>

\* The process ends, and with it all it had in memory.
Exit(report) ==
  [NoRun EXCEPT !.no = run.no, !.err = run.err, !.skipped = run.skipped,
                !.report = report]

\* SIGINT or SIGTERM; neither the cleanup nor the save looks at the context.
Interrupt ==
  /\ run.pc \notin {"idle", "cleanup", "save"}
  /\ ctx = "live"
  /\ ctx' = "cancelled"
  /\ UNCHANGED <<dir, save, cluster, conn, run>>

\* The process is killed; what it had not written is gone.
Crash ==
  /\ run.pc # "idle"
  /\ run' = Exit("crashed")
  /\ conn' = [open |-> FALSE, txn |-> "none"]
  /\ save' = NoSave
  /\ UNCHANGED <<dir, cluster, ctx>>

-----------------------------------------------------------------------------
(* RunSuite.                                                               *)

\* One Setup statement: a DROP IF EXISTS, then a CREATE. One that reports
\* success may still not have left the relation in place.
Setup ==
  /\ run.pc \in {"setup", "create"} /\ run.todo # <<>>
  /\ LET o == Head(run.todo)
         answers == IF run.pc = "create" /\ o \in cluster THEN {"exists"}
                    ELSE {"ok", "conflict", "error"}
     IN  \E met \in Meets(answers) :
           /\ Connection(met)
           /\ run' = CASE met = "ok" -> Done(run)
                       [] Retries(met) -> Again(run)
                       [] OTHER -> Return(met)
           /\ cluster' \in IF run.pc = "setup" THEN Effect(met, cluster \ {o})
                           ELSE {cluster} \cup Effect(met, cluster \cup {o})
  /\ UNCHANGED <<dir, save, ctx>>

SetupDone ==
  /\ run.pc \in {"setup", "create"} /\ run.todo = <<>>
  /\ run' = [run EXCEPT !.pc = IF @ = "setup" THEN "create" ELSE "verify",
                        !.todo = Objects]
  /\ UNCHANGED <<dir, save, cluster, conn, ctx>>

\* Mutation: the schema is not read again after the cases.
AfterCasesUnverified == [run EXCEPT !.pc = "cleanup", !.todo = Objects]

\* After the last case the schema is verified once more.
AfterCases == [run EXCEPT !.pc = "reverify", !.todo = Objects]

\* Verify reads every relation, before the cases and after them.
Verify ==
  /\ run.pc \in {"verify", "reverify"} /\ run.todo # <<>>
  /\ \E met \in Meets(IF Head(run.todo) \in cluster THEN {"ok", "conflict"}
                      ELSE {"error"}) :
       /\ Connection(met)
       /\ run' = CASE met = "ok" -> Done(run)
                   [] Retries(met) -> Again(run)
                   [] OTHER -> Return(met)
  /\ UNCHANGED <<dir, save, cluster, ctx>>

VerifyDone ==
  /\ run.pc \in {"verify", "reverify"} /\ run.todo = <<>>
  /\ run' = IF run.pc = "verify" THEN [run EXCEPT !.pc = "case"] ELSE Return("")
  /\ UNCHANGED <<dir, save, cluster, conn, ctx>>

\* The cluster loses a relation it had.
LoseRelation ==
  /\ run.pc \in {"case", "step"}
  /\ \E o \in cluster : cluster' = cluster \ {o}
  /\ UNCHANGED <<dir, save, conn, ctx, run>>

CaseNo == Len(run.golden.cases) + 1

NextCase == run.suite[CaseNo]

Recorded(c, obs, results) ==
  [name |-> c.name, group |-> c.group, ignoreRows |-> c.ignoreRows, race |-> c.race,
   knownGap |-> c.knownGap, recordOnly |-> c.recordOnly, obs |-> obs, results |-> results]

Record(r, obs, results) ==
  [r EXCEPT !.pc = "case", !.obs = <<>>,
            !.golden.cases = Append(@, Recorded(NextCase, obs, results))]

NextCases ==
  /\ run.pc = "case"
  /\ \/ /\ CaseNo > Len(run.suite)
        /\ run' = AfterCases
     \/ /\ CaseNo <= Len(run.suite)
        /\ ~NextCase.sessions
        /\ run' = [run EXCEPT !.pc = "step", !.obs = <<>>]
  /\ UNCHANGED <<dir, save, cluster, conn, ctx>>

\* A step the target did not answer, on a connection that is then gone.
LostTarget(o, open) == ~Answered(o) /\ ~open

\* Mutation: the case's transaction is left as it is.
ResetConnNone(met) == [conn EXCEPT !.open = @ /\ met # "lost"]

\* The ROLLBACK after a case.
ResetConn(met) ==
  [open |-> conn.open /\ met # "lost", txn |-> IF met = "ok" THEN "none" ELSE conn.txn]

\* Observe: an answer, one the driver cannot decode, or none. A case may
\* leave a transaction open or failed behind it.
Step ==
  /\ run.pc = "step" /\ Len(run.obs) < NextCase.steps
  /\ \E met \in Meets({"answer", "undecoded"}) :
       \E o \in IF met = "answer" THEN StepAnswers ELSE {NoAnswer(met)},
          txn \in {"none", "open", "failed"} :
         /\ met \notin {"answer", "undecoded"} => txn = conn.txn
         /\ conn' = [open |-> conn.open /\ met # "lost", txn |-> txn]
         /\ run' = IF LostTarget(o, conn'.open) THEN Return("lost")
                   ELSE [run EXCEPT !.obs = Append(@, o),
                                    !.blind = @ \/ cluster # Range(Objects)]
  /\ UNCHANGED <<dir, save, cluster, ctx>>

\* The case is over: ROLLBACK, whose failure is only reported.
Reset ==
  /\ run.pc = "step" /\ Len(run.obs) = NextCase.steps
  /\ \E met \in Meets({"ok"}) : conn' = ResetConn(met)
  /\ run' = Record(run, run.obs, <<>>)
  /\ UNCHANGED <<dir, save, cluster, ctx>>

\* runSessions: connections of its own, and what their steps met is not looked
\* at, a timeout or a lost connection included.
RunSessions ==
  /\ run.pc = "case" /\ CaseNo <= Len(run.suite) /\ NextCase.sessions
  /\ \/ run' = Return("connect")
     \/ /\ ctx = "live"
        /\ \E results \in RaceAnswers :
             run' = [Record(run, <<>>, results) EXCEPT
                       !.blind = @ \/ cluster # Range(Objects)]
  /\ UNCHANGED <<dir, save, cluster, conn, ctx>>

-----------------------------------------------------------------------------
(* Cleanup.                                                                *)

\* The cleanup's context is its own, so an interrupt does not stop it.
CleanupMeets ==
  IF ~conn.open THEN {"closed"}
  ELSE {"lost"} \cup (IF conn.txn = "failed" THEN {"error"}
                      ELSE {"ok", "conflict", "error"})

\* One DROP IF EXISTS. Inside a transaction a case left open it lasts no
\* longer than the connection.
Cleanup ==
  /\ run.pc = "cleanup" /\ run.todo # <<>>
  /\ \E met \in CleanupMeets :
       /\ Connection(met)
       /\ run' = CASE met = "ok" -> Done(run)
                   [] Retries(met) -> Again(run)
                   [] OTHER -> [Done(run) EXCEPT !.skipped = TRUE]
       /\ cluster' \in IF conn.txn # "none" THEN {cluster}
                       ELSE Effect(met, cluster \ {Head(run.todo)})
  /\ UNCHANGED <<dir, save, ctx>>

\* main saves only a run that succeeded.
Saves(r) == r.err = ""

\* RunSuite has returned.
CleanupDone ==
  /\ run.pc = "cleanup" /\ run.todo = <<>>
  /\ conn' = [open |-> FALSE, txn |-> "none"]
  /\ IF Saves(run)
     THEN /\ run' = [run EXCEPT !.pc = "save"]
          /\ StartSave(run.golden)
     ELSE /\ run' = Exit("nothing written")
          /\ UNCHANGED <<dir, save>>
  /\ UNCHANGED <<cluster, ctx>>

Save ==
  /\ run.pc = "save"
  /\ SaveStep \/ SaveFails
  /\ UNCHANGED <<cluster, conn, ctx, run>>

SaveEnds ==
  /\ run.pc = "save" /\ save.pc \in {"done", "failed"}
  /\ run' = Exit(save.pc)
  /\ save' = NoSave
  /\ UNCHANGED <<dir, cluster, conn, ctx>>

\* --cleanup-only: every statement once, on the interruptible context.
CleanupOnly ==
  /\ run.pc = "cleanupOnly" /\ run.todo # <<>>
  /\ \E met \in Meets({"ok", "conflict", "error"}) :
       /\ Connection(met)
       /\ run' = [Done(run) EXCEPT !.skipped = @ \/ met # "ok"]
       /\ cluster' \in Effect(met, cluster \ {Head(run.todo)})
  /\ UNCHANGED <<dir, save, ctx>>

\* Leftovers: a query that fails is skipped, and counts nothing.
Leftovers ==
  /\ run.pc = "cleanupOnly" /\ run.todo = <<>>
  /\ \E met \in Meets({"ok"}) :
       run' = Exit(IF met = "ok" /\ cluster # {} THEN "leftovers" ELSE "clean")
  /\ conn' = [open |-> FALSE, txn |-> "none"]
  /\ UNCHANGED <<dir, save, cluster, ctx>>

-----------------------------------------------------------------------------

Steps ==
  \/ Setup \/ SetupDone \/ Verify \/ VerifyDone \/ NextCases \/ Step \/ Reset
  \/ RunSessions \/ Cleanup \/ CleanupDone \/ Save \/ SaveEnds
  \/ CleanupOnly \/ Leftovers

Next ==
  \/ \E suite \in Suites, mode \in {"record", "cleanup"} : Start(suite, mode)
  \/ Steps \/ Interrupt \/ Crash \/ LoseRelation

\* The command runs on as long as it is not killed.
Spec == Init /\ [][Next]_vars /\ WF_vars(Steps)

-----------------------------------------------------------------------------
(* Properties.                                                             *)

Errors == {"", "closed", "cancelled", "lost", "conflict", "error", "exists", "connect"}
Reports == {"", "done", "failed", "nothing written", "crashed", "leftovers", "clean"}

Runs ==
  [pc : {"idle", "setup", "create", "verify", "case", "step", "reverify", "cleanup",
         "save", "cleanupOnly"},
   no : Nat, suite : Suites \cup {<<>>}, todo : Seq(Range(Objects)),
   attempt : 0 .. schemaAttempts - 1, obs : Seq(Observations), golden : Goldens,
   err : Errors, skipped : BOOLEAN, blind : BOOLEAN, report : Reports]

\* The variables of the command: in particular a statement is tried at most
\* schemaAttempts times, and a file is whole, torn or missing.
TypeOK ==
  /\ cluster \subseteq Range(Objects)
  /\ conn \in [open : BOOLEAN, txn : {"none", "open", "failed"}]
  /\ ctx \in {"live", "cancelled"}
  /\ run \in Runs
  /\ dir \in [Groups -> Goldens \cup {Absent, Torn}]
  /\ save \in [pc : {"idle", "write", "writing", "done", "failed"}, golden : Goldens,
               todo : Seq(Groups), changed : SUBSET Groups]

\* The record follows the suite, case by case.
Follows(golden, suite) ==
  /\ Len(golden.cases) <= Len(suite)
  /\ \A i \in DOMAIN golden.cases :
       /\ golden.cases[i].name = suite[i].name
       /\ ~suite[i].sessions => Len(golden.cases[i].obs) = suite[i].steps

\* Every step so far was answered.
Evidence(obs) ==
  \A j \in DOMAIN obs : Answered(obs[j]) \/ obs[j] = NoAnswer("undecoded")

AllEvidence ==
  /\ \A i \in DOMAIN run.golden.cases : Evidence(run.golden.cases[i].obs)
  /\ Evidence(run.obs)

\* Why a record is evidence: a probe without the schema leaves a relation that
\* the second verification misses, and a step that was not answered though
\* the connection lives leaves a cancelled context, which stops it.
EvidenceInv ==
  /\ Follows(run.golden, run.suite)
  /\ run.pc \in {"setup", "create", "verify"} =>
       ~run.blind /\ run.golden.cases = <<>> /\ run.obs = <<>>
  /\ run.pc = "step" =>
       /\ CaseNo <= Len(run.suite) /\ ~NextCase.sessions
       /\ Len(run.obs) <= NextCase.steps
  /\ run.pc \in {"case", "step"} =>
       /\ run.blind => cluster # Range(Objects)
       /\ ~AllEvidence => ctx = "cancelled"
  /\ run.pc = "reverify" =>
       /\ Len(run.golden.cases) = Len(run.suite)
       /\ run.blind => \E o \in Range(run.todo) : o \notin cluster
       /\ ~AllEvidence => ctx = "cancelled" /\ run.todo # <<>>
  /\ run.pc = "save" \/ (run.pc = "cleanup" /\ run.err = "") =>
       Len(run.golden.cases) = Len(run.suite) /\ ~run.blind /\ AllEvidence
  /\ IF run.pc = "save" THEN save.golden = run.golden ELSE save = NoSave

\* Why a cleanup that skipped nothing dropped everything: outside a case there
\* is no transaction to swallow the drops unless the connection is lost or
\* the run was interrupted.
CleanupInv ==
  /\ run.pc \in {"setup", "create", "verify"} => conn.txn = "none"
  /\ run.pc \in {"case", "reverify", "cleanup"} =>
       conn.txn = "none" \/ ~conn.open \/ ctx = "cancelled"
  /\ ctx = "live" /\ ~run.skipped =>
       /\ run.pc = "cleanup" => cluster \subseteq Range(run.todo)
       /\ run.pc = "save" => cluster = {}

\* The groups of the record being saved.
Due == {c.group : c \in Range(save.golden.cases)}

\* Why a save that completes serves: what it has passed is on disk, and it has
\* passed everything before it prunes.
SaveInv ==
  /\ save.pc \in {"write", "writing", "done"} =>
       /\ Due \subseteq Groups /\ Due # {} /\ Range(save.todo) \subseteq Due
       /\ \A g \in Due \ Range(save.todo) :
            sameContent(dir[g], partOf(save.golden, g))
  /\ save.pc = "writing" => save.todo # <<>>
  /\ save.pc = "done" =>
       save.todo = <<>> /\ \A g \in Groups \ Due : dir[g] = Absent

\* What is saved is evidence of how the cluster behaves: a probe of every case
\* of the suite, made while the schema was in place, each step of which the
\* target answered. A connection lost at any statement, an interrupt, or a
\* relation lost half-way never gets into the record.
RecordIsEvidence ==
  save.pc = "done" /\ run.pc = "save" =>
    /\ ~run.blind
    /\ Len(run.golden.cases) = Len(run.suite)
    /\ \A i \in DOMAIN run.suite :
         /\ run.golden.cases[i].name = run.suite[i].name
         /\ ~run.suite[i].sessions =>
              \A j \in 1 .. run.suite[i].steps :
                Answered(run.golden.cases[i].obs[j])
                \/ run.golden.cases[i].obs[j] = NoAnswer("undecoded")

\* Every replay of the suite's cases.
Replays(suite) ==
  LET runs(c) == IF c.sessions THEN {Recorded(c, <<>>, r) : r \in RaceAnswers}
                 ELSE {Recorded(c, obs, <<>>) : obs \in [1 .. c.steps -> StepAnswers]}
  IN  {Range(replay) : replay \in
         {f \in [DOMAIN suite -> UNION {runs(suite[i]) : i \in DOMAIN suite}] :
            \A i \in DOMAIN suite : f[i] \in runs(suite[i])}}


\* A run that was not interrupted and reported no skipped cleanup dropped
\* everything it created, whatever transactions its cases left behind.
NothingLeftBehind ==
  /\ run.pc = "idle" /\ run.report \in {"done", "failed", "nothing written"}
  /\ ~run.skipped /\ ctx = "live"
  => cluster = {}

\* A run ends, however often statements conflict: the retries are bounded.
RunEnds == run.pc # "idle" ~> run.pc = "idle"

\* The suite is safe to re-run: nothing an earlier run left refuses a later
\* one.
SafeToRerun == run.err # "exists"

\* What --cleanup-only reports is so.
CleanupReportTruthful == run.report = "clean" => cluster = {}

\* Nothing but answers of the target is saved, from concurrent sessions too.
OnlyAnswersSaved ==
  save.pc = "done" /\ run.pc = "save" =>
    \A i \in DOMAIN run.golden.cases :
      \A s \in Range(run.golden.cases[i].results) : \A o \in Range(s) : Answered(o)
=============================================================================
