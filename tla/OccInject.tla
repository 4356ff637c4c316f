----------------------------- MODULE OccInject -----------------------------
(***************************************************************************)
(* The injection of conflicts into one session: the ruleset names tables   *)
(* whose transactions fail at COMMIT, every Nth time. A session remembers  *)
(* the tables touched and counts, per rule, the commits that matched it.   *)
(* Only statements the session admits appear; Session models the refusals. *)
(***************************************************************************)
EXTENDS Naturals, Sequences

CONSTANTS
  Tables,      \* the relations a statement may write
  Inject,      \* occ.inject of the ruleset: a sequence of rules
  Autocommit,  \* whether the client also writes outside transactions
  MaxCommits   \* bound on the commits of a behaviour

\* OCC.validate: a rule that could never fire is refused when it is loaded.
\* Every 0 stands for 1.
Validated(inject) ==
  inject \in Seq([tables : SUBSET Tables, every : Nat])

\* relationName never gives an empty name.
ASSUME OccInjectAssumption ==
  /\ "" \notin Tables
  /\ Validated(Inject)
  /\ Autocommit \in BOOLEAN
  /\ MaxCommits \in Nat

VARIABLES
  occTouched,  \* the tables remembered since the last resetOcc
  occCommits,  \* per rule, the commits counted
  inTxn,       \* the tracker's answer
  written,     \* the tables the open transaction has written
  matched,     \* per rule, the transactions it matched when they committed
  last         \* the last COMMIT: what it should and what it did report

vars == <<occTouched, occCommits, inTxn, written, matched, last>>

Rules == DOMAIN Inject

NoCommit == [due |-> FALSE, failed |-> FALSE]

Init ==
  /\ occTouched = {}
  /\ occCommits = [i \in Rules |-> 0]
  /\ inTxn = FALSE
  /\ written = {}
  /\ matched = [i \in Rules |-> 0]
  /\ last = NoCommit

\* A rule without tables matches any transaction.
Matches(rule, touched) == rule.tables = {} \/ rule.tables \cap touched # {}

Every(rule) == IF rule.every = 0 THEN 1 ELSE rule.every

Fires(rule, count) == count % Every(rule) = 0

\* The rules that fire if each of rs counts this commit.
Firing(rs, counts) == {i \in rs : Fires(Inject[i], counts[i] + 1)}

First(rs) == CHOOSE i \in rs : \A j \in rs : i <= j

\* Mutation: a commit counts for every rule.
CountedTogether(touched) == Rules

\* occCommitConflict stops at the first rule that fires; the ones after it do
\* not count the commit.
Counted(touched) ==
  LET rs     == {i \in Rules : Matches(Inject[i], touched)}
      firing == Firing(rs, occCommits)
  IN  {i \in rs : firing = {} \/ i <= First(firing)}

Bump(counts, rs) == [i \in Rules |-> counts[i] + IF i \in rs THEN 1 ELSE 0]

-----------------------------------------------------------------------------
Begin ==
  /\ ~inTxn
  /\ inTxn' = TRUE
  /\ UNCHANGED <<occTouched, occCommits, written, matched, last>>

\* The table a statement writes, "" for one that writes none.
statementTables(rel) == {rel} \ {""}

\* addOccTables, for every admitted statement.
Statement(rel) ==
  /\ inTxn \/ Autocommit
  /\ occTouched' = occTouched \cup statementTables(rel)
  /\ written' = IF inTxn THEN written \cup ({rel} \cap Tables) ELSE {}
  /\ UNCHANGED <<occCommits, inTxn, matched, last>>

\* Mutation: the tables are remembered.
resetOccKeeps == occTouched' = occTouched

resetOcc == occTouched' = {}

EndTxn == inTxn' = FALSE /\ written' = {}

\* COMMIT of a transaction that was not refused a lock: occCommitConflict
\* decides, and both outcomes forget the transaction. It is asked even where
\* none is open.
Commit ==
  /\ inTxn \/ Autocommit
  /\ \A i \in Rules : matched[i] < MaxCommits
  /\ LET counted == Counted(occTouched)
         hit     == {i \in Rules : Matches(Inject[i], written)}
     IN  /\ occCommits' = Bump(occCommits, counted)
         /\ matched' = Bump(matched, hit)
         /\ last' = [due    |-> \E i \in hit :
                                  (matched[i] + 1) % Every(Inject[i]) = 0,
                     failed |-> Firing(counted, occCommits) # {}]
  /\ resetOcc
  /\ EndTxn

\* COMMIT of a doomed transaction (occAdjudicated), ROLLBACK, and the end of a
\* transaction a refusal failed (endAborted): no rule is asked.
End ==
  /\ inTxn \/ Autocommit
  /\ resetOcc
  /\ EndTxn
  /\ UNCHANGED <<occCommits, matched, last>>

Next == Begin \/ (\E rel \in Tables \cup {""} : Statement(rel)) \/ Commit \/ End

Spec == Init /\ [][Next]_vars

-----------------------------------------------------------------------------
\* Types; a session remembers real tables only.
TypeOK ==
  /\ occTouched \subseteq Tables /\ written \subseteq Tables
  /\ occCommits \in [Rules -> Nat] /\ matched \in [Rules -> Nat]
  /\ inTxn \in BOOLEAN
  /\ last \in [due : BOOLEAN, failed : BOOLEAN]

\* What a session has recorded as touched is what the open transaction wrote:
\* the comment on occTouched in the session struct.
TouchedByThisTxn == inTxn => occTouched = written

\* "OCCInjection fails a transaction at COMMIT when it has touched one of the
\* listed tables, every Nth time": a COMMIT fails exactly when it is the Nth,
\* 2Nth, ... transaction some rule matched.
FailsEveryNth == last.failed <=> last.due

\* Only the first rule may have a count to lose: a rule after it that fires
\* every time is right whatever its count.
FirstCounts == \A i \in Rules : i = 1 \/ Every(Inject[i]) = 1

\* The inductive invariant behind FailsEveryNth, for a client that writes in
\* transactions only: the first rule has counted every commit it matched.
IInv ==
  /\ TypeOK
  /\ occTouched = written
  /\ 1 \in Rules => occCommits[1] = matched[1]
  /\ FailsEveryNth
=============================================================================
