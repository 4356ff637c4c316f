-------------------------------- MODULE Txn --------------------------------
(***************************************************************************)
(* The transaction rules of internal/txn: what a session remembers about   *)
(* its transaction and how a batch of statements is admitted or refused.   *)
(* Everything here is an operator on a tracker value; TxnTracker runs the  *)
(* two loops of Admit one iteration at a time, Session calls Admit whole.  *)
(***************************************************************************)
EXTENDS Naturals, Sequences

\* The oldest a transaction may get, limits.MaxAge; 0 disables the rule.
CONSTANT MaxAge

ASSUME MaxAgeAssumption == MaxAge \in Nat

\* classify.Kind, the two kinds no rule looks at taken together.
Kinds == {"other", "ddl", "dml", "begin", "commit", "rollback"}

\* The zero time.Time; the clock itself starts at 1.
ZeroTime == 0

Trackers ==
  [inTxn: BOOLEAN, beganAt: Nat, ddlCount: Nat, dmlSeen: BOOLEAN]

NewTracker ==
  [inTxn |-> FALSE, beganAt |-> ZeroTime, ddlCount |-> 0, dmlSeen |-> FALSE]

Reset(t) == [t EXCEPT !.ddlCount = 0, !.dmlSeen = FALSE]

\* The reset Admit starts with, outside a transaction.
Enter(t) == IF t.inTxn THEN t ELSE Reset(t)

HasRollback(kinds) == \E i \in DOMAIN kinds : kinds[i] = "rollback"

\* Mutation: the limit is one tick too generous.
TooOldLate(t, now) ==
  /\ MaxAge > 0
  /\ t.beganAt # ZeroTime
  /\ now - t.beganAt > MaxAge + 1

TooOld(t, now) ==
  /\ MaxAge > 0
  /\ t.beganAt # ZeroTime
  /\ now - t.beganAt > MaxAge

\* The age rule spares a batch that holds a ROLLBACK.
AgeRefuses(t, kinds, now) == ~HasRollback(kinds) /\ t.inTxn /\ TooOld(t, now)

\* Mutation: a second DDL statement passes.
BreaksLoose(acc, k) ==
  CASE k = "ddl" /\ acc.ddl > 1 -> "ddl_count"
    [] k = "ddl" /\ acc.dml     -> "ddl_dml_mix"
    [] k = "dml" /\ acc.ddl > 0 -> "ddl_dml_mix"
    [] OTHER                    -> "none"

\* One iteration of the validation loop: the rule it breaks, or "none", and
\* the local ddl and dml it leaves.
Breaks(acc, k) ==
  CASE k = "ddl" /\ acc.ddl >= 1 -> "ddl_count"
    [] k = "ddl" /\ acc.dml      -> "ddl_dml_mix"
    [] k = "dml" /\ acc.ddl > 0  -> "ddl_dml_mix"
    [] OTHER                     -> "none"

Check(acc, k) ==
  CASE k \in {"begin", "commit", "rollback"} ->
         [acc EXCEPT !.ddl = 0, !.dml = FALSE]
    [] k = "ddl" -> [acc EXCEPT !.ddl = @ + 1]
    [] k = "dml" -> [acc EXCEPT !.dml = TRUE]
    [] OTHER     -> acc

Began(now) ==
  [inTxn |-> TRUE, beganAt |-> now, ddlCount |-> 0, dmlSeen |-> FALSE]

\* Mutation: the start of the transaction is not recorded.
RecordUndated(t, k, now) ==
  CASE k = "begin" -> Reset([t EXCEPT !.inTxn = TRUE])
    [] k \in {"commit", "rollback"} -> Reset([t EXCEPT !.inTxn = FALSE])
    [] k = "ddl" -> [t EXCEPT !.ddlCount = @ + 1]
    [] k = "dml" -> [t EXCEPT !.dmlSeen = TRUE]
    [] OTHER     -> t

\* One iteration of the recording loop.
Record(t, k, now) ==
  CASE k = "begin" -> Began(now)
    [] k \in {"commit", "rollback"} -> Reset([t EXCEPT !.inTxn = FALSE])
    [] k = "ddl" -> [t EXCEPT !.ddlCount = @ + 1]
    [] k = "dml" -> [t EXCEPT !.dmlSeen = TRUE]
    [] OTHER     -> t

\* What the rules look at: the locals of the validation pass start from it.
Counters(t) == [ddl |-> t.ddlCount, dml |-> t.dmlSeen]

\* The locals of the validation pass, started from the tracker t, after each
\* prefix of the batch.
Checked(t, kinds) ==
  LET after[n \in 0 .. Len(kinds)] ==
        IF n = 0 THEN Counters(t) ELSE Check(after[n - 1], kinds[n])
  IN  after

\* The tracker t in the recording pass, after each prefix of the batch.
Recorded(t, kinds, now) ==
  LET after[n \in 0 .. Len(kinds)] ==
        IF n = 0 THEN t ELSE Record(after[n - 1], kinds[n], now)
  IN  after

\* Mutation: the batch is recorded while it is being validated, so the part of
\* a refused batch before the statement that breaks a rule is kept.
AdmitPartly(t, kinds, now) ==
  LET e      == Enter(t)
      rules  == [n \in DOMAIN kinds |-> Breaks(Checked(e, kinds)[n - 1], kinds[n])]
      broken == {n \in DOMAIN kinds : rules[n] # "none"}
      first  == CHOOSE n \in broken : \A m \in broken : n <= m
  IN  IF AgeRefuses(e, kinds, now) THEN [rule |-> "txn_age", tracker |-> e]
      ELSE IF broken = {}
      THEN [rule |-> "none", tracker |-> Recorded(e, kinds, now)[Len(kinds)]]
      ELSE [rule |-> rules[first], tracker |-> Recorded(e, kinds, now)[first - 1]]

\* Admit as one step: the rule the batch breaks, or "none", and the tracker
\* it leaves. The first statement that breaks a rule names it.
Admit(t, kinds, now) ==
  LET e      == Enter(t)
      rules  == [n \in DOMAIN kinds |-> Breaks(Checked(e, kinds)[n - 1], kinds[n])]
      broken == {n \in DOMAIN kinds : rules[n] # "none"}
      rule   == IF AgeRefuses(e, kinds, now) THEN "txn_age"
                ELSE IF broken = {} THEN "none"
                ELSE rules[CHOOSE n \in broken : \A m \in broken : n <= m]
  IN  [rule    |-> rule,
       tracker |-> IF rule # "none" THEN e
                   ELSE Recorded(e, kinds, now)[Len(kinds)]]

\* endsTransaction and isCommit of the session: whether a batch holds such a
\* statement anywhere in it.
EndsTransaction(kinds) ==
  \E i \in DOMAIN kinds : kinds[i] \in {"commit", "rollback"}

IsCommit(kinds) == \E i \in DOMAIN kinds : kinds[i] = "commit"
=============================================================================
