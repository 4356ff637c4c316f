----------------------------- MODULE Statements -----------------------------
(***************************************************************************)
(* The statements a session tells apart, each standing for a class of SQL  *)
(* text, and what the classifier and the OCC analysis answer for it:       *)
(*   begin, commit, rollback   transaction control                         *)
(*   write    UPDATE or DELETE without RETURNING                           *)
(*   insert   INSERT ... VALUES without RETURNING or ON CONFLICT           *)
(*   opaque   DML whose answer cannot be reproduced (RETURNING, ...)       *)
(*   lock     SELECT ... FOR UPDATE                                        *)
(*   read     any other SELECT                                             *)
(*   ddl      a DDL statement the dialect allows                           *)
(*   refused  a statement some rule of the ruleset rejects                 *)
(*   garbage  text the parser does not accept                              *)
(* The rest are the emulator's own: savepoint, rollbackto (the savepoint), *)
(* abort (SELECT 1/0) and shadow.                                          *)
(***************************************************************************)
EXTENDS Sequences

\* Statements that change rows or take row locks, so that the client relies
\* on them once they are acknowledged, and that another session may block.
Effects == {"write", "insert", "opaque", "lock", "ddl"}

ClientStatements ==
  Effects \cup {"begin", "commit", "rollback", "read", "refused", "garbage"}

OwnStatements == {"savepoint", "rollbackto", "abort", "shadow"}

\* classify.kindOf.
KindOf(s) ==
  CASE s \in {"write", "insert", "opaque"}     -> "dml"
    [] s \in {"begin", "commit", "rollback", "ddl"} -> s
    [] OTHER                                   -> "other"

KindsOf(stmts) == [i \in DOMAIN stmts |-> KindOf(stmts[i])]

\* classify.Classify fails on text that does not parse.
Unparseable(stmts) == \E i \in DOMAIN stmts : stmts[i] = "garbage"

\* classify.Classify: one rejected statement rejects the whole text.
Rejected(stmts) == \E i \in DOMAIN stmts : stmts[i] = "refused"

\* occ.Analyze, and how Intent says the answer is found: stated by the
\* statement, counted by a shadow, or the rows of a shadow. Only a text of
\* exactly one statement has an intent.
IntentOf(s) ==
  CASE s = "insert" -> "rows"
    [] s = "write"  -> "count"
    [] s = "lock"   -> "rowset"
    [] OTHER        -> "none"

HasIntent(stmts) == Len(stmts) = 1 /\ IntentOf(stmts[1]) # "none"
=============================================================================
