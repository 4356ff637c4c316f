------------------------------ MODULE Postgres ------------------------------
(***************************************************************************)
(* The upstream PostgreSQL session as the emulator relies on it: its       *)
(* transaction block, the hidden savepoint, its prepared statements, and   *)
(* what each statement may answer. External to the repository: modelled    *)
(* from the statements the session sends and the answers it expects.       *)
(***************************************************************************)
EXTENDS Naturals, Sequences, Statements

\* The names a client prepares under; "" is the unnamed statement.
Names == {"", "s1"}

NoStatement == "nostatement"

\* block is the ReadyForQuery status; sp the hidden savepoint; work the
\* statements with effects the open transaction holds, spWork those it held
\* at the savepoint; prepared and portal the extended protocol's state; skip
\* that an error discards everything up to the next Sync.
PgInit ==
  [block |-> "I", sp |-> FALSE, work |-> 0, spWork |-> 0,
   prepared |-> [n \in Names |-> NoStatement], portal |-> NoStatement,
   skip |-> FALSE]

PgEndTxn(p) == [p EXCEPT !.block = "I", !.sp = FALSE, !.work = 0, !.spWork = 0]

PgDone(p, tag) == [pg |-> p, type |-> "C", what |-> tag, work |-> 0]

PgError(p, code) ==
  [pg |-> [p EXCEPT !.block = IF @ = "I" THEN "I" ELSE "E"],
   type |-> "E", what |-> code, work |-> 0]

\* What a statement may answer when the block is not failed. A statement with
\* effects may be refused a lock ("conflict", SQLSTATE 55P03 or 40001), and
\* anything but transaction control may fail for a reason of its own.
PgRuns(p, s) ==
  CASE s = "begin"      -> {PgDone([p EXCEPT !.block = "T"], s)}
    [] s = "commit"     -> {[PgDone(PgEndTxn(p), s) EXCEPT !.work = p.work]}
    [] s = "rollback"   -> {PgDone(PgEndTxn(p), s)}
    [] s = "savepoint"  ->
         {IF p.block = "T"
          THEN PgDone([p EXCEPT !.sp = TRUE, !.spWork = p.work], s)
          ELSE PgError(p, "error")}
    [] s = "rollbackto" ->
         {IF p.sp THEN PgDone([p EXCEPT !.work = p.spWork], s)
          ELSE PgError(p, "error")}
    [] s \in {"abort", "garbage", NoStatement} -> {PgError(p, "error")}
    [] s \in Effects    -> {PgDone([p EXCEPT !.work = @ + 1], s),
                            PgError(p, "conflict"), PgError(p, "error")}
    [] OTHER            -> {PgDone(p, s), PgError(p, "error")}

\* In a failed block only the end of the transaction, or a return to the
\* savepoint, is executed; COMMIT answers with the ROLLBACK tag.
PgOutcomes(p, s) ==
  CASE p.block # "E"                     -> PgRuns(p, s)
    [] p.block = "E" /\ s \in {"commit", "rollback"} ->
         {PgDone(PgEndTxn(p), "rollback")}
    [] p.block = "E" /\ s = "rollbackto" /\ p.sp ->
         {PgDone([p EXCEPT !.block = "T", !.work = p.spWork], s)}
    [] OTHER                             -> {PgError(p, "25P02")}

\* A simple query, or another Parse of it, destroys the unnamed statement.
PgSimple(p) == [p EXCEPT !.prepared[""] = NoStatement]

\* Parse and Bind: accepted, or an error that discards up to the Sync.
PgRefuses(p, s) ==
  s = NoStatement \/ (p.block = "E" /\ s \notin {"commit", "rollback"})

\* A name is prepared once until it is closed.
PgDuplicate(p, name) == name # "" /\ p.prepared[name] # NoStatement

\* At ReadyForQuery an implicit transaction is over.
PgReadied(p) == [(IF p.block = "I" THEN PgEndTxn(p) ELSE p) EXCEPT !.skip = FALSE]
=============================================================================
