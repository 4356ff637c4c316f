------------------------- MODULE SessionRefinement -------------------------
(***************************************************************************)
(* Session implements DsqlSession: what the emulator does with the two     *)
(* streams of a connection is, to a client that waits for each answer, the *)
(* one session it asked for.                                               *)
(***************************************************************************)
EXTENDS Session

\* The session as a lock-step client sees it.
Dsql ==
  INSTANCE DsqlSession WITH
    Idle    <- None,
    request <- IF client.due = <<>> THEN None ELSE client.due[1].stmts,
    answer  <- [i \in DOMAIN client.got |->
                  [type |-> client.got[i].type, what |-> client.got[i].what]],
    status  <- client.status,
    acked   <- client.acked,
    durable <- client.commit.work

\* A lock-step client cannot tell the emulator from the session DsqlSession
\* promises: whatever the goroutines inject, suppress, repair or retry, each
\* statement gets its own answer in order, a COMMIT that is acknowledged keeps
\* exactly the acknowledged work, every ReadyForQuery tells the block the
\* answers imply, and every request is answered.
ImplementsDsql == Dsql!Spec
=============================================================================
