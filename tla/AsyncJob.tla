------------------------------ MODULE AsyncJob ------------------------------
(***************************************************************************)
(* The results a session splices into the upstream's: the job id of an     *)
(* asynchronous statement (CREATE INDEX ASYNC) and the command tag of a    *)
(* statement it rewrites (SHOW server_version). The frontend arms one job  *)
(* slot and one tag slot when it forwards such a statement, the backend    *)
(* takes them when it relays the answer. Statements are                    *)
(*   async   an asynchronous statement, tag "async"                        *)
(*   show    a statement answered by a SELECT, tag "show" for the client   *)
(*   plain   any other                                                     *)
(* and a job is the number of the request whose text carries its marker.   *)
(* Only statements the session admits appear: Session models refusals,     *)
(* failures and repairs.                                                   *)
(***************************************************************************)
EXTENDS Naturals, Sequences, SequencesExt

CONSTANTS
  Requests,   \* what a client may send: sequences of messages that end in a
              \* Query or a Sync
  Window,     \* requests a client leaves unanswered
  MaxSent,    \* bound on the requests of a behaviour
  ShowFails   \* whether the upstream may refuse the rewritten statement, as
              \* it does in a failed transaction

ASSUME AsyncJobAssumption ==
  Window \in Nat \ {0} /\ MaxSent \in Nat /\ ShowFails \in BOOLEAN

VARIABLES
  sent,        \* requests sent
  answered,    \* ReadyForQuerys the client has seen
  fromClient,  \* messages the frontend has not read
  statements,  \* s.statements: the name's statement and its job
  job,         \* s.job
  tag,         \* s.pendingCommandTag
  up,          \* messages written upstream
  down,        \* answers the backend has not read
  pg,          \* the upstream's prepared statement, portal, skip-to-Sync flag
  seen         \* the last result the client was given, and what it described

vars ==
  <<sent, answered, fromClient, statements, job, tag, up, down, pg, seen>>

NoJob == 0
NoResult == [jobID |-> NoJob, described |-> FALSE, precedingTags |-> 0]
NoStatement == [stmt |-> "none", job |-> NoJob]

\* What a client knows after a CommandComplete: the statement that ended and
\* the marker it carried, the job row and the tag it came with, whether a row
\* description came with an Execute of a statement it had described, and the
\* job whose description a Describe got.
NoneSeen == [stmt |-> "plain", marker |-> NoJob, row |-> NoJob, tag |-> "plain",
             twice |-> FALSE, fresh |-> TRUE, jobs |-> {}, described |-> NoJob]

Init ==
  /\ sent = 0 /\ answered = 0 /\ fromClient = <<>>
  /\ statements = NoStatement
  /\ job = NoResult
  /\ tag = ""
  /\ up = <<>> /\ down = <<>>
  /\ pg = [prepared |-> NoStatement, portal |-> NoStatement, skip |-> FALSE]
  /\ seen = NoneSeen

Message(type, stmts) == [type |-> type, stmts |-> stmts, job |-> NoJob]

ClientSends(r) ==
  /\ sent - answered < Window
  /\ sent < MaxSent
  /\ sent' = sent + 1
  /\ fromClient' = fromClient \o [i \in DOMAIN r |-> [r[i] EXCEPT !.job = sent + 1]]
  /\ UNCHANGED <<answered, statements, job, tag, up, down, pg, seen>>

-----------------------------------------------------------------------------
(* The frontend: a message is read, its slot armed, and it is written.     *)

\* stripAsync: the first statement that carries the keyword, or 0.
AsyncAt(stmts) == SelectInSeq(stmts, LAMBDA s : s = "async")

\* Mutation: the position of the statement is not kept.
jobResultFirst(id, stmts) == [jobID |-> id, described |-> FALSE, precedingTags |-> 0]

jobResult(id, stmts) ==
  [jobID |-> id, described |-> FALSE, precedingTags |-> AsyncAt(stmts) - 1]

\* restoreJob, on a Bind: an armed job is left alone.
restoreJob(j, info) ==
  IF info.job # NoJob /\ j = NoResult
  THEN jobResult(info.job, <<"async">>) ELSE j

\* rewriteSQL: a statement that reports the server version, by itself.
rewriteSQL(t, m) ==
  IF m.type \in {"Q", "P"} /\ m.stmts = <<"show">> THEN "show" ELSE t

\* forwardAsyncJob, rewriteSQL and forward. The marker goes with the text, so
\* the upstream's answers carry it.
Frontend ==
  /\ fromClient # <<>>
  /\ LET m     == Head(fromClient)
         async == m.type \in {"Q", "P"} /\ AsyncAt(m.stmts) > 0
         info  == [stmt |-> m.stmts[1], job |-> IF async THEN m.job ELSE NoJob]
     IN  /\ job' = CASE async        -> jobResult(m.job, m.stmts)
                     [] m.type = "B" -> restoreJob(job, statements)
                     [] OTHER        -> job
         /\ tag' = rewriteSQL(tag, m)
         /\ statements' = IF m.type = "P" THEN info ELSE statements
         /\ up' = Append(up, [m EXCEPT !.job = IF async THEN @ ELSE NoJob])
  /\ fromClient' = Tail(fromClient)
  /\ UNCHANGED <<sent, answered, down, pg, seen>>

-----------------------------------------------------------------------------
(* The backend: one answer is read and relayed.                            *)

Answering(type) == down # <<>> /\ Head(down).type = type

Relayed == down' = Tail(down) /\ UNCHANGED <<sent, fromClient, statements, up, pg>>

\* Mutation: the job is not marked.
markJobDescribedNot(j) == j

markJobDescribed(j) == [j EXCEPT !.described = TRUE]

\* NoData: for an armed job the client's Describe gets its row description.
NoData ==
  /\ Answering("n")
  /\ IF job # NoResult /\ ~job.described
     THEN /\ job' = markJobDescribed(job)
          /\ seen' = [seen EXCEPT !.described = Head(down).job]
     ELSE UNCHANGED <<job, seen>>
  /\ Relayed
  /\ UNCHANGED <<answered, tag>>

takeJob(j) == NoResult

\* The asynchronous statement failed: there is no job to report.
ErrorResponse ==
  /\ Answering("E")
  /\ job' = takeJob(job)
  /\ Relayed
  /\ UNCHANGED <<answered, tag, seen>>

\* The end of an exchange, and of what its Describe told.
ReadyForQuery ==
  /\ Answering("Z")
  /\ job' = takeJob(job)
  /\ answered' = answered + 1
  /\ Relayed
  /\ UNCHANGED <<tag, seen>>

\* Mutation: the tag stays for the next statement.
rewriteCommandTagKeeps(t) == t

\* rewriteCommandTag takes the tag.
rewriteCommandTag(t) == ""

Completed(c, row, as, describes) ==
  [stmt |-> c.stmt, marker |-> c.job, row |-> row, tag |-> as,
   twice |-> describes /\ c.bound /\ c.job = seen.described,
   described |-> seen.described,
   fresh |-> c.job \notin seen.jobs,
   jobs |-> seen.jobs \cup (IF c.job = NoJob THEN {} ELSE {c.job})]

\* claimJob: statements before the asynchronous one are counted down.
claimJob(j) ==
  IF j.precedingTags > 0 THEN [j EXCEPT !.precedingTags = @ - 1] ELSE NoResult

\* CommandComplete: a pending tag replaces its own; otherwise claimJob gives
\* the job's row, once the statements before it have been counted down.
CommandComplete ==
  /\ Answering("C")
  /\ LET c       == Head(down)
         claimed == job # NoResult /\ job.precedingTags = 0
     IN  \/ /\ tag # ""
            /\ tag' = rewriteCommandTag(tag)
            /\ seen' = Completed(c, NoJob, tag, FALSE)
            /\ UNCHANGED job
         \/ /\ tag = ""
            /\ job' = claimJob(job)
            /\ seen' = IF claimed
                       THEN Completed(c, job.jobID, c.tag, ~job.described)
                       ELSE Completed(c, NoJob, c.tag, FALSE)
            /\ UNCHANGED tag
  /\ Relayed
  /\ UNCHANGED answered

Backend == NoData \/ ErrorResponse \/ ReadyForQuery \/ CommandComplete

-----------------------------------------------------------------------------
(* The upstream (external): any statement may fail, the rewritten one only *)
(* where everything does.                                                  *)

PgAnswer(type, info, as, bound) ==
  [type |-> type, stmt |-> info.stmt, job |-> info.job, tag |-> as, bound |-> bound]

\* The tag of a rewritten SHOW is SELECT's.
PgTag(stmt) == IF stmt = "show" THEN "select" ELSE stmt

PgFails(stmt) == stmt # "show" \/ ShowFails

\* A statement of a Query; an error drops the rest.
PgQuery ==
  /\ up # <<>> /\ Head(up).type = "Q" /\ Head(up).stmts # <<>>
  /\ LET m    == Head(up)
         stmt == Head(m.stmts)
         info == [stmt |-> stmt, job |-> IF stmt = "async" THEN m.job ELSE NoJob]
     IN  \/ /\ down' = Append(down, PgAnswer("C", info, PgTag(stmt), FALSE))
            /\ up' = [up EXCEPT ![1].stmts = Tail(@)]
         \/ /\ PgFails(stmt)
            /\ down' = Append(down, PgAnswer("E", info, "", FALSE))
            /\ up' = [up EXCEPT ![1].stmts = <<>>]
  /\ UNCHANGED <<sent, answered, fromClient, statements, job, tag, pg, seen>>

PgReady ==
  /\ up # <<>> /\ Head(up).type \in {"Q", "S"} /\ Head(up).stmts = <<>>
  /\ down' = Append(down, PgAnswer("Z", NoStatement, "", FALSE))
  /\ pg' = [pg EXCEPT !.skip = FALSE]
  /\ up' = Tail(up)
  /\ UNCHANGED <<sent, answered, fromClient, statements, job, tag, seen>>

\* Parse, Describe, Bind and Execute; a Describe of a statement with rows has
\* a description of its own.
PgExtended ==
  /\ up # <<>> /\ Head(up).type \in {"P", "D", "B", "E"}
  /\ LET m    == Head(up)
         info == [stmt |-> m.stmts[1], job |-> m.job]
         run  == pg.portal
     IN  \/ pg.skip /\ UNCHANGED <<pg, down>>
         \/ /\ ~pg.skip /\ m.type = "P"
            /\ pg' = [pg EXCEPT !.prepared = info] /\ UNCHANGED down
         \/ /\ ~pg.skip /\ m.type = "B" /\ pg.prepared # NoStatement
            /\ pg' = [pg EXCEPT !.portal = pg.prepared] /\ UNCHANGED down
         \/ /\ ~pg.skip /\ m.type = "B" /\ pg.prepared = NoStatement
            /\ down' = Append(down, PgAnswer("E", NoStatement, "", TRUE))
            /\ pg' = [pg EXCEPT !.skip = TRUE]
         \/ /\ ~pg.skip /\ m.type = "D"
            /\ down' = IF pg.prepared.stmt = "show" THEN down
                       ELSE Append(down, PgAnswer("n", pg.prepared, "", TRUE))
            /\ UNCHANGED pg
         \/ /\ ~pg.skip /\ m.type = "E"
            /\ down' = Append(down, PgAnswer("C", run, PgTag(run.stmt), TRUE))
            /\ UNCHANGED pg
         \/ /\ ~pg.skip /\ m.type = "E" /\ PgFails(run.stmt)
            /\ down' = Append(down, PgAnswer("E", run, "", TRUE))
            /\ pg' = [pg EXCEPT !.skip = TRUE]
  /\ up' = Tail(up)
  /\ UNCHANGED <<sent, answered, fromClient, statements, job, tag, seen>>

Next ==
  \/ \E r \in Requests : ClientSends(r)
  \/ Frontend \/ Backend
  \/ PgQuery \/ PgReady \/ PgExtended

Spec == Init /\ [][Next]_vars

-----------------------------------------------------------------------------
\* The slots hold what the frontend puts there, and an empty one nothing.
TypeOK ==
  /\ job \in [jobID : 0 .. MaxSent, described : BOOLEAN, precedingTags : 0 .. 2]
  /\ job.jobID = NoJob => job = NoResult
  /\ tag \in {"", "show"}
  /\ statements.job \in 0 .. MaxSent
  /\ statements.stmt \in {"none", "async", "show", "plain"}

\* "The job id belongs to the statement that carried ASYNC": a CommandComplete
\* comes with a job row exactly when its statement is asynchronous, and the
\* row is the id that statement's marker carries to sys.jobs.
JobOnOwnStatement == seen.row = seen.marker

\* Every CommandComplete carries the tag of the statement the client sent.
TagTruthful == seen.tag = seen.stmt

\* A client that described a statement is not sent another row description
\* when the statement completes.
DescribedOnce == ~seen.twice

\* Every build that completes has a job id of its own.
JobPerBuild == seen.fresh
=============================================================================
