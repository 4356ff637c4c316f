------------------------------ MODULE Session ------------------------------
(***************************************************************************)
(* One client session of the emulator (internal/proxy/session.go and       *)
(* adjudicator.go): the frontend goroutine pumps the client's messages to  *)
(* the upstream, the backend goroutine pumps the answers back, and both    *)
(* share the session struct. A step of a goroutine is one critical section *)
(* of stateMu (or several that no step of the other goroutine can tell     *)
(* apart) together with the socket write that follows it.                  *)
(*                                                                         *)
(* Messages that draw no decision (Describe, row data, ParseComplete, ...) *)
(* are left out. Request numbers exist only in the model: a message of the *)
(* upstream carries the request it answers, 0 for the emulator's own.      *)
(***************************************************************************)
EXTENDS Txn, Postgres, FiniteSets

CONSTANTS
  Requests,       \* per kind of client what it may send: sets of message
                  \* sequences that end in a Query or a Sync, so that each
                  \* draws one ReadyForQuery
  Window,         \* requests a client leaves unanswered; 1 is lock-step
  IdSpace,        \* request numbers in use, reused in turn
  MaxStatements,  \* bound on the statements of one transaction
  SyncRace,       \* whether the answer to a Sync may overtake the frontend's
                  \* next step in handleSync
  None            \* Go's nil

\* What a client may send. Only a Query or a Parse carries text, a Parse that
\* of one statement.
ClientMessages ==
  {m \in [type : {"Q", "P", "B", "E", "C", "S"}, name : Names,
          stmts : Seq(ClientStatements), req : {0}] :
     /\ m.type = "P" => Len(m.stmts) = 1
     /\ m.type \notin {"Q", "P"} => m.stmts = <<>>}

ASSUME SessionAssumption ==
  /\ \A k \in DOMAIN Requests : \A r \in Requests[k] :
       /\ r \in Seq(ClientMessages) /\ r # <<>>
       /\ \A i \in DOMAIN r : r[i].type \in {"Q", "S"} <=> i = Len(r)
  /\ Window \in Nat \ {0}
  /\ IdSpace \in Nat /\ IdSpace > Window
  /\ MaxStatements \in Nat
  /\ SyncRace \in BOOLEAN

VARIABLES
  client,      \* what the client has asked and been answered
  fromClient,  \* the client's messages the frontend has not read
  fe,          \* the frontend goroutine: program counter and locals
  tracker,     \* s.tracker, guarded by no lock
  st,          \* the session struct, guarded by stateMu
  be,          \* the backend goroutine: program counter and locals
  up,          \* messages written upstream, not yet processed
  down,        \* upstream answers the backend has not read
  pg           \* the upstream session

vars == <<client, fromClient, fe, tracker, st, be, up, down, pg>>

Message(type, name, stmts, req) ==
  [type |-> type, name |-> name, stmts |-> stmts, req |-> req]

\* simpleQuery: a statement of the emulator's own.
OwnQuery(stmts) == Message("Q", "", stmts, 0)

Answer(type, what, req) ==
  [type |-> type, what |-> what, work |-> 0, req |-> req]

\* A simple Query and a Sync each draw exactly one ReadyForQuery.
DrawsReady(m) == m.type \in {"Q", "S"}

NoRequest == [id |-> 0, stmts |-> <<>>, ends |-> FALSE]

Init ==
  /\ \E k \in DOMAIN Requests :
       client = [kind |-> k, sent |-> 0, due |-> <<>>, asked |-> NoRequest,
                 got |-> <<>>, status |-> "I", acked |-> 0,
                 commit |-> [acked |-> 0, work |-> 0]]
  /\ fromClient = <<>>
  /\ fe = [pc |-> "read", msg |-> None, stmts |-> <<>>, next |-> "read",
           failure |-> None]
  /\ tracker = NewTracker
  /\ st = [txStatus |-> "I", skipSync |-> FALSE, txnAborted |-> FALSE,
           failure |-> None, failureRFQs |-> 0, pendingFailure |-> None,
           hidden |-> None, occSavepoint |-> FALSE, occDoomed |-> FALSE,
           occTxnStatements |-> 0, occInFlight |-> None, occRepair |-> None,
           extendedBatchOpen |-> FALSE, pendingExchanges |-> 0,
           statements |-> [n \in Names |-> NoStatement]]
  /\ be = [pc |-> "read", msg |-> None, hidden |-> None, inTxn |-> FALSE]
  /\ up = <<>>
  /\ down = <<>>
  /\ pg = PgInit

-----------------------------------------------------------------------------
(* The client.                                                             *)

\* The statements a request runs, each drawing an answer of its own: those of
\* a Query, or for every Execute the one parsed last before it. A statement
\* prepared by an earlier request is known by its name only.
StatementsOf(r) ==
  LET runs      == SelectSeq([i \in DOMAIN r |-> i], LAMBDA i : r[i].type = "E")
      parsed(i) == {j \in 1 .. i : r[j].type = "P"}
      last(i)   == CHOOSE j \in parsed(i) : \A l \in parsed(i) : l <= j
  IN  IF r[1].type = "Q" THEN r[1].stmts
      ELSE [k \in DOMAIN runs |->
              IF parsed(runs[k]) = {} THEN "prepared"
              ELSE r[last(runs[k])].stmts[1]]

EndsATxn(r) ==
  \E i \in DOMAIN r : r[i].stmts \in {<<"commit">>, <<"rollback">>}

\* The client sends a whole request without waiting. got is the answer being
\* read, asked the request it should belong to.
ClientSends(r) ==
  /\ Len(client.due) < Window
  /\ EndsATxn(r) \/ (st.occTxnStatements < MaxStatements /\ client.acked < MaxStatements)
  /\ LET id == (client.sent % IdSpace) + 1
     IN  /\ client' = [client EXCEPT
              !.sent = id,
              !.due = Append(@, [id |-> id, stmts |-> StatementsOf(r),
                                 ends |-> EndsATxn(r)]),
              !.asked = IF client.due = <<>> THEN NoRequest ELSE @,
              !.got = IF client.due = <<>> THEN <<>> ELSE @]
         /\ fromClient' =
              fromClient \o [i \in DOMAIN r |-> [r[i] EXCEPT !.req = id]]
  /\ UNCHANGED <<fe, tracker, st, be, up, down, pg>>

Complete(answer) == answer # <<>> /\ answer[Len(answer)].type = "Z"

\* writeClient, seen from the client: an answer ends with its ReadyForQuery,
\* and is taken to belong to the oldest request without one. acked counts the
\* statements with effects acknowledged in the client's transaction, commit
\* what the last COMMIT tag acknowledged and what it made durable.
Deliver(c, m) ==
  LET fresh == c.got = <<>> \/ Complete(c.got)
      ended == \/ m.type = "C" /\ m.what \in {"commit", "rollback"}
               \/ m.type = "Z" /\ m.what = "I"
  IN  [c EXCEPT
         !.got   = IF fresh THEN <<m>> ELSE Append(@, m),
         !.asked = IF ~fresh THEN @
                   ELSE IF c.due = <<>> THEN NoRequest ELSE Head(c.due),
         !.due   = IF m.type = "Z" /\ @ # <<>> THEN Tail(@) ELSE @,
         !.status = IF m.type = "Z" THEN m.what ELSE @,
         !.acked = IF ended THEN 0
                   ELSE IF m.type = "C" /\ m.what \in Effects THEN @ + 1
                   ELSE @,
         !.commit = IF m.type = "C" /\ m.what = "commit"
                    THEN [acked |-> c.acked, work |-> m.work] ELSE @]

writeClient(m) == client' = Deliver(client, m)

writeClientBoth(m, n) == client' = Deliver(Deliver(client, m), n)

-----------------------------------------------------------------------------
(* The frontend goroutine.                                                 *)

beginExchange(s) == [s EXCEPT !.pendingExchanges = @ + 1]

endExchange(s) == [s EXCEPT !.pendingExchanges = IF @ > 0 THEN @ - 1 ELSE @]

\* resetOcc; neither the savepoint nor the statement count is touched.
resetOcc(s) ==
  [s EXCEPT !.occDoomed = FALSE, !.occInFlight = None, !.occRepair = None]

\* noteBatchState, which runs after the handler of a message.
noteBatchState(s, type) == [s EXCEPT !.extendedBatchOpen = type \notin {"S", "Q"}]

Extended(m) == m.type \in {"P", "B"}

\* pumpFrontend reads a message and picks its handler. Until the Sync that
\* skipSync waits for, everything else is dropped. A Bind runs the statement
\* prepared under its name; an unknown name is forwarded as it is.
FrontendRead ==
  /\ fe.pc = "read"
  /\ fromClient # <<>>
  /\ LET m     == Head(fromClient)
         stmts == IF m.type = "B" THEN <<st.statements[m.name]>> ELSE m.stmts
     IN  /\ fromClient' = Tail(fromClient)
         /\ fe' = [fe EXCEPT
              !.msg = m, !.stmts = stmts,
              !.pc = CASE m.type = "S" -> "sync"
                       [] m.type # "S" /\ st.skipSync -> "read"
                       [] ~st.skipSync /\ m.type \in {"Q", "P"} -> "handle"
                       [] ~st.skipSync /\ m.type = "B"
                            /\ stmts # <<NoStatement>> -> "handle"
                       [] OTHER -> "forward"]
  /\ UNCHANGED <<client, tracker, st, be, up, down, pg>>

\* Back to the top of the loop, in the shape every read starts from.
FrontendDone ==
  fe' = [fe EXCEPT !.pc = "read", !.msg = None, !.stmts = <<>>,
                   !.next = "read", !.failure = None]

\* handleSync: the batch is closed upstream first, and only then is a
\* deferred failure begun.
HandleSync ==
  /\ fe.pc = "sync"
  /\ st' = noteBatchState(beginExchange(
             [st EXCEPT !.pendingFailure = None, !.skipSync = FALSE]), "S")
  /\ up' = Append(up, fe.msg)
  /\ IF st.pendingFailure = None THEN FrontendDone
     ELSE fe' = [fe EXCEPT !.pc = "beginFailure", !.failure = st.pendingFailure]
  /\ UNCHANGED <<client, fromClient, tracker, be, down, pg>>

Failure(statement, status, swallow, req) ==
  [statement |-> statement, status |-> status, swallow |-> swallow, req |-> req]


WithFailure(s, f) ==
  [s EXCEPT !.failure = f, !.failureRFQs = 0, !.txnAborted = f.status = "E"]

\* beginFailure: upstream output is suppressed from here on, and the
\* statement that fails the transaction is sent.
BeginFailure ==
  /\ fe.pc = "beginFailure"
  /\ st' = beginExchange(WithFailure(noteBatchState(st, fe.msg.type), fe.failure))
  /\ up' = Append(up, OwnQuery(<<fe.failure.statement>>))
  /\ FrontendDone
  /\ UNCHANGED <<client, fromClient, tracker, be, down, pg>>

\* Text that does not parse ends nothing.
EndsFailedTxn(stmts) == ~Unparseable(stmts) /\ EndsTransaction(KindsOf(stmts))

\* rejectFailed: the transaction is already failed.
RejectFailed ==
  /\ fe.pc = "handle"
  /\ st.txnAborted
  /\ ~EndsFailedTxn(fe.stmts)
  /\ writeClient(Answer("E", "25P02", fe.msg.req))
  /\ IF Extended(fe.msg)
     THEN /\ st' = [noteBatchState(st, fe.msg.type) EXCEPT !.skipSync = TRUE]
          /\ FrontendDone
     ELSE /\ fe' = [fe EXCEPT !.pc = "complete", !.next = "failed"]
          /\ UNCHANGED st
  /\ UNCHANGED <<fromClient, tracker, be, up, down, pg>>

\* reject and rejectFailed complete a simple query's exchange themselves: with
\* the last status seen, or as a failed transaction.
CompleteExchange ==
  /\ fe.pc = "complete"
  /\ writeClient(Answer("Z", IF fe.next = "failed" THEN "E" ELSE st.txStatus,
                        fe.msg.req))
  /\ st' = noteBatchState(st, fe.msg.type)
  /\ FrontendDone
  /\ UNCHANGED <<fromClient, tracker, be, up, down, pg>>

\* Mutation: the transaction is left failed.
endAbortedStays(s) == [resetOcc(s) EXCEPT !.skipSync = FALSE]

endAborted(s) == [resetOcc(s) EXCEPT !.txnAborted = FALSE, !.skipSync = FALSE]

\* Mutation: the tracker is not told.
EscapedForgotten(t) == t

\* The tracker is told of a rollback, whatever the text was.
Escaped(t) == Admit(t, <<"rollback">>, 1).tracker

\* A Query or Bind that ends the failed transaction. A Parse of one is only
\* forwarded.
EndAborted ==
  /\ fe.pc = "handle"
  /\ st.txnAborted
  /\ EndsFailedTxn(fe.stmts)
  /\ IF fe.msg.type = "P" THEN UNCHANGED <<st, tracker>>
     ELSE /\ st' = endAborted(st)
          /\ tracker' = Escaped(tracker)
  /\ fe' = [fe EXCEPT !.pc = "forward"]
  /\ UNCHANGED <<client, fromClient, be, up, down, pg>>

\* deferFailure: the failure waits for the Sync, whose own ReadyForQuery its
\* swallow count includes.
deferFailure(s, f) == [s EXCEPT !.pendingFailure = f, !.skipSync = TRUE]

\* reject: the error goes out at once, and a rejected Parse forgets its name.
\* Inside a transaction the upstream transaction is failed too; outside, only
\* the exchange is completed.
Reject(code) ==
  LET req   == fe.msg.req
      error == Answer("E", code, req)
      left  == IF fe.msg.type = "P"
               THEN [st EXCEPT !.statements[fe.msg.name] = NoStatement]
               ELSE st
      noted == noteBatchState(left, fe.msg.type)
  IN  /\ \/ /\ tracker.inTxn /\ Extended(fe.msg)
            /\ writeClient(error)
            /\ st' = deferFailure(noted, Failure("abort", "E", 2, req))
            /\ FrontendDone
         \/ /\ tracker.inTxn /\ ~Extended(fe.msg)
            /\ writeClient(error)
            /\ fe' = [fe EXCEPT !.pc = "beginFailure",
                                !.failure = Failure("abort", "E", 1, req)]
            /\ UNCHANGED st
         \/ /\ ~tracker.inTxn /\ Extended(fe.msg)
            /\ writeClient(error)
            /\ st' = [noted EXCEPT !.skipSync = TRUE]
            /\ FrontendDone
         \/ /\ ~tracker.inTxn /\ ~Extended(fe.msg)
            /\ writeClient(error)
            /\ fe' = [fe EXCEPT !.pc = "complete"]
            /\ UNCHANGED st
      /\ UNCHANGED <<fromClient, be, up, down, pg>>

\* handleQuery and handleParse: text the classifier cannot parse is left to
\* the upstream.
ForwardUnparsed ==
  /\ fe.pc = "handle"
  /\ ~st.txnAborted
  /\ fe.msg.type \in {"Q", "P"}
  /\ Unparseable(fe.stmts)
  /\ fe' = [fe EXCEPT !.pc = "forward"]
  /\ UNCHANGED <<client, fromClient, tracker, st, be, up, down, pg>>

\* handleQuery and handleParse: the ruleset rejects the statement.
RejectStatement ==
  /\ fe.pc = "handle"
  /\ ~st.txnAborted
  /\ fe.msg.type \in {"Q", "P"}
  /\ ~Unparseable(fe.stmts)
  /\ Rejected(fe.stmts)
  /\ Reject("rule")
  /\ UNCHANGED tracker

\* handleQuery and handleBind: the transaction rules refuse the batch.
RefuseBatch ==
  /\ fe.pc = "handle"
  /\ ~st.txnAborted
  /\ fe.msg.type \in {"Q", "B"}
  /\ ~Unparseable(fe.stmts) /\ ~Rejected(fe.stmts)
  /\ LET admit == Admit(tracker, KindsOf(fe.stmts), 1)
     IN  /\ admit.rule # "none"
         /\ tracker' = admit.tracker
  /\ Reject("txn")

\* handleQuery and handleBind: the batch is admitted.
AdmitBatch ==
  /\ fe.pc = "handle"
  /\ ~st.txnAborted
  /\ fe.msg.type \in {"Q", "B"}
  /\ ~Unparseable(fe.stmts) /\ ~Rejected(fe.stmts)
  /\ LET admit == Admit(tracker, KindsOf(fe.stmts), 1)
     IN  /\ admit.rule = "none"
         /\ tracker' = admit.tracker
  /\ fe' = [fe EXCEPT !.pc = "count"]
  /\ UNCHANGED <<client, fromClient, st, be, up, down, pg>>

\* countTxnStatement: transaction control starts the count over.
CountTxnStatement ==
  /\ fe.pc = "count"
  /\ LET kinds   == KindsOf(fe.stmts)
         control == \E i \in DOMAIN kinds :
                      kinds[i] \in {"begin", "commit", "rollback"}
     IN  /\ st' = [st EXCEPT !.occTxnStatements = IF control THEN 0 ELSE @ + 1]
         /\ fe' = [fe EXCEPT
              !.pc = CASE EndsTransaction(kinds) -> "ends"
                       [] ~EndsTransaction(kinds) /\ tracker.inTxn -> "arm"
                       [] OTHER -> "forward"]
  /\ UNCHANGED <<client, fromClient, tracker, be, up, down, pg>>

\* occFailure: COMMIT of a doomed transaction reports the conflict and rolls
\* the upstream transaction back instead of committing it.
OccFailure ==
  /\ fe.pc = "ends"
  /\ IsCommit(KindsOf(fe.stmts))
  /\ st.occDoomed
  /\ writeClient(Answer("E", "conflict", fe.msg.req))
  /\ IF Extended(fe.msg)
     THEN /\ st' = deferFailure(noteBatchState(resetOcc(st), fe.msg.type),
                                Failure("rollback", "I", 2, fe.msg.req))
          /\ FrontendDone
     ELSE /\ st' = resetOcc(st)
          /\ fe' = [fe EXCEPT !.pc = "beginFailure",
                      !.failure = Failure("rollback", "I", 1, fe.msg.req)]
  /\ UNCHANGED <<fromClient, tracker, be, up, down, pg>>

\* occAdjudicated answered no, or the transaction is rolled back ...
NotAdjudicated ==
  /\ fe.pc = "ends"
  /\ ~(IsCommit(KindsOf(fe.stmts)) /\ st.occDoomed)
  /\ fe' = [fe EXCEPT !.pc = "reset"]
  /\ UNCHANGED <<client, fromClient, tracker, st, be, up, down, pg>>

\* ... and resetOcc forgets the transaction before it is forwarded.
ResetOcc ==
  /\ fe.pc = "reset"
  /\ st' = resetOcc(st)
  /\ fe' = [fe EXCEPT !.pc = "forward"]
  /\ UNCHANGED <<client, fromClient, tracker, be, up, down, pg>>

\* Mutation: a batch the client has not closed leaves room.
HasRoomInBatch(s) == s.pendingExchanges = 0

\* establishSavepoint: is there a gap to write a savepoint into?
HasRoom(s) == s.pendingExchanges = 0 /\ ~s.extendedBatchOpen

\* establishSavepoint up to the write.
EstablishSavepoint(wanted, next) ==
  IF wanted /\ ~st.occSavepoint /\ HasRoom(st)
  THEN /\ st' = [st EXCEPT !.occSavepoint = TRUE]
       /\ fe' = [fe EXCEPT !.pc = "savepoint", !.next = next]
  ELSE /\ fe' = [fe EXCEPT !.pc = next]
       /\ UNCHANGED st

\* armAdjudicator and savepointReady. The unnamed statement had its savepoint
\* at the Parse or has none: a simple query would destroy it.
ArmAdjudicator ==
  /\ fe.pc = "arm"
  /\ EstablishSavepoint(/\ HasIntent(fe.stmts)
                        /\ ~(fe.msg.type = "B" /\ fe.msg.name = ""),
                        "inFlight")
  /\ UNCHANGED <<client, fromClient, tracker, be, up, down, pg>>

\* handleParse of a statement the ruleset accepts: the savepoint goes ahead
\* of the Parse.
HandleParse ==
  /\ fe.pc = "handle"
  /\ ~st.txnAborted
  /\ fe.msg.type = "P"
  /\ ~Unparseable(fe.stmts) /\ ~Rejected(fe.stmts)
  /\ EstablishSavepoint(HasIntent(fe.stmts) /\ tracker.inTxn, "forward")
  /\ UNCHANGED <<client, fromClient, tracker, be, up, down, pg>>

HiddenExchange(kind, flight) ==
  [kind |-> kind, flight |-> flight, failed |-> FALSE]

\* Mutation: the exchange is not counted.
setHiddenUncounted(s, h) == [s EXCEPT !.hidden = h]

\* setHidden, and the exchange it starts.
setHidden(s, h) == beginExchange([s EXCEPT !.hidden = h])

\* The savepoint's hidden exchange is installed and the savepoint written.
WriteSavepoint ==
  /\ fe.pc = "savepoint"
  /\ st' = setHidden(st, HiddenExchange("savepoint", None))
  /\ up' = Append(up, OwnQuery(<<"savepoint">>))
  /\ fe' = [fe EXCEPT !.pc = fe.next]
  /\ UNCHANGED <<client, fromClient, tracker, be, down, pg>>

inFlight(m, stmts) ==
  [stmt |-> stmts[1], extended |-> Extended(m), req |-> m.req]

\* What the statement would report if it is refused a lock.
setInFlight(s, m, stmts) ==
  [s EXCEPT !.occInFlight = IF HasIntent(stmts) THEN inFlight(m, stmts) ELSE None]

SetInFlight ==
  /\ fe.pc = "inFlight"
  /\ st' = setInFlight(st, fe.msg, fe.stmts)
  /\ fe' = [fe EXCEPT !.pc = "forward"]
  /\ UNCHANGED <<client, fromClient, tracker, be, up, down, pg>>

\* Mutation: only the first Parse of a name is remembered.
RememberedFirst(s, m, stmts) ==
  IF m.type # "P" \/ s.statements[m.name] # NoStatement THEN s
  ELSE [s EXCEPT !.statements[m.name] =
          IF Unparseable(stmts) THEN NoStatement ELSE stmts[1]]

\* A Parse is remembered by its name, unless its text is unknown; handleClose
\* forgets it.
Remembered(s, m, stmts) ==
  IF m.type \notin {"P", "C"} THEN s
  ELSE [s EXCEPT !.statements[m.name] =
          IF m.type = "C" \/ Unparseable(stmts) THEN NoStatement ELSE stmts[1]]

\* forward, at the end of a handler or as all of it.
Forward ==
  /\ fe.pc = "forward"
  /\ LET known == Remembered(noteBatchState(st, fe.msg.type), fe.msg, fe.stmts)
     IN  st' = IF DrawsReady(fe.msg) THEN beginExchange(known) ELSE known
  /\ up' = Append(up, fe.msg)
  /\ FrontendDone
  /\ UNCHANGED <<client, fromClient, tracker, be, down, pg>>

Frontend ==
  \/ FrontendRead \/ HandleSync \/ BeginFailure \/ RejectFailed \/ EndAborted
  \/ CompleteExchange \/ ForwardUnparsed \/ RejectStatement \/ RefuseBatch
  \/ AdmitBatch \/ CountTxnStatement
  \/ OccFailure \/ NotAdjudicated \/ ResetOcc \/ ArmAdjudicator
  \/ HandleParse \/ WriteSavepoint \/ SetInFlight \/ Forward

-----------------------------------------------------------------------------
(* The backend goroutine.                                                  *)

BackendAt(pc) == be' = [be EXCEPT !.pc = pc]

BackendDone ==
  be' = [pc |-> "read", msg |-> None, hidden |-> None, inTxn |-> FALSE]

\* pumpBackend reads a message; a ReadyForQuery ends an exchange before
\* anything else looks at it.
BackendRead ==
  /\ be.pc = "read"
  /\ down # <<>>
  /\ SyncRace \/ ~(fe.pc = "beginFailure" /\ fe.msg.type = "S")
  /\ down' = Tail(down)
  /\ be' = [be EXCEPT !.pc = "hidden", !.msg = Head(down)]
  /\ st' = IF Head(down).type = "Z" THEN endExchange(st) ELSE st
  /\ UNCHANGED <<client, fromClient, fe, tracker, up, pg>>

\* consumeHidden: the message belongs to the emulator's exchange, if there is
\* one. A rowset shadow's result is passed on as the refused statement's.
ConsumeHidden ==
  /\ be.pc = "hidden"
  /\ st.hidden # None
  /\ LET h == [st.hidden EXCEPT !.failed = @ \/ be.msg.type = "E"]
     IN  /\ st' = [st EXCEPT !.hidden = h]
         /\ IF h.kind = "rowset" /\ be.msg.type = "C"
            THEN writeClient(Answer("C", h.flight.stmt, h.flight.req))
            ELSE UNCHANGED client
         /\ IF be.msg.type = "Z"
            THEN be' = [be EXCEPT !.pc = "unhide", !.hidden = h]
            ELSE BackendDone
  /\ UNCHANGED <<fromClient, fe, tracker, up, down, pg>>

NotHidden ==
  /\ be.pc = "hidden"
  /\ st.hidden = None
  /\ BackendAt("failure")
  /\ UNCHANGED <<client, fromClient, fe, tracker, st, up, down, pg>>

\* The exchange is over: cleared first, so that finish may start the next.
ClearHidden ==
  /\ be.pc = "unhide"
  /\ st' = [st EXCEPT !.hidden = None]
  /\ BackendAt("finish")
  /\ UNCHANGED <<client, fromClient, fe, tracker, up, down, pg>>

FinishSavepoint ==
  /\ be.pc = "finish"
  /\ be.hidden.kind = "savepoint"
  /\ st' = IF be.hidden.failed THEN [st EXCEPT !.occSavepoint = FALSE] ELSE st
  /\ BackendDone
  /\ UNCHANGED <<client, fromClient, fe, tracker, up, down, pg>>

\* Mutation: the refused statement's tag is forgotten.
RepairAnswerReadyOnly(flight) ==
  writeClient(Answer("Z", "T", flight.req))

RepairAnswer(flight) ==
  writeClientBoth(Answer("C", flight.stmt, flight.req),
                  Answer("Z", "T", flight.req))

extendedQuery(s) ==
  <<Message("P", "", <<s>>, 0), Message("B", "", <<>>, 0),
    Message("E", "", <<>>, 0), Message("S", "", <<>>, 0)>>

\* runCountShadow and runRowsetShadow: a simple query or, for a statement the
\* client bound, extendedQuery; a count whose shadow kept no parameter needs
\* none.
Shadows(flight) ==
  LET simple == <<OwnQuery(<<"shadow">>)>>
      bound  == extendedQuery("shadow")
  IN  CASE ~flight.extended -> {simple}
        [] flight.extended /\ IntentOf(flight.stmt) = "count" -> {simple, bound}
        [] OTHER -> {bound}

\* runShadow: the transaction is usable again, and the refused statement's
\* answer is looked up, unless it stated its own row count.
FinishRestore ==
  /\ be.pc = "finish"
  /\ be.hidden.kind = "restore"
  /\ ~be.hidden.failed
  /\ LET flight == be.hidden.flight
         intent == IntentOf(flight.stmt)
     IN  IF intent = "rows"
         THEN RepairAnswer(flight) /\ UNCHANGED <<st, up>>
         ELSE /\ st' = setHidden(st, HiddenExchange(intent, flight))
              /\ \E shadow \in Shadows(flight) : up' = up \o shadow
              /\ UNCHANGED client
  /\ BackendDone
  /\ UNCHANGED <<fromClient, fe, tracker, down, pg>>

\* completeRepair, or the end of a rowset shadow.
FinishShadow ==
  /\ be.pc = "finish"
  /\ be.hidden.kind \in {"count", "rowset"}
  /\ ~be.hidden.failed
  /\ IF be.hidden.kind = "count" THEN RepairAnswer(be.hidden.flight)
     ELSE writeClient(Answer("Z", "T", be.hidden.flight.req))
  /\ BackendDone
  /\ UNCHANGED <<fromClient, fe, tracker, st, up, down, pg>>

\* failRepair: the conflict is reported where PostgreSQL raised it ...
FailRepair ==
  /\ be.pc = "finish"
  /\ be.hidden.kind # "savepoint"
  /\ be.hidden.failed
  /\ st' = [st EXCEPT !.occDoomed = FALSE]
  /\ writeClient(Answer("E", "conflict", be.hidden.flight.req))
  /\ BackendAt("failTxn")
  /\ UNCHANGED <<fromClient, fe, tracker, up, down, pg>>

\* ... and the transaction is failed.
FailTxn ==
  /\ be.pc = "failTxn"
  /\ st' = beginExchange(
             WithFailure(st, Failure("abort", "E", 1, be.hidden.flight.req)))
  /\ up' = Append(up, OwnQuery(<<"abort">>))
  /\ BackendDone
  /\ UNCHANGED <<client, fromClient, fe, tracker, down, pg>>

\* Mutation: one ReadyForQuery too many is swallowed.
SwallowedOffByOne(f, rfqs) == rfqs > f.swallow

\* Is this the last ReadyForQuery the failure swallows?
Swallowed(f, rfqs) == rfqs >= f.swallow

\* Mutation: the failure's own status is not used.
FailureReadyAlwaysE(f) == Answer("Z", "E", f.req)

FailureReady(f) == Answer("Z", f.status, f.req)

\* failureActive and consumeFailureMessage: everything is suppressed through
\* the last ReadyForQuery the failure swallows, then the client gets its own.
ConsumeFailure ==
  /\ be.pc = "failure"
  /\ st.failure # None
  /\ LET ready == be.msg.type = "Z"
         rfqs  == st.failureRFQs + 1
         done  == ready /\ Swallowed(st.failure, rfqs)
     IN  /\ st' = IF done THEN [st EXCEPT !.failure = None, !.failureRFQs = 0]
                  ELSE IF ready THEN [st EXCEPT !.failureRFQs = rfqs]
                  ELSE st
         /\ IF done THEN writeClient(FailureReady(st.failure))
            ELSE UNCHANGED client
  /\ BackendDone
  /\ UNCHANGED <<fromClient, fe, tracker, up, down, pg>>

NoFailure ==
  /\ be.pc = "failure"
  /\ st.failure = None
  /\ BackendAt(IF be.msg.type = "Z" THEN "ready" ELSE "repair")
  /\ UNCHANGED <<client, fromClient, fe, tracker, st, up, down, pg>>

\* repairPending: a refused statement is being taken over.
RepairPending(s) == s.occRepair # None

\* Any other message is relayed, but not while a refused statement is being
\* taken over, and not an error that is evidence of a conflict: for it
\* occIntercept first asks the tracker, without a lock.
Relay ==
  /\ be.pc = "repair"
  /\ IF ~RepairPending(st) /\ be.msg.type = "E" /\ be.msg.what = "conflict"
     THEN /\ be' = [be EXCEPT !.pc = "intercept", !.inTxn = tracker.inTxn]
          /\ UNCHANGED client
     ELSE /\ IF RepairPending(st) THEN UNCHANGED client ELSE writeClient(be.msg)
          /\ BackendDone
  /\ UNCHANGED <<fromClient, fe, tracker, st, up, down, pg>>

\* occIntercept takes the error over, or rewriteConflictError reports it.
OccIntercept ==
  /\ be.pc = "intercept"
  /\ LET ready == /\ st.occSavepoint \/ st.occTxnStatements <= 1
                  /\ be.inTxn
                  /\ st.occInFlight # None
                  /\ st.pendingExchanges <= 1
     IN  IF ready
         THEN /\ st' = [st EXCEPT !.occRepair = st.occInFlight,
                                  !.occInFlight = None]
              /\ UNCHANGED client
         ELSE /\ writeClient(be.msg)
              /\ UNCHANGED st
  /\ BackendDone
  /\ UNCHANGED <<fromClient, fe, tracker, up, down, pg>>

startRepair(s) ==
  [s EXCEPT !.occRepair = None, !.occDoomed = TRUE, !.txStatus = "T"]

\* A ReadyForQuery: startRepair dooms the transaction if a statement waits for
\* its repair, else the status is recorded.
ReadyForQuery ==
  /\ be.pc = "ready"
  /\ IF RepairPending(st)
     THEN /\ st' = startRepair(st)
          /\ be' = [be EXCEPT !.pc = "restore",
                      !.hidden = HiddenExchange("restore", st.occRepair)]
     ELSE /\ st' = [st EXCEPT !.txStatus = be.msg.what]
          /\ BackendAt("note")
  /\ UNCHANGED <<client, fromClient, fe, tracker, up, down, pg>>

\* startRepair undoes the refused statement: back to the savepoint or, with
\* none, by starting the transaction again.
StartRepair ==
  /\ be.pc = "restore"
  /\ st' = setHidden(st, be.hidden)
  /\ up' = Append(up, OwnQuery(IF st.occSavepoint THEN <<"rollbackto">>
                               ELSE <<"rollback", "begin">>))
  /\ BackendDone
  /\ UNCHANGED <<client, fromClient, fe, tracker, down, pg>>

\* noteTxStatus, and the ReadyForQuery is relayed.
NoteTxStatus ==
  /\ be.pc = "note"
  /\ st' = IF be.msg.what # "I" THEN st
           ELSE [st EXCEPT !.occSavepoint = FALSE, !.occDoomed = FALSE,
                           !.occInFlight = None, !.occTxnStatements = 0]
  /\ writeClient(be.msg)
  /\ BackendDone
  /\ UNCHANGED <<fromClient, fe, tracker, up, down, pg>>

Backend ==
  \/ BackendRead \/ ConsumeHidden \/ NotHidden \/ ClearHidden
  \/ FinishSavepoint \/ FinishRestore \/ FinishShadow \/ FailRepair \/ FailTxn
  \/ ConsumeFailure \/ NoFailure \/ Relay \/ OccIntercept
  \/ ReadyForQuery \/ StartRepair \/ NoteTxStatus

-----------------------------------------------------------------------------
(* The upstream (external): it answers its messages in order.              *)

PgAnswer(o, req) == [type |-> o.type, what |-> o.what, work |-> o.work, req |-> req]

\* A statement of a simple Query; an error drops the ones after it.
PgQuery ==
  /\ up # <<>> /\ Head(up).type = "Q" /\ Head(up).stmts # <<>>
  /\ LET m == Head(up)
     IN  \E o \in PgOutcomes(pg, Head(m.stmts)) :
           /\ pg' = o.pg
           /\ down' = Append(down, PgAnswer(o, m.req))
           /\ up' = [up EXCEPT ![1].stmts = IF o.type = "E" THEN <<>> ELSE Tail(@)]
  /\ UNCHANGED <<client, fromClient, fe, tracker, st, be>>

\* The end of a Query, or a Sync.
PgReady ==
  /\ up # <<>> /\ DrawsReady(Head(up)) /\ Head(up).stmts = <<>>
  /\ down' = Append(down, Answer("Z", pg.block, Head(up).req))
  /\ pg' = PgReadied(IF Head(up).type = "Q" THEN PgSimple(pg) ELSE pg)
  /\ up' = Tail(up)
  /\ UNCHANGED <<client, fromClient, fe, tracker, st, be>>

\* A Parse of the unnamed statement drops the one before it, failed or not.
PgFailExtended(m) ==
  LET code == IF pg.block = "E" THEN "25P02" ELSE "error"
      left == IF m.type = "P" /\ m.name = "" THEN PgSimple(pg) ELSE pg
  IN  /\ pg' = [PgError(left, code).pg EXCEPT !.skip = TRUE]
      /\ down' = Append(down, Answer("E", code, m.req))

PgExtended ==
  /\ up # <<>> /\ ~DrawsReady(Head(up))
  /\ LET m == Head(up)
         s == IF m.type = "B" THEN pg.prepared[m.name] ELSE pg.portal
     IN  \/ pg.skip /\ UNCHANGED <<pg, down>>
         \/ /\ ~pg.skip /\ m.type = "P"
            /\ IF PgRefuses(pg, m.stmts[1]) \/ PgDuplicate(pg, m.name)
               THEN PgFailExtended(m)
               ELSE /\ pg' = [pg EXCEPT !.prepared[m.name] = m.stmts[1]]
                    /\ UNCHANGED down
         \/ /\ ~pg.skip /\ m.type = "C"
            /\ pg' = [pg EXCEPT !.prepared[m.name] = NoStatement]
            /\ UNCHANGED down
         \/ /\ ~pg.skip /\ m.type = "B"
            /\ IF PgRefuses(pg, s) THEN PgFailExtended(m)
               ELSE pg' = [pg EXCEPT !.portal = s] /\ UNCHANGED down
         \/ /\ ~pg.skip /\ m.type = "E"
            /\ \E o \in PgOutcomes(pg, s) :
                 /\ pg' = [o.pg EXCEPT !.skip = o.type = "E", !.portal = NoStatement]
                 /\ down' = Append(down, PgAnswer(o, m.req))
  /\ up' = Tail(up)
  /\ UNCHANGED <<client, fromClient, fe, tracker, st, be>>

Upstream == PgQuery \/ PgReady \/ PgExtended

Next ==
  \/ \E r \in Requests[client.kind] : ClientSends(r)
  \/ Frontend \/ Backend \/ Upstream

\* Both goroutines keep running and the upstream answers; the client need not
\* send anything.
Fairness == WF_vars(Frontend) /\ WF_vars(Backend) /\ WF_vars(Upstream)

Spec == Init /\ [][Next]_vars /\ Fairness

-----------------------------------------------------------------------------
(* Properties.                                                             *)

Texts == ClientStatements \cup OwnStatements

\* The client's messages once they are numbered, and all that go upstream.
Sent ==
  {m \in [type : {"Q", "P", "B", "E", "C", "S"}, name : Names,
          stmts : Seq(ClientStatements), req : 1 .. IdSpace] :
     m.type = "P" => Len(m.stmts) = 1}

Messages ==
  {m \in [type : {"Q", "P", "B", "E", "C", "S"}, name : Names,
          stmts : Seq(Texts), req : 0 .. IdSpace] :
     m.type = "P" => Len(m.stmts) = 1}

Answers ==
  [type : {"C", "E"}, req : 0 .. IdSpace, work : Nat,
   what : Texts \cup {"rule", "txn", "25P02", "conflict", "error"}]
  \cup [type : {"Z"}, req : 0 .. IdSpace, work : {0}, what : {"I", "T", "E"}]

\* Only a statement whose answer can be reproduced is ever in flight.
Flights ==
  [stmt : {s \in ClientStatements : IntentOf(s) # "none"}, extended : BOOLEAN,
   req : 1 .. IdSpace]

Failures ==
  [statement : {"abort", "rollback"}, status : {"E", "I"}, swallow : {1, 2},
   req : 1 .. IdSpace]

Repairs == [kind : {"restore", "count", "rowset"}, flight : Flights, failed : BOOLEAN]

Exchanges == Repairs \cup [kind : {"savepoint"}, flight : {None}, failed : BOOLEAN]

\* nil is none of the structs the session points to.
ASSUME NilAssumption == None \notin Failures \cup Flights \cup Exchanges

Structs ==
  [txStatus : {"I", "T", "E"}, skipSync : BOOLEAN, txnAborted : BOOLEAN,
   failure : Failures \cup {None}, failureRFQs : {0, 1},
   pendingFailure : Failures \cup {None}, hidden : Exchanges \cup {None},
   occSavepoint : BOOLEAN, occDoomed : BOOLEAN,
   occTxnStatements : Nat, occInFlight : Flights \cup {None},
   occRepair : Flights \cup {None},
   extendedBatchOpen : BOOLEAN, pendingExchanges : Nat,
   statements : [Names -> ClientStatements \cup {NoStatement}]]

\* The frontend works on a message of the client's, by its statements.
FrontendOK ==
  /\ fe \in [pc : {"read", "sync", "handle", "beginFailure", "complete", "count",
                   "ends", "reset", "arm", "savepoint", "inFlight", "forward"},
             msg : Sent \cup {None},
             stmts : Seq(ClientStatements \cup {NoStatement}),
             next : {"read", "failed", "inFlight", "forward"},
             failure : Failures \cup {None}]
  /\ fe.pc # "read" =>
       /\ fe.msg \in Sent
       /\ fe.msg.type # "B" => fe.stmts = fe.msg.stmts
  /\ fe.pc \notin {"read", "sync", "forward"} => fe.stmts \in Seq(ClientStatements)
  /\ fe.pc = "sync" => fe.msg.type = "S"
  /\ fe.pc = "beginFailure" => fe.failure \in Failures
  /\ fe.pc = "savepoint" => fe.next \in {"inFlight", "forward"}

\* The backend works on an answer, or on the end of a hidden exchange.
BackendOK ==
  /\ be \in [pc : {"read", "hidden", "unhide", "finish", "failTxn", "failure",
                   "repair", "intercept", "ready", "restore", "note"},
             msg : Answers \cup {None}, hidden : Exchanges \cup {None},
             inTxn : BOOLEAN]
  /\ be.pc # "read" => be.msg \in Answers
  /\ be.pc \in {"ready", "note"} => be.msg.type = "Z"
  /\ be.pc \in {"unhide", "finish"} => be.hidden \in Exchanges
  /\ be.pc \in {"failTxn", "restore"} => be.hidden \in Repairs

PgStates ==
  [block : {"I", "T", "E"}, sp : BOOLEAN, work : Nat, spWork : Nat,
   prepared : [Names -> Texts \cup {NoStatement}],
   portal : Texts \cup {NoStatement}, skip : BOOLEAN]

\* What the client has asked is something it may ask.
Asked ==
  [id : 0 .. IdSpace, ends : BOOLEAN,
   stmts : {StatementsOf(r) : r \in UNION {Requests[k] : k \in DOMAIN Requests}}
           \cup {<<>>}]

Clients ==
  [kind : DOMAIN Requests, sent : 0 .. IdSpace, due : Seq(Asked), asked : Asked,
   got : Seq(Answers), status : {"I", "T", "E"}, acked : Nat,
   commit : [acked : Nat, work : Nat]]

\* The shape of the session struct, of the goroutines' locals and of the
\* streams between them, and what each program point has at hand.
TypeOK ==
  /\ FrontendOK /\ BackendOK
  /\ client \in Clients /\ tracker \in Trackers /\ st \in Structs /\ pg \in PgStates
  /\ fromClient \in Seq(Sent) /\ up \in Seq(Messages) /\ down \in Seq(Answers)

\* Nothing is outstanding anywhere.
Quiescent ==
  /\ client.due = <<>> /\ fromClient = <<>> /\ up = <<>> /\ down = <<>>
  /\ fe.pc = "read" /\ be.pc = "read"

\* pendingExchanges, which beginExchange and endExchange keep from two
\* goroutines, is the number of ReadyForQuerys that will still arrive: what
\* establishSavepoint and occIntercept take it for.
ExchangeAccounting ==
  st.pendingExchanges =
    Cardinality({i \in DOMAIN up : DrawsReady(up[i])})
    + Cardinality({i \in DOMAIN down : down[i].type = "Z"})

\* A hidden exchange is installed only while the next answers are the
\* emulator's own, so consumeHidden never eats a message of the client's.
HiddenOwnsStream ==
  st.hidden # None /\ be.pc \in {"read", "hidden"} =>
    /\ be.pc = "hidden" => be.msg.req = 0
    /\ down # <<>> /\ be.pc = "read" => down[1].req = 0
    /\ down = <<>> /\ up # <<>> /\ be.pc = "read" => up[1].req = 0


\* A finished answer is one the protocol allows: the tag of every statement,
\* or one error after the tags of the statements before the one that failed.
\* A repair that swallowed an error without answering, or answered twice,
\* would break this.
AnswerComplete ==
  Complete(client.got) =>
    LET body   == SubSeq(client.got, 1, Len(client.got) - 1)
        errors == {i \in DOMAIN body : body[i].type = "E"}
        stmts  == client.asked.stmts
    IN  \/ errors = {} /\ Len(body) = Len(stmts)
        \/ errors = {Len(body)} /\ (Len(body) <= Len(stmts) \/ stmts = <<>>)

\* With nothing outstanding, the tracker knows whether a transaction is open
\* upstream, although failures, repairs and refusals bypass one or the other.
TrackerTruthful == Quiescent => (tracker.inTxn <=> pg.block # "I")

\* The status the client was last told is the upstream's.
StatusTruthful ==
  Quiescent /\ client.got # <<>> => client.got[Len(client.got)].what = pg.block

\* An open transaction the client was told has failed stays failed until it
\* is ended: nothing is executed in it behind the client's back.
AbortedStaysFailed == Quiescent /\ st.txnAborted => pg.block = "E"

\* A cached statement's Bind is judged by what the upstream will run: a name
\* the upstream has prepared stands for the same statement in s.statements,
\* although the map is changed when a Parse or Close is forwarded and the
\* upstream may refuse or skip it.
PreparedTruthful ==
  Quiescent =>
    \A name \in Names \ {""} : pg.prepared[name] \in {NoStatement, st.statements[name]}

\* A client that sends no simple Query keeps its unnamed statement: the
\* emulator's own exchanges do not destroy it.
UnnamedSurvives == Quiescent /\ pg.block # "E" => pg.prepared[""] = st.statements[""]

\* Inside a transaction a conflict is answered at the statement that ends it,
\* never at the statement that was refused a lock.
ConflictAtCommit ==
  \A i \in DOMAIN client.got :
    /\ client.got[i].type = "E" /\ client.got[i].what = "conflict"
    /\ Complete(client.got) /\ client.got[Len(client.got)].what # "I"
    => client.asked.ends

\* Every request is answered: no suppressed exchange, failure or repair leaves
\* the client waiting.
Answered == client.due # <<>> ~> client.due = <<>>
=============================================================================
