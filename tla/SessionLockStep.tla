-------------------------- MODULE SessionLockStep --------------------------
(***************************************************************************)
(* What a step of Session does when its client is in lock step: it waits   *)
(* for each answer, and every request is one round. The session then       *)
(* serves one request at a time and is at rest between requests; LockInv   *)
(* says what it has under way in between, and every step keeps it. The     *)
(* lemmas assume of the state they start in that it has its type and that  *)
(* its exchanges are counted right, which SessionProofs shows.             *)
(***************************************************************************)
EXTENDS Session, TLAPS

-----------------------------------------------------------------------------
(* What the operators of the session keep.                                 *)

\* What a client may send is a message.
LEMMA SentIsMessage == Sent \subseteq Messages
BY SessionAssumption DEF Sent, Messages, Texts

\* The two failures beginFailure records are failures.
LEMMA FailureType ==
  ASSUME NEW req \in 1 .. IdSpace, NEW n \in {1, 2}
  PROVE  Failure("abort", "E", n, req) \in Failures /\ Failure("rollback", "I", n, req) \in Failures
BY DEF Failure, Failures

\* The queries of the emulator's own are messages.
LEMMA OwnQueryType ==
  /\ \A q \in Seq(Texts) : OwnQuery(q) \in Messages
  /\ \A s \in Texts : OwnQuery(<<s>>) \in Messages
<1>1. 0 \in 0 .. IdSpace
  BY SessionAssumption
<1>2. ASSUME NEW q \in Seq(Texts) PROVE OwnQuery(q) \in Messages
  BY <1>1 DEF OwnQuery, Message, Messages, Names
<1>3. ASSUME NEW s \in Texts PROVE <<s>> \in Seq(Texts)
  OBVIOUS
<1> QED  BY <1>2, <1>3, ZenonT(30)

\* Remembering or forgetting the statement of a name keeps the type.
LEMMA NameEdit ==
  ASSUME NEW s \in Structs, NEW name \in Names, NEW t \in ClientStatements \cup {NoStatement}
  PROVE  [s EXCEPT !.statements[name] = t] \in Structs
<1>1. [s.statements EXCEPT ![name] = t] \in [Names -> ClientStatements \cup {NoStatement}]
  BY DEF Structs
<1>2. ASSUME NEW f \in [Names -> ClientStatements \cup {NoStatement}]
      PROVE  [s EXCEPT !.statements = f] \in Structs
  BY DEF Structs
<1> QED  BY <1>1, <1>2, ZenonT(30)

\* What forward remembers of a Parse or a Close keeps the type.
LEMMA RememberedType ==
  ASSUME NEW s \in Structs, NEW m \in Sent, NEW stmts,
         m.type = "P" => stmts[1] \in ClientStatements
  PROVE  Remembered(s, m, stmts) \in Structs
<1>1. m.name \in Names
  BY DEF Sent
<1> DEFINE t == IF m.type = "C" \/ Unparseable(stmts) THEN NoStatement ELSE stmts[1]
<1>2. m.type \in {"P", "C"} => t \in ClientStatements \cup {NoStatement}
  OBVIOUS
<1>3. Remembered(s, m, stmts) = IF m.type \notin {"P", "C"} THEN s
                                ELSE [s EXCEPT !.statements[m.name] = t]
  BY DEF Remembered
<1> HIDE DEF t
<1> QED  BY <1>1, <1>2, <1>3, NameEdit

\* What the upstream makes of a statement is a state of it and an answer.
LEMMA OutcomeType ==
  ASSUME NEW p \in PgStates, NEW s \in Texts \cup {NoStatement}, NEW o \in PgOutcomes(p, s)
  PROVE  /\ o.pg \in PgStates /\ o.type \in {"C", "E"}
         /\ \A req \in 0 .. IdSpace : PgAnswer(o, req) \in Answers
<1> DEFINE Outcome == [pg : PgStates, type : {"C", "E"}, work : Nat,
                       what : Texts \cup {"rule", "txn", "25P02", "conflict", "error"}]
<1>1. p.work \in Nat /\ p.spWork \in Nat
  BY DEF PgStates
<1>2. \A q \in PgStates, t \in Texts : PgDone(q, t) \in Outcome
  BY DEF PgDone
<1>3. ASSUME NEW c \in {"25P02", "conflict", "error"} PROVE PgError(p, c) \in Outcome
  BY DEF PgError, PgStates
<1>4. PgEndTxn(p) \in PgStates
  BY ZenonT(30) DEF PgEndTxn, PgStates
<1>5. [p EXCEPT !.block = "T"] \in PgStates
  BY DEF PgStates
<1>6. [p EXCEPT !.sp = TRUE, !.spWork = p.work] \in PgStates
  BY <1>1, ZenonT(30) DEF PgStates
<1>7. [p EXCEPT !.work = p.spWork] \in PgStates
  BY <1>1 DEF PgStates
<1>8. [p EXCEPT !.work = @ + 1] \in PgStates
  BY <1>1 DEF PgStates
<1>9. [p EXCEPT !.block = "T", !.work = p.spWork] \in PgStates
  BY <1>1, ZenonT(30) DEF PgStates
<1>10. [PgDone(PgEndTxn(p), "commit") EXCEPT !.work = p.work] \in Outcome
  BY <1>1, <1>4 DEF PgDone, Texts, ClientStatements
<1> HIDE DEF Outcome
<1>11. \A t \in {"begin", "commit", "rollback", "savepoint", "rollbackto"} : t \in Texts
  BY DEF Texts, ClientStatements, OwnStatements
<1>12. ASSUME NEW q \in PgRuns(p, s) PROVE q \in Outcome
  <2>1. CASE s = "begin"
    BY <2>1, <1>2, <1>5, <1>11 DEF PgRuns, Effects, NoStatement
  <2>2. CASE s = "commit"
    BY <2>2, <1>10 DEF PgRuns, Effects, NoStatement
  <2>3. CASE s = "rollback"
    BY <2>3, <1>2, <1>4, <1>11 DEF PgRuns, Effects, NoStatement
  <2>4. CASE s = "savepoint"
    BY <2>4, <1>2, <1>3, <1>6, <1>11 DEF PgRuns, Effects, NoStatement
  <2>5. CASE s = "rollbackto"
    BY <2>5, <1>2, <1>3, <1>7, <1>11 DEF PgRuns, Effects, NoStatement
  <2>6. CASE s \in {"abort", "garbage", NoStatement}
    BY <2>6, <1>3 DEF PgRuns, Effects, NoStatement
  <2>7. CASE s \in Effects
    <3>1. PgRuns(p, s) = {PgDone([p EXCEPT !.work = @ + 1], s), PgError(p, "conflict"),
                          PgError(p, "error")}
      BY <2>7 DEF PgRuns, Effects, NoStatement
    <3>2. s \in Texts
      BY <2>7 DEF Texts, ClientStatements
    <3> QED  BY <3>1, <3>2, <1>2, <1>3, <1>8
  <2>8. CASE s \notin Effects \cup {"begin", "commit", "rollback", "savepoint",
                                    "rollbackto", "abort", "garbage", NoStatement}
    <3>1. PgRuns(p, s) = {PgDone(p, s), PgError(p, "error")}
      BY <2>8 DEF PgRuns
    <3> QED  BY <2>8, <3>1, <1>2, <1>3
  <2> QED  BY <2>1, <2>2, <2>3, <2>4, <2>5, <2>6, <2>7, <2>8
<1>13. o \in Outcome
  <2>1. CASE p.block # "E"
    BY <2>1, <1>12 DEF PgOutcomes
  <2>2. CASE p.block = "E" /\ s \in {"commit", "rollback"}
    BY <2>2, <1>2, <1>4, <1>11 DEF PgOutcomes
  <2>3. CASE p.block = "E" /\ s = "rollbackto" /\ p.sp
    BY <2>3, <1>2, <1>9, <1>11 DEF PgOutcomes
  <2>4. CASE p.block = "E" /\ s \notin {"commit", "rollback"} /\ ~(s = "rollbackto" /\ p.sp)
    BY <2>4, <1>3 DEF PgOutcomes
  <2> QED  BY <2>1, <2>2, <2>3, <2>4
<1> QED  BY <1>13 DEF Outcome, PgAnswer, Answers

\* The struct counts the exchanges the frontend and the backend start ...
LEMMA EditsCount ==
  ASSUME NEW s \in Structs
  PROVE  LET n == s.pendingExchanges
         IN  /\ n \in Nat
             /\ beginExchange(s).pendingExchanges = n + 1
             /\ n > 0 => endExchange(s).pendingExchanges = n - 1
             /\ resetOcc(s).pendingExchanges = n
             /\ endAborted(s).pendingExchanges = n
             /\ startRepair(s).pendingExchanges = n
             /\ \A type : noteBatchState(s, type).pendingExchanges = n
             /\ \A f : WithFailure(s, f).pendingExchanges = n
             /\ \A f : deferFailure(s, f).pendingExchanges = n
             /\ \A h : setHidden(s, h).pendingExchanges = n + 1
             /\ \A m, stmts : Remembered(s, m, stmts).pendingExchanges = n
             /\ \A m, stmts : setInFlight(s, m, stmts).pendingExchanges = n
BY DEF Structs, beginExchange, endExchange, resetOcc, endAborted, startRepair, noteBatchState,
       WithFailure, deferFailure, setHidden, Remembered, setInFlight

-----------------------------------------------------------------------------
(* A lock-step client.                                                     *)

\* Every request is one Query, or a batch that parses and binds before it
\* executes.
OneRound ==
  \A k \in DOMAIN Requests : \A r \in Requests[k] :
    /\ r[Len(r)].type = "Q" => Len(r) = 1
    /\ \A i, j \in DOMAIN r : i < j /\ r[i].type = "E" => r[j].type \notin {"P", "B"}

\* The client waits for each answer, and the frontend goes on from a Sync
\* before the upstream has answered it.
LockStep == Window = 1 /\ ~SyncRace /\ OneRound

\* Between requests nothing is under way.
Rest ==
  /\ fe.pc = "read" /\ fromClient = <<>> /\ be.pc = "read" /\ up = <<>> /\ down = <<>>
  /\ st.hidden = None /\ st.failure = None /\ st.pendingFailure = None
  /\ st.occRepair = None /\ ~st.extendedBatchOpen /\ ~st.skipSync

\* The frontend has not passed on all of the request, or has begun to fail the
\* transaction and not sent the statement that does.
Forwarding == fe.pc # "read" \/ fromClient # <<>>

Deferring == fe.pc = "beginFailure" /\ fe.msg.type = "S"

\* The messages the frontend has and has not read of the request.
Unread ==
  /\ \A i \in DOMAIN fromClient : fromClient[i].type \in {"Q", "S"} <=> i = Len(fromClient)
  /\ \A i, j \in DOMAIN fromClient :
       i < j /\ fromClient[i].type = "E" => fromClient[j].type \notin {"P", "B"}
  /\ \A i \in DOMAIN fromClient :
       fromClient[i].type = "Q" =>
         i = 1 /\ fe.pc = "read" /\ ~st.extendedBatchOpen /\ ~st.skipSync
  /\ fe.pc # "read" =>
       /\ fe.msg.type \in {"Q", "S"} <=> fromClient = <<>>
       /\ fe.msg.type = "E" => \A j \in DOMAIN fromClient : fromClient[j].type \notin {"P", "B"}

\* What the frontend's program points and the flags of the batch say of the
\* message at hand.
Handling ==
  /\ fe.pc # "read" /\ fe.msg.type = "Q" => ~st.extendedBatchOpen
  /\ fe.pc \in {"handle", "complete", "count", "ends", "reset", "arm", "savepoint", "inFlight"} =>
       fe.msg.type \in {"Q", "P", "B"}
  /\ fe.pc = "complete" => fe.msg.type = "Q"
  /\ fe.pc = "beginFailure" =>
       fe.msg.type \in {"Q", "S"} /\ fe.failure.swallow = IF fe.msg.type = "S" THEN 2 ELSE 1
  /\ fe.pc = "forward" => fe.msg.type # "S"
  /\ fe.pc = "savepoint" => ~st.extendedBatchOpen
  /\ st.skipSync => fe.pc \in {"read", "sync"}
  /\ st.pendingFailure # None => st.skipSync /\ st.pendingFailure.swallow = 2
  /\ ~Forwarding => ~st.extendedBatchOpen /\ ~st.skipSync

\* Until something of the request is written upstream, nothing is there.
Unsent ==
  /\ Forwarding /\ ~Deferring /\ ~st.extendedBatchOpen
  /\ fe.pc \notin {"inFlight", "forward"}
  => up = <<>> /\ down = <<>> /\ be.pc = "read" /\ st.hidden = None

\* The hidden exchange is the savepoint's, or one of a repair, which goes on
\* between the repair's exchanges too.
Saving == st.hidden # None /\ st.hidden.kind = "savepoint"

Repairing == st.hidden # None /\ st.hidden.kind # "savepoint"

Ending ==
  \/ be.pc \in {"restore", "failTxn"}
  \/ be.pc \in {"unhide", "finish"} /\ be.hidden.kind # "savepoint"

\* The backend holds a ReadyForQuery it has not acted on.
HasReady == be.pc \in {"hidden", "failure", "ready", "note"} /\ be.msg.type = "Z"

\* The ReadyForQuerys to come are those of the savepoint and of the request:
\* one, or as many as the failure swallows.
Expected ==
  LET own == IF Saving /\ be.pc # "unhide" THEN 1 ELSE 0
  IN  IF Deferring THEN own + 1
      ELSE IF Forwarding THEN own
      ELSE IF st.failure # None THEN own + st.failure.swallow - st.failureRFQs
      ELSE IF Ending THEN 0
      ELSE IF Repairing THEN 1
      ELSE own + 1

Balance == st.pendingExchanges + (IF HasReady THEN 1 ELSE 0) = Expected

\* A request is being forwarded, failed or repaired, never two of them.
Apart ==
  /\ Forwarding =>
       /\ ~Repairing /\ ~Ending /\ st.failure = None
       /\ HasReady => be.pc = "hidden" /\ st.hidden # None
  /\ st.failure # None =>
       /\ ~Repairing /\ ~Ending /\ be.pc \notin {"ready", "note", "intercept"}
       /\ st.failureRFQs < st.failure.swallow
  /\ st.hidden # None => be.pc \in {"read", "hidden", "unhide"}
  /\ be.pc = "unhide" => st.hidden # None /\ be.hidden = st.hidden
  /\ Repairing \/ Ending \/ be.pc = "note" => st.occRepair = None
  /\ be.pc \in {"repair", "intercept"} => be.msg.type # "Z"

\* Once all of a request is written, a ReadyForQuery is the last to come.
Closed ==
  ~Forwarding \/ Deferring =>
    /\ up # <<>> => DrawsReady(up[Len(up)])
    /\ up = <<>> /\ down # <<>> => down[Len(down)].type = "Z"

\* The emulator may still refuse the request, or is failing it ...
Refusing ==
  \/ \E i \in DOMAIN fromClient : fromClient[i].type \in {"P", "B", "Q"}
  \/ fe.pc # "read" /\ fe.msg.type \in {"P", "B", "Q"}
  \/ st.skipSync \/ fe.pc = "beginFailure" \/ st.failure # None

\* ... and then nothing of it that can be refused a lock has been sent.
Unrun ==
  Refusing =>
    /\ st.occRepair = None /\ be.pc # "intercept"
    /\ be.pc # "read" => be.msg.what # "conflict"
    /\ \A i \in DOMAIN down : down[i].what # "conflict"
    /\ \A i \in DOMAIN up :
         /\ up[i].type # "E"
         /\ up[i].type = "Q" => \A k \in DOMAIN up[i].stmts : up[i].stmts[k] \notin Effects

\* A hidden exchange owns the stream through its ReadyForQuery.
OwnsThrough ==
  /\ \A i \in DOMAIN down : (\A j \in 1 .. i - 1 : down[j].type # "Z") => down[i].req = 0
  /\ (\A j \in DOMAIN down : down[j].type # "Z") =>
       \A i \in DOMAIN up : (\A j \in 1 .. i - 1 : ~DrawsReady(up[j])) => up[i].req = 0

Owned ==
  st.hidden # None =>
    /\ be.pc # "read" => be.msg.req = 0
    /\ be.pc = "read" \/ (be.pc = "hidden" /\ be.msg.type # "Z") => OwnsThrough

Served ==
  Unread /\ Handling /\ Unsent /\ Balance /\ Apart /\ Closed /\ Unrun /\ Owned

LockInv ==
  /\ Len(client.due) <= 1
  /\ IF client.due = <<>> THEN Rest ELSE Served

\* What pendingExchanges tells of the streams: a ReadyForQuery is to come, or
\* already in the answers, exactly when an exchange is pending.
Accounted ==
  /\ st.pendingExchanges = 0 =>
       /\ \A i \in DOMAIN up : ~DrawsReady(up[i])
       /\ \A i \in DOMAIN down : down[i].type # "Z"
  /\ st.pendingExchanges # 0 =>
       \/ \E i \in DOMAIN up : DrawsReady(up[i])
       \/ \E i \in DOMAIN down : down[i].type = "Z"

\* Only these variables say how far the request is.
LEMMA IdleServed ==
  ASSUME Served, UNCHANGED <<fromClient, fe, st, be, up, down>>
  PROVE  Served'
<1>0. Unread /\ Handling /\ Unsent /\ Balance /\ Apart /\ Closed /\ Unrun /\ Owned
  BY DEF Served
<1>1. (Forwarding' <=> Forwarding) /\ (Deferring' <=> Deferring) /\ (Refusing' <=> Refusing)
  BY DEF Forwarding, Deferring, Refusing
<1>2. (Saving' <=> Saving) /\ (Repairing' <=> Repairing)
  BY DEF Saving, Repairing
<1>3. (Ending' <=> Ending) /\ (HasReady' <=> HasReady)
  BY DEF Ending, HasReady
<1>4. Unread' /\ Handling' /\ Unsent'
  BY <1>0, <1>1 DEF Unread, Handling, Unsent
<1>5. Balance'
  BY <1>0, <1>1, <1>2, <1>3 DEF Balance, Expected
<1>6. Apart' /\ Closed' /\ Unrun'
  BY <1>0, <1>1, <1>2, <1>3 DEF Apart, Closed, Unrun
<1>7. Owned'
  BY <1>0 DEF Owned, OwnsThrough
<1> QED  BY <1>4, <1>5, <1>6, <1>7 DEF Served

\* A request that is all written and has nothing pending has left the streams.
LEMMA Dry ==
  ASSUME TypeOK, Accounted, Closed, ~Forwarding, st.pendingExchanges = 0
  PROVE  up = <<>> /\ down = <<>>
<1>1. up \in Seq(Messages) /\ down \in Seq(Answers)
  BY DEF TypeOK
<1>2. up = <<>>
  <2> SUFFICES ASSUME up # <<>> PROVE FALSE
    OBVIOUS
  <2>1. Len(up) \in DOMAIN up
    BY <1>1
  <2> QED  BY <2>1 DEF Closed, Accounted
<1>3. down = <<>>
  <2> SUFFICES ASSUME down # <<>> PROVE FALSE
    OBVIOUS
  <2>1. Len(down) \in DOMAIN down
    BY <1>1
  <2> QED  BY <1>2, <2>1 DEF Closed, Accounted
<1> QED  BY <1>2, <1>3

\* Only a statement with effects is refused a lock.
LEMMA RefusedLock ==
  ASSUME NEW p, NEW s, NEW o \in PgOutcomes(p, s), s # "conflict", o.what = "conflict"
  PROVE  s \in Effects
<1>1. \A q, code : PgError(q, code).what = code
  BY DEF PgError
<1>2. \A q, tag : PgDone(q, tag).what = tag
  BY DEF PgDone
<1>3. [PgDone(PgEndTxn(p), s) EXCEPT !.work = p.work].what = s
  BY DEF PgDone
<1>4. CASE o \in PgRuns(p, s)
  <2> SUFFICES ASSUME s \notin Effects PROVE FALSE
    OBVIOUS
  <2>1. CASE s \in {"begin", "commit", "rollback"}
    <3>1. o \in {PgDone([p EXCEPT !.block = "T"], s), PgDone(PgEndTxn(p), s),
                [PgDone(PgEndTxn(p), s) EXCEPT !.work = p.work]}
      <4>1. CASE s = "begin"
        BY <1>4, <4>1 DEF PgRuns, Effects, NoStatement
      <4>2. CASE s = "commit"
        BY <1>4, <4>2 DEF PgRuns, Effects, NoStatement
      <4>3. CASE s = "rollback"
        BY <1>4, <4>3 DEF PgRuns, Effects, NoStatement
      <4> QED  BY <2>1, <4>1, <4>2, <4>3
    <3> QED  BY <1>2, <1>3, <3>1, ZenonT(30)
  <2>2. CASE s \in {"savepoint", "rollbackto", "abort", "garbage", NoStatement}
    BY <1>1, <1>2, <1>4, <2>2 DEF PgRuns, NoStatement
  <2>3. CASE s \notin {"begin", "commit", "rollback", "savepoint", "rollbackto", "abort",
                       "garbage", NoStatement}
    <3>1. o \in {PgDone(p, s), PgError(p, "error")}
      BY <1>4, <2>3 DEF PgRuns
    <3> QED  BY <1>1, <1>2, <3>1
  <2> QED  BY <2>1, <2>2, <2>3
<1>5. CASE o \notin PgRuns(p, s)
  <2>1. o \in {PgDone(PgEndTxn(p), "rollback"), PgError(p, "25P02"),
               PgDone([p EXCEPT !.block = "T", !.work = p.spWork], s)}
    BY <1>5 DEF PgOutcomes
  <2> QED  BY <1>1, <1>2, <2>1
<1> QED  BY <1>4, <1>5

\* A step of the upstream moves the head of its queue into the answers.
LEMMA UpstreamServed ==
  ASSUME TypeOK, Served, Upstream
  PROVE  Served'
<1>0. /\ Unread /\ Handling /\ Unsent /\ Balance /\ Apart /\ Closed /\ Unrun /\ Owned
      /\ up \in Seq(Messages) /\ down \in Seq(Answers) /\ pg \in PgStates
  BY DEF Served, TypeOK
<1>1. UNCHANGED <<client, fromClient, fe, st, be>> /\ up # <<>>
  BY ZenonT(30) DEF Upstream, PgQuery, PgReady, PgExtended
<1>2. /\ Forwarding' = Forwarding /\ Deferring' = Deferring /\ Refusing' = Refusing
      /\ Unread' /\ Handling' /\ Unsent' /\ Apart'
  BY <1>0, <1>1 DEF Forwarding, Deferring, Refusing, Unread, Handling, Unsent, Apart, Saving,
                    Repairing, Ending, HasReady
<1>3. Balance'
  BY <1>0, <1>1, <1>2, ZenonT(30) DEF Balance, Expected, Saving, Repairing, Ending, HasReady
<1> DEFINE m == up[1]
           n == Len(up)
           k == Len(down)
<1>4. /\ m \in Messages /\ m = Head(up) /\ n \in Nat /\ n # 0 /\ DOMAIN up = 1 .. n /\ 1 \in DOMAIN up
      /\ k \in Nat /\ DOMAIN down = 1 .. k
  BY <1>0, <1>1
<1>5. /\ Refusing => \A i \in DOMAIN down : down[i].what # "conflict"
      /\ Refusing => \A i \in DOMAIN up :
           /\ up[i].type # "E"
           /\ up[i].type = "Q" => \A l \in DOMAIN up[i].stmts : up[i].stmts[l] \notin Effects
  BY <1>0 DEF Unrun
<1>6. ASSUME NEW a, down' = Append(down, a)
      PROVE  /\ DOMAIN down' = 1 .. k + 1 /\ down'[k + 1] = a /\ Len(down') = k + 1
             /\ \A i \in 1 .. k : down'[i] = down[i]
  BY <1>0, <1>6
<1> HIDE DEF n, k
<1>7. CASE /\ DOMAIN up' = DOMAIN up /\ Len(up') = n
           /\ \A i \in DOMAIN up : /\ up'[i].type = up[i].type /\ up'[i].req = up[i].req
                                   /\ i # 1 => up'[i] = up[i]
           /\ m.type = "Q" /\ up'[1].stmts \in {<<>>, Tail(m.stmts)}
           /\ \E a : /\ down' = Append(down, a) /\ a.type # "Z" /\ a.req = m.req
                     /\ a.what = "conflict" => m.stmts[1] \in Effects
           /\ m.stmts \in Seq(Texts) /\ m.stmts # <<>>
  <2>1. PICK a : /\ down' = Append(down, a) /\ a.type # "Z" /\ a.req = m.req
                 /\ a.what = "conflict" => m.stmts[1] \in Effects
    BY <1>7
  <2>2. /\ DOMAIN down' = 1 .. k + 1 /\ down'[k + 1] = a /\ Len(down') = k + 1
        /\ \A i \in 1 .. k : down'[i] = down[i]
    BY <1>6, <2>1, ZenonT(30)
  <2>3. \A i \in DOMAIN up : DrawsReady(up'[i]) <=> DrawsReady(up[i])
    BY <1>7 DEF DrawsReady
  <2>4. Closed'
    <3>1. n \in DOMAIN up /\ up' # <<>>
      BY <1>4, <1>7
    <3> QED  BY <1>0, <1>1, <1>2, <1>7, <2>3, <3>1 DEF Closed, n
  <2>5. Unrun'
    <3> SUFFICES ASSUME Refusing PROVE Unrun'
      BY <1>2 DEF Unrun
    <3>1. \A l \in DOMAIN m.stmts : m.stmts[l] \notin Effects
      BY <1>4, <1>5, <1>7
    <3>2. /\ 1 \in DOMAIN m.stmts
          /\ \A l \in DOMAIN up'[1].stmts :
               l + 1 \in DOMAIN m.stmts /\ up'[1].stmts[l] = m.stmts[l + 1]
      <4>1. 1 \in DOMAIN m.stmts
        BY <1>7
      <4>2. CASE up'[1].stmts = <<>>
        BY <4>1, <4>2
      <4>3. ASSUME NEW q \in Seq(Texts), q # <<>>
            PROVE  \A l \in DOMAIN Tail(q) : l + 1 \in DOMAIN q /\ Tail(q)[l] = q[l + 1]
        BY <4>3
      <4> QED  BY <1>7, <4>1, <4>2, <4>3, ZenonT(30)
    <3>3. a.what # "conflict" /\ \A l \in DOMAIN up'[1].stmts : up'[1].stmts[l] \notin Effects
      BY <2>1, <3>1, <3>2
    <3>4. \A i \in DOMAIN down' : down'[i].what # "conflict"
      BY <1>4, <1>5, <2>2, <3>3
    <3>5. \A i \in DOMAIN up' :
            /\ up'[i].type # "E"
            /\ up'[i].type = "Q" => \A l \in DOMAIN up'[i].stmts : up'[i].stmts[l] \notin Effects
      BY <1>5, <1>7, <3>3
    <3> QED  BY <1>0, <1>1, <3>4, <3>5 DEF Unrun
  <2>6. OwnsThrough => OwnsThrough'
    <3> SUFFICES ASSUME OwnsThrough PROVE OwnsThrough'
      OBVIOUS
    <3>1. (\A j \in DOMAIN down : down[j].type # "Z") => m.req = 0
      BY <1>4 DEF OwnsThrough
    <3>2. ASSUME NEW i \in DOMAIN down', \A j \in 1 .. i - 1 : down'[j].type # "Z"
          PROVE  down'[i].req = 0
      <4>1. CASE i = k + 1
        BY <1>4, <2>1, <2>2, <3>1, <3>2, <4>1
      <4>2. CASE i # k + 1
        <5>1. i \in 1 .. k /\ \A j \in 1 .. i - 1 : j \in 1 .. k
          BY <1>4, <2>2, <4>2
        <5> QED  BY <1>4, <2>2, <3>2, <5>1 DEF OwnsThrough
      <4> QED  BY <4>1, <4>2
    <3>3. ASSUME \A j \in DOMAIN down' : down'[j].type # "Z", NEW i \in DOMAIN up',
                 \A j \in 1 .. i - 1 : ~DrawsReady(up'[j])
          PROVE  up'[i].req = 0
      <4>1. \A j \in DOMAIN down : down[j].type # "Z"
        BY <1>4, <2>2, <3>3
      <4>2. \A j \in 1 .. i - 1 : j \in DOMAIN up
        BY <1>4, <1>7
      <4> QED  BY <1>7, <2>3, <3>3, <4>1, <4>2, ZenonT(30) DEF OwnsThrough
    <3> QED  BY <3>2, <3>3 DEF OwnsThrough
  <2>7. Owned'
    BY <1>0, <1>1, <2>6 DEF Owned
  <2> QED  BY <1>2, <1>3, <2>4, <2>5, <2>7 DEF Served
<1>8. CASE /\ up' = Tail(up)
           /\ \/ down' = down /\ ~DrawsReady(m)
              \/ \E a : /\ down' = Append(down, a) /\ a.req = m.req
                        /\ a.type = "Z" <=> DrawsReady(m)
                        /\ a.what = "conflict" => m.type = "E"
  <2>1. /\ DOMAIN up' = 1 .. n - 1 /\ Len(up') = n - 1 /\ up' \in Seq(Messages)
        /\ \A i \in 1 .. n - 1 : up'[i] = up[i + 1] /\ i + 1 \in DOMAIN up
    BY <1>0, <1>4, <1>8 DEF n
  <2>2. up' # <<>> => n - 1 \in 1 .. n - 1
    BY <1>4, <2>1
  <2>3. Closed'
    <3> SUFFICES ASSUME ~Forwarding \/ Deferring PROVE Closed'
      BY <1>2 DEF Closed
    <3>0. DrawsReady(up[n])
      BY <1>0, <1>1 DEF Closed, n
    <3>1. up' # <<>> => DrawsReady(up'[Len(up')])
      BY <1>4, <2>1, <2>2, <3>0
    <3>2. ASSUME up' = <<>> PROVE down'[Len(down')].type = "Z"
      <4>1. n = 1
        BY <1>4, <2>1, <3>2
      <4>2. DrawsReady(m)
        BY <3>0, <4>1
      <4>3. PICK a : down' = Append(down, a) /\ a.type = "Z"
        BY <1>8, <4>2
      <4> QED  BY <1>6, <4>3
    <3> QED  BY <3>1, <3>2 DEF Closed
  <2>4. Unrun'
    <3> SUFFICES ASSUME Refusing PROVE Unrun'
      BY <1>2 DEF Unrun
    <3>1. \A i \in DOMAIN up' :
            /\ up'[i].type # "E"
            /\ up'[i].type = "Q" => \A l \in DOMAIN up'[i].stmts : up'[i].stmts[l] \notin Effects
      BY <1>5, <2>1
    <3>2. \A i \in DOMAIN down' : down'[i].what # "conflict"
      <4>1. CASE down' = down
        BY <1>5, <4>1
      <4>2. ASSUME NEW a, down' = Append(down, a), a.what # "conflict"
            PROVE  \A i \in DOMAIN down' : down'[i].what # "conflict"
        BY <1>4, <1>5, <1>6, <4>2
      <4> QED  BY <1>4, <1>5, <1>8, <4>1, <4>2
    <3> QED  BY <1>0, <1>1, <3>1, <3>2 DEF Unrun
  <2>5. OwnsThrough => OwnsThrough'
    <3> SUFFICES ASSUME OwnsThrough PROVE OwnsThrough'
      OBVIOUS
    <3>1. (\A j \in DOMAIN down : down[j].type # "Z") => m.req = 0
      BY <1>4 DEF OwnsThrough
    <3>2. ASSUME NEW i \in DOMAIN down', \A j \in 1 .. i - 1 : down'[j].type # "Z"
          PROVE  down'[i].req = 0
      <4>1. CASE down' = down
        BY <3>2, <4>1 DEF OwnsThrough
      <4>2. CASE down' # down
        <5>1. PICK a : down' = Append(down, a) /\ a.req = m.req
          BY <1>8, <4>2
        <5>2. /\ DOMAIN down' = 1 .. k + 1 /\ down'[k + 1] = a
              /\ \A j \in 1 .. k : down'[j] = down[j]
          BY <1>6, <5>1, ZenonT(30)
        <5>3. CASE i = k + 1
          BY <1>4, <3>1, <3>2, <5>1, <5>2, <5>3
        <5>4. CASE i # k + 1
          <6>1. i \in 1 .. k /\ \A j \in 1 .. i - 1 : j \in 1 .. k
            BY <1>4, <5>2, <5>4
          <6> QED  BY <1>4, <3>2, <5>2, <6>1 DEF OwnsThrough
        <5> QED  BY <5>3, <5>4
      <4> QED  BY <4>1, <4>2
    <3>3. ASSUME \A j \in DOMAIN down' : down'[j].type # "Z", NEW i \in DOMAIN up',
                 \A j \in 1 .. i - 1 : ~DrawsReady(up'[j])
          PROVE  up'[i].req = 0
      <4>1. ~DrawsReady(m) /\ \A j \in DOMAIN down : down[j].type # "Z"
        <5>1. CASE down' = down /\ ~DrawsReady(m)
          BY <3>3, <5>1
        <5>2. ASSUME NEW a, down' = Append(down, a), a.type = "Z" <=> DrawsReady(m)
              PROVE  ~DrawsReady(m) /\ \A j \in DOMAIN down : down[j].type # "Z"
          <6>1. /\ DOMAIN down' = 1 .. k + 1 /\ down'[k + 1] = a /\ k + 1 \in 1 .. k + 1
                /\ \A j \in 1 .. k : down'[j] = down[j] /\ j \in 1 .. k + 1
            BY <1>4, <1>6, <5>2
          <6> QED  BY <1>4, <3>3, <5>2, <6>1
        <5> QED  BY <1>8, <5>1, <5>2
      <4>2. i \in 1 .. n - 1 /\ i + 1 \in DOMAIN up
        BY <2>1
      <4>3. ASSUME NEW j \in 1 .. (i + 1) - 1 PROVE ~DrawsReady(up[j])
        <5>1. CASE j = 1
          BY <4>1, <5>1
        <5>2. CASE j # 1
          <6>1. j - 1 \in 1 .. i - 1 /\ j - 1 \in 1 .. n - 1 /\ (j - 1) + 1 = j
            BY <1>4, <4>2, <5>2
          <6> QED  BY <2>1, <3>3, <6>1
        <5> QED  BY <5>1, <5>2
      <4> QED  BY <2>1, <4>1, <4>2, <4>3 DEF OwnsThrough
    <3> QED  BY <3>2, <3>3 DEF OwnsThrough
  <2>6. Owned'
    BY <1>0, <1>1, <2>5 DEF Owned
  <2> QED  BY <1>2, <1>3, <2>3, <2>4, <2>6 DEF Served
<1>9. \A s : s \in Texts \cup {NoStatement} => s # "conflict"
  BY DEF Texts, ClientStatements, OwnStatements, Effects, NoStatement
<1>10. CASE PgQuery
  <2>1. PICK o \in PgOutcomes(pg, Head(m.stmts)) :
          /\ down' = Append(down, PgAnswer(o, m.req))
          /\ up' = [up EXCEPT ![1].stmts = IF o.type = "E" THEN <<>> ELSE Tail(@)]
    BY <1>4, <1>10, ZenonT(30) DEF PgQuery
  <2>2. m.stmts \in Seq(Texts) /\ m.stmts # <<>> /\ m.type = "Q" /\ Head(m.stmts) = m.stmts[1]
        /\ Head(m.stmts) \in Texts
    BY <1>4, <1>10 DEF PgQuery, Messages
  <2>3. /\ PgAnswer(o, m.req).type # "Z" /\ PgAnswer(o, m.req).req = m.req
        /\ PgAnswer(o, m.req).what = "conflict" => m.stmts[1] \in Effects
    BY <1>0, <1>9, <2>1, <2>2, OutcomeType, RefusedLock DEF PgAnswer
  <2> DEFINE left == [m EXCEPT !.stmts = IF o.type = "E" THEN <<>> ELSE Tail(@)]
  <2>4. /\ left.type = m.type /\ left.req = m.req /\ left.stmts \in {<<>>, Tail(m.stmts)}
    BY <1>4 DEF Messages
  <2>5. up' = [up EXCEPT ![1] = left]
    BY <1>4, <2>1
  <2> HIDE DEF left
  <2>6. DOMAIN up' = DOMAIN up /\ Len(up') = n /\ up'[1] = left
        /\ \A i \in DOMAIN up : i # 1 => up'[i] = up[i]
    BY <1>0, <1>4, <2>5 DEF n
  <2>7. \A i \in DOMAIN up : up'[i].type = up[i].type /\ up'[i].req = up[i].req
    BY <2>4, <2>6
  <2>8. up'[1].stmts \in {<<>>, Tail(m.stmts)}
    BY <2>4, <2>6
  <2>9. \E a : /\ down' = Append(down, a) /\ a.type # "Z" /\ a.req = m.req
               /\ a.what = "conflict" => m.stmts[1] \in Effects
    BY <2>1, <2>3
  <2> HIDE DEF m
  <2> QED  BY <1>7, <2>2, <2>6, <2>7, <2>8, <2>9, Zenon
<1>11. CASE PgReady
  <2>1. /\ DrawsReady(m) /\ up' = Tail(up)
        /\ down' = Append(down, Answer("Z", pg.block, m.req))
    BY <1>4, <1>11 DEF PgReady
  <2>2. pg.block # "conflict"
    BY <1>0 DEF PgStates
  <2>3. LET a == Answer("Z", pg.block, m.req)
        IN  a.req = m.req /\ a.type = "Z" /\ a.what # "conflict"
    BY <2>2 DEF Answer
  <2> QED  BY <1>8, <2>1, <2>3
<1>12. CASE PgExtended
  <2>1. ~DrawsReady(m) /\ up' = Tail(up)
    BY <1>4, <1>12, ZenonT(30) DEF PgExtended
  <2>2. CASE down' = down
    BY <1>8, <2>1, <2>2
  <2>3. CASE PgFailExtended(m)
    <3>1. PICK code \in {"25P02", "error"} : down' = Append(down, Answer("E", code, m.req))
      BY <2>3 DEF PgFailExtended
    <3>2. LET a == Answer("E", code, m.req)
          IN  a.req = m.req /\ a.type # "Z" /\ a.what # "conflict"
      BY DEF Answer
    <3> QED  BY <1>8, <2>1, <3>1, <3>2
  <2>4. CASE m.type = "E" /\ ~pg.skip
    <3>1. PICK o \in PgOutcomes(pg, pg.portal) : down' = Append(down, PgAnswer(o, m.req))
      BY <1>4, <1>12, <2>4, ZenonT(30) DEF PgExtended
    <3>2. pg.portal \in Texts \cup {NoStatement}
      BY <1>0 DEF PgStates
    <3>3. PgAnswer(o, m.req).req = m.req /\ PgAnswer(o, m.req).type # "Z"
      BY <1>0, <3>2, OutcomeType DEF PgAnswer
    <3> QED  BY <1>8, <2>1, <2>4, <3>1, <3>3
  <2> QED  BY <1>4, <1>12, <2>2, <2>3, <2>4, ZenonT(30) DEF PgExtended
<1> QED  BY <1>10, <1>11, <1>12 DEF Upstream

-----------------------------------------------------------------------------
(* The frontend serves the request.                                        *)

\* What the frontend appends while a hidden exchange is open comes after the
\* exchange's ReadyForQuery.
LEMMA OwnsAppend ==
  ASSUME TypeOK, Accounted, OwnsThrough, st.pendingExchanges # 0,
         NEW m, up' = Append(up, m), down' = down
  PROVE  OwnsThrough'
<1> DEFINE n == Len(up)
<1>1. /\ n \in Nat /\ DOMAIN up = 1 .. n /\ DOMAIN up' = 1 .. n + 1
      /\ \A i \in 1 .. n : up'[i] = up[i]
  BY DEF TypeOK
<1> HIDE DEF n
<1>2. ASSUME \A j \in DOMAIN down : down[j].type # "Z", NEW i \in DOMAIN up',
             \A j \in 1 .. i - 1 : ~DrawsReady(up'[j])
      PROVE  up'[i].req = 0
  <2>1. PICK l \in DOMAIN up : DrawsReady(up[l])
    BY <1>2 DEF Accounted
  <2>2. ~(l \in 1 .. i - 1)
    BY <1>1, <1>2, <2>1
  <2>3. i \in DOMAIN up /\ \A j \in 1 .. i - 1 : j \in DOMAIN up
    BY <1>1, <2>1, <2>2
  <2>4. up'[i] = up[i] /\ \A j \in 1 .. i - 1 : ~DrawsReady(up[j])
    BY <1>1, <1>2, <2>3
  <2> QED  BY <1>2, <2>3, <2>4 DEF OwnsThrough
<1> QED  BY <1>2 DEF OwnsThrough

\* What the frontend writes for the client comes after the hidden exchange that
\* is open, and does not become part of it.
LEMMA FrontendWrites ==
  ASSUME TypeOK, Accounted, Served, Forwarding,
         st'.hidden = st.hidden, be' = be, down' = down,
         NEW m, up' = Append(up, m)
  PROVE  Owned'
<1>1. Balance /\ Apart /\ Owned
  BY DEF Served
<1>2. st.pendingExchanges \in Nat
  BY DEF TypeOK, Structs
<1>3. ASSUME st.hidden # None, be.pc = "read" \/ (be.pc = "hidden" /\ be.msg.type # "Z")
      PROVE  OwnsThrough'
  <2>1. Saving /\ ~HasReady /\ be.pc # "unhide"
    BY <1>1, <1>3 DEF Apart, Saving, Repairing, HasReady
  <2>2. Expected \in {1, 2}
    BY <2>1 DEF Expected
  <2>3. st.pendingExchanges # 0
    BY <1>1, <1>2, <2>1, <2>2 DEF Balance
  <2>4. OwnsThrough
    BY <1>1, <1>3 DEF Owned
  <2> QED  BY <2>3, <2>4, OwnsAppend
<1> QED  BY <1>1, <1>3 DEF Owned

\* A step of a handler that writes nothing upstream.
LEMMA MoveServed ==
  ASSUME TypeOK, Served, UNCHANGED <<fromClient, be, up, down>>,
         fe.pc \in {"handle", "count", "ends", "reset", "arm", "inFlight"},
         fe'.pc \in {"complete", "beginFailure", "count", "ends", "reset", "arm", "savepoint",
                     "inFlight", "forward"},
         fe'.msg = fe.msg, fe.pc = "inFlight" => fe'.pc = "forward",
         fe'.pc = "savepoint" => ~st.extendedBatchOpen,
         fe'.pc \in {"complete", "beginFailure"} => fe.msg.type = "Q",
         fe'.pc = "beginFailure" => fe'.failure.swallow = 1,
         st'.hidden = st.hidden, st'.failure = st.failure, st'.failureRFQs = st.failureRFQs,
         st'.pendingFailure = st.pendingFailure, st'.extendedBatchOpen = st.extendedBatchOpen,
         st'.pendingExchanges = st.pendingExchanges,
         st'.occRepair \in {st.occRepair, None}, st'.skipSync \in {st.skipSync, FALSE}
  PROVE  Served'
<1>0. Unread /\ Handling /\ Unsent /\ Balance /\ Apart /\ Closed /\ Unrun /\ Owned
  BY DEF Served
<1>1. fe.msg.type \in {"Q", "P", "B"} /\ ~st.skipSync /\ st.pendingFailure = None
  BY <1>0 DEF Handling
<1>2. Forwarding /\ Forwarding' /\ ~Deferring /\ ~Deferring' /\ Refusing
  BY <1>1 DEF Forwarding, Deferring, Refusing
<1>3. /\ Saving' = Saving /\ Repairing' = Repairing /\ Ending' = Ending /\ HasReady' = HasReady
  BY DEF Saving, Repairing, Ending, HasReady
<1>4. Unread'
  BY <1>0 DEF Unread
<1>5. Handling'
  BY <1>0, <1>1, <1>2, ZenonT(30) DEF Handling
<1>6. Unsent'
  BY <1>0, <1>2 DEF Unsent
<1>7. Balance'
  BY <1>0, <1>2, <1>3 DEF Balance, Expected
<1>8. Apart'
  BY <1>0, <1>2, <1>3 DEF Apart
<1>9. Closed'
  BY <1>2 DEF Closed
<1>10. Unrun'
  BY <1>0, <1>2 DEF Unrun
<1>11. Owned'
  BY <1>0 DEF Owned, OwnsThrough
<1> QED  BY <1>4, <1>5, <1>6, <1>7, <1>8, <1>9, <1>10, <1>11 DEF Served

\* A Parse or Bind is refused: what follows is dropped up to the Sync.
LEMMA RefusalServed ==
  ASSUME TypeOK, Served, UNCHANGED <<fromClient, be, up, down>>,
         fe.pc \in {"handle", "ends"}, fe.msg.type \in {"P", "B"}, fe'.pc = "read",
         st'.skipSync = TRUE, st'.extendedBatchOpen = TRUE,
         st'.pendingFailure # None => st'.pendingFailure.swallow = 2,
         st'.hidden = st.hidden, st'.failure = st.failure, st'.failureRFQs = st.failureRFQs,
         st'.pendingExchanges = st.pendingExchanges, st'.occRepair \in {st.occRepair, None}
  PROVE  Served'
<1>0. Unread /\ Handling /\ Unsent /\ Balance /\ Apart /\ Closed /\ Unrun /\ Owned
  BY DEF Served
<1>1. fromClient # <<>>
  BY <1>0 DEF Unread
<1>2. Forwarding /\ Forwarding' /\ ~Deferring /\ ~Deferring' /\ Refusing
  BY <1>1 DEF Forwarding, Deferring, Refusing
<1>3. /\ Saving' = Saving /\ Repairing' = Repairing /\ Ending' = Ending /\ HasReady' = HasReady
  BY DEF Saving, Repairing, Ending, HasReady
<1>4. Unread'
  BY <1>0 DEF Unread
<1>5. Handling'
  BY <1>2 DEF Handling
<1>6. Unsent'
  BY DEF Unsent
<1>7. Balance'
  BY <1>0, <1>2, <1>3 DEF Balance, Expected
<1>8. Apart'
  BY <1>0, <1>2, <1>3 DEF Apart
<1>9. Closed'
  BY <1>2 DEF Closed
<1>10. Unrun'
  BY <1>0, <1>2 DEF Unrun
<1>11. Owned'
  BY <1>0 DEF Owned, OwnsThrough
<1> QED  BY <1>4, <1>5, <1>6, <1>7, <1>8, <1>9, <1>10, <1>11 DEF Served

\* handleSync closes the request upstream.
LEMMA SyncServed ==
  ASSUME TypeOK, Accounted, Served, HandleSync
  PROVE  Served'
<1>0. Unread /\ Handling /\ Unsent /\ Balance /\ Apart /\ Closed /\ Unrun /\ Owned
  BY DEF Served
<1>1. /\ fe.pc = "sync" /\ fe.msg.type = "S" /\ fe.msg \in Messages
      /\ st.pendingExchanges \in Nat /\ up \in Seq(Messages)
  BY SentIsMessage DEF HandleSync, TypeOK, FrontendOK, Structs
<1>2. /\ UNCHANGED <<fromClient, be, down>> /\ up' = Append(up, fe.msg)
      /\ fe' = (IF st.pendingFailure = None
                THEN [fe EXCEPT !.pc = "read", !.msg = None, !.stmts = <<>>, !.next = "read",
                                !.failure = None]
                ELSE [fe EXCEPT !.pc = "beginFailure", !.failure = st.pendingFailure])
  BY DEF HandleSync, FrontendDone
<1>3. /\ st'.pendingFailure = None /\ st'.skipSync = FALSE /\ st'.extendedBatchOpen = FALSE
      /\ st'.pendingExchanges = st.pendingExchanges + 1
      /\ st'.hidden = st.hidden /\ st'.failure = st.failure
      /\ st'.failureRFQs = st.failureRFQs /\ st'.occRepair = st.occRepair
  BY ZenonT(30) DEF HandleSync, noteBatchState, beginExchange, TypeOK, Structs
<1>4. fromClient = <<>>
  BY <1>0, <1>1 DEF Unread
<1>5. IF st.pendingFailure = None THEN fe'.pc = "read"
      ELSE fe'.pc = "beginFailure" /\ fe'.msg = fe.msg /\ fe'.failure = st.pendingFailure
  BY <1>2 DEF TypeOK, FrontendOK
<1>6. Forwarding /\ ~Deferring
  BY <1>1 DEF Forwarding, Deferring
<1>7. IF st.pendingFailure = None THEN ~Forwarding' /\ ~Deferring' ELSE Forwarding' /\ Deferring'
  BY <1>1, <1>2, <1>4, <1>5 DEF Forwarding, Deferring
<1>8. /\ Saving' = Saving /\ Repairing' = Repairing /\ Ending' = Ending /\ HasReady' = HasReady
  BY <1>2, <1>3 DEF Saving, Repairing, Ending, HasReady
<1>9. /\ Len(up') = Len(up) + 1 /\ up'[Len(up')] = fe.msg /\ DOMAIN up' = 1 .. Len(up) + 1
      /\ \A i \in DOMAIN up' : up'[i] = fe.msg \/ (i \in DOMAIN up /\ up'[i] = up[i])
      /\ up' # <<>>
  BY <1>1, <1>2
<1>10. Unread'
  BY <1>1, <1>2, <1>4, <1>5 DEF Unread
<1>11. Handling'
  BY <1>0, <1>1, <1>2, <1>3, <1>5 DEF Handling
<1>12. Unsent'
  BY <1>7 DEF Unsent
<1>13. Balance'
  <2>1. st.failure = None /\ ~Ending /\ ~Repairing
    BY <1>0, <1>6 DEF Apart
  <2> QED  BY <1>0, <1>1, <1>2, <1>3, <1>6, <1>7, <1>8, <2>1 DEF Balance, Expected
<1>14. Apart'
  BY <1>0, <1>2, <1>3, <1>6, <1>8 DEF Apart
<1>15. Closed'
  BY <1>1, <1>9 DEF Closed, DrawsReady
<1>16. Unrun'
  <2> SUFFICES ASSUME Refusing' PROVE Unrun'
    BY DEF Unrun
  <2>1. st.failure = None
    BY <1>0, <1>6 DEF Apart
  <2>2. st.pendingFailure # None
    BY <1>2, <1>3, <1>4, <1>5, <2>1 DEF Refusing
  <2>3. Refusing
    BY <1>0, <2>2 DEF Handling, Refusing
  <2> QED  BY <1>0, <1>1, <1>2, <1>3, <1>9, <2>3 DEF Unrun
<1>17. Owned'
  BY <1>2, <1>3, <1>6, FrontendWrites
<1> QED  BY <1>10, <1>11, <1>12, <1>13, <1>14, <1>15, <1>16, <1>17 DEF Served

\* beginFailure sends the statement that fails the transaction.
LEMMA BeginServed ==
  ASSUME TypeOK, Accounted, Served, BeginFailure
  PROVE  Served'
<1>0. Unread /\ Handling /\ Unsent /\ Balance /\ Apart /\ Closed /\ Unrun /\ Owned
  BY DEF Served
<1> DEFINE m == OwnQuery(<<fe.failure.statement>>)
<1>1. /\ fe.pc = "beginFailure" /\ fe.failure \in Failures /\ fe.failure # None
      /\ fe.msg.type \in {"Q", "S"} /\ fe.failure.swallow = IF fe.msg.type = "S" THEN 2 ELSE 1
      /\ st.pendingExchanges \in Nat /\ up \in Seq(Messages) /\ fe.msg \in Sent
  <2>1. fe.failure \in Failures => fe.failure # None
    BY NilAssumption
  <2> QED  BY <1>0, <2>1 DEF BeginFailure, TypeOK, FrontendOK, Structs, Handling
<1>2. /\ UNCHANGED <<fromClient, be, down>> /\ up' = Append(up, m) /\ fe'.pc = "read"
  BY DEF BeginFailure, FrontendDone, TypeOK, FrontendOK
<1>3. /\ st'.pendingFailure = st.pendingFailure /\ st'.skipSync = st.skipSync
      /\ st'.extendedBatchOpen = FALSE
      /\ st'.pendingExchanges = st.pendingExchanges + 1
      /\ st'.hidden = st.hidden /\ st'.failure = fe.failure
      /\ st'.failureRFQs = 0 /\ st'.occRepair = st.occRepair
  BY <1>1, ZenonT(30) DEF BeginFailure, noteBatchState, beginExchange, WithFailure, TypeOK, Structs
<1>a. /\ m \in Messages /\ m.type = "Q" /\ m.stmts = <<fe.failure.statement>>
      /\ fe.failure.statement \notin Effects
  <2>1. fe.failure.statement \in {"abort", "rollback"}
    BY <1>1 DEF Failures
  <2>2. {"abort", "rollback"} \subseteq Texts
    BY DEF Texts, ClientStatements, OwnStatements
  <2>3. m \in Messages
    BY <2>1, <2>2, OwnQueryType
  <2>4. m.type = "Q" /\ m.stmts = <<fe.failure.statement>>
    BY DEF OwnQuery, Message
  <2>5. fe.failure.statement \notin Effects
    BY <2>1 DEF Effects
  <2> QED  BY <2>3, <2>4, <2>5
<1> HIDE DEF m
<1>4. fromClient = <<>> /\ ~st.skipSync /\ st.pendingFailure = None
  BY <1>0, <1>1 DEF Unread, Handling
<1>6. Forwarding /\ Refusing /\ (Deferring <=> fe.msg.type = "S")
  BY <1>1 DEF Forwarding, Deferring, Refusing
<1>7. ~Forwarding' /\ ~Deferring'
  BY <1>2, <1>4 DEF Forwarding, Deferring
<1>8. /\ Saving' = Saving /\ Repairing' = Repairing /\ Ending' = Ending /\ HasReady' = HasReady
  BY <1>2, <1>3 DEF Saving, Repairing, Ending, HasReady
<1>9. /\ Len(up') = Len(up) + 1 /\ up'[Len(up')] = m /\ DOMAIN up' = 1 .. Len(up) + 1
      /\ \A i \in DOMAIN up' : up'[i] = m \/ (i \in DOMAIN up /\ up'[i] = up[i])
      /\ up' # <<>>
  BY <1>1, <1>2, <1>a
<1>10. Unread'
  BY <1>2, <1>4 DEF Unread
<1>11. Handling'
  BY <1>2, <1>3, <1>4 DEF Handling
<1>12. Unsent'
  BY <1>7 DEF Unsent
<1>b. st.failure = None /\ ~Ending /\ ~Repairing /\ (HasReady => be.pc = "hidden")
  BY <1>0, <1>6 DEF Apart
<1>13. Balance'
  BY <1>0, <1>1, <1>2, <1>3, <1>6, <1>7, <1>8, <1>b DEF Balance, Expected
<1>14. Apart'
  <2>1. be.pc # "intercept"
    BY <1>0, <1>6 DEF Unrun
  <2>2. be.pc \notin {"ready", "note"}
    BY <1>b DEF HasReady, TypeOK, BackendOK
  <2> QED  BY <1>0, <1>1, <1>2, <1>3, <1>7, <1>8, <1>b, <2>1, <2>2 DEF Apart
<1>15. Closed'
  BY <1>9, <1>a DEF Closed, DrawsReady
<1>16. Unrun'
  BY <1>0, <1>2, <1>3, <1>6, <1>9, <1>a DEF Unrun
<1>17. Owned'
  BY <1>2, <1>3, <1>6, FrontendWrites
<1> QED  BY <1>10, <1>11, <1>12, <1>13, <1>14, <1>15, <1>16, <1>17 DEF Served

\* The savepoint is the first of the request to be written.
LEMMA SavepointServed ==
  ASSUME TypeOK, Accounted, Served, WriteSavepoint
  PROVE  Served'
<1>0. Unread /\ Handling /\ Unsent /\ Balance /\ Apart /\ Closed /\ Unrun /\ Owned
  BY DEF Served
<1> DEFINE m == OwnQuery(<<"savepoint">>)
           h == HiddenExchange("savepoint", None)
<1>1. /\ fe.pc = "savepoint" /\ ~st.extendedBatchOpen /\ fe.msg.type \in {"Q", "P", "B"}
      /\ st.pendingExchanges \in Nat /\ fe.next \in {"inFlight", "forward"}
  BY <1>0 DEF WriteSavepoint, TypeOK, FrontendOK, Structs, Handling
<1>2. /\ UNCHANGED <<fromClient, be, down>> /\ up' = Append(up, m)
      /\ fe'.pc \in {"inFlight", "forward"} /\ fe'.msg = fe.msg
  BY <1>1 DEF WriteSavepoint, TypeOK, FrontendOK
<1>3. /\ st'.pendingFailure = st.pendingFailure /\ st'.skipSync = st.skipSync
      /\ st'.extendedBatchOpen = st.extendedBatchOpen
      /\ st'.pendingExchanges = st.pendingExchanges + 1
      /\ st'.hidden = h /\ st'.failure = st.failure
      /\ st'.failureRFQs = st.failureRFQs /\ st'.occRepair = st.occRepair
  BY DEF WriteSavepoint, setHidden, beginExchange, TypeOK, Structs
<1>a. m.type = "Q" /\ m.stmts = <<"savepoint">> /\ m.req = 0 /\ "savepoint" \notin Effects
  BY DEF OwnQuery, Message, Effects
<1>b. h # None /\ h.kind = "savepoint"
  <2>1. h \in [kind : {"savepoint"}, flight : {None}, failed : BOOLEAN] /\ h.kind = "savepoint"
    BY DEF HiddenExchange
  <2>2. h \in Exchanges
    BY <2>1 DEF Exchanges
  <2> QED  BY <2>1, <2>2, NilAssumption
<1> HIDE DEF m, h
<1>4. Forwarding /\ ~Deferring /\ Forwarding' /\ ~Deferring' /\ Refusing
  BY <1>1, <1>2 DEF Forwarding, Deferring, Refusing
<1>5. up = <<>> /\ down = <<>> /\ be.pc = "read" /\ st.hidden = None
  BY <1>0, <1>1, <1>4 DEF Unsent
<1>6. up' = <<m>>
  BY <1>2, <1>5
<1>7. ~st.skipSync /\ st.pendingFailure = None /\ st.failure = None
  BY <1>0, <1>1, <1>4 DEF Handling, Apart
<1>8. ~Saving /\ Saving' /\ ~Repairing' /\ ~Ending' /\ ~HasReady /\ ~HasReady'
  BY <1>2, <1>3, <1>5, <1>b DEF Saving, Repairing, Ending, HasReady
<1>10. Unread'
  BY <1>0, <1>1, <1>2 DEF Unread
<1>11. Handling'
  BY <1>0, <1>1, <1>2, <1>3, <1>4, <1>7 DEF Handling
<1>12. Unsent'
  BY <1>2 DEF Unsent
<1>13. Balance'
  BY <1>0, <1>1, <1>2, <1>3, <1>4, <1>5, <1>8 DEF Balance, Expected
<1>14. Apart'
  BY <1>2, <1>3, <1>4, <1>5, <1>7, <1>8 DEF Apart
<1>15. Closed'
  BY <1>4 DEF Closed
<1>16. Unrun'
  BY <1>0, <1>2, <1>3, <1>4, <1>6, <1>a DEF Unrun
<1>17. Owned'
  <2>1. down' = <<>> /\ be'.pc = "read"
    BY <1>2, <1>5
  <2>2. OwnsThrough'
    BY <1>6, <1>a, <2>1 DEF OwnsThrough
  <2> QED  BY <2>1, <2>2 DEF Owned
<1> QED  BY <1>10, <1>11, <1>12, <1>13, <1>14, <1>15, <1>16, <1>17 DEF Served

\* A message of the request is forwarded.
LEMMA ForwardServed ==
  ASSUME TypeOK, Accounted, Served, Forward
  PROVE  Served'
<1>0. Unread /\ Handling /\ Unsent /\ Balance /\ Apart /\ Closed /\ Unrun /\ Owned
  BY DEF Served
<1>1. /\ fe.pc = "forward" /\ fe.msg.type \in {"Q", "P", "B", "E", "C"} /\ fe.msg \in Messages
      /\ st.pendingExchanges \in Nat /\ up \in Seq(Messages)
  <2>1. fe.pc = "forward" /\ fe.msg.type # "S"
    BY <1>0 DEF Forward, Handling
  <2>2. fe.msg \in Sent
    BY <2>1 DEF TypeOK, FrontendOK
  <2>3. fe.msg.type \in {"Q", "P", "B", "E", "C"}
    BY <2>1, <2>2 DEF Sent
  <2>4. st.pendingExchanges \in Nat /\ up \in Seq(Messages)
    BY DEF TypeOK, Structs
  <2> QED  BY <2>1, <2>2, <2>3, <2>4, SentIsMessage
<1>2. UNCHANGED <<fromClient, be, down>> /\ up' = Append(up, fe.msg) /\ fe'.pc = "read"
  BY DEF Forward, FrontendDone, TypeOK, FrontendOK
<1>3. /\ st'.pendingFailure = st.pendingFailure /\ st'.skipSync = st.skipSync
      /\ st'.extendedBatchOpen = (fe.msg.type # "Q")
      /\ st'.pendingExchanges = st.pendingExchanges + (IF fe.msg.type = "Q" THEN 1 ELSE 0)
      /\ st'.hidden = st.hidden /\ st'.failure = st.failure
      /\ st'.failureRFQs = st.failureRFQs /\ st'.occRepair = st.occRepair
  <2> DEFINE n == noteBatchState(st, fe.msg.type)
             k == Remembered(n, fe.msg, fe.stmts)
             same(a, b) ==
               /\ b.pendingFailure = a.pendingFailure /\ b.skipSync = a.skipSync
               /\ b.hidden = a.hidden /\ b.failure = a.failure
               /\ b.failureRFQs = a.failureRFQs /\ b.occRepair = a.occRepair
  <2>1. /\ n \in Structs /\ same(st, n) /\ n.extendedBatchOpen = (fe.msg.type # "Q")
        /\ n.pendingExchanges = st.pendingExchanges
    BY <1>1, ZenonT(30) DEF noteBatchState, TypeOK, Structs
  <2> HIDE DEF n
  <2>2. /\ k \in Structs /\ same(n, k) /\ k.extendedBatchOpen = n.extendedBatchOpen
        /\ k.pendingExchanges = n.pendingExchanges
    <3>1. fe.msg \in Sent /\ (fe.msg.type = "P" => fe.stmts[1] \in ClientStatements)
      BY <1>1 DEF TypeOK, FrontendOK, Sent
    <3>2. k \in Structs
      BY <2>1, <3>1, RememberedType
    <3> QED  BY <2>1, <3>2 DEF Remembered, Structs
  <2> HIDE DEF k
  <2>3. st' = IF fe.msg.type = "Q" THEN beginExchange(k) ELSE k
    BY <1>1 DEF Forward, DrawsReady, n, k
  <2>4. /\ same(k, beginExchange(k)) /\ beginExchange(k).extendedBatchOpen = k.extendedBatchOpen
        /\ beginExchange(k).pendingExchanges = k.pendingExchanges + 1
    BY <2>2 DEF beginExchange, Structs
  <2>5. same(k, st')
        /\ st'.extendedBatchOpen = k.extendedBatchOpen
        /\ st'.pendingExchanges = k.pendingExchanges + (IF fe.msg.type = "Q" THEN 1 ELSE 0)
    BY <1>1, <2>1, <2>2, <2>3, <2>4
  <2> QED  BY <2>1, <2>2, <2>5
<1>4. Forwarding /\ ~Deferring
  BY <1>1 DEF Forwarding, Deferring
<1>5. /\ fe.msg.type = "Q" <=> fromClient = <<>>
      /\ \A i \in DOMAIN fromClient : fromClient[i].type # "Q"
  BY <1>0, <1>1 DEF Unread
<1>6. ~Deferring' /\ (Forwarding' <=> fe.msg.type # "Q")
  BY <1>2, <1>5 DEF Forwarding, Deferring
<1>7. /\ ~st.skipSync /\ st.pendingFailure = None /\ st.failure = None /\ ~Ending /\ ~Repairing
      /\ HasReady => be.pc = "hidden" /\ st.hidden # None
  BY <1>0, <1>1, <1>4 DEF Handling, Apart
<1>8. /\ Saving' = Saving /\ Repairing' = Repairing /\ Ending' = Ending /\ HasReady' = HasReady
  BY <1>2, <1>3 DEF Saving, Repairing, Ending, HasReady
<1>9. /\ Len(up') = Len(up) + 1 /\ up'[Len(up')] = fe.msg /\ DOMAIN up' = 1 .. Len(up) + 1
      /\ \A i \in DOMAIN up' : up'[i] = fe.msg \/ (i \in DOMAIN up /\ up'[i] = up[i])
      /\ up' # <<>>
  BY <1>1, <1>2
<1>10. Unread'
  BY <1>0, <1>2, <1>5 DEF Unread
<1>11. Handling'
  BY <1>2, <1>3, <1>6, <1>7, ZenonT(30) DEF Handling
<1>12. Unsent'
  BY <1>3, <1>6, ZenonT(30) DEF Unsent
<1>13. Balance'
  BY <1>0, <1>1, <1>2, <1>3, <1>4, <1>6, <1>7, <1>8 DEF Balance, Expected
<1>14. Apart'
  BY <1>0, <1>2, <1>3, <1>4, <1>7, <1>8 DEF Apart
<1>15. Closed'
  BY <1>6, <1>9 DEF Closed, DrawsReady
<1>16. Unrun'
  <2> SUFFICES ASSUME Refusing' PROVE Unrun'
    BY DEF Unrun
  <2>1. \E i \in DOMAIN fromClient : fromClient[i].type \in {"P", "B"}
    BY <1>2, <1>3, <1>5, <1>7 DEF Refusing
  <2>2. Refusing /\ fe.msg.type \notin {"E", "Q"}
    BY <1>0, <1>1, <1>5, <2>1 DEF Refusing, Unread
  <2> QED  BY <1>0, <1>1, <1>2, <1>3, <1>9, <2>2 DEF Unrun
<1>17. Owned'
  BY <1>2, <1>3, <1>4, FrontendWrites
<1> QED  BY <1>10, <1>11, <1>12, <1>13, <1>14, <1>15, <1>16, <1>17 DEF Served

\* The frontend reads the next message of the request.
LEMMA ReadServed ==
  ASSUME TypeOK, Served, FrontendRead
  PROVE  Served'
<1>0. Unread /\ Handling /\ Unsent /\ Balance /\ Apart /\ Closed /\ Unrun /\ Owned
  BY DEF Served
<1> DEFINE m == Head(fromClient)
<1>1. /\ fe.pc = "read" /\ fromClient # <<>> /\ fromClient' = Tail(fromClient)
      /\ UNCHANGED <<st, be, up, down>> /\ fromClient \in Seq(Sent)
  BY DEF FrontendRead, TypeOK
<1>a. DOMAIN fe = {"pc", "msg", "stmts", "next", "failure"}
  BY DEF TypeOK, FrontendOK
<1>2. /\ fe'.msg = m
      /\ fe'.pc \in {"sync", "read", "handle", "forward"}
      /\ fe'.pc = "sync" <=> m.type = "S"
      /\ fe'.pc = "read" <=> m.type # "S" /\ st.skipSync
      /\ fe'.pc = "handle" => m.type \in {"Q", "P", "B"}
  <2> DEFINE stmts == IF m.type = "B" THEN <<st.statements[m.name]>> ELSE m.stmts
             pc    == CASE m.type = "S" -> "sync"
                        [] m.type # "S" /\ st.skipSync -> "read"
                        [] ~st.skipSync /\ m.type \in {"Q", "P"} -> "handle"
                        [] ~st.skipSync /\ m.type = "B" /\ stmts # <<NoStatement>> -> "handle"
                        [] OTHER -> "forward"
  <2>1. fe' = [fe EXCEPT !.msg = m, !.stmts = stmts, !.pc = pc]
    BY DEF FrontendRead
  <2> HIDE DEF m, stmts
  <2>2. /\ pc \in {"sync", "read", "handle", "forward"}
        /\ pc = "sync" <=> m.type = "S"
        /\ pc = "read" <=> m.type # "S" /\ st.skipSync
        /\ pc = "handle" => m.type \in {"Q", "P", "B"}
    OBVIOUS
  <2> HIDE DEF pc
  <2>3. fe'.msg = m /\ fe'.pc = pc
    BY <1>a, <2>1
  <2> QED  BY <2>2, <2>3
<1>3. /\ m = fromClient[1] /\ 1 \in DOMAIN fromClient
      /\ Len(fromClient') = Len(fromClient) - 1
      /\ \A i \in DOMAIN fromClient' :
           i + 1 \in DOMAIN fromClient /\ fromClient'[i] = fromClient[i + 1] /\ i > 0
      /\ fromClient' = <<>> <=> Len(fromClient) = 1
      /\ DOMAIN fromClient' = 1 .. Len(fromClient) - 1 /\ Len(fromClient) \in Nat
  <2>1. /\ m = fromClient[1] /\ 1 \in DOMAIN fromClient /\ Len(fromClient) \in Nat
        /\ DOMAIN fromClient = 1 .. Len(fromClient)
    BY <1>1
  <2>2. /\ Len(fromClient') = Len(fromClient) - 1 /\ fromClient' \in Seq(Sent)
        /\ DOMAIN fromClient' = 1 .. Len(fromClient) - 1
    BY <1>1
  <2>3. \A i \in 1 .. Len(fromClient) - 1 : fromClient'[i] = fromClient[i + 1]
    BY <1>1
  <2>4. fromClient' = <<>> <=> Len(fromClient) = 1
    BY <2>1, <2>2
  <2> QED  BY <2>1, <2>2, <2>3, <2>4
<1> HIDE DEF m
<1>4. m.type \in {"Q", "S"} <=> fromClient' = <<>>
  BY <1>0, <1>3 DEF Unread
<1>5. m.type = "Q" => ~st.extendedBatchOpen /\ ~st.skipSync
  BY <1>0, <1>3 DEF Unread
<1>6. Forwarding /\ ~Deferring /\ Forwarding' /\ ~Deferring'
  BY <1>1, <1>2, <1>4, <1>5 DEF Forwarding, Deferring
<1>7. /\ Saving' = Saving /\ Repairing' = Repairing /\ Ending' = Ending /\ HasReady' = HasReady
  BY <1>1 DEF Saving, Repairing, Ending, HasReady
<1>8. Unread'
  <2>1. ASSUME NEW i \in DOMAIN fromClient'
        PROVE  fromClient'[i].type \in {"Q", "S"} <=> i = Len(fromClient')
    <3>1. fromClient[i + 1].type \in {"Q", "S"} <=> i + 1 = Len(fromClient)
      BY <1>0, <1>3 DEF Unread
    <3> QED  BY <1>3, <3>1
  <2>2. ASSUME NEW i \in DOMAIN fromClient', NEW j \in DOMAIN fromClient', i < j,
               fromClient'[i].type = "E"
        PROVE  fromClient'[j].type \notin {"P", "B"}
    <3>1. i + 1 < j + 1
      BY <1>3, <2>2
    <3> QED  BY <1>0, <1>3, <2>2, <3>1 DEF Unread
  <2>3. ASSUME NEW i \in DOMAIN fromClient' PROVE fromClient'[i].type # "Q"
    <3>1. i + 1 # 1
      BY <1>3
    <3> QED  BY <1>0, <1>3, <3>1 DEF Unread
  <2>4. ASSUME m.type = "E", NEW j \in DOMAIN fromClient'
        PROVE  fromClient'[j].type \notin {"P", "B"}
    <3>1. 1 < j + 1
      BY <1>3
    <3> QED  BY <1>0, <1>3, <2>4, <3>1 DEF Unread
  <2> QED  BY <1>2, <1>4, <2>1, <2>2, <2>3, <2>4 DEF Unread
<1>9. Handling'
  BY <1>0, <1>1, <1>2, <1>5, <1>6 DEF Handling
<1>10. Unsent'
  BY <1>0, <1>1, <1>6 DEF Unsent
<1>11. Balance'
  BY <1>0, <1>1, <1>6, <1>7 DEF Balance, Expected
<1>12. Apart'
  BY <1>0, <1>1, <1>6, <1>7 DEF Apart
<1>13. Closed'
  BY <1>6 DEF Closed
<1>14. Unrun'
  <2> SUFFICES ASSUME Refusing' PROVE Unrun'
    BY DEF Unrun
  <2>1. Refusing
    BY <1>1, <1>2, <1>3 DEF Refusing
  <2> QED  BY <1>0, <1>1, <1>2, <2>1 DEF Unrun
<1>15. Owned'
  BY <1>0, <1>1 DEF Owned, OwnsThrough
<1> QED  BY <1>8, <1>9, <1>10, <1>11, <1>12, <1>13, <1>14, <1>15 DEF Served

\* A ReadyForQuery, and nothing else, takes the oldest request off the client.
LEMMA DeliverDue ==
  ASSUME NEW c \in Clients, NEW m
  PROVE  Deliver(c, m).due = IF m.type = "Z" /\ c.due # <<>> THEN Tail(c.due) ELSE c.due
BY DEF Deliver, Clients

\* Of one request due, none is left when it is taken off.
LEMMA OneDue ==
  ASSUME TypeOK, Len(client.due) = 1
  PROVE  client.due # <<>> /\ Tail(client.due) = <<>>
<1>1. client.due \in Seq(Asked)
  BY DEF TypeOK, Clients
<1>2. client.due # <<>>
  BY <1>1
<1>3. Tail(client.due) \in Seq(Asked) /\ Len(Tail(client.due)) = 0
  BY <1>1, <1>2
<1>a. \A q \in Seq(Asked) : Len(q) = 0 => q = <<>>
  OBVIOUS
<1>4. Tail(client.due) = <<>>
  BY <1>3, <1>a, Zenon
<1> QED  BY <1>2, <1>4

\* reject leaves the request being served.
LEMMA RejectServed ==
  ASSUME TypeOK, Served, fe.pc = "handle", NEW code, Reject(code)
  PROVE  Served' /\ client'.due = client.due
<1> DEFINE left == IF fe.msg.type = "P"
                   THEN [st EXCEPT !.statements[fe.msg.name] = NoStatement] ELSE st
           noted == noteBatchState(left, fe.msg.type)
           same(s) == /\ s.hidden = st.hidden /\ s.failure = st.failure
                      /\ s.failureRFQs = st.failureRFQs
                      /\ s.pendingExchanges = st.pendingExchanges /\ s.occRepair = st.occRepair
<1>1. UNCHANGED <<fromClient, be, up, down>> /\ fe.msg.type \in {"Q", "P", "B"}
  BY DEF Reject, Served, Handling
<1>2. client' = Deliver(client, Answer("E", code, fe.msg.req))
  BY DEF Reject, writeClient
<1>3. client'.due = client.due
  <2>1. Answer("E", code, fe.msg.req).type = "E"
    BY DEF Answer
  <2> QED  BY <1>2, <2>1, DeliverDue DEF TypeOK
<1>4. CASE Extended(fe.msg)
  <2>1. /\ FrontendDone /\ fe.msg.type \in {"P", "B"}
        /\ st' = (IF tracker.inTxn THEN deferFailure(noted, Failure("abort", "E", 2, fe.msg.req))
                  ELSE [noted EXCEPT !.skipSync = TRUE])
    BY <1>4 DEF Reject, Extended
  <2>2. left \in Structs /\ same(left) /\ left.pendingFailure = st.pendingFailure
    <3>1. fe.msg \in Sent
      BY DEF TypeOK, FrontendOK
    <3>2. left \in Structs
      <4>1. st \in Structs /\ fe.msg.name \in Names
        BY <3>1 DEF TypeOK, Sent
      <4> QED  BY <4>1, NameEdit
    <3> QED  BY <3>2 DEF TypeOK, Structs
  <2> HIDE DEF left
  <2>3. /\ noted \in Structs /\ same(noted) /\ noted.pendingFailure = st.pendingFailure
        /\ noted.extendedBatchOpen = TRUE
    BY <2>1, <2>2, ZenonT(30) DEF noteBatchState, Structs
  <2> HIDE DEF noted
  <2>4. st.pendingFailure = None
    BY DEF Served, Handling
  <2>5. /\ same(st') /\ st'.skipSync = TRUE /\ st'.extendedBatchOpen = TRUE
        /\ st'.pendingFailure # None => st'.pendingFailure.swallow = 2
    BY <2>1, <2>3, <2>4 DEF deferFailure, Failure, Structs
  <2>6. fe'.pc = "read"
    BY <2>1 DEF FrontendDone, TypeOK, FrontendOK
  <2>7. Served'
    BY <1>1, <2>1, <2>5, <2>6, RefusalServed, ZenonT(30)
  <2> QED  BY <1>3, <2>7
<1>5. CASE ~Extended(fe.msg)
  <2>1. /\ UNCHANGED st /\ fe.msg.type = "Q"
        /\ fe' = (IF tracker.inTxn
                  THEN [fe EXCEPT !.pc = "beginFailure",
                                  !.failure = Failure("abort", "E", 1, fe.msg.req)]
                  ELSE [fe EXCEPT !.pc = "complete"])
    BY <1>1, <1>5 DEF Reject, Extended
  <2>2. /\ fe'.pc \in {"beginFailure", "complete"} /\ fe'.msg = fe.msg
        /\ fe'.pc = "beginFailure" => fe'.failure.swallow = 1
    BY <2>1 DEF TypeOK, FrontendOK, Failure
  <2>3. Served'
    BY <1>1, <2>1, <2>2, MoveServed
  <2> QED  BY <1>3, <2>3
<1> QED  BY <1>4, <1>5

\* establishSavepoint leaves the request being served.
LEMMA EstablishServed ==
  ASSUME TypeOK, Served, fe.pc \in {"handle", "arm"}, NEW wanted,
         NEW next \in {"inFlight", "forward"}, EstablishSavepoint(wanted, next),
         UNCHANGED <<fromClient, be, up, down>>
  PROVE  Served'
<1>1. CASE wanted /\ ~st.occSavepoint /\ HasRoom(st)
  <2>1. /\ st' = [st EXCEPT !.occSavepoint = TRUE]
        /\ fe' = [fe EXCEPT !.pc = "savepoint", !.next = next]
    BY <1>1 DEF EstablishSavepoint
  <2>2. fe'.pc = "savepoint" /\ fe'.msg = fe.msg /\ ~st.extendedBatchOpen
    BY <1>1, <2>1 DEF TypeOK, FrontendOK, HasRoom
  <2>3. /\ st'.hidden = st.hidden /\ st'.failure = st.failure /\ st'.failureRFQs = st.failureRFQs
        /\ st'.pendingFailure = st.pendingFailure /\ st'.extendedBatchOpen = st.extendedBatchOpen
        /\ st'.pendingExchanges = st.pendingExchanges
        /\ st'.occRepair = st.occRepair /\ st'.skipSync = st.skipSync
    BY <2>1 DEF TypeOK, Structs
  <2> QED  BY <2>2, <2>3, MoveServed
<1>2. CASE ~(wanted /\ ~st.occSavepoint /\ HasRoom(st))
  <2>1. UNCHANGED st /\ fe'.pc = next /\ fe'.msg = fe.msg
    BY <1>2 DEF EstablishSavepoint, TypeOK, FrontendOK
  <2> QED  BY <2>1, MoveServed
<1> QED  BY <1>1, <1>2

\* Every step of the frontend but the one that completes a refused query itself
\* leaves the request being served.
LEMMA FrontendServed ==
  ASSUME TypeOK, Accounted, Served, Frontend, ~CompleteExchange
  PROVE  Served' /\ client'.due = client.due
<1> DEFINE same(s) ==
             /\ s.hidden = st.hidden /\ s.failure = st.failure /\ s.failureRFQs = st.failureRFQs
             /\ s.pendingExchanges = st.pendingExchanges /\ s.occRepair \in {st.occRepair, None}
           kept(s) ==
             /\ same(s) /\ s.pendingFailure = st.pendingFailure
             /\ s.extendedBatchOpen = st.extendedBatchOpen /\ s.skipSync \in {st.skipSync, FALSE}
<1>0. fe.pc \in {"handle", "count", "ends", "reset", "arm", "inFlight"} =>
        fe.msg.type \in {"Q", "P", "B"}
  BY DEF Served, Handling
<1>1. \A req, code : Deliver(client, Answer("E", code, req)).due = client.due
  <2>1. \A req, code : Answer("E", code, req).type # "Z"
    BY DEF Answer
  <2> QED  BY <2>1, DeliverDue DEF TypeOK
<1>2. kept(st) /\ kept(resetOcc(st)) /\ kept(endAborted(st)) /\ kept(setInFlight(st, fe.msg, fe.stmts))
  BY DEF resetOcc, endAborted, setInFlight, TypeOK, Structs
<1>3. \A pc, next : /\ [fe EXCEPT !.pc = pc].pc = pc /\ [fe EXCEPT !.pc = pc].msg = fe.msg
                    /\ [fe EXCEPT !.pc = pc, !.next = next].pc = pc
                    /\ [fe EXCEPT !.pc = pc, !.next = next].msg = fe.msg
  BY DEF TypeOK, FrontendOK
<1>4. CASE FrontendRead
  BY <1>4, ReadServed DEF FrontendRead
<1>5. CASE HandleSync
  BY <1>5, SyncServed DEF HandleSync
<1>6. CASE BeginFailure
  BY <1>6, BeginServed DEF BeginFailure
<1>7. CASE WriteSavepoint
  BY <1>7, SavepointServed DEF WriteSavepoint
<1>8. CASE Forward
  BY <1>8, ForwardServed DEF Forward
<1>9. CASE RejectStatement
  BY <1>9, RejectServed DEF RejectStatement
<1>10. CASE RefuseBatch
  BY <1>10, RejectServed DEF RefuseBatch
<1>11. CASE ArmAdjudicator
  BY <1>11, EstablishServed, ZenonT(30) DEF ArmAdjudicator
<1>12. CASE HandleParse
  BY <1>12, EstablishServed DEF HandleParse
<1>13. CASE RejectFailed
  <2>1. client'.due = client.due
    BY <1>1, <1>13 DEF RejectFailed, writeClient
  <2>2. CASE Extended(fe.msg)
    <3>1. st' = [noteBatchState(st, fe.msg.type) EXCEPT !.skipSync = TRUE] /\ fe.pc = "handle"
          /\ FrontendDone /\ UNCHANGED <<fromClient, be, up, down>> /\ fe.msg.type \in {"P", "B"}
      BY <1>13, <2>2 DEF RejectFailed, Extended
    <3>2. /\ same(st') /\ st'.skipSync = TRUE /\ st'.extendedBatchOpen = TRUE
          /\ st'.pendingFailure = st.pendingFailure
      BY <3>1, ZenonT(30) DEF noteBatchState, TypeOK, Structs
    <3>3. fe'.pc = "read" /\ st.pendingFailure = None
      BY <3>1 DEF FrontendDone, TypeOK, FrontendOK, Served, Handling
    <3> QED  BY <2>1, <3>1, <3>2, <3>3, RefusalServed, ZenonT(30)
  <2>3. CASE ~Extended(fe.msg)
    <3>1. UNCHANGED <<fromClient, be, up, down, st>> /\ fe.pc = "handle" /\ fe.msg.type = "Q"
          /\ fe' = [fe EXCEPT !.pc = "complete", !.next = "failed"]
      BY <1>0, <1>13, <2>3 DEF RejectFailed, Extended
    <3>2. fe'.pc = "complete" /\ fe'.msg = fe.msg
      BY <1>3, <3>1
    <3> QED  BY <2>1, <3>1, <3>2, MoveServed
  <2> QED  BY <2>2, <2>3
<1>14. CASE OccFailure
  <2>1. client'.due = client.due
    BY <1>1, <1>14 DEF OccFailure, writeClient
  <2>2. CASE Extended(fe.msg)
    <3>1. st' = deferFailure(noteBatchState(resetOcc(st), fe.msg.type),
                             Failure("rollback", "I", 2, fe.msg.req)) /\ fe.pc = "ends"
          /\ FrontendDone /\ UNCHANGED <<fromClient, be, up, down>> /\ fe.msg.type \in {"P", "B"}
      BY <1>14, <2>2 DEF OccFailure, Extended
    <3>2. /\ same(st') /\ st'.skipSync = TRUE /\ st'.extendedBatchOpen = TRUE
          /\ st'.pendingFailure.swallow = 2
      BY <3>1, ZenonT(30) DEF noteBatchState, resetOcc, deferFailure, Failure, TypeOK, Structs
    <3>3. fe'.pc = "read"
      BY <3>1 DEF FrontendDone, TypeOK, FrontendOK
    <3> QED  BY <2>1, <3>1, <3>2, <3>3, RefusalServed, ZenonT(30)
  <2>3. CASE ~Extended(fe.msg)
    <3>1. UNCHANGED <<fromClient, be, up, down>> /\ fe.pc = "ends" /\ fe.msg.type = "Q"
          /\ st' = resetOcc(st)
          /\ fe' = [fe EXCEPT !.pc = "beginFailure",
                              !.failure = Failure("rollback", "I", 1, fe.msg.req)]
      BY <1>0, <1>14, <2>3 DEF OccFailure, Extended
    <3>2. fe'.pc = "beginFailure" /\ fe'.msg = fe.msg /\ fe'.failure.swallow = 1
      BY <3>1 DEF TypeOK, FrontendOK, Failure
    <3> QED  BY <1>2, <2>1, <3>1, <3>2, MoveServed, ZenonT(30)
  <2> QED  BY <2>2, <2>3
<1>15. CASE EndAborted
  <2>1. /\ UNCHANGED <<client, fromClient, be, up, down>> /\ fe.pc = "handle"
        /\ st' \in {st, endAborted(st)} /\ fe' = [fe EXCEPT !.pc = "forward"]
    BY <1>15 DEF EndAborted
  <2> QED  BY <1>2, <1>3, <2>1, MoveServed, ZenonT(30)
<1>16. CASE ForwardUnparsed \/ AdmitBatch \/ NotAdjudicated
  <2>1. /\ UNCHANGED <<client, fromClient, be, up, down, st>> /\ fe.pc \in {"handle", "ends"}
        /\ \E pc \in {"forward", "count", "reset"} : fe' = [fe EXCEPT !.pc = pc]
    BY <1>16 DEF ForwardUnparsed, AdmitBatch, NotAdjudicated
  <2> QED  BY <1>2, <1>3, <2>1, MoveServed
<1>17. CASE CountTxnStatement
  <2>1. /\ UNCHANGED <<client, fromClient, be, up, down>> /\ fe.pc = "count"
        /\ \E pc \in {"forward", "ends", "arm"} : fe' = [fe EXCEPT !.pc = pc]
    BY <1>17 DEF CountTxnStatement
  <2>2. kept(st')
    BY <1>17 DEF CountTxnStatement, TypeOK, Structs
  <2> QED  BY <1>3, <2>1, <2>2, MoveServed, ZenonT(30)
<1>18. CASE ResetOcc
  <2>1. /\ UNCHANGED <<client, fromClient, be, up, down>> /\ fe.pc = "reset"
        /\ st' = resetOcc(st) /\ fe' = [fe EXCEPT !.pc = "forward"]
    BY <1>18 DEF ResetOcc
  <2> QED  BY <1>2, <1>3, <2>1, MoveServed, ZenonT(30)
<1>19. CASE SetInFlight
  <2>1. /\ UNCHANGED <<client, fromClient, be, up, down>> /\ fe.pc = "inFlight"
        /\ st' = setInFlight(st, fe.msg, fe.stmts) /\ fe' = [fe EXCEPT !.pc = "forward"]
    BY <1>19 DEF SetInFlight
  <2> QED  BY <1>2, <1>3, <2>1, MoveServed, ZenonT(30)
<1> QED
  BY <1>4, <1>5, <1>6, <1>7, <1>8, <1>9, <1>10, <1>11, <1>12, <1>13, <1>14, <1>15, <1>16,
     <1>17, <1>18, <1>19 DEF Frontend

\* The client has the answer to a query the frontend completed itself, of which
\* nothing was sent.
LEMMA CompleteRests ==
  ASSUME TypeOK, Served, Len(client.due) = 1, CompleteExchange
  PROVE  Rest' /\ client'.due = <<>>
<1>0. Unread /\ Handling /\ Unsent /\ Balance /\ Apart /\ Unrun
  BY DEF Served
<1>1. /\ fe.pc = "complete" /\ fe.msg.type = "Q" /\ fromClient = <<>> /\ ~st.extendedBatchOpen
      /\ ~st.skipSync /\ st.pendingFailure = None
  BY <1>0 DEF CompleteExchange, Unread, Handling
<1>2. Forwarding /\ ~Deferring /\ Refusing
  BY <1>1 DEF Forwarding, Deferring, Refusing
<1>3. /\ up = <<>> /\ down = <<>> /\ be.pc = "read" /\ st.hidden = None
      /\ st.failure = None /\ st.occRepair = None
  BY <1>0, <1>1, <1>2 DEF Unsent, Apart, Unrun
<1>4. UNCHANGED <<fromClient, be, up, down>> /\ fe'.pc = "read"
  BY DEF CompleteExchange, FrontendDone, TypeOK, FrontendOK
<1>5. /\ st'.hidden = st.hidden /\ st'.failure = st.failure
      /\ st'.pendingFailure = st.pendingFailure /\ st'.occRepair = st.occRepair
      /\ st'.skipSync = st.skipSync /\ ~st'.extendedBatchOpen
  BY <1>1 DEF CompleteExchange, noteBatchState, TypeOK, Structs
<1>6. client'.due = <<>>
  <2>1. PICK b : client' = Deliver(client, Answer("Z", b, fe.msg.req))
    BY DEF CompleteExchange, writeClient
  <2>2. client'.due = Tail(client.due)
    <3>1. Answer("Z", b, fe.msg.req).type = "Z" /\ client \in Clients
      BY DEF Answer, TypeOK
    <3> QED  BY <2>1, <3>1, OneDue, DeliverDue
  <2> QED  BY <2>2, OneDue
<1> QED  BY <1>1, <1>3, <1>4, <1>5, <1>6 DEF Rest

-----------------------------------------------------------------------------
(* The backend serves the request.                                         *)

\* The backend does not move what the frontend has at hand.
LEMMA BackendKeeps ==
  ASSUME Served, UNCHANGED <<fe, fromClient>>, be.pc # "read" \/ down # <<>>,
         st'.extendedBatchOpen = st.extendedBatchOpen, st'.skipSync = st.skipSync,
         st'.pendingFailure = st.pendingFailure
  PROVE  Unread' /\ Handling' /\ Unsent' /\ Forwarding' = Forwarding /\ Deferring' = Deferring
<1>0. Unread /\ Handling /\ Unsent
  BY DEF Served
<1>1. Forwarding' = Forwarding /\ Deferring' = Deferring
  BY DEF Forwarding, Deferring
<1>2. Unread'
  BY <1>0 DEF Unread
<1>3. Handling'
  BY <1>0, <1>1 DEF Handling
<1>4. Unsent'
  BY <1>0, <1>1 DEF Unsent
<1> QED  BY <1>1, <1>2, <1>3, <1>4

\* pumpBackend reads an answer.
LEMMA BackendReadServed ==
  ASSUME TypeOK, Accounted, ~SyncRace, Served, BackendRead
  PROVE  Served'
<1>0. Unread /\ Handling /\ Unsent /\ Balance /\ Apart /\ Closed /\ Unrun /\ Owned
  BY DEF Served
<1> DEFINE m == Head(down)
<1>1. /\ be.pc = "read" /\ down # <<>> /\ ~Deferring /\ down' = Tail(down)
      /\ be'.pc = "hidden" /\ be'.msg = m /\ UNCHANGED <<fe, fromClient, up>>
  BY DEF BackendRead, Deferring, TypeOK, BackendOK
<1>2. /\ m = down[1] /\ 1 \in DOMAIN down
      /\ DOMAIN down' = 1 .. Len(down) - 1 /\ Len(down) \in Nat /\ DOMAIN down = 1 .. Len(down)
      /\ Len(down') = Len(down) - 1
      /\ \A i \in 1 .. Len(down) - 1 : down'[i] = down[i + 1]
  <2>1. down \in Seq(Answers)
    BY DEF TypeOK
  <2>2. m = down[1] /\ 1 \in DOMAIN down /\ Len(down) \in Nat /\ DOMAIN down = 1 .. Len(down)
    BY <1>1, <2>1
  <2>3. /\ DOMAIN down' = 1 .. Len(down) - 1 /\ Len(down') = Len(down) - 1
        /\ \A i \in 1 .. Len(down) - 1 : down'[i] = down[i + 1]
    BY <1>1, <2>1
  <2> QED  BY <2>2, <2>3
<1> HIDE DEF m
<1>3. /\ st'.pendingExchanges + (IF m.type = "Z" THEN 1 ELSE 0) = st.pendingExchanges
      /\ st'.pendingExchanges \in Nat /\ st.pendingExchanges \in Nat
      /\ m.type = "Z" => st.pendingExchanges > 0
  <2>1. m.type = "Z" => st.pendingExchanges # 0
    BY <1>2 DEF Accounted
  <2>2. st' = IF m.type = "Z" THEN endExchange(st) ELSE st
    BY DEF BackendRead, m
  <2>3. st \in Structs
    BY DEF TypeOK
  <2>4. /\ st.pendingExchanges \in Nat
        /\ st.pendingExchanges > 0 =>
             endExchange(st).pendingExchanges = st.pendingExchanges - 1
    BY <2>3, EditsCount
  <2> QED  BY <2>1, <2>2, <2>4
<1>4. /\ st'.pendingFailure = st.pendingFailure /\ st'.skipSync = st.skipSync
      /\ st'.extendedBatchOpen = st.extendedBatchOpen
      /\ st'.hidden = st.hidden /\ st'.failure = st.failure
      /\ st'.failureRFQs = st.failureRFQs /\ st'.occRepair = st.occRepair
  BY DEF BackendRead, endExchange, TypeOK, Structs
<1>5. Unread' /\ Handling' /\ Unsent' /\ Forwarding' = Forwarding /\ Deferring' = Deferring
  BY <1>1, <1>4, BackendKeeps
<1>6. /\ Saving' = Saving /\ Repairing' = Repairing /\ ~Ending' /\ ~Ending
      /\ ~HasReady /\ (HasReady' <=> m.type = "Z")
  BY <1>1, <1>4 DEF Saving, Repairing, Ending, HasReady
<1>7. Balance'
  BY <1>0, <1>1, <1>3, <1>4, <1>5, <1>6 DEF Balance, Expected
<1>8. Apart'
  <2>1. ASSUME Forwarding, m.type = "Z" PROVE st.hidden # None
    BY <1>0, <1>1, <1>3, <1>6, <2>1 DEF Balance, Expected, Saving
  <2> QED  BY <1>0, <1>1, <1>4, <1>5, <1>6, <2>1 DEF Apart
<1>9. Closed'
  <2> SUFFICES ASSUME ~Forwarding, up = <<>>, down' # <<>> PROVE down'[Len(down')].type = "Z"
    BY <1>0, <1>1, <1>5 DEF Closed
  <2>1. down[Len(down)].type = "Z"
    BY <1>0, <1>1 DEF Closed
  <2>2. Len(down') # 0
    <3>1. down \in Seq(Answers)
      BY DEF TypeOK
    <3> QED  BY <1>1, <3>1
  <2> QED  BY <1>2, <2>1, <2>2
<1>10. Unrun'
  <2> SUFFICES ASSUME Refusing' PROVE Unrun'
    BY DEF Unrun
  <2>1. Refusing
    BY <1>1, <1>4 DEF Refusing
  <2>2. \A i \in DOMAIN down' : i + 1 \in DOMAIN down /\ down'[i] = down[i + 1]
    BY <1>2
  <2> QED  BY <1>0, <1>1, <1>2, <1>4, <2>1, <2>2 DEF Unrun
<1>11. Owned'
  <2> SUFFICES ASSUME st.hidden # None PROVE Owned'
    BY <1>4 DEF Owned
  <2>1. OwnsThrough
    BY <1>0, <1>1 DEF Owned
  <2>2. m.req = 0
    BY <1>2, <2>1 DEF OwnsThrough
  <2>3. ASSUME m.type # "Z" PROVE OwnsThrough'
    <3>1. ASSUME NEW i \in DOMAIN down', \A j \in 1 .. i - 1 : down'[j].type # "Z"
          PROVE  down'[i].req = 0
      <4>1. ASSUME NEW j \in 1 .. (i + 1) - 1 PROVE down[j].type # "Z"
        <5>1. CASE j = 1
          BY <1>2, <2>3, <5>1
        <5>2. CASE j # 1
          <6>1. j - 1 \in 1 .. i - 1 /\ j - 1 \in 1 .. Len(down) - 1 /\ (j - 1) + 1 = j
            BY <1>2, <5>2
          <6> QED  BY <1>2, <3>1, <6>1
        <5> QED  BY <5>1, <5>2
      <4>2. i + 1 \in DOMAIN down /\ down'[i] = down[i + 1]
        BY <1>2
      <4> QED  BY <2>1, <4>1, <4>2 DEF OwnsThrough
    <3>2. ASSUME \A j \in DOMAIN down' : down'[j].type # "Z", NEW j \in DOMAIN down
          PROVE  down[j].type # "Z"
      <4>1. CASE j = 1
        BY <1>2, <2>3, <4>1
      <4>2. CASE j # 1
        <5>1. j - 1 \in DOMAIN down' /\ (j - 1) + 1 = j
          BY <1>2, <4>2
        <5> QED  BY <1>2, <3>2, <5>1
      <4> QED  BY <4>1, <4>2
    <3> QED  BY <1>1, <2>1, <3>1, <3>2, ZenonT(30) DEF OwnsThrough
  <2> QED  BY <1>1, <2>2, <2>3 DEF Owned
<1> QED  BY <1>5, <1>7, <1>8, <1>9, <1>10, <1>11 DEF Served

\* consumeHidden takes a message of the emulator's exchange.
LEMMA HiddenServed ==
  ASSUME TypeOK, Accounted, Served, ConsumeHidden
  PROVE  Served' /\ client'.due = client.due
<1>0. Unread /\ Handling /\ Unsent /\ Balance /\ Apart /\ Closed /\ Unrun /\ Owned
  BY DEF Served
<1> DEFINE h == [st.hidden EXCEPT !.failed = @ \/ be.msg.type = "E"]
<1>1. /\ be.pc = "hidden" /\ st.hidden # None /\ UNCHANGED <<fe, fromClient, up, down>>
      /\ st' = [st EXCEPT !.hidden = h] /\ st.hidden \in Exchanges
  BY DEF ConsumeHidden, TypeOK, Structs
<1>2. h \in Exchanges /\ h.kind = st.hidden.kind
  BY <1>1, ZenonT(30) DEF Exchanges, Repairs
<1>3. h # None
  BY <1>2, NilAssumption
<1>4. client'.due = client.due
  <2>1. \A s, r : Answer("C", s, r).type # "Z"
    BY DEF Answer
  <2>2. client \in Clients
    BY DEF TypeOK
  <2> QED  BY <2>1, <2>2, DeliverDue DEF ConsumeHidden, writeClient
<1>5. /\ be.msg.type = "Z" => be'.pc = "unhide" /\ be'.hidden = h /\ be'.msg = be.msg
      /\ be.msg.type # "Z" => be'.pc = "read"
  <2>1. be' = IF be.msg.type = "Z" THEN [be EXCEPT !.pc = "unhide", !.hidden = h]
              ELSE [pc |-> "read", msg |-> None, hidden |-> None, inTxn |-> FALSE]
    BY DEF ConsumeHidden, BackendDone
  <2> HIDE DEF h
  <2> QED  BY <2>1 DEF TypeOK, BackendOK
<1> HIDE DEF h
<1>6. /\ st'.pendingFailure = st.pendingFailure /\ st'.skipSync = st.skipSync
      /\ st'.extendedBatchOpen = st.extendedBatchOpen
      /\ st'.hidden = h /\ st'.failure = st.failure /\ st'.pendingExchanges = st.pendingExchanges
      /\ st'.failureRFQs = st.failureRFQs /\ st'.occRepair = st.occRepair
      /\ st.pendingExchanges \in Nat
  BY <1>1 DEF TypeOK, Structs
<1>7. Unread' /\ Handling' /\ Unsent' /\ Forwarding' = Forwarding /\ Deferring' = Deferring
  BY <1>1, <1>6, BackendKeeps
<1>8. /\ Saving' = Saving /\ Repairing' = Repairing /\ (Saving <=> ~Repairing) /\ ~Ending
      /\ (Ending' <=> Repairing /\ be.msg.type = "Z")
      /\ (HasReady <=> be.msg.type = "Z") /\ ~HasReady'
  BY <1>1, <1>2, <1>3, <1>5, <1>6 DEF Saving, Repairing, Ending, HasReady
<1>a. Repairing => ~Forwarding /\ ~Deferring /\ st.failure = None
  BY <1>0 DEF Apart, Forwarding, Deferring
<1>9. Balance'
  <2>1. CASE be.msg.type = "Z"
    <3>1. st.pendingExchanges + 1 = Expected
      BY <1>0, <1>8, <2>1 DEF Balance
    <3>2. CASE Repairing
      <4>1. Expected = 1
        BY <1>8, <1>a, <3>2 DEF Expected
      <4>2. Expected' = 0
        BY <1>6, <1>7, <1>8, <1>a, <2>1, <3>2 DEF Expected
      <4> QED  BY <1>6, <1>8, <3>1, <4>1, <4>2 DEF Balance
    <3>3. CASE Saving
      <4>1. Expected' = Expected - 1
        BY <1>1, <1>5, <1>6, <1>7, <1>8, <2>1, <3>3 DEF Expected, TypeOK, Structs, Failures
      <4> QED  BY <1>6, <1>8, <3>1, <4>1 DEF Balance
    <3> QED  BY <1>8, <3>2, <3>3
  <2>2. CASE be.msg.type # "Z"
    BY <1>0, <1>1, <1>5, <1>6, <1>7, <1>8, <1>a, <2>2 DEF Balance, Expected
  <2> QED  BY <2>1, <2>2
<1>10. Apart'
  BY <1>0, <1>1, <1>2, <1>3, <1>5, <1>6, <1>7, <1>8 DEF Apart
<1>11. Closed'
  BY <1>0, <1>1, <1>7 DEF Closed
<1>12. Unrun'
  <2>1. Refusing' = Refusing
    BY <1>1, <1>6 DEF Refusing
  <2> QED  BY <1>0, <1>1, <1>5, <1>6, <2>1 DEF Unrun
<1>13. Owned'
  BY <1>0, <1>1, <1>5 DEF Owned, OwnsThrough
<1> QED  BY <1>4, <1>7, <1>9, <1>10, <1>11, <1>12, <1>13 DEF Served

\* When the ReadyForQuery of the request, or of a repair's exchange, is at hand,
\* nothing else is under way.
LEMMA LastStage ==
  ASSUME TypeOK, Accounted, Served,
         \/ be.pc \in {"restore", "failTxn", "ready", "note"}
         \/ be.pc = "finish" /\ be.hidden.kind # "savepoint"
  PROVE  /\ fe.pc = "read" /\ fromClient = <<>> /\ up = <<>> /\ down = <<>>
         /\ st.hidden = None /\ st.failure = None /\ st.pendingFailure = None
         /\ ~st.extendedBatchOpen /\ ~st.skipSync /\ st.pendingExchanges = 0
         /\ be.pc # "ready" => st.occRepair = None
<1>0. Unread /\ Handling /\ Balance /\ Apart /\ Closed
  BY DEF Served
<1>1. (HasReady /\ be.pc \in {"ready", "note"}) \/ (Ending /\ ~HasReady)
  BY DEF HasReady, Ending, TypeOK, BackendOK
<1>2. ~Forwarding
  BY <1>0, <1>1 DEF Apart
<1>3. st.hidden = None /\ st.failure = None
  BY <1>0, <1>1 DEF Apart
<1>4. ~Deferring /\ ~Saving /\ ~Repairing
  BY <1>2, <1>3 DEF Deferring, Forwarding, Saving, Repairing
<1>5. st.pendingExchanges \in Nat
  BY DEF TypeOK, Structs
<1>6. st.pendingExchanges = 0
  <2>1. CASE Ending /\ ~HasReady
    BY <1>0, <1>2, <1>3, <1>4, <1>5, <2>1 DEF Balance, Expected
  <2>2. CASE HasReady /\ be.pc \in {"ready", "note"}
    <3>1. ~Ending
      BY <2>2 DEF Ending
    <3> QED  BY <1>0, <1>2, <1>3, <1>4, <1>5, <2>2, <3>1 DEF Balance, Expected
  <2> QED  BY <1>1, <2>1, <2>2
<1>7. up = <<>> /\ down = <<>>
  BY <1>0, <1>2, <1>6, Dry
<1>8. ~st.extendedBatchOpen /\ ~st.skipSync /\ st.pendingFailure = None
  BY <1>0, <1>2 DEF Handling
<1>9. be.pc # "ready" => st.occRepair = None
  BY <1>0, <1>1 DEF Apart
<1> QED  BY <1>2, <1>3, <1>6, <1>7, <1>8, <1>9 DEF Forwarding

\* A repair starts an exchange of its own.
LEMMA RepairServed ==
  ASSUME fe.pc = "read", fromClient = <<>>, st.failure = None, st.pendingFailure = None,
         ~st.extendedBatchOpen, ~st.skipSync, st.pendingExchanges = 0, st.occRepair = None,
         down = <<>>, UNCHANGED <<fe, fromClient, down>>, be'.pc = "read",
         st'.hidden # None, st'.hidden.kind # "savepoint", st'.failure = None,
         st'.pendingFailure = None, ~st'.extendedBatchOpen, ~st'.skipSync,
         st'.pendingExchanges = 1, st'.occRepair = None,
         up' # <<>>, DrawsReady(up'[Len(up')]), \A i \in DOMAIN up' : up'[i].req = 0
  PROVE  Served'
<1>1. ~Forwarding' /\ ~Deferring' /\ ~Refusing' /\ ~Saving' /\ Repairing' /\ ~Ending' /\ ~HasReady'
  BY DEF Forwarding, Deferring, Refusing, Saving, Repairing, Ending, HasReady
<1>2. Unread' /\ Handling' /\ Unsent' /\ Closed' /\ Unrun'
  BY <1>1 DEF Unread, Handling, Unsent, Closed, Unrun
<1>3. Balance'
  BY <1>1 DEF Balance, Expected
<1>4. Apart'
  BY <1>1 DEF Apart
<1>5. Owned'
  BY DEF Owned, OwnsThrough
<1> QED  BY <1>2, <1>3, <1>4, <1>5 DEF Served

\* A step of the backend that only moves on with the message it has, and leaves
\* the streams and the hidden exchange alone.
LEMMA BackendMoves ==
  ASSUME TypeOK, Served, be.pc # "read", UNCHANGED <<fe, fromClient, up, down>>,
         st.hidden = None, st'.hidden = None, st'.failure = st.failure,
         st'.failureRFQs = st.failureRFQs,
         st'.pendingFailure = st.pendingFailure, st'.extendedBatchOpen = st.extendedBatchOpen,
         st'.skipSync = st.skipSync, st'.pendingExchanges = st.pendingExchanges,
         HasReady' <=> HasReady, Ending' <=> Ending,
         be'.pc # "read" => be'.msg = be.msg, be'.pc # "unhide",
         HasReady => ~Forwarding,
         st.failure # None => be'.pc \notin {"ready", "note", "intercept"},
         Ending' \/ be'.pc = "note" => st'.occRepair = None,
         be'.pc \in {"repair", "intercept"} => be.msg.type # "Z",
         Refusing => st'.occRepair = None /\ be'.pc # "intercept"
  PROVE  Served'
<1>0. Unread /\ Handling /\ Unsent /\ Balance /\ Apart /\ Closed /\ Unrun /\ Owned
  BY DEF Served
<1>1. Unread' /\ Handling' /\ Unsent' /\ Forwarding' = Forwarding /\ Deferring' = Deferring
  BY BackendKeeps
<1>2. ~Saving /\ ~Saving' /\ ~Repairing /\ ~Repairing'
  BY DEF Saving, Repairing
<1>3. Balance'
  BY <1>0, <1>1, <1>2 DEF Balance, Expected
<1>4. Apart'
  BY <1>0, <1>1, <1>2 DEF Apart
<1>5. Closed'
  BY <1>0, <1>1 DEF Closed
<1>6. Unrun'
  <2>1. Refusing' = Refusing
    BY DEF Refusing
  <2> QED  BY <1>0, <2>1 DEF Unrun
<1>7. Owned'
  BY DEF Owned
<1> QED  BY <1>1, <1>3, <1>4, <1>5, <1>6, <1>7 DEF Served

\* The backend goes on with a message that belongs to no exchange of the
\* emulator's.
LEMMA PassingServed ==
  ASSUME TypeOK, Accounted, Served,
         NotHidden \/ FinishSavepoint \/ FailRepair \/ NoFailure \/ Relay \/ OccIntercept
  PROVE  Served' /\ client'.due = client.due
<1>0. Apart /\ Unrun /\ Balance /\ Handling
  BY DEF Served
<1>a. st \in Structs /\ client \in Clients
      /\ be \in [pc : {"read", "hidden", "unhide", "finish", "failTxn", "failure",
                       "repair", "intercept", "ready", "restore", "note"},
                 msg : Answers \cup {None}, hidden : Exchanges \cup {None}, inTxn : BOOLEAN]
  BY DEF TypeOK, BackendOK
<1> DEFINE kept(s) ==
      /\ s.hidden = st.hidden /\ s.failure = st.failure /\ s.failureRFQs = st.failureRFQs
      /\ s.pendingFailure = st.pendingFailure /\ s.extendedBatchOpen = st.extendedBatchOpen
      /\ s.skipSync = st.skipSync /\ s.pendingExchanges = st.pendingExchanges
<1>1. CASE NotHidden
  <2>1. /\ be.pc = "hidden" /\ st.hidden = None /\ be'.pc = "failure" /\ be'.msg = be.msg
        /\ UNCHANGED <<client, fe, fromClient, up, down, st>>
    BY <1>1, <1>a DEF NotHidden, BackendAt
  <2>2. (HasReady' <=> HasReady) /\ ~Ending /\ ~Ending' /\ (HasReady => ~Forwarding)
    BY <1>0, <2>1 DEF HasReady, Ending, Apart
  <2>3. Refusing => st.occRepair = None
    BY <1>0 DEF Unrun
  <2>9. Served'
    BY <2>1, <2>2, <2>3, BackendMoves
  <2> QED  BY <2>1, <2>2, <2>3, <2>9
<1>2. CASE FinishSavepoint
  <2>1. /\ be.pc = "finish" /\ be.hidden.kind = "savepoint" /\ be'.pc = "read"
        /\ UNCHANGED <<client, fe, fromClient, up, down>> /\ kept(st') /\ st'.occRepair = st.occRepair
    BY <1>2, <1>a DEF FinishSavepoint, BackendDone, Structs
  <2>2. ~HasReady /\ ~HasReady' /\ ~Ending /\ ~Ending' /\ st.hidden = None
    BY <1>0, <2>1 DEF HasReady, Ending, Apart
  <2>3. Refusing => st.occRepair = None
    BY <1>0 DEF Unrun
  <2>9. Served'
    BY <2>1, <2>2, <2>3, BackendMoves
  <2> QED  BY <2>1, <2>2, <2>3, <2>9
<1>3. CASE FailRepair
  <2>1. /\ be.pc = "finish" /\ be.hidden.kind # "savepoint" /\ be'.pc = "failTxn"
        /\ be'.msg = be.msg /\ UNCHANGED <<fe, fromClient, up, down>>
    BY <1>3, <1>a DEF FailRepair, BackendAt
  <2>2. kept(st') /\ st'.occRepair = st.occRepair
    BY <1>3, <1>a DEF FailRepair, Structs
  <2>3. client'.due = client.due
    <3>1. \A r : Answer("E", "conflict", r).type # "Z"
      BY DEF Answer
    <3> QED  BY <1>3, <1>a, <3>1, DeliverDue DEF FailRepair, writeClient
  <2>4. ~HasReady /\ ~HasReady' /\ Ending /\ Ending' /\ st.hidden = None /\ st.occRepair = None
    BY <1>0, <2>1 DEF HasReady, Ending, Apart
  <2>9. Served'
    BY <2>1, <2>2, <2>3, <2>4, BackendMoves
  <2> QED  BY <2>1, <2>2, <2>3, <2>4, <2>9
<1>4. CASE NoFailure
  <2>1. /\ be.pc = "failure" /\ st.failure = None /\ be'.msg = be.msg
        /\ be'.pc = (IF be.msg.type = "Z" THEN "ready" ELSE "repair")
        /\ UNCHANGED <<client, fe, fromClient, up, down, st>>
    BY <1>4, <1>a DEF NoFailure, BackendAt
  <2>2. /\ (HasReady' <=> HasReady) /\ ~Ending /\ ~Ending' /\ (HasReady => ~Forwarding)
        /\ st.hidden = None
    BY <1>0, <2>1 DEF HasReady, Ending, Apart
  <2>3. Refusing => st.occRepair = None
    BY <1>0 DEF Unrun
  <2>9. Served'
    BY <2>1, <2>2, <2>3, BackendMoves
  <2> QED  BY <2>1, <2>2, <2>3, <2>9
<1>5. CASE Relay
  <2>1. /\ be.pc = "repair" /\ be.msg.type # "Z" /\ UNCHANGED <<fe, fromClient, up, down, st>>
        /\ be'.pc \in {"read", "intercept"} /\ (be'.pc = "intercept" => be'.msg = be.msg)
        /\ be'.pc = "intercept" => be.msg.what = "conflict"
    <3>1. be.pc = "repair" /\ be.msg.type # "Z" /\ UNCHANGED <<fe, fromClient, up, down, st>>
      BY <1>0, <1>5 DEF Relay, Apart
    <3>2. \/ be' = [be EXCEPT !.pc = "intercept", !.inTxn = tracker.inTxn] /\ be.msg.what = "conflict"
          \/ be' = [pc |-> "read", msg |-> None, hidden |-> None, inTxn |-> FALSE]
      BY <1>5 DEF Relay, BackendDone
    <3>3. /\ be'.pc \in {"read", "intercept"} /\ (be'.pc = "intercept" => be'.msg = be.msg)
          /\ be'.pc = "intercept" => be.msg.what = "conflict"
      <4>1. [be EXCEPT !.pc = "intercept", !.inTxn = tracker.inTxn].msg = be.msg
            /\ [be EXCEPT !.pc = "intercept", !.inTxn = tracker.inTxn].pc = "intercept"
        BY <1>a
      <4>2. [pc |-> "read", msg |-> None, hidden |-> None, inTxn |-> FALSE].pc = "read"
        OBVIOUS
      <4> QED  BY <3>2, <4>1, <4>2, ZenonT(30)
    <3> QED  BY <3>1, <3>3
  <2>2. client'.due = client.due
    BY <1>5, <1>a, <2>1, DeliverDue DEF Relay, writeClient
  <2>3. ~HasReady /\ ~HasReady' /\ ~Ending /\ ~Ending' /\ st.hidden = None
    BY <1>0, <2>1 DEF HasReady, Ending, Apart
  <2>4. Refusing => st.occRepair = None /\ be'.pc # "intercept"
    BY <1>0, <2>1 DEF Unrun
  <2>5. st.failure # None => Refusing
    BY DEF Refusing
  <2>9. Served'
    BY <2>1, <2>2, <2>3, <2>4, <2>5, BackendMoves
  <2> QED  BY <2>1, <2>2, <2>3, <2>4, <2>5, <2>9
<1>6. CASE OccIntercept
  <2>1. /\ be.pc = "intercept" /\ be.msg.type # "Z" /\ be'.pc = "read"
        /\ UNCHANGED <<fe, fromClient, up, down>>
    BY <1>0, <1>6 DEF OccIntercept, BackendDone, Apart
  <2>2. kept(st')
    BY <1>6, <1>a, ZenonT(30) DEF OccIntercept, Structs
  <2>3. client'.due = client.due
    BY <1>6, <1>a, <2>1, DeliverDue DEF OccIntercept, writeClient
  <2>4. ~HasReady /\ ~HasReady' /\ ~Ending /\ ~Ending'
    BY <2>1 DEF HasReady, Ending
  <2>5. st.hidden = None
    BY <1>0, <2>1 DEF Apart
  <2>6. ~Refusing
    BY <1>0, <2>1 DEF Unrun
  <2>9. Served'
    BY <2>1, <2>2, <2>4, <2>5, <2>6, BackendMoves
  <2> QED  BY <2>3, <2>9
<1> QED  BY <1>1, <1>2, <1>3, <1>4, <1>5, <1>6

\* The hidden exchange is over.
LEMMA ClearServed ==
  ASSUME TypeOK, Accounted, Served, ClearHidden
  PROVE  Served'
<1>0. Unread /\ Handling /\ Unsent /\ Balance /\ Apart /\ Closed /\ Unrun /\ Owned
  BY DEF Served
<1>1. /\ be.pc = "unhide" /\ be'.pc = "finish" /\ be'.msg = be.msg /\ be'.hidden = be.hidden
      /\ UNCHANGED <<fe, fromClient, up, down>>
  BY DEF ClearHidden, BackendAt, TypeOK, BackendOK
<1>2. /\ st'.pendingFailure = st.pendingFailure /\ st'.skipSync = st.skipSync
      /\ st'.extendedBatchOpen = st.extendedBatchOpen
      /\ st'.hidden = None /\ st'.failure = st.failure /\ st'.pendingExchanges = st.pendingExchanges
      /\ st'.failureRFQs = st.failureRFQs /\ st'.occRepair = st.occRepair
  BY DEF ClearHidden, TypeOK, Structs
<1>3. st.hidden # None /\ be.hidden = st.hidden
  BY <1>0, <1>1 DEF Apart
<1>4. Unread' /\ Handling' /\ Unsent' /\ Forwarding' = Forwarding /\ Deferring' = Deferring
  BY <1>1, <1>2, BackendKeeps
<1>5. /\ Ending' = Ending /\ (Repairing <=> Ending) /\ ~HasReady /\ ~HasReady'
      /\ ~Saving' /\ ~Repairing'
  BY <1>1, <1>2, <1>3 DEF Ending, Repairing, HasReady, Saving
<1>6. Balance'
  <2>1. Expected' = Expected
    BY <1>1, <1>2, <1>4, <1>5 DEF Expected
  <2> QED  BY <1>0, <1>2, <1>5, <2>1 DEF Balance
<1>7. Apart'
  BY <1>0, <1>1, <1>2, <1>4, <1>5 DEF Apart
<1>8. Closed'
  BY <1>0, <1>1, <1>4 DEF Closed
<1>9. Unrun'
  <2>1. Refusing' = Refusing
    BY <1>1, <1>2 DEF Refusing
  <2> QED  BY <1>0, <1>1, <1>2, <2>1 DEF Unrun
<1>10. Owned'
  BY <1>2 DEF Owned
<1> QED  BY <1>4, <1>6, <1>7, <1>8, <1>9, <1>10 DEF Served

\* A repair takes its next step, or fails the transaction.
LEMMA StartServed ==
  ASSUME TypeOK, Accounted, Served, ReadyForQuery \/ StartRepair \/ FailTxn
  PROVE  Served' /\ client'.due = client.due
<1>a. /\ st \in Structs
      /\ be \in [pc : {"read", "hidden", "unhide", "finish", "failTxn", "failure",
                       "repair", "intercept", "ready", "restore", "note"},
                 msg : Answers \cup {None}, hidden : Exchanges \cup {None}, inTxn : BOOLEAN]
      /\ be.pc \in {"ready", "note"} => be.msg.type = "Z"
      /\ be.pc \in {"failTxn", "restore"} => be.hidden \in Repairs
  BY DEF TypeOK, BackendOK
<1>1. CASE ReadyForQuery
  <2>1. /\ be.pc = "ready" /\ UNCHANGED <<client, fe, fromClient, up, down>> /\ be.msg.type = "Z"
        /\ be' = (IF RepairPending(st)
                  THEN [be EXCEPT !.pc = "restore", !.hidden = HiddenExchange("restore", st.occRepair)]
                  ELSE [be EXCEPT !.pc = "note"])
        /\ st' = (IF RepairPending(st) THEN startRepair(st) ELSE [st EXCEPT !.txStatus = be.msg.what])
    BY <1>1, <1>a DEF ReadyForQuery, BackendAt
  <2>2. /\ fe.pc = "read" /\ fromClient = <<>> /\ up = <<>> /\ down = <<>>
        /\ st.hidden = None /\ st.failure = None /\ st.pendingFailure = None
        /\ ~st.extendedBatchOpen /\ ~st.skipSync /\ st.pendingExchanges = 0
    BY <2>1, LastStage
  <2>3. /\ st'.hidden = None /\ st'.failure = None /\ st'.pendingFailure = None
        /\ ~st'.extendedBatchOpen /\ ~st'.skipSync /\ st'.pendingExchanges = 0
        /\ st'.occRepair = None
    BY <1>a, <2>1, <2>2 DEF startRepair, RepairPending, Structs
  <2>4. be'.pc \in {"restore", "note"} /\ be'.msg = be.msg
    BY <1>a, <2>1
  <2>5. ~Forwarding' /\ ~Deferring' /\ ~Refusing' /\ ~Saving' /\ ~Repairing'
    BY <2>1, <2>2, <2>3 DEF Forwarding, Deferring, Refusing, Saving, Repairing
  <2>6. IF be'.pc = "note" THEN HasReady' /\ ~Ending' ELSE ~HasReady' /\ Ending'
    BY <2>1, <2>4 DEF HasReady, Ending
  <2>7. Unread' /\ Handling' /\ Unsent' /\ Closed' /\ Unrun' /\ Owned'
    BY <2>1, <2>2, <2>3, <2>5 DEF Unread, Handling, Unsent, Closed, Unrun, Owned
  <2>8. Balance'
    BY <2>3, <2>4, <2>5, <2>6 DEF Balance, Expected
  <2>9. Apart'
    BY <2>3, <2>4, <2>5, <2>6 DEF Apart
  <2> QED  BY <2>1, <2>7, <2>8, <2>9 DEF Served
<1>2. CASE StartRepair
  <2> DEFINE m == OwnQuery(IF st.occSavepoint THEN <<"rollbackto">> ELSE <<"rollback", "begin">>)
  <2>1. /\ be.pc = "restore" /\ be'.pc = "read" /\ UNCHANGED <<client, fe, fromClient, down>>
        /\ up' = Append(up, m) /\ st' = setHidden(st, be.hidden)
    BY <1>2 DEF StartRepair, BackendDone
  <2>2. /\ fe.pc = "read" /\ fromClient = <<>> /\ up = <<>> /\ down = <<>>
        /\ st.hidden = None /\ st.failure = None /\ st.pendingFailure = None
        /\ ~st.extendedBatchOpen /\ ~st.skipSync /\ st.pendingExchanges = 0 /\ st.occRepair = None
    BY <2>1, LastStage
  <2>3. /\ st'.hidden = be.hidden /\ st'.failure = None /\ st'.pendingFailure = None
        /\ ~st'.extendedBatchOpen /\ ~st'.skipSync /\ st'.pendingExchanges = 1
        /\ st'.occRepair = None
    BY <1>a, <2>1, <2>2 DEF setHidden, beginExchange, Structs
  <2>4. be.hidden # None /\ be.hidden.kind # "savepoint"
    BY <1>a, <2>1, NilAssumption DEF Exchanges, Repairs
  <2>5. DrawsReady(m) /\ m.req = 0
    BY DEF DrawsReady, OwnQuery, Message
  <2> HIDE DEF m
  <2>6. up' = <<m>>
    BY <2>1, <2>2
  <2>7. up' # <<>> /\ DrawsReady(up'[Len(up')]) /\ \A i \in DOMAIN up' : up'[i].req = 0
    BY <2>5, <2>6
  <2> QED  BY <2>1, <2>2, <2>3, <2>4, <2>7, RepairServed
<1>3. CASE FailTxn
  <2> DEFINE m == OwnQuery(<<"abort">>)
             f == Failure("abort", "E", 1, be.hidden.flight.req)
  <2>1. /\ be.pc = "failTxn" /\ be'.pc = "read" /\ UNCHANGED <<client, fe, fromClient, down>>
        /\ up' = Append(up, m) /\ st' = beginExchange(WithFailure(st, f))
    BY <1>3 DEF FailTxn, BackendDone
  <2>a. f # None /\ f.swallow = 1
    <3>1. be.hidden.flight.req \in 1 .. IdSpace
      BY <1>a, <2>1 DEF Repairs, Flights
    <3>2. f \in Failures /\ f.swallow = 1
      BY <3>1, FailureType, ZenonT(30) DEF Failure
    <3> QED  BY <3>2, NilAssumption
  <2>b. m.type = "Q" /\ m.stmts = <<"abort">> /\ "abort" \notin Effects
    BY DEF OwnQuery, Message, Effects
  <2> HIDE DEF m, f
  <2>2. /\ fe.pc = "read" /\ fromClient = <<>> /\ up = <<>> /\ down = <<>>
        /\ st.hidden = None /\ st.failure = None /\ st.pendingFailure = None
        /\ ~st.extendedBatchOpen /\ ~st.skipSync /\ st.pendingExchanges = 0 /\ st.occRepair = None
    BY <2>1, LastStage
  <2>3. /\ st'.hidden = None /\ st'.failure = f /\ st'.failureRFQs = 0 /\ st'.pendingFailure = None
        /\ ~st'.extendedBatchOpen /\ ~st'.skipSync /\ st'.pendingExchanges = 1
        /\ st'.occRepair = None
    BY <1>a, <2>1, <2>2 DEF WithFailure, beginExchange, Structs
  <2>4. up' = <<m>>
    BY <2>1, <2>2
  <2>c. fe'.pc = "read" /\ fromClient' = <<>> /\ down' = <<>> /\ be'.pc = "read"
    BY <2>1, <2>2
  <2>5. ~Forwarding' /\ ~Deferring'
    BY <2>c, <2>3 DEF Forwarding, Deferring
  <2>6. ~Saving' /\ ~Repairing' /\ ~Ending' /\ ~HasReady'
    BY <2>c, <2>3 DEF Saving, Repairing, Ending, HasReady
  <2>7. Unread' /\ Unsent'
    BY <2>c, <2>3, <2>5 DEF Unread, Unsent
  <2>8. Handling' /\ Owned'
    BY <2>c, <2>3 DEF Handling, Owned
  <2>9. Closed'
    BY <2>c, <2>3, <2>4, <2>b DEF Closed, DrawsReady
  <2>10. Unrun'
    BY <2>c, <2>3, <2>4, <2>b DEF Unrun
  <2>11. Balance'
    BY <2>3, <2>5, <2>6, <2>a DEF Balance, Expected
  <2>12. Apart'
    BY <2>c, <2>3, <2>5, <2>6, <2>a DEF Apart
  <2> QED  BY <2>1, <2>7, <2>8, <2>9, <2>10, <2>11, <2>12 DEF Served
<1> QED  BY <1>1, <1>2, <1>3

\* The failure swallows a message, and with the last ReadyForQuery the client
\* gets its own.
LEMMA FailureServed ==
  ASSUME TypeOK, Accounted, Served, Len(client.due) = 1, ConsumeFailure
  PROVE  \/ Served' /\ client'.due = client.due
         \/ Rest' /\ client'.due = <<>>
<1>0. Unread /\ Handling /\ Unsent /\ Balance /\ Apart /\ Closed /\ Unrun /\ Owned
  BY DEF Served
<1> DEFINE ready == be.msg.type = "Z"
           rfqs  == st.failureRFQs + 1
           done  == ready /\ rfqs >= st.failure.swallow
<1>1. /\ be.pc = "failure" /\ st.failure # None /\ be'.pc = "read"
      /\ UNCHANGED <<fe, fromClient, up, down>>
      /\ st' = (IF done THEN [st EXCEPT !.failure = None, !.failureRFQs = 0]
                ELSE IF ready THEN [st EXCEPT !.failureRFQs = rfqs] ELSE st)
      /\ IF done THEN client' = Deliver(client, FailureReady(st.failure)) ELSE client' = client
  BY DEF ConsumeFailure, Swallowed, BackendDone, writeClient
<1>2. /\ st.failure \in Failures /\ st.failure.swallow \in {1, 2} /\ st.failureRFQs \in {0, 1}
      /\ st.pendingExchanges \in Nat /\ st \in Structs
  BY <1>1 DEF TypeOK, Structs, Failures
<1>3. /\ ~Forwarding /\ ~Ending /\ ~Repairing /\ st.hidden = None /\ st.failureRFQs < st.failure.swallow
  BY <1>0, <1>1 DEF Apart
<1>4. ~Deferring /\ ~Saving /\ (HasReady <=> ready) /\ Refusing
  BY <1>1, <1>3 DEF Deferring, Forwarding, Saving, HasReady, Refusing
<1>5. st.pendingExchanges + (IF ready THEN 1 ELSE 0) = st.failure.swallow - st.failureRFQs
  BY <1>0, <1>1, <1>2, <1>3, <1>4 DEF Balance, Expected
<1>6. ~st.extendedBatchOpen /\ ~st.skipSync /\ st.pendingFailure = None /\ st.occRepair = None
  BY <1>0, <1>3, <1>4 DEF Handling, Unrun
<1>7. CASE done
  <2>1. st.pendingExchanges = 0
    BY <1>2, <1>3, <1>5, <1>7
  <2>2. up = <<>> /\ down = <<>>
    BY <1>0, <1>3, <2>1, Dry
  <2>3. /\ st'.hidden = None /\ st'.failure = None /\ st'.pendingFailure = None
        /\ ~st'.extendedBatchOpen /\ ~st'.skipSync /\ st'.occRepair = None
    BY <1>1, <1>2, <1>3, <1>6, <1>7 DEF Structs
  <2>4. client'.due = <<>>
    <3>1. FailureReady(st.failure).type = "Z" /\ client \in Clients
      BY DEF FailureReady, Answer, TypeOK
    <3>2. client' = Deliver(client, FailureReady(st.failure))
      BY <1>1, <1>7
    <3> QED  BY <3>1, <3>2, OneDue, DeliverDue, ZenonT(30)
  <2> QED  BY <1>1, <1>3, <2>2, <2>3, <2>4 DEF Rest, Forwarding
<1>8. CASE ~done
  <2>1. /\ st'.hidden = None /\ st'.failure = st.failure /\ st'.pendingFailure = None
        /\ ~st'.extendedBatchOpen /\ ~st'.skipSync /\ st'.occRepair = None
        /\ st'.pendingExchanges = st.pendingExchanges
        /\ st'.failureRFQs = st.failureRFQs + (IF ready THEN 1 ELSE 0)
    BY <1>1, <1>2, <1>3, <1>6, <1>8 DEF Structs
  <2>2. Unread' /\ Handling' /\ Unsent' /\ ~Forwarding' /\ ~Deferring'
    BY <1>1, <1>3, <1>4, <1>6, <2>1, BackendKeeps
  <2>3. ~Saving' /\ ~Repairing' /\ ~Ending' /\ ~HasReady'
    BY <1>1, <2>1 DEF Saving, Repairing, Ending, HasReady
  <2>4. Balance'
    BY <1>1, <1>2, <1>5, <2>1, <2>2, <2>3 DEF Balance, Expected
  <2>5. Apart'
    BY <1>1, <1>2, <1>3, <1>8, <2>1, <2>2, <2>3 DEF Apart
  <2>6. Closed' /\ Unrun' /\ Owned'
    BY <1>0, <1>1, <1>3, <1>4, <2>1 DEF Closed, Unrun, Owned
  <2> QED  BY <1>1, <1>8, <2>2, <2>4, <2>5, <2>6 DEF Served
<1> QED  BY <1>7, <1>8

\* The client has its answer from a repair, or its own ReadyForQuery.
LEMMA LastRests ==
  ASSUME TypeOK, Accounted, Served, Len(client.due) = 1,
         be.pc = "note" \/ (be.pc = "finish" /\ be.hidden.kind # "savepoint"),
         UNCHANGED <<fe, fromClient, up, down>>, be'.pc = "read",
         st'.hidden = st.hidden, st'.failure = st.failure, st'.pendingFailure = st.pendingFailure,
         st'.extendedBatchOpen = st.extendedBatchOpen, st'.skipSync = st.skipSync,
         st'.occRepair = st.occRepair, client'.due = Tail(client.due)
  PROVE  Rest' /\ client'.due = <<>>
BY LastStage, OneDue DEF Rest

\* What a repair writes is the emulator's own, and only its last message draws a
\* ReadyForQuery.
LEMMA ShadowOwn ==
  ASSUME NEW flight, NEW shadow \in Shadows(flight), NEW q, q = <<>> \o shadow
  PROVE  /\ q # <<>> /\ DrawsReady(q[Len(q)])
         /\ \A i \in DOMAIN q : q[i].req = 0 /\ \A j \in 1 .. i - 1 : ~DrawsReady(q[j])
<1> DEFINE o == OwnQuery(<<"shadow">>)
           p == Message("P", "", <<"shadow">>, 0)
           b == Message("B", "", <<>>, 0)
           e == Message("E", "", <<>>, 0)
           s == Message("S", "", <<>>, 0)
<1>1. shadow = <<o>> \/ shadow = <<p, b, e, s>>
  BY DEF Shadows, extendedQuery
<1>2. /\ o.req = 0 /\ p.req = 0 /\ b.req = 0 /\ e.req = 0 /\ s.req = 0
      /\ DrawsReady(o) /\ DrawsReady(s) /\ ~DrawsReady(p) /\ ~DrawsReady(b) /\ ~DrawsReady(e)
  BY DEF DrawsReady, OwnQuery, Message
<1> HIDE DEF o, p, b, e, s
<1>3. CASE shadow = <<o>>
  <2>1. q = <<o>>
    BY <1>3
  <2>2. q # <<>> /\ Len(q) = 1 /\ q[1] = o /\ DOMAIN q = {1}
    BY <2>1
  <2>3. \A i \in DOMAIN q : q[i].req = 0 /\ 1 .. i - 1 = {}
    BY <1>2, <2>2
  <2> QED  BY <1>2, <2>2, <2>3
<1>4. CASE shadow = <<p, b, e, s>>
  <2>1. q = <<p, b, e, s>>
    BY <1>4
  <2>2. /\ q # <<>> /\ Len(q) = 4 /\ DOMAIN q = {1, 2, 3, 4}
        /\ q[1] = p /\ q[2] = b /\ q[3] = e /\ q[4] = s
    BY <2>1
  <2>3. \A i \in DOMAIN q : q[i].req = 0 /\ \A j \in 1 .. i - 1 : j \in {1, 2, 3}
    BY <1>2, <2>2
  <2>4. \A j \in {1, 2, 3} : ~DrawsReady(q[j])
    BY <1>2, <2>2
  <2> QED  BY <1>2, <2>2, <2>3, <2>4
<1> QED  BY <1>1, <1>3, <1>4
=============================================================================
