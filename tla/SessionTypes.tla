---------------------------- MODULE SessionTypes ----------------------------
(***************************************************************************)
(* Every state Session reaches has its type, whatever the clients send and *)
(* however far they pipeline, and the facts about the operators that this  *)
(* rests on. The tracker Admit leaves is a recursive function of the       *)
(* length of the batch: induction on it is by the least number that fails. *)
(***************************************************************************)
EXTENDS SessionLockStep, WellFoundedInduction

-----------------------------------------------------------------------------
(* What the operators of the session keep.                                 *)

\* What Deliver leaves the client with is a client.
LEMMA DeliverType ==
  ASSUME NEW c \in Clients, NEW m \in Answers
  PROVE  Deliver(c, m) \in Clients
<1> USE DEF Clients
<1>0. NoRequest \in Asked
  BY SessionAssumption DEF NoRequest, Asked
<1> DEFINE r == Deliver(c, m)
           With(g, a, d, b, n, k) ==
             [c EXCEPT !.got = g, !.asked = a, !.due = d, !.status = b, !.acked = n,
                       !.commit = k]
<1>a. r = With(r.got, r.asked, r.due, r.status, r.acked, r.commit)
  BY DEF Deliver
<1>1. r.got \in Seq(Answers)
  BY DEF Deliver
<1>2. r.asked \in Asked
  BY <1>0 DEF Deliver
<1>3. r.due \in Seq(Asked)
  BY DEF Deliver
<1>4. r.status \in {"I", "T", "E"}
  BY DEF Deliver, Answers
<1>5. r.acked \in Nat
  BY DEF Deliver
<1>6. r.commit \in [acked : Nat, work : Nat]
  BY DEF Deliver, Answers
<1>7. ASSUME NEW g \in Seq(Answers), NEW a \in Asked, NEW d \in Seq(Asked),
             NEW b \in {"I", "T", "E"}, NEW n \in Nat, NEW k \in [acked : Nat, work : Nat]
      PROVE  With(g, a, d, b, n, k) \in Clients
  BY ZenonT(30)
<1> HIDE DEF r, Clients, With
<1>8. r \in Clients
  BY <1>a, <1>1, <1>2, <1>3, <1>4, <1>5, <1>6, <1>7
<1> QED  BY <1>8 DEF r

\* Each assignment the pumps make to the session keeps its type.
LEMMA StructEdits ==
  ASSUME NEW s \in Structs
  PROVE  /\ beginExchange(s) \in Structs
         /\ endExchange(s) \in Structs
         /\ resetOcc(s) \in Structs
         /\ endAborted(s) \in Structs
         /\ startRepair(s) \in Structs
         /\ \A type : noteBatchState(s, type) \in Structs
         /\ \A f \in Failures : WithFailure(s, f) \in Structs
         /\ \A f \in Failures : deferFailure(s, f) \in Structs
         /\ \A h \in Exchanges : setHidden(s, h) \in Structs
<1> USE DEF Structs
<1>1. beginExchange(s) \in Structs
  BY DEF beginExchange
<1>2. endExchange(s) \in Structs
  BY DEF endExchange
<1>3. resetOcc(s) \in Structs
  BY ZenonT(30) DEF resetOcc
<1>4. endAborted(s) \in Structs
  BY ZenonT(30) DEF endAborted, resetOcc
<1>5. startRepair(s) \in Structs
  BY ZenonT(30) DEF startRepair
<1>6. \A type : noteBatchState(s, type) \in Structs
  BY ZenonT(30) DEF noteBatchState
<1>7. ASSUME NEW f \in Failures PROVE WithFailure(s, f) \in Structs
  BY ZenonT(30) DEF WithFailure
<1>8. ASSUME NEW f \in Failures PROVE deferFailure(s, f) \in Structs
  BY ZenonT(30) DEF deferFailure
<1>9. ASSUME NEW h \in Exchanges PROVE setHidden(s, h) \in Structs
  <2> DEFINE u == [s EXCEPT !.hidden = h]
  <2>1. u \in Structs
    OBVIOUS
  <2> HIDE DEF u
  <2>2. beginExchange(u) \in Structs
    BY <2>1 DEF beginExchange
  <2> QED  BY <2>2 DEF setHidden, u
<1> HIDE DEF Structs
<1> QED  BY <1>1, <1>2, <1>3, <1>4, <1>5, <1>6, <1>7, <1>8, <1>9

\* A nonempty set of naturals has a least element.
LEMMA LeastNatural ==
  ASSUME NEW T \in SUBSET Nat, T # {}
  PROVE  \E x \in T : \A y \in T : x <= y
<1>1. PICK x \in T : \A y \in T : <<y, x>> \notin OpToRel(<, Nat)
  BY NatLessThanWellFounded, WFMin
<1>2. \A y \in T : ~(y < x)
  BY <1>1 DEF OpToRel
<1> QED  BY <1>2

\* f holds b and then, one after the other, what the steps make of it.
Iterate(f, S, n, b, step) ==
  /\ f \in [0 .. n -> S]
  /\ f[0] = b
  /\ \A i \in 1 .. n : f[i] = step[i][f[i - 1]]

\* Any steps on a set can be iterated: what a recursive function on 0 .. n needs
\* to be defined at all.
LEMMA Iterates ==
  ASSUME NEW S, NEW n \in Nat, NEW b \in S, NEW step \in [1 .. n -> [S -> S]]
  PROVE  \E f : Iterate(f, S, n, b, step)
<1> DEFINE Short == {m \in 0 .. n : ~ \E f : Iterate(f, S, m, b, step)}
<1>1. ASSUME Short # {} PROVE FALSE
  <2>0. Short \in SUBSET Nat
    OBVIOUS
  <2>1. PICK m \in Short : \A k \in Short : m <= k
    <3> HIDE DEF Short
    <3> QED  BY <1>1, <2>0, LeastNatural
  <2>2. m # 0
    <3>1. Iterate([i \in 0 .. 0 |-> b], S, 0, b, step)
      BY DEF Iterate
    <3> QED  BY <3>1
  <2>3. PICK g : Iterate(g, S, m - 1, b, step)
    BY <2>1, <2>2
  <2> DEFINE f == [i \in 0 .. m |-> IF i = m THEN step[m][g[m - 1]] ELSE g[i]]
  <2>4. f \in [0 .. m -> S]
    BY <2>1, <2>2, <2>3 DEF Iterate
  <2>5. f[0] = b
    BY <2>2, <2>3 DEF Iterate
  <2>6. ASSUME NEW i \in 1 .. m PROVE f[i] = step[i][f[i - 1]]
    <3>1. CASE i = m
      BY <3>1, <2>2
    <3>2. CASE i # m
      BY <3>2, <2>3 DEF Iterate
    <3> QED  BY <3>1, <3>2
  <2>7. Iterate(f, S, m, b, step)
    BY <2>4, <2>5, <2>6 DEF Iterate
  <2> QED  BY <2>1, <2>7
<1>2. n \notin Short
  BY <1>1
<1> QED  BY <1>2

\* What the first value of a sequence of steps satisfies and every step keeps
\* holds of all of them.
LEMMA Stays ==
  ASSUME NEW S, NEW n \in Nat, NEW f, f[0] \in S,
         \A i \in 1 .. n : f[i - 1] \in S => f[i] \in S
  PROVE  \A i \in 0 .. n : f[i] \in S
<1> DEFINE Out == {i \in 0 .. n : f[i] \notin S}
<1>1. ASSUME Out # {} PROVE FALSE
  <2>0. Out \in SUBSET Nat
    OBVIOUS
  <2>1. PICK m \in Out : \A k \in Out : m <= k
    <3> HIDE DEF Out
    <3> QED  BY <1>1, <2>0, LeastNatural
  <2>2. m - 1 \in 0 .. n /\ m - 1 \notin Out
    BY <2>1
  <2> QED  BY <2>1, <2>2
<1> QED  BY <1>1

\* RecordType without the start time.
LEMMA RecordTypes ==
  ASSUME NEW t \in Trackers, NEW k \in Kinds, NEW now \in Nat
  PROVE  Record(t, k, now) \in Trackers
<1>1. CASE k = "begin"
  BY <1>1 DEF Record, Began, Trackers
<1>2. CASE k \in {"commit", "rollback"}
  BY <1>2 DEF Record, Reset, Trackers
<1>3. CASE k = "ddl"
  BY <1>3 DEF Record, Trackers
<1>4. CASE k = "dml"
  BY <1>4 DEF Record, Trackers
<1>5. CASE k = "other"
  BY <1>5 DEF Record
<1> QED  BY <1>1, <1>2, <1>3, <1>4, <1>5 DEF Kinds

\* The reset outside a transaction keeps the type of the tracker.
LEMMA EnterType ==
  ASSUME NEW t \in Trackers
  PROVE  /\ Enter(t) \in Trackers
         /\ Enter(t).inTxn = t.inTxn /\ Enter(t).beganAt = t.beganAt
         /\ t.inTxn => Enter(t) = t
         /\ ~t.inTxn => Enter(t).ddlCount = 0 /\ Enter(t).dmlSeen = FALSE
BY DEF Enter, Reset, Trackers

\* Recorded satisfies its recursion, and its values are trackers.
LEMMA RecordedRuns ==
  ASSUME NEW t \in Trackers, NEW kinds \in Seq(Kinds), NEW now \in Nat
  PROVE  /\ Recorded(t, kinds, now) \in [0 .. Len(kinds) -> Trackers]
         /\ Recorded(t, kinds, now)[0] = t
         /\ \A n \in 1 .. Len(kinds) :
              Recorded(t, kinds, now)[n] = Record(Recorded(t, kinds, now)[n - 1], kinds[n], now)
<1> DEFINE Body(f) ==
             [n \in 0 .. Len(kinds) |->
                IF n = 0 THEN t
                ELSE Record(f[n - 1], kinds[n], now)]
           step == [n \in 1 .. Len(kinds) |-> [u \in Trackers |-> Record(u, kinds[n], now)]]
<1>1. step \in [1 .. Len(kinds) -> [Trackers -> Trackers]]
  BY RecordTypes
<1>2. t \in Trackers /\ Len(kinds) \in Nat
  OBVIOUS
<1> HIDE DEF step
<1>3. PICK f : Iterate(f, Trackers, Len(kinds), t, step)
  BY <1>1, <1>2, Iterates
<1>4. /\ f \in [0 .. Len(kinds) -> Trackers] /\ f[0] = t
      /\ \A i \in 1 .. Len(kinds) : f[i] = step[i][f[i - 1]]
  BY <1>3 DEF Iterate
<1>5. ASSUME NEW i \in 1 .. Len(kinds) PROVE f[i] = Record(f[i - 1], kinds[i], now)
  <2>1. i - 1 \in 0 .. Len(kinds)
    BY <1>2
  <2>2. f[i - 1] \in Trackers /\ f[i] = step[i][f[i - 1]]
    BY <1>4, <2>1
  <2> QED  BY <2>2 DEF step
<1>6. f = Body(f)
  BY <1>4, <1>5
<1> DEFINE g == Recorded(t, kinds, now)
<1>7. g = CHOOSE h : h = Body(h)
  BY DEF Recorded
<1>8. g = Body(g)
  BY <1>6, <1>7
<1> HIDE DEF g
<1>9. /\ g = [n \in 0 .. Len(kinds) |-> g[n]] /\ g[0] = t
      /\ \A n \in 1 .. Len(kinds) : g[n] = Record(g[n - 1], kinds[n], now)
  BY <1>8, <1>2
<1>10. \A n \in 0 .. Len(kinds) : g[n] \in Trackers
  <2>1. \A n \in 1 .. Len(kinds) : kinds[n] \in Kinds
    OBVIOUS
  <2>2. \A n \in 1 .. Len(kinds) : g[n - 1] \in Trackers => g[n] \in Trackers
    BY <1>9, <2>1, RecordTypes
  <2> QED  BY <1>2, <1>9, <2>2, Stays
<1> QED  BY <1>9, <1>10 DEF g

\* The classes of a batch's statements are statement kinds.
LEMMA KindsType ==
  ASSUME NEW stmts \in Seq(ClientStatements)
  PROVE  KindsOf(stmts) \in Seq(Kinds)
BY DEF KindsOf, KindOf, Kinds, ClientStatements, Effects

\* The tracker Admit leaves is a tracker, however many statements it is given.
LEMMA AdmitType ==
  ASSUME NEW t \in Trackers, NEW kinds \in Seq(Kinds)
  PROVE  Admit(t, kinds, 1).tracker \in Trackers
<1> DEFINE e == Enter(t)
<1>1. e \in Trackers
  BY EnterType, ZenonT(30)
<1>2. Recorded(e, kinds, 1)[Len(kinds)] \in Trackers
  BY <1>1, RecordedRuns
<1>3. Admit(t, kinds, 1).tracker \in {e, Recorded(e, kinds, 1)[Len(kinds)]}
  BY DEF Admit
<1> QED  BY <1>1, <1>2, <1>3

\* The tracker that is told of a rollback is a tracker.
LEMMA EscapedType ==
  ASSUME NEW t \in Trackers
  PROVE  Escaped(t) \in Trackers
<1>1. <<"rollback">> \in Seq(Kinds)
  BY DEF Kinds
<1> QED  BY <1>1, AdmitType, ZenonT(30) DEF Escaped

-----------------------------------------------------------------------------
(* Type correctness.                                                       *)

\* A session starts in its type.
LEMMA TypeInit == Init => TypeOK
<1> SUFFICES ASSUME Init PROVE TypeOK
  OBVIOUS
<1>1. NoRequest \in Asked /\ <<>> \in Seq(Asked) /\ <<>> \in Seq(Answers)
  BY SessionAssumption DEF NoRequest, Asked
<1>2. client \in Clients
  BY <1>1, SessionAssumption DEF Init, Clients
<1>3. FrontendOK
  BY DEF Init, FrontendOK
<1>4. BackendOK
  BY DEF Init, BackendOK
<1>5. tracker \in Trackers
  BY DEF Init, NewTracker, Trackers, ZeroTime
<1>6. st \in Structs
  BY DEF Init, Structs
<1>7. pg \in PgStates
  BY DEF Init, PgInit, PgStates
<1>8. fromClient \in Seq(Sent) /\ up \in Seq(Messages) /\ down \in Seq(Answers)
  BY DEF Init
<1> QED  BY <1>2, <1>3, <1>4, <1>5, <1>6, <1>7, <1>8 DEF TypeOK

\* A client that sends a request, numbered, keeps the types.
LEMMA ClientTypes ==
  ASSUME TypeOK, NEW r \in Requests[client.kind], ClientSends(r)
  PROVE  TypeOK'
<1> DEFINE id == (client.sent % IdSpace) + 1
           ask == [id |-> id, stmts |-> StatementsOf(r), ends |-> EndsATxn(r)]
           sent == [i \in DOMAIN r |-> [r[i] EXCEPT !.req = id]]
<1>1. client.kind \in DOMAIN Requests /\ client.sent \in 0 .. IdSpace
      /\ client.due \in Seq(Asked)
  BY DEF TypeOK, Clients
<1>2. id \in 1 .. IdSpace
  <2>1. IdSpace \in Nat /\ IdSpace > 0 /\ client.sent \in Nat
    BY <1>1, SessionAssumption
  <2>2. client.sent % IdSpace \in 0 .. IdSpace - 1
    BY <2>1
  <2> QED  BY <2>1, <2>2
<1>3. r \in Seq(ClientMessages)
  BY <1>1, SessionAssumption
<1>4. ask \in Asked
  <2>1. r \in UNION {Requests[k] : k \in DOMAIN Requests}
    BY <1>1
  <2>2. ask.stmts \in {StatementsOf(q) : q \in UNION {Requests[k] : k \in DOMAIN Requests}}
    BY <2>1
  <2> HIDE DEF id
  <2> QED  BY <1>2, <2>2 DEF Asked, EndsATxn
<1>5. sent \in Seq(Sent)
  <2>1. ASSUME NEW i \in DOMAIN r PROVE [r[i] EXCEPT !.req = id] \in Sent
    <3>1. r[i] \in ClientMessages
      BY <1>3
    <3> HIDE DEF id
    <3> QED  BY <1>2, <3>1 DEF ClientMessages, Sent
  <2> HIDE DEF id
  <2> QED  BY <1>3, <2>1
<1>6. fromClient' \in Seq(Sent)
  <2>1. fromClient' = fromClient \o sent
    BY DEF ClientSends
  <2> HIDE DEF sent
  <2> QED  BY <1>5, <2>1 DEF TypeOK
<1>7. client' \in Clients
  <2>1. NoRequest \in Asked
    BY SessionAssumption DEF NoRequest, Asked
  <2> DEFINE asked == IF client.due = <<>> THEN NoRequest ELSE client.asked
             got == IF client.due = <<>> THEN <<>> ELSE client.got
  <2>2. client' = [client EXCEPT !.sent = id, !.due = Append(client.due, ask), !.asked = asked,
                                 !.got = got]
    BY DEF ClientSends
  <2>3. asked \in Asked /\ got \in Seq(Answers)
    BY <2>1 DEF TypeOK, Clients
  <2>4. Append(client.due, ask) \in Seq(Asked)
    <3> HIDE DEF ask
    <3> QED  BY <1>1, <1>4
  <2>5. id \in 0 .. IdSpace
    BY <1>2, SessionAssumption
  <2> HIDE DEF asked, got, ask, id
  <2> QED  BY <2>2, <2>3, <2>4, <2>5, ZenonT(30) DEF TypeOK, Clients
<1>8. UNCHANGED <<fe, tracker, st, be, up, down, pg>>
  BY DEF ClientSends
<1> QED  BY <1>6, <1>7, <1>8 DEF TypeOK, FrontendOK, BackendOK

\* The answers the emulator makes up itself are answers.
LEMMA AnswerType ==
  ASSUME NEW req \in 0 .. IdSpace
  PROVE  /\ \A code \in {"rule", "txn", "25P02", "conflict", "error"} :
              Answer("E", code, req) \in Answers
         /\ \A b \in {"I", "T", "E"} : Answer("Z", b, req) \in Answers
         /\ \A s \in Texts : Answer("C", s, req) \in Answers
BY DEF Answer, Answers

\* A frontend that goes back to reading is a frontend.
LEMMA DoneTypes ==
  ASSUME FrontendOK, FrontendDone
  PROVE  FrontendOK'
<1>1. <<>> \in Seq(ClientStatements \cup {NoStatement})
  OBVIOUS
<1>2. fe' = [pc |-> "read", msg |-> None, stmts |-> <<>>, next |-> "read", failure |-> None]
  BY ZenonT(30) DEF FrontendOK, FrontendDone
<1> QED  BY <1>1, <1>2 DEF FrontendOK

\* A frontend that goes on to another stage of the same message is one.
LEMMA GoesTypes ==
  ASSUME FrontendOK, fe.pc \notin {"read", "sync", "forward"},
         NEW pc \in {"complete", "count", "ends", "reset", "arm", "inFlight", "forward"},
         NEW next \in {fe.next, "failed"}, fe' = [fe EXCEPT !.pc = pc, !.next = next]
  PROVE  FrontendOK'
BY ZenonT(30) DEF FrontendOK

\* A frontend that is to record a failure is one.
LEMMA FailsTypes ==
  ASSUME FrontendOK, fe.pc \notin {"read", "forward"}, NEW f \in Failures,
         fe.pc = "sync" => fe.stmts \in Seq(ClientStatements),
         fe' = [fe EXCEPT !.pc = "beginFailure", !.failure = f]
  PROVE  FrontendOK'
BY ZenonT(30) DEF FrontendOK

\* establishSavepoint leaves a frontend and a session.
LEMMA SavepointTypes ==
  ASSUME FrontendOK, st \in Structs, fe.pc \in {"handle", "arm"}, NEW wanted \in BOOLEAN,
         NEW next \in {"inFlight", "forward"}, EstablishSavepoint(wanted, next)
  PROVE  FrontendOK' /\ st' \in Structs
<1>1. CASE wanted /\ ~st.occSavepoint /\ HasRoom(st)
  <2>1. st' = [st EXCEPT !.occSavepoint = TRUE]
        /\ fe' = [fe EXCEPT !.pc = "savepoint", !.next = next]
    BY <1>1 DEF EstablishSavepoint
  <2>2. st' \in Structs
    BY <2>1, ZenonT(30) DEF Structs
  <2> QED  BY <2>1, <2>2, ZenonT(30) DEF FrontendOK
<1>2. CASE ~(wanted /\ ~st.occSavepoint /\ HasRoom(st))
  BY <1>2 DEF EstablishSavepoint, FrontendOK
<1> QED  BY <1>1, <1>2

\* A pump that does nothing keeps its type.
LEMMA SameTypes ==
  /\ FrontendOK /\ UNCHANGED fe => FrontendOK'
  /\ BackendOK /\ UNCHANGED be => BackendOK'
BY DEF FrontendOK, BackendOK

\* pumpFrontend's read, and what it decides of a message, keeps the types.
LEMMA FrontendReadTypes ==
  ASSUME TypeOK, FrontendRead
  PROVE  TypeOK'
<1> DEFINE m == Head(fromClient)
           stmts == IF m.type = "B" THEN <<st.statements[m.name]>> ELSE m.stmts
<1>1. m \in Sent /\ fromClient' \in Seq(Sent)
  BY DEF TypeOK, FrontendRead
<1>2. stmts \in Seq(ClientStatements \cup {NoStatement})
      /\ ((m.type = "B" => stmts # <<NoStatement>>) => stmts \in Seq(ClientStatements))
  <2>1. CASE m.type # "B"
    BY <1>1, <2>1 DEF Sent
  <2>2. CASE m.type = "B"
    <3>1. st.statements[m.name] \in ClientStatements \cup {NoStatement}
      BY <1>1 DEF TypeOK, Sent, Structs
    <3> QED  BY <2>2, <3>1
  <2> QED  BY <2>1, <2>2
<1>3. PICK pc \in {"read", "sync", "handle", "forward"} :
        /\ fe' = [fe EXCEPT !.msg = m, !.stmts = stmts, !.pc = pc]
        /\ pc = "sync" => m.type = "S"
        /\ pc = "handle" => m.type \in {"Q", "P"} \/ (m.type = "B" /\ stmts # <<NoStatement>>)
  <2> DEFINE pc == CASE m.type = "S" -> "sync"
                     [] m.type # "S" /\ st.skipSync -> "read"
                     [] ~st.skipSync /\ m.type \in {"Q", "P"} -> "handle"
                     [] ~st.skipSync /\ m.type = "B" /\ stmts # <<NoStatement>> -> "handle"
                     [] OTHER -> "forward"
  <2>1. fe' = [fe EXCEPT !.msg = m, !.stmts = stmts, !.pc = pc]
    BY DEF FrontendRead
  <2>2. /\ pc \in {"read", "sync", "handle", "forward"}
        /\ pc = "sync" => m.type = "S"
        /\ pc = "handle" => m.type \in {"Q", "P"} \/ (m.type = "B" /\ stmts # <<NoStatement>>)
    <3> HIDE DEF m, stmts
    <3> QED  OBVIOUS
  <2> HIDE DEF pc
  <2> QED  BY <2>1, <2>2, ZenonT(30)
<1>4. FrontendOK'
  <2> HIDE DEF m, stmts
  <2>1. m.type # "B" => stmts = m.stmts
    BY DEF stmts
  <2> QED  BY <1>1, <1>2, <1>3, <2>1, ZenonT(30) DEF TypeOK, FrontendOK
<1> QED  BY <1>1, <1>4, SameTypes DEF TypeOK, FrontendRead

\* A refusal keeps the types, whichever way it answers.
LEMMA RejectTypes ==
  ASSUME TypeOK, fe.pc = "handle", NEW code \in {"rule", "txn"}, Reject(code)
  PROVE  FrontendOK' /\ client' \in Clients /\ st' \in Structs
<1> DEFINE req == fe.msg.req
           left == IF fe.msg.type = "P"
                   THEN [st EXCEPT !.statements[fe.msg.name] = NoStatement] ELSE st
           noted == noteBatchState(left, fe.msg.type)
<1>1. fe.msg \in Sent /\ req \in 1 .. IdSpace /\ req \in 0 .. IdSpace
  BY SessionAssumption DEF TypeOK, FrontendOK, Sent
<1>2. client' \in Clients
  <2>1. client' = Deliver(client, Answer("E", code, req))
    BY DEF Reject, writeClient
  <2> QED  BY <1>1, <2>1, AnswerType, DeliverType DEF TypeOK
<1>3. left \in Structs
  <2>1. st \in Structs /\ fe.msg.name \in Names
    BY <1>1 DEF TypeOK, Sent
  <2> QED  BY <2>1, NameEdit
<1>4. noted \in Structs /\ [noted EXCEPT !.skipSync = TRUE] \in Structs
  <2> HIDE DEF left
  <2>1. noted \in Structs
    BY <1>3, StructEdits
  <2> HIDE DEF noted
  <2> QED  BY <2>1, ZenonT(30) DEF Structs
<1>5. Failure("abort", "E", 2, req) \in Failures /\ Failure("abort", "E", 1, req) \in Failures
  BY <1>1, FailureType
<1> DEFINE deferred == deferFailure(noted, Failure("abort", "E", 2, req))
<1>6. deferred \in Structs
  <2> HIDE DEF noted
  <2> QED  BY <1>4, <1>5, StructEdits
<1>7. \/ st' \in {deferred, [noted EXCEPT !.skipSync = TRUE]} /\ FrontendDone
      \/ st' = st /\ fe' = [fe EXCEPT !.pc = "beginFailure",
                                      !.failure = Failure("abort", "E", 1, req)]
      \/ st' = st /\ fe' = [fe EXCEPT !.pc = "complete"]
  BY DEF Reject
<1> HIDE DEF deferred, noted
<1>8. st' \in Structs
  BY <1>4, <1>6, <1>7, ZenonT(30) DEF TypeOK
<1>9. FrontendOK'
  <2>1. CASE FrontendDone
    BY <2>1, DoneTypes DEF TypeOK
  <2>2. CASE fe' = [fe EXCEPT !.pc = "beginFailure", !.failure = Failure("abort", "E", 1, req)]
    BY <1>5, <2>2, FailsTypes, ZenonT(30) DEF TypeOK
  <2>3. CASE fe' = [fe EXCEPT !.pc = "complete"]
    BY <2>3 DEF TypeOK, FrontendOK
  <2> QED  BY <1>7, <2>1, <2>2, <2>3
<1> QED  BY <1>2, <1>8, <1>9

\* forward keeps the types.
LEMMA ForwardTypes ==
  ASSUME TypeOK, Forward
  PROVE  TypeOK'
<1> DEFINE noted == noteBatchState(st, fe.msg.type)
           known == Remembered(noted, fe.msg, fe.stmts)
<1>1. fe.msg \in Sent /\ fe.msg \in Messages
  BY SentIsMessage DEF TypeOK, FrontendOK, Forward
<1>2. noted \in Structs
  BY StructEdits, ZenonT(30) DEF TypeOK
<1>3. known \in Structs
  <2>1. fe.msg.type = "P" => fe.stmts[1] \in ClientStatements
    BY <1>1 DEF TypeOK, FrontendOK, Forward, Sent
  <2> HIDE DEF noted
  <2> QED  BY <1>1, <1>2, <2>1, RememberedType
<1>4. st' \in Structs
  <2> HIDE DEF known
  <2> QED  BY <1>3, StructEdits DEF Forward, known, noted
<1>5. up' \in Seq(Messages) /\ FrontendOK'
  BY <1>1, DoneTypes DEF TypeOK, Forward
<1> QED  BY <1>4, <1>5, SameTypes DEF TypeOK, Forward

\* Every step of the frontend pump keeps the types.
LEMMA FrontendTypes ==
  ASSUME TypeOK, Frontend
  PROVE  TypeOK'
<1>0. /\ FrontendOK /\ BackendOK /\ client \in Clients /\ tracker \in Trackers
      /\ st \in Structs /\ pg \in PgStates
      /\ fromClient \in Seq(Sent) /\ up \in Seq(Messages) /\ down \in Seq(Answers)
  BY DEF TypeOK
<1>a. fe.pc # "read" =>
        /\ fe.msg \in Sent /\ fe.msg \in Messages
        /\ fe.msg.req \in 1 .. IdSpace /\ fe.msg.req \in 0 .. IdSpace
  BY <1>0, SessionAssumption, SentIsMessage DEF FrontendOK, Sent
<1>b. fe.pc \notin {"read", "sync", "forward"} => KindsOf(fe.stmts) \in Seq(Kinds)
  BY <1>0, KindsType DEF FrontendOK
<1>c. \A s \in Structs : [s EXCEPT !.skipSync = TRUE] \in Structs
  BY ZenonT(30) DEF Structs
<1>1. CASE FrontendRead
  BY <1>1, FrontendReadTypes
<1>2. CASE HandleSync
  <2> DEFINE s == [st EXCEPT !.pendingFailure = None, !.skipSync = FALSE]
  <2>1. s \in Structs
    BY <1>0, ZenonT(30) DEF Structs
  <2> HIDE DEF s
  <2>2. st' = noteBatchState(beginExchange(s), "S")
    BY <1>2 DEF HandleSync, s
  <2>3. st' \in Structs
    BY <2>1, <2>2, StructEdits, ZenonT(30)
  <2>4. FrontendOK'
    <3>1. CASE st.pendingFailure = None
      BY <1>0, <1>2, <3>1, DoneTypes DEF HandleSync
    <3>2. CASE st.pendingFailure # None
      <4>1. st.pendingFailure \in Failures
        BY <1>0, <3>2 DEF Structs
      <4>2. fe.stmts \in Seq(ClientStatements)
        BY <1>0, <1>2 DEF FrontendOK, HandleSync, Sent
      <4> QED  BY <1>0, <1>2, <3>2, <4>1, <4>2, FailsTypes, ZenonT(30) DEF HandleSync
    <3> QED  BY <3>1, <3>2
  <2> QED  BY <1>0, <1>2, <1>a, <2>3, <2>4, SameTypes DEF TypeOK, HandleSync
<1>3. CASE BeginFailure
  <2>1. fe.failure \in Failures
    BY <1>0, <1>3 DEF FrontendOK, BeginFailure
  <2>2. st' \in Structs
    BY <1>0, <1>3, <2>1, StructEdits, ZenonT(30) DEF BeginFailure
  <2>3. OwnQuery(<<fe.failure.statement>>) \in Messages
    BY <2>1, OwnQueryType DEF Failures, Texts, ClientStatements, OwnStatements
  <2> QED  BY <1>0, <1>3, <2>2, <2>3, DoneTypes, SameTypes DEF TypeOK, BeginFailure
<1>4. CASE RejectFailed
  <2>1. client' \in Clients
    BY <1>0, <1>4, <1>a, AnswerType, DeliverType DEF RejectFailed, writeClient
  <2>2. CASE Extended(fe.msg)
    BY <1>0, <1>4, <1>c, <2>1, <2>2, StructEdits, DoneTypes, SameTypes, ZenonT(30) DEF TypeOK, RejectFailed
  <2>3. CASE ~Extended(fe.msg)
    <3>1. FrontendOK'
      BY <1>0, <1>4, <2>3, GoesTypes DEF RejectFailed
    <3> QED  BY <1>0, <1>4, <2>1, <2>3, <3>1, SameTypes DEF TypeOK, RejectFailed
  <2> QED  BY <2>2, <2>3
<1>5. CASE EndAborted
  <2>1. FrontendOK'
    BY <1>0, <1>5 DEF FrontendOK, EndAborted
  <2>2. st' \in Structs /\ tracker' \in Trackers
    BY <1>0, <1>5, StructEdits, EscapedType DEF EndAborted
  <2> QED  BY <1>0, <1>5, <2>1, <2>2, SameTypes DEF TypeOK, EndAborted
<1>6. CASE CompleteExchange
  <2>1. (IF fe.next = "failed" THEN "E" ELSE st.txStatus) \in {"I", "T", "E"}
    BY <1>0 DEF Structs
  <2>2. client' \in Clients
    BY <1>0, <1>6, <1>a, <2>1, AnswerType, DeliverType DEF CompleteExchange, writeClient
  <2> QED  BY <1>0, <1>6, <2>2, StructEdits, DoneTypes, SameTypes, ZenonT(30) DEF TypeOK, CompleteExchange
<1>7. CASE ForwardUnparsed
  <2>1. FrontendOK'
    BY <1>0, <1>7 DEF FrontendOK, ForwardUnparsed
  <2> QED  BY <1>0, <1>7, <2>1, SameTypes DEF TypeOK, ForwardUnparsed
<1>8. CASE RejectStatement
  <2>1. FrontendOK' /\ client' \in Clients /\ st' \in Structs
    BY <1>8, RejectTypes DEF RejectStatement
  <2> QED  BY <1>0, <1>8, <2>1, SameTypes DEF TypeOK, RejectStatement, Reject
<1>9. CASE RefuseBatch
  <2>1. FrontendOK' /\ client' \in Clients /\ st' \in Structs
    BY <1>9, RejectTypes DEF RefuseBatch
  <2>2. tracker' \in Trackers
    BY <1>0, <1>9, <1>b, AdmitType DEF RefuseBatch
  <2> QED  BY <1>0, <1>9, <2>1, <2>2, SameTypes DEF TypeOK, RefuseBatch, Reject
<1>10. CASE AdmitBatch
  <2>1. FrontendOK'
    BY <1>0, <1>10 DEF FrontendOK, AdmitBatch
  <2>2. tracker' \in Trackers
    BY <1>0, <1>10, <1>b, AdmitType DEF AdmitBatch
  <2> QED  BY <1>0, <1>10, <2>1, <2>2, SameTypes DEF TypeOK, AdmitBatch
<1>11. CASE CountTxnStatement
  <2>1. PICK pc \in {"ends", "arm", "forward"} : fe' = [fe EXCEPT !.pc = pc]
    <3> DEFINE pc == CASE EndsTransaction(KindsOf(fe.stmts)) -> "ends"
                       [] ~EndsTransaction(KindsOf(fe.stmts)) /\ tracker.inTxn -> "arm"
                       [] OTHER -> "forward"
    <3>1. fe' = [fe EXCEPT !.pc = pc]
      BY <1>11 DEF CountTxnStatement
    <3>2. pc \in {"ends", "arm", "forward"}
      OBVIOUS
    <3> QED  BY <3>1, <3>2
  <2>2. FrontendOK'
    BY <1>0, <1>11, <2>1, ZenonT(30) DEF FrontendOK, CountTxnStatement
  <2>3. st' \in Structs
    <3>1. \A n \in Nat : [st EXCEPT !.occTxnStatements = n] \in Structs
      BY <1>0, ZenonT(30) DEF Structs
    <3>2. st.occTxnStatements + 1 \in Nat
      BY <1>0 DEF Structs
    <3>3. \/ st' = [st EXCEPT !.occTxnStatements = 0]
          \/ st' = [st EXCEPT !.occTxnStatements = st.occTxnStatements + 1]
      BY <1>11 DEF CountTxnStatement
    <3> QED  BY <3>1, <3>2, <3>3
  <2> QED  BY <1>0, <1>11, <2>2, <2>3, SameTypes DEF TypeOK, CountTxnStatement
<1>12. CASE OccFailure
  <2> DEFINE req == fe.msg.req
  <2>1. fe.pc = "ends" /\ req \in 1 .. IdSpace /\ req \in 0 .. IdSpace
    BY <1>12, <1>a DEF OccFailure
  <2>2. client' \in Clients
    BY <1>0, <1>12, <2>1, AnswerType, DeliverType DEF OccFailure, writeClient
  <2>3. \A n \in {1, 2} : Failure("rollback", "I", n, req) \in Failures
    BY <2>1, FailureType
  <2>4. CASE Extended(fe.msg)
    <3>1. st' \in Structs
      BY <1>0, <1>12, <2>3, <2>4, StructEdits, ZenonT(30) DEF OccFailure
    <3> QED  BY <1>0, <1>12, <2>2, <2>4, <3>1, DoneTypes, SameTypes DEF TypeOK, OccFailure
  <2>5. CASE ~Extended(fe.msg)
    <3>1. st' \in Structs
      BY <1>0, <1>12, <2>5, StructEdits DEF OccFailure
    <3>2. FrontendOK'
      BY <1>0, <1>12, <2>1, <2>3, <2>5, FailsTypes, ZenonT(30) DEF OccFailure
    <3> QED  BY <1>0, <1>12, <2>2, <3>1, <3>2, SameTypes DEF TypeOK, OccFailure
  <2> QED  BY <2>4, <2>5
<1>13. CASE NotAdjudicated
  <2>1. FrontendOK'
    BY <1>0, <1>13 DEF FrontendOK, NotAdjudicated
  <2> QED  BY <1>0, <1>13, <2>1, SameTypes DEF TypeOK, NotAdjudicated
<1>14. CASE ResetOcc
  <2>1. FrontendOK'
    BY <1>0, <1>14, ZenonT(30) DEF FrontendOK, ResetOcc
  <2> QED  BY <1>0, <1>14, <2>1, StructEdits, SameTypes DEF TypeOK, ResetOcc
<1>15. CASE ArmAdjudicator
  <2>1. FrontendOK' /\ st' \in Structs
    BY <1>0, <1>15, SavepointTypes DEF ArmAdjudicator, HasIntent
  <2> QED  BY <1>0, <1>15, <2>1, SameTypes DEF TypeOK, ArmAdjudicator
<1>16. CASE HandleParse
  <2>1. (HasIntent(fe.stmts) /\ tracker.inTxn) \in BOOLEAN
    OBVIOUS
  <2>2. FrontendOK' /\ st' \in Structs
    BY <1>0, <1>16, <2>1, SavepointTypes, ZenonT(30) DEF HandleParse
  <2> QED  BY <1>0, <1>16, <2>2, SameTypes DEF TypeOK, HandleParse
<1>17. CASE WriteSavepoint
  <2>1. HiddenExchange("savepoint", None) \in Exchanges
    BY DEF HiddenExchange, Exchanges
  <2>2. OwnQuery(<<"savepoint">>) \in Messages
    BY OwnQueryType DEF Texts, OwnStatements
  <2>3. FrontendOK'
    BY <1>0, <1>17 DEF FrontendOK, WriteSavepoint
  <2>4. st' \in Structs
    BY <1>0, <1>17, <2>1, StructEdits, ZenonT(30) DEF WriteSavepoint
  <2> QED  BY <1>0, <1>17, <2>2, <2>3, <2>4, SameTypes DEF TypeOK, WriteSavepoint
<1>18. CASE SetInFlight
  <2>1. FrontendOK'
    BY <1>0, <1>18, ZenonT(30) DEF FrontendOK, SetInFlight
  <2>2. HasIntent(fe.stmts) => inFlight(fe.msg, fe.stmts) \in Flights
    <3> SUFFICES ASSUME HasIntent(fe.stmts) PROVE inFlight(fe.msg, fe.stmts) \in Flights
      OBVIOUS
    <3>1. fe.stmts[1] \in ClientStatements /\ IntentOf(fe.stmts[1]) # "none"
      BY <1>0, <1>18 DEF FrontendOK, SetInFlight, HasIntent
    <3> QED  BY <1>18, <1>a, <3>1 DEF inFlight, Flights, Extended, SetInFlight
  <2>3. st' \in Structs
    <3>1. \A f \in Flights \cup {None} : [st EXCEPT !.occInFlight = f] \in Structs
      BY <1>0, ZenonT(30) DEF Structs
    <3> QED  BY <1>18, <2>2, <3>1 DEF SetInFlight, setInFlight
  <2> QED  BY <1>0, <1>18, <2>1, <2>3, SameTypes DEF TypeOK, SetInFlight
<1>19. CASE Forward
  BY <1>19, ForwardTypes
<1> QED
  BY <1>1, <1>2, <1>3, <1>4, <1>5, <1>6, <1>7, <1>8, <1>9, <1>10, <1>11, <1>12, <1>13,
     <1>14, <1>15, <1>16, <1>17, <1>18, <1>19 DEF Frontend

\* A backend that goes back to reading is a backend.
LEMMA BackendDoneTypes ==
  ASSUME BackendDone
  PROVE  BackendOK'
BY DEF BackendDone, BackendOK

\* Short tuples are sequences.
LEMMA Tuples ==
  ASSUME NEW S, NEW a \in S, NEW b \in S, NEW c \in S, NEW d \in S
  PROVE  /\ <<>> \in Seq(S) /\ Len(<<a>>) = 1
         /\ <<a>> \in Seq(S) /\ <<a, b>> \in Seq(S) /\ <<a, b, c, d>> \in Seq(S)
OBVIOUS

\* What a repair writes upstream is a sequence of messages.
LEMMA ShadowType ==
  ASSUME NEW flight, NEW shadow \in Shadows(flight)
  PROVE  shadow \in Seq(Messages)
<1>1. "shadow" \in Texts /\ 0 \in 0 .. IdSpace /\ "" \in Names
  BY SessionAssumption DEF Texts, OwnStatements, Names
<1>2. <<OwnQuery(<<"shadow">>)>> \in Seq(Messages)
  <2>1. OwnQuery(<<"shadow">>) \in Messages
    BY <1>1, OwnQueryType
  <2> QED  BY <2>1, Tuples
<1>3. extendedQuery("shadow") \in Seq(Messages)
  <2>1. <<"shadow">> \in Seq(Texts) /\ Len(<<"shadow">>) = 1 /\ <<>> \in Seq(Texts)
    BY <1>1, Tuples
  <2>2. \A t \in {"B", "E", "S"} : Message(t, "", <<>>, 0) \in Messages
    BY <1>1, <2>1 DEF Message, Messages
  <2>3. Message("P", "", <<"shadow">>, 0) \in Messages
    BY <1>1, <2>1 DEF Message, Messages
  <2> DEFINE p == Message("P", "", <<"shadow">>, 0)
             b == Message("B", "", <<>>, 0)
             e == Message("E", "", <<>>, 0)
             s == Message("S", "", <<>>, 0)
  <2>4. extendedQuery("shadow") = <<p, b, e, s>>
    BY DEF extendedQuery
  <2>5. p \in Messages /\ b \in Messages /\ e \in Messages /\ s \in Messages
    BY <2>2, <2>3
  <2> HIDE DEF p, b, e, s
  <2> QED  BY <2>4, <2>5, Tuples, ZenonT(30)
<1>4. shadow \in {<<OwnQuery(<<"shadow">>)>>, extendedQuery("shadow")}
  BY DEF Shadows
<1> QED  BY <1>2, <1>3, <1>4, ZenonT(30)

\* The answer a repair gives in the upstream's stead keeps the client's type.
LEMMA RepairAnswerTypes ==
  ASSUME client \in Clients, NEW flight \in Flights, RepairAnswer(flight)
  PROVE  client' \in Clients
<1>1. flight.stmt \in Texts /\ flight.req \in 0 .. IdSpace
  BY SessionAssumption DEF Flights, Texts
<1>2. Answer("C", flight.stmt, flight.req) \in Answers /\ Answer("Z", "T", flight.req) \in Answers
  BY <1>1, AnswerType
<1> QED  BY <1>2, DeliverType DEF RepairAnswer, writeClientBoth

\* Every step of the backend pump keeps the types.
LEMMA BackendTypes ==
  ASSUME TypeOK, Backend
  PROVE  TypeOK'
<1>0. /\ FrontendOK /\ BackendOK /\ client \in Clients /\ tracker \in Trackers
      /\ st \in Structs /\ pg \in PgStates
      /\ fromClient \in Seq(Sent) /\ up \in Seq(Messages) /\ down \in Seq(Answers)
  BY DEF TypeOK
<1>a. \A f \in Flights : f.stmt \in Texts /\ f.req \in 0 .. IdSpace /\ f.req \in 1 .. IdSpace
  BY SessionAssumption DEF Flights, Texts
<1>b. \A h \in Exchanges : h.kind # "savepoint" => h \in Repairs /\ h.flight \in Flights
  BY DEF Exchanges, Repairs
<1>1. CASE BackendRead
  <2>1. Head(down) \in Answers /\ down' \in Seq(Answers)
    BY <1>0, <1>1 DEF BackendRead
  <2>2. BackendOK'
    BY <1>0, <1>1, <2>1, ZenonT(30) DEF BackendRead, BackendOK
  <2>3. st' \in Structs
    BY <1>0, <1>1, StructEdits DEF BackendRead
  <2> QED  BY <1>0, <1>1, <2>1, <2>2, <2>3, SameTypes DEF TypeOK, BackendRead
<1>2. CASE ConsumeHidden
  <2> DEFINE h == [st.hidden EXCEPT !.failed = @ \/ be.msg.type = "E"]
  <2>1. st.hidden \in Exchanges
    BY <1>0, <1>2 DEF ConsumeHidden, Structs
  <2>2. h \in Exchanges /\ (h.kind = "rowset" => h.flight \in Flights)
    BY <2>1, ZenonT(30) DEF Exchanges, Repairs
  <2>3. st' \in Structs
    <3>1. \A g \in Exchanges : [st EXCEPT !.hidden = g] \in Structs
      BY <1>0, ZenonT(30) DEF Structs
    <3> QED  BY <1>2, <2>2, <3>1 DEF ConsumeHidden
  <2> HIDE DEF h
  <2>4. client' \in Clients
    BY <1>0, <1>2, <1>a, <2>2, AnswerType, DeliverType DEF ConsumeHidden, writeClient, h
  <2>5. be.msg \in Answers
    BY <1>0, <1>2 DEF BackendOK, ConsumeHidden
  <2>6. BackendOK'
    <3>1. CASE be' = [be EXCEPT !.pc = "unhide", !.hidden = h]
      BY <1>0, <2>2, <2>5, <3>1, ZenonT(30) DEF BackendOK
    <3> QED  BY <1>2, <3>1, BackendDoneTypes DEF ConsumeHidden, h
  <2> QED  BY <1>0, <1>2, <2>3, <2>4, <2>6, SameTypes DEF TypeOK, ConsumeHidden
<1>3. CASE NotHidden
  <2>1. BackendOK'
    BY <1>0, <1>3 DEF BackendOK, NotHidden, BackendAt
  <2> QED  BY <1>0, <1>3, <2>1, SameTypes DEF TypeOK, NotHidden
<1>4. CASE ClearHidden
  <2>1. BackendOK'
    BY <1>0, <1>4 DEF BackendOK, ClearHidden, BackendAt
  <2>2. st' \in Structs
    BY <1>0, <1>4, ZenonT(30) DEF Structs, ClearHidden
  <2> QED  BY <1>0, <1>4, <2>1, <2>2, SameTypes DEF TypeOK, ClearHidden
<1>5. CASE FinishSavepoint
  <2>1. [st EXCEPT !.occSavepoint = FALSE] \in Structs
    BY <1>0, ZenonT(30) DEF Structs
  <2> QED  BY <1>0, <1>5, <2>1, BackendDoneTypes, SameTypes DEF TypeOK, FinishSavepoint
<1>6. CASE FinishRestore
  <2> DEFINE flight == be.hidden.flight
             intent == IntentOf(flight.stmt)
  <2>1. flight \in Flights
    BY <1>0, <1>6, <1>b DEF BackendOK, FinishRestore
  <2>2. CASE intent = "rows"
    <3>1. client' \in Clients
      BY <1>0, <1>6, <2>1, <2>2, RepairAnswerTypes DEF FinishRestore
    <3> QED  BY <1>0, <1>6, <2>2, <3>1, BackendDoneTypes, SameTypes DEF TypeOK, FinishRestore
  <2>3. CASE intent # "rows"
    <3>1. intent \in {"count", "rowset"}
      BY <2>1, <2>3 DEF Flights, IntentOf
    <3>2. HiddenExchange(intent, flight) \in Exchanges
      BY <2>1, <3>1 DEF HiddenExchange, Exchanges, Repairs
    <3>3. st' \in Structs /\ UNCHANGED client
      BY <1>0, <1>6, <2>3, <3>2, StructEdits, ZenonT(30) DEF FinishRestore
    <3>4. PICK shadow \in Shadows(flight) : up' = up \o shadow
      BY <1>6, <2>3 DEF FinishRestore
    <3>5. shadow \in Seq(Messages)
      BY ShadowType
    <3>6. up' \in Seq(Messages)
      BY <1>0, <3>4, <3>5
    <3> QED  BY <1>0, <1>6, <3>3, <3>6, BackendDoneTypes, SameTypes DEF TypeOK, FinishRestore
  <2> QED  BY <2>2, <2>3
<1>7. CASE FinishShadow
  <2>1. be.hidden.flight \in Flights
    BY <1>0, <1>7, <1>b DEF BackendOK, FinishShadow
  <2>2. client' \in Clients
    <3>1. CASE be.hidden.kind = "count"
      BY <1>0, <1>7, <2>1, <3>1, RepairAnswerTypes DEF FinishShadow
    <3>2. CASE be.hidden.kind # "count"
      BY <1>0, <1>7, <1>a, <2>1, <3>2, AnswerType, DeliverType DEF FinishShadow, writeClient
    <3> QED  BY <3>1, <3>2
  <2> QED  BY <1>0, <1>7, <2>2, BackendDoneTypes, SameTypes DEF TypeOK, FinishShadow
<1>8. CASE FailRepair
  <2>1. be.hidden \in Repairs /\ be.hidden.flight \in Flights
    BY <1>0, <1>8, <1>b DEF BackendOK, FailRepair
  <2>2. client' \in Clients
    BY <1>0, <1>8, <1>a, <2>1, AnswerType, DeliverType DEF FailRepair, writeClient
  <2>3. st' \in Structs
    BY <1>0, <1>8, ZenonT(30) DEF FailRepair, Structs
  <2>4. BackendOK'
    BY <1>0, <1>8, <2>1 DEF BackendOK, FailRepair, BackendAt
  <2> QED  BY <1>0, <1>8, <2>2, <2>3, <2>4, SameTypes DEF TypeOK, FailRepair
<1>9. CASE FailTxn
  <2>1. be.hidden.flight \in Flights
    BY <1>0, <1>9, <1>b DEF BackendOK, FailTxn, Repairs
  <2>2. Failure("abort", "E", 1, be.hidden.flight.req) \in Failures
    BY <1>a, <2>1, FailureType
  <2>3. st' \in Structs
    BY <1>0, <1>9, <2>2, StructEdits, ZenonT(30) DEF FailTxn
  <2>4. OwnQuery(<<"abort">>) \in Messages
    BY OwnQueryType DEF Texts, OwnStatements
  <2> QED  BY <1>0, <1>9, <2>3, <2>4, BackendDoneTypes, SameTypes DEF TypeOK, FailTxn
<1>10. CASE ConsumeFailure
  <2> DEFINE rfqs == st.failureRFQs + 1
             done == be.msg.type = "Z" /\ Swallowed(st.failure, rfqs)
  <2>1. st.failure \in Failures
    BY <1>0, <1>10 DEF ConsumeFailure, Structs
  <2>2. ~Swallowed(st.failure, rfqs) => rfqs \in {0, 1}
    BY <1>0, <2>1 DEF Structs, Failures, Swallowed
  <2>3. st' \in Structs
    <3>1. [st EXCEPT !.failure = None, !.failureRFQs = 0] \in Structs
      BY <1>0, ZenonT(30) DEF Structs
    <3>2. \A n \in {0, 1} : [st EXCEPT !.failureRFQs = n] \in Structs
      BY <1>0, ZenonT(30) DEF Structs
    <3> HIDE DEF rfqs
    <3> QED  BY <1>0, <1>10, <2>2, <3>1, <3>2 DEF ConsumeFailure, rfqs
  <2>4. client' \in Clients
    <3>1. FailureReady(st.failure) \in Answers
      BY <2>1, SessionAssumption, AnswerType DEF FailureReady, Failures
    <3> QED  BY <1>0, <1>10, <3>1, DeliverType DEF ConsumeFailure, writeClient
  <2> QED  BY <1>0, <1>10, <2>3, <2>4, BackendDoneTypes, SameTypes DEF TypeOK, ConsumeFailure
<1>11. CASE NoFailure
  <2>1. BackendOK'
    BY <1>0, <1>11, ZenonT(30) DEF BackendOK, NoFailure, BackendAt
  <2> QED  BY <1>0, <1>11, <2>1, SameTypes DEF TypeOK, NoFailure
<1>12. CASE Relay
  <2>1. be.msg \in Answers /\ tracker.inTxn \in BOOLEAN
    BY <1>0, <1>12 DEF BackendOK, Relay, Trackers
  <2>2. client' \in Clients
    BY <1>0, <1>12, <2>1, DeliverType DEF Relay, writeClient
  <2>3. BackendOK'
    <3>1. CASE be' = [be EXCEPT !.pc = "intercept", !.inTxn = tracker.inTxn]
      BY <1>0, <2>1, <3>1, ZenonT(30) DEF BackendOK
    <3> QED  BY <1>12, <3>1, BackendDoneTypes DEF Relay
  <2> QED  BY <1>0, <1>12, <2>2, <2>3, SameTypes DEF TypeOK, Relay
<1>13. CASE OccIntercept
  <2>1. be.msg \in Answers
    BY <1>0, <1>13 DEF BackendOK, OccIntercept
  <2>2. client' \in Clients
    BY <1>0, <1>13, <2>1, DeliverType DEF OccIntercept, writeClient
  <2>3. st' \in Structs
    <3>1. [st EXCEPT !.occRepair = st.occInFlight, !.occInFlight = None] \in Structs
      BY <1>0, ZenonT(30) DEF Structs
    <3> QED  BY <1>0, <1>13, <3>1 DEF OccIntercept
  <2> QED  BY <1>0, <1>13, <2>2, <2>3, BackendDoneTypes, SameTypes DEF TypeOK, OccIntercept
<1>14. CASE ReadyForQuery
  <2>1. be.msg.what \in {"I", "T", "E"}
    BY <1>0, <1>14 DEF BackendOK, ReadyForQuery, Answers
  <2>2. CASE RepairPending(st)
    <3>1. st.occRepair \in Flights
      BY <1>0, <2>2 DEF RepairPending, Structs
    <3>2. HiddenExchange("restore", st.occRepair) \in Repairs
      BY <3>1 DEF HiddenExchange, Repairs
    <3>3. BackendOK'
      BY <1>0, <1>14, <2>2, <3>2, ZenonT(30) DEF BackendOK, ReadyForQuery, Exchanges
    <3> QED  BY <1>0, <1>14, <2>2, <3>3, StructEdits, SameTypes DEF TypeOK, ReadyForQuery
  <2>3. CASE ~RepairPending(st)
    <3>1. st' \in Structs
      BY <1>0, <1>14, <2>1, <2>3, ZenonT(30) DEF ReadyForQuery, Structs
    <3>2. BackendOK'
      BY <1>0, <1>14, <2>3 DEF BackendOK, ReadyForQuery, BackendAt
    <3> QED  BY <1>0, <1>14, <3>1, <3>2, SameTypes DEF TypeOK, ReadyForQuery
  <2> QED  BY <2>2, <2>3
<1>15. CASE StartRepair
  <2>1. be.hidden \in Exchanges
    BY <1>0, <1>15 DEF BackendOK, StartRepair, Exchanges
  <2>2. st' \in Structs
    BY <1>0, <1>15, <2>1, StructEdits, ZenonT(30) DEF StartRepair
  <2>3. \A q \in {<<"rollbackto">>, <<"rollback", "begin">>} : OwnQuery(q) \in Messages
    <3>1. "rollback" \in Texts /\ "begin" \in Texts /\ "rollbackto" \in Texts
      BY DEF Texts, OwnStatements, ClientStatements
    <3>2. <<"rollback", "begin">> \in Seq(Texts) /\ <<"rollbackto">> \in Seq(Texts)
      BY <3>1, Tuples
    <3> QED  BY <3>2, OwnQueryType, ZenonT(30)
  <2>4. up' \in Seq(Messages)
    BY <1>0, <1>15, <2>3 DEF StartRepair
  <2> QED  BY <1>0, <1>15, <2>2, <2>4, BackendDoneTypes, SameTypes DEF TypeOK, StartRepair
<1>16. CASE NoteTxStatus
  <2>1. be.msg \in Answers
    BY <1>0, <1>16 DEF BackendOK, NoteTxStatus
  <2>2. client' \in Clients
    BY <1>0, <1>16, <2>1, DeliverType DEF NoteTxStatus, writeClient
  <2>3. [st EXCEPT !.occSavepoint = FALSE, !.occDoomed = FALSE, !.occInFlight = None,
                   !.occTxnStatements = 0] \in Structs
    BY <1>0, ZenonT(30) DEF Structs
  <2> QED  BY <1>0, <1>16, <2>2, <2>3, BackendDoneTypes, SameTypes DEF TypeOK, NoteTxStatus
<1> QED
  BY <1>1, <1>2, <1>3, <1>4, <1>5, <1>6, <1>7, <1>8, <1>9, <1>10, <1>11, <1>12, <1>13,
     <1>14, <1>15, <1>16 DEF Backend

\* Every step of the upstream keeps the types.
LEMMA UpstreamTypes ==
  ASSUME TypeOK, Upstream
  PROVE  TypeOK'
<1>0. /\ FrontendOK /\ BackendOK /\ pg \in PgStates
      /\ up \in Seq(Messages) /\ down \in Seq(Answers)
  BY DEF TypeOK
<1>1. up # <<>>
  BY ZenonT(30) DEF Upstream, PgQuery, PgReady, PgExtended
<1> DEFINE m == Head(up)
<1>2. /\ m \in Messages /\ m = up[1] /\ Tail(up) \in Seq(Messages) /\ 1 \in DOMAIN up
      /\ m.req \in 0 .. IdSpace /\ m.name \in Names /\ m.stmts \in Seq(Texts)
  BY <1>0, <1>1 DEF Messages
<1>3. \A a \in Answers : Append(down, a) \in Seq(Answers)
  BY <1>0
<1>4. CASE PgQuery
  <2>1. PICK o \in PgOutcomes(pg, Head(m.stmts)) :
          /\ pg' = o.pg
          /\ down' = Append(down, PgAnswer(o, m.req))
          /\ up' = [up EXCEPT ![1].stmts = IF o.type = "E" THEN <<>> ELSE Tail(@)]
    BY <1>4, ZenonT(30) DEF PgQuery
  <2>2. m.type = "Q" /\ m.stmts # <<>> /\ Head(m.stmts) \in Texts /\ Tail(m.stmts) \in Seq(Texts)
    BY <1>2, <1>4 DEF PgQuery
  <2>3. pg' \in PgStates /\ down' \in Seq(Answers)
    BY <1>0, <1>2, <1>3, <2>1, <2>2, OutcomeType
  <2> DEFINE rest == IF o.type = "E" THEN <<>> ELSE Tail(m.stmts)
             left == [m EXCEPT !.stmts = rest]
  <2>4. left \in Messages
    <3>1. rest \in Seq(Texts)
      BY <2>2
    <3> HIDE DEF rest
    <3> QED  BY <1>2, <2>2, <3>1 DEF Messages
  <2>5. up' = [up EXCEPT ![1] = left]
    BY <1>2, <2>1
  <2>6. up' \in Seq(Messages)
    <3> HIDE DEF left
    <3> QED  BY <1>0, <1>2, <2>4, <2>5
  <2> QED  BY <1>4, <2>3, <2>6, SameTypes DEF TypeOK, PgQuery
<1>5. CASE PgReady
  <2>1. pg.block \in {"I", "T", "E"}
    BY <1>0 DEF PgStates
  <2>2. down' \in Seq(Answers)
    BY <1>2, <1>3, <1>5, <2>1, AnswerType DEF PgReady
  <2>3. PgSimple(pg) \in PgStates
    BY <1>0 DEF PgStates, PgSimple, Names
  <2>4. \A p \in PgStates : PgReadied(p) \in PgStates
    BY ZenonT(30) DEF PgStates, PgReadied, PgEndTxn
  <2>5. pg' \in PgStates
    BY <1>0, <1>5, <2>3, <2>4 DEF PgReady
  <2> QED  BY <1>2, <1>5, <2>2, <2>5, SameTypes DEF TypeOK, PgReady
<1>6. CASE PgExtended
  <2> DEFINE s == IF m.type = "B" THEN pg.prepared[m.name] ELSE pg.portal
  <2>1. s \in Texts \cup {NoStatement}
    BY <1>0, <1>2 DEF PgStates
  <2>2. m.type = "P" => m.stmts[1] \in Texts
    BY <1>2 DEF Messages
  <2>3. ASSUME PgFailExtended(m) PROVE pg' \in PgStates /\ down' \in Seq(Answers)
    <3> DEFINE code == IF pg.block = "E" THEN "25P02" ELSE "error"
               left == IF m.type = "P" /\ m.name = "" THEN PgSimple(pg) ELSE pg
               failed == PgError(left, code).pg
    <3>1. left \in PgStates
      BY <1>0 DEF PgStates, PgSimple, Names
    <3>2. failed \in PgStates
      <4> HIDE DEF left
      <4> QED  BY <3>1 DEF PgError, PgStates
    <3>3. pg' = [failed EXCEPT !.skip = TRUE] /\ down' = Append(down, Answer("E", code, m.req))
      BY <2>3 DEF PgFailExtended
    <3> HIDE DEF failed
    <3>4. pg' \in PgStates
      BY <3>2, <3>3, ZenonT(30) DEF PgStates
    <3> QED  BY <1>2, <1>3, <3>3, <3>4, AnswerType
  <2>4. ASSUME NEW name \in Names, NEW t \in Texts \cup {NoStatement}
        PROVE  [pg EXCEPT !.prepared[name] = t] \in PgStates /\ [pg EXCEPT !.portal = t] \in PgStates
    BY <1>0 DEF PgStates
  <2>5. pg' \in PgStates /\ down' \in Seq(Answers)
    <3>1. CASE pg.skip /\ UNCHANGED <<pg, down>>
      BY <1>0, <3>1
    <3>2. CASE m.type = "P" /\ ~pg.skip
      BY <1>0, <1>2, <1>6, <2>2, <2>3, <2>4, <3>2, ZenonT(30) DEF PgExtended
    <3>3. CASE m.type = "C" /\ ~pg.skip
      BY <1>0, <1>2, <1>6, <2>4, <3>3, ZenonT(30) DEF PgExtended
    <3>4. CASE m.type = "B" /\ ~pg.skip
      BY <1>0, <1>2, <1>6, <2>1, <2>3, <2>4, <3>4, ZenonT(30) DEF PgExtended
    <3>5. CASE m.type = "E" /\ ~pg.skip
      <4>1. PICK o \in PgOutcomes(pg, s) :
              /\ pg' = [o.pg EXCEPT !.skip = o.type = "E", !.portal = NoStatement]
              /\ down' = Append(down, PgAnswer(o, m.req))
        BY <1>6, <3>5, ZenonT(30) DEF PgExtended
      <4> HIDE DEF s
      <4>2. o.pg \in PgStates /\ PgAnswer(o, m.req) \in Answers
        BY <1>0, <1>2, <2>1, OutcomeType
      <4>3. pg' \in PgStates
        BY <4>1, <4>2, ZenonT(30) DEF PgStates
      <4> QED  BY <1>3, <4>1, <4>2, <4>3
    <3> QED  BY <1>6, <3>1, <3>2, <3>3, <3>4, <3>5, ZenonT(30) DEF PgExtended
  <2> QED  BY <1>2, <1>6, <2>5, SameTypes, ZenonT(30) DEF TypeOK, PgExtended
<1> QED  BY <1>4, <1>5, <1>6 DEF Upstream

\* Every step keeps the types.
LEMMA TypeStep ==
  ASSUME TypeOK, [Next]_vars
  PROVE  TypeOK'
<1>1. CASE UNCHANGED vars
  BY <1>1, SameTypes DEF TypeOK, vars
<1>2. CASE Next
  BY <1>2, ClientTypes, FrontendTypes, BackendTypes, UpstreamTypes DEF Next
<1> QED  BY <1>1, <1>2

\* Every state the session reaches has its type, whatever its clients send and
\* however they pipeline: each handler finds at hand what it works on.
THEOREM TypeCorrect == Spec => []TypeOK
BY TypeInit, TypeStep, PTL DEF Spec
=============================================================================
