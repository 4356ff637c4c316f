--------------------------- MODULE SessionProofs ---------------------------
(***************************************************************************)
(* What holds of Session beyond its types. First pendingExchanges is       *)
(* exactly the number of ReadyForQuerys the upstream still owes: every     *)
(* write upstream that draws one is counted up in the same step, every one *)
(* that is read is counted down, and the steps of the upstream move one    *)
(* from the messages to the answers. Then what a client in lock step gets: *)
(* every step keeps LockInv, from the facts of SessionLockStep about the   *)
(* steps of each process.                                                  *)
(***************************************************************************)
EXTENDS SessionTypes, FiniteSetTheorems

-----------------------------------------------------------------------------
(* Exchanges are counted right.                                            *)

\* How many elements of q are in P.
Count(q, P) == Cardinality({i \in DOMAIN q : q[i] \in P})

\* A count is a natural number.
LEMMA CountType ==
  ASSUME NEW S, NEW q \in Seq(S), NEW P
  PROVE  /\ IsFiniteSet({i \in DOMAIN q : q[i] \in P})
         /\ Count(q, P) \in Nat
<1>1. {i \in DOMAIN q : q[i] \in P} \in SUBSET (1 .. Len(q))
  OBVIOUS
<1>2. IsFiniteSet(1 .. Len(q))
  BY FS_Interval
<1> QED  BY <1>1, <1>2, FS_Subset, FS_CardinalityType DEF Count

\* Nothing is counted in an empty sequence.
LEMMA CountEmpty ==
  ASSUME NEW P
  PROVE  Count(<<>>, P) = 0
<1>1. {i \in DOMAIN <<>> : <<>>[i] \in P} = {}
  OBVIOUS
<1> QED  BY <1>1, FS_EmptySet DEF Count

\* Appending counts the element that was appended.
LEMMA CountAppend ==
  ASSUME NEW S, NEW q \in Seq(S), NEW P, NEW a \in S
  PROVE  Count(Append(q, a), P) = Count(q, P) + (IF a \in P THEN 1 ELSE 0)
<1> DEFINE Q == {i \in DOMAIN q : q[i] \in P}
           r == Append(q, a)
           R == {i \in DOMAIN r : r[i] \in P}
           n == Len(q) + 1
<1>1. IsFiniteSet(Q) /\ Cardinality(Q) \in Nat
  BY CountType DEF Count
<1>2. DOMAIN r = DOMAIN q \cup {n} /\ n \notin DOMAIN q /\ r[n] = a
      /\ \A i \in DOMAIN q : r[i] = q[i]
  OBVIOUS
<1> HIDE DEF r, n
<1>3. R = IF a \in P THEN Q \cup {n} ELSE Q
  BY <1>2
<1>4. n \notin Q
  BY <1>2
<1> HIDE DEF Q, R
<1>5. Cardinality(R) = Cardinality(Q) + (IF a \in P THEN 1 ELSE 0)
  <2>1. Cardinality(Q \cup {n}) = Cardinality(Q) + 1
    BY <1>1, <1>4, FS_AddElement, ZenonT(30)
  <2> QED  BY <1>1, <1>3, <2>1
<1> QED  BY <1>5, ZenonT(30) DEF Count, Q, R, r

\* Taking the head uncounts it.
LEMMA CountTail ==
  ASSUME NEW S, NEW q \in Seq(S), NEW P, q # <<>>
  PROVE  Count(q, P) = Count(Tail(q), P) + (IF Head(q) \in P THEN 1 ELSE 0)
<1> DEFINE Q == {i \in DOMAIN q : q[i] \in P}
           r == Tail(q)
           R == {i \in DOMAIN r : r[i] \in P}
           f == [i \in R |-> i + 1]
<1>1. IsFiniteSet(Q) /\ Cardinality(Q) \in Nat /\ IsFiniteSet(R) /\ Cardinality(R) \in Nat
  <2>1. r \in Seq(S)
    OBVIOUS
  <2> HIDE DEF r
  <2> QED  BY <2>1, CountType, ZenonT(30) DEF Count
<1>2. Head(q) = q[1] /\ 1 \in DOMAIN q
      /\ \A i \in Nat : i \in DOMAIN r <=> i # 0 /\ i + 1 \in DOMAIN q
  OBVIOUS
<1>3. \A i \in DOMAIN r : r[i] = q[i + 1]
  OBVIOUS
<1>4. DOMAIN q \subseteq Nat \ {0} /\ DOMAIN r \subseteq Nat \ {0}
  OBVIOUS
<1> HIDE DEF r
<1>5. f \in Bijection(R, Q \ {1})
  <2>1. f \in [R -> Q \ {1}]
    BY <1>2, <1>3, <1>4
  <2>2. \A i, j \in R : f[i] = f[j] => i = j
    BY <1>4
  <2>3. ASSUME NEW j \in Q \ {1} PROVE \E i \in R : f[i] = j
    <3>1. j - 1 \in R /\ f[j - 1] = j
      BY <1>2, <1>3, <1>4
    <3> QED  BY <3>1
  <2> HIDE DEF f, R, Q
  <2> QED  BY <2>1, <2>2, <2>3 DEF Bijection, Injection, IsInjective, Surjection
<1>6. Cardinality(Q \ {1}) = Cardinality(R)
  BY <1>1, <1>5, FS_Bijection DEF ExistsBijection
<1>7. 1 \in Q <=> Head(q) \in P
  BY <1>2
<1> HIDE DEF Q, R
<1>8. Cardinality(Q) = Cardinality(R) + (IF Head(q) \in P THEN 1 ELSE 0)
  <2>1. Cardinality(Q \ {1}) = IF 1 \in Q THEN Cardinality(Q) - 1 ELSE Cardinality(Q)
    BY <1>1, FS_RemoveElement, ZenonT(30)
  <2> QED  BY <1>1, <1>6, <1>7, <2>1
<1> QED  BY <1>8, ZenonT(30) DEF Count, Q, R, r

\* An edit of the head that leaves its class alone leaves the count alone.
LEMMA CountFirst ==
  ASSUME NEW S, NEW q \in Seq(S), NEW P, q # <<>>, NEW a \in S, a \in P <=> q[1] \in P
  PROVE  Count([q EXCEPT ![1] = a], P) = Count(q, P)
<1> DEFINE r == [q EXCEPT ![1] = a]
<1>1. {i \in DOMAIN r : r[i] \in P} = {i \in DOMAIN q : q[i] \in P}
  OBVIOUS
<1> QED  BY <1>1, ZenonT(30) DEF Count

\* The messages upstream that draw a ReadyForQuery, and the ReadyForQuerys.
Readies == {m \in Messages : DrawsReady(m)}

ReadyAnswers == {a \in Answers : a.type = "Z"}

\* The sets ExchangeAccounting measures are the counts of the two streams.
LEMMA Accounting ==
  ASSUME NEW u \in Seq(Messages), NEW d \in Seq(Answers)
  PROVE  /\ Cardinality({i \in DOMAIN u : DrawsReady(u[i])}) = Count(u, Readies)
         /\ Cardinality({i \in DOMAIN d : d[i].type = "Z"}) = Count(d, ReadyAnswers)
         /\ Count(u, Readies) \in Nat /\ Count(d, ReadyAnswers) \in Nat
<1>1. {i \in DOMAIN u : DrawsReady(u[i])} = {i \in DOMAIN u : u[i] \in Readies}
  BY DEF Readies
<1>2. {i \in DOMAIN d : d[i].type = "Z"} = {i \in DOMAIN d : d[i] \in ReadyAnswers}
  BY DEF ReadyAnswers
<1>3. Cardinality({i \in DOMAIN u : DrawsReady(u[i])}) = Count(u, Readies)
  BY <1>1, Zenon DEF Count
<1>4. Cardinality({i \in DOMAIN d : d[i].type = "Z"}) = Count(d, ReadyAnswers)
  BY <1>2, Zenon DEF Count
<1>5. Count(u, Readies) \in Nat /\ Count(d, ReadyAnswers) \in Nat
  BY CountType, ZenonT(30)
<1> QED  BY <1>3, <1>4, <1>5

\* Whatever a repair writes, it draws one ReadyForQuery.
LEMMA ShadowCount ==
  ASSUME NEW q \in Seq(Messages), NEW flight, NEW shadow \in Shadows(flight)
  PROVE  Count(q \o shadow, Readies) = Count(q, Readies) + 1
<1> DEFINE o == OwnQuery(<<"shadow">>)
           p == Message("P", "", <<"shadow">>, 0)
           b == Message("B", "", <<>>, 0)
           e == Message("E", "", <<>>, 0)
           s == Message("S", "", <<>>, 0)
<1>1. shadow = <<o>> \/ shadow = <<p, b, e, s>>
  BY DEF Shadows, extendedQuery
<1>2. o \in Messages /\ p \in Messages /\ b \in Messages /\ e \in Messages /\ s \in Messages
  <2>1. "shadow" \in Texts /\ 0 \in 0 .. IdSpace /\ "" \in Names
    BY SessionAssumption DEF Texts, OwnStatements, Names
  <2>2. <<"shadow">> \in Seq(Texts) /\ Len(<<"shadow">>) = 1 /\ <<>> \in Seq(Texts)
    BY <2>1, Tuples, ZenonT(30)
  <2> QED  BY <2>1, <2>2, OwnQueryType DEF Message, Messages
<1>3. /\ o \in Readies /\ s \in Readies
      /\ p \notin Readies /\ b \notin Readies /\ e \notin Readies
  BY <1>2 DEF Readies, DrawsReady, OwnQuery, Message
<1> HIDE DEF o, p, b, e, s
<1>4. Count(q, Readies) \in Nat
  BY CountType, ZenonT(30)
<1>5. CASE shadow = <<o>>
  <2>1. q \o shadow = Append(q, o)
    BY <1>2, <1>5
  <2> QED  BY <1>2, <1>3, <2>1, CountAppend
<1>6. CASE shadow = <<p, b, e, s>>
  <2> DEFINE q1 == Append(q, p)
             q2 == Append(q1, b)
             q3 == Append(q2, e)
  <2>1. q \o shadow = Append(q3, s)
    BY <1>2, <1>6
  <2>2. q1 \in Seq(Messages) /\ q2 \in Seq(Messages) /\ q3 \in Seq(Messages)
    BY <1>2
  <2>3. Count(q1, Readies) = Count(q, Readies)
    BY <1>2, <1>3, <1>4, CountAppend
  <2> HIDE DEF q1
  <2>4. Count(q2, Readies) = Count(q, Readies)
    BY <1>2, <1>3, <1>4, <2>2, <2>3, CountAppend
  <2> HIDE DEF q2
  <2>5. Count(q3, Readies) = Count(q, Readies)
    BY <1>2, <1>3, <1>4, <2>2, <2>4, CountAppend
  <2> HIDE DEF q3
  <2> QED  BY <1>2, <1>3, <1>4, <2>1, <2>2, <2>5, CountAppend
<1> QED  BY <1>1, <1>5, <1>6

\* ... one for each message they write upstream that draws a ReadyForQuery, and
\* the backend ends one for each ReadyForQuery it reads.
LEMMA AccountingStep ==
  ASSUME TypeOK, TypeOK', ExchangeAccounting, [Next]_vars
  PROVE  ExchangeAccounting'
<1> DEFINE n == st.pendingExchanges
           U(u) == Count(u, Readies)
           D(d) == Count(d, ReadyAnswers)
<1>0. /\ up \in Seq(Messages) /\ down \in Seq(Answers) /\ st \in Structs
      /\ up' \in Seq(Messages) /\ down' \in Seq(Answers) /\ st' \in Structs
  BY DEF TypeOK
<1>1. n = U(up) + D(down) /\ n \in Nat /\ U(up) \in Nat /\ D(down) \in Nat
  BY <1>0, Accounting, EditsCount DEF ExchangeAccounting
<1>2. SUFFICES n' = U(up') + D(down')
  BY <1>0, Accounting DEF ExchangeAccounting
<1>3. ASSUME NEW m \in Readies, up' = Append(up, m), down' = down, n' = n + 1
      PROVE  n' = U(up') + D(down')
  <2>1. m \in Messages
    BY DEF Readies
  <2>2. U(up') = U(up) + 1
    BY <1>0, <1>3, <2>1, CountAppend
  <2> QED  BY <1>1, <1>3, <2>2
<1>4. \A s \in Seq(Texts) : OwnQuery(s) \in Readies
  BY OwnQueryType DEF Readies, DrawsReady, OwnQuery, Message
<1>5. \A s \in Texts : OwnQuery(<<s>>) \in Readies
  BY <1>4, Tuples, ZenonT(30)
<1>6. {"abort", "rollback", "savepoint", "rollbackto", "begin"} \subseteq Texts
  BY DEF Texts, ClientStatements, OwnStatements
<1>7. fe.pc # "read" => fe.msg \in Messages /\ (DrawsReady(fe.msg) => fe.msg \in Readies)
  BY SentIsMessage DEF TypeOK, FrontendOK, Readies
<1> HIDE DEF U, D
<1>8. CASE UNCHANGED <<up, down>> /\ n' = n
  BY <1>1, <1>8
<1>9. ASSUME NEW r, ClientSends(r) PROVE UNCHANGED <<up, down>> /\ n' = n
  BY <1>9 DEF ClientSends
<1>10. CASE Frontend
  <2>1. CASE HandleSync
    <3> DEFINE s == [st EXCEPT !.pendingFailure = None, !.skipSync = FALSE]
    <3>1. s \in Structs /\ s.pendingExchanges = n
      BY <1>0, ZenonT(30) DEF Structs
    <3> HIDE DEF s
    <3>2. st' = noteBatchState(beginExchange(s), "S")
      BY <2>1 DEF HandleSync, s
    <3>3. n' = n + 1
      <4>1. beginExchange(s) \in Structs /\ beginExchange(s).pendingExchanges = n + 1
        BY <3>1, StructEdits, EditsCount, ZenonT(30)
      <4> QED  BY <3>2, <4>1, EditsCount
    <3>4. fe.msg \in Readies
      BY <1>7, <2>1 DEF HandleSync, TypeOK, FrontendOK, DrawsReady
    <3> QED  BY <1>3, <2>1, <3>3, <3>4 DEF HandleSync
  <2>2. CASE BeginFailure
    <3>1. fe.failure \in Failures
      BY <2>2 DEF BeginFailure, TypeOK, FrontendOK
    <3>2. OwnQuery(<<fe.failure.statement>>) \in Readies
      BY <1>5, <1>6, <3>1 DEF Failures
    <3> DEFINE a == noteBatchState(st, fe.msg.type)
               b == WithFailure(a, fe.failure)
    <3>a. a \in Structs /\ a.pendingExchanges = n
      BY <1>0, StructEdits, EditsCount, ZenonT(30)
    <3> HIDE DEF a
    <3>b. b \in Structs /\ b.pendingExchanges = n
      BY <3>1, <3>a, StructEdits, EditsCount, ZenonT(30)
    <3>c. st' = beginExchange(b)
      BY <2>2 DEF BeginFailure, a
    <3> HIDE DEF b
    <3>3. n' = n + 1
      BY <3>b, <3>c, EditsCount
    <3> QED  BY <1>3, <2>2, <3>2, <3>3 DEF BeginFailure
  <2>3. CASE WriteSavepoint
    <3>1. n' = n + 1
      BY <1>0, <2>3, EditsCount DEF WriteSavepoint
    <3> QED  BY <1>3, <1>5, <1>6, <2>3, <3>1 DEF WriteSavepoint
  <2>4. CASE Forward
    <3> DEFINE known == Remembered(noteBatchState(st, fe.msg.type), fe.msg, fe.stmts)
    <3>1. noteBatchState(st, fe.msg.type) \in Structs
      BY <1>0, StructEdits, ZenonT(30)
    <3>2. known.pendingExchanges = n
      BY <1>0, <3>1, EditsCount
    <3>3. known \in Structs
      <4>1. fe.msg \in Sent /\ (fe.msg.type = "P" => fe.stmts[1] \in ClientStatements)
        BY <2>4 DEF Forward, TypeOK, FrontendOK, Sent
      <4> QED  BY <3>1, <4>1, RememberedType
    <3>4. st' = (IF DrawsReady(fe.msg) THEN beginExchange(known) ELSE known)
          /\ up' = Append(up, fe.msg) /\ down' = down /\ fe.pc = "forward"
      BY <2>4 DEF Forward
    <3> HIDE DEF known
    <3>5. CASE DrawsReady(fe.msg)
      <4>1. n' = n + 1
        BY <3>2, <3>3, <3>4, <3>5, EditsCount
      <4> QED  BY <1>3, <1>7, <3>4, <3>5, <4>1
    <3>6. CASE ~DrawsReady(fe.msg)
      <4>1. fe.msg \in Messages /\ fe.msg \notin Readies
        BY <1>7, <3>4, <3>6 DEF Readies
      <4>2. U(up') = U(up)
        BY <1>0, <1>1, <3>4, <4>1, CountAppend DEF U
      <4> QED  BY <1>1, <3>2, <3>4, <3>6, <4>2
    <3> QED  BY <3>5, <3>6
  <2>5. ASSUME ~HandleSync, ~BeginFailure, ~WriteSavepoint, ~Forward
        PROVE  UNCHANGED <<up, down>> /\ n' = n
    <3>1. CASE FrontendRead \/ ForwardUnparsed \/ AdmitBatch \/ NotAdjudicated
      BY <3>1 DEF FrontendRead, ForwardUnparsed, AdmitBatch, NotAdjudicated
    <3>2. CASE RejectFailed
      BY <1>0, <3>2, EditsCount, StructEdits DEF RejectFailed, Structs
    <3>3. CASE EndAborted
      BY <1>0, <3>3, EditsCount DEF EndAborted
    <3>4. CASE CompleteExchange
      BY <1>0, <3>4, EditsCount DEF CompleteExchange
    <3>5. ASSUME NEW code, Reject(code) PROVE UNCHANGED <<up, down>> /\ n' = n
      <4> DEFINE left == IF fe.msg.type = "P"
                         THEN [st EXCEPT !.statements[fe.msg.name] = NoStatement] ELSE st
                 noted == noteBatchState(left, fe.msg.type)
                 deferred == deferFailure(noted, Failure("abort", "E", 2, fe.msg.req))
      <4>1. left.pendingExchanges = n
        BY <1>0 DEF Structs
      <4>2. noted.pendingExchanges = n /\ DOMAIN noted = DOMAIN st
        BY <1>0 DEF Structs, noteBatchState
      <4> HIDE DEF noted
      <4>3. [noted EXCEPT !.skipSync = TRUE].pendingExchanges = n
            /\ deferred.pendingExchanges = n
        BY <4>2 DEF deferFailure
      <4>4. st' \in {st, deferred, [noted EXCEPT !.skipSync = TRUE]}
            /\ UNCHANGED <<up, down>>
        BY <3>5 DEF Reject, noted
      <4> HIDE DEF deferred
      <4> QED  BY <4>3, <4>4, ZenonT(30)
    <3>6. CASE RejectStatement \/ RefuseBatch
      BY <3>5, <3>6 DEF RejectStatement, RefuseBatch
    <3>7. CASE CountTxnStatement
      BY <1>0, <3>7 DEF CountTxnStatement, Structs
    <3>8. CASE OccFailure
      <4> DEFINE a == resetOcc(st)
                 b == noteBatchState(a, fe.msg.type)
                 c == deferFailure(b, Failure("rollback", "I", 2, fe.msg.req))
      <4>1. a \in Structs /\ a.pendingExchanges = n
        BY <1>0, StructEdits, EditsCount
      <4> HIDE DEF a
      <4>2. b \in Structs /\ b.pendingExchanges = n
        BY <4>1, StructEdits, EditsCount, ZenonT(30)
      <4> HIDE DEF b
      <4>3. c.pendingExchanges = n
        BY <4>2, EditsCount
      <4>4. st' \in {a, c} /\ UNCHANGED <<up, down>>
        BY <3>8 DEF OccFailure, a, b
      <4> HIDE DEF c
      <4> QED  BY <4>1, <4>3, <4>4
    <3>9. CASE ResetOcc
      BY <1>0, <3>9, EditsCount DEF ResetOcc
    <3>10. CASE ArmAdjudicator \/ HandleParse
      BY <1>0, <3>10 DEF ArmAdjudicator, HandleParse, EstablishSavepoint, Structs
    <3>11. CASE SetInFlight
      BY <1>0, <3>11, EditsCount DEF SetInFlight
    <3> QED  BY <1>10, <2>5, <3>1, <3>2, <3>3, <3>4, <3>6, <3>7, <3>8, <3>9, <3>10, <3>11
                DEF Frontend
  <2> QED  BY <1>8, <2>1, <2>2, <2>3, <2>4, <2>5
<1>11. CASE Backend
  <2>1. CASE BackendRead
    <3>1. up' = up /\ down' = Tail(down) /\ down # <<>> /\ Head(down) \in Answers
          /\ st' = IF Head(down).type = "Z" THEN endExchange(st) ELSE st
      BY <1>0, <2>1 DEF BackendRead
    <3>2. D(down) = D(down') + (IF Head(down) \in ReadyAnswers THEN 1 ELSE 0) /\ D(down') \in Nat
      BY <1>0, <3>1, CountTail, CountType, ZenonT(30) DEF D
    <3>3. CASE Head(down).type = "Z"
      <4>1. n > 0 /\ Head(down) \in ReadyAnswers
        BY <1>1, <3>1, <3>2, <3>3 DEF ReadyAnswers
      <4>2. n' = n - 1
        BY <1>0, <3>1, <3>3, <4>1, EditsCount
      <4> QED  BY <1>1, <3>1, <3>2, <4>1, <4>2
    <3>4. CASE Head(down).type # "Z"
      <4>1. Head(down) \notin ReadyAnswers
        BY <3>4 DEF ReadyAnswers
      <4> QED  BY <1>1, <3>1, <3>2, <3>4, <4>1
    <3> QED  BY <3>3, <3>4
  <2>2. CASE FinishRestore
    <3> DEFINE flight == be.hidden.flight
    <3>1. CASE IntentOf(flight.stmt) = "rows"
      BY <1>8, <2>2, <3>1 DEF FinishRestore
    <3>2. CASE IntentOf(flight.stmt) # "rows"
      <4>1. PICK shadow \in Shadows(flight) : up' = up \o shadow
        BY <2>2, <3>2 DEF FinishRestore
      <4>2. U(up') = U(up) + 1
        BY <1>0, <4>1, ShadowCount DEF U
      <4>3. n' = n + 1 /\ down' = down
        <5>1. st' = setHidden(st, HiddenExchange(IntentOf(flight.stmt), flight)) /\ down' = down
          BY <2>2, <3>2, ZenonT(30) DEF FinishRestore
        <5> QED  BY <1>0, <5>1, EditsCount
      <4> QED  BY <1>1, <4>2, <4>3
    <3> QED  BY <3>1, <3>2
  <2>3. CASE FailTxn
    <3>1. n' = n + 1
      <4> DEFINE s == WithFailure(st, Failure("abort", "E", 1, be.hidden.flight.req))
      <4>1. s.pendingExchanges = n /\ DOMAIN s = DOMAIN st
        BY <1>0 DEF WithFailure, Structs
      <4>2. st' = beginExchange(s) /\ "pendingExchanges" \in DOMAIN st
        BY <1>0, <2>3 DEF FailTxn, Structs
      <4> HIDE DEF s
      <4> QED  BY <4>1, <4>2 DEF beginExchange
    <3> QED  BY <1>3, <1>5, <1>6, <2>3, <3>1 DEF FailTxn
  <2>4. CASE StartRepair
    <3>1. n' = n + 1
      BY <1>0, <2>4, EditsCount DEF StartRepair
    <3>2. <<"rollbackto">> \in Seq(Texts) /\ <<"rollback", "begin">> \in Seq(Texts)
      BY <1>6, Tuples
    <3>3. PICK q \in Seq(Texts) : up' = Append(up, OwnQuery(q))
      BY <2>4, <3>2, ZenonT(30) DEF StartRepair
    <3> QED  BY <1>3, <1>4, <2>4, <3>1, <3>3 DEF StartRepair
  <2>5. ASSUME ~BackendRead, ~FinishRestore, ~FailTxn, ~StartRepair
        PROVE  UNCHANGED <<up, down>> /\ n' = n
    <3>1. CASE ConsumeHidden
      BY <1>0, <3>1 DEF ConsumeHidden, Structs
    <3>2. CASE NotHidden \/ FinishShadow \/ NoFailure \/ Relay
      BY <3>2 DEF NotHidden, FinishShadow, NoFailure, Relay
    <3>3. CASE ClearHidden \/ FinishSavepoint \/ FailRepair
      BY <1>0, <3>3 DEF ClearHidden, FinishSavepoint, FailRepair, Structs
    <3>4. CASE ConsumeFailure
      BY <1>0, <3>4 DEF ConsumeFailure, Structs
    <3>5. CASE OccIntercept
      BY <1>0, <3>5, ZenonT(30) DEF OccIntercept, Structs
    <3>6. CASE ReadyForQuery
      BY <1>0, <3>6, EditsCount DEF ReadyForQuery, Structs
    <3>7. CASE NoteTxStatus
      BY <1>0, <3>7 DEF NoteTxStatus, Structs
    <3> QED  BY <1>11, <2>5, <3>1, <3>2, <3>3, <3>4, <3>5, <3>6, <3>7 DEF Backend
  <2> QED  BY <1>8, <2>1, <2>2, <2>3, <2>4, <2>5
<1>12. CASE Upstream
  <2>1. n' = n
    BY <1>12, ZenonT(30) DEF Upstream, PgQuery, PgReady, PgExtended
  <2>2. up # <<>> /\ Head(up) = up[1] /\ Head(up) \in Messages
    <3>1. up # <<>>
      BY <1>12, ZenonT(30) DEF Upstream, PgQuery, PgReady, PgExtended
    <3> QED  BY <1>0, <3>1
  <2>3. ASSUME NEW a \in Answers, a.type # "Z" PROVE D(Append(down, a)) = D(down)
    <3>1. a \notin ReadyAnswers
      BY <2>3 DEF ReadyAnswers
    <3> QED  BY <1>0, <1>1, <2>3, <3>1, CountAppend DEF D
  <2>4. ASSUME NEW s \in Texts \cup {NoStatement}, NEW o \in PgOutcomes(pg, s)
        PROVE  D(Append(down, PgAnswer(o, Head(up).req))) = D(down)
    <3>1. PgAnswer(o, Head(up).req) \in Answers /\ PgAnswer(o, Head(up).req).type # "Z"
      BY <2>2, OutcomeType, ZenonT(30) DEF TypeOK, Messages, PgAnswer
    <3> QED  BY <2>3, <3>1
  <2>5. CASE PgQuery
    <3>1. PICK o \in PgOutcomes(pg, Head(Head(up).stmts)) :
            /\ down' = Append(down, PgAnswer(o, Head(up).req))
            /\ up' = [up EXCEPT ![1].stmts = IF o.type = "E" THEN <<>> ELSE Tail(@)]
      BY <2>5, ZenonT(30) DEF PgQuery
    <3>2. Head(Head(up).stmts) \in Texts
      BY <2>2, <2>5 DEF PgQuery, Messages
    <3>3. D(down') = D(down)
      BY <2>4, <3>1, <3>2
    <3> DEFINE m == Head(up)
               left == [m EXCEPT !.stmts = IF o.type = "E" THEN <<>> ELSE Tail(@)]
    <3>4. up' = [up EXCEPT ![1] = left] /\ 1 \in DOMAIN up
      <4>1. 1 \in DOMAIN up /\ m = up[1]
        BY <1>0, <2>2
      <4> QED  BY <3>1, <4>1
    <3>5. left = up'[1] /\ left \in Messages
      BY <1>0, <3>4
    <3>6. left.type = m.type
      BY <2>2 DEF Messages
    <3>7. left \in Readies <=> up[1] \in Readies
      BY <2>2, <3>5, <3>6, ZenonT(30) DEF Readies, DrawsReady
    <3> HIDE DEF left
    <3>8. U(up') = U(up)
      <4>1. Count([up EXCEPT ![1] = left], Readies) = Count(up, Readies)
        BY <1>0, <2>2, <3>5, <3>7, CountFirst
      <4> QED  BY <3>4, <4>1 DEF U
    <3> QED  BY <1>1, <2>1, <3>3, <3>8
  <2>6. CASE PgReady
    <3> DEFINE a == Answer("Z", pg.block, Head(up).req)
    <3>1. up' = Tail(up) /\ down' = Append(down, a) /\ Head(up) \in Readies
      BY <2>2, <2>6 DEF PgReady, Readies
    <3>2. a \in ReadyAnswers /\ a \in Answers
      BY <2>2, AnswerType, ZenonT(30) DEF TypeOK, PgStates, Messages, ReadyAnswers, Answer
    <3> HIDE DEF a
    <3>3. U(up) = U(up') + 1 /\ U(up') \in Nat
      BY <1>0, <2>2, <3>1, CountTail, CountType, ZenonT(30) DEF U
    <3>4. D(down') = D(down) + 1
      BY <1>0, <3>1, <3>2, CountAppend DEF D
    <3> QED  BY <1>1, <2>1, <3>3, <3>4
  <2>7. CASE PgExtended
    <3>1. up' = Tail(up) /\ Head(up) \notin Readies
      BY <2>7, ZenonT(30) DEF PgExtended, Readies
    <3>2. U(up) = U(up') /\ U(up') \in Nat
      <4>1. Count(up, Readies) = Count(Tail(up), Readies) + 0
        BY <1>0, <2>2, <3>1, CountTail
      <4>2. Count(up', Readies) \in Nat
        BY <1>0, CountType, ZenonT(30)
      <4> QED  BY <3>1, <4>1, <4>2 DEF U
    <3>3. PgFailExtended(Head(up)) => D(down') = D(down)
      <4> SUFFICES ASSUME PgFailExtended(Head(up)) PROVE D(down') = D(down)
        OBVIOUS
      <4>1. PICK code \in {"25P02", "error"} : down' = Append(down, Answer("E", code, Head(up).req))
        BY DEF PgFailExtended
      <4>2. Answer("E", code, Head(up).req) \in Answers /\ Answer("E", code, Head(up).req).type # "Z"
        BY <2>2, AnswerType, ZenonT(30) DEF Messages, Answer
      <4> QED  BY <2>3, <4>1, <4>2
    <3>4. ASSUME Head(up).type = "E", ~pg.skip PROVE D(down') = D(down)
      <4>1. PICK o \in PgOutcomes(pg, pg.portal) : down' = Append(down, PgAnswer(o, Head(up).req))
        BY <2>7, <3>4, ZenonT(30) DEF PgExtended
      <4>2. pg.portal \in Texts \cup {NoStatement}
        BY DEF TypeOK, PgStates
      <4> QED  BY <2>4, <4>1, <4>2
    <3>5. D(down') = D(down)
      BY <2>7, <3>3, <3>4, ZenonT(30) DEF PgExtended
    <3> QED  BY <1>1, <2>1, <3>2, <3>5
  <2> QED  BY <1>12, <2>5, <2>6, <2>7 DEF Upstream
<1>13. CASE UNCHANGED vars
  BY <1>8, <1>13 DEF vars
<1> QED  BY <1>8, <1>9, <1>10, <1>11, <1>12, <1>13 DEF Next

\* pendingExchanges is exactly the number of ReadyForQuerys still to come, for
\* every client, pipelining or not, and every interleaving of the goroutines:
\* no exchange is begun twice or ended twice.
THEOREM ExchangesCounted == Spec => []ExchangeAccounting
<1>1. Init => ExchangeAccounting
  <2> SUFFICES ASSUME Init PROVE ExchangeAccounting
    OBVIOUS
  <2>1. up = <<>> /\ down = <<>> /\ st.pendingExchanges = 0
    BY DEF Init
  <2>2. up \in Seq(Messages) /\ down \in Seq(Answers)
    BY <2>1
  <2>3. Count(up, Readies) = 0 /\ Count(down, ReadyAnswers) = 0
    BY <2>1, CountEmpty
  <2>4. /\ Cardinality({i \in DOMAIN up : DrawsReady(up[i])}) = 0
        /\ Cardinality({i \in DOMAIN down : down[i].type = "Z"}) = 0
    BY <2>2, <2>3, Accounting
  <2> QED  BY <2>1, <2>4 DEF ExchangeAccounting
<1>2. TypeOK /\ TypeOK' /\ ExchangeAccounting /\ [Next]_vars => ExchangeAccounting'
  BY AccountingStep
<1> QED  BY <1>1, <1>2, TypeCorrect, PTL DEF Spec

-----------------------------------------------------------------------------
(* A lock-step client.                                                     *)

\* The number of exchanges that are pending tells whether a ReadyForQuery is to
\* come.
LEMMA CountedRight ==
  ASSUME TypeOK, ExchangeAccounting
  PROVE  Accounted
<1>1. ASSUME st.pendingExchanges = 0
      PROVE  /\ \A i \in DOMAIN up : ~DrawsReady(up[i])
             /\ \A i \in DOMAIN down : down[i].type # "Z"
  <2> DEFINE U == {i \in DOMAIN up : DrawsReady(up[i])}
             D == {i \in DOMAIN down : down[i].type = "Z"}
  <2>1. IsFiniteSet(U) /\ IsFiniteSet(D)
    <3>1. up \in Seq(Messages) /\ down \in Seq(Answers)
      BY DEF TypeOK
    <3>2. DOMAIN up = 1 .. Len(up) /\ DOMAIN down = 1 .. Len(down) /\ Len(up) \in Nat /\ Len(down) \in Nat
      BY <3>1
    <3>3. IsFiniteSet(DOMAIN up) /\ IsFiniteSet(DOMAIN down)
      BY <3>2, FS_Interval
    <3> QED  BY <3>3, FS_Subset
  <2>2. Cardinality(U) + Cardinality(D) = 0
    BY <1>1 DEF ExchangeAccounting
  <2> HIDE DEF U, D
  <2>3. Cardinality(U) \in Nat /\ Cardinality(D) \in Nat
    BY <2>1, FS_CardinalityType
  <2>4. Cardinality(U) = 0 /\ Cardinality(D) = 0
    BY <2>2, <2>3
  <2>5. U = {} /\ D = {}
    BY <2>1, <2>4, FS_EmptySet
  <2> QED  BY <2>5 DEF U, D
<1>2. ASSUME st.pendingExchanges # 0, \A i \in DOMAIN down : down[i].type # "Z",
             \A i \in DOMAIN up : ~DrawsReady(up[i])
      PROVE  FALSE
  <2>1. {i \in DOMAIN up : DrawsReady(up[i])} = {} /\ {i \in DOMAIN down : down[i].type = "Z"} = {}
    BY <1>2
  <2>2. Cardinality({}) = 0
    BY FS_EmptySet
  <2>3. st.pendingExchanges = Cardinality({}) + Cardinality({})
    BY <2>1, ZenonT(30) DEF ExchangeAccounting
  <2> QED  BY <1>2, <2>2, <2>3
<1> QED  BY <1>1, <1>2 DEF Accounted

-----------------------------------------------------------------------------
(* A request at a time.                                                    *)

\* A step of the backend leaves the request being served, or answered and
\* nothing under way.
LEMMA BackendServed ==
  ASSUME TypeOK, Accounted, ~SyncRace, Served, Len(client.due) = 1, Backend
  PROVE  \/ Served' /\ client'.due = client.due
         \/ Rest' /\ client'.due = <<>>
<1>a. /\ st \in Structs /\ client \in Clients
      /\ be \in [pc : {"read", "hidden", "unhide", "finish", "failTxn", "failure",
                       "repair", "intercept", "ready", "restore", "note"},
                 msg : Answers \cup {None}, hidden : Exchanges \cup {None}, inTxn : BOOLEAN]
      /\ be.pc \in {"ready", "note"} => be.msg.type = "Z"
      /\ be.pc \in {"unhide", "finish"} => be.hidden \in Exchanges
  BY DEF TypeOK, BackendOK
<1>b. client.due # <<>>
  BY OneDue
<1>c. ASSUME NEW flight, RepairAnswer(flight) PROVE client'.due = Tail(client.due)
  <2> DEFINE c == Deliver(client, Answer("C", flight.stmt, flight.req))
  <2>1. c.due = client.due
    <3>1. Answer("C", flight.stmt, flight.req).type # "Z"
      BY DEF Answer
    <3> QED  BY <1>a, <3>1, DeliverDue
  <2>2. client' = Deliver(c, Answer("Z", "T", flight.req))
    BY <1>c DEF RepairAnswer, writeClientBoth
  <2>3. Answer("Z", "T", flight.req).type = "Z"
    BY DEF Answer
  <2>4. DOMAIN c = DOMAIN client
    BY <1>a DEF Deliver, Clients
  <2> HIDE DEF c
  <2>5. "due" \in DOMAIN c
    BY <1>a, <2>4 DEF Clients
  <2> QED  BY <1>b, <2>1, <2>2, <2>3, <2>5 DEF Deliver
<1>1. CASE BackendRead
  BY <1>1, BackendReadServed DEF BackendRead
<1>2. CASE ConsumeHidden
  BY <1>2, HiddenServed
<1>3. CASE NotHidden \/ FinishSavepoint \/ FailRepair \/ NoFailure \/ Relay \/ OccIntercept
  BY <1>3, PassingServed
<1>4. CASE ClearHidden
  BY <1>4, ClearServed DEF ClearHidden
<1>5. CASE ReadyForQuery \/ StartRepair \/ FailTxn
  BY <1>5, StartServed
<1>6. CASE ConsumeFailure
  BY <1>6, FailureServed
<1>7. CASE FinishRestore
  <2> DEFINE flight == be.hidden.flight
             intent == IntentOf(flight.stmt)
             h == HiddenExchange(intent, flight)
  <2>1. /\ be.pc = "finish" /\ be.hidden.kind = "restore" /\ be'.pc = "read"
        /\ UNCHANGED <<fe, fromClient, down>>
    BY <1>7 DEF FinishRestore, BackendDone
  <2>2. CASE intent = "rows"
    <3>1. RepairAnswer(flight) /\ UNCHANGED <<st, up>>
      BY <1>7, <2>2 DEF FinishRestore
    <3>2. client'.due = Tail(client.due)
      BY <1>c, <3>1
    <3> QED  BY <2>1, <3>1, <3>2, LastRests
  <2>3. CASE intent # "rows"
    <3>1. /\ st' = setHidden(st, h) /\ UNCHANGED client
          /\ \E shadow \in Shadows(flight) : up' = up \o shadow
      BY <1>7, <2>3 DEF FinishRestore
    <3>2. /\ fe.pc = "read" /\ fromClient = <<>> /\ up = <<>> /\ down = <<>>
          /\ st.hidden = None /\ st.failure = None /\ st.pendingFailure = None
          /\ ~st.extendedBatchOpen /\ ~st.skipSync /\ st.pendingExchanges = 0 /\ st.occRepair = None
      BY <2>1, LastStage
    <3>3. h # None /\ h.kind # "savepoint"
      <4>1. flight \in Flights
        BY <1>a, <2>1 DEF Exchanges, Repairs
      <4>2. intent \in {"count", "rowset"}
        BY <2>3, <4>1 DEF Flights, IntentOf
      <4>3. h \in Repairs /\ h.kind = intent
        BY <4>1, <4>2 DEF HiddenExchange, Repairs
      <4> QED  BY <4>2, <4>3, NilAssumption DEF Exchanges
    <3> HIDE DEF h
    <3>4. /\ st'.hidden = h /\ st'.failure = None /\ st'.pendingFailure = None
          /\ ~st'.extendedBatchOpen /\ ~st'.skipSync /\ st'.pendingExchanges = 1
          /\ st'.occRepair = None
      BY <1>a, <3>1, <3>2 DEF setHidden, beginExchange, Structs
    <3>5. up' # <<>> /\ DrawsReady(up'[Len(up')]) /\ \A i \in DOMAIN up' : up'[i].req = 0
      <4>1. PICK shadow \in Shadows(flight) : up' = <<>> \o shadow
        BY <3>1, <3>2
      <4> QED  BY <4>1, ShadowOwn
    <3>6. Served'
      BY <2>1, <3>2, <3>3, <3>4, <3>5, RepairServed
    <3> QED  BY <3>1, <3>6
  <2> QED  BY <2>2, <2>3
<1>8. CASE FinishShadow
  <2>1. /\ be.pc = "finish" /\ be.hidden.kind # "savepoint" /\ be'.pc = "read"
        /\ UNCHANGED <<fe, fromClient, up, down, st>>
    BY <1>8 DEF FinishShadow, BackendDone
  <2>2. client'.due = Tail(client.due)
    <3>1. RepairAnswer(be.hidden.flight) \/ client' = Deliver(client, Answer("Z", "T", be.hidden.flight.req))
      BY <1>8 DEF FinishShadow, writeClient
    <3>2. \A r : Answer("Z", "T", r).type = "Z"
      BY DEF Answer
    <3> QED  BY <1>a, <1>b, <1>c, <3>1, <3>2, DeliverDue
  <2> QED  BY <2>1, <2>2, LastRests
<1>9. CASE NoteTxStatus
  <2>1. be.pc = "note" /\ be'.pc = "read" /\ UNCHANGED <<fe, fromClient, up, down>>
        /\ client' = Deliver(client, be.msg)
    BY <1>9 DEF NoteTxStatus, BackendDone, writeClient
  <2>2. /\ st'.hidden = st.hidden /\ st'.failure = st.failure
        /\ st'.pendingFailure = st.pendingFailure /\ st'.extendedBatchOpen = st.extendedBatchOpen
        /\ st'.skipSync = st.skipSync /\ st'.occRepair = st.occRepair
    BY <1>9, <1>a DEF NoteTxStatus, Structs
  <2>3. client'.due = Tail(client.due)
    BY <1>a, <1>b, <2>1, DeliverDue
  <2> QED  BY <2>1, <2>2, <2>3, LastRests
<1> QED  BY <1>1, <1>2, <1>3, <1>4, <1>5, <1>6, <1>7, <1>8, <1>9 DEF Backend

\* A request that is sent with nothing under way is served from there on.
LEMMA SendServed ==
  ASSUME LockStep, TypeOK, TypeOK', Accounted, Rest, client.due = <<>>,
         NEW r \in Requests[client.kind], ClientSends(r)
  PROVE  Served' /\ Len(client'.due) = 1
<1> DEFINE id == (client.sent % IdSpace) + 1
           sent == [i \in DOMAIN r |-> [r[i] EXCEPT !.req = id]]
<1>0. /\ client.kind \in DOMAIN Requests /\ client \in Clients
      /\ client.due \in Seq(Asked) /\ fromClient = <<>>
  BY DEF TypeOK, Clients, Rest
<1>1. r \in Seq(ClientMessages) /\ r # <<>> /\ \A i \in DOMAIN r : r[i].type \in {"Q", "S"} <=> i = Len(r)
  BY <1>0, SessionAssumption
<1>2. /\ r[Len(r)].type = "Q" => Len(r) = 1
      /\ \A i, j \in DOMAIN r : i < j /\ r[i].type = "E" => r[j].type \notin {"P", "B"}
  BY <1>0 DEF LockStep, OneRound
<1>3. fromClient' = fromClient \o sent /\ UNCHANGED <<fe, st, be, up, down>>
  BY DEF ClientSends
<1>4. /\ Len(r) \in Nat /\ Len(r) # 0 /\ DOMAIN r = 1 .. Len(r)
      /\ Len(sent) = Len(r) /\ DOMAIN sent = 1 .. Len(r)
      /\ \A i \in 1 .. Len(r) : sent[i] = [r[i] EXCEPT !.req = id]
      /\ \A i \in 1 .. Len(r) : r[i] \in ClientMessages
  <2>1. Len(r) \in Nat /\ Len(r) # 0 /\ DOMAIN r = 1 .. Len(r)
    BY <1>1
  <2>2. \A i \in 1 .. Len(r) : r[i] \in ClientMessages
    BY <1>1
  <2>3. DOMAIN sent = 1 .. Len(r) /\ \A i \in 1 .. Len(r) : sent[i] = [r[i] EXCEPT !.req = id]
    BY <2>1
  <2>4. Len(sent) = Len(r)
    <3> HIDE DEF id
    <3> QED  BY <2>1
  <2> QED  BY <2>1, <2>2, <2>3, <2>4
<1>5. sent = fromClient'
  <2>1. sent \in Seq(Sent)
    <3>1. fromClient' \in Seq(Sent) /\ fromClient' = <<>> \o sent
      BY <1>0, <1>3 DEF TypeOK
    <3> QED  BY <1>4, <3>1
  <2> HIDE DEF sent
  <2> QED  BY <1>0, <1>3, <2>1
<1>6. /\ DOMAIN fromClient' = DOMAIN r /\ Len(fromClient') = Len(r)
      /\ \A i \in DOMAIN r : fromClient'[i].type = r[i].type
      /\ fromClient' # <<>>
  <2>1. \A i \in DOMAIN r : [r[i] EXCEPT !.req = id].type = r[i].type
    BY <1>4 DEF ClientMessages
  <2> HIDE DEF sent, id
  <2> QED  BY <1>4, <1>5, <2>1, ZenonT(30)
<1>7. Len(client'.due) = 1
  <2>1. PICK a : client'.due = Append(client.due, a)
    BY <1>0 DEF ClientSends, Clients
  <2> QED  BY <1>0, <2>1
<1>8. st.pendingExchanges = 0
  BY DEF Rest, Accounted
<1> HIDE DEF sent, id
<1>a. /\ fe'.pc = "read" /\ be'.pc = "read" /\ up' = <<>> /\ down' = <<>>
      /\ st'.hidden = None /\ st'.failure = None /\ st'.pendingFailure = None
      /\ st'.occRepair = None /\ ~st'.extendedBatchOpen /\ ~st'.skipSync
      /\ st'.pendingExchanges = 0
  BY <1>3, <1>8 DEF Rest
<1>9. /\ Forwarding' /\ ~Deferring' /\ ~Saving' /\ ~Repairing' /\ ~Ending' /\ ~HasReady'
  BY <1>6, <1>a DEF Forwarding, Deferring, Saving, Repairing, Ending, HasReady
<1>10. Unread'
  <2>1. ASSUME NEW i \in DOMAIN r, r[i].type = "Q" PROVE i = 1
    BY <1>1, <1>2, <1>4, <2>1
  <2> QED  BY <1>1, <1>2, <1>6, <1>a, <2>1 DEF Unread
<1>11. Handling' /\ Unsent'
  BY <1>a, <1>9 DEF Handling, Unsent
<1>12. Balance' /\ Apart'
  <2>1. Balance'
    BY <1>a, <1>9 DEF Balance, Expected
  <2>2. Apart'
    BY <1>a, <1>9 DEF Apart
  <2> QED  BY <2>1, <2>2
<1>13. Closed' /\ Unrun' /\ Owned'
  BY <1>a, <1>9 DEF Closed, Unrun, Owned
<1>14. Served'
  BY <1>10, <1>11, <1>12, <1>13 DEF Served
<1> QED  BY <1>7, <1>14

\* A lock-step client is served one request at a time.
LEMMA LockStepInv ==
  ASSUME LockStep, TypeOK, TypeOK', Accounted, LockInv, [Next]_vars
  PROVE  LockInv'
<1>0. client.due \in Seq(Asked) /\ Len(client.due) \in Nat
  BY DEF TypeOK, Clients
<1>1. CASE client.due = <<>>
  <2>1. Rest
    BY <1>1 DEF LockInv
  <2>2. ASSUME NEW r \in Requests[client.kind], ClientSends(r) PROVE LockInv'
    <3>1. Served' /\ Len(client'.due) = 1
      BY <1>1, <2>1, <2>2, SendServed
    <3>a. Len(<<>>) # 1
      OBVIOUS
    <3>2. client'.due # <<>>
      BY <3>1, <3>a, Zenon
    <3> QED  BY <3>1, <3>2 DEF LockInv
  <2>3. ~Frontend
    BY <2>1 DEF Rest, Frontend, FrontendRead, HandleSync, BeginFailure, RejectFailed, EndAborted,
       CompleteExchange, ForwardUnparsed, RejectStatement, RefuseBatch, AdmitBatch,
       CountTxnStatement, OccFailure, NotAdjudicated, ResetOcc, ArmAdjudicator, HandleParse,
       WriteSavepoint, SetInFlight, Forward
  <2>4. ~Backend
    BY <2>1 DEF Rest, Backend, BackendRead, ConsumeHidden, NotHidden, ClearHidden,
       FinishSavepoint, FinishRestore, FinishShadow, FailRepair, FailTxn, ConsumeFailure,
       NoFailure, Relay, OccIntercept, ReadyForQuery, StartRepair, NoteTxStatus
  <2>5. ~Upstream
    BY <2>1 DEF Rest, Upstream, PgQuery, PgReady, PgExtended
  <2>6. CASE UNCHANGED vars
    BY <1>1, <2>1, <2>6 DEF vars, LockInv, Rest
  <2> QED  BY <2>2, <2>3, <2>4, <2>5, <2>6 DEF Next
<1>2. CASE client.due # <<>>
  <2>a. \A q \in Seq(Asked) : q # <<>> => Len(q) # 0
    OBVIOUS
  <2>1. Served /\ Len(client.due) = 1
    <3>1. Served /\ Len(client.due) <= 1
      BY <1>2 DEF LockInv
    <3>2. Len(client.due) # 0
      BY <1>0, <1>2, <2>a, Zenon
    <3>3. \A n \in Nat : n <= 1 /\ n # 0 => n = 1
      OBVIOUS
    <3> QED  BY <1>0, <3>1, <3>2, <3>3, Zenon
  <2>2. ASSUME NEW r \in Requests[client.kind], ClientSends(r) PROVE FALSE
    BY <2>1, <2>2 DEF ClientSends, LockStep
  <2>3. CASE Served' /\ client'.due = client.due
    BY <1>2, <2>1, <2>3, ZenonT(30) DEF LockInv
  <2>4. CASE Rest' /\ client'.due = <<>>
    BY <2>4 DEF LockInv
  <2>5. CASE Frontend
    BY <2>1, <2>3, <2>4, <2>5, FrontendServed, CompleteRests
  <2>6. CASE Backend
    BY <2>1, <2>3, <2>4, <2>6, BackendServed DEF LockStep
  <2>7. CASE Upstream
    <3>1. client' = client
      BY <2>7, ZenonT(30) DEF Upstream, PgQuery, PgReady, PgExtended
    <3> QED  BY <2>1, <2>3, <2>7, <3>1, UpstreamServed
  <2>8. CASE UNCHANGED vars
    <3>1. UNCHANGED <<client, fromClient, fe, st, be, up, down>>
      BY <2>8 DEF vars
    <3>2. Served'
      BY <2>1, <3>1, IdleServed
    <3> QED  BY <2>3, <3>1, <3>2
  <2> QED  BY <2>2, <2>5, <2>6, <2>7, <2>8 DEF Next
<1> QED  BY <1>1, <1>2

\* The hidden exchange of a lock-step client's session owns the stream: whatever
\* the requests, statements and failures, consumeHidden never eats a message of
\* the client's.
THEOREM HiddenExchangeOwnsStream ==
  ASSUME LockStep
  PROVE  Spec => []HiddenOwnsStream
<1>1. Init => LockInv
  <2> SUFFICES ASSUME Init PROVE LockInv
    OBVIOUS
  <2>1. client.due = <<>>
    BY SMT DEF Init
  <2>2. Rest
    BY ZenonT(30) DEF Init, Rest
  <2> QED  BY <2>1, <2>2 DEF LockInv
<1>2. TypeOK /\ TypeOK' /\ ExchangeAccounting /\ LockInv /\ [Next]_vars => LockInv'
  BY LockStepInv, CountedRight
<1>3. TypeOK /\ LockInv => HiddenOwnsStream
  <2> SUFFICES ASSUME TypeOK, LockInv, st.hidden # None, be.pc \in {"read", "hidden"}
               PROVE  /\ be.pc = "hidden" => be.msg.req = 0
                      /\ down # <<>> /\ be.pc = "read" => down[1].req = 0
                      /\ down = <<>> /\ up # <<>> /\ be.pc = "read" => up[1].req = 0
    BY DEF HiddenOwnsStream
  <2>1. Owned
    BY DEF LockInv, Rest, Served
  <2>2. be.pc = "hidden" => be.msg.req = 0
    BY <2>1 DEF Owned
  <2>3. be.pc = "read" => OwnsThrough
    BY <2>1 DEF Owned
  <2>4. /\ down # <<>> => 1 \in DOMAIN down
        /\ up # <<>> => 1 \in DOMAIN up
        /\ down = <<>> => DOMAIN down = {}
    BY DEF TypeOK
  <2> QED  BY <2>2, <2>3, <2>4 DEF OwnsThrough
<1>4. Spec => []TypeOK /\ []ExchangeAccounting
  BY TypeCorrect, ExchangesCounted, PTL
<1> QED  BY <1>1, <1>2, <1>3, <1>4, PTL DEF Spec
=============================================================================
