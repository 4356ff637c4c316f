----------------------------- MODULE TxnProofs -----------------------------
(***************************************************************************)
(* Proofs about TxnTracker, for any batches, any age limit and any clock:  *)
(* its type invariant and, for a client that starts a transaction only     *)
(* where none is open and sends one batch per exchange, the properties the *)
(* transaction rules exist for.                                            *)
(***************************************************************************)
EXTENDS TxnTracker, WellFoundedInduction, TLAPS

-----------------------------------------------------------------------------
(* What the operators of Txn compute. What a pass of Admit leaves after a  *)
(* prefix of the batch is a recursive function of its length; induction on *)
(* it is by the least number that fails.                                   *)

\* A nonempty set of naturals has a least element.
LEMMA LeastNatural ==
  ASSUME NEW T \in SUBSET Nat, T # {}
  PROVE  \E x \in T : \A y \in T : x <= y
<1>1. PICK x \in T : \A y \in T : <<y, x>> \notin OpToRel(<, Nat)
  BY NatLessThanWellFounded, WFMin
<1>2. \A y \in T : ~(y < x)
  BY <1>1 DEF OpToRel
<1> QED  BY <1>2

\* f holds b and then, one after the other, what the steps make of it.
Iterate(f, S, n, b, step) ==
  /\ f \in [0 .. n -> S]
  /\ f[0] = b
  /\ \A i \in 1 .. n : f[i] = step[i][f[i - 1]]

\* Any steps on a set can be iterated: what a recursive function on 0 .. n needs
\* to be defined at all.
LEMMA Iterates ==
  ASSUME NEW S, NEW n \in Nat, NEW b \in S, NEW step \in [1 .. n -> [S -> S]]
  PROVE  \E f : Iterate(f, S, n, b, step)
<1> DEFINE Short == {m \in 0 .. n : ~ \E f : Iterate(f, S, m, b, step)}
<1>1. ASSUME Short # {} PROVE FALSE
  <2>0. Short \in SUBSET Nat
    OBVIOUS
  <2>1. PICK m \in Short : \A k \in Short : m <= k
    <3> HIDE DEF Short
    <3> QED  BY <1>1, <2>0, LeastNatural
  <2>2. m # 0
    <3>1. Iterate([i \in 0 .. 0 |-> b], S, 0, b, step)
      BY DEF Iterate
    <3> QED  BY <3>1
  <2>3. PICK g : Iterate(g, S, m - 1, b, step)
    BY <2>1, <2>2
  <2> DEFINE f == [i \in 0 .. m |-> IF i = m THEN step[m][g[m - 1]] ELSE g[i]]
  <2>4. f \in [0 .. m -> S]
    BY <2>1, <2>2, <2>3 DEF Iterate
  <2>5. f[0] = b
    BY <2>2, <2>3 DEF Iterate
  <2>6. ASSUME NEW i \in 1 .. m PROVE f[i] = step[i][f[i - 1]]
    <3>1. CASE i = m
      BY <3>1, <2>2
    <3>2. CASE i # m
      BY <3>2, <2>3 DEF Iterate
    <3> QED  BY <3>1, <3>2
  <2>7. Iterate(f, S, m, b, step)
    BY <2>4, <2>5, <2>6 DEF Iterate
  <2> QED  BY <2>1, <2>7
<1>2. n \notin Short
  BY <1>1
<1> QED  BY <1>2

\* What the first value of a sequence of steps satisfies and every step keeps
\* holds of all of them.
LEMMA Stays ==
  ASSUME NEW S, NEW n \in Nat, NEW f, f[0] \in S,
         \A i \in 1 .. n : f[i - 1] \in S => f[i] \in S
  PROVE  \A i \in 0 .. n : f[i] \in S
<1> DEFINE Out == {i \in 0 .. n : f[i] \notin S}
<1>1. ASSUME Out # {} PROVE FALSE
  <2>0. Out \in SUBSET Nat
    OBVIOUS
  <2>1. PICK m \in Out : \A k \in Out : m <= k
    <3> HIDE DEF Out
    <3> QED  BY <1>1, <2>0, LeastNatural
  <2>2. m - 1 \in 0 .. n /\ m - 1 \notin Out
    BY <2>1
  <2> QED  BY <2>1, <2>2
<1> QED  BY <1>1

\* The locals of the validation pass.
Locals == [ddl : Nat, dml : BOOLEAN]

\* The validation pass of Admit keeps the type of its locals.
LEMMA CheckType ==
  ASSUME NEW acc \in Locals, NEW k \in Kinds
  PROVE  Check(acc, k) \in Locals
<1>1. CASE k \in {"begin", "commit", "rollback"}
  BY <1>1 DEF Check, Locals
<1>2. CASE k = "ddl"
  BY <1>2 DEF Check, Locals
<1>3. CASE k = "dml"
  BY <1>3 DEF Check, Locals
<1>4. CASE k = "other"
  BY <1>4 DEF Check, Locals
<1> QED  BY <1>1, <1>2, <1>3, <1>4 DEF Kinds

\* The recording pass keeps the type of the tracker, and the start time of a
\* transaction.
LEMMA RecordType ==
  ASSUME NEW t \in Trackers, t.inTxn => t.beganAt # ZeroTime,
         NEW k \in Kinds, NEW now \in Nat \ {0}
  PROVE  /\ Record(t, k, now) \in Trackers
         /\ Record(t, k, now).inTxn => Record(t, k, now).beganAt # ZeroTime
<1>1. CASE k = "begin"
  BY <1>1 DEF Record, Began, Trackers, ZeroTime
<1>2. CASE k \in {"commit", "rollback"}
  BY <1>2 DEF Record, Reset, Trackers
<1>3. CASE k = "ddl"
  BY <1>3 DEF Record, Trackers
<1>4. CASE k = "dml"
  BY <1>4 DEF Record, Trackers
<1>5. CASE k = "other"
  BY <1>5 DEF Record
<1> QED  BY <1>1, <1>2, <1>3, <1>4, <1>5 DEF Kinds

\* RecordType without the start time.
LEMMA RecordTypes ==
  ASSUME NEW t \in Trackers, NEW k \in Kinds, NEW now \in Nat
  PROVE  Record(t, k, now) \in Trackers
<1>1. CASE k = "begin"
  BY <1>1 DEF Record, Began, Trackers
<1>2. CASE k \in {"commit", "rollback"}
  BY <1>2 DEF Record, Reset, Trackers
<1>3. CASE k = "ddl"
  BY <1>3 DEF Record, Trackers
<1>4. CASE k = "dml"
  BY <1>4 DEF Record, Trackers
<1>5. CASE k = "other"
  BY <1>5 DEF Record
<1> QED  BY <1>1, <1>2, <1>3, <1>4, <1>5 DEF Kinds

\* The reset outside a transaction keeps the type of the tracker.
LEMMA EnterType ==
  ASSUME NEW t \in Trackers
  PROVE  /\ Enter(t) \in Trackers
         /\ Enter(t).inTxn = t.inTxn /\ Enter(t).beganAt = t.beganAt
         /\ t.inTxn => Enter(t) = t
         /\ ~t.inTxn => Enter(t).ddlCount = 0 /\ Enter(t).dmlSeen = FALSE
BY DEF Enter, Reset, Trackers

\* Checked satisfies its recursion, and its values are locals of the pass.
LEMMA CheckedRuns ==
  ASSUME NEW t \in Trackers, NEW kinds \in Seq(Kinds)
  PROVE  /\ Checked(t, kinds) \in [0 .. Len(kinds) -> Locals]
         /\ Checked(t, kinds)[0] = Counters(t)
         /\ \A n \in 1 .. Len(kinds) :
              Checked(t, kinds)[n] = Check(Checked(t, kinds)[n - 1], kinds[n])
<1> DEFINE Body(f) ==
             [n \in 0 .. Len(kinds) |->
                IF n = 0 THEN Counters(t) ELSE Check(f[n - 1], kinds[n])]
           step == [n \in 1 .. Len(kinds) |-> [acc \in Locals |-> Check(acc, kinds[n])]]
<1>1. step \in [1 .. Len(kinds) -> [Locals -> Locals]]
  BY CheckType
<1>2. Counters(t) \in Locals /\ Len(kinds) \in Nat
  BY DEF Counters, Locals, Trackers
<1> HIDE DEF step
<1>3. PICK f : Iterate(f, Locals, Len(kinds), Counters(t), step)
  BY <1>1, <1>2, Iterates, SMTT(30)
<1>4. /\ f \in [0 .. Len(kinds) -> Locals] /\ f[0] = Counters(t)
      /\ \A i \in 1 .. Len(kinds) : f[i] = step[i][f[i - 1]]
  BY <1>3 DEF Iterate
<1>5. \A i \in 1 .. Len(kinds) : f[i] = Check(f[i - 1], kinds[i])
  BY <1>2, <1>4 DEF step
<1>6. f = Body(f)
  BY <1>4, <1>5 DEF Counters
<1> DEFINE g == Checked(t, kinds)
<1>7. g = CHOOSE h : h = Body(h)
  BY DEF Checked
<1>8. g = Body(g)
  BY <1>6, <1>7
<1> HIDE DEF g
<1>9. /\ g = [n \in 0 .. Len(kinds) |-> g[n]] /\ g[0] = Counters(t)
      /\ \A n \in 1 .. Len(kinds) : g[n] = Check(g[n - 1], kinds[n])
  BY <1>8, <1>2 DEF Counters
<1>10. \A n \in 0 .. Len(kinds) : g[n] \in Locals
  <2>1. \A n \in 1 .. Len(kinds) : kinds[n] \in Kinds
    OBVIOUS
  <2>2. \A n \in 1 .. Len(kinds) : g[n - 1] \in Locals => g[n] \in Locals
    BY <1>9, <2>1, CheckType
  <2> QED  BY <1>2, <1>9, <2>2, Stays
<1> QED  BY <1>9, <1>10 DEF g

\* Recorded satisfies its recursion, and its values are trackers.
LEMMA RecordedRuns ==
  ASSUME NEW t \in Trackers, NEW kinds \in Seq(Kinds), NEW now \in Nat
  PROVE  /\ Recorded(t, kinds, now) \in [0 .. Len(kinds) -> Trackers]
         /\ Recorded(t, kinds, now)[0] = t
         /\ \A n \in 1 .. Len(kinds) :
              Recorded(t, kinds, now)[n] = Record(Recorded(t, kinds, now)[n - 1], kinds[n], now)
<1> DEFINE Body(f) ==
             [n \in 0 .. Len(kinds) |->
                IF n = 0 THEN t
                ELSE Record(f[n - 1], kinds[n], now)]
           step == [n \in 1 .. Len(kinds) |-> [u \in Trackers |-> Record(u, kinds[n], now)]]
<1>1. step \in [1 .. Len(kinds) -> [Trackers -> Trackers]]
  BY RecordTypes
<1>2. t \in Trackers /\ Len(kinds) \in Nat
  OBVIOUS
<1> HIDE DEF step
<1>3. PICK f : Iterate(f, Trackers, Len(kinds), t, step)
  BY <1>1, <1>2, Iterates, SMTT(30)
<1>4. /\ f \in [0 .. Len(kinds) -> Trackers] /\ f[0] = t
      /\ \A i \in 1 .. Len(kinds) : f[i] = step[i][f[i - 1]]
  BY <1>3 DEF Iterate
<1>5. ASSUME NEW i \in 1 .. Len(kinds) PROVE f[i] = Record(f[i - 1], kinds[i], now)
  <2>1. i - 1 \in 0 .. Len(kinds)
    BY <1>2
  <2>2. f[i - 1] \in Trackers /\ f[i] = step[i][f[i - 1]]
    BY <1>4, <2>1
  <2> QED  BY <2>2 DEF step
<1>6. f = Body(f)
  BY <1>4, <1>5
<1> DEFINE g == Recorded(t, kinds, now)
<1>7. g = CHOOSE h : h = Body(h)
  BY DEF Recorded
<1>8. g = Body(g)
  BY <1>6, <1>7, SMTT(30)
<1> HIDE DEF g
<1>9. /\ g = [n \in 0 .. Len(kinds) |-> g[n]] /\ g[0] = t
      /\ \A n \in 1 .. Len(kinds) : g[n] = Record(g[n - 1], kinds[n], now)
  BY <1>8, <1>2
<1>10. \A n \in 0 .. Len(kinds) : g[n] \in Trackers
  <2>1. \A n \in 1 .. Len(kinds) : kinds[n] \in Kinds
    OBVIOUS
  <2>2. \A n \in 1 .. Len(kinds) : g[n - 1] \in Trackers => g[n] \in Trackers
    BY <1>9, <2>1, RecordTypes
  <2> QED  BY <1>2, <1>9, <2>2, Stays
<1> QED  BY <1>9, <1>10 DEF g

\* What Admit answers: the rule of the age check, that of the first statement
\* that breaks one, or none.
LEMMA AdmitAnswers ==
  ASSUME NEW t \in Trackers, NEW kinds \in Seq(Kinds), NEW now \in Nat
  PROVE  LET e == Enter(t)
             Rule(n) == Breaks(Checked(e, kinds)[n - 1], kinds[n])
         IN  /\ AgeRefuses(e, kinds, now) =>
                  Admit(t, kinds, now) = [rule |-> "txn_age", tracker |-> e]
             /\ ~AgeRefuses(e, kinds, now) =>
                  /\ \A n \in 1 .. Len(kinds) :
                       Rule(n) # "none" /\ (\A m \in 1 .. n - 1 : Rule(m) = "none") =>
                         Admit(t, kinds, now) = [rule |-> Rule(n), tracker |-> e]
                  /\ (\A n \in 1 .. Len(kinds) : Rule(n) = "none") =>
                       Admit(t, kinds, now) =
                         [rule |-> "none",
                          tracker |-> Recorded(e, kinds, now)[Len(kinds)]]
<1> DEFINE e == Enter(t)
           Rule(n) == Breaks(Checked(e, kinds)[n - 1], kinds[n])
           rules == [n \in DOMAIN kinds |-> Rule(n)]
           broken == {n \in DOMAIN kinds : rules[n] # "none"}
           first == CHOOSE n \in broken : \A m \in broken : n <= m
           rule == IF AgeRefuses(e, kinds, now) THEN "txn_age"
                   ELSE IF broken = {} THEN "none" ELSE rules[first]
<1>1. Admit(t, kinds, now) =
        [rule |-> rule, tracker |-> IF rule # "none" THEN e
                                    ELSE Recorded(e, kinds, now)[Len(kinds)]]
  BY DEF Admit
<1>2. DOMAIN kinds = 1 .. Len(kinds)
  OBVIOUS
<1>3. AgeRefuses(e, kinds, now) =>
        Admit(t, kinds, now) = [rule |-> "txn_age", tracker |-> e]
  BY <1>1
<1>4. ASSUME ~AgeRefuses(e, kinds, now), NEW n \in 1 .. Len(kinds), Rule(n) # "none",
             \A m \in 1 .. n - 1 : Rule(m) = "none"
      PROVE  Admit(t, kinds, now) = [rule |-> Rule(n), tracker |-> e]
  <2>1. n \in broken /\ \A m \in broken : n <= m
    BY <1>2, <1>4
  <2>2. \A m \in broken : (\A k \in broken : m <= k) => m = n
    BY <2>1, <1>2
  <2>3. first = n
    BY <2>1, <2>2
  <2>4. rule = Rule(n)
    BY <1>2, <1>4, <2>1, <2>3
  <2> HIDE DEF rule, e
  <2> QED  BY <1>1, <1>4, <2>4
<1>5. ASSUME ~AgeRefuses(e, kinds, now), \A n \in 1 .. Len(kinds) : Rule(n) = "none"
      PROVE  Admit(t, kinds, now) =
               [rule |-> "none", tracker |-> Recorded(e, kinds, now)[Len(kinds)]]
  <2>1. broken = {}
    BY <1>2, <1>5
  <2>2. rule = "none"
    BY <1>5, <2>1
  <2> QED  BY <1>1, <2>2
<1> QED  BY <1>3, <1>4, <1>5

-----------------------------------------------------------------------------
(* What one iteration of each pass does.                                   *)

\* A statement the validation pass lets through keeps DDL alone.
LEMMA CheckAlone ==
  ASSUME NEW acc \in Locals, NEW k \in Kinds,
         Alone(acc), Breaks(acc, k) = "none"
  PROVE  Alone(Check(acc, k))
<1>1. CASE k \in {"begin", "commit", "rollback"}
  BY <1>1 DEF Check, Locals, Breaks, Alone
<1>2. CASE k = "ddl"
  BY <1>2 DEF Check, Locals, Breaks, Alone
<1>3. CASE k = "dml"
  BY <1>3 DEF Check, Locals, Breaks, Alone
<1>4. CASE k = "other"
  BY <1>4 DEF Check, Locals, Breaks, Alone
<1> QED  BY <1>1, <1>2, <1>3, <1>4 DEF Kinds

\* The recording pass of Admit does to the tracker what the validation pass
\* did to the locals.
LEMMA RecordMatchesCheck ==
  ASSUME NEW t \in Trackers, NEW k \in Kinds, NEW now \in Nat
  PROVE  Counters(Record(t, k, now)) = Check(Counters(t), k)
<1>1. CASE k = "begin"
  BY <1>1 DEF Check, Record, Began, Counters
<1>2. CASE k \in {"commit", "rollback"}
  BY <1>2 DEF Check, Record, Reset, Counters, Trackers
<1>3. CASE k = "ddl"
  BY <1>3 DEF Check, Record, Counters, Trackers
<1>4. CASE k = "dml"
  BY <1>4 DEF Check, Record, Counters, Trackers
<1>5. CASE k = "other"
  BY <1>5 DEF Check, Record, Counters
<1> QED  BY <1>1, <1>2, <1>3, <1>4, <1>5 DEF Kinds

\* The upstream's steps keep its type.
LEMMA ServerType ==
  ASSUME NEW sv \in Servers, NEW k \in Kinds, NEW now \in Nat
  PROVE  Executes(sv, k, now) \in Servers /\ Fails(sv, k) \in Servers
<1>1. Fails(sv, k) \in Servers
  BY DEF Fails, Servers
<1>2. CASE sv.skipping
  BY <1>1, <1>2 DEF Executes
<1>3. CASE ~sv.skipping /\ k \in {"commit", "rollback"}
  BY <1>1, <1>3 DEF Executes, IdleServer, ZeroTime, Servers
<1>4. CASE ~sv.skipping /\ k \notin {"commit", "rollback"} /\ sv.block = "E"
  BY <1>1, <1>4 DEF Executes, Servers
<1>5. CASE ~sv.skipping /\ sv.block # "E" /\ k = "begin"
  BY <1>1, <1>5 DEF Executes, Servers
<1>6. CASE ~sv.skipping /\ sv.block # "E" /\ k = "ddl"
  BY <1>1, <1>6 DEF Executes, Servers
<1>7. CASE ~sv.skipping /\ sv.block # "E" /\ k = "dml"
  BY <1>1, <1>7 DEF Executes, Servers
<1>8. CASE ~sv.skipping /\ sv.block # "E" /\ k = "other"
  BY <1>1, <1>8 DEF Executes, Servers
<1> QED  BY <1>2, <1>3, <1>4, <1>5, <1>6, <1>7, <1>8 DEF Kinds

-----------------------------------------------------------------------------
(* The type invariant.                                                     *)

\* TypeOK is not inductive: an iteration of the validation pass reads acc[i].
TypeInv == TypeOK /\ (call.pc = "validate" => Len(call.acc) = call.i)

\* A call keeps its type when its loop variable moves.
LEMMA CallsUpdate ==
  ASSUME NEW c \in Calls, NEW n \in Nat \ {0}
  PROVE  [c EXCEPT !.i = n] \in Calls
BY DEF Calls

\* Every step of TxnTracker keeps TypeInv.
LEMMA TypeInvStep == TypeInv /\ [Next]_vars => TypeInv'
<1> SUFFICES ASSUME TypeInv, [Next]_vars PROVE TypeInv'
  OBVIOUS
<1>t. /\ tracker \in Trackers
      /\ tracker.inTxn => tracker.beganAt # ZeroTime
      /\ call \in Calls
      /\ server \in Servers
      /\ clock \in Nat \ {0}
      /\ call.pc = "validate" => Len(call.acc) = call.i
  BY DEF TypeInv, TypeOK
<1>g. ASSUME /\ tracker' \in Trackers
             /\ tracker'.inTxn => tracker'.beganAt # ZeroTime
             /\ call' \in Calls
             /\ server' \in Servers
             /\ clock' \in Nat \ {0}
             /\ call'.pc = "validate" => Len(call'.acc) = call'.i
      PROVE  TypeInv'
  BY <1>g DEF TypeInv, TypeOK
<1>0. Calls = [pc : {"idle", "validate", "record"}, kinds : Seq(Kinds),
               i : Nat \ {0}, acc : Seq(Locals), before : Trackers,
               rule : {"none", "txn_age", "ddl_count", "ddl_dml_mix"}]
  BY DEF Calls, Locals
<1>a. NoCall \in Calls
  <2>1. <<>> \in Seq(Kinds) /\ <<>> \in Seq(Locals)
    OBVIOUS
  <2>2. NewTracker \in Trackers
    BY DEF NewTracker, Trackers, ZeroTime
  <2> QED  BY <2>1, <2>2, <1>0 DEF NoCall
<1>1. ASSUME NEW kinds \in Batches, AdmitCall(kinds) PROVE TypeInv'
  <2>1. kinds \in Seq(Kinds)
    BY TxnTrackerAssumption
  <2>2. /\ tracker' \in Trackers
        /\ tracker'.inTxn => tracker'.beganAt # ZeroTime
    BY <1>1, <1>t, EnterType DEF AdmitCall
  <2>3. <<Counters(tracker')>> \in Seq(Locals) /\ Len(<<Counters(tracker')>>) = 1
    BY <2>2 DEF Counters, Locals, Trackers
  <2>4. CASE AgeRefuses(tracker', kinds, clock)
    <3>1. call' = [NoCall EXCEPT !.kinds = kinds, !.before = tracker,
                                 !.rule = "txn_age"]
      BY <1>1, <2>4 DEF AdmitCall
    <3>2. call' \in Calls /\ call'.pc = "idle"
      BY <3>1, <2>1, <1>a, <1>0, <1>t DEF NoCall
    <3> QED  BY <3>2, <2>2, <1>1, <1>t, <1>g DEF AdmitCall
  <2>5. CASE ~AgeRefuses(tracker', kinds, clock)
    <3>1. call' = [NoCall EXCEPT !.pc = "validate", !.kinds = kinds,
                                 !.before = tracker,
                                 !.acc = <<Counters(tracker')>>]
      BY <1>1, <2>5 DEF AdmitCall, Counters
    <3>2. call' \in Calls /\ Len(call'.acc) = call'.i
      BY <3>1, <2>1, <2>3, <1>a, <1>0, <1>t DEF NoCall
    <3> QED  BY <3>2, <2>2, <1>1, <1>t, <1>g DEF AdmitCall
  <2> QED  BY <2>4, <2>5
<1>2. CASE Validate
  <2> DEFINE k == call.kinds[call.i]
             a == call.acc[call.i]
  <2>1. k \in Kinds /\ a \in Locals
    BY <1>2, <1>0, <1>t DEF Validate
  <2>2. Check(a, k) \in Locals
    BY <2>1, CheckType
  <2>3. Breaks(a, k) \in {"none", "ddl_count", "ddl_dml_mix"}
    BY DEF Breaks
  <2>4. CASE Breaks(a, k) # "none"
    <3>1. call' = [call EXCEPT !.pc = "idle", !.rule = Breaks(a, k)]
      BY <1>2, <2>4 DEF Validate
    <3>2. call' \in Calls /\ call'.pc = "idle"
      BY <3>1, <2>3, <1>0, <1>t
    <3> QED  BY <3>2, <1>2, <1>t, <1>g DEF Validate
  <2>5. CASE Breaks(a, k) = "none"
    <3>1. call' = [call EXCEPT !.i = @ + 1, !.acc = Append(@, Check(a, k))]
      BY <1>2, <2>5 DEF Validate
    <3>2. /\ Append(call.acc, Check(a, k)) \in Seq(Locals)
          /\ Len(Append(call.acc, Check(a, k))) = Len(call.acc) + 1
      BY <2>2, <1>0, <1>t
    <3>3. Len(call.acc) = call.i
      BY <1>2, <1>t DEF Validate
    <3>a. [call EXCEPT !.i = @ + 1] \in Calls
      BY <1>0, <1>t
    <3>b. call' = [[call EXCEPT !.i = @ + 1] EXCEPT !.acc = Append(@, Check(a, k))]
      BY <3>1
    <3>4. call' \in Calls
      BY <3>a, <3>b, <3>2, <1>0
    <3>5. Len(call'.acc) = call'.i
      BY <3>1, <3>2, <3>3, <1>0, <1>t
    <3> QED  BY <3>4, <3>5, <1>2, <1>t, <1>g DEF Validate
  <2> QED  BY <2>4, <2>5
<1>3. CASE Validated
  <2>1. /\ tracker' \in Trackers
        /\ tracker'.inTxn => tracker'.beganAt # ZeroTime
    BY <1>3, <1>t, EnterType DEF Validated
  <2>2. call' = [call EXCEPT !.pc = "record", !.i = 1]
    BY <1>3 DEF Validated
  <2>a. [call EXCEPT !.pc = "record"] \in Calls
    BY <1>0, <1>t
  <2>b. call' = [[call EXCEPT !.pc = "record"] EXCEPT !.i = 1]
    BY <2>2
  <2>3. call' \in Calls
    <3> DEFINE c == [call EXCEPT !.pc = "record"]
    <3>1. c \in Calls
      BY <2>a
    <3> HIDE DEF c
    <3>2. [c EXCEPT !.i = 1] \in Calls
      BY <3>1, CallsUpdate
    <3> QED  BY <3>2, <2>b DEF c
  <2>c. call'.pc = "record"
    BY <2>2, <1>0, <1>t
  <2>4. server' \in Servers
    BY <1>3, <1>t DEF Validated, Servers
  <2> QED  BY <2>1, <2>3, <2>c, <2>4, <1>3, <1>t, <1>g DEF Validated
<1>4. CASE RecordKind
  <2>1. call.kinds[call.i] \in Kinds
    BY <1>4, <1>0, <1>t DEF RecordKind
  <2>2. /\ tracker' \in Trackers
        /\ tracker'.inTxn => tracker'.beganAt # ZeroTime
    BY <1>4, <2>1, <1>t, RecordType DEF RecordKind
  <2>3. call' = [call EXCEPT !.i = @ + 1] /\ call.pc = "record"
    BY <1>4 DEF RecordKind
  <2>4. call' \in Calls /\ call'.pc = "record"
    BY <2>3, <1>0, <1>t
  <2>5. server' \in Servers
    BY <1>4, <2>1, <1>t, ServerType DEF RecordKind
  <2> QED  BY <2>2, <2>4, <2>5, <1>4, <1>t, <1>g DEF RecordKind
<1>5. CASE Admitted
  <2>1. call' = [call EXCEPT !.pc = "idle"]
    BY <1>5 DEF Admitted
  <2>2. call' \in Calls /\ call'.pc = "idle"
    BY <2>1, <1>0, <1>t
  <2> QED  BY <2>2, <1>5, <1>t, <1>g DEF Admitted
<1>6. CASE Sync
  <2>1. server' \in Servers
    BY <1>6, <1>t DEF Sync, Servers, IdleServer, ZeroTime
  <2> QED  BY <2>1, <1>6, <1>a, <1>t, <1>g DEF Sync, NoCall
<1>7. CASE Tick
  BY <1>7, <1>a, <1>t, <1>g DEF Tick, NoCall
<1>8. CASE UNCHANGED vars
  BY <1>8, <1>t, <1>g DEF vars
<1> QED  BY <1>1, <1>2, <1>3, <1>4, <1>5, <1>6, <1>7, <1>8 DEF Next

\* TypeInv holds initially.
LEMMA TypeInvInit == Init => TypeInv
<1>1. <<>> \in Seq(Kinds) /\ <<>> \in Seq([ddl : Nat, dml : BOOLEAN])
  OBVIOUS
<1> QED
  BY <1>1 DEF Init, TypeInv, TypeOK, NoCall, NewTracker, IdleServer, ZeroTime,
              Trackers, Calls, Servers

\* Every variable keeps its type, and the tracker knows when its transaction
\* began, whatever the client sends and however Admit's batches fail.
THEOREM TypeCorrect == Spec => []TypeOK
<1>1. TypeInv => TypeOK
  BY DEF TypeInv
<1> QED  BY TypeInvInit, TypeInvStep, <1>1, PTL DEF Spec

-----------------------------------------------------------------------------
(* DDL stays alone, the age limit holds and an open block is tracked.      *)

\* How the upstream transaction relates to the tracker: Counted, Emptied and
\* OpenBlockTracked as a relation between two values.
Describes(t, sv) ==
  /\ sv.ddl <= t.ddlCount
  /\ sv.dml => t.dmlSeen
  /\ sv.skipping => sv.block # "T"
  /\ sv.skipping \/ sv.block = "E" => Empty(sv)
  /\ sv.block = "T" => t.inTxn /\ t.beganAt = sv.since

\* The recording pass counts DDL in naturals.
LEMMA RecordCounts ==
  ASSUME NEW t \in Trackers, NEW k \in Kinds, NEW now \in Nat \ {0}
  PROVE  Record(t, k, now).ddlCount \in Nat
<1>1. CASE k = "begin"
  BY <1>1 DEF Record, Began
<1>2. CASE k \in {"commit", "rollback"}
  BY <1>2 DEF Record, Reset, Trackers
<1>3. CASE k \in {"ddl", "dml", "other"}
  BY <1>3 DEF Record, Trackers
<1> QED  BY <1>1, <1>2, <1>3 DEF Kinds

\* A statement that is recorded while the upstream executes it, fails it or
\* drops it keeps the tracker a description of the upstream transaction; after
\* COMMIT or ROLLBACK that transaction is empty.
LEMMA RecordDescribes ==
  ASSUME NEW t \in Trackers, NEW sv \in Servers, NEW k \in Kinds,
         NEW now \in Nat \ {0}, NEW sv2,
         Describes(t, sv),
         k = "begin" => Empty(sv) /\ sv.block # "T",
         \/ sv2 = Executes(sv, k, now)
         \/ ~sv.skipping /\ k \notin {"begin", "rollback"} /\ sv2 = Fails(sv, k)
  PROVE  /\ Describes(Record(t, k, now), sv2)
         /\ k \in {"commit", "rollback"} => Empty(sv2) /\ sv2.block # "T"
         /\ sv2.batches = sv.batches
<1> DEFINE t2 == Record(t, k, now)
<1>1. CASE ~sv.skipping /\ k \notin {"begin", "rollback"} /\ sv2 = Fails(sv, k)
  <2>1. /\ sv2.ddl = 0 /\ sv2.dml = FALSE /\ sv2.block # "T"
        /\ sv2.batches = sv.batches
    BY <1>1 DEF Fails, Servers
  <2>2. t2.ddlCount \in Nat
    BY RecordCounts
  <2> QED  BY <2>1, <2>2 DEF Describes, Empty
<1>2. CASE sv2 = Executes(sv, k, now)
  <2>1. CASE sv.skipping
    <3>1. sv2 = sv /\ Empty(sv) /\ sv.block # "T"
      BY <1>2, <2>1 DEF Executes, Describes
    <3>2. t2.ddlCount \in Nat
      BY RecordCounts
    <3> QED  BY <3>1, <3>2 DEF Describes, Empty
  <2>2. CASE ~sv.skipping /\ k \in {"commit", "rollback"}
    <3>1. /\ sv2.ddl = 0 /\ sv2.dml = FALSE /\ sv2.block = "I"
          /\ sv2.batches = sv.batches
      BY <1>2, <2>2 DEF Executes, IdleServer
    <3>2. t2.ddlCount = 0
      BY <2>2 DEF Record, Reset, Trackers
    <3> QED  BY <3>1, <3>2 DEF Describes, Empty
  <2>3. CASE ~sv.skipping /\ sv.block = "E" /\ k \notin {"commit", "rollback"}
    <3>1. /\ sv2.ddl = 0 /\ sv2.dml = FALSE /\ sv2.block = "E"
          /\ sv2.batches = sv.batches
      BY <1>2, <2>3 DEF Executes, Describes, Empty, Servers
    <3>2. t2.ddlCount \in Nat
      BY RecordCounts
    <3> QED  BY <2>3, <3>1, <3>2 DEF Describes, Empty
  <2>4. CASE ~sv.skipping /\ sv.block # "E" /\ k = "begin"
    <3>1. sv.block = "I" /\ sv.ddl = 0 /\ sv.dml = FALSE
      BY <2>4 DEF Servers, Empty
    <3>2. sv2 = [sv EXCEPT !.block = "T", !.since = now]
      BY <1>2, <2>4, <3>1 DEF Executes
    <3>3. /\ sv2.ddl = 0 /\ sv2.dml = FALSE /\ sv2.block = "T" /\ sv2.since = now
          /\ sv2.skipping = sv.skipping /\ sv2.batches = sv.batches
      BY <3>1, <3>2 DEF Servers
    <3>4. t2.inTxn /\ t2.beganAt = now /\ t2.ddlCount = 0
      BY <2>4 DEF Record, Began
    <3> QED  BY <2>4, <3>3, <3>4 DEF Describes, Empty
  <2>5. CASE ~sv.skipping /\ sv.block # "E" /\ k = "ddl"
    <3>1. sv2 = [sv EXCEPT !.ddl = @ + 1] /\ t2 = [t EXCEPT !.ddlCount = @ + 1]
      BY <1>2, <2>5 DEF Executes, Record
    <3> QED  BY <2>5, <3>1 DEF Describes, Empty, Servers, Trackers
  <2>6. CASE ~sv.skipping /\ sv.block # "E" /\ k = "dml"
    <3>1. sv2 = [sv EXCEPT !.dml = TRUE] /\ t2 = [t EXCEPT !.dmlSeen = TRUE]
      BY <1>2, <2>6 DEF Executes, Record
    <3> QED  BY <2>6, <3>1 DEF Describes, Empty, Servers, Trackers
  <2>7. CASE ~sv.skipping /\ sv.block # "E" /\ k = "other"
    <3>1. sv2 = sv /\ t2 = t
      BY <1>2, <2>7 DEF Executes, Record
    <3> QED  BY <2>7, <3>1
  <2> QED  BY <2>1, <2>2, <2>3, <2>4, <2>5, <2>6, <2>7 DEF Kinds
<1> QED  BY <1>1, <1>2

\* IInv holds initially.
LEMMA IInvInit == Init => IInv
<1>1. Init => TypeOK
  BY TypeInvInit DEF TypeInv
<1> QED
  BY <1>1 DEF Init, IInv, NoCall, NewTracker, IdleServer, Counted, Emptied,
              OpenBlockTracked, Alone, Empty, Counters

\* Every step of TxnTracker keeps IInv, for a client that sends BEGIN only
\* where no transaction is open and one batch per exchange.
LEMMA IInvStep ==
  ASSUME ~NestedBegin, BatchesPerSync = 1, IInv, [Next]_vars
  PROVE  IInv'
<1>t. /\ tracker \in Trackers /\ call \in Calls /\ server \in Servers
      /\ clock \in Nat \ {0}
      /\ tracker.inTxn => tracker.beganAt # ZeroTime
  BY DEF IInv, TypeOK
<1>u. TypeInv'
  <2>1. TypeInv
    BY DEF IInv, TypeInv, ValidateInv
  <2> QED  BY <2>1, TypeInvStep
<1>v. TypeOK' /\ tracker' \in Trackers /\ call' \in Calls /\ server' \in Servers
  BY <1>u DEF TypeInv, TypeOK
<1>i. Counted /\ Emptied /\ OpenBlockTracked
  BY DEF IInv
<1>1. ASSUME NEW kinds \in Batches, AdmitCall(kinds) PROVE IInv'
  <2>1. server.batches = 0 /\ server' = server /\ clock' = clock
    BY <1>1, <1>t DEF AdmitCall, Servers
  <2>2. /\ tracker'.inTxn = tracker.inTxn /\ tracker'.beganAt = tracker.beganAt
        /\ tracker.inTxn => tracker' = tracker
        /\ ~tracker.inTxn => tracker'.ddlCount = 0 /\ tracker'.dmlSeen = FALSE
    BY <1>1, <1>t, EnterType DEF AdmitCall
  <2>3. ~tracker.inTxn => Empty(server)
    BY <2>1, <1>t, <1>i DEF Emptied, OpenBlockTracked, Servers
  <2>4. Counted'
    BY <2>1, <2>2, <2>3, <1>t, <1>i DEF Counted, Alone, Counters, Empty
  <2>5. Emptied' /\ OpenBlockTracked'
    BY <2>1, <2>2, <1>i DEF Emptied, OpenBlockTracked, Empty
  <2>6. CASE AgeRefuses(tracker', kinds, clock)
    <3>1. call'.pc = "idle"
      BY <1>1, <2>6 DEF AdmitCall, NoCall
    <3> QED  BY <3>1, <2>4, <2>5, <1>v DEF IInv
  <2>7. CASE ~AgeRefuses(tracker', kinds, clock)
    <3>1. /\ call'.pc = "validate" /\ call'.kinds = kinds /\ call'.i = 1
          /\ call'.acc = <<Counters(tracker')>>
      BY <1>1, <2>7 DEF AdmitCall, NoCall, Counters
    <3>2. BeginsFollowEnds' /\ (kinds # <<>> /\ kinds[1] = "begin" =>
                                  Empty(server) /\ server.block # "T")
      <4>1. FreshBegins(kinds)
        BY <1>1 DEF AdmitCall
      <4>2. kinds \in Seq(Kinds)
        BY TxnTrackerAssumption
      <4>3. \A j \in DOMAIN kinds : kinds[j] = "begin" /\ j > 1 =>
              kinds[j - 1] \in {"commit", "rollback"}
        BY <4>1, <4>2 DEF FreshBegins
      <4>4. kinds # <<>> => 1 \in DOMAIN kinds
        BY <4>2
      <4>5. kinds # <<>> /\ kinds[1] = "begin" =>
              server.block = "I" /\ server.ddl = 0 /\ ~server.dml
        BY <4>1, <4>4 DEF FreshBegins
      <4>6. BeginsFollowEnds'
        BY <3>1, <4>3 DEF BeginsFollowEnds
      <4> QED  BY <4>5, <4>6 DEF Empty
    <3>3. ~tracker'.inTxn => Empty(Counters(tracker'))
      BY <2>2 DEF Empty, Counters
    <3>4. kinds \in Seq(Kinds)
      BY TxnTrackerAssumption
    <3>5. Chained(call.i - 1)'
      BY <3>1 DEF Chained
    <3>6. ValidateInv'
      BY <2>1, <2>7, <3>1, <3>2, <3>3, <3>4, <3>5 DEF ValidateInv, Empty
    <3> QED  BY <3>1, <3>6, <2>4, <2>5, <1>v DEF IInv
  <2> QED  BY <2>6, <2>7
<1>2. CASE Validate
  <2>1. UNCHANGED <<tracker, server, clock>> /\ call.pc = "validate"
    BY <1>2 DEF Validate
  <2>2. ValidateInv
    BY <2>1 DEF IInv
  <2>3. Counted' /\ Emptied' /\ OpenBlockTracked'
    BY <2>1, <1>i DEF Counted, Emptied, OpenBlockTracked, Alone, Counters, Empty
  <2> DEFINE k == call.kinds[call.i]
             a == call.acc[call.i]
  <2>4. CASE Breaks(a, k) # "none"
    <3>1. call' = [call EXCEPT !.pc = "idle", !.rule = Breaks(a, k)]
      BY <1>2, <2>4 DEF Validate
    <3>2. call'.pc = "idle"
      BY <3>1, <1>t DEF Calls
    <3> QED  BY <3>2, <2>3, <1>v DEF IInv
  <2>5. CASE Breaks(a, k) = "none"
    <3>1. call' = [call EXCEPT !.i = @ + 1, !.acc = Append(@, Check(a, k))]
      BY <1>2, <2>5 DEF Validate
    <3>2. /\ call'.pc = "validate" /\ call'.kinds = call.kinds
          /\ call'.i = call.i + 1 /\ call'.acc = Append(call.acc, Check(a, k))
      BY <3>1, <2>1, <1>t DEF Calls
    <3>3. /\ call.acc \in Seq(Locals) /\ call.i \in Nat \ {0}
          /\ Len(call.acc) = call.i /\ call.i <= Len(call.kinds)
          /\ call.kinds \in Seq(Kinds)
      BY <1>2, <1>t, <2>2 DEF Calls, Locals, ValidateInv, Validate
    <3>4. /\ Len(call'.acc) = call.i + 1
          /\ call'.acc[call.i + 1] = Check(a, k)
          /\ \A j \in 1 .. call.i : call'.acc[j] = call.acc[j]
      BY <3>2, <3>3
    <3>5. Chained(call.i - 1)'
      <4> SUFFICES ASSUME NEW j \in 1 .. call.i
                   PROVE  /\ Breaks(call'.acc[j], call.kinds[j]) = "none"
                          /\ call'.acc[j + 1] = Check(call'.acc[j], call.kinds[j])
        BY <3>2, <3>3 DEF Chained
      <4>1. CASE j = call.i
        BY <4>1, <3>3, <3>4, <2>5
      <4>2. CASE j # call.i
        <5>1. j \in 1 .. (call.i - 1) /\ j + 1 \in 1 .. call.i
          BY <4>2, <3>3
        <5>2. /\ Breaks(call.acc[j], call.kinds[j]) = "none"
              /\ call.acc[j + 1] = Check(call.acc[j], call.kinds[j])
          BY <5>1, <2>2 DEF ValidateInv, Chained
        <5> QED  BY <5>1, <5>2, <3>4
      <4> QED  BY <4>1, <4>2
    <3>6. BeginsFollowEnds' /\ call'.acc[1] = Counters(tracker')
      BY <2>1, <2>2, <3>2, <3>3, <3>4 DEF ValidateInv, BeginsFollowEnds, Counters
    <3>7. ~AgeRefuses(tracker, call.kinds, clock)' /\ server'.batches = 0
      BY <2>1, <2>2, <3>2 DEF ValidateInv, AgeRefuses, TooOld, HasRollback
    <3>8. /\ ~tracker'.inTxn => Empty(Counters(tracker'))
          /\ Len(call'.kinds) > 0 /\ call'.kinds[1] = "begin" =>
               Empty(server') /\ server'.block # "T"
      BY <2>1, <2>2, <3>2 DEF ValidateInv, Empty, Counters
    <3>9. call'.i <= Len(call'.kinds) + 1 /\ Len(call'.acc) = call'.i
      BY <3>2, <3>3, <3>4
    <3>10. ValidateInv'
      BY <3>5, <3>6, <3>7, <3>8, <3>9 DEF ValidateInv
    <3> QED  BY <3>2, <3>10, <2>3, <1>v DEF IInv
  <2> QED  BY <2>4, <2>5
<1>3. CASE Validated
  <2>1. /\ call.pc = "validate" /\ clock' = clock /\ tracker' = Enter(tracker)
        /\ call' = [call EXCEPT !.pc = "record", !.i = 1]
        /\ server' = [server EXCEPT !.batches = @ + 1]
        /\ call.i > Len(call.kinds)
    BY <1>3 DEF Validated
  <2>2. ValidateInv
    BY <2>1 DEF IInv
  <2>3. /\ call'.pc = "record" /\ call'.i = 1 /\ call'.kinds = call.kinds
        /\ call'.acc = call.acc
    BY <2>1, <1>t DEF Calls
  <2>4. /\ server'.batches = 1 /\ server'.ddl = server.ddl
        /\ server'.dml = server.dml /\ server'.skipping = server.skipping
        /\ server'.block = server.block /\ server'.since = server.since
    BY <2>1, <2>2, <1>t DEF Servers, ValidateInv
  <2>5. /\ tracker'.inTxn = tracker.inTxn /\ tracker'.beganAt = tracker.beganAt
        /\ Counters(tracker') = Counters(tracker)
    <3>1. /\ tracker'.inTxn = tracker.inTxn /\ tracker'.beganAt = tracker.beganAt
          /\ tracker.inTxn => tracker' = tracker
          /\ ~tracker.inTxn => tracker'.ddlCount = 0 /\ tracker'.dmlSeen = FALSE
      BY <2>1, <1>t, EnterType
    <3>2. ~tracker.inTxn => tracker.ddlCount = 0 /\ tracker.dmlSeen = FALSE
      BY <2>2, <1>t DEF ValidateInv, Empty, Counters, Trackers
    <3> QED  BY <3>1, <3>2 DEF Counters
  <2>6. tracker'.ddlCount = tracker.ddlCount /\ tracker'.dmlSeen = tracker.dmlSeen
    BY <2>5 DEF Counters
  <2>7. Counted' /\ Emptied' /\ OpenBlockTracked'
    BY <2>4, <2>5, <2>6, <1>i
       DEF Counted, Emptied, OpenBlockTracked, Alone, Empty, Counters
  <2>8. /\ call.kinds \in Seq(Kinds) /\ call.i \in Nat \ {0}
        /\ call.i = Len(call.kinds) + 1
    BY <2>1, <2>2, <1>t DEF Calls, ValidateInv
  <2>9. Chained(Len(call.kinds))'
    BY <2>2, <2>3, <2>8 DEF ValidateInv, Chained
  <2>10. BeginsFollowEnds' /\ BeginIsFresh'
    BY <2>2, <2>3, <2>4, <2>8 DEF ValidateInv, BeginsFollowEnds, BeginIsFresh, Empty
  <2>11. ~AgeRefuses(tracker, call.kinds, clock)'
    BY <2>1, <2>2, <2>3, <2>5 DEF ValidateInv, AgeRefuses, TooOld, HasRollback
  <2>12. /\ call'.i <= Len(call'.kinds) + 1 /\ Len(call'.acc) = Len(call'.kinds) + 1
         /\ call'.acc[call'.i] = Counters(tracker')
    BY <2>2, <2>3, <2>5, <2>8 DEF ValidateInv
  <2>13. RecordInv'
    BY <2>4, <2>9, <2>10, <2>11, <2>12 DEF RecordInv
  <2> QED  BY <2>3, <2>7, <2>13, <1>v DEF IInv
<1>4. CASE RecordKind
  <2> DEFINE k == call.kinds[call.i]
  <2>1. /\ call.pc = "record" /\ clock' = clock /\ tracker' = Record(tracker, k, clock)
        /\ call' = [call EXCEPT !.i = @ + 1] /\ call.i <= Len(call.kinds)
        /\ \/ server' = Executes(server, k, clock)
           \/ /\ ~server.skipping /\ k \notin {"begin", "rollback"}
              /\ server' = Fails(server, k)
    BY <1>4 DEF RecordKind
  <2>2. RecordInv
    BY <2>1 DEF IInv
  <2>3. /\ call'.pc = "record" /\ call'.i = call.i + 1 /\ call'.kinds = call.kinds
        /\ call'.acc = call.acc
    BY <2>1, <1>t DEF Calls
  <2>4. /\ call.kinds \in Seq(Kinds) /\ call.i \in Nat \ {0} /\ k \in Kinds
        /\ call.acc \in Seq(Locals)
    BY <2>1, <1>t DEF Calls, Locals
  <2>5. Describes(tracker, server)
    BY <1>i DEF Describes, Counted, Emptied, OpenBlockTracked
  <2>6. k = "begin" => Empty(server) /\ server.block # "T"
    BY <2>1, <2>2 DEF RecordInv, BeginIsFresh
  <2>7. /\ Describes(tracker', server')
        /\ k \in {"commit", "rollback"} => Empty(server') /\ server'.block # "T"
        /\ server'.batches = server.batches
    BY <2>1, <2>4, <2>5, <2>6, <1>t, RecordDescribes
  <2>8. /\ call.acc[call.i] = Counters(tracker)
        /\ Breaks(call.acc[call.i], k) = "none"
        /\ call.acc[call.i + 1] = Check(call.acc[call.i], k)
    BY <2>1, <2>2, <2>4 DEF RecordInv, Chained
  <2>9. Counters(tracker') = Check(Counters(tracker), k)
    BY <2>1, <2>4, <1>t, RecordMatchesCheck
  <2>10. Alone(Counters(tracker'))
    <3>1. Counters(tracker) \in Locals /\ Alone(Counters(tracker))
      BY <1>t, <1>i DEF Counted, Counters, Locals, Trackers
    <3> QED  BY <3>1, <2>4, <2>8, <2>9, CheckAlone
  <2>11. Counted' /\ OpenBlockTracked'
    BY <2>7, <2>10 DEF Describes, Counted, OpenBlockTracked
  <2>12. server'.batches = 1
    BY <2>2, <2>7 DEF RecordInv
  <2>13. Emptied'
    BY <2>7, <2>12 DEF Describes, Emptied
  <2>14. BeginsFollowEnds'
    BY <2>2, <2>3 DEF RecordInv, BeginsFollowEnds
  <2>15. BeginIsFresh'
    <3> SUFFICES ASSUME call.i + 1 <= Len(call.kinds),
                        call.kinds[call.i + 1] = "begin"
                 PROVE  Empty(server') /\ server'.block # "T"
      BY <2>3 DEF BeginIsFresh
    <3>1. call.i + 1 \in DOMAIN call.kinds /\ call.i + 1 > 1 /\ (call.i + 1) - 1 = call.i
      BY <2>4
    <3>2. k \in {"commit", "rollback"}
      BY <3>1, <2>2 DEF RecordInv, BeginsFollowEnds
    <3> QED  BY <3>2, <2>7
  <2>16. Chained(Len(call.kinds))'
    BY <2>2, <2>3 DEF RecordInv, Chained
  <2>17. /\ call'.i <= Len(call'.kinds) + 1 /\ Len(call'.acc) = Len(call'.kinds) + 1
         /\ call'.acc[call'.i] = Counters(tracker') /\ call'.i # 1
    BY <2>1, <2>2, <2>3, <2>4, <2>8, <2>9 DEF RecordInv
  <2>18. RecordInv'
    BY <2>12, <2>14, <2>15, <2>16, <2>17 DEF RecordInv
  <2> QED  BY <2>3, <2>11, <2>13, <2>18, <1>v DEF IInv
<1>5. CASE Admitted
  <2>1. call'.pc = "idle" /\ UNCHANGED <<tracker, server>>
    BY <1>5, <1>t DEF Admitted, Calls
  <2>2. Counted' /\ Emptied' /\ OpenBlockTracked'
    BY <2>1, <1>i DEF Counted, Emptied, OpenBlockTracked, Alone, Counters, Empty
  <2> QED  BY <2>1, <2>2, <1>v DEF IInv
<1>6. CASE Sync
  <2>1. call'.pc = "idle" /\ tracker' = tracker
    BY <1>6 DEF Sync, NoCall
  <2>2. CASE server.block = "I"
    <3>1. server' = IdleServer
      BY <1>6, <2>2 DEF Sync
    <3>2. Counted' /\ Emptied' /\ OpenBlockTracked'
      BY <2>1, <3>1, <1>i, <1>t
         DEF Counted, Emptied, OpenBlockTracked, Alone, Counters, Empty,
             IdleServer, Trackers
    <3> QED  BY <2>1, <3>2, <1>v DEF IInv
  <2>3. CASE server.block # "I"
    <3>1. server' = [server EXCEPT !.skipping = FALSE, !.batches = 0]
      BY <1>6, <2>3 DEF Sync
    <3>2. /\ server'.ddl = server.ddl /\ server'.dml = server.dml
          /\ server'.block = server.block /\ server'.since = server.since
          /\ server'.skipping = FALSE
      BY <3>1, <1>t DEF Servers
    <3>3. Counted' /\ Emptied' /\ OpenBlockTracked'
      BY <2>1, <2>3, <3>2, <1>i
         DEF Counted, Emptied, OpenBlockTracked, Alone, Counters, Empty
    <3> QED  BY <2>1, <3>3, <1>v DEF IInv
  <2> QED  BY <2>2, <2>3
<1>7. CASE Tick
  <2>1. call'.pc = "idle" /\ UNCHANGED <<tracker, server>>
    BY <1>7 DEF Tick, NoCall
  <2>2. Counted' /\ Emptied' /\ OpenBlockTracked'
    BY <2>1, <1>i DEF Counted, Emptied, OpenBlockTracked, Alone, Counters, Empty
  <2> QED  BY <2>1, <2>2, <1>v DEF IInv
<1>8. CASE UNCHANGED vars
  BY <1>8, <1>v DEF vars, IInv, ValidateInv, RecordInv, Counted, Emptied,
     OpenBlockTracked, Chained, BeginsFollowEnds, BeginIsFresh, Alone, Counters,
     Empty, AgeRefuses, TooOld, HasRollback
<1> QED  BY <1>1, <1>2, <1>3, <1>4, <1>5, <1>6, <1>7, <1>8 DEF Next

\* What follows from IInv: DDL is alone upstream because the tracker, whose
\* own counters are, counts at least as much; the age limit holds because the
\* tracker dates the transaction as the upstream does.
LEMMA IInvImplies == IInv => DDLAlone /\ AgeRespected /\ OpenBlockTracked
<1> SUFFICES ASSUME IInv PROVE DDLAlone /\ AgeRespected /\ OpenBlockTracked
  OBVIOUS
<1>t. /\ tracker \in Trackers /\ server \in Servers /\ clock \in Nat \ {0}
      /\ tracker.inTxn => tracker.beganAt # ZeroTime
      /\ Counted /\ OpenBlockTracked
  BY DEF IInv, TypeOK
<1>1. DDLAlone
  BY <1>t DEF DDLAlone, Counted, Alone, Counters, Trackers, Servers
<1>2. AgeRespected
  <2> SUFFICES ASSUME call.pc = "record", call.i = 1, MaxAge > 0,
                      server.block = "T", clock - server.since > MaxAge
               PROVE  HasRollback(call.kinds)
    BY DEF AgeRespected
  <2>1. ~AgeRefuses(tracker, call.kinds, clock)
    BY DEF IInv, RecordInv
  <2>2. tracker.inTxn /\ tracker.beganAt = server.since
    BY <1>t DEF OpenBlockTracked
  <2> QED  BY <2>1, <2>2, <1>t DEF AgeRefuses, TooOld
<1> QED  BY <1>1, <1>2, <1>t

\* IInv holds in every state of such a client's session.
THEOREM IInvAlways ==
  ASSUME ~NestedBegin, BatchesPerSync = 1
  PROVE  Spec => []IInv
<1>1. IInv /\ [Next]_vars => IInv'
  BY IInvStep
<1> QED  BY IInvInit, <1>1, PTL DEF Spec

\* However batches are refused, fail or are dropped upstream, no transaction
\* that Admit let through holds two DDL statements, or DDL together with DML.
THEOREM DDLStaysAlone ==
  ASSUME ~NestedBegin, BatchesPerSync = 1
  PROVE  Spec => []DDLAlone
BY IInvAlways, IInvImplies, PTL

\* A batch is admitted into a transaction older than the limit only if it
\* holds a ROLLBACK.
THEOREM AgeLimitHolds ==
  ASSUME ~NestedBegin, BatchesPerSync = 1
  PROVE  Spec => []AgeRespected
BY IInvAlways, IInvImplies, PTL

\* The tracker says a transaction is open, and since when, whenever one is.
THEOREM OpenBlockIsTracked ==
  ASSUME ~NestedBegin, BatchesPerSync = 1
  PROVE  Spec => []OpenBlockTracked
BY IInvAlways, IInvImplies, PTL

-----------------------------------------------------------------------------
(* The two loops of Admit compute what Admit as a whole says.              *)

\* How far a call has come with the two loops, against Checked and Recorded.
LoopInv ==
  LET e == Enter(call.before)
  IN  /\ TypeInv
      /\ call.pc \in {"validate", "record"} => ~AgeRefuses(e, call.kinds, clock)
      /\ call.pc = "validate" =>
           /\ tracker = e
           /\ call.rule = "none"
           /\ call.i <= Len(call.kinds) + 1
           /\ \A n \in 1 .. call.i : call.acc[n] = Checked(e, call.kinds)[n - 1]
           /\ \A n \in 1 .. call.i - 1 :
                Breaks(Checked(e, call.kinds)[n - 1], call.kinds[n]) = "none"
      /\ call.pc = "record" =>
           /\ call.rule = "none"
           /\ call.i <= Len(call.kinds) + 1
           /\ tracker = Recorded(e, call.kinds, clock)[call.i - 1]
           /\ \A n \in 1 .. Len(call.kinds) :
                Breaks(Checked(e, call.kinds)[n - 1], call.kinds[n]) = "none"
      /\ LoopsMatchAdmit

\* LoopInv holds initially: no call has been made.
LEMMA LoopInvInit == Init => LoopInv
<1> SUFFICES ASSUME Init PROVE LoopInv
  OBVIOUS
<1>1. call.pc = "idle" /\ call.kinds = <<>>
  BY DEF Init, NoCall
<1> QED  BY <1>1, TypeInvInit DEF LoopInv, LoopsMatchAdmit

\* Every step keeps LoopInv, whatever the client sends.
LEMMA LoopInvStep == LoopInv /\ [Next]_vars => LoopInv'
<1> SUFFICES ASSUME LoopInv, [Next]_vars PROVE LoopInv'
  OBVIOUS
<1> DEFINE e == Enter(call.before)
           kinds == call.kinds
           Rule(n) == Breaks(Checked(e, kinds)[n - 1], kinds[n])
<1>t. /\ tracker \in Trackers /\ call \in Calls /\ clock \in Nat
      /\ call.pc = "validate" => Len(call.acc) = call.i
  BY DEF LoopInv, TypeInv, TypeOK
<1>c. /\ kinds \in Seq(Kinds) /\ call.i \in Nat \ {0} /\ call.before \in Trackers
      /\ call.acc \in Seq(Locals)
  BY <1>t, SMTT(30) DEF Calls, Locals
<1>e. e \in Trackers /\ Enter(e) = e
  BY <1>c, EnterType DEF Enter, Reset, Trackers
<1>k. /\ Checked(e, kinds)[0] = Counters(e)
      /\ \A n \in 1 .. Len(kinds) :
           Checked(e, kinds)[n] = Check(Checked(e, kinds)[n - 1], kinds[n])
      /\ Recorded(e, kinds, clock)[0] = e
      /\ \A n \in 1 .. Len(kinds) :
           Recorded(e, kinds, clock)[n] = Record(Recorded(e, kinds, clock)[n - 1], kinds[n], clock)
  BY <1>t, <1>c, <1>e, CheckedRuns, RecordedRuns
<1>a. ASSUME ~AgeRefuses(e, kinds, clock), NEW n \in 1 .. Len(kinds), Rule(n) # "none",
             \A m \in 1 .. n - 1 : Rule(m) = "none"
      PROVE  Admit(call.before, kinds, clock) = [rule |-> Rule(n), tracker |-> e]
  BY <1>t, <1>c, <1>a, AdmitAnswers
<1>y. TypeInv'
  BY TypeInvStep DEF LoopInv
<1>1. ASSUME NEW b \in Batches, AdmitCall(b) PROVE LoopInv'
  <2>1. b \in Seq(Kinds) /\ tracker' = Enter(tracker) /\ clock' = clock
    BY <1>1, TxnTrackerAssumption DEF AdmitCall
  <2>2. CASE AgeRefuses(tracker', b, clock)
    <3>1. call' = [NoCall EXCEPT !.kinds = b, !.before = tracker, !.rule = "txn_age"]
      BY <1>1, <2>2 DEF AdmitCall
    <3>2. /\ call'.pc = "idle" /\ call'.kinds = b /\ call'.before = tracker
          /\ call'.rule = "txn_age"
      BY <3>1 DEF NoCall
    <3>3. Admit(tracker, b, clock) = [rule |-> "txn_age", tracker |-> Enter(tracker)]
      BY <1>t, <2>1, <2>2, AdmitAnswers
    <3>4. LoopsMatchAdmit'
      BY <2>1, <3>2, <3>3 DEF LoopsMatchAdmit
    <3> QED  BY <1>y, <3>2, <3>4 DEF LoopInv
  <2>3. CASE ~AgeRefuses(tracker', b, clock)
    <3> DEFINE start == Counters(tracker')
    <3>1. call' = [NoCall EXCEPT !.pc = "validate", !.kinds = b, !.before = tracker,
                                 !.acc = <<start>>]
      BY <1>1, <2>3 DEF AdmitCall
    <3>2. /\ call'.pc = "validate" /\ call'.kinds = b /\ call'.before = tracker
          /\ call'.rule = "none" /\ call'.i = 1 /\ call'.acc = <<start>>
      BY <3>1 DEF NoCall
    <3>3. Checked(Enter(tracker), b)[0] = start
      BY <1>t, <2>1, EnterType, CheckedRuns
    <3>4. \A n \in 1 .. 1 : <<start>>[n] = Checked(Enter(tracker), b)[n - 1]
      BY <3>3
    <3>5. 1 <= Len(b) + 1 /\ \A n \in 1 .. 1 - 1 : FALSE
      BY <2>1
    <3>6. LoopsMatchAdmit'
      BY <3>2 DEF LoopsMatchAdmit
    <3> QED  BY <1>y, <2>1, <2>3, <3>2, <3>4, <3>5, <3>6 DEF LoopInv
  <2> QED  BY <2>2, <2>3
<1>2. CASE Validate
  <2> DEFINE k == kinds[call.i]
             acc == call.acc[call.i]
  <2>1. /\ call.pc = "validate" /\ call.i <= Len(kinds) /\ tracker' = tracker
        /\ clock' = clock
    BY <1>2 DEF Validate
  <2>2. /\ tracker = e /\ call.rule = "none" /\ ~AgeRefuses(e, kinds, clock)
        /\ \A n \in 1 .. call.i : call.acc[n] = Checked(e, kinds)[n - 1]
        /\ \A n \in 1 .. call.i - 1 : Rule(n) = "none"
    BY <2>1 DEF LoopInv
  <2>3. call.i \in 1 .. Len(kinds) /\ acc = Checked(e, kinds)[call.i - 1]
    BY <1>c, <2>1, <2>2
  <2>4. CASE Breaks(acc, k) # "none"
    <3>1. call' = [call EXCEPT !.pc = "idle", !.rule = Breaks(acc, k)]
      BY <1>2, <2>4 DEF Validate
    <3>2. /\ call'.pc = "idle" /\ call'.kinds = kinds /\ call'.before = call.before
          /\ call'.rule = Rule(call.i)
      BY <1>t, <2>3, <3>1 DEF Calls
    <3>3. Admit(call.before, kinds, clock) = [rule |-> Rule(call.i), tracker |-> e]
      <4>1. Rule(call.i) # "none"
        BY <2>3, <2>4
      <4> HIDE DEF Rule
      <4> QED  BY <1>a, <2>2, <2>3, <4>1
    <3>4. LoopsMatchAdmit'
      BY <2>1, <2>2, <3>2, <3>3 DEF LoopsMatchAdmit
    <3> QED  BY <1>y, <3>2, <3>4 DEF LoopInv
  <2>5. CASE Breaks(acc, k) = "none"
    <3>1. call' = [call EXCEPT !.i = @ + 1, !.acc = Append(@, Check(acc, k))]
      BY <1>2, <2>5 DEF Validate
    <3>2. /\ call'.pc = "validate" /\ call'.kinds = kinds /\ call'.before = call.before
          /\ call'.rule = "none" /\ call'.i = call.i + 1
          /\ call'.acc = Append(call.acc, Check(acc, k))
      BY <1>t, <2>1, <2>2, <3>1 DEF Calls
    <3>3. ASSUME NEW n \in 1 .. call.i + 1
          PROVE  Append(call.acc, Check(acc, k))[n] = Checked(e, kinds)[n - 1]
      <4>1. CASE n = call.i + 1
        <5>1. Append(call.acc, Check(acc, k))[n] = Check(acc, k)
          BY <1>t, <1>c, <2>1, <4>1
        <5>2. Checked(e, kinds)[call.i] = Check(acc, k)
          BY <1>k, <2>3
        <5>3. n - 1 = call.i
          BY <1>c, <4>1
        <5> QED  BY <5>1, <5>2, <5>3
      <4>2. CASE n # call.i + 1
        BY <1>t, <1>c, <2>1, <2>2, <4>2
      <4> QED  BY <4>1, <4>2
    <3>4. \A n \in 1 .. (call.i + 1) - 1 : Rule(n) = "none"
      BY <1>c, <2>2, <2>3, <2>5
    <3>5. LoopsMatchAdmit'
      BY <3>2 DEF LoopsMatchAdmit
    <3>6. call.i + 1 <= Len(kinds) + 1
      BY <1>c, <2>1
    <3> QED  BY <1>y, <2>1, <2>2, <3>2, <3>3, <3>4, <3>5, <3>6 DEF LoopInv
  <2> QED  BY <2>4, <2>5
<1>3. CASE Validated
  <2>1. /\ call.pc = "validate" /\ call.i > Len(kinds) /\ tracker' = Enter(tracker)
        /\ clock' = clock /\ call' = [call EXCEPT !.pc = "record", !.i = 1]
    BY <1>3 DEF Validated
  <2>2. /\ call'.pc = "record" /\ call'.kinds = kinds /\ call'.before = call.before
        /\ call'.rule = call.rule /\ call'.i = 1
    BY <1>t, <2>1 DEF Calls
  <2>3. /\ tracker = e /\ call.rule = "none" /\ ~AgeRefuses(e, kinds, clock)
        /\ call.i <= Len(kinds) + 1
        /\ \A n \in 1 .. call.i - 1 : Rule(n) = "none"
    BY <2>1 DEF LoopInv
  <2>4. call.i - 1 = Len(kinds) /\ 1 <= Len(kinds) + 1
    BY <1>c, <2>1, <2>3
  <2>5. LoopsMatchAdmit'
    BY <2>2 DEF LoopsMatchAdmit
  <2> QED  BY <1>y, <1>e, <1>k, <2>1, <2>2, <2>3, <2>4, <2>5 DEF LoopInv
<1>4. CASE RecordKind
  <2>1. /\ call.pc = "record" /\ call.i <= Len(kinds) /\ clock' = clock
        /\ tracker' = Record(tracker, kinds[call.i], clock)
        /\ call' = [call EXCEPT !.i = @ + 1]
    BY <1>4 DEF RecordKind
  <2>2. /\ call'.pc = "record" /\ call'.kinds = kinds /\ call'.before = call.before
        /\ call'.rule = call.rule /\ call'.i = call.i + 1
    BY <1>t, <2>1 DEF Calls
  <2>3. /\ call.rule = "none" /\ ~AgeRefuses(e, kinds, clock)
        /\ tracker = Recorded(e, kinds, clock)[call.i - 1]
        /\ \A n \in 1 .. Len(kinds) : Rule(n) = "none"
    BY <2>1 DEF LoopInv
  <2>4. tracker' = Recorded(e, kinds, clock)[call.i]
    BY <1>c, <1>k, <2>1, <2>3
  <2>5. (call.i + 1) - 1 = call.i /\ call.i + 1 <= Len(kinds) + 1
    BY <1>c, <2>1
  <2>6. LoopsMatchAdmit'
    BY <2>2 DEF LoopsMatchAdmit
  <2> QED  BY <1>y, <2>1, <2>2, <2>3, <2>4, <2>5, <2>6 DEF LoopInv
<1>5. CASE Admitted
  <2>1. /\ call.pc = "record" /\ call.i > Len(kinds) /\ clock' = clock
        /\ tracker' = tracker /\ call' = [call EXCEPT !.pc = "idle"]
    BY <1>5 DEF Admitted
  <2>2. /\ call'.pc = "idle" /\ call'.kinds = kinds /\ call'.before = call.before
        /\ call'.rule = call.rule
    BY <1>t, <2>1 DEF Calls
  <2>3. /\ call.rule = "none" /\ ~AgeRefuses(e, kinds, clock)
        /\ call.i <= Len(kinds) + 1
        /\ tracker = Recorded(e, kinds, clock)[call.i - 1]
        /\ \A n \in 1 .. Len(kinds) : Rule(n) = "none"
    BY <2>1 DEF LoopInv
  <2>4. call.i - 1 = Len(kinds)
    BY <1>c, <2>1, <2>3
  <2>5. Admit(call.before, kinds, clock) = [rule |-> "none", tracker |-> tracker]
    BY <1>t, <1>c, <2>3, <2>4, AdmitAnswers
  <2>6. LoopsMatchAdmit'
    BY <2>1, <2>2, <2>3, <2>5 DEF LoopsMatchAdmit
  <2> QED  BY <1>y, <2>2, <2>6 DEF LoopInv
<1>6. CASE Sync \/ Tick
  <2>1. call' = NoCall
    BY <1>6 DEF Sync, Tick
  <2>2. call'.pc = "idle" /\ call'.kinds = <<>>
    BY <2>1 DEF NoCall
  <2> QED  BY <1>y, <2>2 DEF LoopInv, LoopsMatchAdmit
<1>7. CASE UNCHANGED vars
  BY <1>y, <1>7 DEF vars, LoopInv, LoopsMatchAdmit
<1> QED  BY <1>1, <1>2, <1>3, <1>4, <1>5, <1>6, <1>7 DEF Next

\* Admit run one iteration at a time, its two passes interleaved with the
\* upstream's execution of the batch, decides and records what the operator
\* Admit says of the batch as a whole, for every batch and every client.
THEOREM LoopsAgree == Spec => []LoopsMatchAdmit
<1>1. LoopInv => LoopsMatchAdmit
  BY DEF LoopInv
<1> QED  BY LoopInvInit, LoopInvStep, <1>1, PTL DEF Spec
=============================================================================
