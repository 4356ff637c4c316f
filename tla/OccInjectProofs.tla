-------------------------- MODULE OccInjectProofs --------------------------
(***************************************************************************)
(* What the injection of conflicts keeps for every ruleset: the tables a   *)
(* session remembers are the open transaction's, and a ruleset of which    *)
(* only the first rule counts fails exactly every Nth commit.              *)
(***************************************************************************)
EXTENDS OccInject, WellFoundedInduction, TLAPS

\* A set of naturals has a least element.
LEMMA LeastNatural ==
  ASSUME NEW T \in SUBSET Nat, T # {}
  PROVE  \E x \in T : \A y \in T : x <= y
<1>1. PICK x \in T : \A y \in T : <<y, x>> \notin OpToRel(<, Nat)
  BY NatLessThanWellFounded, WFMin
<1>2. \A y \in T : ~(y < x)
  BY <1>1 DEF OpToRel
<1> QED  BY <1>2

\* Rules are numbered from 1, and count from 1.
LEMMA RuleTypes ==
  /\ Rules \in SUBSET (Nat \ {0})
  /\ \A i \in Rules : i >= 1
  /\ \A i \in Rules : Inject[i].every \in Nat /\ Every(Inject[i]) \in Nat \ {0}
<1> DEFINE RuleSet == [tables : SUBSET Tables, every : Nat]
<1>1. Inject \in Seq(RuleSet)
  BY OccInjectAssumption DEF Validated
<1> HIDE DEF RuleSet
<1>2. Rules = 1 .. Len(Inject) /\ Len(Inject) \in Nat
  BY <1>1 DEF Rules
<1>3. \A i \in Rules : Inject[i] \in RuleSet
  BY <1>1, <1>2
<1>4. \A i \in Rules : Inject[i].every \in Nat
  BY <1>3 DEF RuleSet
<1> QED  BY <1>2, <1>4 DEF Every

\* occCommitConflict finds a rule that fires, if there is one, and the rule it
\* finds is the first.
LEMMA FirstFires ==
  ASSUME NEW rs \in SUBSET Rules, rs # {}
  PROVE  First(rs) \in rs /\ \A j \in rs : First(rs) <= j
<1>1. \E i \in rs : \A j \in rs : i <= j
  BY LeastNatural, RuleTypes
<1> QED  BY <1>1 DEF First

\* Counting keeps the counts numbers.
LEMMA BumpType ==
  ASSUME NEW counts \in [Rules -> Nat], NEW rs
  PROVE  /\ Bump(counts, rs) \in [Rules -> Nat]
         /\ \A i \in Rules : Bump(counts, rs)[i] = counts[i] + (IF i \in rs THEN 1 ELSE 0)
BY DEF Bump

\* Every step keeps the types.
LEMMA TypeStep == TypeOK /\ [Next]_vars => TypeOK'
<1> SUFFICES ASSUME TypeOK, [Next]_vars PROVE TypeOK'
  OBVIOUS
<1> USE DEF TypeOK
<1>1. CASE Begin
  BY <1>1 DEF Begin
<1>2. ASSUME NEW rel \in Tables \cup {""}, Statement(rel) PROVE TypeOK'
  BY <1>2 DEF Statement, statementTables
<1>3. CASE Commit
  BY <1>3, BumpType DEF Commit, resetOcc, EndTxn
<1>4. CASE End
  BY <1>4 DEF End, resetOcc, EndTxn
<1>5. CASE UNCHANGED vars
  BY <1>5 DEF vars
<1> QED  BY <1>1, <1>2, <1>3, <1>4, <1>5 DEF Next

\* Types hold initially.
LEMMA TypeInit == Init => TypeOK
<1> SUFFICES ASSUME Init PROVE TypeOK
  OBVIOUS
<1>1. last \in [due : BOOLEAN, failed : BOOLEAN]
  BY DEF Init, NoCommit
<1> QED  BY <1>1 DEF Init, TypeOK

\* Types: a session remembers tables and counts commits, whatever the client.
THEOREM TypeCorrect == Spec => []TypeOK
BY TypeInit, TypeStep, PTL DEF Spec

\* A statement inside a transaction is remembered exactly as it is written.
LEMMA StatementTouches ==
  ASSUME NEW rel \in Tables \cup {""}
  PROVE  statementTables(rel) = {rel} \cap Tables
BY OccInjectAssumption DEF statementTables

\* A COMMIT of a transaction whose tables are remembered fails exactly when
\* it is due, and the first rule counts it exactly when it matches.
LEMMA CommitStep ==
  ASSUME FirstCounts, IInv, Commit
  PROVE  FailsEveryNth' /\ (1 \in Rules => occCommits'[1] = matched'[1])
<1> DEFINE hit == {i \in Rules : Matches(Inject[i], occTouched)}
           firing == Firing(hit, occCommits)
           counted == Counted(occTouched)
<1>1. counted = {i \in hit : firing = {} \/ i <= First(firing)}
  BY DEF Counted
<1>2. /\ occCommits' = Bump(occCommits, counted)
      /\ matched' = Bump(matched, hit)
      /\ last' = [due    |-> \E i \in hit : (matched[i] + 1) % Every(Inject[i]) = 0,
                  failed |-> Firing(counted, occCommits) # {}]
  BY DEF Commit, IInv
<1>3. occCommits \in [Rules -> Nat] /\ matched \in [Rules -> Nat]
  BY DEF IInv, TypeOK
<1>4. firing \in SUBSET Rules /\ counted \in SUBSET hit
  BY <1>1 DEF Firing
<1> HIDE DEF hit, firing, counted
<1>5. ASSUME 1 \in Rules PROVE occCommits'[1] = matched'[1]
  <2>1. 1 \in counted <=> 1 \in hit
    <3>1. CASE firing = {}
      BY <1>1, <3>1
    <3>2. CASE firing # {}
      <4>1. 1 <= First(firing)
        BY <1>4, <3>2, FirstFires, RuleTypes
      <4> QED  BY <1>1, <4>1
    <3> QED  BY <3>1, <3>2
  <2> QED  BY <1>2, <1>3, <1>5, <2>1, BumpType DEF IInv
<1>6. \A i \in hit : i \in firing <=> (matched[i] + 1) % Every(Inject[i]) = 0
  <2>1. SUFFICES ASSUME NEW i \in hit
                 PROVE  (occCommits[i] + 1) % Every(Inject[i]) = 0
                          <=> (matched[i] + 1) % Every(Inject[i]) = 0
    BY DEF firing, Firing, Fires
  <2>2. i \in Rules
    BY DEF hit
  <2>3. CASE i = 1
    BY <2>2, <2>3 DEF IInv
  <2>4. CASE Every(Inject[i]) = 1
    BY <1>3, <2>2, <2>4
  <2> QED  BY <2>2, <2>3, <2>4 DEF FirstCounts
<1>7. Firing(counted, occCommits) # {} <=> firing # {}
  <2>1. Firing(counted, occCommits) \subseteq firing
    BY <1>4 DEF Firing, firing
  <2>2. ASSUME firing # {} PROVE First(firing) \in Firing(counted, occCommits)
    <3>1. First(firing) \in firing
      BY <1>4, <2>2, FirstFires
    <3>2. First(firing) \in hit
      BY <3>1 DEF firing, Firing
    <3>3. First(firing) \in Nat
      BY <1>4, <3>1, RuleTypes
    <3>4. First(firing) \in counted
      BY <1>1, <3>2, <3>3
    <3> QED  BY <3>1, <3>4 DEF Firing, firing
  <2> QED  BY <2>1, <2>2
<1>8. firing \subseteq hit
  BY DEF firing, Firing
<1> QED  BY <1>2, <1>5, <1>6, <1>7, <1>8 DEF FailsEveryNth

\* Every step keeps IInv, for a client that writes in transactions only.
LEMMA IInvStep == ~Autocommit /\ FirstCounts /\ IInv /\ [Next]_vars => IInv'
<1> SUFFICES ASSUME ~Autocommit, FirstCounts, IInv, [Next]_vars PROVE IInv'
  OBVIOUS
<1>t. TypeOK'
  BY TypeStep DEF IInv
<1>1. CASE Begin
  BY <1>1, <1>t DEF Begin, IInv, FailsEveryNth
<1>2. ASSUME NEW rel \in Tables \cup {""}, Statement(rel) PROVE IInv'
  BY <1>2, <1>t, StatementTouches DEF Statement, IInv, FailsEveryNth
<1>3. CASE Commit
  <2>1. occTouched' = {} /\ written' = {}
    BY <1>3 DEF Commit, resetOcc, EndTxn
  <2> QED  BY <1>3, <1>t, <2>1, CommitStep DEF IInv
<1>4. CASE End
  BY <1>4, <1>t DEF End, resetOcc, EndTxn, IInv, FailsEveryNth
<1>5. CASE UNCHANGED vars
  BY <1>5, <1>t DEF vars, IInv, FailsEveryNth
<1> QED  BY <1>1, <1>2, <1>3, <1>4, <1>5 DEF Next

\* IInv holds initially.
LEMMA IInvInit == Init => IInv
BY TypeInit DEF Init, IInv, FailsEveryNth, NoCommit

\* With one rule that counts, followed by any that always fire, a COMMIT
\* fails exactly when it is the Nth, 2Nth, ... transaction some rule matched.
THEOREM EveryNthFails ==
  ASSUME ~Autocommit, FirstCounts
  PROVE  Spec => []FailsEveryNth
<1>1. IInv /\ [Next]_vars => IInv'
  BY IInvStep
<1>2. IInv => FailsEveryNth
  BY DEF IInv
<1> QED  BY IInvInit, <1>1, <1>2, PTL DEF Spec

\* The tables of a client that writes in transactions only are remembered
\* for the transaction that wrote them, for every ruleset.
THEOREM TouchedIsWritten ==
  ASSUME ~Autocommit
  PROVE  Spec => []TouchedByThisTxn
<1>1. Init => occTouched = written
  BY DEF Init
<1>2. occTouched = written /\ [Next]_vars => (occTouched = written)'
  BY StatementTouches
  DEF Next, Begin, Statement, Commit, End, resetOcc, EndTxn, vars
<1>3. occTouched = written => TouchedByThisTxn
  BY DEF TouchedByThisTxn
<1> QED  BY <1>1, <1>2, <1>3, PTL DEF Spec
=============================================================================
