-------------------------- MODULE HandshakeProofs --------------------------
(***************************************************************************)
(* What holds of the opening of a connection for every set of well-formed  *)
(* scripts, of command lines and of limits, in whatever pieces the bytes   *)
(* arrive and wherever the client leaves: the reader stays in step with    *)
(* the client's messages, encryption is what was agreed to, and the        *)
(* emulator's settings prevail.                                            *)
(***************************************************************************)
EXTENDS Handshake, WellFoundedInduction, FiniteSetTheorems, TLAPS

-----------------------------------------------------------------------------
(* Where a message begins.                                                 *)

\* A nonempty set of naturals has a least element.
LEMMA LeastNatural ==
  ASSUME NEW T \in SUBSET Nat, T # {}
  PROVE  \E x \in T : \A y \in T : x <= y
<1>1. PICK x \in T : \A y \in T : <<y, x>> \notin OpToRel(<, Nat)
  BY NatLessThanWellFounded, WFMin
<1>2. \A y \in T : ~(y < x)
  BY <1>1 DEF OpToRel
<1> QED  BY <1>2

\* A message of a script, its kind and its size.
LEMMA ScriptTypes ==
  ASSUME NEW s \in Scripts
  PROVE  /\ s \in Seq(Messages) /\ WellFormed(s) /\ Len(s) \in Nat
         /\ \A i \in DOMAIN s : s[i].kind \in Kinds /\ s[i].length \in Nat /\ Size(s[i]) \in Nat
<1>1. s \in Seq(Messages) /\ WellFormed(s)
  BY HandshakeAssumption
<1>2. \A m \in Messages : m.kind \in Kinds /\ m.length \in Nat
  <2>1. \A m \in [kind : Kinds \ {"startup"}, length : Nat] : m.kind \in Kinds /\ m.length \in Nat
    OBVIOUS
  <2>2. ASSUME NEW m \in [kind : {"startup"}, length : Nat, decodes : BOOLEAN, params : SUBSET STRING,
                          options : Seq([setting : STRING, by : {"client"}])]
        PROVE  m.kind \in Kinds /\ m.length \in Nat
    <3>1. m.kind = "startup" /\ m.length \in Nat
      OBVIOUS
    <3> QED  BY <3>1 DEF Kinds, Opening
  <2> QED  BY <2>1, <2>2 DEF Messages
<1>3. \A i \in DOMAIN s : s[i] \in Messages
  BY <1>1
<1> QED  BY <1>1, <1>2, <1>3 DEF Size

\* The recursion of Offset, over the first n messages of s.
Sums(f, len, s) ==
  /\ f \in [0 .. len -> Nat]
  /\ f[0] = 0
  /\ \A i \in 1 .. len : f[i] = f[i - 1] + Size(s[i])

\* It has a solution: the shortest script without one would be one message
\* longer than a script with one.
LEMMA SumsExist ==
  ASSUME NEW s \in Scripts
  PROVE  \E f : Sums(f, Len(s), s)
<1> DEFINE Unsolved == {m \in 0 .. Len(s) : ~ \E f : Sums(f, m, s)}
<1>0. Len(s) \in Nat /\ \A i \in DOMAIN s : Size(s[i]) \in Nat
  BY ScriptTypes
<1>00. DOMAIN s = 1 .. Len(s)
  BY ScriptTypes
<1>1. ASSUME Unsolved # {} PROVE FALSE
  <2>0. Unsolved \in SUBSET Nat
    OBVIOUS
  <2>1. PICK m \in Unsolved : \A k \in Unsolved : m <= k
    <3> HIDE DEF Unsolved
    <3> QED  BY <1>1, <2>0, LeastNatural
  <2>2. m # 0
    <3>1. Sums([i \in 0 .. 0 |-> 0], 0, s)
      BY DEF Sums
    <3> QED  BY <3>1
  <2>3. PICK g : Sums(g, m - 1, s)
    BY <2>1, <2>2
  <2> DEFINE last == g[m - 1] + Size(s[m])
             f == [i \in 0 .. m |-> IF i = m THEN last ELSE g[i]]
  <2>40. m \in DOMAIN s /\ m - 1 \in 0 .. m - 1
    BY <1>0, <1>00, <2>1, <2>2
  <2>4. last \in Nat
    BY <2>40, <1>0, <1>00, <2>1, <2>2, <2>3 DEF Sums
  <2>5. f \in [0 .. m -> Nat] /\ f[0] = 0
    <3> HIDE DEF last
    <3> QED  BY <2>1, <2>2, <2>3, <2>4 DEF Sums
  <2>6. ASSUME NEW i \in 1 .. m
        PROVE  f[i] = f[i - 1] + Size(s[i])
    <3>1. CASE i = m
      BY <3>1, <2>2
    <3>2. CASE i # m
      BY <3>2, <2>3 DEF Sums
    <3> QED  BY <3>1, <3>2
  <2>7. Sums(f, m, s)
    BY <2>5, <2>6 DEF Sums
  <2> QED  BY <2>1, <2>7
<1>2. Len(s) \in 0 .. Len(s)
  BY <1>0
<1>3. Unsolved = {}
  BY <1>1
<1> QED  BY <1>2, <1>3

\* A message begins where the one before it ends.
LEMMA OffsetStep ==
  ASSUME script \in Scripts
  PROVE  /\ Offset(0) = 0
         /\ \A k \in 0 .. Len(script) : Offset(k) \in Nat
         /\ \A k \in 1 .. Len(script) : Offset(k) = Offset(k - 1) + Size(script[k])
<1> DEFINE len == Len(script)
           Body(f) == [i \in 0 .. len |-> IF i = 0 THEN 0 ELSE f[i - 1] + Size(script[i])]
           g == CHOOSE h : h = Body(h)
<1>0. len \in Nat
  BY ScriptTypes
<1>1. PICK f : Sums(f, len, script)
  BY SumsExist
<1>2. \A k : Offset(k) = g[k]
  BY DEF Offset
<1> HIDE DEF len
<1>3. f = Body(f)
  <2>1. f = [i \in 0 .. len |-> f[i]]
    BY <1>1 DEF Sums
  <2>2. ASSUME NEW i \in 0 .. len PROVE f[i] = Body(f)[i]
    <3>1. CASE i = 0
      BY <3>1, <1>1 DEF Sums
    <3>2. CASE i # 0
      <4>1. i \in 1 .. len
        BY <1>0, <3>2
      <4> QED  BY <4>1, <3>2, <1>1 DEF Sums
    <3> QED  BY <3>1, <3>2
  <2> QED  BY <2>1, <2>2, SMTT(30)
<1>4. g = Body(g)
  <2> HIDE DEF Body
  <2> QED  BY <1>3
<1>5. Sums(g, len, script)
  <2>0. g = [i \in 0 .. len |-> IF i = 0 THEN 0 ELSE g[i - 1] + Size(script[i])]
    BY <1>4
  <2> HIDE DEF g, Body
  <2>1. g[0] = 0 /\ \A i \in 1 .. len : g[i] = g[i - 1] + Size(script[i])
    BY <1>0, <2>0
  <2>2. \A i \in 1 .. len : Size(script[i]) \in Nat
    BY ScriptTypes DEF len
  <2> DEFINE Bad == {i \in 0 .. len : g[i] \notin Nat}
  <2>3. ASSUME Bad # {} PROVE FALSE
    <3>1. Bad \in SUBSET Nat
      OBVIOUS
    <3>2. PICK m \in Bad : \A k \in Bad : m <= k
      <4> HIDE DEF Bad
      <4> QED  BY <2>3, <3>1, LeastNatural
    <3>3. m # 0
      BY <2>1
    <3>4. m - 1 \in 0 .. len /\ m \in 1 .. len /\ m - 1 \notin Bad
      BY <1>0, <3>2, <3>3
    <3>5. g[m - 1] \in Nat
      BY <3>4
    <3> QED  BY <2>1, <2>2, <3>2, <3>4, <3>5
  <2>4. \A i \in 0 .. len : g[i] \in Nat
    BY <2>3
  <2>5. g \in [0 .. len -> Nat]
    BY <2>0, <2>4
  <2> QED  BY <2>1, <2>5 DEF Sums
<1> QED
  <2> HIDE DEF g
  <2>1. len = Len(script)
    BY DEF len
  <2> QED  BY <1>2, <1>5, <2>1 DEF Sums

-----------------------------------------------------------------------------
(* The invariant.                                                          *)

IInv == TypeOK /\ StageInv /\ WholeMessages /\ EncryptedOnceAgreed

\* One more message is one more agreement, if it is agreed to.
LEMMA AgreedStep ==
  /\ Cardinality(Agreed(0)) = 0
  /\ \A k \in Nat :
       /\ Cardinality(Agreed(k)) \in Nat
       /\ Cardinality(Agreed(k + 1)) =
            Cardinality(Agreed(k)) + (IF k + 1 \in Agreed(k + 1) THEN 1 ELSE 0)
<1>1. ASSUME NEW k \in Nat PROVE IsFiniteSet(Agreed(k)) /\ Cardinality(Agreed(k)) \in Nat
  <2>1. IsFiniteSet(1 .. k) /\ Agreed(k) \in SUBSET (1 .. k)
    BY FS_Interval DEF Agreed
  <2>2. IsFiniteSet(Agreed(k))
    BY <2>1, FS_Subset
  <2> QED  BY <2>2, FS_CardinalityType
<1>2. ASSUME NEW k \in Nat
      PROVE  Cardinality(Agreed(k + 1)) =
               Cardinality(Agreed(k)) + (IF k + 1 \in Agreed(k + 1) THEN 1 ELSE 0)
  <2>0. k + 1 \notin Agreed(k)
    BY DEF Agreed
  <2>1. CASE k + 1 \in Agreed(k + 1)
    <3>1. Agreed(k + 1) = Agreed(k) \cup {k + 1}
      BY <2>1 DEF Agreed
    <3> QED  BY <1>1, <2>0, <2>1, <3>1, FS_AddElement
  <2>2. CASE k + 1 \notin Agreed(k + 1)
    <3>1. Agreed(k + 1) = Agreed(k)
      BY <2>2 DEF Agreed
    <3> QED  BY <1>1, <2>2, <3>1
  <2> QED  BY <2>1, <2>2
<1>3. Cardinality(Agreed(0)) = 0
  <2>1. Agreed(0) = {}
    BY DEF Agreed
  <2> QED  BY <2>1, FS_EmptySet
<1> QED  BY <1>1, <1>2, <1>3

\* What was sent when one more write goes upstream.
LEMMA SentAppend ==
  ASSUME upstream \in Seq(Wires), NEW w \in Wires, upstream' = Append(upstream, w)
  PROVE  /\ upstream' \in Seq(Wires)
         /\ DOMAIN upstream' = DOMAIN upstream \cup {Len(upstream) + 1}
         /\ \A i \in DOMAIN upstream : upstream'[i] = upstream[i] /\ i < Len(upstream) + 1
         /\ upstream'[Len(upstream) + 1] = w
         /\ Passed' = IF w.kind = "bytes" THEN Passed ELSE Passed \cup {Len(upstream) + 1}
         /\ Sent' = IF w.kind = "bytes" THEN Sent ELSE Sent \cup {w.n}
<1>1. /\ upstream' \in Seq(Wires)
      /\ DOMAIN upstream' = DOMAIN upstream \cup {Len(upstream) + 1}
      /\ \A i \in DOMAIN upstream : upstream'[i] = upstream[i] /\ i < Len(upstream) + 1
      /\ upstream'[Len(upstream) + 1] = w
      /\ Len(upstream) + 1 \notin DOMAIN upstream
  OBVIOUS
<1>2. Passed' = IF w.kind = "bytes" THEN Passed ELSE Passed \cup {Len(upstream) + 1}
  BY <1>1 DEF Passed
<1>3. Passed \subseteq DOMAIN upstream
  BY DEF Passed
<1>4. Sent' = IF w.kind = "bytes" THEN Sent ELSE Sent \cup {w.n}
  BY <1>1, <1>2, <1>3 DEF Sent
<1> QED  BY <1>1, <1>2, <1>4

\* What does not depend on the reader's place stays as it is.
LEMMA SameScript ==
  ASSUME UNCHANGED <<script, flags>>
  PROVE  /\ \A k : Offset(k)' = Offset(k) /\ Agreed(k)' = Agreed(k)
         /\ tlsConfig' = tlsConfig
BY DEF Offset, Agreed, tlsConfig

\* A body is read to the end of its message.
LEMMA ReadsWhole ==
  ASSUME IInv, pc \in {"startup", "run"}, ReadBody
  PROVE  /\ n \in Nat /\ n + 1 \in DOMAIN script /\ n + 1 <= Len(script) /\ n' = n + 1
         /\ script' = script /\ flags' = flags /\ layers' = layers /\ at' = "header"
         /\ pos' \in Nat /\ pos' <= arrived /\ arrived' = arrived /\ pos' = Offset(n + 1)
         /\ script[n + 1].kind \in Opening <=> pc = "startup"
         /\ taken' \in Seq(Nat) /\ Len(taken') = n + 1
         /\ \A i \in 1 .. n + 1 : taken'[i] = Cardinality(Agreed(i - 1))
         /\ Due' = Due \cup (IF script[n + 1].kind \in Encryption THEN {} ELSE {n + 1})
         /\ peer' = peer /\ sealed' = sealed
<1>0. /\ TypeOK /\ StageInv /\ WholeMessages /\ EncryptedOnceAgreed
      /\ at = "body" /\ Full(bodySize(Current)) /\ pos' = pos + bodySize(Current)
      /\ at' = "header" /\ n' = n + 1 /\ taken' = Append(taken, layers)
      /\ UNCHANGED <<flags, script, peer, arrived, layers, sealed>>
  BY DEF IInv, ReadBody
<1>1. n \in Nat /\ n < Len(script) /\ script \in Scripts /\ lengthValid(Current)
  BY <1>0 DEF TypeOK, StageInv
<1>2. n + 1 \in DOMAIN script /\ n + 1 \in 1 .. Len(script) /\ Len(script) \in Nat
  BY <1>1, ScriptTypes
<1>3. Current.length \in Nat /\ Current = script[n + 1]
  BY <1>1, <1>2, ScriptTypes DEF Current
<1>4. script[n + 1].kind \in Opening <=> pc = "startup"
  <2>1. script[n + 1].kind \in Opening <=> \A j \in 1 .. n : script[j].kind \in Encryption
    <3>1. (n + 1) - 1 = n
      BY <1>1
    <3> QED  BY <1>1, <1>2, <3>1, ScriptTypes DEF WellFormed
  <2> QED  BY <1>0, <2>1 DEF StageInv
<1>5. bodySize(Current) \in Nat /\ HeaderSize + bodySize(Current) = Size(script[n + 1])
      /\ HeaderSize \in Nat
  <2>1. CASE pc = "startup"
    <3>1. Current.length >= 8
      BY <1>1, <2>1 DEF lengthValid
    <3> QED  BY <1>3, <1>4, <2>1, <3>1 DEF bodySize, HeaderSize, Size
  <2>2. CASE pc = "run"
    <3>1. Current.length >= 4
      BY <1>1, <2>2 DEF lengthValid
    <3> QED  BY <1>3, <1>4, <2>2, <3>1 DEF bodySize, HeaderSize, Size
  <2> QED  BY <2>1, <2>2
<1>6. pos' = Offset(n + 1) /\ pos' \in Nat
  <2>1. Offset(n + 1) = Offset(n) + Size(script[n + 1]) /\ Offset(n) \in Nat
    <3>1. Offset(n + 1) = Offset((n + 1) - 1) + Size(script[n + 1]) /\ (n + 1) - 1 = n
          /\ n \in 0 .. Len(script)
      BY <1>1, <1>2, OffsetStep
    <3> QED  BY <1>1, <3>1, OffsetStep
  <2>2. pos = Offset(n) + HeaderSize
    BY <1>0 DEF WholeMessages
  <2> QED  BY <1>0, <1>5, <2>1, <2>2
<1>7. pos' <= arrived
  <2>1. pos \in Nat /\ arrived \in Nat /\ pos <= arrived
    BY <1>0 DEF TypeOK
  <2> QED  BY <1>0, <1>5, <2>1 DEF Full
<1>8. taken' \in Seq(Nat) /\ Len(taken') = n + 1
      /\ \A i \in 1 .. n + 1 : taken'[i] = Cardinality(Agreed(i - 1))
  <2>1. taken \in Seq(Nat) /\ Len(taken) = n /\ layers \in Nat
    BY <1>0 DEF TypeOK
  <2>2. layers = Cardinality(Agreed(n))
    BY <1>0 DEF StageInv
  <2>3. taken' \in Seq(Nat) /\ Len(taken') = n + 1 /\ taken'[n + 1] = layers
        /\ \A i \in 1 .. n : taken'[i] = taken[i]
    BY <1>0, <2>1
  <2>4. ASSUME NEW i \in 1 .. n + 1 PROVE taken'[i] = Cardinality(Agreed(i - 1))
    <3>1. CASE i = n + 1
      <4>1. i - 1 = n
        BY <1>1, <3>1
      <4> QED  BY <2>2, <2>3, <3>1, <4>1
    <3>2. CASE i # n + 1
      <4>1. i \in 1 .. n
        BY <1>1, <3>2
      <4> QED  BY <1>0, <2>3, <4>1 DEF EncryptedOnceAgreed
    <3> QED  BY <3>1, <3>2
  <2> QED  BY <2>3, <2>4
<1>9. Due' = Due \cup (IF script[n + 1].kind \in Encryption THEN {} ELSE {n + 1})
  BY <1>0, <1>1 DEF Due
<1> QED  BY <1>0, <1>1, <1>2, <1>4, <1>6, <1>7, <1>8, <1>9

\* The invariant holds when the emulator is started.
LEMMA InvInit ==
  Init => IInv
<1> SUFFICES ASSUME Init PROVE IInv
  OBVIOUS
<1>0. /\ flags \in Flags /\ script \in Scripts /\ n = 0 /\ pos = 0 /\ arrived = 0 /\ layers = 0
      /\ pc = "main" /\ peer = "open" /\ at = "header" /\ sealed = FALSE
      /\ answers = << >> /\ taken = << >> /\ upstream = << >>
  BY DEF Init
<1>1. Len(script) \in Nat
  BY <1>0, ScriptTypes
<1>2. Len(answers) = 0 /\ Len(taken) = 0 /\ DOMAIN upstream = {} /\ DOMAIN answers = {}
      /\ answers \in Seq({"S", "N"}) /\ taken \in Seq(Nat) /\ upstream \in Seq(Wires)
  BY <1>0
<1>3. TypeOK
  <2>1. n \in Nat /\ n <= Len(script) /\ arrived \in Nat /\ pos \in Nat /\ pos <= arrived
        /\ layers \in Nat /\ layers <= Len(answers) /\ Len(taken) = n
    BY <1>0, <1>1, <1>2
  <2>2. sealed \in BOOLEAN
    BY <1>0
  <2>3. /\ pc \in {"main", "exited", "startup", "tls", "run", "relay", "closed"}
        /\ peer \in {"open", "eof", "gone"} /\ at \in {"header", "body"}
    BY <1>0
  <2> QED  BY <1>0, <1>2, <2>1, <2>2, <2>3 DEF TypeOK
<1>4. Cardinality(Agreed(n)) = 0
  BY <1>0, AgreedStep
<1>5. StageInv
  BY <1>0, <1>2, <1>4 DEF StageInv
<1>6. Passed = {} /\ Sent = {} /\ Due = {}
  BY <1>0, <1>2 DEF Passed, Sent, Due
<1>7. WholeMessages
  BY <1>0, <1>6 DEF WholeMessages
<1>8. EncryptedOnceAgreed
  BY <1>0, <1>2 DEF EncryptedOnceAgreed
<1> QED  BY <1>3, <1>5, <1>7, <1>8 DEF IInv

\* A step that reads no whole message and writes none upstream keeps what was
\* sent, and what was agreed.
LEMMA QuietStep ==
  ASSUME IInv, UNCHANGED <<flags, script, n, answers, taken, upstream>>
  PROVE  /\ EncryptedOnceAgreed'
         /\ Sent' = Sent /\ Due' = Due /\ Passed' = Passed
         /\ Agreed(n)' = Agreed(n) /\ Offset(n)' = Offset(n) /\ tlsConfig' = tlsConfig
         /\ \A i, j \in Passed : i < j => upstream[i].n < upstream[j].n
         /\ pc # "closed" => Sent = Due
         /\ pc = "closed" =>
              Sent \subseteq Due /\ \A i \in Due : (\E k \in Sent : i <= k) => i \in Sent
<1>1. /\ Sent' = Sent /\ Due' = Due /\ Passed' = Passed
      /\ Agreed(n)' = Agreed(n) /\ Offset(n)' = Offset(n) /\ tlsConfig' = tlsConfig
  <2>1. \A k : Offset(k)' = Offset(k) /\ Agreed(k)' = Agreed(k)
    BY SameScript
  <2>2. Sent' = Sent /\ Due' = Due /\ Passed' = Passed /\ tlsConfig' = tlsConfig
    BY SameScript DEF Sent, Due, Passed
  <2>3. Agreed(n)' = Agreed(n) /\ Offset(n)' = Offset(n)
    BY DEF Agreed, Offset
  <2> QED  BY <2>2, <2>3
<1>2. EncryptedOnceAgreed'
  BY DEF IInv, EncryptedOnceAgreed, Agreed
<1> QED  BY <1>1, <1>2 DEF IInv, WholeMessages

\* main, a read that fails, the TLS handshake, and the client's own steps.
LEMMA OutsideSteps ==
  ASSUME IInv, main \/ ReadFails \/ HandshakeContext \/ ClientSends \/ ClientLeaves
  PROVE  IInv'
<1>0. TypeOK /\ StageInv /\ WholeMessages /\ EncryptedOnceAgreed
  BY DEF IInv
<1>u. UNCHANGED <<flags, script, n, answers, taken, upstream, sealed, pos, at>>
  BY DEF main, ReadFails, HandshakeContext, ClientSends, ClientLeaves
<1>q. /\ EncryptedOnceAgreed'
      /\ Sent' = Sent /\ Due' = Due /\ Passed' = Passed
      /\ Agreed(n)' = Agreed(n) /\ Offset(n)' = Offset(n) /\ tlsConfig' = tlsConfig
      /\ \A i, j \in Passed : i < j => upstream[i].n < upstream[j].n
      /\ pc # "closed" => Sent = Due
      /\ pc = "closed" =>
           Sent \subseteq Due /\ \A i \in Due : (\E k \in Sent : i <= k) => i \in Sent
  BY <1>u, QuietStep
<1>n. n \in Nat /\ Cardinality(Agreed(n)) \in Nat /\ layers \in Nat /\ Len(answers) \in Nat
  BY <1>0, AgreedStep DEF TypeOK
<1>1. CASE main
  <2>1. pc = "main" /\ layers' = layers /\ peer' = peer /\ arrived' = arrived
        /\ pc' \in {"exited", "startup"} /\ (pc' = "startup" => tlsConfig # "error")
    BY <1>1 DEF main
  <2>2. TypeOK'
    BY <1>0, <1>u, <2>1 DEF TypeOK
  <2>3. n = 0 /\ pos = 0 /\ at = "header"
    BY <1>0, <2>1 DEF StageInv
  <2>4. StageInv'
    BY <1>0, <1>u, <1>q, <2>1, <2>3 DEF StageInv, lengthValid, Current
  <2>5. Offset(n) = 0
    BY <1>0, <2>3, OffsetStep DEF TypeOK
  <2>6. WholeMessages'
    BY <1>u, <1>q, <2>1, <2>3, <2>5 DEF WholeMessages
  <2> QED  BY <1>q, <2>2, <2>4, <2>6 DEF IInv
<1>2. CASE ReadFails
  <2>1. pc' = "closed" /\ layers' = layers /\ peer' = peer /\ arrived' = arrived
        /\ pc \in {"startup", "run"}
    BY <1>2 DEF ReadFails
  <2>2. TypeOK'
    BY <1>0, <1>u, <2>1 DEF TypeOK
  <2>4. StageInv'
    BY <1>0, <1>u, <1>q, <2>1 DEF StageInv
  <2>6. WholeMessages'
    BY <1>u, <1>q, <2>1 DEF WholeMessages
  <2> QED  BY <1>q, <2>2, <2>4, <2>6 DEF IInv
<1>3. CASE HandshakeContext
  <2>1. pc = "tls" /\ peer' = peer /\ arrived' = arrived
        /\ \/ pc' = "startup" /\ layers' = layers + 1
           \/ pc' = "closed" /\ layers' = layers
    BY <1>3 DEF HandshakeContext
  <2>3. layers < Len(answers) /\ layers + 1 = Cardinality(Agreed(n)) /\ at = "header"
    BY <1>0, <2>1 DEF StageInv
  <2>2. TypeOK'
    <3>1. layers' \in Nat /\ layers' <= Len(answers)
      BY <1>n, <2>1, <2>3
    <3> QED  BY <1>0, <1>u, <2>1, <3>1 DEF TypeOK
  <2>4. StageInv'
    BY <1>0, <1>u, <1>q, <2>1, <2>3 DEF StageInv
  <2>6. WholeMessages'
    BY <1>0, <1>u, <1>q, <2>1, <2>3 DEF WholeMessages
  <2> QED  BY <1>q, <2>2, <2>4, <2>6 DEF IInv
<1>4. CASE ClientSends \/ ClientLeaves
  <2>1. pc' = pc /\ layers' = layers /\ peer' \in {"open", "eof", "gone"}
    BY <1>0, <1>4 DEF ClientSends, ClientLeaves, TypeOK
  <2>3. arrived' \in Nat /\ arrived' >= arrived
    <3>1. CASE ClientLeaves
      BY <1>0, <3>1 DEF ClientLeaves, TypeOK
    <3>2. CASE ClientSends
      <4>1. arrived \in Nat /\ arrived' \in arrived + 1 .. Sendable
        BY <1>0, <3>2 DEF ClientSends, TypeOK
      <4> QED  BY <4>1
    <3> QED  BY <1>4, <3>1, <3>2
  <2>2. TypeOK'
    <3>1. pos \in Nat /\ arrived \in Nat /\ pos <= arrived
      BY <1>0 DEF TypeOK
    <3>2. pos' <= arrived'
      BY <1>u, <2>3, <3>1, SMTT(30)
    <3> QED  BY <1>0, <1>u, <2>1, <2>3, <3>2 DEF TypeOK
  <2>4. StageInv'
    BY <1>0, <1>u, <1>q, <2>1 DEF StageInv, lengthValid, Current
  <2>6. WholeMessages'
    BY <1>0, <1>u, <1>q, <2>1 DEF WholeMessages, HeaderSize
  <2> QED  BY <1>q, <2>2, <2>4, <2>6 DEF IInv
<1> QED  BY <1>1, <1>2, <1>3, <1>4

\* A header is read: the body is next, or the length is refused.
LEMMA HeaderStep ==
  ASSUME IInv, ReadHeader
  PROVE  IInv'
<1>0. TypeOK /\ StageInv /\ WholeMessages /\ EncryptedOnceAgreed
  BY DEF IInv
<1>1. /\ pc \in {"startup", "run"} /\ at = "header" /\ n < Len(script)
      /\ Full(HeaderSize) /\ pos' = pos + HeaderSize
      /\ \/ lengthValid(Current) /\ at' = "body" /\ pc' = pc
         \/ at' = at /\ pc' = "closed"
      /\ UNCHANGED <<flags, script, peer, arrived, n, layers, answers, taken,
                     upstream, sealed>>
  BY DEF ReadHeader
<1>q. /\ EncryptedOnceAgreed'
      /\ Sent' = Sent /\ Due' = Due /\ Passed' = Passed
      /\ Agreed(n)' = Agreed(n) /\ Offset(n)' = Offset(n) /\ tlsConfig' = tlsConfig
      /\ \A i, j \in Passed : i < j => upstream[i].n < upstream[j].n
      /\ pc # "closed" => Sent = Due
  BY <1>1, QuietStep
<1>2. HeaderSize \in {4, 5} /\ pos \in Nat /\ arrived \in Nat /\ pos <= arrived
  BY <1>0 DEF HeaderSize, TypeOK
<1>3. pos' \in Nat /\ pos' <= arrived
  BY <1>1, <1>2 DEF Full
<1>4. TypeOK'
  BY <1>0, <1>1, <1>3, SMTT(30) DEF TypeOK
<1>5. StageInv'
  BY <1>0, <1>1, <1>q DEF StageInv, lengthValid, Current
<1>6. WholeMessages'
  <2>1. CASE pc' = pc
    <3>1. pos = Offset(n) /\ HeaderSize' = HeaderSize /\ at' = "body" /\ pc # "closed"
      <4>1. Offset(n) \in Nat
        <5>1. script \in Scripts /\ n \in 0 .. Len(script)
          BY <1>0, ScriptTypes DEF TypeOK
        <5> QED  BY <5>1, OffsetStep
      <4>2. pos = Offset(n) + 0
        BY <1>0, <1>1 DEF WholeMessages
      <4> QED  BY <1>1, <2>1, <4>1, <4>2 DEF HeaderSize
    <3>2. (pos = Offset(n) + (IF at = "body" THEN HeaderSize ELSE 0))'
      BY <1>1, <1>q, <3>1
    <3> QED  BY <1>1, <1>q, <2>1, <3>1, <3>2 DEF WholeMessages
  <2>2. CASE pc' = "closed"
    BY <1>1, <1>q, <2>2 DEF WholeMessages
  <2> QED  BY <1>1, <2>1, <2>2
<1> QED  BY <1>q, <1>4, <1>5, <1>6 DEF IInv

\* The raw relay passes bytes on, or ends.
LEMMA RelayStep ==
  ASSUME IInv, Relay
  PROVE  IInv'
<1>0. TypeOK /\ StageInv /\ WholeMessages /\ EncryptedOnceAgreed
  BY DEF IInv
<1>1. /\ pc = "relay"
      /\ UNCHANGED <<flags, script, peer, arrived, at, n, layers, answers, taken>>
  BY DEF Relay
<1>2. CASE UNCHANGED <<pos, upstream, sealed>> /\ pc' = "closed"
  <2>q. /\ EncryptedOnceAgreed'
        /\ Sent' = Sent /\ Due' = Due /\ Passed' = Passed
        /\ Agreed(n)' = Agreed(n) /\ Offset(n)' = Offset(n) /\ tlsConfig' = tlsConfig
        /\ \A i, j \in Passed : i < j => upstream[i].n < upstream[j].n
        /\ pc # "closed" => Sent = Due
    BY <1>1, <1>2, QuietStep
  <2>1. TypeOK'
    BY <1>0, <1>1, <1>2, SMTT(30) DEF TypeOK
  <2>2. StageInv'
    BY <1>0, <1>1, <1>2, <2>q DEF StageInv
  <2>3. WholeMessages'
    BY <1>1, <1>2, <2>q DEF WholeMessages
  <2> QED  BY <2>q, <2>1, <2>2, <2>3 DEF IInv
<1>3. CASE /\ pos' \in pos + 1 .. arrived /\ pc' = pc
           /\ upstream' = Append(upstream, [kind |-> "bytes", n |-> pos' - pos])
           /\ sealed' = (sealed \/ layers > 0)
  <2>0. pos \in Nat /\ arrived \in Nat /\ upstream \in Seq(Wires) /\ at = "header"
    BY <1>0, <1>1 DEF TypeOK, StageInv
  <2>1. pos' \in Nat /\ pos' <= arrived /\ pos' - pos \in Nat
    <3>1. pos' \in pos + 1 .. arrived
      BY <1>3
    <3>2. pos' \in Nat /\ pos' >= pos + 1 /\ pos' <= arrived
      BY <2>0, <3>1
    <3>4. pos \in Nat
      BY <2>0
    <3>3. pos' - pos \in Nat
      <4>1. \A a, b \in Nat : a >= b + 1 => a - b \in Nat
        OBVIOUS
      <4>2. pos' \in Nat /\ pos' >= pos + 1
        BY <3>2
      <4> QED  BY <3>4, <4>1, <4>2, Zenon
    <3> QED  BY <3>2, <3>3
  <2> DEFINE w == [kind |-> "bytes", n |-> pos' - pos]
  <2>2. w \in Wires /\ w.kind = "bytes"
    BY <2>1 DEF Wires
  <2>3. upstream' = Append(upstream, w)
    BY <1>3
  <2> HIDE DEF w
  <2>4. /\ upstream' \in Seq(Wires)
        /\ DOMAIN upstream' = DOMAIN upstream \cup {Len(upstream) + 1}
        /\ \A i \in DOMAIN upstream : upstream'[i] = upstream[i]
        /\ upstream'[Len(upstream) + 1] = w
        /\ Passed' = Passed /\ Sent' = Sent
    BY <2>0, <2>2, <2>3, SentAppend
  <2>5. Passed \subseteq DOMAIN upstream /\ Due' = Due
    BY <1>1 DEF Passed, Due
  <2>6. TypeOK'
    <3>1. sealed' \in BOOLEAN
      BY <1>3
    <3> QED  BY <1>0, <1>1, <1>3, <2>1, <2>4, <3>1 DEF TypeOK
  <2>7. Agreed(n)' = Agreed(n) /\ tlsConfig' = tlsConfig
    BY <1>1, SMTT(30) DEF Agreed, tlsConfig
  <2>8. StageInv'
    BY <1>0, <1>1, <1>3, <2>0, <2>2, <2>4, <2>7 DEF StageInv
  <2>9. WholeMessages'
    BY <1>0, <1>1, <1>3, <2>4, <2>5 DEF WholeMessages
  <2>10. EncryptedOnceAgreed'
    BY <1>0, <1>1 DEF EncryptedOnceAgreed, Agreed
  <2> QED  BY <2>6, <2>8, <2>9, <2>10, SMTT(30) DEF IInv
<1> QED  BY <1>2, <1>3 DEF Relay

\* The startup messages written upstream so far carry the emulator's settings.
Rewrites ==
  \A i \in DOMAIN upstream :
    upstream[i].kind = "rewritten" =>
      LET m == script[upstream[i].n]
      IN  /\ upstream[i].n \in 1 .. n /\ m.kind = "startup"
          /\ upstream[i].params = params \cup m.params
          /\ upstream[i].options = m.options \o options

\* They still do when one more message has been read and nothing written.
LEMMA RewritesKept ==
  ASSUME StageInv, n \in Nat, n' = n + 1, script' = script, upstream' = upstream
  PROVE  Rewrites'
<1>1. Rewrites
  BY SMTT(30) DEF StageInv, Rewrites
<1>2. \A k : k \in 1 .. n => k \in 1 .. n'
  OBVIOUS
<1> QED  BY <1>1, <1>2, SMTT(30) DEF Rewrites

\* What StageInv asks of a connection that is closed ...
LEMMA ClosedStage ==
  ASSUME (pc = "closed" /\ Len(answers) <= n /\ tlsConfig # "error" /\ Rewrites)'
  PROVE  StageInv'
BY DEF StageInv, Rewrites

\* ... of one whose encryption request has just been answered ...
LEMMA AnsweredStage ==
  ASSUME (/\ pc \in {"tls", "startup"} /\ at = "header" /\ n \in Nat /\ Len(answers) = n
          /\ \A i \in 1 .. n : script[i].kind \in Encryption
          /\ tlsConfig # "error" /\ Rewrites
          /\ pc = "tls" => layers < Len(answers) /\ layers + 1 = Cardinality(Agreed(n))
          /\ pc = "startup" => layers = Cardinality(Agreed(n)))'
  PROVE  StageInv'
BY DEF StageInv, Rewrites

\* ... and of one that has just passed a message upstream.
LEMMA PassedStage ==
  ASSUME pc' \in {"run", "relay", "closed"}, at' = "header", Len(answers') <= n',
         tlsConfig' # "error", layers' = Cardinality(Agreed(n)'),
         pc' = "run" => \E i \in 1 .. n' : script'[i].kind \notin Encryption,
         Rewrites'
  PROVE  StageInv'
BY DEF StageInv, Rewrites

\* An encryption request is answered, or the client is gone.
LEMMA RequestStep ==
  ASSUME IInv, pc = "startup", ReadBody, script[n + 1].kind \in Encryption, upstream' = upstream,
         \/ pc' = "closed" /\ answers' = answers
         \/ pc' = "tls" /\ answers' = Append(answers, "S") /\ n + 1 \in Agreed(n + 1)
         \/ pc' = "startup" /\ answers' = Append(answers, "N") /\ n + 1 \notin Agreed(n + 1)
  PROVE  IInv'
<1>0. TypeOK /\ StageInv /\ WholeMessages /\ EncryptedOnceAgreed
  BY DEF IInv
<1>1. /\ n \in Nat /\ n + 1 \in DOMAIN script /\ n + 1 <= Len(script) /\ n' = n + 1
      /\ script' = script /\ flags' = flags /\ layers' = layers /\ at' = "header"
      /\ pos' \in Nat /\ pos' <= arrived /\ arrived' = arrived /\ pos' = Offset(n + 1)
      /\ taken' \in Seq(Nat) /\ Len(taken') = n + 1
      /\ \A i \in 1 .. n + 1 : taken'[i] = Cardinality(Agreed(i - 1))
      /\ Due' = Due /\ peer' = peer /\ sealed' = sealed
  BY ReadsWhole
<1>2. /\ answers \in Seq({"S", "N"}) /\ Len(answers) = n /\ layers \in Nat /\ layers <= n
      /\ layers = Cardinality(Agreed(n))
      /\ \A i \in 1 .. n : script[i].kind \in Encryption
  BY <1>0 DEF TypeOK, StageInv
<1>3. \A k : Agreed(k)' = Agreed(k) /\ Offset(k)' = Offset(k)
  BY <1>1, SameScript
<1>4. Agreed(n)' = Agreed(n + 1) /\ Offset(n)' = Offset(n + 1) /\ tlsConfig' = tlsConfig
  BY <1>1 DEF Agreed, Offset, tlsConfig
<1>5. Sent' = Sent /\ Passed' = Passed
  BY DEF Sent, Passed
<1>6. Sent = Due /\ \A i, j \in Passed : i < j => upstream[i].n < upstream[j].n
  BY <1>0 DEF WholeMessages
<1>7. Offset(n + 1) \in Nat
  BY <1>1
<1>c. Cardinality(Agreed(n + 1)) =
        Cardinality(Agreed(n)) + (IF n + 1 \in Agreed(n + 1) THEN 1 ELSE 0)
      /\ Cardinality(Agreed(n)) \in Nat
  BY <1>1, AgreedStep
<1>8. ASSUME NEW b \in {"S", "N"}, answers' = Append(answers, b), b = "S" <=> n + 1 \in Agreed(n + 1)
      PROVE  /\ answers' \in Seq({"S", "N"}) /\ Len(answers') = n + 1
             /\ EncryptedOnceAgreed'
  <2>1. answers' \in Seq({"S", "N"}) /\ Len(answers') = n + 1 /\ answers'[n + 1] = b
        /\ DOMAIN answers = 1 .. n /\ DOMAIN answers' = 1 .. n + 1
        /\ \A i \in 1 .. n : answers'[i] = answers[i]
    BY <1>2, <1>8
  <2>2. ASSUME NEW j \in DOMAIN answers' PROVE answers'[j] = "S" <=> j \in Agreed(j)
    <3>1. CASE j = n + 1
      BY <1>8, <2>1, <3>1
    <3>2. CASE j # n + 1
      <4>1. j \in 1 .. n
        BY <1>1, <2>1, <3>2
      <4> QED  BY <1>0, <2>1, <4>1 DEF EncryptedOnceAgreed
    <3> QED  BY <3>1, <3>2
  <2>3. \A j \in DOMAIN answers' : answers'[j] = "S" <=> j \in Agreed(j)'
    BY <1>3, <2>2
  <2>4. \A i \in 1 .. n' : taken'[i] = Cardinality(Agreed(i - 1)')
    BY <1>1, <1>3
  <2> QED  BY <2>1, <2>3, <2>4 DEF EncryptedOnceAgreed
<1>9. CASE pc' = "closed" /\ answers' = answers
  <2>1. TypeOK'
    BY <1>0, <1>1, <1>9, SMTT(30) DEF TypeOK
  <2>2. StageInv'
    <3>1. Len(answers') <= n'
      BY <1>1, <1>2, <1>9
    <3>2. tlsConfig' # "error"
      BY <1>0, <1>4 DEF StageInv
    <3>3. Rewrites'
      BY <1>0, <1>1, RewritesKept
    <3> QED  BY <1>9, <3>1, <3>2, <3>3, ClosedStage
  <2>3. WholeMessages'
    BY <1>1, <1>5, <1>6, <1>9 DEF WholeMessages
  <2>4. EncryptedOnceAgreed'
    <3>1. \A j \in DOMAIN answers' : answers'[j] = "S" <=> j \in Agreed(j)'
      BY <1>0, <1>3, <1>9 DEF EncryptedOnceAgreed
    <3>2. \A i \in 1 .. n' : taken'[i] = Cardinality(Agreed(i - 1)')
      BY <1>1, <1>3
    <3> QED  BY <3>1, <3>2 DEF EncryptedOnceAgreed
  <2> QED  BY <2>1, <2>2, <2>3, <2>4 DEF IInv
<1>10. ASSUME NEW b \in {"S", "N"}, answers' = Append(answers, b), b = "S" <=> n + 1 \in Agreed(n + 1),
              pc' = IF b = "S" THEN "tls" ELSE "startup"
       PROVE  IInv'
  <2>0. answers' \in Seq({"S", "N"}) /\ Len(answers') = n + 1 /\ EncryptedOnceAgreed'
    BY <1>8, <1>10
  <2>1. TypeOK'
    <3>1. layers' <= Len(answers') /\ n' \in Nat
      BY <1>1, <1>2, <2>0
    <3> QED  BY <1>0, <1>1, <1>10, <2>0, <3>1 DEF TypeOK
  <2>2. StageInv'
    <3>1. \A i \in 1 .. n' : script'[i].kind \in Encryption
      BY <1>1, <1>2
    <3>2. pc' = "tls" => layers' < Len(answers') /\ layers' + 1 = Cardinality(Agreed(n)')
      BY <1>1, <1>2, <1>4, <1>c, <1>10, <2>0
    <3>3. pc' = "startup" => layers' = Cardinality(Agreed(n)')
      BY <1>1, <1>2, <1>4, <1>c, <1>10
    <3>4. pc' \in {"tls", "startup"} /\ Len(answers') = n' /\ Len(answers') <= n'
      BY <1>1, <1>10, <2>0
    <3>5. tlsConfig' # "error" /\ n' \in Nat /\ at' = "header"
      BY <1>0, <1>1, <1>4 DEF StageInv
    <3>6. Rewrites'
      BY <1>0, <1>1, RewritesKept
    <3> QED  BY <3>1, <3>2, <3>3, <3>4, <3>5, <3>6, AnsweredStage
  <2>3. WholeMessages'
    <3>1. (pos = Offset(n) + (IF at = "body" THEN HeaderSize ELSE 0))'
      BY <1>1, <1>4, <1>7
    <3> QED  BY <1>1, <1>5, <1>6, <1>10, <3>1 DEF WholeMessages
  <2> QED  BY <2>0, <2>1, <2>2, <2>3 DEF IInv
<1> QED  BY <1>9, <1>10

\* Any other message goes upstream, or the connection ends.
LEMMA PassStep ==
  ASSUME IInv, pc \in {"startup", "run"}, ReadBody, script[n + 1].kind \notin Encryption,
         answers' = answers, pc' \in {"run", "relay", "closed"},
         NEW w \in Wires, w.n = n + 1, w.kind # "bytes",
         w.kind = "rewritten" =>
           /\ script[n + 1].kind = "startup"
           /\ w.params = params \cup script[n + 1].params
           /\ w.options = script[n + 1].options \o options,
         upstream' = Append(upstream, w) \/ (pc' = "closed" /\ upstream' = upstream)
  PROVE  IInv'
<1>0. TypeOK /\ StageInv /\ WholeMessages /\ EncryptedOnceAgreed
  BY DEF IInv
<1>1. /\ n \in Nat /\ n + 1 \in DOMAIN script /\ n + 1 <= Len(script) /\ n' = n + 1
      /\ script' = script /\ flags' = flags /\ layers' = layers /\ at' = "header"
      /\ pos' \in Nat /\ pos' <= arrived /\ arrived' = arrived /\ pos' = Offset(n + 1)
      /\ taken' \in Seq(Nat) /\ Len(taken') = n + 1
      /\ \A i \in 1 .. n + 1 : taken'[i] = Cardinality(Agreed(i - 1))
      /\ Due' = Due \cup {n + 1} /\ peer' = peer /\ sealed' = sealed
  BY ReadsWhole, SMTT(30)
<1>2. /\ answers \in Seq({"S", "N"}) /\ Len(answers) \in Nat /\ Len(answers) <= n /\ layers \in Nat
      /\ layers = Cardinality(Agreed(n)) /\ upstream \in Seq(Wires) /\ tlsConfig # "error"
  BY <1>0 DEF TypeOK, StageInv
<1>3. \A k : Agreed(k)' = Agreed(k) /\ Offset(k)' = Offset(k)
  BY <1>1, SameScript
<1>4. Agreed(n)' = Agreed(n + 1) /\ Offset(n)' = Offset(n + 1) /\ tlsConfig' = tlsConfig
  BY <1>1 DEF Agreed, Offset, tlsConfig
<1>6. Sent = Due /\ \A i, j \in Passed : i < j => upstream[i].n < upstream[j].n
  BY <1>0 DEF WholeMessages
<1>c. Cardinality(Agreed(n + 1)) = Cardinality(Agreed(n))
  <2>1. n + 1 \notin Agreed(n + 1)
    BY DEF Agreed, Encryption
  <2>2. /\ Cardinality(Agreed(n + 1)) =
             Cardinality(Agreed(n)) + (IF n + 1 \in Agreed(n + 1) THEN 1 ELSE 0)
        /\ Cardinality(Agreed(n)) \in Nat
    BY <1>1, AgreedStep
  <2> QED  BY <2>1, <2>2
<1>7. EncryptedOnceAgreed'
  <2>1. \A j \in DOMAIN answers' : answers'[j] = "S" <=> j \in Agreed(j)'
    BY <1>0, <1>3 DEF EncryptedOnceAgreed
  <2>2. \A i \in 1 .. n' : taken'[i] = Cardinality(Agreed(i - 1)')
    BY <1>1, <1>3
  <2> QED  BY <2>1, <2>2 DEF EncryptedOnceAgreed
<1>8. Due \subseteq 1 .. n
  BY DEF Due
<1>9. CASE pc' = "closed" /\ upstream' = upstream
  <2>1. TypeOK'
    BY <1>0, <1>1, <1>9, SMTT(30) DEF TypeOK
  <2>2. StageInv'
    <3>1. Len(answers') <= n'
      BY <1>1, <1>2
    <3>2. tlsConfig' # "error"
      BY <1>2, <1>4
    <3>3. Rewrites'
      BY <1>0, <1>1, <1>9, RewritesKept
    <3> QED  BY <1>9, <3>1, <3>2, <3>3, ClosedStage
  <2>3. Sent' = Sent /\ Passed' = Passed
    BY <1>9 DEF Sent, Passed
  <2>4. \A i \in Due' : (\E k \in Sent' : i <= k) => i \in Sent'
    BY <1>1, <1>6, <1>8, <2>3
  <2>5. WholeMessages'
    BY <1>1, <1>6, <1>9, <2>3, <2>4, SMTT(30) DEF WholeMessages
  <2> QED  BY <1>7, <2>1, <2>2, <2>5 DEF IInv
<1>10. CASE upstream' = Append(upstream, w)
  <2>1. /\ upstream' \in Seq(Wires)
        /\ DOMAIN upstream' = DOMAIN upstream \cup {Len(upstream) + 1}
        /\ \A i \in DOMAIN upstream : upstream'[i] = upstream[i] /\ i < Len(upstream) + 1
        /\ upstream'[Len(upstream) + 1] = w
        /\ Passed' = Passed \cup {Len(upstream) + 1}
        /\ Sent' = Sent \cup {n + 1}
    BY <1>2, <1>10, SentAppend
  <2>2. TypeOK'
    BY <1>0, <1>1, <2>1, SMTT(30) DEF TypeOK
  <2>3. StageInv'
    <3>1. Len(answers') <= n' /\ layers' = Cardinality(Agreed(n)')
      BY <1>1, <1>2, <1>4, <1>c, SMTT(30)
    <3>2. n' \in 1 .. n' /\ script'[n'].kind \notin Encryption
      BY <1>1, SMTT(30)
    <3>3. ASSUME NEW i \in DOMAIN upstream', upstream'[i].kind = "rewritten"
          PROVE  /\ upstream'[i].n \in 1 .. n' /\ script'[upstream'[i].n].kind = "startup"
                 /\ upstream'[i].params = params \cup script'[upstream'[i].n].params
                 /\ upstream'[i].options = script'[upstream'[i].n].options \o options
      <4>1. CASE i = Len(upstream) + 1
        <5>1. upstream'[i] = w
          BY <2>1, <4>1
        <5>2. n' = n + 1 /\ script' = script
          BY <1>1
        <5>3. w.n \in 1 .. n'
          BY <3>2, <5>2
        <5> QED  BY <3>3, <5>1, <5>2, <5>3
      <4>2. CASE i # Len(upstream) + 1
        <5>1. i \in DOMAIN upstream /\ upstream'[i] = upstream[i]
          BY <2>1, <4>2
        <5>2. upstream[i].n \in 1 .. n
          BY <1>0, <3>3, <5>1 DEF StageInv
        <5>3. upstream[i].n \in 1 .. n'
          BY <1>1, <5>2
        <5> QED  BY <1>0, <1>1, <3>3, <5>1, <5>3 DEF StageInv
      <4> QED  BY <4>1, <4>2, SMTT(30)
    <3>4. pc' = "run" => \E i \in 1 .. n' : script'[i].kind \notin Encryption
      BY <3>2
    <3>5. Rewrites'
      BY <3>3 DEF Rewrites
    <3>6. tlsConfig' # "error" /\ at' = "header"
      BY <1>1, <1>2, <1>4
    <3> QED  BY <3>1, <3>4, <3>5, <3>6, PassedStage
  <2>4. ASSUME NEW i \in Passed', NEW j \in Passed', i < j PROVE upstream'[i].n < upstream'[j].n
    <3>0. Passed \subseteq DOMAIN upstream /\ DOMAIN upstream = 1 .. Len(upstream) /\ Len(upstream) \in Nat
      BY <1>2 DEF Passed
    <3>1. i \in Passed
      BY <2>1, <2>4, <3>0
    <3>2. CASE j \in Passed
      BY <1>6, <2>1, <2>4, <3>0, <3>1, <3>2, SMTT(30)
    <3>3. CASE j = Len(upstream) + 1
      <4>1. upstream[i].n \in 1 .. n
        BY <1>6, <1>8, <3>1 DEF Sent
      <4>2. upstream'[i].n = upstream[i].n /\ upstream'[j].n = n + 1
        BY <2>1, <3>0, <3>1, <3>3
      <4> QED  BY <1>1, <4>1, <4>2
    <3> QED  BY <2>1, <3>2, <3>3
  <2>5. Sent' = Due'
    BY <1>1, <1>6, <2>1
  <2>6. WholeMessages'
    <3>1. (pos = Offset(n) + (IF at = "body" THEN HeaderSize ELSE 0))'
      BY <1>1, <1>4
    <3> QED  BY <2>4, <2>5, <3>1 DEF WholeMessages
  <2> QED  BY <1>7, <2>2, <2>3, <2>6 DEF IInv
<1> QED  BY <1>9, <1>10

\* A sequence over a set is one over a larger set.
LEMMA SeqWidens ==
  ASSUME NEW S, NEW T, S \subseteq T, NEW q \in Seq(S)
  PROVE  q \in Seq(T)
<1>1. \A i \in 1 .. Len(q) : q[i] \in T
  OBVIOUS
<1>2. q = [i \in 1 .. Len(q) |-> q[i]] /\ Len(q) \in Nat
  OBVIOUS
<1> QED  BY <1>1, <1>2

\* The emulator's options, one for each limit.
LEMMA OptionsType ==
  /\ options \in Seq([setting : STRING, by : {"emulator"}])
  /\ Len(options) = Len(Limits) /\ Len(Limits) \in Nat
  /\ DOMAIN options = 1 .. Len(Limits) /\ DOMAIN Limits = 1 .. Len(Limits)
  /\ \A k \in DOMAIN Limits : options[k] = Option(Limits[k], "emulator")
<1> DEFINE S == [setting : STRING, by : {"emulator"}]
<1>1. Limits \in Seq(STRING) /\ Len(Limits) \in Nat /\ DOMAIN Limits = 1 .. Len(Limits)
  BY HandshakeAssumption
<1>2. \A k \in DOMAIN Limits : Option(Limits[k], "emulator") \in S
  BY <1>1 DEF Option
<1> HIDE DEF S
<1>3. options = [k \in 1 .. Len(Limits) |-> Option(Limits[k], "emulator")]
  BY <1>1 DEF options
<1>4. options \in [1 .. Len(Limits) -> S]
  BY <1>1, <1>2, <1>3
<1>5. options \in Seq(S) /\ Len(options) = Len(Limits)
  BY <1>1, <1>4
<1>6. \A k \in DOMAIN Limits : options[k] = Option(Limits[k], "emulator")
  BY <1>1, <1>3
<1> QED  BY <1>1, <1>3, <1>5, <1>6 DEF S

\* The opening messages keep the invariant, each with its answer.
LEMMA HandshakeStep ==
  ASSUME IInv, handshake
  PROVE  IInv'
<1>0. /\ pc = "startup" /\ ReadBody /\ Current = script[n + 1] /\ TypeOK /\ StageInv
  BY DEF handshake, Current, IInv
<1>1. n \in Nat /\ n + 1 \in DOMAIN script /\ script \in Scripts /\ n + 1 \in 1 .. n + 1
  BY <1>0, ReadsWhole DEF TypeOK
<1>2. script[n + 1].kind \in Opening
  BY <1>0, ReadsWhole
<1>3. CASE script[n + 1].kind = "ssl"
  <2>1. negotiateTLS
    BY <1>0, <1>3 DEF handshake
  <2>2. n + 1 \in Agreed(n + 1) <=> tlsConfig # "none"
    <3>1. flags.noTLS \in BOOLEAN
      BY <1>0, HandshakeAssumption DEF TypeOK
    <3> QED  BY <1>1, <1>3, <3>1 DEF Agreed, tlsConfig, buildTLS
  <2>3. CASE tlsConfig = "none"
    <3>1. /\ upstream' = upstream
          /\ \/ pc' = "startup" /\ answers' = Append(answers, "N")
             \/ pc' = "closed" /\ answers' = answers
      BY <2>1, <2>3 DEF negotiateTLS, Answer
    <3> QED  BY <1>0, <1>3, <2>2, <2>3, <3>1, RequestStep DEF Encryption
  <2>4. CASE tlsConfig # "none"
    <3>1. /\ upstream' = upstream
          /\ \/ pc' = "tls" /\ answers' = Append(answers, "S")
             \/ pc' = "closed" /\ answers' = answers
      BY <2>1, <2>4 DEF negotiateTLS, Answer
    <3> QED  BY <1>0, <1>3, <2>2, <2>4, <3>1, RequestStep DEF Encryption
  <2> QED  BY <2>3, <2>4
<1>4. CASE script[n + 1].kind = "gss"
  <2>1. /\ upstream' = upstream
        /\ \/ pc' = "startup" /\ answers' = Append(answers, "N")
           \/ pc' = "closed" /\ answers' = answers
    BY <1>0, <1>4 DEF handshake, declineGSS, Answer
  <2>2. n + 1 \notin Agreed(n + 1)
    BY <1>4 DEF Agreed
  <2> QED  BY <1>0, <1>4, <2>1, <2>2, RequestStep DEF Encryption
<1>5. CASE script[n + 1].kind = "startup"
  <2> DEFINE m == script[n + 1]
             w == RewriteStartup(m)
  <2>1. /\ answers' = answers
        /\ \/ pc' = "run" /\ upstream' = Append(upstream, w)
           \/ pc' = "closed" /\ upstream' = upstream
    BY <1>0, <1>5 DEF handshake, Pass
  <2>2. m \in [kind : {"startup"}, length : Nat, decodes : BOOLEAN, params : SUBSET STRING,
               options : Seq([setting : STRING, by : {"client"}])]
    <3>1. m \in Messages
      BY <1>1, ScriptTypes, SMTT(30)
    <3> QED  BY <1>5, <3>1 DEF Messages
  <2>3. /\ w \in Wires /\ w.n = n + 1 /\ w.kind # "bytes"
        /\ w.kind = "rewritten" => w.params = params \cup m.params /\ w.options = m.options \o options
    <3>1. CASE ~m.decodes
      <4>1. w = [kind |-> "raw", n |-> n + 1]
        BY <3>1 DEF RewriteStartup
      <4> HIDE DEF w
      <4> QED  BY <1>1, <4>1 DEF Wires
    <3>2. CASE m.decodes
      <4>1. w = [kind |-> "rewritten", n |-> n + 1, params |-> params \cup m.params,
                 options |-> m.options \o options]
        BY <3>2 DEF RewriteStartup
      <4>2. m.options \o options \in Seq([setting : STRING, by : {"client", "emulator"}])
        <5> DEFINE Given == [setting : STRING, by : {"client", "emulator"}]
               Theirs == [setting : STRING, by : {"client"}]
        <5>1. m.options \in Seq(Theirs)
          BY <2>2
        <5>2. Theirs \subseteq Given
          OBVIOUS
        <5>3. m.options \in Seq(Given)
          <6> HIDE DEF Given, Theirs, m
          <6> QED  BY <5>1, <5>2, SeqWidens
        <5>4. options \in Seq(Given)
          <6>1. [setting : STRING, by : {"emulator"}] \subseteq Given
            OBVIOUS
          <6> HIDE DEF Given
          <6> QED  BY <6>1, OptionsType, SeqWidens
        <5> HIDE DEF Given
        <5> QED  BY <5>3, <5>4 DEF Given
      <4>3. params \cup m.params \in SUBSET (params \cup STRING)
        BY <2>2
      <4> HIDE DEF w
      <4>4. w \in [kind : {"rewritten"}, n : Nat, params : SUBSET (params \cup STRING),
                   options : Seq([setting : STRING, by : {"client", "emulator"}])]
        BY <1>1, <4>1, <4>2, <4>3
      <4> QED  BY <4>1, <4>4 DEF Wires
    <3> HIDE DEF w, m
    <3> QED  BY <3>1, <3>2
  <2> HIDE DEF w
  <2> QED  BY <1>0, <1>5, <2>1, <2>3, PassStep DEF Encryption
<1>6. CASE script[n + 1].kind = "other"
  <2> DEFINE w == [kind |-> "raw", n |-> n + 1]
  <2>1. /\ answers' = answers
        /\ \/ pc' = "relay" /\ upstream' = Append(upstream, w)
           \/ pc' = "closed" /\ upstream' = upstream
    BY <1>0, <1>6 DEF handshake, Pass
  <2>2. w \in Wires /\ w.n = n + 1 /\ w.kind = "raw"
    BY <1>1 DEF Wires
  <2> HIDE DEF w
  <2> QED  BY <1>0, <1>6, <2>1, <2>2, PassStep DEF Encryption
<1> QED  BY <1>2, <1>3, <1>4, <1>5, <1>6 DEF Opening

\* The frontend pump's read keeps the invariant.
LEMMA PumpStep ==
  ASSUME IInv, pumpFrontend
  PROVE  IInv'
<1>0. /\ pc = "run" /\ ReadBody /\ answers' = answers /\ pc' \in {"closed", "run"}
      /\ upstream' = Append(upstream, [kind |-> "raw", n |-> n + 1])
  BY DEF pumpFrontend
<1>1. n \in Nat /\ script[n + 1].kind \notin Opening
  BY <1>0, ReadsWhole
<1> DEFINE w == [kind |-> "raw", n |-> n + 1]
<1>2. w \in Wires /\ w.n = n + 1 /\ w.kind = "raw"
  BY <1>1 DEF Wires
<1>3. script[n + 1].kind \notin Encryption
  BY <1>1 DEF Opening, Encryption
<1>4. upstream' = Append(upstream, w)
  BY <1>0
<1> HIDE DEF w
<1> QED  BY <1>0, <1>2, <1>3, <1>4, PassStep

\* The invariant is inductive.
LEMMA InvStep ==
  IInv /\ [Next]_vars => IInv'
<1> SUFFICES ASSUME IInv, [Next]_vars PROVE IInv'
  OBVIOUS
<1>1. CASE UNCHANGED vars
  <2>1. UNCHANGED <<flags, pc, script, peer, arrived, pos, at, n, layers, answers, taken,
                    upstream, sealed>>
    BY <1>1 DEF vars
  <2>2. TypeOK'
    BY <2>1, SMTT(30) DEF IInv, TypeOK
  <2>3. StageInv'
    <3>1. (lengthValid(Current)' <=> lengthValid(Current)) /\ tlsConfig' = tlsConfig
      BY <2>1 DEF lengthValid, Current, tlsConfig
    <3>2. Agreed(n)' = Agreed(n)
      BY <2>1 DEF Agreed
    <3> QED  BY <2>1, <3>1, <3>2 DEF IInv, StageInv
  <2>4. WholeMessages'
    <3>1. Offset(n)' = Offset(n) /\ HeaderSize' = HeaderSize
      BY <2>1 DEF Offset, HeaderSize
    <3>2. Passed' = Passed /\ Sent' = Sent /\ Due' = Due
      BY <2>1 DEF Passed, Sent, Due
    <3> QED  BY <2>1, <3>1, <3>2 DEF IInv, WholeMessages
  <2>5. EncryptedOnceAgreed'
    BY <2>1, Zenon DEF IInv, EncryptedOnceAgreed, Agreed
  <2> QED  BY <2>2, <2>3, <2>4, <2>5 DEF IInv
<1> QED
  BY <1>1, OutsideSteps, HeaderStep, HandshakeStep, PumpStep, RelayStep DEF Next, Session

-----------------------------------------------------------------------------
(* The theorems.                                                           *)

\* The variables of a connection keep their types: no byte is read that has
\* not arrived, and there is no TLS connection without an answer.
THEOREM TypeCorrect ==
  Spec => []TypeOK
<1>1. IInv => TypeOK
  BY DEF IInv
<1> QED  BY <1>1, InvInit, InvStep, PTL DEF Spec

\* ReadStartup and ReadTagged stay in step with the client's messages in
\* whatever pieces the bytes come, and every whole message but the encryption
\* requests goes upstream, once and in order.
THEOREM MessagesWhole ==
  Spec => []WholeMessages
<1>1. IInv => WholeMessages
  BY DEF IInv
<1> QED  BY <1>1, InvInit, InvStep, PTL DEF Spec

\* negotiateTLS: a request is refused only by an emulator started without
\* TLS, and after an agreement nothing is read past the new connection.
THEOREM EncryptionKept ==
  Spec => []EncryptedOnceAgreed
<1>1. IInv => EncryptedOnceAgreed
  BY DEF IInv
<1> QED  BY <1>1, InvInit, InvStep, PTL DEF Spec

\* No client gives a limit's setting as a parameter of its startup message,
\* which the server would put before the options.
LimitsAsOptions ==
  \A s \in Scripts : \A i \in DOMAIN s :
    s[i].kind = "startup" => s[i].params \cap Range(Limits) = {}

\* The emulator's options come last, so they decide.
LEMMA OptionsDecide ==
  ASSUME TypeOK, StageInv, LimitsAsOptions
  PROVE  SettingsImposed
<1> SUFFICES ASSUME NEW i \in 1 .. Len(upstream), upstream[i].kind = "rewritten"
             PROVE  /\ \A s \in params \cup Range(Limits) : Decides(upstream[i], s) = "emulator"
                    /\ script[upstream[i].n].params \subseteq upstream[i].params
  BY DEF SettingsImposed
<1> DEFINE msg == upstream[i]
           m == script[msg.n]
<1>1. i \in DOMAIN upstream /\ script \in Scripts /\ n \in Nat /\ n <= Len(script)
  BY DEF TypeOK
<1>2. /\ msg.n \in 1 .. n /\ m.kind = "startup"
      /\ msg.params = params \cup m.params /\ msg.options = m.options \o options
  BY <1>1 DEF StageInv
<1>3. msg.n \in DOMAIN script
  BY <1>1, <1>2, ScriptTypes
<1>4. m \in [kind : {"startup"}, length : Nat, decodes : BOOLEAN, params : SUBSET STRING,
             options : Seq([setting : STRING, by : {"client"}])]
  <2>1. m \in Messages
    BY <1>1, <1>3, ScriptTypes
  <2> HIDE DEF m
  <2> QED  BY <1>2, <2>1 DEF Messages
<1>5. m.params \cap Range(Limits) = {}
  BY <1>1, <1>2, <1>3 DEF LimitsAsOptions
<1>6. ASSUME NEW s \in params PROVE Decides(msg, s) = "emulator"
  BY <1>2, Zenon DEF Decides
<1>7. ASSUME NEW s \in Range(Limits), s \notin params PROVE Decides(msg, s) = "emulator"
  <2> DEFINE client == m.options
             given == {k \in DOMAIN msg.options : msg.options[k].setting = s}
  <2>0. Limits \in Seq(STRING) /\ \A a, b \in DOMAIN Limits : a # b => Limits[a] # Limits[b]
    BY HandshakeAssumption
  <2>1. PICK l \in DOMAIN Limits : Limits[l] = s
    BY <1>7 DEF Range
  <2>2. client \in Seq([setting : STRING, by : {"client"}]) /\ Len(client) \in Nat
    BY <1>4
  <2>3. /\ Len(options) = Len(Limits) /\ Len(Limits) \in Nat /\ DOMAIN options = DOMAIN Limits
        /\ DOMAIN Limits = 1 .. Len(Limits)
        /\ \A k \in DOMAIN Limits : options[k] = Option(Limits[k], "emulator")
        /\ options \in Seq([setting : STRING, by : {"emulator"}])
    BY OptionsType
  <2> DEFINE Given == [setting : STRING, by : {"client", "emulator"}]
  <2>4. client \in Seq(Given) /\ options \in Seq(Given)
    <3>1. [setting : STRING, by : {"client"}] \subseteq Given
          /\ [setting : STRING, by : {"emulator"}] \subseteq Given
      OBVIOUS
    <3> HIDE DEF Given, client
    <3> QED  BY <2>2, <2>3, <3>1, SeqWidens
  <2> DEFINE last == Len(client) + l
  <2> HIDE DEF Given, client, m, msg
  <2>5. /\ DOMAIN msg.options = 1 .. Len(client) + Len(options)
        /\ \A k \in 1 .. Len(client) + Len(options) :
             msg.options[k] = IF k <= Len(client) THEN client[k] ELSE options[k - Len(client)]
    <3>1. msg.options = client \o options
      BY <1>2 DEF client
    <3> QED  BY <2>4, <3>1
  <2>6. last \in given /\ msg.options[last] = Option(s, "emulator")
    <3>1. last \in 1 .. Len(client) + Len(options) /\ ~(last <= Len(client)) /\ last - Len(client) = l
      BY <2>1, <2>2, <2>3
    <3>2. msg.options[last] = Option(s, "emulator")
      BY <2>1, <2>3, <2>5, <3>1
    <3> QED  BY <2>5, <3>1, <3>2 DEF Option
  <2>7. ASSUME NEW k \in given PROVE k <= last
    <3>1. k \in 1 .. Len(client) + Len(options) /\ msg.options[k].setting = s
      BY <2>5, <2>7, SMTT(30)
    <3>2. CASE k <= Len(client)
      BY <2>1, <2>2, <2>3, <3>1, <3>2
    <3>3. CASE ~(k <= Len(client))
      <4>1. k - Len(client) \in DOMAIN Limits
        BY <2>2, <2>3, <3>1, <3>3
      <4>2. Limits[k - Len(client)] = s
        BY <2>3, <2>5, <3>1, <3>3, <4>1, SMTT(30) DEF Option
      <4>3. k - Len(client) = l
        BY <2>0, <2>1, <4>1, <4>2
      <4> QED  BY <2>1, <2>2, <2>3, <3>1, <4>3
    <3> QED  BY <3>2, <3>3
  <2>8. given \subseteq Nat
    BY <2>2, <2>3, <2>5
  <2> DEFINE top == CHOOSE k \in given : \A j \in given : j <= k
  <2>9. top = last
    <3>1. \A k \in given : (\A j \in given : j <= k) => k = last
      <4>1. last \in Nat
        BY <2>6, <2>8
      <4> HIDE DEF given, last
      <4> QED  BY <2>6, <2>7, <2>8, <4>1
    <3> HIDE DEF given, last
    <3> QED  BY <2>6, <2>7, <3>1
  <2>10. s \notin msg.params /\ given # {}
    BY <1>2, <1>5, <1>7, <2>6
  <2>11. Decides(msg, s) = msg.options[top].by
    BY <2>10 DEF Decides
  <2>12. Option(s, "emulator").by = "emulator"
    BY DEF Option
  <2> HIDE DEF top, given, last
  <2> QED  BY <2>6, <2>9, <2>11, <2>12
<1> QED
  <2>1. m.params \subseteq msg.params
    BY <1>2
  <2> QED  BY <1>6, <1>7, <2>1, SMTT(30)

\* handshake rewrites the startup message so that the emulator's isolation
\* level and limits hold in the server's session, over any options and any
\* isolation level the client asked for, and keeps its other parameters.
THEOREM SettingsPrevail ==
  ASSUME LimitsAsOptions
  PROVE  Spec => []SettingsImposed
<1>1. IInv => SettingsImposed
  BY OptionsDecide DEF IInv
<1> QED  BY <1>1, InvInit, InvStep, PTL DEF Spec
=============================================================================
