--------------------------- MODULE RecorderProofs ---------------------------
(***************************************************************************)
(* What holds of the recorder and of the fixtures it keeps for every set   *)
(* of suites, answers, relations and groups, and any number of runs: a     *)
(* saved record is evidence, a completed save loads and holds the record,  *)
(* a save never empties the directory, and a cleanup that skipped nothing  *)
(* leaves nothing.                                                         *)
(***************************************************************************)
EXTENDS Recorder, WellFoundedInduction, TLAPS

-----------------------------------------------------------------------------
(* Sequences.                                                              *)

\* A nonempty set of naturals has a least element.
LEMMA LeastNatural ==
  ASSUME NEW T \in SUBSET Nat, T # {}
  PROVE  \E x \in T : \A y \in T : x <= y
<1>1. PICK x \in T : \A y \in T : <<y, x>> \notin OpToRel(<, Nat)
  BY NatLessThanWellFounded, WFMin
<1>2. \A y \in T : ~(y < x)
  BY <1>1, ZenonT(30) DEF OpToRel
<1> QED  BY <1>2

\* The elements of a sequence with one more, and without its first.
LEMMA AppendElements ==
  ASSUME NEW S, NEW s \in Seq(S), NEW x \in S
  PROVE  Range(Append(s, x)) = Range(s) \cup {x}
<1>1. /\ DOMAIN Append(s, x) = DOMAIN s \cup {Len(s) + 1}
      /\ \A i \in DOMAIN s : Append(s, x)[i] = s[i]
      /\ Append(s, x)[Len(s) + 1] = x
  OBVIOUS
<1> QED  BY <1>1 DEF Range

\* A sequence's elements are its head's and its tail's.
LEMMA TailElements ==
  ASSUME NEW S, NEW s \in Seq(S), s # <<>>
  PROVE  Range(s) = Range(Tail(s)) \cup {Head(s)}
<1>1. /\ Head(s) = s[1] /\ 1 \in DOMAIN s
      /\ \A i \in DOMAIN Tail(s) : i + 1 \in DOMAIN s /\ Tail(s)[i] = s[i + 1]
      /\ \A i \in DOMAIN s : i # 1 => i - 1 \in DOMAIN Tail(s) /\ Tail(s)[i - 1] = s[i]
  OBVIOUS
<1>2. \A i \in DOMAIN s : s[i] \in Range(Tail(s)) \cup {Head(s)}
  BY <1>1, ZenonT(30) DEF Range
<1>3. \A i \in DOMAIN Tail(s) : Tail(s)[i] \in Range(s)
  BY <1>1 DEF Range
<1>4. Head(s) \in Range(s)
  BY <1>1 DEF Range
<1> QED  BY <1>2, <1>3, <1>4 DEF Range

\* The prefixes of the subsequence at the positions "at": the recursion of
\* Kept.
Keeps(f, S, n, seq, at) ==
  /\ f \in [0 .. n -> Seq(S)]
  /\ f[0] = <<>>
  /\ \A i \in 1 .. n : f[i] = IF i \in at THEN Append(f[i - 1], seq[i]) ELSE f[i - 1]

\* The recursion of Kept has a solution.
LEMMA KeepsExists ==
  ASSUME NEW S, NEW seq \in Seq(S), NEW at
  PROVE  \E f : Keeps(f, S, Len(seq), seq, at)
<1> DEFINE Short == {m \in 0 .. Len(seq) : ~ \E f : Keeps(f, S, m, seq, at)}
<1>1. ASSUME Short # {} PROVE FALSE
  <2>0. Short \in SUBSET Nat
    OBVIOUS
  <2>1. PICK m \in Short : \A k \in Short : m <= k
    <3> HIDE DEF Short
    <3> QED  BY <1>1, <2>0, LeastNatural
  <2>2. m # 0
    <3>1. Keeps([i \in 0 .. 0 |-> <<>>], S, 0, seq, at)
      BY DEF Keeps
    <3> QED  BY <3>1
  <2>3. PICK g : Keeps(g, S, m - 1, seq, at)
    BY <2>1, <2>2
  <2> DEFINE last == IF m \in at THEN Append(g[m - 1], seq[m]) ELSE g[m - 1]
             f == [i \in 0 .. m |-> IF i = m THEN last ELSE g[i]]
  <2>4. last \in Seq(S)
    BY <2>1, <2>2, <2>3 DEF Keeps
  <2>5. f \in [0 .. m -> Seq(S)] /\ f[0] = <<>>
    <3> HIDE DEF last
    <3> QED  BY <2>1, <2>2, <2>3, <2>4 DEF Keeps
  <2>6. ASSUME NEW i \in 1 .. m
        PROVE  f[i] = IF i \in at THEN Append(f[i - 1], seq[i]) ELSE f[i - 1]
    <3>1. CASE i = m
      BY <3>1, <2>2
    <3>2. CASE i # m
      BY <3>2, <2>3 DEF Keeps
    <3> QED  BY <3>1, <3>2
  <2>7. Keeps(f, S, m, seq, at)
    BY <2>5, <2>6, ZenonT(30) DEF Keeps
  <2> QED  BY <2>1, <2>7
<1>2. Len(seq) \in 0 .. Len(seq)
  OBVIOUS
<1>3. Short = {}
  BY <1>1
<1> QED  BY <1>2, <1>3

\* Kept gives a sequence of exactly the elements at the positions it is given.
LEMMA KeptElements ==
  ASSUME NEW S, NEW seq \in Seq(S), NEW at \in SUBSET DOMAIN seq
  PROVE  Kept(seq, at) \in Seq(S) /\ Range(Kept(seq, at)) = {seq[i] : i \in at}
<1> DEFINE n == Len(seq)
           Body(f) == [i \in 0 .. n |->
                        IF i = 0 THEN <<>>
                        ELSE IF i \in at THEN Append(f[i - 1], seq[i]) ELSE f[i - 1]]
           g == CHOOSE h : h = Body(h)
<1>0. n \in Nat /\ DOMAIN seq = 1 .. n
  OBVIOUS
<1>1. PICK f : Keeps(f, S, n, seq, at)
  BY KeepsExists
<1>4. Kept(seq, at) = g[n]
  BY DEF Kept
<1> HIDE DEF n
<1>2. f = Body(f)
  <2>1. f = [i \in 0 .. n |-> f[i]]
    BY <1>1 DEF Keeps
  <2>2. ASSUME NEW i \in 0 .. n PROVE f[i] = Body(f)[i]
    <3>1. CASE i = 0
      BY <3>1, <1>1 DEF Keeps
    <3>2. CASE i # 0
      <4>1. i \in 1 .. n
        BY <1>0, <3>2
      <4> QED  BY <4>1, <3>2, <1>1, ZenonT(30) DEF Keeps
    <3> QED  BY <3>1, <3>2
  <2> QED  BY <2>1, <2>2, ZenonT(30)
<1>3. g = Body(g)
  BY <1>2, ZenonT(30)
<1> HIDE DEF g
<1>5. /\ g[0] = <<>>
      /\ \A i \in 1 .. n : g[i] = IF i \in at THEN Append(g[i - 1], seq[i]) ELSE g[i - 1]
  <2>1. \A i \in 0 .. n : g[i] = Body(g)[i]
    BY <1>3, ZenonT(30)
  <2> HIDE <1>3
  <2>2. 0 \in 0 .. n /\ \A i \in 1 .. n : i \in 0 .. n /\ i # 0
    BY <1>0
  <2> QED  BY <2>1, <2>2
<1> DEFINE Good(i) == g[i] \in Seq(S) /\ Range(g[i]) = {seq[j] : j \in {k \in at : k <= i}}
           Bad == {i \in 0 .. n : ~Good(i)}
<1>6. Good(0)
  <2>1. {k \in at : k <= 0} = {}
    BY <1>0
  <2> QED  BY <1>5, <2>1 DEF Range
<1>7. ASSUME NEW i \in 1 .. n, Good(i - 1) PROVE Good(i)
  <2>1. CASE i \in at
    <3>0. seq[i] \in S
      BY <1>0
    <3>1. g[i] = Append(g[i - 1], seq[i]) /\ seq[i] \in S /\ g[i - 1] \in Seq(S)
      BY <3>0, <1>5, <1>7, <2>1, ZenonT(30)
    <3>2. Range(g[i]) = Range(g[i - 1]) \cup {seq[i]}
      BY <3>1, AppendElements
    <3>3. {k \in at : k <= i} = {k \in at : k <= i - 1} \cup {i}
      BY <2>1, <1>0
    <3>4. {seq[j] : j \in {k \in at : k <= i}} = {seq[j] : j \in {k \in at : k <= i - 1}} \cup {seq[i]}
      BY <3>3
    <3>5. g[i] \in Seq(S)
      BY <3>1
    <3> QED  BY <3>5, <3>2, <3>4, <1>7, ZenonT(30)
  <2>2. CASE i \notin at
    <3>1. {k \in at : k <= i} = {k \in at : k <= i - 1}
      BY <2>2, <1>0
    <3> QED  BY <1>5, <1>7, <2>2, <3>1
  <2> QED  BY <2>1, <2>2
<1>8. ASSUME Bad # {} PROVE FALSE
  <2> HIDE DEF Good
  <2>0. Bad \in SUBSET Nat
    OBVIOUS
  <2>1. PICK m \in Bad : \A k \in Bad : m <= k
    <3> HIDE DEF Bad
    <3> QED  BY <1>8, <2>0, LeastNatural
  <2>2. m # 0 /\ m - 1 \in 0 .. n /\ m - 1 \notin Bad
    BY <2>1, <1>6, <1>0
  <2>3. Good(m - 1) /\ m \in 1 .. n
    BY <2>1, <2>2, <1>0
  <2> QED  BY <2>1, <2>3, <1>7
<1>9. Good(n)
  <2> HIDE DEF Good
  <2> QED  BY <1>0, <1>8
<1>10. {k \in at : k <= n} = at
  BY <1>0
<1> QED  BY <1>4, <1>9, <1>10

\* SaveDir meets each group of the record's cases, and a part holds the cases
\* of its group.
LEMMA GroupsOfRecord ==
  ASSUME NEW golden \in Goldens
  PROVE  /\ groupOrder(golden) \in Seq(Groups \cup {NoGroup})
         /\ Range(groupOrder(golden)) = {c.group : c \in Range(golden.cases)}
<1> DEFINE cases == golden.cases
           groups == [i \in DOMAIN cases |-> cases[i].group]
           at == {i \in DOMAIN groups : \A j \in 1 .. i - 1 : groups[j] # groups[i]}
<1>1. cases \in Seq(RecordedCases)
  BY DEF Goldens
<1>2. groups \in Seq(Groups \cup {NoGroup}) /\ DOMAIN groups = DOMAIN cases
  <2>1. DOMAIN cases = 1 .. Len(cases) /\ Len(cases) \in Nat
    BY <1>1
  <2>2. \A i \in 1 .. Len(cases) : cases[i].group \in Groups \cup {NoGroup}
    <3>1. \A c \in RecordedCases : c.group \in Groups \cup {NoGroup}
      BY DEF RecordedCases
    <3>2. \A i \in 1 .. Len(cases) : cases[i] \in RecordedCases
      BY <1>1, <2>1
    <3> QED  BY <3>1, <3>2
  <2>3. groups \in [1 .. Len(cases) -> Groups \cup {NoGroup}]
    BY <2>1, <2>2
  <2> QED  BY <2>1, <2>3
<1>3. at \in SUBSET DOMAIN groups
  OBVIOUS
<1>4. /\ Kept(groups, at) \in Seq(Groups \cup {NoGroup})
      /\ Range(Kept(groups, at)) = {groups[i] : i \in at}
  <2> HIDE DEF groups, at
  <2> QED  BY <1>2, <1>3, KeptElements
<1>5. groupOrder(golden) = Kept(groups, at)
  BY DEF groupOrder
<1>6. ASSUME NEW i \in DOMAIN cases PROVE \E j \in at : groups[j] = groups[i]
  <2> DEFINE T == {j \in DOMAIN cases : groups[j] = groups[i]}
  <2>1. T \in SUBSET Nat /\ i \in T
    BY <1>1
  <2>2. PICK j \in T : \A k \in T : j <= k
    <3> HIDE DEF T
    <3> QED  BY <2>1, LeastNatural
  <2>3. ASSUME NEW k \in 1 .. j - 1 PROVE groups[k] # groups[j]
    <3>1. k \in DOMAIN cases /\ ~(j <= k)
      BY <1>1, <2>2
    <3>2. k \notin T
      BY <2>2, <3>1
    <3> QED  BY <2>2, <3>1, <3>2
  <2>4. j \in at
    BY <1>2, <2>2, <2>3, ZenonT(30)
  <2> QED  BY <2>2, <2>4, ZenonT(30)
<1>7. {groups[i] : i \in at} = {cases[i].group : i \in DOMAIN cases}
  <2>1. \A i \in at : i \in DOMAIN cases /\ groups[i] = cases[i].group
    BY <1>2
  <2>2. \A i \in DOMAIN cases : groups[i] = cases[i].group
    OBVIOUS
  <2> HIDE DEF groups, at, cases
  <2> QED  BY <2>1, <2>2, <1>6
<1>8. {cases[i].group : i \in DOMAIN cases} = {c.group : c \in Range(cases)}
  BY DEF Range
<1> QED  BY <1>4, <1>5, <1>7, <1>8, ZenonT(30)

\* The part of a record that goes to a group's file holds the group's cases.
LEMMA PartOfRecord ==
  ASSUME NEW golden \in Goldens, NEW g
  PROVE  /\ partOf(golden, g) \in Goldens
         /\ Range(partOf(golden, g).cases) = {c \in Range(golden.cases) : c.group = g}
<1> DEFINE cases == golden.cases
           at == {i \in DOMAIN cases : cases[i].group = g}
           part == byGroup(cases, g)
<1>1. cases \in Seq(RecordedCases)
  BY DEF Goldens
<1>2. part \in Seq(RecordedCases) /\ Range(part) = {cases[i] : i \in at}
  <2>1. at \in SUBSET DOMAIN cases /\ part = Kept(cases, at)
    BY DEF byGroup
  <2> HIDE DEF at, cases, part
  <2> QED  BY <1>1, <2>1, KeptElements
<1>3. {cases[i] : i \in at} = {c \in Range(cases) : c.group = g}
  BY DEF Range
<1>4. partOf(golden, g) = [golden EXCEPT !.cases = part]
  BY DEF partOf
<1> HIDE DEF part
<1>5. [golden EXCEPT !.cases = part] \in Goldens /\ [golden EXCEPT !.cases = part].cases = part
  BY <1>2 DEF Goldens
<1> QED  BY <1>2, <1>3, <1>4, <1>5

Enforced(cases) == {enforcedCase(c) : c \in cases}

\* Files of the same content hold the same cases, as far as they are enforced,
\* under the same names.
LEMMA SameContent ==
  ASSUME NEW file \in Goldens, NEW golden \in Goldens,
         contentBytes(file) = contentBytes(golden)
  PROVE  Enforced(Range(file.cases)) = Enforced(Range(golden.cases))
<1> DEFINE a == [i \in DOMAIN file.cases |-> enforcedCase(file.cases[i])]
           b == [i \in DOMAIN golden.cases |-> enforcedCase(golden.cases[i])]
<1>1. a = b
  BY DEF contentBytes
<1>2. Range(a) = Enforced(Range(file.cases))
  BY ZenonT(30) DEF Range, Enforced
<1>3. Range(b) = Enforced(Range(golden.cases))
  BY ZenonT(30) DEF Range, Enforced
<1> QED  BY <1>1, <1>2, <1>3

\* enforcedCase keeps a case's name.
LEMMA EnforcedName ==
  ASSUME NEW c \in RecordedCases
  PROVE  enforcedCase(c).name = c.name
<1> DEFINE obs == IF c.ignoreRows THEN withoutRows(c.obs) ELSE c.obs
           results == IF c.ignoreRows THEN [i \in DOMAIN c.results |-> withoutRows(c.results[i])]
                      ELSE c.results
           kept == IF c.race THEN Pooled(results) ELSE [steps |-> results, finals |-> Count(<<>>)]
<1>1. enforcedCase(c) = [c EXCEPT !.obs = obs, !.results = kept]
  BY DEF enforcedCase
<1> HIDE DEF obs, kept
<1>2. [c EXCEPT !.obs = obs, !.results = kept].name = c.name
  BY DEF RecordedCases
<1> QED  BY <1>1, <1>2

\* No two cases of a record that follows a suite have one name.
LEMMA NamesDiffer ==
  ASSUME NEW suite \in Suites \cup {<<>>}, NEW golden \in Goldens, Follows(golden, suite),
         NEW c \in Range(golden.cases), NEW d \in Range(golden.cases), c.name = d.name
  PROVE  c = d
<1>1. golden.cases \in Seq(RecordedCases)
  BY DEF Goldens
<1>2. PICK i \in DOMAIN golden.cases : c = golden.cases[i]
  BY DEF Range
<1>3. PICK j \in DOMAIN golden.cases : d = golden.cases[j]
  BY DEF Range
<1>4. suite \in Seq(Cases)
  <2>1. <<>> \in Seq(Cases)
    OBVIOUS
  <2>2. Suites \subseteq Seq(Cases)
    BY RecorderAssumption
  <2> QED  BY <2>1, <2>2, ZenonT(30)
<1>5. i \in DOMAIN suite /\ j \in DOMAIN suite
  BY <1>1, <1>2, <1>3, <1>4 DEF Follows
<1>6. suite[i].name = suite[j].name
  BY <1>2, <1>3 DEF Follows
<1>7. suite \in Suites
  BY <1>5
<1> QED  BY <1>2, <1>3, <1>5, <1>6, <1>7, RecorderAssumption

\* What a completed save leaves: exactly the groups of the record, each with
\* what is enforced of its part.
LEMMA DoneLeaves ==
  ASSUME TypeOK, SaveInv, save.pc = "done"
  PROVE  /\ Due \subseteq Groups /\ Due # {}
         /\ \A g \in Due :
              /\ dir[g] \in Goldens
              /\ Enforced(Range(dir[g].cases))
                   = Enforced({c \in Range(save.golden.cases) : c.group = g})
         /\ \A g \in Groups \ Due : dir[g] = Absent
<1>1. Due \subseteq Groups /\ Due # {} /\ \A g \in Groups \ Due : dir[g] = Absent
  BY DEF SaveInv
<1>2. ASSUME NEW g \in Due
      PROVE  /\ dir[g] \in Goldens
             /\ Enforced(Range(dir[g].cases))
                  = Enforced({c \in Range(save.golden.cases) : c.group = g})
  <2>1. save.golden \in Goldens
    BY DEF TypeOK
  <2>2. save.todo = <<>>
    BY DEF SaveInv
  <2>3. Range(save.todo) = {}
    BY <2>2 DEF Range
  <2>4. sameContent(dir[g], partOf(save.golden, g))
    BY <2>3 DEF SaveInv
  <2>5. dir[g] \in Goldens /\ contentBytes(dir[g]) = contentBytes(partOf(save.golden, g))
    BY <1>1, <2>4 DEF TypeOK, sameContent
  <2>6. /\ partOf(save.golden, g) \in Goldens
        /\ Range(partOf(save.golden, g).cases) = {c \in Range(save.golden.cases) : c.group = g}
    BY <2>1, PartOfRecord
  <2>7. Enforced(Range(dir[g].cases)) = Enforced(Range(partOf(save.golden, g).cases))
    BY <2>5, <2>6, SameContent
  <2> QED  BY <2>5, <2>6, <2>7
<1> QED  BY <1>1, <1>2

\* A case on disk is, as far as it is enforced, one of the record.
LEMMA OnDisk ==
  ASSUME TypeOK, SaveInv, save.pc = "done", NEW g \in Due, NEW c \in Range(dir[g].cases)
  PROVE  \E d \in Range(save.golden.cases) :
           d.group = g /\ enforcedCase(d) = enforcedCase(c) /\ d.name = c.name
<1>1. dir[g] \in Goldens /\ save.golden \in Goldens
  BY DoneLeaves, ZenonT(30) DEF TypeOK
<1>2. /\ Enforced(Range(dir[g].cases))
           = Enforced({d \in Range(save.golden.cases) : d.group = g})
  BY DoneLeaves
<1>3. enforcedCase(c) \in Enforced(Range(dir[g].cases))
  BY DEF Enforced
<1>4. PICK d \in {d \in Range(save.golden.cases) : d.group = g} :
        enforcedCase(d) = enforcedCase(c)
  BY <1>2, <1>3 DEF Enforced
<1>5. c \in RecordedCases /\ d \in RecordedCases
  <2>1. dir[g].cases \in Seq(RecordedCases) /\ save.golden.cases \in Seq(RecordedCases)
    BY <1>1 DEF Goldens
  <2> QED  BY <2>1, <1>4 DEF Range
<1>6. d.name = c.name
  BY <1>4, <1>5, EnforcedName
<1> QED  BY <1>4, <1>6

\* SavedLoads follows from the invariants.
LEMMA SavedLoadsFollows ==
  ASSUME TypeOK, EvidenceInv, SaveInv
  PROVE  SavedLoads
<1> SUFFICES ASSUME save.pc = "done" PROVE
      /\ Loads(dir)
      /\ Enforced(LoadsCases(dir)) = Enforced(Range(save.golden.cases))
  BY DEF SavedLoads, Enforced
<1> DEFINE golden == save.golden
<1>0. /\ Due \subseteq Groups /\ Due # {}
      /\ \A g \in Due : dir[g] \in Goldens
      /\ \A g \in Groups \ Due : dir[g] = Absent
  BY DoneLeaves, ZenonT(30)
<1>1. Absent # Torn /\ Absent \notin Goldens /\ Torn \notin Goldens
  BY RecorderAssumption
<1>2. {h \in Groups : dir[h] # Absent} = Due
  BY <1>0, <1>1
<1>3. golden \in Goldens /\ Follows(golden, run.suite) /\ run.suite \in Suites \cup {<<>>}
  <2>0. NoSave.pc = "idle"
    BY DEF NoSave
  <2>1. run.pc = "save"
    BY <2>0 DEF EvidenceInv
  <2> QED  BY <2>1 DEF EvidenceInv, TypeOK, Runs
<1>4. Loads(dir)
  <2>1. ASSUME NEW g \in Due, NEW h \in Due, g # h
        PROVE  {c.name : c \in CasesOf(dir[g])} \cap {c.name : c \in CasesOf(dir[h])} = {}
    <3> SUFFICES ASSUME NEW c \in Range(dir[g].cases), NEW d \in Range(dir[h].cases),
                        c.name = d.name
                 PROVE  FALSE
      BY DEF CasesOf
    <3>1. PICK a \in Range(golden.cases) : a.group = g /\ a.name = c.name
      BY OnDisk
    <3>2. PICK b \in Range(golden.cases) : b.group = h /\ b.name = d.name
      BY OnDisk
    <3>3. a = b
      BY <1>3, <3>1, <3>2, NamesDiffer, ZenonT(30)
    <3> QED  BY <2>1, <3>1, <3>2, <3>3
  <2>2. \E g \in Groups : dir[g] # Absent
    BY <1>0, <1>1
  <2>3. \A g \in Groups : dir[g] # Torn
    BY <1>0, <1>1
  <2> QED  BY <1>2, <2>1, <2>2, <2>3 DEF Loads
<1>5. LoadsCases(dir) = UNION {CasesOf(dir[g]) : g \in Due}
  BY <1>2 DEF LoadsCases
<1>6. ASSUME NEW c \in LoadsCases(dir)
      PROVE  enforcedCase(c) \in Enforced(Range(golden.cases))
  <2>1. PICK g \in Due : c \in Range(dir[g].cases)
    BY <1>5 DEF CasesOf
  <2>2. PICK d \in Range(golden.cases) : enforcedCase(d) = enforcedCase(c)
    BY <2>1, OnDisk
  <2> QED  BY <2>2 DEF Enforced
<1>7. ASSUME NEW c \in Range(golden.cases)
      PROVE  enforcedCase(c) \in Enforced(LoadsCases(dir))
  <2> DEFINE g == c.group
  <2>1. g \in Due
    BY DEF Due
  <2>2. Enforced(Range(dir[g].cases)) = Enforced({d \in Range(golden.cases) : d.group = g})
    BY <2>1, DoneLeaves
  <2>3. enforcedCase(c) \in Enforced({d \in Range(golden.cases) : d.group = g})
    BY DEF Enforced
  <2>4. PICK d \in Range(dir[g].cases) : enforcedCase(d) = enforcedCase(c)
    BY <2>2, <2>3 DEF Enforced
  <2>5. d \in LoadsCases(dir)
    BY <1>5, <2>1, <2>4 DEF CasesOf
  <2> QED  BY <2>4, <2>5 DEF Enforced
<1>8. Enforced(LoadsCases(dir)) = Enforced(Range(golden.cases))
  BY <1>6, <1>7 DEF Enforced
<1> QED  BY <1>4, <1>8

-----------------------------------------------------------------------------
(* Types.                                                                  *)

\* What the facts about the constants say of the constants' types.
LEMMA ConstantTypes ==
  /\ Objects \in Seq(Range(Objects)) /\ DroppedFirst \in Seq(Range(Objects))
  /\ 0 \in 0 .. schemaAttempts - 1 /\ schemaAttempts \in Nat
  /\ <<>> \in Seq(Range(Objects)) /\ <<>> \in Seq(Observations) /\ <<>> \in Seq(RecordedCases)
  /\ <<>> \in Seq(Groups)
<1>1. Objects \in Seq(STRING)
  BY RecorderAssumption
<1>2. \A i \in 1 .. Len(Objects) : Objects[i] \in Range(Objects)
  BY <1>1 DEF Range
<1>3. Objects \in Seq(Range(Objects))
  BY <1>1, <1>2
<1> QED  BY <1>3, RecorderAssumption

\* A stage of a run.
Stages ==
  {"idle", "setup", "create", "verify", "case", "step", "reverify", "cleanup", "save",
   "cleanupOnly"}

\* The edits of a run keep its type.
LEMMA RunEdits ==
  ASSUME NEW r \in Runs
  PROVE  /\ \A pc \in Stages : [r EXCEPT !.pc = pc] \in Runs
         /\ \A pc \in Stages, todo \in Seq(Range(Objects)) :
              [r EXCEPT !.pc = pc, !.todo = todo] \in Runs
         /\ \A pc \in Stages, obs \in Seq(Observations) :
              [r EXCEPT !.pc = pc, !.obs = obs] \in Runs
         /\ \A obs \in Seq(Observations), blind \in BOOLEAN :
              [r EXCEPT !.obs = obs, !.blind = blind] \in Runs
         /\ \A b \in BOOLEAN : [r EXCEPT !.skipped = b] \in Runs
         /\ \A b \in BOOLEAN : [r EXCEPT !.blind = b] \in Runs
         /\ \A todo \in Seq(Range(Objects)), a \in 0 .. schemaAttempts - 1 :
              [r EXCEPT !.todo = todo, !.attempt = a] \in Runs
         /\ \A a \in 0 .. schemaAttempts - 1 : [r EXCEPT !.attempt = a] \in Runs
         /\ \A pc \in Stages, todo \in Seq(Range(Objects)), a \in 0 .. schemaAttempts - 1,
               err \in Errors :
              [r EXCEPT !.pc = pc, !.todo = todo, !.attempt = a, !.err = err] \in Runs
         /\ \A pc \in Stages, obs \in Seq(Observations), golden \in Goldens :
              [r EXCEPT !.pc = pc, !.obs = obs, !.golden = golden] \in Runs
         /\ \A pc \in Stages, no \in Nat, suite \in Suites, todo \in Seq(Range(Objects)),
               golden \in Goldens :
              [r EXCEPT !.pc = pc, !.no = no, !.suite = suite, !.todo = todo,
                        !.golden = golden] \in Runs
         /\ \A no \in Nat, err \in Errors, b \in BOOLEAN, report \in Reports :
              [r EXCEPT !.no = no, !.err = err, !.skipped = b, !.report = report] \in Runs
<1>1. ASSUME NEW pc \in Stages
      PROVE  [r EXCEPT !.pc = pc] \in Runs
  BY DEF Runs, Stages
<1>2. ASSUME NEW pc \in Stages, NEW todo \in Seq(Range(Objects))
      PROVE  [r EXCEPT !.pc = pc, !.todo = todo] \in Runs
  BY ZenonT(30) DEF Runs, Stages
<1>3. ASSUME NEW pc \in Stages, NEW obs \in Seq(Observations)
      PROVE  [r EXCEPT !.pc = pc, !.obs = obs] \in Runs
  BY ZenonT(30) DEF Runs, Stages
<1>4. ASSUME NEW obs \in Seq(Observations), NEW blind \in BOOLEAN
      PROVE  [r EXCEPT !.obs = obs, !.blind = blind] \in Runs
  BY ZenonT(30) DEF Runs, Stages
<1>5. ASSUME NEW b \in BOOLEAN
      PROVE  [r EXCEPT !.skipped = b] \in Runs
  BY DEF Runs, Stages
<1>6. ASSUME NEW b \in BOOLEAN
      PROVE  [r EXCEPT !.blind = b] \in Runs
  BY DEF Runs, Stages
<1>7. ASSUME NEW todo \in Seq(Range(Objects)), NEW a \in 0 .. schemaAttempts - 1
      PROVE  [r EXCEPT !.todo = todo, !.attempt = a] \in Runs
  BY ZenonT(30) DEF Runs, Stages
<1>8. ASSUME NEW a \in 0 .. schemaAttempts - 1
      PROVE  [r EXCEPT !.attempt = a] \in Runs
  BY DEF Runs, Stages
<1>9. ASSUME NEW pc \in Stages, NEW todo \in Seq(Range(Objects)), NEW a \in 0 .. schemaAttempts - 1, NEW err \in Errors
      PROVE  [r EXCEPT !.pc = pc, !.todo = todo, !.attempt = a, !.err = err] \in Runs
  BY ZenonT(30) DEF Runs, Stages
<1>10. ASSUME NEW pc \in Stages, NEW obs \in Seq(Observations), NEW golden \in Goldens
      PROVE  [r EXCEPT !.pc = pc, !.obs = obs, !.golden = golden] \in Runs
  BY ZenonT(30) DEF Runs, Stages
<1>11. ASSUME NEW pc \in Stages, NEW no \in Nat, NEW suite \in Suites, NEW todo \in Seq(Range(Objects)), NEW golden \in Goldens
      PROVE  [r EXCEPT !.pc = pc, !.no = no, !.suite = suite, !.todo = todo,
                        !.golden = golden] \in Runs
  BY ZenonT(30) DEF Runs, Stages
<1>12. ASSUME NEW no \in Nat, NEW err \in Errors, NEW b \in BOOLEAN, NEW report \in Reports
      PROVE  [r EXCEPT !.no = no, !.err = err, !.skipped = b, !.report = report] \in Runs
  BY ZenonT(30) DEF Runs, Stages
<1> QED  BY <1>1, <1>2, <1>3, <1>4, <1>5, <1>6, <1>7, <1>8, <1>9, <1>10, <1>11, <1>12, ZenonT(30)

\* The record before any case.
LEMMA NoRunType ==
  NoRun \in Runs
<1>1. [at |-> 0, version |-> "", cases |-> <<>>] \in Goldens
  BY ConstantTypes DEF Goldens
<1> DEFINE g == [at |-> 0, version |-> "", cases |-> <<>>]
<1> HIDE DEF g
<1>2. g \in Goldens
  BY <1>1 DEF g
<1>3. NoRun = [pc |-> "idle", no |-> 0, suite |-> <<>>, todo |-> <<>>, attempt |-> 0,
               obs |-> <<>>, golden |-> g,
               err |-> "", skipped |-> FALSE, blind |-> FALSE, report |-> ""]
  BY DEF NoRun, g
<1>4. /\ 0 \in 0 .. schemaAttempts - 1 /\ <<>> \in Seq(Range(Objects))
      /\ <<>> \in Seq(Observations) /\ <<>> \in Suites \cup {<<>>}
  BY ConstantTypes
<1> QED  BY <1>2, <1>3, <1>4 DEF Runs, Errors, Reports

\* A statement that was run leaves the connection open or lost.
LEMMA ConnType ==
  ASSUME TypeOK, NEW met, Connection(met)
  PROVE  conn' \in [open : BOOLEAN, txn : {"none", "open", "failed"}]
BY DEF TypeOK, Connection

\* What a statement may meet.
LEMMA MetTypes ==
  ASSUME NEW answers \in SUBSET {"ok", "conflict", "error", "exists"}, NEW met \in Meets(answers)
  PROVE  met \in {"ok"} \cup Errors /\ met # ""
<1>1. Meets(answers) \in {{"closed"}, {"cancelled"}, answers \cup {"lost"}}
  BY DEF Meets
<1> QED  BY <1>1 DEF Errors

\* The ways a statement can leave the run keep its type.
LEMMA Statements ==
  ASSUME TypeOK
  PROVE  /\ run.todo # <<>> => Done(run) \in Runs
         /\ \A met : Retries(met) => Again(run) \in Runs
         /\ \A err \in Errors : Return(err) \in Runs
         /\ \A report \in Reports : Exit(report) \in Runs
<1>1. run \in Runs /\ run.todo \in Seq(Range(Objects)) /\ run.attempt \in 0 .. schemaAttempts - 1
      /\ run.no \in Nat /\ run.err \in Errors /\ run.skipped \in BOOLEAN
  BY SMTT(30) DEF TypeOK, Runs
<1>2. ASSUME run.todo # <<>> PROVE Done(run) \in Runs
  <2>1. Tail(run.todo) \in Seq(Range(Objects))
    BY <1>1, <1>2, SMTT(30)
  <2> QED  BY <1>1, <2>1, RunEdits, ConstantTypes, ZenonT(30) DEF Done
<1>3. ASSUME NEW met, Retries(met) PROVE Again(run) \in Runs
  <2>1. run.attempt + 1 \in 0 .. schemaAttempts - 1
    BY <1>1, <1>3, ConstantTypes, SMTT(30) DEF Retries
  <2> QED  BY <1>1, <2>1, RunEdits, ZenonT(30) DEF Again
<1>4. ASSUME NEW err \in Errors PROVE Return(err) \in Runs
  BY <1>1, RunEdits, ConstantTypes, ZenonT(30) DEF Return, Stages
<1>5. ASSUME NEW report \in Reports PROVE Exit(report) \in Runs
  BY <1>1, RunEdits, NoRunType, ZenonT(30) DEF Exit
<1> QED  BY <1>2, <1>3, <1>4, <1>5

\* A stage is a stage, for the provers.
Conns == [open : BOOLEAN, txn : {"none", "open", "failed"}]

SaveStates ==
  [pc : {"idle", "write", "writing", "done", "failed"}, golden : Goldens,
   todo : Seq(Groups), changed : SUBSET Groups]

FilesOK == dir \in [Groups -> Goldens \cup {Absent, Torn}] /\ save \in SaveStates

\* What a schema statement makes of the run, and of the cluster.
LEMMA SchemaTypes ==
  ASSUME TypeOK, run.todo # <<>>, NEW met \in {"ok"} \cup Errors,
         run' = CASE met = "ok" -> Done(run)
                  [] Retries(met) -> Again(run)
                  [] OTHER -> Return(met)
  PROVE  run' \in Runs
<1>1. met # "ok" => met \in Errors
  OBVIOUS
<1>2. ~(met = "ok" /\ Retries(met))
  BY DEF Retries
<1> QED  BY <1>1, <1>2, Statements

\* What a statement leaves on the cluster is part of the suite's schema.
LEMMA EffectTypes ==
  ASSUME TypeOK, NEW met, NEW done \in SUBSET Range(Objects), NEW left \in Effect(met, done)
  PROVE  left \in SUBSET Range(Objects)
BY DEF TypeOK, Effect

\* The statement at the head of a list of objects is about one of them.
LEMMA HeadObject ==
  ASSUME TypeOK, run.todo # <<>>
  PROVE  Head(run.todo) \in Range(Objects)
<1>1. run.todo \in Seq(Range(Objects))
  BY DEF TypeOK, Runs
<1> QED  BY <1>1

\* SaveDir keeps the types of the directory and of its own state.
LEMMA StartSaveTypes ==
  ASSUME FilesOK, NEW golden \in Goldens, StartSave(golden)
  PROVE  FilesOK'
<1> DEFINE order == groupOrder(golden)
           refused == golden.cases = <<>> \/ NoGroup \in Range(order)
           todo == IF refused THEN <<>> ELSE order
           pc == IF refused THEN "failed" ELSE "write"
<1>1. order \in Seq(Groups \cup {NoGroup})
  BY GroupsOfRecord
<1>2. todo \in Seq(Groups)
  <2>1. CASE refused
    BY <2>1, ConstantTypes
  <2>2. CASE ~refused
    <3>1. \A i \in 1 .. Len(order) : order[i] \in Groups
      BY <1>1, <2>2 DEF Range
    <3> QED  BY <1>1, <2>2, <3>1
  <2> QED  BY <2>1, <2>2
<1>3. save' = [pc |-> pc, golden |-> golden, todo |-> todo, changed |-> {}] /\ dir' = dir
  BY DEF StartSave
<1>4. pc \in {"write", "failed"}
  OBVIOUS
<1> HIDE DEF todo, pc
<1> QED  BY <1>2, <1>3, <1>4 DEF FilesOK, SaveStates

\* Every step of SaveDir keeps the types.
LEMMA SaveTypes ==
  ASSUME FilesOK, SaveStep \/ SaveFails, save.pc = "writing" => save.todo # <<>>
  PROVE  FilesOK'
<1>1. /\ save.golden \in Goldens /\ save.todo \in Seq(Groups) /\ save.changed \in SUBSET Groups
      /\ save.todo # <<>> => Group \in Groups /\ Tail(save.todo) \in Seq(Groups)
  BY DEF FilesOK, SaveStates, Group
<1>2. ASSUME save.todo # <<>> PROVE GroupDone \in SaveStates
  BY <1>1, <1>2, ZenonT(30) DEF FilesOK, SaveStates, GroupDone
<1>3. CASE SaveUnchanged
  BY <1>2, <1>3 DEF SaveUnchanged, FilesOK
<1>4. CASE SaveTruncate
  BY <1>1, <1>4 DEF SaveTruncate, FilesOK, SaveStates
<1>5. CASE SaveWritten
  <2>1. save.todo # <<>> /\ partOf(save.golden, Group) \in Goldens
    BY <1>1, <1>5, PartOfRecord DEF SaveWritten
  <2>2. dir' \in [Groups -> Goldens \cup {Absent, Torn}]
    BY <1>1, <1>5, <2>1 DEF SaveWritten, FilesOK
  <2>3. Reported(Group) \in SUBSET Groups
    BY <1>1, <2>1 DEF Reported
  <2>4. [GroupDone EXCEPT !.changed = Reported(Group)] \in SaveStates
    BY <1>2, <2>1, <2>3 DEF SaveStates
  <2> QED  BY <1>5, <2>2, <2>4 DEF SaveWritten, FilesOK
<1>6. CASE PruneStale
  BY <1>1, <1>6 DEF PruneStale, Stale, Reported, FilesOK, SaveStates
<1>7. CASE Saved
  BY <1>7 DEF Saved, FilesOK, SaveStates
<1>8. CASE SaveFails
  BY <1>8 DEF SaveFails, FilesOK, SaveStates
<1> QED  BY <1>3, <1>4, <1>5, <1>6, <1>7, <1>8 DEF SaveStep

\* The case at hand is one of the suite's.
LEMMA NextCaseType ==
  ASSUME TypeOK, CaseNo <= Len(run.suite)
  PROVE  NextCase \in Cases /\ CaseNo \in DOMAIN run.suite
         /\ CaseNo = Len(run.golden.cases) + 1 /\ run.suite \in Suites
<1>1. run.suite \in Suites \cup {<<>>} /\ run.golden \in Goldens
  BY DEF TypeOK, Runs
<1>2. run.golden.cases \in Seq(RecordedCases)
  BY <1>1 DEF Goldens
<1>3. Len(run.golden.cases) \in Nat
  BY <1>2
<1>4. run.suite # <<>>
  BY <1>3 DEF CaseNo
<1>5. run.suite \in Suites /\ run.suite \in Seq(Cases)
  BY <1>1, <1>4, RecorderAssumption
<1>6. CaseNo \in DOMAIN run.suite
  BY <1>3, <1>5 DEF CaseNo
<1> QED  BY <1>5, <1>6 DEF NextCase, CaseNo

\* Recording a case.
LEMMA RecordTypes ==
  ASSUME TypeOK, CaseNo <= Len(run.suite), NEW obs \in Seq(Observations),
         NEW results \in RaceAnswers \cup {<<>>}
  PROVE  /\ Recorded(NextCase, obs, results) \in RecordedCases
         /\ Record(run, obs, results) \in Runs
         /\ Record(run, obs, results)
              = [run EXCEPT !.pc = "case", !.obs = <<>>,
                   !.golden = [run.golden EXCEPT !.cases =
                                 Append(run.golden.cases, Recorded(NextCase, obs, results))]]
<1> DEFINE c == NextCase
           rc == Recorded(c, obs, results)
           cases == Append(run.golden.cases, rc)
           golden == [run.golden EXCEPT !.cases = cases]
<1>1. c \in Cases
  BY NextCaseType
<1> HIDE DEF c
<1>2. rc \in RecordedCases
  BY <1>1 DEF Recorded, Cases, RecordedCases
<1> HIDE DEF rc
<1>3. run \in Runs /\ run.golden \in Goldens
  BY DEF TypeOK, Runs
<1>4. cases \in Seq(RecordedCases)
  <2>1. run.golden.cases \in Seq(RecordedCases)
    BY <1>3 DEF Goldens
  <2> QED  BY <1>2, <2>1
<1> HIDE DEF cases
<1>5. golden \in Goldens
  BY <1>3, <1>4 DEF Goldens
<1>6. Record(run, obs, results) = [run EXCEPT !.pc = "case", !.obs = <<>>, !.golden = golden]
  <2>1. Record(run, obs, results)
          = [run EXCEPT !.pc = "case", !.obs = <<>>, !.golden.cases = cases]
    BY DEF Record, cases, rc, c
  <2> QED  BY <1>3, <2>1 DEF Runs
<1> HIDE DEF golden
<1>7. Record(run, obs, results) \in Runs
  <2>1. "case" \in Stages /\ <<>> \in Seq(Observations)
    BY ConstantTypes, SMTT(30) DEF Stages
  <2>2. [run EXCEPT !.pc = "case", !.obs = <<>>, !.golden = golden] \in Runs
    BY <1>3, <1>5, <2>1, RunEdits, ZenonT(30)
  <2> QED  BY <1>6, <2>2
<1> QED  BY <1>2, <1>6, <1>7 DEF golden, cases, rc, c

\* The command starts in its type.
LEMMA TypeInit ==
  Init => TypeOK
<1> SUFFICES ASSUME Init PROVE TypeOK
  OBVIOUS
<1>1. NoSave \in SaveStates
  <2>1. [at |-> 0, version |-> "", cases |-> <<>>] \in Goldens
    BY ConstantTypes DEF Goldens
  <2> DEFINE g == [at |-> 0, version |-> "", cases |-> <<>>]
  <2> HIDE DEF g
  <2>2. NoSave = [pc |-> "idle", golden |-> g, todo |-> <<>>, changed |-> {}] /\ g \in Goldens
    BY <2>1 DEF NoSave, g
  <2> QED  BY <2>2, ConstantTypes DEF SaveStates
<1>2. dir \in [Groups -> Goldens \cup {Absent, Torn}]
  BY DEF Init
<1>3. conn \in Conns
  BY DEF Init, Conns
<1> QED  BY <1>1, <1>2, <1>3, NoRunType DEF Init, TypeOK, SaveStates, Conns

\* TypeOK, by the parts of the state.
LEMMA TypeParts ==
  /\ TypeOK <=> /\ cluster \in SUBSET Range(Objects) /\ conn \in Conns
                /\ ctx \in {"live", "cancelled"} /\ run \in Runs /\ FilesOK
  /\ TypeOK' <=> /\ cluster' \in SUBSET Range(Objects) /\ conn' \in Conns
                 /\ ctx' \in {"live", "cancelled"} /\ run' \in Runs /\ FilesOK'
BY DEF TypeOK, FilesOK, SaveStates, Conns

\* Every step of RunSuite keeps the types.
LEMMA RunSuiteTypes ==
  ASSUME TypeOK, EvidenceInv,
         Setup \/ SetupDone \/ Verify \/ VerifyDone \/ NextCases \/ Step \/ Reset \/ RunSessions
  PROVE  TypeOK'
<1> USE TypeParts
<1>0. /\ run \in Runs /\ run.todo \in Seq(Range(Objects)) /\ run.obs \in Seq(Observations)
      /\ run.blind \in BOOLEAN /\ cluster \in SUBSET Range(Objects)
  BY DEF Runs
<1>f. ASSUME UNCHANGED <<dir, save>> PROVE FilesOK'
  BY <1>f DEF FilesOK
<1>1. CASE Setup
  <2> DEFINE o == Head(run.todo)
             answers == IF run.pc = "create" /\ o \in cluster THEN {"exists"}
                        ELSE {"ok", "conflict", "error"}
  <2>1. PICK met \in Meets(answers) :
          /\ Connection(met)
          /\ run' = CASE met = "ok" -> Done(run)
                      [] Retries(met) -> Again(run)
                      [] OTHER -> Return(met)
          /\ cluster' \in IF run.pc = "setup" THEN Effect(met, cluster \ {o})
                          ELSE {cluster} \cup Effect(met, cluster \cup {o})
    BY <1>1 DEF Setup
  <2>2. answers \in SUBSET {"ok", "conflict", "error", "exists"}
    OBVIOUS
  <2>3. o \in Range(Objects) /\ run.todo # <<>>
    BY <1>1, HeadObject DEF Setup
  <2> HIDE DEF o, answers
  <2>4. met \in {"ok"} \cup Errors
    BY <2>1, <2>2, MetTypes
  <2>5. run' \in Runs
    BY <2>1, <2>3, <2>4, SchemaTypes
  <2>6. cluster \ {o} \in SUBSET Range(Objects) /\ cluster \cup {o} \in SUBSET Range(Objects)
    BY <1>0, <2>3
  <2>7. cluster' \in SUBSET Range(Objects)
    BY <1>0, <2>1, <2>6, EffectTypes
  <2>8. conn' \in Conns /\ ctx' = ctx /\ FilesOK'
    BY <1>1, <1>f, <2>1, ConnType DEF Setup, Conns
  <2> QED  BY <2>5, <2>7, <2>8
<1>2. CASE SetupDone
  <2>1. run' \in Runs
    BY <1>0, <1>2, RunEdits, ConstantTypes, ZenonT(30) DEF SetupDone, Stages
  <2> QED  BY <1>2, <1>f, <2>1, SMTT(30) DEF SetupDone
<1>3. CASE Verify
  <2> DEFINE answers == IF Head(run.todo) \in cluster THEN {"ok", "conflict"} ELSE {"error"}
  <2>1. PICK met \in Meets(answers) :
          /\ Connection(met)
          /\ run' = CASE met = "ok" -> Done(run)
                      [] Retries(met) -> Again(run)
                      [] OTHER -> Return(met)
    BY <1>3 DEF Verify
  <2>2. answers \in SUBSET {"ok", "conflict", "error", "exists"}
    OBVIOUS
  <2> HIDE DEF answers
  <2>3. run' \in Runs
    BY <1>3, <2>1, <2>2, MetTypes, SchemaTypes DEF Verify
  <2> QED  BY <1>3, <1>f, <2>1, <2>3, ConnType DEF Verify, Conns
<1>4. CASE VerifyDone
  <2>1. Return("") \in Runs /\ [run EXCEPT !.pc = "case"] \in Runs
    BY <1>0, Statements, RunEdits, ZenonT(30) DEF Errors, Stages
  <2> QED  BY <1>4, <1>f, <2>1 DEF VerifyDone
<1>5. CASE NextCases
  <2>1. AfterCases \in Runs /\ [run EXCEPT !.pc = "step", !.obs = <<>>] \in Runs
    BY <1>0, RunEdits, ConstantTypes, ZenonT(30) DEF Stages, AfterCases
  <2> QED  BY <1>5, <1>f, <2>1, SMTT(30) DEF NextCases
<1>6. CASE Step
  <2>1. PICK met \in Meets({"answer", "undecoded"}) :
          \E o \in IF met = "answer" THEN StepAnswers ELSE {NoAnswer(met)},
             txn \in {"none", "open", "failed"} :
            /\ conn' = [open |-> conn.open /\ met # "lost", txn |-> txn]
            /\ run' = IF LostTarget(o, conn'.open) THEN Return("lost")
                      ELSE [run EXCEPT !.obs = Append(@, o),
                                       !.blind = @ \/ cluster # Range(Objects)]
    BY <1>6, ZenonT(30) DEF Step
  <2>2. PICK o \in IF met = "answer" THEN StepAnswers ELSE {NoAnswer(met)},
             txn \in {"none", "open", "failed"} :
            /\ conn' = [open |-> conn.open /\ met # "lost", txn |-> txn]
            /\ run' = IF LostTarget(o, conn'.open) THEN Return("lost")
                      ELSE [run EXCEPT !.obs = Append(@, o),
                                       !.blind = @ \/ cluster # Range(Objects)]
    BY <2>1, ZenonT(30)
  <2>3. met \in {"answer", "undecoded", "closed", "cancelled", "lost"}
    BY <2>1 DEF Meets
  <2>4. o \in Observations
    BY <2>2, <2>3 DEF Observations
  <2>5. Append(run.obs, o) \in Seq(Observations) /\ (run.blind \/ cluster # Range(Objects)) \in BOOLEAN
    BY <1>0, <2>4, SMTT(30)
  <2>6. [run EXCEPT !.obs = Append(@, o), !.blind = @ \/ cluster # Range(Objects)] \in Runs
    BY <1>0, <2>5, RunEdits, ZenonT(30)
  <2>7. Return("lost") \in Runs
    BY Statements DEF Errors
  <2>8. run' \in Runs
    BY <2>2, <2>6, <2>7
  <2>9. conn' \in Conns
    BY <2>2 DEF Conns
  <2> QED  BY <1>6, <1>f, <2>8, <2>9, ZenonT(30) DEF Step
<1>7. CASE Reset
  <2>1. run' \in Runs
    BY <1>0, <1>7, RecordTypes, ZenonT(30) DEF Reset, EvidenceInv
  <2>2. conn' \in Conns
    BY <1>7 DEF Reset, ResetConn, Conns
  <2> QED  BY <1>7, <1>f, <2>1, <2>2, SMTT(30) DEF Reset
<1>8. CASE RunSessions
  <2>1. Return("connect") \in Runs
    BY Statements DEF Errors
  <2>2. ASSUME NEW results \in RaceAnswers
        PROVE  [Record(run, <<>>, results) EXCEPT !.blind = @ \/ cluster # Range(Objects)] \in Runs
    <3> DEFINE r == Record(run, <<>>, results)
    <3>1. r \in Runs
      BY <1>8, RecordTypes, ConstantTypes, ZenonT(30) DEF RunSessions
    <3> HIDE DEF r
    <3>2. (r.blind \/ cluster # Range(Objects)) \in BOOLEAN
      BY <3>1, SMTT(30) DEF Runs
    <3>3. [r EXCEPT !.blind = @ \/ cluster # Range(Objects)] \in Runs
      BY <3>1, <3>2, RunEdits, ZenonT(30)
    <3> QED  BY <3>3, SMTT(30) DEF r
  <2>3. run' \in Runs
    BY <1>8, <2>1, <2>2 DEF RunSessions
  <2> QED  BY <1>8, <1>f, <2>3 DEF RunSessions
<1> QED  BY <1>1, <1>2, <1>3, <1>4, <1>5, <1>6, <1>7, <1>8

\* Every step of the command around RunSuite keeps the types.
LEMMA CommandTypes ==
  ASSUME TypeOK, SaveInv,
         \/ \E suite \in Suites, mode \in {"record", "cleanup"} : Start(suite, mode)
         \/ Cleanup \/ CleanupDone \/ Save \/ SaveEnds \/ CleanupOnly \/ Leftovers
         \/ Interrupt \/ Crash \/ LoseRelation
  PROVE  TypeOK'
<1> USE TypeParts
<1>0. /\ run \in Runs /\ run.todo \in Seq(Range(Objects)) /\ run.golden \in Goldens
      /\ run.no \in Nat /\ run.skipped \in BOOLEAN /\ cluster \in SUBSET Range(Objects)
  BY DEF Runs
<1>f. ASSUME UNCHANGED <<dir, save>> PROVE FilesOK'
  BY <1>f DEF FilesOK
<1>c. [open |-> FALSE, txn |-> "none"] \in Conns /\ [open |-> TRUE, txn |-> "none"] \in Conns
  BY DEF Conns
<1>s. NoSave \in SaveStates
  <2>1. [at |-> 0, version |-> "", cases |-> <<>>] \in Goldens
    BY ConstantTypes DEF Goldens
  <2> DEFINE g == [at |-> 0, version |-> "", cases |-> <<>>]
  <2> HIDE DEF g
  <2>2. NoSave = [pc |-> "idle", golden |-> g, todo |-> <<>>, changed |-> {}] /\ g \in Goldens
    BY <2>1 DEF NoSave, g
  <2> QED  BY <2>2, ConstantTypes DEF SaveStates
<1>1. ASSUME NEW suite \in Suites, NEW mode \in {"record", "cleanup"}, Start(suite, mode)
      PROVE  TypeOK'
  <2> DEFINE pc == IF mode = "record" THEN "setup" ELSE "cleanupOnly"
             todo == IF mode = "record" THEN DroppedFirst ELSE Objects
             no == run.no + 1
  <2>1. PICK version \in Versions :
          run' = [NoRun EXCEPT !.pc = pc, !.no = no, !.suite = suite, !.todo = todo,
                    !.golden = [at |-> no, version |-> version, cases |-> <<>>]]
    BY <1>1, ZenonT(30) DEF Start
  <2> DEFINE golden == [at |-> no, version |-> version, cases |-> <<>>]
  <2>2. pc \in Stages /\ todo \in Seq(Range(Objects)) /\ no \in Nat
    BY <1>0, ConstantTypes DEF Stages
  <2> HIDE DEF pc, todo, no
  <2>3. golden \in Goldens
    BY <2>2, ConstantTypes DEF Goldens
  <2> HIDE DEF golden
  <2>4. run' \in Runs
    BY <2>1, <2>2, <2>3, NoRunType, RunEdits, ZenonT(30) DEF golden
  <2> QED  BY <1>1, <1>c, <1>f, <2>4, ZenonT(30) DEF Start
<1>2. CASE Cleanup
  <2> DEFINE o == Head(run.todo)
  <2>1. PICK met \in CleanupMeets :
          /\ Connection(met)
          /\ run' = CASE met = "ok" -> Done(run)
                      [] Retries(met) -> Again(run)
                      [] OTHER -> [Done(run) EXCEPT !.skipped = TRUE]
          /\ cluster' \in IF conn.txn # "none" THEN {cluster} ELSE Effect(met, cluster \ {o})
    BY <1>2 DEF Cleanup
  <2>2. run.todo # <<>> /\ Done(run) \in Runs
    BY <1>2, Statements, SMTT(30) DEF Cleanup
  <2>3. [Done(run) EXCEPT !.skipped = TRUE] \in Runs
    BY <2>2, RunEdits, ZenonT(30)
  <2>4. run' \in Runs
    BY <2>1, <2>2, <2>3, Statements
  <2>5. cluster' \in SUBSET Range(Objects)
    <3>1. cluster \ {o} \in SUBSET Range(Objects)
      BY <1>0
    <3> QED  BY <1>0, <2>1, <3>1, EffectTypes
  <2> QED  BY <1>2, <1>f, <2>1, <2>4, <2>5, ConnType DEF Cleanup, Conns
<1>3. CASE CleanupDone
  <2>1. CASE Saves(run)
    BY <1>0, <1>3, <1>c, <2>1, StartSaveTypes, RunEdits, ZenonT(30) DEF CleanupDone, Stages
  <2>2. CASE ~Saves(run)
    BY <1>3, <1>c, <1>f, <2>2, Statements DEF CleanupDone, Reports
  <2> QED  BY <2>1, <2>2, SMTT(30)
<1>4. CASE Save
  BY <1>4, SaveTypes DEF Save, SaveInv
<1>5. CASE SaveEnds
  <2>1. run' \in Runs
    BY <1>5, Statements DEF SaveEnds, Reports
  <2> QED  BY <1>5, <1>s, <2>1 DEF SaveEnds, FilesOK
<1>6. CASE CleanupOnly
  <2> DEFINE o == Head(run.todo)
  <2>1. PICK met \in Meets({"ok", "conflict", "error"}) :
          /\ Connection(met)
          /\ run' = [Done(run) EXCEPT !.skipped = @ \/ met # "ok"]
          /\ cluster' \in Effect(met, cluster \ {o})
    BY <1>6, ZenonT(30) DEF CleanupOnly
  <2>2. Done(run) \in Runs
    BY <1>6, Statements DEF CleanupOnly
  <2>3. run' \in Runs
    <3> DEFINE r == Done(run)
    <3> HIDE DEF r
    <3>1. r \in Runs /\ run' = [r EXCEPT !.skipped = @ \/ met # "ok"]
      BY <2>1, <2>2 DEF r
    <3>2. (r.skipped \/ met # "ok") \in BOOLEAN
      BY <3>1 DEF Runs
    <3> QED  BY <3>1, <3>2, RunEdits, ZenonT(30)
  <2>5. cluster' \in SUBSET Range(Objects)
    <3>1. cluster \ {o} \in SUBSET Range(Objects)
      BY <1>0
    <3> QED  BY <1>0, <2>1, <3>1, EffectTypes
  <2> QED  BY <1>6, <1>f, <2>1, <2>3, <2>5, ConnType DEF CleanupOnly, Conns
<1>7. CASE Leftovers
  <2>1. run' \in Runs
    BY <1>7, Statements DEF Leftovers, Reports
  <2> QED  BY <1>7, <1>c, <1>f, <2>1 DEF Leftovers
<1>8. CASE Interrupt
  BY <1>8, <1>f DEF Interrupt
<1>9. CASE Crash
  <2>1. run' \in Runs
    BY <1>9, Statements DEF Crash, Reports
  <2>2. FilesOK'
    BY <1>9, <1>s DEF Crash, FilesOK
  <2> QED  BY <1>9, <1>c, <2>1, <2>2 DEF Crash
<1>10. CASE LoseRelation
  BY <1>0, <1>10, <1>f DEF LoseRelation
<1> QED  BY <1>1, <1>2, <1>3, <1>4, <1>5, <1>6, <1>7, <1>8, <1>9, <1>10

\* Every step keeps the types.
LEMMA TypeStep ==
  ASSUME TypeOK, EvidenceInv, SaveInv, [Next]_vars
  PROVE  TypeOK'
<1>1. CASE Setup \/ SetupDone \/ Verify \/ VerifyDone \/ NextCases \/ Step \/ Reset \/ RunSessions
  BY <1>1, RunSuiteTypes
<1>2. CASE Cleanup \/ CleanupDone \/ Save \/ SaveEnds \/ CleanupOnly
           \/ Leftovers \/ Interrupt \/ Crash \/ LoseRelation
  BY <1>2, CommandTypes
<1>3. CASE \E suite \in Suites, mode \in {"record", "cleanup"} : Start(suite, mode)
  BY <1>3, CommandTypes
<1>4. CASE UNCHANGED vars
  BY <1>4 DEF vars, TypeOK
<1> QED  BY <1>1, <1>2, <1>3, <1>4 DEF Next, Steps

-----------------------------------------------------------------------------
(* The fixtures.                                                           *)

\* A save starts with everything still to write.
LEMMA StartSaveKeeps ==
  ASSUME FilesOK, NEW golden \in Goldens, StartSave(golden)
  PROVE  SaveInv'
<1> DEFINE order == groupOrder(golden)
           refused == golden.cases = <<>> \/ NoGroup \in Range(order)
           groups == {c.group : c \in Range(golden.cases)}
<1>1. order \in Seq(Groups \cup {NoGroup}) /\ Range(order) = groups
  BY GroupsOfRecord
<1>2. CASE refused
  <2>1. save'.pc = "failed"
    BY <1>2 DEF StartSave
  <2> QED  BY <2>1 DEF SaveInv
<1>3. CASE ~refused
  <2>1. save' = [pc |-> "write", golden |-> golden, todo |-> order, changed |-> {}]
    BY <1>3 DEF StartSave
  <2>2. Due' = groups
    BY <2>1 DEF Due
  <2>3. groups \subseteq Groups
    <3>1. Range(order) \subseteq Groups \cup {NoGroup}
      BY <1>1 DEF Range
    <3>2. NoGroup \notin Range(order)
      BY <1>3
    <3> HIDE DEF order, groups
    <3> QED  BY <1>1, <3>1, <3>2
  <2>4. groups # {}
    <3>1. golden.cases \in Seq(RecordedCases) /\ golden.cases # <<>>
      BY <1>3 DEF Goldens
    <3>2. golden.cases[1] \in Range(golden.cases)
      BY <3>1 DEF Range
    <3> QED  BY <3>2, ZenonT(30)
  <2> HIDE DEF order, groups
  <2>5. Range(save'.todo) = groups
    BY <1>1, <2>1
  <2> QED  BY <2>1, <2>2, <2>3, <2>4, <2>5 DEF SaveInv
<1> QED  BY <1>2, <1>3

\* A file that holds a part of the record is the same as that part.
LEMMA PartIsSame ==
  ASSUME NEW golden \in Goldens, NEW g
  PROVE  sameContent(partOf(golden, g), partOf(golden, g))
BY PartOfRecord, RecorderAssumption DEF sameContent

\* Every step of SaveDir keeps its invariant: a group leaves the list with
\* its file written, or found to be the same.
LEMMA SaveKeeps ==
  ASSUME FilesOK, SaveInv, SaveStep \/ SaveFails
  PROVE  SaveInv'
<1>1. /\ save \in SaveStates /\ save.golden \in Goldens /\ save.todo \in Seq(Groups)
      /\ dir \in [Groups -> Goldens \cup {Absent, Torn}]
      /\ Range(groupOrder(save.golden)) = Due
  BY GroupsOfRecord DEF FilesOK, SaveStates, Due
<1>2. ASSUME save.todo # <<>>
      PROVE  /\ Range(save.todo) = Range(Tail(save.todo)) \cup {Group}
             /\ Group \in Groups
  BY <1>1, <1>2, TailElements DEF Group
<1>3. CASE SaveUnchanged
  <2>1. /\ save.pc = "write" /\ save.todo # <<>> /\ dir' = dir
        /\ sameContent(dir[Group], partOf(save.golden, Group))
        /\ save' = GroupDone
    BY <1>3 DEF SaveUnchanged
  <2>2. /\ save'.pc = "write" /\ save'.todo = Tail(save.todo) /\ save'.golden = save.golden
    BY <1>1, <2>1 DEF GroupDone, SaveStates
  <2>3. Due' = Due
    BY <2>2 DEF Due
  <2> QED  BY <1>2, <2>1, <2>2, <2>3 DEF SaveInv
<1>4. CASE SaveTruncate
  <2>1. /\ save.pc = "write" /\ save.todo # <<>>
        /\ dir' = [dir EXCEPT ![Group] = Torn]
        /\ save' = [save EXCEPT !.pc = "writing"]
    BY <1>4 DEF SaveTruncate
  <2>2. save'.pc = "writing" /\ save'.todo = save.todo /\ save'.golden = save.golden
    BY <1>1, <2>1 DEF SaveStates
  <2>3. Due' = Due
    BY <2>2 DEF Due
  <2>4. \A g \in Due \ Range(save.todo) : g \in Groups /\ g # Group /\ dir'[g] = dir[g]
    BY <1>1, <1>2, <2>1 DEF SaveInv
  <2> QED  BY <1>2, <2>1, <2>2, <2>3, <2>4 DEF SaveInv
<1>5. CASE SaveWritten
  <2>1. /\ save.pc = "writing" /\ save.todo # <<>>
        /\ dir' = [dir EXCEPT ![Group] = partOf(save.golden, Group)]
        /\ save' = [GroupDone EXCEPT !.changed = Reported(Group)]
    BY <1>5 DEF SaveWritten, SaveInv
  <2>2. /\ save'.pc = "write" /\ save'.todo = Tail(save.todo) /\ save'.golden = save.golden
    BY <1>1, <2>1 DEF GroupDone, SaveStates
  <2>3. Due' = Due
    BY <2>2 DEF Due
  <2>4. ASSUME NEW g \in Due \ Range(Tail(save.todo))
        PROVE  sameContent(dir'[g], partOf(save.golden, g))
    <3>1. CASE g = Group
      <4>1. dir'[g] = partOf(save.golden, g)
        BY <1>1, <1>2, <2>1, <3>1
      <4> QED  BY <1>1, <4>1, PartIsSame
    <3>2. CASE g # Group
      <4>1. g \in Due \ Range(save.todo) /\ g \in Groups
        BY <1>2, <2>1, <3>2 DEF SaveInv
      <4>2. dir'[g] = dir[g]
        BY <1>1, <2>1, <3>2, <4>1
      <4> QED  BY <2>1, <4>1, <4>2 DEF SaveInv
    <3> QED  BY <3>1, <3>2
  <2> QED  BY <1>2, <2>1, <2>2, <2>3, <2>4 DEF SaveInv
<1>6. CASE PruneStale
  <2>1. PICK g \in Stale : /\ dir' = [dir EXCEPT ![g] = Absent]
                           /\ save' = [save EXCEPT !.changed = Reported(g)]
    BY <1>6, ZenonT(30) DEF PruneStale
  <2>2. save.pc = "write" /\ save.todo = <<>> /\ g \notin Due
    BY <1>1, <1>6, <2>1 DEF PruneStale, MayPrune, Stale
  <2>3. /\ save'.pc = "write" /\ save'.todo = save.todo /\ save'.golden = save.golden
    BY <1>1, <2>1, <2>2 DEF SaveStates
  <2>4. Due' = Due
    BY <2>3 DEF Due
  <2>5. \A h \in Due : h \in Groups /\ dir'[h] = dir[h]
    BY <1>1, <2>1, <2>2 DEF SaveInv
  <2> QED  BY <2>2, <2>3, <2>4, <2>5 DEF SaveInv
<1>7. CASE Saved
  <2>1. /\ save.pc = "write" /\ save.todo = <<>> /\ Stale = {} /\ dir' = dir
        /\ save' = [save EXCEPT !.pc = "done"]
    BY <1>7 DEF Saved
  <2>2. save'.pc = "done" /\ save'.todo = save.todo /\ save'.golden = save.golden
    BY <1>1, <2>1 DEF SaveStates
  <2>3. Due' = Due
    BY <2>2 DEF Due
  <2>4. \A g \in Groups \ Due : dir[g] = Absent
    BY <1>1, <2>1 DEF Stale
  <2> QED  BY <2>1, <2>2, <2>3, <2>4 DEF SaveInv
<1>8. CASE SaveFails
  <2>1. save'.pc = "failed"
    BY <1>1, <1>8 DEF SaveFails, SaveStates
  <2> QED  BY <2>1 DEF SaveInv
<1> QED  BY <1>3, <1>4, <1>5, <1>6, <1>7, <1>8 DEF SaveStep

\* Every step of the command keeps SaveInv.
LEMMA SaveInvStep ==
  ASSUME TypeOK, SaveInv, [Next]_vars
  PROVE  SaveInv'
<1>1. FilesOK /\ run.golden \in Goldens
  BY TypeParts, SMTT(30) DEF TypeOK, Runs
<1>2. ASSUME UNCHANGED <<dir, save>> PROVE SaveInv'
  BY <1>2, SMTT(30) DEF SaveInv, Due, sameContent
<1>3. ASSUME save' = NoSave PROVE SaveInv'
  <2>1. save'.pc = "idle"
    BY <1>3 DEF NoSave
  <2> QED  BY <2>1 DEF SaveInv
<1>4. CASE Save
  BY <1>1, <1>4, SaveKeeps DEF Save
<1>5. CASE SaveEnds \/ Crash
  BY <1>3, <1>5 DEF SaveEnds, Crash
<1>6. CASE CleanupDone
  BY <1>1, <1>2, <1>6, StartSaveKeeps DEF CleanupDone
<1>7. CASE \/ Setup \/ SetupDone \/ Verify \/ VerifyDone \/ NextCases \/ Step \/ Reset
           \/ RunSessions \/ Cleanup \/ CleanupOnly \/ Leftovers
  BY <1>2, <1>7, ZenonT(30) DEF Setup, SetupDone, Verify, VerifyDone, NextCases, Step, Reset,
       RunSessions, Cleanup, CleanupOnly, Leftovers
<1>8. CASE \/ Interrupt \/ LoseRelation \/ UNCHANGED vars
           \/ \E suite \in Suites, mode \in {"record", "cleanup"} : Start(suite, mode)
  BY <1>2, <1>8, ZenonT(30) DEF Interrupt, LoseRelation, vars, Start
<1> QED  BY <1>4, <1>5, <1>6, <1>7, <1>8, SMTT(30) DEF Next, Steps

\* The last fixture of a directory is never removed.
LEMMA LastIsKept ==
  ASSUME TypeOK, SaveInv, [Next]_vars, Holds(dir)
  PROVE  Holds(dir')
<1>0. Absent # Torn /\ Absent \notin Goldens
  BY RecorderAssumption, SMTT(30)
<1>1. /\ save.golden \in Goldens /\ dir \in [Groups -> Goldens \cup {Absent, Torn}]
      /\ save.todo \in Seq(Groups) /\ Range(groupOrder(save.golden)) = Due
  BY GroupsOfRecord, SMTT(30) DEF TypeOK, Due
<1>2. ASSUME save.todo # <<>> PROVE Group \in Groups
  BY <1>1, <1>2 DEF Group
<1>3. CASE Save /\ SaveTruncate
  BY <1>0, <1>1, <1>2, <1>3 DEF SaveTruncate, Holds
<1>4. CASE Save /\ SaveWritten
  <2>1. partOf(save.golden, Group) # Absent /\ save.todo # <<>>
    BY <1>0, <1>1, <1>4, PartOfRecord DEF SaveWritten, SaveInv
  <2> QED  BY <1>1, <1>2, <1>4, <2>1 DEF SaveWritten, Holds
<1>5. CASE Save /\ PruneStale
  <2>1. PICK g \in Stale : dir' = [dir EXCEPT ![g] = Absent]
    BY <1>5, ZenonT(30) DEF PruneStale
  <2>2. save.pc = "write" /\ save.todo = <<>> /\ g \notin Due
    BY <1>1, <1>5, <2>1 DEF PruneStale, MayPrune, Stale
  <2>3. PICK h \in Due : h \in Groups
    BY <2>2 DEF SaveInv
  <2>4. sameContent(dir[h], partOf(save.golden, h))
    BY <2>2, <2>3 DEF SaveInv, Range
  <2> QED  BY <1>1, <2>1, <2>2, <2>3, <2>4 DEF sameContent, Holds
<1>6. CASE dir' = dir
  BY <1>6
<1>7. CASE Save /\ (SaveUnchanged \/ Saved \/ SaveFails)
  BY <1>6, <1>7 DEF SaveUnchanged, Saved, SaveFails
<1>8. CASE CleanupDone
  BY <1>6, <1>8 DEF CleanupDone, StartSave
<1>9. CASE \/ Setup \/ SetupDone \/ Verify \/ VerifyDone \/ NextCases \/ Step \/ Reset
           \/ RunSessions \/ Cleanup \/ CleanupOnly \/ Leftovers \/ SaveEnds
  BY <1>6, <1>9, ZenonT(30) DEF Setup, SetupDone, Verify, VerifyDone, NextCases, Step, Reset,
       RunSessions, Cleanup, CleanupOnly, Leftovers, SaveEnds
<1>10. CASE \/ Interrupt \/ LoseRelation \/ Crash \/ UNCHANGED vars
            \/ \E suite \in Suites, mode \in {"record", "cleanup"} : Start(suite, mode)
  BY <1>6, <1>10, ZenonT(30) DEF Interrupt, LoseRelation, Crash, vars, Start
<1>11. Save => \/ SaveTruncate \/ SaveWritten \/ PruneStale \/ SaveUnchanged \/ Saved
               \/ SaveFails
  BY DEF Save, SaveStep
<1> QED  BY <1>3, <1>4, <1>5, <1>7, <1>8, <1>9, <1>10, <1>11 DEF Next, Steps

-----------------------------------------------------------------------------
(* The cleanup.                                                            *)

\* The empty sequence has no elements.
LEMMA EmptyRange ==
  Range(<<>>) = {}
BY DEF Range

\* A schema statement leaves a session without a transaction without one.
LEMMA NoTransaction ==
  ASSUME NEW met, Connection(met)
  PROVE  /\ conn.txn = "none" => conn'.txn = "none"
         /\ ~conn.open => ~conn'.open
BY ZenonT(30) DEF Connection

\* The fields of a run after a statement.
LEMMA StatementFields ==
  ASSUME TypeOK
  PROVE  /\ Done(run).pc = run.pc /\ Done(run).skipped = run.skipped
         /\ Done(run).todo = Tail(run.todo)
         /\ Again(run).pc = run.pc /\ Again(run).skipped = run.skipped
         /\ Again(run).todo = run.todo
         /\ \A err : /\ Return(err).pc = "cleanup" /\ Return(err).todo = Objects
                     /\ Return(err).err = err
         /\ \A report : /\ Exit(report).pc = "idle" /\ Exit(report).skipped = run.skipped
                        /\ Exit(report).report = report
BY DEF TypeOK, Runs, Done, Again, Return, Exit, NoRun

CleanupIInv == CleanupInv /\ NothingLeftBehind

\* RunSuite returns without a transaction, on a connection that is gone, or
\* interrupted.
LEMMA RunSuiteCleanup ==
  ASSUME TypeOK, TypeOK', CleanupIInv,
         Setup \/ SetupDone \/ Verify \/ VerifyDone \/ NextCases \/ Step \/ Reset \/ RunSessions
  PROVE  CleanupIInv'
<1>0. /\ run \in Runs /\ cluster' \subseteq Range(Objects) /\ ctx \in {"live", "cancelled"}
      /\ conn.open \in BOOLEAN
  BY DEF TypeOK
<1>1. ASSUME run'.pc \in {"setup", "create", "verify"}, conn'.txn = "none"
      PROVE  CleanupIInv'
  BY <1>1 DEF CleanupIInv, CleanupInv, NothingLeftBehind
<1>2. ASSUME run'.pc = "cleanup", run'.todo = Objects,
             conn'.txn = "none" \/ ~conn'.open \/ ctx' = "cancelled"
      PROVE  CleanupIInv'
  BY <1>0, <1>2 DEF CleanupIInv, CleanupInv, NothingLeftBehind
<1>3. ASSUME run'.pc = "step" \/ run'.pc \in {"case", "reverify"},
             run'.pc # "step" => conn'.txn = "none" \/ ~conn'.open \/ ctx' = "cancelled"
      PROVE  CleanupIInv'
  BY <1>3 DEF CleanupIInv, CleanupInv, NothingLeftBehind
<1>4. CASE Setup
  <2>1. PICK met : /\ Connection(met)
                   /\ run' = CASE met = "ok" -> Done(run)
                               [] Retries(met) -> Again(run)
                               [] OTHER -> Return(met)
    BY <1>4 DEF Setup
  <2>2. run' \in {Done(run), Again(run), Return(met)}
    BY <2>1
  <2>3. run.pc \in {"setup", "create"} /\ conn'.txn = "none"
    BY <1>4, <2>1, NoTransaction DEF Setup, CleanupIInv, CleanupInv
  <2> QED  BY <1>1, <1>2, <2>2, <2>3, StatementFields
<1>5. CASE SetupDone
  <2>1. run'.pc \in {"create", "verify"} /\ conn'.txn = "none"
    BY <1>0, <1>5 DEF SetupDone, CleanupIInv, CleanupInv, Runs
  <2> QED  BY <1>1, <2>1
<1>6. CASE Verify
  <2>1. PICK met : /\ Connection(met)
                   /\ run' = CASE met = "ok" -> Done(run)
                               [] Retries(met) -> Again(run)
                               [] OTHER -> Return(met)
    BY <1>6 DEF Verify
  <2>2. run' \in {Done(run), Again(run), Return(met)} /\ ctx' = ctx
    BY <1>6, <2>1 DEF Verify
  <2>3. run.pc = "verify" => conn'.txn = "none"
    BY <2>1, NoTransaction DEF CleanupIInv, CleanupInv
  <2>4. run.pc = "reverify" => conn'.txn = "none" \/ ~conn'.open \/ ctx' = "cancelled"
    BY <2>1, <2>2, NoTransaction DEF CleanupIInv, CleanupInv
  <2>5. run.pc \in {"verify", "reverify"}
    BY <1>6 DEF Verify
  <2>6. CASE run' = Return(met)
    BY <1>2, <2>3, <2>4, <2>5, <2>6, StatementFields
  <2>7. CASE run' \in {Done(run), Again(run)}
    <3>1. run'.pc = run.pc
      BY <2>7, StatementFields
    <3> QED  BY <1>1, <1>3, <2>3, <2>4, <2>5, <3>1
  <2> QED  BY <2>2, <2>6, <2>7
<1>7. CASE VerifyDone
  <2>1. conn'.txn = "none" \/ ~conn'.open \/ ctx' = "cancelled"
    BY <1>7 DEF VerifyDone, CleanupIInv, CleanupInv
  <2>2. run'.pc = "case" \/ run' = Return("")
    BY <1>0, <1>7 DEF VerifyDone, Runs
  <2>3. CASE run'.pc = "case"
    BY <1>3, <2>1, <2>3
  <2>4. CASE run' = Return("")
    BY <1>2, <2>1, <2>4, StatementFields
  <2> QED  BY <2>2, <2>3, <2>4
<1>8. CASE NextCases
  <2>1. conn'.txn = "none" \/ ~conn'.open \/ ctx' = "cancelled"
    BY <1>8 DEF NextCases, CleanupIInv, CleanupInv
  <2>2. run'.pc \in {"reverify", "step"}
    BY <1>0, <1>8, ZenonT(30) DEF NextCases, AfterCases, Runs
  <2> QED  BY <1>3, <2>1, <2>2
<1>9. CASE Step
  <2>1. PICK o : run' = IF LostTarget(o, conn'.open) THEN Return("lost")
                        ELSE [run EXCEPT !.obs = Append(@, o),
                                         !.blind = @ \/ cluster # Range(Objects)]
    BY <1>9, ZenonT(30) DEF Step
  <2>2. CASE LostTarget(o, conn'.open)
    BY <1>2, <2>1, <2>2, StatementFields DEF LostTarget
  <2>3. CASE ~LostTarget(o, conn'.open)
    <3>1. run'.pc = "step"
      BY <1>0, <1>9, <2>1, <2>3, ZenonT(30) DEF Step, Runs
    <3> QED  BY <1>3, <3>1, SMTT(30)
  <2> QED  BY <2>2, <2>3
<1>10. CASE Reset
  <2>1. PICK met \in Meets({"ok"}) : conn' = ResetConn(met)
    BY <1>10 DEF Reset
  <2>2. conn'.txn = "none" \/ ~conn'.open \/ ctx' = "cancelled"
    <3>1. ctx' = ctx
      BY <1>10 DEF Reset
    <3>2. met \in {"ok", "lost", "closed", "cancelled"} /\ (met = "closed" => ~conn.open)
          /\ (met = "cancelled" => ctx = "cancelled")
      BY <1>0, <2>1 DEF Meets
    <3> QED  BY <2>1, <3>1, <3>2, ZenonT(30) DEF ResetConn
  <2>3. run'.pc = "case"
    BY <1>0, <1>10 DEF Reset, Record, Runs
  <2> QED  BY <1>3, <2>2, <2>3
<1>11. CASE RunSessions
  <2>1. conn'.txn = "none" \/ ~conn'.open \/ ctx' = "cancelled"
    BY <1>11 DEF RunSessions, CleanupIInv, CleanupInv
  <2>2. run' = Return("connect") \/ run'.pc = "case"
    BY <1>0, <1>11, ZenonT(30) DEF RunSessions, Record, Runs
  <2>3. CASE run'.pc = "case"
    BY <1>3, <2>1, <2>3
  <2>4. CASE run' = Return("connect")
    BY <1>2, <2>1, <2>4, StatementFields, SMTT(30)
  <2> QED  BY <2>2, <2>3, <2>4
<1> QED  BY <1>4, <1>5, <1>6, <1>7, <1>8, <1>9, <1>10, <1>11

\* The cleanup drops what it does not report as skipped.
LEMMA CleanupDrops ==
  ASSUME TypeOK, TypeOK', CleanupIInv, Cleanup
  PROVE  CleanupIInv'
<1>0. /\ run \in Runs /\ run.todo \in Seq(Range(Objects)) /\ conn.open \in BOOLEAN
  BY DEF TypeOK, Runs
<1>1. PICK met \in CleanupMeets :
          /\ Connection(met)
          /\ run' = CASE met = "ok" -> Done(run)
                      [] Retries(met) -> Again(run)
                      [] OTHER -> [Done(run) EXCEPT !.skipped = TRUE]
          /\ cluster' \in IF conn.txn # "none" THEN {cluster}
                          ELSE Effect(met, cluster \ {Head(run.todo)})
  BY DEF Cleanup
<1>2. run.pc = "cleanup" /\ run.todo # <<>> /\ ctx' = ctx
  BY DEF Cleanup
<1> DEFINE r == [Done(run) EXCEPT !.skipped = TRUE]
<1>3. r.pc = "cleanup" /\ r.skipped = TRUE
  <2>1. Done(run) \in Runs
    BY <1>2, Statements
  <2> QED  BY <1>2, <2>1, StatementFields DEF Runs
<1>4. run' \in {Done(run), Again(run), r} /\ run'.pc = "cleanup"
  BY <1>1, <1>2, <1>3, StatementFields
<1>5. conn'.txn = "none" \/ ~conn'.open \/ ctx' = "cancelled"
  BY <1>1, <1>2, NoTransaction DEF CleanupIInv, CleanupInv
<1>6. ASSUME ctx = "live", ~run'.skipped PROVE cluster' \subseteq Range(run'.todo)
  <2>1. run' # r
    BY <1>3, <1>6, ZenonT(30)
  <2>2. met = "ok" \/ Retries(met)
    BY <1>1, <2>1
  <2>3. ~run.skipped
    BY <1>4, <1>6, <2>1, StatementFields
  <2>4. conn.open
    BY <1>1, <2>2 DEF CleanupMeets, Retries
  <2>5. conn.txn = "none" /\ cluster \subseteq Range(run.todo)
    BY <1>2, <1>6, <2>3, <2>4 DEF CleanupIInv, CleanupInv
  <2>6. Range(run.todo) = Range(Tail(run.todo)) \cup {Head(run.todo)}
    BY <1>0, <1>2, TailElements, SMTT(30)
  <2>7. CASE met = "ok"
    <3>0. ~Retries(met) /\ Effect(met, cluster \ {Head(run.todo)}) = {cluster \ {Head(run.todo)}}
      BY <2>7 DEF Effect, Retries
    <3>1. run' = Done(run) /\ cluster' = cluster \ {Head(run.todo)}
      BY <1>1, <2>5, <2>7, <3>0, ZenonT(30)
    <3> QED  BY <2>5, <2>6, <3>1, StatementFields
  <2>8. CASE Retries(met)
    <3>1. met = "conflict"
      BY <2>8 DEF Retries
    <3>2. run' = Again(run) /\ cluster' = cluster
      BY <1>1, <2>5, <2>8, <3>1 DEF Effect
    <3> QED  BY <2>5, <3>2, StatementFields
  <2> QED  BY <2>2, <2>7, <2>8
<1> HIDE DEF r
<1> QED  BY <1>2, <1>4, <1>5, <1>6, SMTT(30) DEF CleanupIInv, CleanupInv, NothingLeftBehind

\* Every step keeps the cleanup's invariant.
LEMMA CleanupStep ==
  ASSUME TypeOK, TypeOK', CleanupIInv, [Next]_vars
  PROVE  CleanupIInv'
<1>0. run \in Runs /\ save \in SaveStates
  BY TypeParts DEF FilesOK
<1>1. CASE Setup \/ SetupDone \/ Verify \/ VerifyDone \/ NextCases \/ Step \/ Reset \/ RunSessions
  BY <1>1, RunSuiteCleanup
<1>2. CASE Cleanup
  BY <1>2, CleanupDrops
<1> USE DEF CleanupIInv, CleanupInv, NothingLeftBehind
<1>3. CASE CleanupDone
  <2>1. /\ run.pc = "cleanup" /\ run.todo = <<>> /\ cluster' = cluster /\ ctx' = ctx
        /\ run' = [run EXCEPT !.pc = "save"] \/ run' = Exit("nothing written")
    BY <1>3 DEF CleanupDone
  <2>2. Range(run.todo) = {}
    BY <2>1, EmptyRange
  <2>3. ctx = "live" /\ ~run.skipped => cluster = {}
    BY <2>1, <2>2
  <2>4. run'.skipped = run.skipped /\ run'.pc \in {"save", "idle"}
    <3>1. CASE run' = [run EXCEPT !.pc = "save"]
      BY <1>0, <3>1 DEF Runs
    <3>2. CASE run' = Exit("nothing written")
      BY <3>2, StatementFields
    <3> QED  BY <2>1, <3>1, <3>2
  <2> QED  BY <2>1, <2>3, <2>4
<1>4. CASE Save
  BY <1>4 DEF Save
<1>5. CASE SaveEnds
  <2>1. /\ run.pc = "save" /\ cluster' = cluster /\ ctx' = ctx /\ run' = Exit(save.pc)
    BY <1>5 DEF SaveEnds
  <2> QED  BY <2>1, StatementFields
<1>6. CASE CleanupOnly
  <2>1. run'.pc = "cleanupOnly"
    <3>1. PICK met : run' = [Done(run) EXCEPT !.skipped = @ \/ met # "ok"]
      BY <1>6, ZenonT(30) DEF CleanupOnly
    <3>2. Done(run) \in Runs /\ Done(run).pc = "cleanupOnly"
      BY <1>6, Statements, StatementFields DEF CleanupOnly
    <3> QED  BY <3>1, <3>2 DEF Runs
  <2> QED  BY <2>1
<1>7. CASE Leftovers
  <2>1. run'.pc = "idle" /\ run'.report \in {"leftovers", "clean"}
    BY <1>7, StatementFields DEF Leftovers
  <2> QED  BY <2>1
<1>8. CASE \E suite \in Suites, mode \in {"record", "cleanup"} : Start(suite, mode)
  <2>1. run'.pc \in {"setup", "cleanupOnly"} /\ conn'.txn = "none"
    <3>1. PICK suite \in Suites, mode \in {"record", "cleanup"}, version \in Versions :
            /\ run' = [NoRun EXCEPT
                 !.pc = IF mode = "record" THEN "setup" ELSE "cleanupOnly",
                 !.no = run.no + 1, !.suite = suite,
                 !.todo = IF mode = "record" THEN DroppedFirst ELSE Objects,
                 !.golden = [at |-> run.no + 1, version |-> version, cases |-> <<>>]]
            /\ conn' = [open |-> TRUE, txn |-> "none"]
      BY <1>8, ZenonT(30) DEF Start
    <3>2. run'.pc \in {"setup", "cleanupOnly"}
      BY <3>1, NoRunType DEF Runs
    <3> QED  BY <3>1, <3>2
  <2> QED  BY <2>1
<1>9. CASE Interrupt
  BY <1>9 DEF Interrupt
<1>10. CASE Crash
  <2>1. run'.pc = "idle" /\ run'.report = "crashed"
    BY <1>10, StatementFields DEF Crash
  <2> QED  BY <2>1
<1>11. CASE LoseRelation
  BY <1>11 DEF LoseRelation
<1>12. CASE UNCHANGED vars
  BY <1>12 DEF vars
<1> QED  BY <1>1, <1>2, <1>3, <1>4, <1>5, <1>6, <1>7, <1>8, <1>9, <1>10, <1>11, <1>12, ZenonT(30)
         DEF Next, Steps

-----------------------------------------------------------------------------
(* The record.                                                             *)

\* What statements and returns leave of the record made so far.
Kin(r, s) ==
  r.suite = s.suite /\ r.golden = s.golden /\ r.obs = s.obs /\ r.blind = s.blind

\* A statement that succeeded, is retried or gave up leaves the record alone.
LEMMA KeptFields ==
  ASSUME TypeOK
  PROVE  /\ Kin(Done(run), run) /\ Done(run).err = run.err
         /\ Kin(Again(run), run) /\ Again(run).err = run.err
         /\ \A err : Kin(Return(err), run)
         /\ \A pc : Kin([run EXCEPT !.pc = pc], run) /\ [run EXCEPT !.pc = pc].err = run.err
         /\ \A pc, todo : Kin([run EXCEPT !.pc = pc, !.todo = todo], run)
         /\ \A report : /\ Exit(report).suite = <<>> /\ Exit(report).golden = NoRun.golden
<1>1. run \in Runs
  BY DEF TypeOK
<1>2. Kin(Done(run), run) /\ Done(run).err = run.err
  BY <1>1 DEF Kin, Done, Runs
<1>3. Kin(Again(run), run) /\ Again(run).err = run.err
  BY <1>1 DEF Kin, Again, Runs
<1>4. ASSUME NEW err PROVE Kin(Return(err), run)
  BY <1>1 DEF Kin, Return, Runs
<1>5. ASSUME NEW pc PROVE Kin([run EXCEPT !.pc = pc], run) /\ [run EXCEPT !.pc = pc].err = run.err
  BY <1>1 DEF Kin, Runs
<1>6. ASSUME NEW pc, NEW todo PROVE Kin([run EXCEPT !.pc = pc, !.todo = todo], run)
  BY <1>1 DEF Kin, Runs
<1>7. ASSUME NEW report PROVE Exit(report).suite = <<>> /\ Exit(report).golden = NoRun.golden
  BY DEF Exit, NoRun
<1> QED  BY <1>2, <1>3, <1>4, <1>5, <1>6, <1>7, ZenonT(30)

\* The part of the invariant that is about the record alone.
LEMMA KinEvidence ==
  ASSUME EvidenceInv, Kin(run', run)
  PROVE  /\ Follows(run.golden, run.suite)'
         /\ AllEvidence' <=> AllEvidence
         /\ CaseNo' = CaseNo /\ NextCase' = NextCase
<1>1. run'.suite = run.suite /\ run'.golden = run.golden /\ run'.obs = run.obs
  BY SMTT(30) DEF Kin
<1>2. Follows(run.golden, run.suite)'
  BY <1>1 DEF EvidenceInv, Follows
<1>3. AllEvidence' <=> AllEvidence
  BY <1>1 DEF AllEvidence, Evidence
<1>4. CaseNo' = CaseNo /\ NextCase' = NextCase
  BY <1>1, SMTT(30) DEF CaseNo, NextCase
<1> QED  BY <1>2, <1>3, <1>4

\* A run that has just ended or begun has no record.
LEMMA EmptyEvidence ==
  ASSUME run'.golden.cases = <<>>, run'.suite \in Seq(Cases), save' = NoSave,
         \/ run'.pc = "idle" \/ run'.pc = "cleanupOnly"
         \/ run'.pc = "setup" /\ run'.blind = FALSE /\ run'.obs = <<>>
  PROVE  EvidenceInv'
<1>1. Follows(run.golden, run.suite)'
  BY SMTT(30) DEF Follows
<1> QED  BY <1>1 DEF EvidenceInv

\* An error is what RunSuite returns with.
LEMMA ReturnedEvidence ==
  ASSUME TypeOK, EvidenceInv, run.pc # "save", save' = save,
         NEW err, err # "", run' = Return(err)
  PROVE  EvidenceInv'
<1>1. run'.pc = "cleanup" /\ run'.err = err /\ Kin(run', run)
  BY StatementFields, KeptFields, ZenonT(30)
<1>2. Follows(run.golden, run.suite)'
  BY <1>1, KinEvidence
<1>3. save' = NoSave
  BY DEF EvidenceInv
<1> QED  BY <1>1, <1>2, <1>3 DEF EvidenceInv

\* Creating the schema records nothing, and the last look at it finds a
\* relation that is missing.
LEMMA SchemaEvidence ==
  ASSUME TypeOK, EvidenceInv, Setup \/ SetupDone \/ Verify \/ VerifyDone
  PROVE  EvidenceInv'
<1>0. run \in Runs /\ run.todo \in Seq(Range(Objects)) /\ run.golden \in Goldens
  BY ZenonT(30) DEF TypeOK, Runs
<1>a. save' = save /\ run.pc # "save" /\ save' = NoSave /\ ctx' = ctx
  BY DEF Setup, SetupDone, Verify, VerifyDone, EvidenceInv
<1>b. ASSUME run'.pc \in {"setup", "create", "verify"}, Kin(run', run),
             run.pc \in {"setup", "create", "verify"}
      PROVE  EvidenceInv'
  <2>1. Follows(run.golden, run.suite)'
    BY <1>b, KinEvidence
  <2> QED  BY <1>a, <1>b, <2>1, ZenonT(30) DEF EvidenceInv, Kin
<1>1. CASE Setup
  <2> DEFINE answers == IF run.pc = "create" /\ Head(run.todo) \in cluster THEN {"exists"}
                        ELSE {"ok", "conflict", "error"}
  <2>1. PICK met \in Meets(answers) :
          run' = CASE met = "ok" -> Done(run)
                   [] Retries(met) -> Again(run)
                   [] OTHER -> Return(met)
    BY <1>1 DEF Setup
  <2>2. answers \in SUBSET {"ok", "conflict", "error", "exists"}
    OBVIOUS
  <2> HIDE DEF answers
  <2>3. met # ""
    BY <2>1, <2>2, MetTypes
  <2>4. run' \in {Done(run), Again(run), Return(met)} /\ run.pc \in {"setup", "create"}
    BY <1>1, <2>1 DEF Setup
  <2>5. CASE run' = Return(met)
    BY <1>a, <2>3, <2>5, ReturnedEvidence
  <2>6. CASE run' \in {Done(run), Again(run)}
    <3>1. run'.pc = run.pc /\ Kin(run', run)
      BY <2>6, StatementFields, KeptFields, ZenonT(30)
    <3> QED  BY <1>b, <2>4, <3>1, SMTT(30)
  <2> QED  BY <2>4, <2>5, <2>6
<1>2. CASE SetupDone
  <2> DEFINE pc == IF run.pc = "setup" THEN "create" ELSE "verify"
  <2>1. run' = [run EXCEPT !.pc = pc, !.todo = Objects] /\ run.pc \in {"setup", "create"}
    BY <1>2 DEF SetupDone
  <2>2. pc \in {"create", "verify"}
    OBVIOUS
  <2> HIDE DEF pc
  <2>3. run'.pc = pc
    BY <1>0, <2>1, SMTT(30) DEF Runs
  <2>4. Kin(run', run)
    BY <2>1, KeptFields, ZenonT(30)
  <2> QED  BY <1>b, <2>1, <2>2, <2>3, <2>4
<1>3. CASE Verify
  <2> DEFINE answers == IF Head(run.todo) \in cluster THEN {"ok", "conflict"} ELSE {"error"}
  <2>1. PICK met \in Meets(answers) :
          run' = CASE met = "ok" -> Done(run)
                   [] Retries(met) -> Again(run)
                   [] OTHER -> Return(met)
    BY <1>3 DEF Verify
  <2>2. answers \in SUBSET {"ok", "conflict", "error", "exists"}
    OBVIOUS
  <2>3. met = "ok" => Head(run.todo) \in cluster /\ ctx # "cancelled"
    BY <2>1 DEF Meets
  <2> HIDE DEF answers
  <2>4. met # "" /\ run.pc \in {"verify", "reverify"} /\ run.todo # <<>> /\ cluster' = cluster
    BY <1>3, <2>1, <2>2, MetTypes DEF Verify
  <2>5. \/ met = "ok" /\ run' = Done(run)
        \/ run' = Again(run)
        \/ run' = Return(met)
    BY <2>1
  <2>6. CASE run' = Return(met)
    BY <1>a, <2>4, <2>6, ReturnedEvidence
  <2>7. CASE run' = Again(run) \/ (met = "ok" /\ run' = Done(run))
    <3>1. run'.pc = run.pc /\ Kin(run', run)
      BY <2>7, StatementFields, KeptFields, ZenonT(30)
    <3>2. CASE run.pc = "verify"
      BY <1>b, <3>1, <3>2, SMTT(30)
    <3>3. CASE run.pc = "reverify"
      <4>1. Range(run.todo) = Range(Tail(run.todo)) \cup {Head(run.todo)}
        BY <1>0, <2>4, TailElements
      <4>2. run.blind => \E o \in Range(run'.todo) : o \notin cluster
        BY <2>3, <2>7, <3>3, <4>1, StatementFields, SMTT(30) DEF EvidenceInv
      <4>3. ~AllEvidence => ctx = "cancelled" /\ run'.todo # <<>>
        BY <2>3, <2>7, <3>3, StatementFields, SMTT(30) DEF EvidenceInv
      <4>4. /\ Follows(run.golden, run.suite)' /\ (AllEvidence' <=> AllEvidence)
            /\ run'.blind = run.blind /\ run'.golden = run.golden /\ run'.suite = run.suite
        BY <3>1, KinEvidence DEF Kin
      <4>5. Len(run.golden.cases) = Len(run.suite)
        BY <3>3 DEF EvidenceInv
      <4> QED  BY <1>a, <2>4, <3>1, <3>3, <4>2, <4>3, <4>4, <4>5, ZenonT(30) DEF EvidenceInv
    <3> QED  BY <2>4, <3>2, <3>3
  <2> QED  BY <2>5, <2>6, <2>7
<1>4. CASE VerifyDone
  <2>1. run.pc \in {"verify", "reverify"} /\ run.todo = <<>>
    BY <1>4 DEF VerifyDone
  <2>2. CASE run.pc = "verify"
    <3>1. run' = [run EXCEPT !.pc = "case"]
      BY <1>4, <2>2, SMTT(30) DEF VerifyDone
    <3>2. run'.pc = "case" /\ Kin(run', run)
      BY <1>0, <3>1, KeptFields, ZenonT(30) DEF Runs
    <3>3. ~run'.blind /\ run.golden.cases = <<>> /\ run.obs = <<>>
      BY <2>2, <3>2 DEF EvidenceInv, Kin
    <3>4. AllEvidence
      BY <3>3 DEF AllEvidence, Evidence
    <3>5. Follows(run.golden, run.suite)' /\ AllEvidence'
      BY <3>2, <3>4, KinEvidence, SMTT(30)
    <3> QED  BY <1>a, <3>2, <3>3, <3>5, ZenonT(30) DEF EvidenceInv
  <2>3. CASE run.pc = "reverify"
    <3>1. run' = Return("")
      BY <1>4, <2>3 DEF VerifyDone
    <3>2. run'.pc = "cleanup" /\ Kin(run', run)
      BY <3>1, StatementFields, KeptFields, ZenonT(30)
    <3>3. ~run.blind /\ AllEvidence /\ Len(run.golden.cases) = Len(run.suite)
      BY <2>1, <2>3, EmptyRange DEF EvidenceInv
    <3>4. Follows(run.golden, run.suite)' /\ AllEvidence'
      BY <3>2, <3>3, KinEvidence
    <3> QED  BY <1>a, <3>2, <3>3, <3>4 DEF EvidenceInv, Kin
  <2> QED  BY <2>1, <2>2, <2>3
<1> QED  BY <1>1, <1>2, <1>3, <1>4, SMTT(30)

\* A step of a case adds its answer, or ends the record of the case.
LEMMA StepEvidence ==
  ASSUME TypeOK, EvidenceInv, Step
  PROVE  EvidenceInv'
<1>0. /\ run \in Runs /\ run.obs \in Seq(Observations) /\ run.golden \in Goldens
      /\ run.blind \in BOOLEAN
  BY ZenonT(30) DEF TypeOK, Runs
<1>1. /\ run.pc = "step" /\ Len(run.obs) < NextCase.steps /\ save' = save /\ save = NoSave
      /\ ctx' = ctx /\ cluster' = cluster
  BY SMTT(30) DEF Step, EvidenceInv
<1>2. PICK met, o, txn :
        /\ met \in Meets({"answer", "undecoded"})
        /\ o \in IF met = "answer" THEN StepAnswers ELSE {NoAnswer(met)}
        /\ conn' = [open |-> conn.open /\ met # "lost", txn |-> txn]
        /\ run' = IF LostTarget(o, conn'.open) THEN Return("lost")
                  ELSE [run EXCEPT !.obs = Append(@, o),
                                   !.blind = @ \/ cluster # Range(Objects)]
  <2>1. PICK met \in Meets({"answer", "undecoded"}) :
          \E o \in IF met = "answer" THEN StepAnswers ELSE {NoAnswer(met)},
             txn \in {"none", "open", "failed"} :
            /\ conn' = [open |-> conn.open /\ met # "lost", txn |-> txn]
            /\ run' = IF LostTarget(o, conn'.open) THEN Return("lost")
                      ELSE [run EXCEPT !.obs = Append(@, o),
                                       !.blind = @ \/ cluster # Range(Objects)]
    BY ZenonT(30) DEF Step
  <2> QED  BY <2>1, ZenonT(30)
<1>3. /\ conn'.open = (conn.open /\ met # "lost")
      /\ o \in IF met = "answer" THEN StepAnswers ELSE {NoAnswer(met)}
      /\ run' = IF LostTarget(o, conn'.open) THEN Return("lost")
                ELSE [run EXCEPT !.obs = Append(@, o),
                                 !.blind = @ \/ cluster # Range(Objects)]
  BY <1>2
<1>4. CASE LostTarget(o, conn'.open)
  BY <1>1, <1>3, <1>4, ReturnedEvidence
<1>5. CASE ~LostTarget(o, conn'.open)
  <2> DEFINE obs == Append(run.obs, o)
             blind == run.blind \/ cluster # Range(Objects)
  <2>1. run' = [run EXCEPT !.obs = obs, !.blind = blind]
    BY <1>3, <1>5
  <2> HIDE DEF obs, blind
  <2>2. /\ run'.pc = "step" /\ run'.obs = obs /\ run'.golden = run.golden
        /\ run'.suite = run.suite /\ run'.blind = blind
    BY <1>0, <1>1, <2>1 DEF Runs
  <2>3. /\ met \in {"answer", "undecoded", "closed", "cancelled", "lost"}
        /\ met = "closed" => ~conn.open
        /\ met = "cancelled" => ctx = "cancelled"
    BY <1>2 DEF Meets
  <2>4. Answered(o) \/ o = NoAnswer("undecoded") \/ ctx = "cancelled"
    <3>1. CASE met = "answer"
      BY <1>3, <3>1, RecorderAssumption
    <3>2. CASE met = "undecoded"
      BY <1>3, <3>2
    <3>3. CASE met \in {"closed", "lost"}
      BY <1>3, <1>5, <2>3, <3>3, ZenonT(30) DEF LostTarget
    <3> QED  BY <2>3, <3>1, <3>2, <3>3
  <2>5. obs \in Seq(Observations) /\ Len(obs) = Len(run.obs) + 1
        /\ \A j \in DOMAIN obs : obs[j] = o \/ (j \in DOMAIN run.obs /\ obs[j] = run.obs[j])
    <3>1. o \in Observations
      BY <1>3, <2>3 DEF Observations
    <3> QED  BY <1>0, <3>1 DEF obs
  <2>6. ASSUME ~AllEvidence' PROVE ctx = "cancelled"
    <3>1. CASE ~AllEvidence
      BY <1>1, <3>1 DEF EvidenceInv
    <3>2. CASE AllEvidence /\ (Answered(o) \/ o = NoAnswer("undecoded"))
      <4>1. Evidence(obs)
        BY <2>5, <3>2, SMTT(30) DEF AllEvidence, Evidence
      <4> QED  BY <2>2, <2>6, <3>2, <4>1 DEF AllEvidence
    <3> QED  BY <2>4, <3>1, <3>2
  <2>7. CaseNo' = CaseNo /\ NextCase' = NextCase /\ Follows(run.golden, run.suite)'
    BY <2>2 DEF CaseNo, NextCase, EvidenceInv, Follows
  <2>8. Len(obs) <= NextCase.steps
    <3>1. NextCase \in Cases
      BY <1>1, NextCaseType DEF EvidenceInv
    <3>2. NextCase.steps \in Nat /\ Len(run.obs) \in Nat
      BY <1>0, <3>1 DEF Cases
    <3> QED  BY <1>1, <2>5, <3>2
  <2>9. CaseNo <= Len(run.suite) /\ ~NextCase.sessions
    BY <1>1 DEF EvidenceInv
  <2>10. blind => cluster # Range(Objects)
    BY <1>1 DEF blind, EvidenceInv
  <2> QED  BY <1>1, <2>2, <2>6, <2>7, <2>8, <2>9, <2>10, ZenonT(30) DEF EvidenceInv
<1> QED  BY <1>4, <1>5, SMTT(30)

\* A case that is added to the record.
LEMMA RecordEvidence ==
  ASSUME TypeOK, EvidenceInv, CaseNo <= Len(run.suite), NEW obs \in Seq(Observations),
         NEW results \in RaceAnswers \cup {<<>>},
         ~NextCase.sessions => Len(obs) = NextCase.steps,
         run'.golden = Record(run, obs, results).golden, run'.suite = run.suite,
         run'.obs = <<>>,
         AllEvidence => Evidence(obs)
  PROVE  /\ Follows(run.golden, run.suite)'
         /\ AllEvidence => AllEvidence'
<1> DEFINE rc == Recorded(NextCase, obs, results)
           cases == run.golden.cases
<1>1. rc \in RecordedCases /\ rc.name = NextCase.name /\ rc.obs = obs
  BY RecordTypes, ZenonT(30) DEF Recorded
<1>2. run \in Runs /\ run.golden \in Goldens /\ cases \in Seq(RecordedCases)
  BY ZenonT(30) DEF TypeOK, Runs, Goldens
<1>3. run'.golden.cases = Append(cases, rc)
  <2> DEFINE g == [run.golden EXCEPT !.cases = Append(cases, rc)]
  <2>1. Record(run, obs, results) = [run EXCEPT !.pc = "case", !.obs = <<>>, !.golden = g]
    BY RecordTypes, ZenonT(30)
  <2>2. g.cases = Append(cases, rc)
    BY <1>2 DEF Goldens
  <2> HIDE DEF g
  <2>3. Record(run, obs, results).golden = g
    BY <1>2, <2>1, SMTT(30) DEF Runs
  <2> QED  BY <2>2, <2>3, SMTT(30)
<1>4. CaseNo = Len(cases) + 1 /\ NextCase = run.suite[CaseNo]
  BY SMTT(30) DEF CaseNo, NextCase
<1> HIDE DEF rc, cases
<1>5. /\ Len(Append(cases, rc)) = CaseNo
      /\ \A i \in DOMAIN Append(cases, rc) :
           \/ i \in DOMAIN cases /\ Append(cases, rc)[i] = cases[i]
           \/ i = CaseNo /\ Append(cases, rc)[i] = rc
  BY <1>1, <1>2, <1>4, SMTT(30)
<1>6. Follows(run.golden, run.suite)
  BY DEF EvidenceInv
<1>7. Follows(run.golden, run.suite)'
  BY <1>1, <1>3, <1>4, <1>5, <1>6, SMTT(30) DEF Follows, cases
<1>8. ASSUME AllEvidence PROVE AllEvidence'
  <2>1. Evidence(obs) /\ \A i \in DOMAIN cases : Evidence(cases[i].obs)
    BY <1>8 DEF AllEvidence, cases
  <2>2. \A i \in DOMAIN Append(cases, rc) : Evidence(Append(cases, rc)[i].obs)
    BY <1>1, <1>5, <2>1
  <2>3. Evidence(<<>>)
    BY SMTT(30) DEF Evidence
  <2> QED  BY <1>3, <2>2, <2>3 DEF AllEvidence
<1> QED  BY <1>7, <1>8, SMTT(30)

\* A case is begun, reset or raced where the record left off.
LEMMA CasesEvidence ==
  ASSUME TypeOK, EvidenceInv, NextCases \/ Reset \/ RunSessions
  PROVE  EvidenceInv'
<1>0. /\ run \in Runs /\ run.obs \in Seq(Observations) /\ run.golden \in Goldens
      /\ run.golden.cases \in Seq(RecordedCases) /\ run.suite \in Seq(Cases)
  <2>1. <<>> \in Seq(Cases)
    OBVIOUS
  <2> QED  BY <2>1, RecorderAssumption, ZenonT(30) DEF TypeOK, Runs, Goldens
<1>a. save' = save /\ save = NoSave /\ ctx' = ctx /\ cluster' = cluster
      /\ run.pc \in {"case", "step"}
  BY DEF NextCases, Reset, RunSessions, EvidenceInv
<1>b. CaseNo \in Nat /\ Len(run.suite) \in Nat /\ CaseNo = Len(run.golden.cases) + 1
      /\ Len(run.golden.cases) \in Nat /\ Len(run.golden.cases) <= Len(run.suite)
  <2>1. Len(run.golden.cases) \in Nat /\ Len(run.suite) \in Nat
    BY <1>0
  <2>2. Follows(run.golden, run.suite)
    BY DEF EvidenceInv
  <2>3. Len(run.golden.cases) <= Len(run.suite)
    BY <2>2, SMTT(30) DEF Follows
  <2> QED  BY <2>1, <2>3 DEF CaseNo
<1>1. ASSUME NextCases, CaseNo > Len(run.suite) PROVE EvidenceInv'
  <2>1. run' = [run EXCEPT !.pc = "reverify", !.todo = Objects]
    <3>1. ~(CaseNo <= Len(run.suite))
      BY <1>1, <1>b, SMTT(30)
    <3> QED  BY <1>1, <3>1 DEF NextCases, AfterCases
  <2>2. run'.pc = "reverify" /\ run'.todo = Objects /\ Kin(run', run)
    BY <1>0, <2>1, KeptFields, ZenonT(30) DEF Runs
  <2>3. Len(run.golden.cases) = Len(run.suite)
    BY <1>1, <1>b, SMTT(30)
  <2>4. run.blind => \E o \in Range(Objects) : o \notin cluster
    BY <1>a DEF EvidenceInv, TypeOK
  <2>5. ~AllEvidence => ctx = "cancelled" /\ Objects # <<>>
    BY <1>a, RecorderAssumption DEF EvidenceInv
  <2>6. Follows(run.golden, run.suite)' /\ (AllEvidence' <=> AllEvidence)
    BY <2>2, KinEvidence
  <2> QED  BY <1>a, <2>2, <2>3, <2>4, <2>5, <2>6 DEF EvidenceInv, Kin
<1>2. ASSUME NextCases, ~(CaseNo > Len(run.suite)) PROVE EvidenceInv'
  <2>1. /\ run' = [run EXCEPT !.pc = "step", !.obs = <<>>]
        /\ CaseNo <= Len(run.suite) /\ ~NextCase.sessions
    BY <1>2 DEF NextCases
  <2>2. /\ run'.pc = "step" /\ run'.obs = <<>> /\ run'.golden = run.golden
        /\ run'.suite = run.suite /\ run'.blind = run.blind
    BY <1>0, <2>1 DEF Runs
  <2>3. CaseNo' = CaseNo /\ NextCase' = NextCase /\ Follows(run.golden, run.suite)'
    BY <2>2 DEF CaseNo, NextCase, EvidenceInv, Follows
  <2>4. NextCase.steps \in Nat
    BY <2>1, NextCaseType DEF Cases
  <2>5. AllEvidence => AllEvidence'
    BY <2>2 DEF AllEvidence, Evidence
  <2>6. Len(run'.obs) <= NextCase.steps
    BY <2>2, <2>4, SMTT(30)
  <2> QED  BY <1>a, <2>1, <2>2, <2>3, <2>5, <2>6 DEF EvidenceInv
<1>3. CASE Reset
  <2>1. run' = Record(run, run.obs, <<>>) /\ CaseNo <= Len(run.suite)
        /\ Len(run.obs) = NextCase.steps
    BY <1>3 DEF Reset, EvidenceInv
  <2>2. run'.pc = "case" /\ run'.obs = <<>> /\ run'.suite = run.suite /\ run'.blind = run.blind
    BY <1>0, <2>1 DEF Record, Runs
  <2>3. AllEvidence => Evidence(run.obs)
    BY SMTT(30) DEF AllEvidence
  <2>4. Follows(run.golden, run.suite)' /\ (AllEvidence => AllEvidence')
    BY <1>0, <2>1, <2>2, <2>3, RecordEvidence
  <2> QED  BY <1>a, <2>2, <2>4 DEF EvidenceInv
<1>4. CASE RunSessions
  <2>1. \/ run' = Return("connect")
        \/ \E results \in RaceAnswers :
             run' = [Record(run, <<>>, results) EXCEPT !.blind = @ \/ cluster # Range(Objects)]
    BY <1>4 DEF RunSessions
  <2>2. CASE run' = Return("connect")
    BY <1>a, <2>2, ReturnedEvidence
  <2>3. ASSUME NEW results \in RaceAnswers,
               run' = [Record(run, <<>>, results) EXCEPT !.blind = @ \/ cluster # Range(Objects)]
        PROVE  EvidenceInv'
    <3> DEFINE r == Record(run, <<>>, results)
               blind == run.blind \/ cluster # Range(Objects)
    <3>1. CaseNo <= Len(run.suite) /\ NextCase.sessions
      BY <1>4, SMTT(30) DEF RunSessions
    <3>2. /\ r \in Runs /\ r.pc = "case" /\ r.obs = <<>> /\ r.suite = run.suite
          /\ r.blind = run.blind
      <4>1. r \in Runs
        BY <3>1, RecordTypes, ConstantTypes, ZenonT(30)
      <4>2. r.pc = "case" /\ r.obs = <<>> /\ r.suite = run.suite /\ r.blind = run.blind
        BY <1>0 DEF Record, Runs
      <4> QED  BY <4>1, <4>2, SMTT(30)
    <3> HIDE DEF r
    <3>3. run' = [r EXCEPT !.blind = blind]
      BY <2>3, <3>2 DEF r
    <3> HIDE DEF blind
    <3>4. /\ run'.pc = "case" /\ run'.obs = <<>> /\ run'.suite = run.suite
          /\ run'.golden = r.golden /\ run'.blind = blind
      BY <3>2, <3>3 DEF Runs
    <3>5. Evidence(<<>>) /\ <<>> \in Seq(Observations)
      BY ConstantTypes DEF Evidence
    <3>6. Follows(run.golden, run.suite)' /\ (AllEvidence => AllEvidence')
      BY <3>1, <3>4, <3>5, RecordEvidence, ZenonT(30) DEF r
    <3>7. blind => cluster # Range(Objects)
      BY <1>a DEF blind, EvidenceInv
    <3> QED  BY <1>a, <3>4, <3>6, <3>7 DEF EvidenceInv
  <2> QED  BY <2>1, <2>2, <2>3
<1> QED  BY <1>1, <1>2, <1>3, <1>4, SMTT(30)

\* A record that was started, and the end of a run, hold nothing yet.
LEMMA CommandEvidence ==
  ASSUME TypeOK, TypeOK', EvidenceInv,
         \/ \E suite \in Suites, mode \in {"record", "cleanup"} : Start(suite, mode)
         \/ Cleanup \/ CleanupDone \/ Save \/ SaveEnds \/ CleanupOnly \/ Leftovers
         \/ Interrupt \/ Crash \/ LoseRelation
  PROVE  EvidenceInv'
<1>0. /\ run \in Runs /\ run' \in Runs /\ cluster \subseteq Range(Objects)
      /\ save \in SaveStates
  <2>1. FilesOK /\ run \in Runs /\ run' \in Runs /\ cluster \subseteq Range(Objects)
    BY TypeParts
  <2> QED  BY <2>1 DEF FilesOK
<1>e. NoRun.golden.cases = <<>> /\ <<>> \in Seq(Cases) /\ Suites \subseteq Seq(Cases)
  <2>1. NoRun.golden.cases = <<>>
    BY DEF NoRun
  <2>2. <<>> \in Seq(Cases)
    BY SMTT(30)
  <2> QED  BY <2>1, <2>2, RecorderAssumption
<1>x. ASSUME NEW report, run' = Exit(report), save' = NoSave PROVE EvidenceInv'
  <2>1. run'.pc = "idle" /\ run'.golden.cases = <<>> /\ run'.suite = <<>>
    BY <1>e, <1>x, StatementFields, KeptFields, ZenonT(30)
  <2> QED  BY <1>e, <1>x, <2>1, EmptyEvidence, ZenonT(30)
<1>1. CASE \E suite \in Suites, mode \in {"record", "cleanup"} : Start(suite, mode)
  <2>1. PICK suite \in Suites, mode \in {"record", "cleanup"}, version \in Versions :
          /\ run' = [NoRun EXCEPT
                 !.pc = IF mode = "record" THEN "setup" ELSE "cleanupOnly",
                 !.no = run.no + 1, !.suite = suite,
                 !.todo = IF mode = "record" THEN DroppedFirst ELSE Objects,
                 !.golden = [at |-> run.no + 1, version |-> version, cases |-> <<>>]]
          /\ save' = save /\ run.pc = "idle"
    BY <1>1, ZenonT(30) DEF Start
  <2>2. /\ run'.pc \in {"setup", "cleanupOnly"} /\ run'.suite = suite
        /\ run'.golden = [at |-> run.no + 1, version |-> version, cases |-> <<>>]
        /\ run'.blind = FALSE /\ run'.obs = <<>>
    BY <2>1 DEF NoRun
  <2>3. save' = NoSave
    BY <2>1, SMTT(30) DEF EvidenceInv
  <2>4. run'.golden.cases = <<>> /\ run'.suite \in Seq(Cases)
    BY <1>e, <2>2, SMTT(30)
  <2> QED  BY <2>2, <2>3, <2>4, EmptyEvidence, ZenonT(30)
<1>2. CASE Cleanup
  <2>1. PICK met : run' = CASE met = "ok" -> Done(run)
                            [] Retries(met) -> Again(run)
                            [] OTHER -> [Done(run) EXCEPT !.skipped = TRUE]
    BY <1>2 DEF Cleanup
  <2>2. run.pc = "cleanup" /\ save' = save /\ run.todo # <<>>
    BY <1>2 DEF Cleanup
  <2> DEFINE r == [Done(run) EXCEPT !.skipped = TRUE]
  <2>3. r.pc = "cleanup" /\ Kin(r, run) /\ r.err = run.err
    <3>1. Done(run) \in Runs
      BY <2>2, Statements
    <3> QED  BY <2>2, <3>1, StatementFields, KeptFields DEF Runs, Kin
  <2>4. run' \in {Done(run), Again(run), r}
    BY <2>1, SMTT(30)
  <2> HIDE DEF r
  <2>5. run'.pc = "cleanup" /\ Kin(run', run) /\ run'.err = run.err
    BY <2>2, <2>3, <2>4, StatementFields, KeptFields, ZenonT(30)
  <2>6. Follows(run.golden, run.suite)' /\ (AllEvidence' <=> AllEvidence)
    BY <2>5, KinEvidence
  <2> QED  BY <2>2, <2>5, <2>6, ZenonT(30) DEF EvidenceInv, Kin
<1>3. CASE CleanupDone
  <2>1. CASE Saves(run)
    <3>1. /\ run' = [run EXCEPT !.pc = "save"] /\ run.err = "" /\ run.pc = "cleanup"
          /\ StartSave(run.golden)
      BY <1>3, <2>1 DEF CleanupDone, Saves
    <3>2. run'.pc = "save" /\ Kin(run', run)
      BY <1>0, <3>1, KeptFields, ZenonT(30) DEF Runs
    <3>3. Follows(run.golden, run.suite)' /\ (AllEvidence' <=> AllEvidence)
      BY <3>2, KinEvidence
    <3>4. save'.golden = run.golden
      BY <3>1 DEF StartSave
    <3> QED  BY <3>1, <3>2, <3>3, <3>4 DEF EvidenceInv, Kin
  <2>2. CASE ~Saves(run)
    <3>1. run' = Exit("nothing written") /\ save' = save /\ run.pc = "cleanup"
      BY <1>3, <2>2 DEF CleanupDone
    <3>2. save' = NoSave
      BY <3>1 DEF EvidenceInv
    <3> QED  BY <1>x, <3>1, <3>2
  <2> QED  BY <2>1, <2>2
<1>4. CASE Save
  <2>1. run' = run /\ run.pc = "save" /\ (SaveStep \/ SaveFails)
    BY <1>4 DEF Save
  <2>2. save'.golden = save.golden
    <3>1. CASE SaveUnchanged
      BY <1>0, <3>1 DEF SaveUnchanged, GroupDone, SaveStates
    <3>2. CASE SaveTruncate
      BY <1>0, <3>2 DEF SaveTruncate, SaveStates
    <3>3. CASE SaveWritten
      BY <1>0, <3>3 DEF SaveWritten, GroupDone, SaveStates
    <3>4. CASE PruneStale
      BY <1>0, <3>4 DEF PruneStale, SaveStates
    <3>5. CASE Saved \/ SaveFails
      BY <1>0, <3>5 DEF Saved, SaveFails, SaveStates
    <3> QED  BY <2>1, <3>1, <3>2, <3>3, <3>4, <3>5 DEF SaveStep
  <2>3. Kin(run', run)
    BY <2>1 DEF Kin
  <2>4. Follows(run.golden, run.suite)' /\ (AllEvidence' <=> AllEvidence)
    BY <2>3, KinEvidence
  <2> QED  BY <2>1, <2>2, <2>4, ZenonT(30) DEF EvidenceInv
<1>5. CASE SaveEnds
  BY <1>5, <1>x, SMTT(30) DEF SaveEnds
<1>6. CASE CleanupOnly
  <2>1. PICK met : run' = [Done(run) EXCEPT !.skipped = @ \/ met # "ok"]
    BY <1>6, ZenonT(30) DEF CleanupOnly
  <2>2. run.pc = "cleanupOnly" /\ save' = save /\ run.todo # <<>>
    BY <1>6 DEF CleanupOnly
  <2>3. run'.pc = "cleanupOnly" /\ Kin(run', run)
    <3>1. Done(run) \in Runs
      BY <2>2, Statements
    <3> QED  BY <2>1, <2>2, <3>1, StatementFields, KeptFields DEF Runs, Kin
  <2>4. Follows(run.golden, run.suite)'
    BY <2>3, KinEvidence
  <2> QED  BY <2>2, <2>3, <2>4, ZenonT(30) DEF EvidenceInv
<1>7. CASE Leftovers
  <2>1. PICK report : run' = Exit(report)
    BY <1>7, SMTT(30) DEF Leftovers
  <2>2. save' = NoSave
    BY <1>7, SMTT(30) DEF Leftovers, EvidenceInv
  <2> QED  BY <1>x, <2>1, <2>2, SMTT(30)
<1>8. CASE Interrupt
  <2>1. run' = run /\ save' = save /\ ctx' = "cancelled" /\ cluster' = cluster
    BY <1>8 DEF Interrupt
  <2>2. Kin(run', run)
    BY <2>1 DEF Kin
  <2>3. /\ Follows(run.golden, run.suite)' /\ (AllEvidence' <=> AllEvidence)
        /\ CaseNo' = CaseNo /\ NextCase' = NextCase
    BY <2>2, KinEvidence
  <2> QED  BY <2>1, <2>3 DEF EvidenceInv
<1>9. CASE Crash
  BY <1>9, <1>x, SMTT(30) DEF Crash
<1>10. CASE LoseRelation
  <2>1. PICK o \in cluster : cluster' = cluster \ {o}
    BY <1>10 DEF LoseRelation
  <2>2. run' = run /\ save' = save /\ ctx' = ctx /\ run.pc \in {"case", "step"}
    BY <1>10 DEF LoseRelation
  <2>3. cluster' # Range(Objects)
    BY <1>0, <2>1
  <2>4. Kin(run', run)
    BY <2>2 DEF Kin
  <2>5. /\ Follows(run.golden, run.suite)' /\ (AllEvidence' <=> AllEvidence)
        /\ CaseNo' = CaseNo /\ NextCase' = NextCase
    BY <2>4, KinEvidence
  <2> QED  BY <2>2, <2>3, <2>5, ZenonT(30) DEF EvidenceInv
<1> QED  BY <1>1, <1>2, <1>3, <1>4, <1>5, <1>6, <1>7, <1>8, <1>9, <1>10

\* Every step keeps the record's invariant.
LEMMA EvidenceStep ==
  ASSUME TypeOK, TypeOK', EvidenceInv, [Next]_vars
  PROVE  EvidenceInv'
<1>1. CASE Setup \/ SetupDone \/ Verify \/ VerifyDone
  BY <1>1, SchemaEvidence
<1>2. CASE Step
  BY <1>2, StepEvidence
<1>3. CASE NextCases \/ Reset \/ RunSessions
  BY <1>3, CasesEvidence
<1>4. CASE \/ \E suite \in Suites, mode \in {"record", "cleanup"} : Start(suite, mode)
           \/ Cleanup \/ CleanupDone \/ Save \/ SaveEnds \/ CleanupOnly \/ Leftovers
           \/ Interrupt \/ Crash \/ LoseRelation
  BY <1>4, CommandEvidence, SMTT(30)
<1>5. CASE UNCHANGED vars
  BY <1>5, ZenonT(30) DEF vars, EvidenceInv, Follows, AllEvidence, Evidence, CaseNo, NextCase
<1> QED  BY <1>1, <1>2, <1>3, <1>4, <1>5 DEF Next, Steps

-----------------------------------------------------------------------------
(* The theorems.                                                           *)

IInv == TypeOK /\ EvidenceInv /\ SaveInv /\ CleanupIInv

\* The invariants hold before the first run.
LEMMA InvInit ==
  Init => IInv
<1> SUFFICES ASSUME Init PROVE IInv
  OBVIOUS
<1>1. run.pc = "idle" /\ run.golden.cases = <<>> /\ run.suite = <<>> /\ run.report = ""
      /\ save = NoSave /\ save.pc = "idle"
  BY DEF Init, NoRun, NoSave
<1>2. EvidenceInv
  <2> DEFINE e == <<>>
  <2>1. Len(e) = 0 /\ Len(e) \in Nat
    OBVIOUS
  <2>3. DOMAIN e = {}
    OBVIOUS
  <2>4. run.golden.cases = e /\ run.suite = e
    BY <1>1
  <2> HIDE DEF e
  <2>2. Follows(run.golden, run.suite)
    BY <2>1, <2>3, <2>4 DEF Follows
  <2> QED  BY <1>1, <2>2 DEF EvidenceInv
<1>3. SaveInv
  BY <1>1 DEF SaveInv
<1>4. CleanupIInv
  BY <1>1 DEF CleanupIInv, CleanupInv, NothingLeftBehind
<1> QED  BY <1>2, <1>3, <1>4, TypeInit, SMTT(30) DEF IInv

\* Together the invariants are inductive.
LEMMA InvStep ==
  IInv /\ [Next]_vars => IInv'
<1> SUFFICES ASSUME IInv, [Next]_vars PROVE IInv'
  OBVIOUS
<1>1. TypeOK'
  BY TypeStep DEF IInv
<1>2. EvidenceInv' /\ SaveInv' /\ CleanupIInv'
  BY <1>1, EvidenceStep, SaveInvStep, CleanupStep DEF IInv
<1> QED  BY <1>1, <1>2 DEF IInv

\* The command's variables keep their types: a schema statement is tried at
\* most schemaAttempts times and a fixture is whole, torn or missing.
THEOREM TypeCorrect ==
  Spec => []TypeOK
<1>1. IInv => TypeOK
  BY DEF IInv
<1> QED  BY <1>1, InvInit, InvStep, PTL DEF Spec

\* SaveDir prunes last: whichever step a save fails or dies at, and however
\* often the command is run, the directory does not lose its last fixture.
THEOREM DirectoryKept ==
  Spec => NeverEmptied
<1>1. IInv /\ [Next]_vars => [Holds(dir) => Holds(dir')]_<<dir, save>>
  BY LastIsKept DEF IInv
<1> QED  BY <1>1, InvInit, InvStep, PTL DEF Spec, NeverEmptied

\* A save that completes leaves a directory LoadDir accepts, with exactly what
\* is enforced of the record.
THEOREM SaveLoads ==
  Spec => []SavedLoads
<1>1. IInv => SavedLoads
  BY SavedLoadsFollows DEF IInv
<1> QED  BY <1>1, InvInit, InvStep, PTL DEF Spec

\* A run that reports nothing skipped and was not interrupted leaves no
\* relation of the suite on the cluster.
THEOREM ClusterLeftClean ==
  Spec => []NothingLeftBehind
<1>1. IInv => NothingLeftBehind
  BY SMTT(30) DEF IInv, CleanupIInv
<1> QED  BY <1>1, InvInit, InvStep, PTL DEF Spec

\* What is saved was observed: every case of the suite, on the schema, each
\* step answered by the target.
THEOREM SavedIsEvidence ==
  Spec => []RecordIsEvidence
<1>1. IInv => RecordIsEvidence
  <2> SUFFICES ASSUME IInv, save.pc = "done", run.pc = "save" PROVE
        /\ ~run.blind
        /\ Len(run.golden.cases) = Len(run.suite)
        /\ \A i \in DOMAIN run.suite :
             /\ run.golden.cases[i].name = run.suite[i].name
             /\ ~run.suite[i].sessions =>
                  \A j \in 1 .. run.suite[i].steps :
                    Answered(run.golden.cases[i].obs[j])
                    \/ run.golden.cases[i].obs[j] = NoAnswer("undecoded")
    BY SMTT(30) DEF RecordIsEvidence
  <2>1. ~run.blind /\ Len(run.golden.cases) = Len(run.suite) /\ AllEvidence
        /\ Follows(run.golden, run.suite)
    BY SMTT(30) DEF IInv, EvidenceInv
  <2>2. run.golden.cases \in Seq(RecordedCases) /\ run.suite \in Seq(Cases)
    <3>1. <<>> \in Seq(Cases)
      BY SMTT(30)
    <3> QED  BY <3>1, RecorderAssumption, ZenonT(30) DEF IInv, TypeOK, Runs, Goldens
  <2>3. ASSUME NEW i \in DOMAIN run.suite
        PROVE  /\ run.golden.cases[i].name = run.suite[i].name
               /\ ~run.suite[i].sessions =>
                    \A j \in 1 .. run.suite[i].steps :
                      Answered(run.golden.cases[i].obs[j])
                      \/ run.golden.cases[i].obs[j] = NoAnswer("undecoded")
    <3>1. i \in DOMAIN run.golden.cases
      BY <2>1, <2>2
    <3>2. run.golden.cases[i] \in RecordedCases
      BY <2>2, <3>1
    <3>3. run.golden.cases[i].obs \in Seq(Observations)
      BY <3>2 DEF RecordedCases
    <3>4. /\ run.golden.cases[i].name = run.suite[i].name
          /\ ~run.suite[i].sessions => Len(run.golden.cases[i].obs) = run.suite[i].steps
      BY <2>1, <3>1 DEF Follows
    <3>5. Evidence(run.golden.cases[i].obs)
      BY <2>1, <3>1 DEF AllEvidence
    <3> QED  BY <3>3, <3>4, <3>5 DEF Evidence
  <2> QED  BY <2>1, <2>3, SMTT(30)
<1> QED  BY <1>1, InvInit, InvStep, PTL DEF Spec
=============================================================================
