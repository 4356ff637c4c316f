------------------------------ MODULE Fixtures ------------------------------
(***************************************************************************)
(* The golden record on disk (internal/conformance/record.go: Save,        *)
(* SaveDir, Load, LoadDir): one file per case group, each replaced in      *)
(* place, and a process that may die or be refused a write between any two *)
(* steps.                                                                  *)
(***************************************************************************)
EXTENDS Compare

CONSTANTS
  Groups,      \* case groups, each a file of the directory
  NoGroup,     \* the empty group name
  Absent,      \* no such file
  Torn         \* a file os.WriteFile truncated and has not finished

VARIABLES
  dir,         \* the fixtures on disk
  save         \* the SaveDir in progress

NoSave ==
  [pc |-> "idle", golden |-> [at |-> 0, version |-> "", cases |-> <<>>],
   todo |-> <<>>, changed |-> {}]

\* The groups of a record, in the order SaveDir meets them.
groupOrder(golden) ==
  LET groups == [i \in DOMAIN golden.cases |-> golden.cases[i].group]
  IN  Kept(groups, {i \in DOMAIN groups : \A j \in 1 .. i - 1 : groups[j] # groups[i]})

\* byGroup: a group's cases, in the order of the record.
byGroup(cases, g) == Kept(cases, {i \in DOMAIN cases : cases[i].group = g})

partOf(golden, g) == [golden EXCEPT !.cases = byGroup(@, g)]

\* contentBytes: neither the date nor what the comparison waives counts; the
\* version the target reported does.
contentBytes(golden) ==
  [version |-> golden.version,
   cases |-> [i \in DOMAIN golden.cases |-> enforcedCase(golden.cases[i])]]

\* Mutation: a file that does not parse is taken for unchanged.
sameContentUnread(file, golden) ==
  IF file = Torn THEN TRUE
  ELSE IF file = Absent THEN FALSE ELSE contentBytes(file) = contentBytes(golden)

\* sameContent: a file that is missing or does not parse is different.
sameContent(file, golden) ==
  file \notin {Absent, Torn} /\ contentBytes(file) = contentBytes(golden)

-----------------------------------------------------------------------------
(* SaveDir.                                                                *)

\* A record with no cases, or with a case that has no group, is refused
\* before anything is written.
StartSave(golden) ==
  LET order   == groupOrder(golden)
      refused == golden.cases = <<>> \/ NoGroup \in Range(order)
  IN  /\ save' = [pc |-> IF refused THEN "failed" ELSE "write",
                  golden |-> golden, todo |-> IF refused THEN <<>> ELSE order,
                  changed |-> {}]
      /\ UNCHANGED dir

Group == Head(save.todo)

GroupDone == [save EXCEPT !.pc = "write", !.todo = Tail(@)]

Reported(g) == save.changed \cup {g}

\* Save of a group that answered as before leaves its file alone.
SaveUnchanged ==
  /\ save.pc = "write" /\ save.todo # <<>>
  /\ sameContent(dir[Group], partOf(save.golden, Group))
  /\ save' = GroupDone
  /\ UNCHANGED dir

\* os.WriteFile truncates the file ...
SaveTruncate ==
  /\ save.pc = "write" /\ save.todo # <<>>
  /\ ~sameContent(dir[Group], partOf(save.golden, Group))
  /\ dir' = [dir EXCEPT ![Group] = Torn]
  /\ save' = [save EXCEPT !.pc = "writing"]

\* ... and then writes it.
SaveWritten ==
  /\ save.pc = "writing"
  /\ dir' = [dir EXCEPT ![Group] = partOf(save.golden, Group)]
  /\ save' = [GroupDone EXCEPT !.changed = Reported(Group)]

\* A directory, a write or a removal is refused: SaveDir gives up.
SaveFails ==
  /\ save.pc \in {"write", "writing"}
  /\ save' = [save EXCEPT !.pc = "failed"]
  /\ UNCHANGED dir

Stale ==
  {g \in Groups : dir[g] # Absent} \ Range(groupOrder(save.golden))

\* Mutation: stale fixtures are pruned before the new ones are on disk.
MayPruneEarly == save.pc = "write"

\* Stale fixtures are pruned once every new one is on disk.
MayPrune == save.pc = "write" /\ save.todo = <<>>

PruneStale ==
  /\ MayPrune
  /\ \E g \in Stale :
       /\ dir' = [dir EXCEPT ![g] = Absent]
       /\ save' = [save EXCEPT !.changed = Reported(g)]

Saved ==
  /\ save.pc = "write" /\ save.todo = <<>>
  /\ Stale = {}
  /\ save' = [save EXCEPT !.pc = "done"]
  /\ UNCHANGED dir

SaveStep ==
  SaveUnchanged \/ SaveTruncate \/ SaveWritten \/ PruneStale \/ Saved

-----------------------------------------------------------------------------
(* LoadDir.                                                                *)

CasesOf(file) == Range(file.cases)

LoadsCases(d) == UNION {CasesOf(d[g]) : g \in {h \in Groups : d[h] # Absent}}

\* LoadDir: some file, every file readable, and no case in two of them.
Loads(d) ==
  /\ \E g \in Groups : d[g] # Absent
  /\ \A g \in Groups : d[g] # Torn
  /\ \A g, h \in {f \in Groups : d[f] # Absent} :
       g # h => {c.name : c \in CasesOf(d[g])} \cap {c.name : c \in CasesOf(d[h])} = {}

-----------------------------------------------------------------------------
(* Properties.                                                             *)

Holds(d) == \E g \in Groups : d[g] # Absent

\* A directory that holds fixtures never loses the last of them, whichever
\* step a save fails or dies at (SaveDir prunes last).
NeverEmptied == [][Holds(dir) => Holds(dir')]_<<dir, save>>

\* A save that completes leaves a directory LoadDir accepts and that holds
\* what the record holds and nothing else, whatever torn, stale or misplaced
\* files earlier saves left behind.
SavedLoads ==
  save.pc = "done" =>
    /\ Loads(dir)
    /\ {enforcedCase(c) : c \in LoadsCases(dir)}
         = {enforcedCase(c) : c \in Range(save.golden.cases)}
=============================================================================
