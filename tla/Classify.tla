------------------------------ MODULE Classify ------------------------------
(***************************************************************************)
(* The classifier (internal/classify) and the ruleset it applies (rules):  *)
(* a text is parsed into statement nodes, and the first statement that     *)
(* asks for an isolation level or matches a rule refuses the text.         *)
(*                                                                         *)
(* A node is what the parser leaves of a statement, as far as the rules    *)
(* look: its type; what, the one name or kind such a statement carries     *)
(* (the parameter of a SET, the object of a DROP, ...); the columns of a   *)
(* CREATE TABLE and the commands of an ALTER TABLE, in order; sets of the  *)
(* functions called, nodes contained and locks asked for; an isolation     *)
(* level, a CACHE and a LANGUAGE. A rule is its id, the node type, its     *)
(* predicates (a record of those it sets), its code and what its message   *)
(* names.                                                                  *)
(***************************************************************************)
EXTENDS Integers, FiniteSets, SequencesExt, Dialect

CONSTANTS
  Texts,       \* the texts clients send, sequences of nodes
  Rulesets,    \* the rulesets operators load
  MaxInteger   \* the largest number the parser keeps as an Integer node

ASSUME CacheAssumption == CacheMin \in Nat /\ MaxInteger \in Nat /\ 1 < CacheMin

VARIABLES
  ruleset,     \* the one loaded, NoRuleset before
  text, async, \* the text last classified, and whether ASYNC was stripped
  result       \* what Classify returned for it

vars == <<ruleset, text, async, result>>

-----------------------------------------------------------------------------
(* What the predicates read off a node (eval.go, walk.go).                 *)

\* Mutation: a column that ALTER TABLE adds is not looked at.
columnDefsRetyped(node) ==
  node.columns \o
  LET typed == SelectSeq(node.cmds, LAMBDA c : c.action = "AT_AlterColumnType")
  IN  [i \in DOMAIN typed |-> typed[i].column]

\* The columns a CREATE TABLE defines, or an ALTER TABLE adds or retypes.
columnDefs(node) ==
  node.columns \o
  LET typed == SelectSeq(node.cmds, LAMBDA c :
                           c.action \in {"AT_AddColumn", "AT_AlterColumnType"})
  IN  [i \in DOMAIN typed |-> typed[i].column]

columnTypes(node) == {c.type : c \in Range(columnDefs(node))}

isArray(column) == column.array

isIdentityColumn(column) == "CONSTR_IDENTITY" \in column.constraints

\* The commands of a kind.
cmds(node, action) == {c \in Range(node.cmds) : c.action = action}

\* defElemInt: a number too large for an Integer node is not found.
given(cache) == cache.given /\ cache.value <= MaxInteger

\* Mutation: a missing CACHE passes.
cacheTooSmallIfGiven(cache, min, allow) ==
  given(cache) /\ cache.value < min /\ cache.value \notin allow

cacheTooSmall(cache, min, allow) ==
  ~given(cache) \/ (cache.value < min /\ cache.value \notin allow)

\* The identity columns whose type the dialect does not allow.
identityColumnType(node, allowed) ==
  SelectSeq(columnDefs(node), LAMBDA c : isIdentityColumn(c) /\ c.type \notin allowed)

\* The predicates that look at the one name or kind of a statement.
scalar == {"relpersistence", "remove_type", "rename_type", "vacuum_kind",
           "show_name", "objtype", "txn_kind", "set_name"}

holds(p, want, rule, node) ==
  CASE p \in scalar -> node.what \in want
    [] p = "column_type" -> want \cap columnTypes(node) # {}
    [] p = "column_array" -> \E c \in Range(columnDefs(node)) : isArray(c)
    [] p = "locking" -> want \cap node.locking # {}
    [] p = "function" -> want \cap node.calls # {}
    [] p = "contains" -> want \cap node.parts # {}
    [] p = "alter_action" -> \E a \in want : cmds(node, a) # {}
    [] p = "add_constraint_missing_not_valid" ->
         \E c \in cmds(node, "AT_AddConstraint") :
           ~c.notValid /\ c.constraint \in {"CONSTR_CHECK", "CONSTR_FOREIGN"}
    [] p = "add_constraint_type" ->
         \E c \in cmds(node, "AT_AddConstraint") : ~c.usingIndex /\ c.constraint \in want
    [] p = "add_column_constraint" ->
         \E c \in cmds(node, "AT_AddColumn") : want \cap c.column.constraints # {}
    [] p = "language_not" -> node.what \notin want
    [] p = "sequence_cache_min" -> cacheTooSmall(node.cache, want, rule.cacheAllow)
    [] p = "identity_type_not" -> identityColumnType(node, want) # <<>>
    [] p = "identity_cache_min" ->
         \E c \in Range(node.columns) :
           isIdentityColumn(c) /\ cacheTooSmall(c.cache, want, rule.cacheAllow)

\* matches: every predicate the rule sets holds.
matches(rule, node) ==
  /\ node.type = rule.stmt
  /\ \A p \in DOMAIN rule.where : holds(p, rule.where[p], rule, node)

-----------------------------------------------------------------------------
(* What a refusal names (message.go).                                      *)

canonicalType(written) ==
  CASE written = "int4" -> "integer" [] written = "int8" -> "bigint" [] OTHER -> written

named(written, array) == [name |-> canonicalType(written), array |-> array]

\* Mutation: the first column's type, whatever the rule refused.
refusedTypeFirst(rule, node) == named(columnDefs(node)[1].type, columnDefs(node)[1].array)

refusedType(rule, node) ==
  LET sets(p)  == p \in DOMAIN rule.where
      arrays   == SelectSeq(columnDefs(node), isArray)
      identity == identityColumnType(node, rule.where["identity_type_not"])
      typed    == SelectSeq(columnDefs(node), LAMBDA c : c.type \in rule.where["column_type"])
  IN  CASE sets("column_array") -> named(arrays[1].type, TRUE)
        [] sets("identity_type_not") -> named(identity[1].type, FALSE)
        [] sets("column_type") -> named(typed[1].type, FALSE)
        [] OTHER -> named(CHOOSE f \in node.calls \cap rule.where["function"] : TRUE, FALSE)

fill(rule, node) ==
  CASE rule.names = "type" -> refusedType(rule, node)
    [] rule.names = "language" -> [name |-> node.what, array |-> FALSE]
    [] OTHER -> [name |-> "", array |-> FALSE]

-----------------------------------------------------------------------------
(* Classify.                                                               *)

\* Mutation: the options of BEGIN are not read.
isolationLevelSet(node) == IF node.type = "variable_set_stmt" THEN node.level ELSE ""

\* isolationLevel: BEGIN and the SETs that can carry one.
isolationLevel(node) ==
  IF \/ node.type = "transaction_stmt"
     \/ node.type = "variable_set_stmt"
        /\ node.what \in {"TRANSACTION", "SESSION CHARACTERISTICS", "transaction_isolation",
                          "default_transaction_isolation"}
  THEN node.level ELSE ""

unsupportedIsolation(node, supported) ==
  isolationLevel(node) # "" /\ isolationLevel(node) \notin supported

ddlNodes ==
  {"create_stmt", "alter_table_stmt", "drop_stmt", "index_stmt", "view_stmt",
   "create_seq_stmt", "alter_seq_stmt", "create_schema_stmt", "grant_stmt",
   "revoke_stmt", "comment_stmt", "create_table_as_stmt", "rename_stmt",
   "alter_owner_stmt", "alter_object_schema_stmt"}

kindOf(node) ==
  CASE node.type \in {"insert_stmt", "update_stmt", "delete_stmt", "merge_stmt"} -> "dml"
    [] node.type = "select_stmt" -> "select"
    [] node.type = "transaction_stmt" ->
         CASE node.what \in {"TRANS_STMT_BEGIN", "TRANS_STMT_START"} -> "begin"
           [] node.what = "TRANS_STMT_COMMIT" -> "commit"
           [] node.what = "TRANS_STMT_ROLLBACK" -> "rollback"
           [] OTHER -> "other"
    [] node.type \in ddlNodes -> "ddl"
    [] OTHER -> "other"

Accept == [rule |-> "", code |-> "", names |-> [name |-> "", array |-> FALSE]]

\* The first rule a statement violates.
verdict(node, stripped) ==
  LET hit == SelectSeq(ruleset.unsupported, LAMBDA r :
                         ~(r.unlessAsync /\ stripped) /\ matches(r, node))
  IN  CASE unsupportedIsolation(node, ruleset.supported) ->
             [rule |-> "isolation", code |-> "0A000",
              names |-> [name |-> node.level, array |-> FALSE]]
        [] ~unsupportedIsolation(node, ruleset.supported) /\ hit # <<>> ->
             [rule |-> hit[1].id, code |-> hit[1].code, names |-> fill(hit[1], node)]
        [] OTHER -> Accept

Rejected(v) == v.code # ""

\* Classify: the statements in order, up to the first that is refused.
Classify(stmts, stripped) ==
  LET bad == {i \in DOMAIN stmts : verdict(stmts[i], stripped) # Accept}
  IN  IF bad = {} THEN [verdict |-> Accept, kinds |-> [i \in DOMAIN stmts |-> kindOf(stmts[i])]]
      ELSE [verdict |-> verdict(stmts[CHOOSE i \in bad : \A j \in bad : i <= j], stripped),
            kinds |-> <<>>]

-----------------------------------------------------------------------------
(* Loading a ruleset (rules.go).                                           *)

distinct(seq) == Cardinality({seq[i].id : i \in DOMAIN seq}) = Len(seq)

\* OCC.validate. A table name of nothing but spaces is empty.
validateOCC(occ) ==
  /\ occ.lockTimeout >= 0
  /\ distinct(occ.inject)
  /\ \A inj \in Range(occ.inject) : inj.id # "" /\ inj.every >= 0 /\ "" \notin inj.tables

\* Mutation: a rule need not have a code.
validateUncoded(rs) ==
  /\ rs.version # "" /\ rs.supported # {}
  /\ distinct(rs.unsupported)
  /\ \A r \in Range(rs.unsupported) : r.id # "" /\ r.stmt # "" /\ r.names # ""
  /\ validateOCC(rs.occ)

\* validate; a rule that names "" has no message.
validate(rs) ==
  /\ rs.version # "" /\ rs.supported # {}
  /\ distinct(rs.unsupported)
  /\ \A r \in Range(rs.unsupported) :
       r.id # "" /\ r.stmt # "" /\ r.code # "" /\ r.names # ""
  /\ validateOCC(rs.occ)

NoRuleset ==
  [version |-> "", unsupported |-> <<>>, supported |-> {},
   occ |-> [lockTimeout |-> 0, inject |-> <<>>]]

Init ==
  /\ ruleset = NoRuleset
  /\ text = <<>> /\ async = FALSE
  /\ result = [verdict |-> Accept, kinds |-> <<>>]

\* A ruleset that is not valid is refused, and the program does not start.
Load(rs) ==
  /\ ruleset = NoRuleset
  /\ ruleset' = IF validate(rs) THEN rs ELSE NoRuleset
  /\ UNCHANGED <<text, async, result>>

\* A client's text. Classify keeps nothing between calls, so one is enough.
Submit(stmts, stripped) ==
  /\ ruleset # NoRuleset /\ text = <<>>
  /\ text' = stmts /\ async' = stripped
  /\ result' = Classify(stmts, stripped)
  /\ UNCHANGED ruleset

Next ==
  \/ \E rs \in Rulesets : Load(rs)
  \/ \E stmts \in Texts, stripped \in BOOLEAN : Submit(stmts, stripped)

Spec == Init /\ [][Next]_vars

-----------------------------------------------------------------------------
(* Properties.                                                             *)

Accepted(node) == ~Rejected(verdict(node, FALSE))

\* A rule that matches refuses: none that was loaded matches a statement and
\* lets it through, which an empty code would (Verdict.Rejected).
MatchedIsRefused ==
  \A n \in Range(text) :
    (\E r \in Range(ruleset.unsupported) :
       matches(r, n) /\ ~(r.unlessAsync /\ async)) => Rejected(result.verdict)

\* A type is unsupported wherever it appears: a column CREATE TABLE refuses
\* is not accepted from ALTER TABLE ADD COLUMN.
RefusedWhereverAdded ==
  \A n \in Range(text) : \A c \in Range(n.columns) :
    ~Accepted([n EXCEPT !.columns = <<c>>, !.what = "p"])
    => ~Accepted([n EXCEPT !.type = "alter_table_stmt", !.what = "", !.columns = <<>>,
                           !.cmds = <<[action |-> "AT_AddColumn", column |-> c]>>])

\* The type a refusal names is one the statement declares, of a column that
\* would be refused by itself.
RefusalNamesOffender ==
  result.verdict.rule \in {r.id : r \in {s \in Range(ruleset.unsupported) : s.names = "type"}} =>
    \E n \in Range(text) :
      \/ result.verdict.names.name \in n.calls
      \/ \E i \in DOMAIN columnDefs(n) :
           LET c == columnDefs(n)[i]
           IN  /\ result.verdict.names.name = canonicalType(c.type)
               /\ result.verdict.names.array => c.array
               /\ ~Accepted([n EXCEPT !.type = "create_stmt", !.what = "p",
                                      !.columns = <<c>>, !.cmds = <<>>])

\* No accepted text asks for an isolation level the dialect does not have,
\* in whichever of the statements that can.
IsolationRespected ==
  ~Rejected(result.verdict) =>
    \A n \in Range(text) : n.level \in ruleset.supported \cup {""}

\* An accepted sequence or identity column has a CACHE of 1 or of at least
\* the minimum.
CacheRespected ==
  ~Rejected(result.verdict) =>
    \A n \in Range(text) :
      LET allowed(cache) == cache.given /\ (cache.value = 1 \/ cache.value >= CacheMin)
      IN  /\ n.type = "create_seq_stmt" => allowed(n.cache)
          /\ \A c \in Range(n.columns) : isIdentityColumn(c) => allowed(c.cache)

\* The statements that can reach the backend and define, change or drop an
\* object count as DDL.
SchemaStatementsAreDDL ==
  \A i \in DOMAIN result.kinds :
    text[i].type \in ddlNodes \cup {"create_function_stmt", "create_domain_stmt"} =>
      result.kinds[i] = "ddl"
=============================================================================
