----------------------------- MODULE MCClassify -----------------------------
(* Statements that come near the rules: one step short of each, and at it. *)
EXTENDS Classify

NoCache == [given |-> FALSE, value |-> 0]

Node(type) ==
  [type |-> type, what |-> "", columns |-> <<>>, cmds |-> <<>>, calls |-> {}, parts |-> {},
   locking |-> {}, level |-> "", cache |-> NoCache]

Of(type, what) == [Node(type) EXCEPT !.what = what]

\* CACHE around the minimum, and more than an Integer node holds.
Caches ==
  {NoCache} \cup {[given |-> TRUE, value |-> v] :
                    v \in {0, 1, CacheMin - 1, CacheMin, MaxInteger, MaxInteger + 1}}

Column(type, array) ==
  [type |-> type, array |-> array, constraints |-> {}, cache |-> NoCache]

Columns ==
  {Column(t, a) : t \in {"int4", "int8", "serial", "money"}, a \in BOOLEAN}
  \cup {[Column("int8", FALSE) EXCEPT !.constraints = {"CONSTR_NOTNULL"}]}
  \cup {[Column(t, FALSE) EXCEPT !.constraints = {"CONSTR_IDENTITY"}, !.cache = c] :
          t \in {"int4", "int8"}, c \in Caches}

Tables ==
  {[Of("create_stmt", p) EXCEPT !.columns = cols] :
     p \in {"p", "t", "u"}, cols \in {<<c>> : c \in Columns} \cup (Columns \X Columns)}

Cmds ==
  {[action |-> "AT_AddColumn", column |-> c] : c \in Columns}
  \cup {[action |-> "AT_AlterColumnType", column |-> Column(t, FALSE)] :
          t \in {"int8", "money"}}
  \cup {[action |-> "AT_AddConstraint", constraint |-> k, notValid |-> v, usingIndex |-> i] :
          k \in {"CONSTR_CHECK", "CONSTR_UNIQUE"}, v \in BOOLEAN, i \in BOOLEAN}
  \cup {[action |-> a] : a \in {"AT_ValidateConstraint", "AT_DropColumn"}}

Alters ==
  {[Node("alter_table_stmt") EXCEPT !.cmds = cs] :
     cs \in {<<c>> : c \in Cmds} \cup (Cmds \X Cmds)}

Others ==
  {[Node("create_seq_stmt") EXCEPT !.cache = c] : c \in Caches}
  \cup {[Of("variable_set_stmt", w) EXCEPT !.level = l] :
          w \in {"TRANSACTION", "SESSION CHARACTERISTICS", "transaction_isolation"},
          l \in {"", "repeatable read", "serializable"}}
  \cup {[Of("transaction_stmt", w) EXCEPT !.level = l] :
          w \in {"TRANS_STMT_BEGIN", "TRANS_STMT_START"},
          l \in {"", "repeatable read", "serializable"}}
  \cup {Of("transaction_stmt", "TRANS_STMT_" \o w) : w \in {"COMMIT", "ROLLBACK", "SAVEPOINT"}}
  \cup {Of("drop_stmt", w) : w \in {"OBJECT_TABLE", "OBJECT_TYPE"}}
  \cup {[Node("select_stmt") EXCEPT !.calls = f] : f \in {{}, {"now"}, {"now", "box"}}}
  \cup {[Node("select_stmt") EXCEPT !.locking = {l}] : l \in {"LCS_FORUPDATE", "LCS_FORSHARE"}}
  \cup {[Node("select_stmt") EXCEPT !.parts = {"RangeTableSample"}]}
  \cup {Node(t) : t \in {"insert_stmt", "merge_stmt", "truncate_stmt", "index_stmt", "view_stmt"}}

\* A function in a language the dialect has, or in another.
Functions == {Of("create_function_stmt", w) : w \in {"sql", "plpgsql"}}

\* Every statement alone, and pairs of those of different verdicts.
EveryText ==
  {<<n>> : n \in Tables \cup Alters \cup Others} \cup (Others \X Others)

FunctionTexts == {<<n>> : n \in Functions}
Broken(rule) == [Embedded EXCEPT !.unsupported = Append(@, rule)]

\* The embedded ruleset, and ones with something left out or twice.
Edited ==
  {Embedded,
   Broken([Whole("views", "view_stmt") EXCEPT !.code = ""]),
   Broken([Whole("views", "view_stmt") EXCEPT !.names = ""]),
   Broken(Whole("views", "view_stmt")), Broken(Whole("", "view_stmt")),
   Broken(Whole("views", "")), Broken(Whole("merge", "view_stmt")),
   [Embedded EXCEPT !.supported = {}], [Embedded EXCEPT !.occ.lockTimeout = -1],
   [Embedded EXCEPT !.occ.inject = <<[id |-> "i", every |-> 1, tables |-> {""}]>>]}

OnlyEmbedded == {Embedded}
=============================================================================
