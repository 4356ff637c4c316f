------------------------------ MODULE Dialect ------------------------------
(***************************************************************************)
(* The embedded ruleset (rules/dsql-2026.09.yaml), rule by rule and in its *)
(* order. Of the names a predicate lists, one or two stand for all; the    *)
(* smallest CACHE, 65536 there, is CacheMin.                               *)
(***************************************************************************)
EXTENDS Naturals, Sequences

CONSTANT CacheMin

Rule(id, stmt, where) ==
  [id |-> id, stmt |-> stmt, where |-> where, cacheAllow |-> {1}, unlessAsync |-> FALSE,
   code |-> "0A000", names |-> "nothing"]

\* A rule that refuses every statement of a type.
Whole(id, stmt) == Rule(id, stmt, <<>>)

NamesType(r) == [r EXCEPT !.names = "type"]
Undefined(r) == [r EXCEPT !.code = "42704"]
UnlessAsync(r) == [r EXCEPT !.unlessAsync = TRUE]

serialTypes == [column_type |-> {"serial", "bigserial"}]
unsupportedTypes == [column_type |-> {"money", "point"}]

tableRules ==
  <<Rule("temporary_table", "create_stmt", [relpersistence |-> {"t"}]),
    Rule("unlogged_table", "create_stmt", [relpersistence |-> {"u"}]),
    Undefined(Rule("serial", "create_stmt", serialTypes)),
    Undefined(Rule("serial_alter_column", "alter_table_stmt", serialTypes)),
    Rule("identity_cache", "create_stmt", [identity_cache_min |-> CacheMin]),
    NamesType(Rule("identity_type", "create_stmt", [identity_type_not |-> {"int8"}])),
    Rule("alter_add_column_constraint", "alter_table_stmt",
         [add_column_constraint |-> {"CONSTR_NOTNULL", "CONSTR_CHECK", "CONSTR_UNIQUE",
                                     "CONSTR_IDENTITY", "CONSTR_PRIMARY"}]),
    NamesType(Rule("unsupported_type", "create_stmt", unsupportedTypes)),
    Rule("alter_column_type", "alter_table_stmt",
         [alter_action |-> {"AT_AlterColumnType"}]),
    NamesType(Rule("unsupported_type_alter_column", "alter_table_stmt", unsupportedTypes)),
    NamesType(Rule("array_column", "create_stmt", [column_array |-> TRUE])),
    NamesType(Rule("array_column_alter_column", "alter_table_stmt",
                   [column_array |-> TRUE]))>>

objectRules ==
  <<Whole("alter_enum", "alter_enum_stmt"),
    Rule("rename_type", "rename_stmt", [rename_type |-> {"OBJECT_TYPE"}]),
    Rule("drop_type", "drop_stmt", [remove_type |-> {"OBJECT_TYPE"}]),
    Undefined(Rule("unsupported_text_search", "select_stmt",
                   [function |-> {"to_tsvector", "to_tsquery"}])),
    NamesType(Rule("unsupported_geometry", "select_stmt", [function |-> {"line", "box"}])),
    Rule("unsupported_locking", "select_stmt",
         [locking |-> {"LCS_FORSHARE", "LCS_FORNOKEYUPDATE"}]),
    Rule("materialized_view", "create_table_as_stmt", [objtype |-> {"OBJECT_MATVIEW"}]),
    Rule("create_table_as", "create_table_as_stmt", [objtype |-> {"OBJECT_TABLE"}]),
    Whole("enum_type", "create_enum_stmt"),
    Whole("composite_type", "composite_type_stmt"),
    Whole("range_type", "create_range_stmt"),
    Rule("sequence_cache", "create_seq_stmt", [sequence_cache_min |-> CacheMin]),
    Whole("tablespace", "create_table_space_stmt"),
    Whole("foreign_table", "create_foreign_table_stmt"),
    Rule("vacuum", "vacuum_stmt", [vacuum_kind |-> {"VACUUM"}]),
    Rule("tablesample", "select_stmt", [contains |-> {"RangeTableSample"}])>>

constraintRules ==
  <<Rule("alter_add_constraint_requires_not_valid", "alter_table_stmt",
         [add_constraint_missing_not_valid |-> TRUE]),
    Rule("alter_add_key_constraint", "alter_table_stmt",
         [add_constraint_type |-> {"CONSTR_PRIMARY", "CONSTR_UNIQUE"}]),
    UnlessAsync(Rule("alter_validate_requires_async", "alter_table_stmt",
                     [alter_action |-> {"AT_ValidateConstraint"}]))>>

sessionRules ==
  <<Whole("merge", "merge_stmt"),
    Undefined(Rule("show_lc_collate", "variable_show_stmt", [show_name |-> {"lc_collate"}])),
    Whole("listen", "listen_stmt"), Whole("notify", "notify_stmt"),
    Whole("unlisten", "unlisten_stmt"), Whole("alter_system", "alter_system_stmt"),
    Rule("set_transaction", "variable_set_stmt",
         [set_name |-> {"TRANSACTION", "SESSION CHARACTERISTICS"}]),
    Rule("set_isolation", "variable_set_stmt",
         [set_name |-> {"transaction_isolation", "default_transaction_isolation"}]),
    UnlessAsync(Whole("sync_index", "index_stmt")),
    Rule("savepoint", "transaction_stmt", [txn_kind |-> {"TRANS_STMT_SAVEPOINT"}]),
    Rule("release_savepoint", "transaction_stmt", [txn_kind |-> {"TRANS_STMT_RELEASE"}]),
    Rule("rollback_to_savepoint", "transaction_stmt",
         [txn_kind |-> {"TRANS_STMT_ROLLBACK_TO"}]),
    [Rule("create_function_language", "create_function_stmt", [language_not |-> {"sql"}])
       EXCEPT !.names = "language"]>>

Embedded ==
  [version |-> "2026.09",
   unsupported |->
     <<Whole("truncate", "truncate_stmt"), Whole("extensions", "create_extension_stmt"),
       Whole("triggers", "create_trig_stmt"), Whole("create_database", "createdb_stmt")>>
     \o tableRules \o objectRules \o constraintRules \o sessionRules,
   supported |-> {"repeatable read"},
   occ |-> [lockTimeout |-> 50, inject |-> <<>>]]
=============================================================================
