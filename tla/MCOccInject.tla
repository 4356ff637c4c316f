---------------------------- MODULE MCOccInject ----------------------------
(* Small instances of OccInject: the injection rules.                      *)
EXTENDS OccInject

\* Rules on different tables, one of them with "every" left out.
DisjointRules == <<[tables |-> {"a"}, every |-> 3], [tables |-> {"b"}, every |-> 0]>>

\* Two rules a transaction can match at once.
OverlappingRules ==
  <<[tables |-> {"a"}, every |-> 2], [tables |-> {"a", "b"}, every |-> 2]>>

\* One rule, for one table.
OneRule == <<[tables |-> {"a"}, every |-> 1]>>
=============================================================================
