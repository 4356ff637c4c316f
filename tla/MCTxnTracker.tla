---------------------------- MODULE MCTxnTracker ----------------------------
(* Instances of TxnTracker for TLC: short batches over every kind.         *)
EXTENDS TxnTracker, FiniteSets

AllKinds == Kinds \ {"other"}

\* Every simple Query of one, two or three statements.
QueryBatches == UNION {[1..n -> AllKinds] : n \in 1..3}

\* What one Bind admits.
BindBatches == {<<k>> : k \in AllKinds}
=============================================================================
