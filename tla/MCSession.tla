----------------------------- MODULE MCSession -----------------------------
(* Small instances of Session: the kinds of client and what they send.     *)
EXTENDS SessionRefinement

Query(stmts) == <<Message("Q", "", stmts, 0)>>
Parse(name, s) == Message("P", name, <<s>>, 0)
Bind(name) == Message("B", name, <<>>, 0)
Execute == Message("E", "", <<>>, 0)
Close(name) == Message("C", name, <<>>, 0)
Sync == Message("S", "", <<>>, 0)

\* One statement in one batch, as drivers send it without a cache.
Unnamed(s) == <<Parse("", s), Bind(""), Execute, Sync>>

\* Each statement in a simple Query of its own.
SimpleRequests ==
  {Query(<<s>>) : s \in ClientStatements \ {"refused"}}

\* Each statement prepared, bound, executed and synced in one batch, and the
\* first statement of a transaction in the batch of its BEGIN, where no
\* savepoint fits.
UnnamedRequests ==
  {Unnamed(s) : s \in {"begin", "commit", "rollback", "write", "lock", "opaque"}}
  \cup {<<Parse("", "begin"), Bind(""), Execute,
          Parse("", s), Bind(""), Execute, Sync>> : s \in {"write", "lock"}}

\* The named statement, closed and prepared again with either text, run, and
\* closed.
NamedRequests ==
  {Query(<<s>>) : s \in {"begin", "commit", "rollback"}}
  \cup {<<Close("s1"), Parse("s1", s), Sync>> : s \in {"write", "insert"}}
  \cup {<<Bind("s1"), Execute, Sync>>, <<Close("s1"), Sync>>}

\* Statements the ruleset and the transaction rules refuse, in both protocols.
RefusedRequests ==
  {Query(<<s>>) : s \in {"begin", "commit", "refused", "ddl", "write"}}
  \cup {Unnamed(s) : s \in {"rollback", "refused"}}

\* The same where no conflict is deferred: the answer to the refused lock
\* cannot be reproduced.
OpaqueRequests ==
  {Query(<<s>>) : s \in {"begin", "commit", "refused", "ddl", "opaque"}}
  \cup {Unnamed(s) : s \in {"rollback", "refused"}}

\* Clients whose statements meet lock conflicts.
ConflictClients ==
  <<SimpleRequests, UnnamedRequests, NamedRequests, OpaqueRequests>>

\* A client whose statements are refused.
RefusedClients == <<RefusedRequests>>

-----------------------------------------------------------------------------
(* The clients of the runs that show a disagreement.                       *)

\* A statement after BEGIN, neither waited for.
BeginWrite == <<{Query(<<"begin">>), Query(<<"write">>)}>>

\* A statement refused at its Parse inside a transaction.
BeginRefused == <<{Query(<<"begin">>), Unnamed("refused")}>>

\* A read, and a statement the emulator answers itself.
ReadRefused == <<{Query(<<"read">>), Query(<<"refused">>)}>>

\* Transactions of inserts.
InsertTransactions == <<{Query(<<s>>) : s \in {"begin", "insert", "commit"}}>>

\* The same, and refused statements.
InsertsAndRefused == <<InsertTransactions[1] \cup {Query(<<"refused">>)}>>

\* Two statements before one Sync.
TwoInserts ==
  <<{Query(<<"begin">>),
   <<Parse("", "insert"), Bind(""), Execute, Bind(""), Execute, Sync>>}>>

\* COMMIT and the next BEGIN in one text.
CommitAndBegin ==
  <<{Query(<<"begin">>), Query(<<"insert">>), Query(<<"commit", "begin">>)}>>

\* A name prepared again without being closed.
Reprepared ==
  <<{<<Parse("s1", s), Sync>> : s \in {"write", "ddl"}} \cup {<<Bind("s1"), Execute, Sync>>}>>

\* The unnamed statement run again after the Sync of the batch that parsed it.
UnnamedReused ==
  <<{Unnamed("begin"), Unnamed("write"), <<Bind(""), Execute, Sync>>}>>

\* A statement and a BEGIN in one text.
WriteThenBegin == <<{Query(<<"write", "begin">>)}>>
=============================================================================
