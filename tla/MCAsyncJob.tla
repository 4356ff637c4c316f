----------------------------- MODULE MCAsyncJob -----------------------------
(* Small instances of AsyncJob: the requests a client sends.               *)
EXTENDS AsyncJob

Query(stmts) == <<Message("Q", stmts)>>
Parse(s) == Message("P", <<s>>)
Describe == Message("D", <<>>)
Bind == Message("B", <<>>)
Execute == Message("E", <<>>)
Sync == Message("S", <<>>)

\* Texts of one to three statements with the asynchronous one anywhere, and a
\* rewritten one by itself; prepared statements that are described with the
\* batch that runs them, and then run again with a Describe of their own.
LockStepRequests ==
  {Query(s) : s \in {<<"async">>, <<"plain">>, <<"show">>, <<"plain", "async">>,
                     <<"plain", "async", "plain">>, <<"plain", "plain", "async">>}}
  \cup {<<Parse(s), Describe, Bind, Execute, Sync>> : s \in {"async", "plain"}}
  \cup {<<Parse("async"), Sync>>, <<Bind, Describe, Execute, Sync>>}

-----------------------------------------------------------------------------
(* The clients of the runs that show a disagreement.                       *)

\* A statement prepared earlier runs in the batch that prepares the next one.
BatchedRequests ==
  {<<Parse("plain"), Bind, Execute, Parse("async"), Bind, Execute, Sync>>}

\* A statement described when it is prepared, and run later.
PreparedRequests == {<<Parse("async"), Describe, Sync>>, <<Bind, Execute, Sync>>}

\* A rewritten statement, and another.
ShowRequests == {Query(<<"show">>), Query(<<"plain">>)}
=============================================================================
