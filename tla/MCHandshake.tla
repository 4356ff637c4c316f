--------------------------- MODULE MCHandshake ---------------------------
(* Instances of Handshake.                                                 *)
EXTENDS Handshake

\* A declared length from below the least to above the most; the smallest
\* valid ones are an encryption request and an empty tagged message.
MCMaxMessageLength == 10
MCLimits == <<"dsql.row_cap", "lock_timeout">>

Ssl == [kind |-> "ssl", length |-> 8]
Gss == [kind |-> "gss", length |-> 8]
Cancel == [kind |-> "other", length |-> 9]
Startup(ps, os) ==
  [kind |-> "startup", length |-> 10, decodes |-> TRUE, params |-> ps, options |-> os]
Plain == Startup({}, << >>)
Custom ==
  Startup({"default_transaction_isolation", "user"},
          <<Option("lock_timeout", "client"), Option("dsql.row_cap", "client")>>)
Malformed == [Plain EXCEPT !.decodes = FALSE]
Tagged(k, l) == [kind |-> k, length |-> l]

\* The rest of a session, with lengths at and beyond the bounds.
Rest == {<<Tagged("query", 4), Tagged("query", 6), Tagged("terminate", 4), Tagged("query", 4)>>,
         <<Tagged("query", 10), Tagged("query", 3)>>,
         <<Tagged("query", 11)>>}

MCScripts ==
  {asks \o <<start>> \o rest :
     asks \in {<< >>, <<Ssl>>, <<Gss>>, <<Gss, Ssl>>, <<Ssl, Gss>>, <<Ssl, Ssl>>},
     start \in {Plain, Custom, Malformed}, rest \in Rest}
  \cup {<<Cancel, Tagged("query", 4)>>, <<Gss, Cancel, Tagged("query", 4)>>,
        <<[Plain EXCEPT !.length = 7]>>, <<[Plain EXCEPT !.length = 11]>>}

\* A limit given as a parameter of the startup message.
ParameterScripts == {<<Startup({"lock_timeout"}, << >>)>>}

\* A cancel request over an encrypted connection.
CancelScripts == {<<Ssl, Cancel, Tagged("query", 4)>>}

MCFlags ==
  [noTLS : BOOLEAN, cert : BOOLEAN, key : BOOLEAN, loads : BOOLEAN, upstream : BOOLEAN]

\* Started without arguments.
DefaultFlags ==
  {[noTLS |-> FALSE, cert |-> FALSE, key |-> FALSE, loads |-> TRUE, upstream |-> TRUE]}
=============================================================================
