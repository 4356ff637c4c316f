----------------------------- MODULE Handshake -----------------------------
(***************************************************************************)
(* How one client's bytes become messages (wire/framing.go) and how a      *)
(* connection opens (session.handshake, negotiateTLS, and the choice       *)
(* proxy.serve makes of it), with the TLS settings the emulator was        *)
(* started with (main, buildTLS, tls.go). The client sends the messages of *)
(* its script in pieces of any size and may leave between any two bytes;   *)
(* it waits for the answer to an encryption request, as the protocol asks. *)
(* A message's length is the one it declares. Bytes are counted, not       *)
(* modelled. The server that reads the startup message is external.        *)
(***************************************************************************)
EXTENDS Naturals, Sequences, FiniteSets, Functions

CONSTANTS
  Scripts,          \* what a client may send, sequences of messages
  Flags,            \* the command lines the emulator may be started with
  maxMessageLength, \* the bound on a declared length
  Limits            \* the ruleset's limits that are on: names of settings, in order

VARIABLES
  flags,    \* the command line
  pc,       \* "main", "exited", "startup", "tls", "run", "relay" or "closed"
  script,   \* what this client sends
  peer,     \* the client: "open", "eof" (closed after its bytes) or "gone"
  arrived,  \* bytes the client has sent
  pos,      \* bytes read
  at,       \* where the reader stands in a message: "header" or "body"
  n,        \* messages read
  layers,   \* TLS connections s.client is wrapped in
  answers,  \* the bytes 'S' and 'N' written to the client
  taken,    \* per message read, the layers it was read through
  upstream, \* what was written upstream or handed to the frontend pump's handlers
  sealed    \* whether a relayed byte was still encrypted

vars == <<flags, pc, script, peer, arrived, pos, at, n, layers, answers, taken,
          upstream, sealed>>

-----------------------------------------------------------------------------
(* The emulator starts.                                                    *)

\* The certificate and key, of which one may be missing, either load together
\* or stop the emulator.
buildTLS(f) ==
  IF f.noTLS THEN "none"
  ELSE IF f.cert \/ f.key
       THEN IF f.cert /\ f.key /\ f.loads THEN "loaded" ELSE "error"
       ELSE "selfSigned"

tlsConfig == buildTLS(flags)

-----------------------------------------------------------------------------
(* Framing.                                                                *)

Opening == {"ssl", "gss", "startup", "other"}
Encryption == {"ssl", "gss"}
Kinds == Opening \cup {"query", "terminate"}

\* A setting given as an option, and who gives it.
Option(setting, by) == [setting |-> setting, by |-> by]

Messages ==
  [kind : Kinds \ {"startup"}, length : Nat]
  \cup [kind : {"startup"}, length : Nat, decodes : BOOLEAN, params : SUBSET STRING,
        options : Seq([setting : STRING, by : {"client"}])]

\* Which messages open a connection is a matter of where they come: every one
\* up to the first that is not an encryption request.
WellFormed(s) ==
  \A i \in DOMAIN s :
    s[i].kind \in Opening <=> \A j \in 1 .. i - 1 : s[j].kind \in Encryption

ASSUME HandshakeAssumption ==
  /\ Scripts \subseteq Seq(Messages) /\ \A s \in Scripts : WellFormed(s)
  /\ Flags \subseteq [noTLS : BOOLEAN, cert : BOOLEAN, key : BOOLEAN, loads : BOOLEAN,
                     upstream : BOOLEAN]
  /\ maxMessageLength \in Nat
  /\ Limits \in Seq(STRING) /\ \A i, j \in DOMAIN Limits : i # j => Limits[i] # Limits[j]

\* A tagged message's length leaves out its type byte.
Size(m) == IF m.kind \in Opening THEN m.length ELSE m.length + 1

\* Where the message after the first k begins.
Offset(k) ==
  LET sum[i \in 0 .. Len(script)] == IF i = 0 THEN 0 ELSE sum[i - 1] + Size(script[i])
  IN  sum[k]

\* The message the reader stands in.
Current == script[n + 1]

\* ReadStartup's length prefix, ReadTagged's type byte and length.
HeaderSize == IF pc = "startup" THEN 4 ELSE 5

lengthValid(m) ==
  /\ m.length >= (IF pc = "startup" THEN 8 ELSE 4)
  /\ m.length <= maxMessageLength

\* Mutation: the length is taken not to count itself.
bodySizeWhole(m) == m.length

bodySize(m) == m.length - 4

\* io.ReadFull of k bytes: it returns, or fails, or waits.
Full(k) == k = 0 \/ (peer # "gone" /\ arrived - pos >= k)
Short(k) == k > 0 /\ (peer = "gone" \/ (peer = "eof" /\ arrived - pos < k))

Awaited == IF at = "header" THEN HeaderSize ELSE bodySize(Current)

ReadFails ==
  /\ pc \in {"startup", "run"}
  /\ IF n = Len(script) THEN peer # "open" ELSE Short(Awaited)
  /\ pc' = "closed"
  /\ UNCHANGED <<flags, script, peer, arrived, pos, at, n, layers, answers,
                 taken, upstream, sealed>>

ReadHeader ==
  /\ pc \in {"startup", "run"} /\ at = "header" /\ n < Len(script)
  /\ Full(HeaderSize)
  /\ pos' = pos + HeaderSize
  /\ IF lengthValid(Current) THEN at' = "body" /\ pc' = pc
                             ELSE at' = at /\ pc' = "closed"
  /\ UNCHANGED <<flags, script, peer, arrived, n, layers, answers, taken,
                 upstream, sealed>>

ReadBody ==
  /\ at = "body" /\ Full(bodySize(Current))
  /\ pos' = pos + bodySize(Current)
  /\ at' = "header" /\ n' = n + 1
  /\ taken' = Append(taken, layers)
  /\ UNCHANGED <<flags, script, peer, arrived, layers, sealed>>

-----------------------------------------------------------------------------
(* The startup message.                                                    *)

\* What the emulator sets: one parameter, and options for the limits that are
\* on.
params == {"default_transaction_isolation"}
options == [i \in DOMAIN Limits |-> Option(Limits[i], "emulator")]

\* Mutation: the client's options come last.
RewriteStartupLast(m) ==
  IF m.decodes
  THEN [kind |-> "rewritten", n |-> n + 1, params |-> params \cup m.params,
        options |-> options \o m.options]
  ELSE [kind |-> "raw", n |-> n + 1]

\* A message that cannot be decoded, or encoded again, is passed on as it is.
RewriteStartup(m) ==
  IF m.decodes
  THEN [kind |-> "rewritten", n |-> n + 1, params |-> params \cup m.params,
        options |-> m.options \o options]
  ELSE [kind |-> "raw", n |-> n + 1]

\* Who decides a setting in the server's session (external): a parameter goes
\* before the options, and a later option before an earlier one.
Decides(msg, setting) ==
  LET given == {i \in DOMAIN msg.options : msg.options[i].setting = setting}
      last  == CHOOSE i \in given : \A j \in given : j <= i
  IN  IF setting \in msg.params
      THEN IF setting \in params THEN "emulator" ELSE "client"
      ELSE IF given # {} THEN msg.options[last].by ELSE "server"

-----------------------------------------------------------------------------
(* session.handshake.                                                      *)

\* One byte for the client, which may have vanished since its request was read.
Answer(byte, next) ==
  \/ pc' = next /\ answers' = Append(answers, byte)
  \/ pc' = "closed" /\ answers' = answers

negotiateTLS ==
  /\ IF tlsConfig = "none" THEN Answer("N", "startup") ELSE Answer("S", "tls")
  /\ upstream' = upstream

\* Mutation: the request is passed over.
declineGSSSilent == UNCHANGED <<pc, answers, upstream>>

declineGSS == Answer("N", "startup") /\ upstream' = upstream

\* Write upstream, which may fail, and go on to mode.
Pass(msg, mode) ==
  /\ \/ pc' = mode /\ upstream' = Append(upstream, msg)
     \/ pc' = "closed" /\ upstream' = upstream
  /\ answers' = answers

handshake ==
  /\ pc = "startup" /\ ReadBody
  /\ CASE Current.kind = "ssl"     -> negotiateTLS
       [] Current.kind = "gss"     -> declineGSS
       [] Current.kind = "startup" -> Pass(RewriteStartup(Current), "run")
       [] OTHER -> Pass([kind |-> "raw", n |-> n + 1], "relay")

\* Mutation: the session goes on with the connection it had.
HandshakeContextUnwrapped ==
  /\ pc = "tls"
  /\ \/ peer = "open" /\ pc' = "startup"
     \/ pc' = "closed"
  /\ UNCHANGED <<flags, script, peer, arrived, pos, at, n, layers, answers,
                 taken, upstream, sealed>>

\* The TLS handshake with the client succeeds, if it is there, or fails.
HandshakeContext ==
  /\ pc = "tls"
  /\ \/ peer = "open" /\ pc' = "startup" /\ layers' = layers + 1
     \/ pc' = "closed" /\ layers' = layers
  /\ UNCHANGED <<flags, script, peer, arrived, pos, at, n, answers, taken,
                 upstream, sealed>>

\* The frontend pump's read; what it does with a message is Session's. A
\* Terminate ends it.
pumpFrontend ==
  /\ pc = "run" /\ ReadBody
  /\ pc' = IF Current.kind = "terminate" THEN "closed" ELSE "run"
  /\ answers' = answers
  /\ upstream' = Append(upstream, [kind |-> "raw", n |-> n + 1])

\* The raw relay is given the connection that was accepted, not s.client.
Relay ==
  /\ pc = "relay"
  /\ \/ /\ peer # "gone" /\ arrived > pos
        /\ pos' \in pos + 1 .. arrived
        /\ upstream' = Append(upstream, [kind |-> "bytes", n |-> pos' - pos])
        /\ sealed' = (sealed \/ layers > 0)
        /\ pc' = pc
     \/ /\ peer = "gone" \/ (peer = "eof" /\ arrived = pos)
        /\ pc' = "closed" /\ UNCHANGED <<pos, upstream, sealed>>
  /\ UNCHANGED <<flags, script, peer, arrived, at, n, layers, answers, taken>>

Session == ReadFails \/ ReadHeader \/ handshake \/ HandshakeContext
           \/ pumpFrontend \/ Relay

-----------------------------------------------------------------------------
(* The emulator's start and the client (external).                         *)

Init ==
  /\ flags \in Flags /\ script \in Scripts
  /\ pc = "main" /\ peer = "open" /\ arrived = 0 /\ pos = 0 /\ at = "header"
  /\ n = 0 /\ layers = 0 /\ answers = << >> /\ taken = << >>
  /\ upstream = << >> /\ sealed = FALSE

main ==
  /\ pc = "main"
  /\ pc' = IF tlsConfig = "error" \/ ~flags.upstream THEN "exited" ELSE "startup"
  /\ UNCHANGED <<flags, script, peer, arrived, pos, at, n, layers, answers,
                 taken, upstream, sealed>>

\* The encryption requests come first, so the k-th message is one that has no
\* answer yet when there are fewer than k.
Unanswered(k) == script[k].kind \in Encryption /\ Len(answers) < k

\* Up to the first encryption request that has no answer yet.
Sendable ==
  LET free == {k \in 0 .. Len(script) : \A i \in 1 .. k - 1 : ~Unanswered(i)}
  IN  Offset(CHOOSE k \in free : \A j \in free : j <= k)

ClientSends ==
  /\ pc \in {"startup", "run", "relay"} /\ peer = "open"
  /\ arrived' \in arrived + 1 .. Sendable
  /\ UNCHANGED <<flags, pc, script, peer, pos, at, n, layers, answers, taken,
                 upstream, sealed>>

ClientLeaves ==
  /\ pc \notin {"main", "exited", "closed"} /\ peer = "open"
  /\ peer' \in {"eof", "gone"}
  /\ UNCHANGED <<flags, pc, script, arrived, pos, at, n, layers, answers, taken,
                 upstream, sealed>>

Next == main \/ Session \/ ClientSends \/ ClientLeaves

\* The session's goroutine runs. Nothing is assumed of the client.
Spec == Init /\ [][Next]_vars /\ WF_vars(Session)

-----------------------------------------------------------------------------
(* Properties.                                                             *)

\* What is written upstream: a message as it came, one that was rewritten, or
\* a piece of what is relayed.
Wires ==
  [kind : {"raw", "bytes"}, n : Nat]
  \cup [kind : {"rewritten"}, n : Nat, params : SUBSET (params \cup STRING),
        options : Seq([setting : STRING, by : {"client", "emulator"}])]

\* The stages of a connection: ReadFull takes no byte that has not arrived,
\* and there is no TLS connection without an answer that agreed to it.
TypeOK ==
  /\ flags \in Flags /\ script \in Scripts
  /\ pc \in {"main", "exited", "startup", "tls", "run", "relay", "closed"}
  /\ peer \in {"open", "eof", "gone"} /\ at \in {"header", "body"}
  /\ arrived \in Nat /\ pos \in Nat /\ pos <= arrived
  /\ n \in Nat /\ n <= Len(script)
  /\ taken \in Seq(Nat) /\ Len(taken) = n
  /\ answers \in Seq({"S", "N"}) /\ layers \in Nat /\ layers <= Len(answers)
  /\ upstream \in Seq(Wires) /\ sealed \in BOOLEAN

\* The messages written upstream or handed on, and those that are to be.
Passed == {i \in DOMAIN upstream : upstream[i].kind # "bytes"}
Sent == {upstream[i].n : i \in Passed}
Due == {i \in 1 .. n : script[i].kind \notin Encryption}

\* "forward the original bytes verbatim" (framing.go): in whatever pieces the
\* bytes come, the reader is never out of step with the client's messages, and
\* the upstream is sent each whole message but the encryption requests, once
\* and in order, and never part of one the client did not finish.
WholeMessages ==
  /\ pc \in {"startup", "tls", "run"} =>
       pos = Offset(n) + (IF at = "body" THEN HeaderSize ELSE 0)
  /\ \A i, j \in Passed : i < j => upstream[i].n < upstream[j].n
  /\ IF pc = "closed"
     THEN Sent \subseteq Due /\ \A i \in Due : (\E k \in Sent : i <= k) => i \in Sent
     ELSE Sent = Due

\* The encryption requests that were agreed to, up to the k-th message.
Agreed(k) == {i \in 1 .. k : script[i].kind = "ssl" /\ ~flags.noTLS}

\* handshake: "terminating client TLS when asked": every message the session
\* reads came through as many TLS connections as it had agreed to before, and
\* a client is refused encryption only by an emulator started with --no-tls.
EncryptedOnceAgreed ==
  /\ \A j \in DOMAIN answers : answers[j] = "S" <=> j \in Agreed(j)
  /\ \A i \in 1 .. n : taken[i] = Cardinality(Agreed(i - 1))

\* Why: only encryption requests have been read before the startup message
\* and each has its answer, a body is read only of a message whose length was
\* valid, and a TLS connection is set up for every request that was agreed to
\* but the one being negotiated.
StageInv ==
  /\ pc \in {"main", "exited"} => n = 0 /\ pos = 0
  /\ pc \in {"main", "exited", "startup", "tls"} =>
       Len(answers) = n /\ \A i \in 1 .. n : script[i].kind \in Encryption
  /\ pc = "run" => \E i \in 1 .. n : script[i].kind \notin Encryption
  /\ pc \notin {"startup", "run", "closed"} => at = "header"
  /\ pc # "closed" /\ at = "body" => n < Len(script) /\ lengthValid(Current)
  /\ Len(answers) <= n
  /\ pc \notin {"main", "exited"} => tlsConfig # "error"
  /\ pc = "tls" => layers < Len(answers) /\ layers + 1 = Cardinality(Agreed(n))
  /\ pc \notin {"tls", "closed"} => layers = Cardinality(Agreed(n))
  /\ \A i \in DOMAIN upstream :
       upstream[i].kind = "rewritten" =>
         LET m == script[upstream[i].n]
         IN  /\ upstream[i].n \in 1 .. n /\ m.kind = "startup"
             /\ upstream[i].params = params \cup m.params
             /\ upstream[i].options = m.options \o options

\* README.md: "REPEATABLE READ pinned"; handshake: the emulator's isolation
\* level, row cap and lock timeout hold in every session whose startup message
\* the server can read, whatever parameters and options the client sent, and
\* the client's other parameters are kept.
SettingsImposed ==
  \A i \in 1 .. Len(upstream) :
    upstream[i].kind = "rewritten" =>
      /\ \A s \in params \cup Range(Limits) : Decides(upstream[i], s) = "emulator"
      /\ script[upstream[i].n].params \subseteq upstream[i].params

\* The protocol has the client wait for one byte after an encryption request
\* and the emulator then wait for the next message: neither waits for the
\* other for ever, since every request that arrived is answered.
RequestsAnswered ==
  LET waiting == \E k \in DOMAIN script : Unanswered(k) /\ arrived >= Offset(k)
  IN  waiting ~> ~waiting \/ pc = "closed"

\* handshake: "terminating client TLS when asked. ... only an opening message
\* the emulator does not model falls back to a raw relay": what the relay
\* passes on is what the client sent, with its encryption taken off.
RelayDecrypts == ~sealed
=============================================================================
