----------------------------- MODULE Lifecycle -----------------------------
(***************************************************************************)
(* The proxy's connections (proxy.go, relay.go and the ends of a session): *)
(* Run accepts clients and starts serve for each; serve dials the upstream,*)
(* registers both sockets, runs the handshake and then either the session's*)
(* two pumps or the raw relay's two pipes; cancelling the context closes   *)
(* the listener and every registered socket. What the messages say is in   *)
(* Session; here a message is a unit of data. The peers are external: a    *)
(* client may send, shut down its write side or vanish at any time, and    *)
(* the upstream server answers requests and closes when it reads EOF.      *)
(***************************************************************************)
EXTENDS Naturals, FiniteSets

CONSTANT Clients  \* client connections

VARIABLES
  run,      \* Proxy.Run: "accepting" or "returned"
  ctxDone,  \* whether the context is cancelled
  stopping, \* the AfterFunc: "waiting", "listener" closed, "done", or "off"
  conns,    \* p.conns, the registered sockets, guarded by p.mu
  swept,    \* sockets closeConns closed
  sess      \* per client, its serve goroutine and sockets

vars == <<run, ctxDone, stopping, conns, swept, sess>>

\* The proxy's view of a socket: not closed; its write side not shut down;
\* what the peer has done; whether there is unread data.
Fresh == [open |-> TRUE, writing |-> TRUE, peer |-> "open", data |-> FALSE]
Unopened == [Fresh EXCEPT !.open = FALSE]

\* owed: the server has a request to answer. broken: a peer vanished, the
\* server closed unasked, or the shutdown closed a socket.
NoSession ==
  [pc |-> "none", mode |-> "none", fe |-> "off", be |-> "off",
   client |-> Unopened, upstream |-> Unopened, owed |-> FALSE, broken |-> FALSE]

Init ==
  /\ run = "accepting" /\ ctxDone = FALSE /\ stopping = "waiting"
  /\ conns = {} /\ swept = {}
  /\ sess = [c \in Clients |-> NoSession]

Update(c, s) == sess' = [sess EXCEPT ![c] = s]

OnlySess == UNCHANGED <<run, ctxDone, stopping, conns, swept>>

ReadEOF(k) == k.open /\ k.peer = "eof" /\ ~k.data
ReadError(k) == ~k.open \/ k.peer = "gone"
Readable(k) == k.open /\ k.peer # "gone" /\ k.data
WriteError(k) == ~k.open \/ ~k.writing \/ k.peer = "gone"

Close(k) == [k EXCEPT !.open = FALSE, !.data = FALSE]

-----------------------------------------------------------------------------
(* Proxy.Run and its shutdown.                                             *)

Accept(c) ==
  /\ run = "accepting" /\ stopping = "waiting"
  /\ sess[c].pc = "none"
  /\ Update(c, [NoSession EXCEPT !.pc = "dial", !.client = Fresh])
  /\ OnlySess

\* Accept fails while the context is live: Run returns, and its deferred stop
\* takes the AfterFunc back.
AcceptFails ==
  /\ run = "accepting" /\ ~ctxDone
  /\ run' = "returned" /\ stopping' = "off"
  /\ UNCHANGED <<ctxDone, conns, swept, sess>>

\* Accept fails because the listener was closed.
RunReturns ==
  /\ run = "accepting" /\ stopping \in {"listener", "done"}
  /\ run' = "returned"
  /\ UNCHANGED <<ctxDone, stopping, conns, swept, sess>>

Cancel ==
  /\ ~ctxDone
  /\ ctxDone' = TRUE
  /\ UNCHANGED <<run, stopping, conns, swept, sess>>

CloseListener ==
  /\ ctxDone /\ stopping = "waiting"
  /\ stopping' = "listener"
  /\ UNCHANGED <<run, ctxDone, conns, swept, sess>>

\* Mutation: only the upstream socket is closed.
SweptUpstream(s, mine) ==
  [s EXCEPT !.upstream = IF "upstream" \in mine THEN Close(@) ELSE @,
            !.broken = @ \/ mine # {}]

\* A session of whose sockets the ones in mine were registered.
Swept(s, mine) ==
  [s EXCEPT !.client   = IF "client" \in mine THEN Close(@) ELSE @,
            !.upstream = IF "upstream" \in mine THEN Close(@) ELSE @,
            !.broken = @ \/ mine # {}]

\* closeConns, under p.mu.
CloseConns ==
  /\ stopping = "listener"
  /\ stopping' = "done"
  /\ swept' = conns
  /\ sess' = [c \in Clients |->
       Swept(sess[c], {k \in {"client", "upstream"} : <<c, k>> \in conns})]
  /\ UNCHANGED <<run, ctxDone, conns>>

-----------------------------------------------------------------------------
(* Proxy.serve.                                                            *)

\* dialUpstream, which a cancelled context fails.
Dial(c) ==
  /\ sess[c].pc = "dial"
  /\ \/ /\ ~ctxDone
        /\ Update(c, [sess[c] EXCEPT !.pc = "trackClient", !.upstream = Fresh])
     \/ Update(c, [sess[c] EXCEPT !.pc = "done", !.client = Close(@)])
  /\ OnlySess

Track(c, from, socket, to) ==
  /\ sess[c].pc = from
  /\ conns' = conns \cup {<<c, socket>>}
  /\ Update(c, [sess[c] EXCEPT !.pc = to])
  /\ UNCHANGED <<run, ctxDone, stopping, swept>>

TrackClient(c) == Track(c, "trackClient", "client", "trackUpstream")
TrackUpstream(c) == Track(c, "trackUpstream", "upstream", "handshake")

\* handshake: a startup message is rewritten and intercepted, any other
\* opening message is passed on and relayed. Declined or accepted encryption
\* only repeats the read; a message of an impossible length, a failed TLS
\* handshake or a failed write ends the connection.
Handshake(c) ==
  LET s == sess[c]
      passed == [s EXCEPT !.client.data = FALSE, !.owed = TRUE,
                          !.fe = "on", !.be = "on"]
  IN  /\ s.pc = "handshake"
      /\ \/ /\ ReadEOF(s.client) \/ ReadError(s.client)
            /\ Update(c, [s EXCEPT !.pc = "close"])
         \/ /\ Readable(s.client)
            /\ Update(c, [s EXCEPT !.pc = "close"])
         \/ /\ Readable(s.client)
            /\ ~WriteError(s.upstream)
            /\ \E mode \in {"run", "relay"} :
                 Update(c, [passed EXCEPT !.pc = mode, !.mode = mode])
      /\ OnlySess

\* Both pumps, or both pipes, have returned.
PumpsEnd(c) ==
  /\ sess[c].pc \in {"run", "relay"}
  /\ sess[c].fe = "done" /\ sess[c].be = "done"
  /\ Update(c, [sess[c] EXCEPT !.pc = "close"])
  /\ OnlySess

\* Mutation: only the client is taken off the list.
UntrackedClient(c) == {<<c, "client">>}

Untracked(c) == {<<c, "client">>, <<c, "upstream">>}

\* serve's deferred calls.
ServeReturns(c) ==
  /\ sess[c].pc = "close"
  /\ conns' = conns \ Untracked(c)
  /\ Update(c, [sess[c] EXCEPT !.pc = "done", !.client = Close(@),
                               !.upstream = Close(@)])
  /\ UNCHANGED <<run, ctxDone, stopping, swept>>

Serve(c) ==
  \/ Dial(c) \/ TrackClient(c) \/ TrackUpstream(c) \/ Handshake(c)
  \/ PumpsEnd(c) \/ ServeReturns(c)

-----------------------------------------------------------------------------
(* session.run: the frontend pump closes the upstream when it returns; the *)
(* backend pump closes nothing.                                            *)

\* Mutation: the upstream is left open.
FrontendReturnedOpen(s) == [s EXCEPT !.fe = "done"]

FrontendReturned(s) == [s EXCEPT !.fe = "done", !.upstream = Close(@)]

\* A message is forwarded; a failed write closes both sockets.
PumpFrontend(c) ==
  LET s == sess[c]
  IN  /\ s.pc = "run" /\ s.fe = "on"
      /\ \/ /\ ReadEOF(s.client) \/ ReadError(s.client)
            /\ Update(c, FrontendReturned(s))
         \/ /\ Readable(s.client) /\ WriteError(s.upstream)
            /\ Update(c, [s EXCEPT !.client = Close(@), !.upstream = Close(@)])
         \/ /\ Readable(s.client) /\ ~WriteError(s.upstream)
            /\ Update(c, [s EXCEPT !.client.data = FALSE, !.owed = TRUE])
      /\ OnlySess

\* A message the emulator answers itself, or drops until the Sync: the upstream
\* is not written to, and a failed write to the client is ignored.
PumpAnswers(c) ==
  /\ sess[c].pc = "run" /\ sess[c].fe = "on"
  /\ Readable(sess[c].client)
  /\ Update(c, [sess[c] EXCEPT !.client.data = FALSE])
  /\ OnlySess

\* Terminate is passed on and ends the pump, as does a message of an
\* impossible length.
PumpTerminate(c) ==
  /\ sess[c].pc = "run" /\ sess[c].fe = "on"
  /\ Readable(sess[c].client)
  /\ Update(c, FrontendReturned([sess[c] EXCEPT !.client.data = FALSE]))
  /\ OnlySess

PumpBackend(c) ==
  LET s == sess[c]
  IN  /\ s.pc = "run" /\ s.be = "on"
      /\ \/ /\ ReadEOF(s.upstream) \/ ReadError(s.upstream)
            /\ Update(c, [s EXCEPT !.be = "done"])
         \/ /\ Readable(s.upstream) /\ WriteError(s.client)
            /\ Update(c, [s EXCEPT !.upstream.data = FALSE, !.be = "done"])
         \/ /\ Readable(s.upstream) /\ ~WriteError(s.client)
            /\ Update(c, [s EXCEPT !.upstream.data = FALSE])
      /\ OnlySess

-----------------------------------------------------------------------------
(* relay: a clean EOF is passed on as a half-close; anything else closes   *)
(* the pair.                                                               *)

\* Mutation: the destination is closed altogether.
closeWriteClosing(k) == Close(k)

closeWrite(k) == [k EXCEPT !.writing = FALSE]

closePair(s) == [s EXCEPT !.client = Close(@), !.upstream = Close(@)]

\* pipe(upstream, client).
PipeUp(c) ==
  LET s == sess[c]
  IN  /\ s.pc = "relay" /\ s.fe = "on"
      /\ \/ /\ ReadEOF(s.client)
            /\ Update(c, [s EXCEPT !.fe = "done", !.upstream = closeWrite(@)])
         \/ /\ \/ ReadError(s.client)
               \/ Readable(s.client) /\ WriteError(s.upstream)
            /\ Update(c, closePair([s EXCEPT !.fe = "done"]))
         \/ /\ Readable(s.client) /\ ~WriteError(s.upstream)
            /\ Update(c, [s EXCEPT !.client.data = FALSE, !.owed = TRUE])
      /\ OnlySess

\* pipe(client, upstream).
PipeDown(c) ==
  LET s == sess[c]
  IN  /\ s.pc = "relay" /\ s.be = "on"
      /\ \/ /\ ReadEOF(s.upstream)
            /\ Update(c, [s EXCEPT !.be = "done", !.client = closeWrite(@)])
         \/ /\ \/ ReadError(s.upstream)
               \/ Readable(s.upstream) /\ WriteError(s.client)
            /\ Update(c, closePair([s EXCEPT !.be = "done"]))
         \/ /\ Readable(s.upstream) /\ ~WriteError(s.client)
            /\ Update(c, [s EXCEPT !.upstream.data = FALSE])
      /\ OnlySess

Pumps(c) ==
  \/ PumpFrontend(c) \/ PumpAnswers(c) \/ PumpTerminate(c) \/ PumpBackend(c)
  \/ PipeUp(c) \/ PipeDown(c)

-----------------------------------------------------------------------------
(* The peers (external).                                                   *)

ClientSends(c) ==
  /\ sess[c].client.open /\ sess[c].client.peer = "open" /\ ~sess[c].client.data
  /\ Update(c, [sess[c] EXCEPT !.client.data = TRUE])
  /\ OnlySess

ClientLeaves(c) ==
  /\ sess[c].pc \notin {"none", "done"}
  /\ \/ /\ sess[c].client.peer = "open"
        /\ Update(c, [sess[c] EXCEPT !.client.peer = "eof"])
     \/ /\ sess[c].client.peer # "gone"
        /\ Update(c, [sess[c] EXCEPT !.client.peer = "gone", !.broken = TRUE])
  /\ OnlySess

ServerAnswers(c) ==
  /\ sess[c].owed /\ sess[c].upstream.open
  /\ sess[c].upstream.peer = "open" /\ ~sess[c].upstream.data
  /\ Update(c, [sess[c] EXCEPT !.upstream.data = TRUE, !.owed = FALSE])
  /\ OnlySess

\* The server reads our EOF once it has answered.
ServerCloses(c) ==
  /\ sess[c].upstream.peer = "open"
  /\ sess[c].upstream.open /\ ~sess[c].upstream.writing /\ ~sess[c].owed
  /\ Update(c, [sess[c] EXCEPT !.upstream.peer = "eof"])
  /\ OnlySess

ServerFails(c) ==
  /\ sess[c].upstream.open /\ sess[c].upstream.peer = "open"
  /\ \E how \in {"eof", "gone"} :
       Update(c, [sess[c] EXCEPT !.upstream.peer = how, !.broken = TRUE])
  /\ OnlySess

Peers(c) ==
  \/ ClientSends(c) \/ ClientLeaves(c) \/ ServerAnswers(c) \/ ServerCloses(c)
  \/ ServerFails(c)

Shutdown == RunReturns \/ CloseListener \/ CloseConns

Next ==
  \/ AcceptFails \/ Cancel \/ Shutdown
  \/ \E c \in Clients : Accept(c) \/ Serve(c) \/ Pumps(c) \/ Peers(c)

\* The goroutines run, a dial ends (DialTimeout), and the server answers and
\* closes. Nothing is assumed of the clients.
Fairness ==
  /\ WF_vars(Shutdown)
  /\ \A c \in Clients :
       /\ WF_vars(Serve(c))
       /\ WF_vars(PumpFrontend(c)) /\ WF_vars(PumpBackend(c))
       /\ WF_vars(PipeUp(c)) /\ WF_vars(PipeDown(c))
       /\ WF_vars(ServerAnswers(c)) /\ WF_vars(ServerCloses(c))

Spec == Init /\ [][Next]_vars /\ Fairness

-----------------------------------------------------------------------------
Sockets ==
  [open : BOOLEAN, writing : BOOLEAN, peer : {"open", "eof", "gone"}, data : BOOLEAN]

Sessions ==
  [pc : {"none", "dial", "trackClient", "trackUpstream", "handshake", "run",
         "relay", "close", "done"},
   mode : {"none", "run", "relay"},
   fe : {"off", "on", "done"}, be : {"off", "on", "done"},
   client : Sockets, upstream : Sockets, owed : BOOLEAN, broken : BOOLEAN]

\* Types; data is only ever unread on an open socket.
TypeOK ==
  /\ run \in {"accepting", "returned"} /\ ctxDone \in BOOLEAN
  /\ stopping \in {"waiting", "listener", "done", "off"}
  /\ conns \cup swept \subseteq Clients \X {"client", "upstream"}
  /\ sess \in [Clients -> Sessions]
  /\ \A c \in Clients :
       /\ sess[c].client.data => sess[c].client.open
       /\ sess[c].upstream.data => sess[c].upstream.open

\* serve leaves nothing behind: when it has returned both sockets are closed,
\* neither is registered, and no pump of it still runs.
NothingLeft ==
  \A c \in Clients : sess[c].pc = "done" =>
    /\ ~sess[c].client.open /\ ~sess[c].upstream.open
    /\ <<c, "client">> \notin conns /\ <<c, "upstream">> \notin conns
    /\ sess[c].fe # "on" /\ sess[c].be # "on"

\* What serve holds at each stage before its end.
Stages ==
  \A c \in Clients :
    /\ sess[c].pc = "none" => ~sess[c].client.open
    /\ sess[c].pc \in {"none", "dial"} => ~sess[c].upstream.open
    /\ sess[c].pc \in {"none", "dial", "trackClient"} => <<c, "client">> \notin conns
    /\ sess[c].pc \in {"none", "dial", "trackClient", "trackUpstream"} =>
         <<c, "upstream">> \notin conns
    /\ sess[c].pc \notin {"run", "relay"} => sess[c].fe # "on" /\ sess[c].be # "on"

\* The inductive invariant behind NothingLeft: serve takes its sockets, their
\* registrations and its pumps on in the order it gives them up.
StageInv == TypeOK /\ NothingLeft /\ Stages

\* relay.go: a client that shuts down its write side still gets the response:
\* a relay between healthy peers ends with every request answered and every
\* answer delivered.
TrailingResponse ==
  \A c \in Clients :
    sess[c].pc = "close" /\ sess[c].mode = "relay" /\ ~sess[c].broken =>
      ~sess[c].owed /\ ~sess[c].upstream.data

\* What holds of a session s no peer and no shutdown has broken: the server
\* closes only once it has read our EOF, and until then both directions of a
\* relay are open while their pipe runs.
Unbroken(s) ==
  /\ s.client.peer # "gone" /\ s.upstream.peer # "gone"
  /\ s.upstream.peer = "eof" => ~s.upstream.writing /\ ~s.owed
  /\ s.pc \notin {"relay", "close", "done"} =>
       s.client.writing /\ s.upstream.writing /\ s.mode # "relay"
  /\ s.mode = "relay" =>
       /\ s.pc = "relay" => s.client.open /\ s.upstream.open
       /\ s.fe = "on" => s.upstream.writing
       /\ s.be = "on" => s.client.writing
       /\ s.be = "done" => s.upstream.peer = "eof" /\ ~s.upstream.data
       /\ s.pc = "close" => s.be = "done"

\* The inductive invariant behind TrailingResponse.
RelayInv == \A c \in Clients : ~sess[c].broken => Unbroken(sess[c])

\* Both inductive invariants: serve holds at each stage what it should, and an
\* unbroken relay still owes its client exactly what is on its way.
IInv == StageInv /\ RelayInv

\* A client that leaves is served no longer: both pumps end, and the upstream
\* session with them.
LeavingEnds ==
  \A c \in Clients :
    sess[c].client.peer # "open" ~> sess[c].pc = "done"

\* A connection that was registered when the shutdown swept the sockets ends.
SweptEnds == \A c \in Clients : <<c, "client">> \in swept ~> sess[c].pc = "done"

\* "Run listens for clients and relays them until ctx is cancelled": once it
\* is, unless Run had already failed, every connection ends.
CancelEnds ==
  \A c \in Clients :
    ctxDone /\ stopping # "off" ~> sess[c].pc \in {"none", "done"}
=============================================================================
