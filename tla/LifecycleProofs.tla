-------------------------- MODULE LifecycleProofs --------------------------
(***************************************************************************)
(* serve leaves nothing behind, for every set of connections: the invariant*)
(* of one connection concerns its own record and its own registrations, so *)
(* a step of another leaves it alone.                                      *)
(***************************************************************************)
EXTENDS Lifecycle, TLAPS

\* StageInv for one connection c, its record s and the registered sockets reg.
Sound(c, s, reg) ==
  /\ s \in Sessions
  /\ s.client.data => s.client.open
  /\ s.upstream.data => s.upstream.open
  /\ s.pc \in {"none", "done"} => ~s.client.open
  /\ s.pc \in {"none", "dial", "done"} => ~s.upstream.open
  /\ s.pc \in {"none", "dial", "trackClient", "done"} => <<c, "client">> \notin reg
  /\ s.pc \in {"none", "dial", "trackClient", "trackUpstream", "done"} =>
       <<c, "upstream">> \notin reg
  /\ s.pc \notin {"run", "relay"} => s.fe # "on" /\ s.be # "on"

\* The proxy's own state.
ProxyOK ==
  /\ run \in {"accepting", "returned"} /\ ctxDone \in BOOLEAN
  /\ stopping \in {"waiting", "listener", "done", "off"}
  /\ conns \cup swept \subseteq Clients \X {"client", "upstream"}
  /\ sess \in [Clients -> Sessions]

\* StageInv, connection by connection.
LEMMA ByConnection ==
  StageInv <=> ProxyOK /\ \A c \in Clients : Sound(c, sess[c], conns)
BY DEF StageInv, TypeOK, NothingLeft, Stages, ProxyOK, Sound

\* The same in the next state.
LEMMA ByConnectionNext ==
  StageInv' <=> ProxyOK' /\ \A c \in Clients : Sound(c, sess'[c], conns')
BY DEF StageInv, TypeOK, NothingLeft, Stages, ProxyOK, Sound

\* Closing, half-closing and opening keep a socket a socket.
LEMMA SocketTypes ==
  /\ Fresh \in Sockets /\ Unopened \in Sockets
  /\ Fresh.open /\ ~Fresh.data /\ ~Unopened.open /\ ~Unopened.data
  /\ \A k \in Sockets :
       /\ Close(k) \in Sockets /\ ~Close(k).open /\ ~Close(k).data
       /\ closeWrite(k) \in Sockets
       /\ closeWrite(k).open = k.open /\ closeWrite(k).data = k.data
BY DEF Fresh, Unopened, Sockets, Close, closeWrite

\* A step of one connection that keeps it sound, and the registrations as
\* they are, keeps StageInv.
LEMMA LocalStep ==
  ASSUME StageInv, NEW c \in Clients, NEW s, Sound(c, s, conns), Update(c, s), OnlySess
  PROVE  StageInv'
<1>1. sess' = [sess EXCEPT ![c] = s] /\ conns' = conns
  BY DEF Update, OnlySess
<1>2. ProxyOK /\ \A d \in Clients : Sound(d, sess[d], conns)
  BY ByConnection
<1>3. s \in Sessions
  BY DEF Sound
<1>4. ProxyOK'
  BY <1>1, <1>2, <1>3 DEF ProxyOK, OnlySess
<1>5. \A d \in Clients : sess'[d] = IF d = c THEN s ELSE sess[d]
  BY <1>1, <1>2 DEF ProxyOK
<1>6. \A d \in Clients : Sound(d, sess'[d], conns')
  BY <1>1, <1>2, <1>5
<1> QED  BY <1>4, <1>6, ByConnectionNext

\* Every step of serve keeps StageInv.
LEMMA ServeStep ==
  ASSUME StageInv, NEW c \in Clients, Serve(c)
  PROVE  StageInv'
<1>s. Sound(c, sess[c], conns)
  BY ByConnection
<1>t. sess[c] \in Sessions
  BY <1>s DEF Sound
<1>1. CASE Dial(c)
  <2>1. Sound(c, [sess[c] EXCEPT !.pc = "trackClient", !.upstream = Fresh], conns)
    BY <1>s, <1>t, <1>1, SocketTypes DEF Dial, Sound, Sessions
  <2>2. Sound(c, [sess[c] EXCEPT !.pc = "done", !.client = Close(@)], conns)
    BY <1>s, <1>t, <1>1, SocketTypes DEF Dial, Sound, Sessions
  <2> QED  BY <1>1, <2>1, <2>2, LocalStep DEF Dial
<1>2. CASE Handshake(c)
  <2>1. Sound(c, [sess[c] EXCEPT !.pc = "close"], conns)
    BY <1>s, <1>t, <1>2 DEF Handshake, Sound, Sessions
  <2> DEFINE passed == [sess[c] EXCEPT !.client.data = FALSE, !.owed = TRUE,
                                       !.fe = "on", !.be = "on"]
  <2>2. ASSUME NEW mode \in {"run", "relay"}
        PROVE  Sound(c, [passed EXCEPT !.pc = mode, !.mode = mode], conns)
    BY <1>s, <1>t, <1>2 DEF Handshake, Sound, Sessions, Sockets
  <2> QED  BY <1>2, <2>1, <2>2, LocalStep DEF Handshake
<1>3. CASE PumpsEnd(c)
  <2>1. Sound(c, [sess[c] EXCEPT !.pc = "close"], conns)
    BY <1>s, <1>t, <1>3 DEF PumpsEnd, Sound, Sessions
  <2> QED  BY <1>3, <2>1, LocalStep DEF PumpsEnd
<1>4. CASE TrackClient(c) \/ TrackUpstream(c) \/ ServeReturns(c)
  \* The registrations change, but only those of c.
  <2>1. PICK r \in Sessions : sess' = [sess EXCEPT ![c] = r] /\ Sound(c, r, conns')
    <3>1. CASE TrackClient(c)
      <4> DEFINE r == [sess[c] EXCEPT !.pc = "trackUpstream"]
      <4>1. r \in Sessions
        BY <1>t DEF Sessions
      <4>2. Sound(c, r, conns')
        BY <1>s, <1>t, <3>1, <4>1 DEF TrackClient, Track, Sound, Sessions
      <4> QED  BY <3>1, <4>1, <4>2 DEF TrackClient, Track, Update
    <3>2. CASE TrackUpstream(c)
      <4> DEFINE r == [sess[c] EXCEPT !.pc = "handshake"]
      <4>1. r \in Sessions
        BY <1>t DEF Sessions
      <4>2. Sound(c, r, conns')
        BY <1>s, <1>t, <3>2, <4>1 DEF TrackUpstream, Track, Sound, Sessions
      <4> QED  BY <3>2, <4>1, <4>2 DEF TrackUpstream, Track, Update
    <3>3. CASE ServeReturns(c)
      <4> DEFINE r == [sess[c] EXCEPT !.pc = "done", !.client = Close(@),
                                      !.upstream = Close(@)]
      <4>1. r \in Sessions
        BY <1>t, SocketTypes DEF Sessions
      <4>2. Sound(c, r, conns')
        BY <1>s, <1>t, <3>3, <4>1, SocketTypes
        DEF ServeReturns, Untracked, Sound, Sessions
      <4> QED  BY <3>3, <4>1, <4>2 DEF ServeReturns, Update
    <3> QED  BY <1>4, <3>1, <3>2, <3>3
  <2>2. /\ conns' \subseteq conns \cup {<<c, "client">>, <<c, "upstream">>}
        /\ UNCHANGED <<run, ctxDone, stopping, swept>>
    BY <1>4 DEF TrackClient, TrackUpstream, Track, ServeReturns
  <2>3. ProxyOK /\ \A d \in Clients : Sound(d, sess[d], conns)
    BY ByConnection
  <2>4. ProxyOK'
    BY <2>1, <2>2, <2>3 DEF ProxyOK
  <2>5. ASSUME NEW d \in Clients PROVE Sound(d, sess'[d], conns')
    <3>1. CASE d = c
      BY <2>1, <2>3, <3>1 DEF ProxyOK
    <3>2. CASE d # c
      <4>1. sess'[d] = sess[d]
        BY <2>1, <2>3, <3>2 DEF ProxyOK
      <4>2. \A k \in {"client", "upstream"} : <<d, k>> \in conns' => <<d, k>> \in conns
        BY <2>2, <3>2
      <4> QED  BY <2>3, <4>1, <4>2 DEF Sound
    <3> QED  BY <3>1, <3>2
  <2> QED  BY <2>4, <2>5, ByConnectionNext
<1> QED  BY <1>1, <1>2, <1>3, <1>4 DEF Serve

\* A connection that is being served stays sound while its pumps run, however
\* its sockets are closed, half-closed, read or filled.
LEMMA ServedSound ==
  ASSUME NEW c, NEW reg, NEW s, NEW r \in Sessions, Sound(c, s, reg),
         s.pc \in {"run", "relay"}, r.pc = s.pc,
         r.client.data => r.client.open, r.upstream.data => r.upstream.open
  PROVE  Sound(c, r, reg)
BY DEF Sound

\* Every step of a pump or of a pipe keeps StageInv.
LEMMA PumpsStep ==
  ASSUME StageInv, NEW c \in Clients, Pumps(c)
  PROVE  StageInv'
<1>s. Sound(c, sess[c], conns)
  BY ByConnection
<1>t. /\ sess[c] \in Sessions
      /\ sess[c].client.data => sess[c].client.open
      /\ sess[c].upstream.data => sess[c].upstream.open
  BY <1>s DEF Sound
<1>r. ASSUME NEW r \in Sessions, r.pc = sess[c].pc, sess[c].pc \in {"run", "relay"},
             r.client.data => r.client.open, r.upstream.data => r.upstream.open,
             Update(c, r), OnlySess
      PROVE  StageInv'
  BY <1>r, <1>s, ServedSound, LocalStep
<1>1. CASE PumpFrontend(c)
  <2>1. CASE Update(c, FrontendReturned(sess[c]))
    BY <1>1, <2>1, <1>r, <1>t, SocketTypes DEF PumpFrontend, FrontendReturned, Sessions
  <2>2. CASE Update(c, [sess[c] EXCEPT !.client = Close(@), !.upstream = Close(@)])
    BY <1>1, <2>2, <1>r, <1>t, SocketTypes DEF PumpFrontend, Sessions
  <2>3. CASE Update(c, [sess[c] EXCEPT !.client.data = FALSE, !.owed = TRUE])
    BY <1>1, <2>3, <1>r, <1>t DEF PumpFrontend, Sessions, Sockets
  <2> QED  BY <1>1, <2>1, <2>2, <2>3 DEF PumpFrontend
<1>2. CASE PumpTerminate(c)
  <2> DEFINE read == [sess[c] EXCEPT !.client.data = FALSE]
  <2>1. read \in Sessions /\ read.pc = sess[c].pc /\ ~read.client.data
    BY <1>t DEF Sessions, Sockets
  <2> HIDE DEF read
  <2>2. /\ FrontendReturned(read) \in Sessions
        /\ FrontendReturned(read).pc = sess[c].pc
        /\ ~FrontendReturned(read).client.data
        /\ ~FrontendReturned(read).upstream.data
    BY <2>1, SocketTypes DEF FrontendReturned, Sessions
  <2>3. sess[c].pc = "run" /\ Update(c, FrontendReturned(read)) /\ OnlySess
    BY <1>2 DEF PumpTerminate, read
  <2> QED  BY <2>2, <2>3, <1>r
<1>3. CASE PumpBackend(c)
  <2>1. CASE Update(c, [sess[c] EXCEPT !.be = "done"])
    BY <1>3, <2>1, <1>r, <1>t DEF PumpBackend, Sessions
  <2>2. CASE Update(c, [sess[c] EXCEPT !.upstream.data = FALSE, !.be = "done"])
    BY <1>3, <2>2, <1>r, <1>t DEF PumpBackend, Sessions, Sockets
  <2>3. CASE Update(c, [sess[c] EXCEPT !.upstream.data = FALSE])
    BY <1>3, <2>3, <1>r, <1>t DEF PumpBackend, Sessions, Sockets
  <2> QED  BY <1>3, <2>1, <2>2, <2>3 DEF PumpBackend
<1>4. CASE PipeUp(c)
  <2>1. CASE Update(c, [sess[c] EXCEPT !.fe = "done", !.upstream = closeWrite(@)])
    BY <1>4, <2>1, <1>r, <1>t, SocketTypes DEF PipeUp, Sessions
  <2>2. CASE Update(c, closePair([sess[c] EXCEPT !.fe = "done"]))
    BY <1>4, <2>2, <1>r, <1>t, SocketTypes DEF PipeUp, closePair, Sessions
  <2>3. CASE Update(c, [sess[c] EXCEPT !.client.data = FALSE, !.owed = TRUE])
    BY <1>4, <2>3, <1>r, <1>t DEF PipeUp, Sessions, Sockets
  <2> QED  BY <1>4, <2>1, <2>2, <2>3 DEF PipeUp
<1>5. CASE PipeDown(c)
  <2>1. CASE Update(c, [sess[c] EXCEPT !.be = "done", !.client = closeWrite(@)])
    BY <1>5, <2>1, <1>r, <1>t, SocketTypes DEF PipeDown, Sessions
  <2>2. CASE Update(c, closePair([sess[c] EXCEPT !.be = "done"]))
    BY <1>5, <2>2, <1>r, <1>t, SocketTypes DEF PipeDown, closePair, Sessions
  <2>3. CASE Update(c, [sess[c] EXCEPT !.upstream.data = FALSE])
    BY <1>5, <2>3, <1>r, <1>t DEF PipeDown, Sessions, Sockets
  <2> QED  BY <1>5, <2>1, <2>2, <2>3 DEF PipeDown
<1>6. CASE PumpAnswers(c)
  BY <1>6, <1>r, <1>t DEF PumpAnswers, Sessions, Sockets
<1> QED  BY <1>1, <1>2, <1>3, <1>4, <1>5, <1>6 DEF Pumps

\* A connection stays sound when data arrives on an open socket of it.
LEMMA ReceivingSound ==
  ASSUME NEW c, NEW reg, NEW s, NEW r \in Sessions, Sound(c, s, reg),
         r.pc = s.pc, r.fe = s.fe, r.be = s.be,
         r.client.open = s.client.open, r.upstream.open = s.upstream.open,
         r.client.data => r.client.open, r.upstream.data => r.upstream.open
  PROVE  Sound(c, r, reg)
BY DEF Sound

\* Nothing a peer does opens a socket or moves serve.
LEMMA PeersStep ==
  ASSUME StageInv, NEW c \in Clients, Peers(c)
  PROVE  StageInv'
<1>s. Sound(c, sess[c], conns) /\ sess[c] \in Sessions
  BY ByConnection DEF Sound
<1>1. CASE ClientSends(c)
  <2> DEFINE r == [sess[c] EXCEPT !.client.data = TRUE]
  <2>1. /\ r \in Sessions /\ r.pc = sess[c].pc /\ r.fe = sess[c].fe
        /\ r.be = sess[c].be /\ r.upstream = sess[c].upstream
        /\ r.client.open = sess[c].client.open
    BY <1>s DEF Sessions, Sockets
  <2>2. sess[c].client.open /\ Update(c, r) /\ OnlySess
    BY <1>1 DEF ClientSends
  <2>3. sess[c].upstream.data => sess[c].upstream.open
    BY <1>s DEF Sound
  <2> HIDE DEF r
  <2>4. Sound(c, r, conns)
    BY <1>s, <2>1, <2>2, <2>3, ReceivingSound
  <2> QED  BY <2>2, <2>4, LocalStep
<1>2. CASE ClientLeaves(c)
  <2>1. ASSUME NEW how \in {"eof", "gone"}, NEW flag \in BOOLEAN
        PROVE  Sound(c, [sess[c] EXCEPT !.client.peer = how, !.broken = flag], conns)
    <3> DEFINE r == [sess[c] EXCEPT !.client.peer = how, !.broken = flag]
    <3>1. /\ r \in Sessions /\ r.pc = sess[c].pc /\ r.fe = sess[c].fe
          /\ r.be = sess[c].be /\ r.upstream = sess[c].upstream
          /\ r.client.open = sess[c].client.open /\ r.client.data = sess[c].client.data
      BY <1>s DEF Sessions, Sockets
    <3>2. /\ sess[c].client.data => sess[c].client.open
          /\ sess[c].upstream.data => sess[c].upstream.open
      BY <1>s DEF Sound
    <3> HIDE DEF r
    <3>3. Sound(c, r, conns)
      BY <1>s, <3>1, <3>2, ReceivingSound
    <3> QED  BY <3>3 DEF r
  <2>2. [sess[c] EXCEPT !.client.peer = "eof"]
          = [sess[c] EXCEPT !.client.peer = "eof", !.broken = sess[c].broken]
    BY <1>s DEF Sessions
  <2>3. sess[c].broken \in BOOLEAN
    BY <1>s DEF Sessions
  <2> QED  BY <1>2, <2>1, <2>2, <2>3, LocalStep DEF ClientLeaves
<1>3. CASE ServerAnswers(c)
  <2> DEFINE r == [sess[c] EXCEPT !.upstream.data = TRUE, !.owed = FALSE]
  <2>1. /\ r \in Sessions /\ r.pc = sess[c].pc /\ r.fe = sess[c].fe
        /\ r.be = sess[c].be /\ r.client = sess[c].client
        /\ r.upstream.open = sess[c].upstream.open
    BY <1>s DEF Sessions, Sockets
  <2>2. sess[c].upstream.open /\ Update(c, r) /\ OnlySess
    BY <1>3 DEF ServerAnswers
  <2>3. sess[c].client.data => sess[c].client.open
    BY <1>s DEF Sound
  <2> HIDE DEF r
  <2>4. Sound(c, r, conns)
    BY <1>s, <2>1, <2>2, <2>3, ReceivingSound
  <2> QED  BY <2>2, <2>4, LocalStep
<1>4. CASE ServerCloses(c)
  <2>1. Sound(c, [sess[c] EXCEPT !.upstream.peer = "eof"], conns)
    BY <1>s DEF Sound, Sessions, Sockets
  <2> QED  BY <1>4, <2>1, LocalStep DEF ServerCloses
<1>5. CASE ServerFails(c)
  <2>1. ASSUME NEW how \in {"eof", "gone"}
        PROVE  Sound(c, [sess[c] EXCEPT !.upstream.peer = how, !.broken = TRUE], conns)
    <3> DEFINE r == [sess[c] EXCEPT !.upstream.peer = how, !.broken = TRUE]
    <3>1. /\ r \in Sessions /\ r.pc = sess[c].pc /\ r.fe = sess[c].fe /\ r.be = sess[c].be
          /\ r.client = sess[c].client /\ r.upstream.open = sess[c].upstream.open
          /\ r.upstream.data = sess[c].upstream.data
      BY <1>s DEF Sessions, Sockets
    <3> HIDE DEF r
    <3>2. Sound(c, r, conns)
      BY <1>s, <3>1 DEF Sound
    <3> QED  BY <3>2 DEF r
  <2> QED  BY <1>5, <2>1, LocalStep DEF ServerFails
<1> QED  BY <1>1, <1>2, <1>3, <1>4, <1>5 DEF Peers

\* Closing the registered sockets keeps StageInv.
LEMMA ShutdownStep ==
  ASSUME StageInv, CloseConns
  PROVE  StageInv'
<1>1. ProxyOK /\ \A c \in Clients : Sound(c, sess[c], conns)
  BY ByConnection
<1>2. ASSUME NEW c \in Clients, NEW mine
      PROVE  Sound(c, Swept(sess[c], mine), conns) /\ Swept(sess[c], mine) \in Sessions
  <2>1. sess[c] \in Sessions /\ Sound(c, sess[c], conns)
    BY <1>1 DEF ProxyOK
  <2>2. Swept(sess[c], mine) \in Sessions
    BY <2>1, SocketTypes DEF Swept, Sessions
  <2>3. /\ Swept(sess[c], mine).client \in {sess[c].client, Close(sess[c].client)}
        /\ Swept(sess[c], mine).upstream \in {sess[c].upstream, Close(sess[c].upstream)}
        /\ Swept(sess[c], mine).pc = sess[c].pc
        /\ Swept(sess[c], mine).fe = sess[c].fe /\ Swept(sess[c], mine).be = sess[c].be
    BY <2>1 DEF Swept, Sessions
  <2>4. sess[c].client \in Sockets /\ sess[c].upstream \in Sockets
    BY <2>1 DEF Sessions
  <2> QED  BY <2>1, <2>2, <2>3, <2>4, SocketTypes DEF Sound
<1>3. \A c \in Clients :
        sess'[c] = Swept(sess[c], {k \in {"client", "upstream"} : <<c, k>> \in conns})
  BY DEF CloseConns
<1>4. \A c \in Clients : Sound(c, sess'[c], conns')
  BY <1>2, <1>3 DEF CloseConns
<1>5. sess' \in [Clients -> Sessions]
  BY <1>2 DEF CloseConns
<1>6. ProxyOK'
  BY <1>1, <1>5 DEF ProxyOK, CloseConns
<1> QED  BY <1>4, <1>6, ByConnectionNext

\* StageInv holds initially.
LEMMA StageInvInit == Init => StageInv
<1> SUFFICES ASSUME Init PROVE StageInv
  OBVIOUS
<1>1. NoSession \in Sessions
  BY SocketTypes DEF NoSession, Sessions
<1>2. /\ NoSession.client = Unopened /\ NoSession.upstream = Unopened
      /\ NoSession.fe = "off" /\ NoSession.be = "off"
  BY DEF NoSession
<1>3. conns = {} /\ ProxyOK
  BY <1>1 DEF Init, ProxyOK
<1>4. \A c \in Clients : sess[c] = NoSession
  BY DEF Init
<1>5. ASSUME NEW c \in Clients PROVE Sound(c, sess[c], conns)
  BY <1>1, <1>2, <1>3, <1>4, SocketTypes DEF Sound
<1> QED  BY <1>3, <1>5, ByConnection

\* Every step of Lifecycle keeps StageInv.
LEMMA StageInvStep == StageInv /\ [Next]_vars => StageInv'
<1> SUFFICES ASSUME StageInv, [Next]_vars PROVE StageInv'
  OBVIOUS
<1>p. ProxyOK /\ \A c \in Clients : Sound(c, sess[c], conns)
  BY ByConnection
<1>1. CASE AcceptFails \/ Cancel \/ RunReturns \/ CloseListener \/ UNCHANGED vars
  <2>1. ProxyOK' /\ conns' = conns /\ sess' = sess
    BY <1>1, <1>p DEF AcceptFails, Cancel, RunReturns, CloseListener, vars, ProxyOK
  <2> QED  BY <1>p, <2>1, ByConnectionNext
<1>2. CASE CloseConns
  BY <1>2, ShutdownStep
<1>3. ASSUME NEW c \in Clients, Accept(c) PROVE StageInv'
  <2> DEFINE r == [NoSession EXCEPT !.pc = "dial", !.client = Fresh]
  <2>1. /\ r \in Sessions /\ r.pc = "dial" /\ r.client = Fresh
        /\ r.upstream = Unopened /\ r.fe = "off" /\ r.be = "off"
    BY SocketTypes DEF NoSession, Sessions
  <2>2. sess[c].pc = "none" /\ Sound(c, sess[c], conns)
    BY <1>3, <1>p DEF Accept
  <2>3. Update(c, r) /\ OnlySess
    BY <1>3 DEF Accept
  <2> HIDE DEF r
  <2>4. Sound(c, r, conns)
    BY <2>1, <2>2, SocketTypes DEF Sound
  <2> QED  BY <2>3, <2>4, LocalStep
<1>4. ASSUME NEW c \in Clients, Serve(c) \/ Pumps(c) \/ Peers(c) PROVE StageInv'
  BY <1>4, ServeStep, PumpsStep, PeersStep
<1> QED  BY <1>1, <1>2, <1>3, <1>4 DEF Next, Shutdown

\* Types: every connection's record keeps its shape, and unread data is only
\* ever on an open socket.
THEOREM TypeCorrect == Spec => []TypeOK
<1>1. StageInv => TypeOK
  BY DEF StageInv
<1> QED  BY StageInvInit, StageInvStep, <1>1, PTL DEF Spec

\* When serve has returned, along whatever path and whatever the shutdown did
\* meanwhile, both its sockets are closed, neither is registered, and none of
\* its pumps runs.
THEOREM ServeLeavesNothing == Spec => []NothingLeft
<1>1. StageInv => NothingLeft
  BY DEF StageInv
<1> QED  BY StageInvInit, StageInvStep, <1>1, PTL DEF Spec

-----------------------------------------------------------------------------
(* The relay delivers what it owes. RelayInv is a fact about each record    *)
(* alone, so it is enough that every new record satisfies it.               *)

\* What RelayInv says of one record.
Whole(s) == ~s.broken => Unbroken(s)

\* A step that replaces the record of one connection by a whole one.
LEMMA WholeLocal ==
  ASSUME StageInv, RelayInv, NEW c \in Clients, NEW r, Whole(r), Update(c, r)
  PROVE  RelayInv'
<1>1. sess \in [Clients -> Sessions]
  BY DEF StageInv, TypeOK
<1>2. \A d \in Clients : sess'[d] = IF d = c THEN r ELSE sess[d]
  BY <1>1 DEF Update
<1> QED  BY <1>2 DEF RelayInv, Whole

\* Every step of serve leaves a whole record.
LEMMA ServeWhole ==
  ASSUME StageInv, RelayInv, NEW c \in Clients, Serve(c)
  PROVE  RelayInv'
<1> DEFINE s == sess[c]
<1>s. s \in Sessions /\ Whole(s) /\ Sound(c, s, conns)
  BY ByConnection DEF ProxyOK, RelayInv, Whole
<1>1. CASE Dial(c)
  <2>1. Whole([s EXCEPT !.pc = "trackClient", !.upstream = Fresh])
    BY <1>s, <1>1 DEF Dial, Whole, Unbroken, Sessions, Fresh
  <2>2. Whole([s EXCEPT !.pc = "done", !.client = Close(@)])
    BY <1>s, <1>1 DEF Dial, Whole, Unbroken, Sessions, Sockets, Close
  <2> QED  BY <1>1, <2>1, <2>2, WholeLocal DEF Dial
<1>2. CASE TrackClient(c) \/ TrackUpstream(c)
  <2>1. PICK to \in {"trackUpstream", "handshake"} : Update(c, [s EXCEPT !.pc = to])
    BY <1>2 DEF TrackClient, TrackUpstream, Track
  <2>2. s.pc \in {"trackClient", "trackUpstream"}
    BY <1>2 DEF TrackClient, TrackUpstream, Track
  <2>3. Whole([s EXCEPT !.pc = to])
    BY <1>s, <2>2 DEF Whole, Unbroken, Sessions
  <2> QED  BY <2>1, <2>3, WholeLocal
<1>3. CASE Handshake(c)
  <2>1. Whole([s EXCEPT !.pc = "close"])
    BY <1>s, <1>3 DEF Handshake, Whole, Unbroken, Sessions
  <2> DEFINE passed == [s EXCEPT !.client.data = FALSE, !.owed = TRUE,
                                 !.fe = "on", !.be = "on"]
  <2>2. ASSUME NEW mode \in {"run", "relay"}, Readable(s.client), ~WriteError(s.upstream)
        PROVE  Whole([passed EXCEPT !.pc = mode, !.mode = mode])
    BY <1>s, <1>3, <2>2
    DEF Handshake, Readable, WriteError, Whole, Unbroken, Sessions, Sockets
  <2> QED  BY <1>3, <2>1, <2>2, WholeLocal DEF Handshake
<1>4. CASE PumpsEnd(c)
  <2>1. Whole([s EXCEPT !.pc = "close"])
    BY <1>s, <1>4 DEF PumpsEnd, Whole, Unbroken, Sessions
  <2> QED  BY <1>4, <2>1, WholeLocal DEF PumpsEnd
<1>5. CASE ServeReturns(c)
  <2>1. Whole([s EXCEPT !.pc = "done", !.client = Close(@), !.upstream = Close(@)])
    BY <1>s, <1>5 DEF ServeReturns, Whole, Unbroken, Sessions, Sockets, Close
  <2> QED  BY <1>5, <2>1, WholeLocal DEF ServeReturns
<1> QED  BY <1>1, <1>2, <1>3, <1>4, <1>5 DEF Serve

\* A session that is not relayed stays whole whatever its pumps close.
LEMMA RunWhole ==
  ASSUME NEW s \in Sessions, Whole(s), s.pc = "run",
         NEW r \in Sessions, r.pc = s.pc, r.mode = s.mode, r.broken = s.broken,
         r.client.peer = s.client.peer, r.upstream.peer = s.upstream.peer,
         r.client.writing = s.client.writing, r.upstream.writing = s.upstream.writing
  PROVE  Whole(r)
BY DEF Whole, Unbroken

\* Every step of a pump or of a pipe leaves a whole record.
LEMMA PumpsWhole ==
  ASSUME StageInv, RelayInv, NEW c \in Clients, Pumps(c)
  PROVE  RelayInv'
<1> DEFINE s == sess[c]
<1>s. s \in Sessions /\ Whole(s)
  BY DEF StageInv, TypeOK, RelayInv, Whole
<1>1. CASE PumpFrontend(c)
  <2>0. s.pc = "run"
    BY <1>1 DEF PumpFrontend
  <2>1. Whole(FrontendReturned(s))
    BY <1>s, <2>0, RunWhole DEF FrontendReturned, Close, Sessions, Sockets
  <2>2. Whole([s EXCEPT !.client = Close(@), !.upstream = Close(@)])
    <3> DEFINE r == [s EXCEPT !.client = Close(@), !.upstream = Close(@)]
    <3>1. /\ Close(s.client) \in Sockets /\ Close(s.client).peer = s.client.peer
          /\ Close(s.client).writing = s.client.writing
          /\ Close(s.upstream) \in Sockets /\ Close(s.upstream).peer = s.upstream.peer
          /\ Close(s.upstream).writing = s.upstream.writing
      BY <1>s DEF Close, Sessions, Sockets
    <3>2. /\ r \in Sessions /\ r.client = Close(s.client) /\ r.upstream = Close(s.upstream)
          /\ r.pc = s.pc /\ r.mode = s.mode /\ r.broken = s.broken
      BY <1>s, <3>1 DEF Sessions
    <3> HIDE DEF r
    <3>3. Whole(r)
      BY <1>s, <2>0, <3>1, <3>2, RunWhole
    <3> QED  BY <3>3 DEF r
  <2>3. Whole([s EXCEPT !.client.data = FALSE, !.owed = TRUE])
    BY <1>s, <2>0, RunWhole DEF Sessions, Sockets
  <2> QED  BY <1>1, <2>1, <2>2, <2>3, WholeLocal DEF PumpFrontend
<1>2. CASE PumpAnswers(c) \/ PumpTerminate(c)
  <2>0. s.pc = "run"
    BY <1>2 DEF PumpAnswers, PumpTerminate
  <2> DEFINE read == [s EXCEPT !.client.data = FALSE]
  <2>1. read \in Sessions /\ read.pc = "run" /\ Whole(read)
    BY <1>s, <2>0, RunWhole DEF Sessions, Sockets
  <2>2. Update(c, read) \/ Update(c, FrontendReturned(read))
    BY <1>2 DEF PumpAnswers, PumpTerminate
  <2> HIDE DEF read
  <2>3. Whole(FrontendReturned(read))
    BY <2>1, RunWhole DEF FrontendReturned, Close, Sessions, Sockets
  <2> QED  BY <2>1, <2>2, <2>3, WholeLocal
<1>3. CASE PumpBackend(c)
  <2>0. s.pc = "run"
    BY <1>3 DEF PumpBackend
  <2>1. Whole([s EXCEPT !.be = "done"])
    BY <1>s, <2>0, RunWhole DEF Sessions
  <2>2. Whole([s EXCEPT !.upstream.data = FALSE, !.be = "done"])
    BY <1>s, <2>0, RunWhole DEF Sessions, Sockets
  <2>3. Whole([s EXCEPT !.upstream.data = FALSE])
    BY <1>s, <2>0, RunWhole DEF Sessions, Sockets
  <2> QED  BY <1>3, <2>1, <2>2, <2>3, WholeLocal DEF PumpBackend
<1>p. ASSUME s.pc = "relay", s.broken \/ s.mode # "relay",
             NEW fe \in {"off", "on", "done"}, NEW be \in {"off", "on", "done"}
      PROVE  Whole(closePair([s EXCEPT !.fe = fe, !.be = be]))
  <2> DEFINE t == [s EXCEPT !.fe = fe, !.be = be]
  <2>1. t \in Sessions /\ t.broken = s.broken /\ t.mode = s.mode /\ t.pc = s.pc
        /\ t.client = s.client /\ t.upstream = s.upstream /\ t.owed = s.owed
    BY <1>s, <1>p DEF Sessions
  <2> HIDE DEF t
  <2>2. /\ closePair(t).broken = s.broken /\ closePair(t).mode = s.mode
        /\ closePair(t).pc = s.pc /\ closePair(t).owed = s.owed
        /\ closePair(t).client = Close(s.client)
        /\ closePair(t).upstream = Close(s.upstream)
    BY <2>1 DEF closePair, Sessions
  <2>3. \A k \in Sockets : Close(k).peer = k.peer /\ Close(k).writing = k.writing
    BY DEF Close, Sockets
  <2>4. s.client \in Sockets /\ s.upstream \in Sockets
    BY <1>s DEF Sessions
  <2>5. Whole(closePair(t))
    BY <1>s, <1>p, <2>2, <2>3, <2>4 DEF Whole, Unbroken
  <2> QED  BY <2>5 DEF t
<1>4. CASE PipeUp(c)
  <2>1. Whole([s EXCEPT !.fe = "done", !.upstream = closeWrite(@)])
    BY <1>s, <1>4 DEF PipeUp, Whole, Unbroken, closeWrite, Sessions, Sockets
  <2>2. ReadError(s.client) \/ (Readable(s.client) /\ WriteError(s.upstream)) =>
          Whole(closePair([s EXCEPT !.fe = "done"]))
    <3>1. ReadError(s.client) \/ (Readable(s.client) /\ WriteError(s.upstream)) =>
            s.broken \/ s.mode # "relay"
      BY <1>s, <1>4 DEF PipeUp, ReadError, WriteError, Whole, Unbroken
    <3>2. /\ s.be \in {"off", "on", "done"}
          /\ [s EXCEPT !.fe = "done"] = [s EXCEPT !.fe = "done", !.be = s.be]
      BY <1>s DEF Sessions
    <3>3. s.pc = "relay"
      BY <1>4 DEF PipeUp
    <3>4. s.broken \/ s.mode # "relay" =>
            Whole(closePair([s EXCEPT !.fe = "done", !.be = s.be]))
      BY <1>p, <3>2, <3>3
    <3> QED  BY <3>1, <3>2, <3>4
  <2>3. ~WriteError(s.upstream) => Whole([s EXCEPT !.client.data = FALSE, !.owed = TRUE])
    BY <1>s, <1>4 DEF PipeUp, WriteError, Whole, Unbroken, Sessions, Sockets
  <2>4. \/ Update(c, [s EXCEPT !.fe = "done", !.upstream = closeWrite(@)])
        \/ /\ ReadError(s.client) \/ (Readable(s.client) /\ WriteError(s.upstream))
           /\ Update(c, closePair([s EXCEPT !.fe = "done"]))
        \/ /\ ~WriteError(s.upstream)
           /\ Update(c, [s EXCEPT !.client.data = FALSE, !.owed = TRUE])
    BY <1>4 DEF PipeUp
  <2> DEFINE eof == [s EXCEPT !.fe = "done", !.upstream = closeWrite(@)]
             failed == closePair([s EXCEPT !.fe = "done"])
             sent == [s EXCEPT !.client.data = FALSE, !.owed = TRUE]
  <2>5. \/ (Update(c, eof) /\ Whole(eof)) \/ (Update(c, failed) /\ Whole(failed))
        \/ (Update(c, sent) /\ Whole(sent))
    BY <2>1, <2>2, <2>3, <2>4
  <2> HIDE DEF eof, failed, sent
  <2> QED  BY <2>5, WholeLocal
<1>5. CASE PipeDown(c)
  <2>1. ReadEOF(s.upstream) => Whole([s EXCEPT !.be = "done", !.client = closeWrite(@)])
    BY <1>s, <1>5 DEF PipeDown, ReadEOF, Whole, Unbroken, closeWrite, Sessions, Sockets
  <2>2. ReadError(s.upstream) \/ (Readable(s.upstream) /\ WriteError(s.client)) =>
          Whole(closePair([s EXCEPT !.be = "done"]))
    <3>1. ReadError(s.upstream) \/ (Readable(s.upstream) /\ WriteError(s.client)) =>
            s.broken \/ s.mode # "relay"
      BY <1>s, <1>5 DEF PipeDown, ReadError, WriteError, Whole, Unbroken
    <3>2. /\ s.fe \in {"off", "on", "done"}
          /\ [s EXCEPT !.be = "done"] = [s EXCEPT !.fe = s.fe, !.be = "done"]
      BY <1>s DEF Sessions
    <3>3. s.pc = "relay"
      BY <1>5 DEF PipeDown
    <3>4. s.broken \/ s.mode # "relay" =>
            Whole(closePair([s EXCEPT !.fe = s.fe, !.be = "done"]))
      BY <1>p, <3>2, <3>3
    <3> QED  BY <3>1, <3>2, <3>4
  <2>3. Whole([s EXCEPT !.upstream.data = FALSE])
    BY <1>s, <1>5 DEF PipeDown, Whole, Unbroken, Sessions, Sockets
  <2>4. \/ /\ ReadEOF(s.upstream)
           /\ Update(c, [s EXCEPT !.be = "done", !.client = closeWrite(@)])
        \/ /\ ReadError(s.upstream) \/ (Readable(s.upstream) /\ WriteError(s.client))
           /\ Update(c, closePair([s EXCEPT !.be = "done"]))
        \/ Update(c, [s EXCEPT !.upstream.data = FALSE])
    BY <1>5 DEF PipeDown
  <2> DEFINE eof == [s EXCEPT !.be = "done", !.client = closeWrite(@)]
             failed == closePair([s EXCEPT !.be = "done"])
             sent == [s EXCEPT !.upstream.data = FALSE]
  <2>5. \/ (Update(c, eof) /\ Whole(eof)) \/ (Update(c, failed) /\ Whole(failed))
        \/ (Update(c, sent) /\ Whole(sent))
    BY <2>1, <2>2, <2>3, <2>4
  <2> HIDE DEF eof, failed, sent
  <2> QED  BY <2>5, WholeLocal
<1> QED  BY <1>1, <1>2, <1>3, <1>4, <1>5 DEF Pumps

\* What a peer does leaves a whole record: the server closes unasked only by
\* breaking the session.
LEMMA PeersWhole ==
  ASSUME StageInv, RelayInv, NEW c \in Clients, Peers(c)
  PROVE  RelayInv'
<1> DEFINE s == sess[c]
<1>s. s \in Sessions /\ Whole(s)
  BY DEF StageInv, TypeOK, RelayInv, Whole
<1>1. CASE ClientSends(c)
  <2>1. Whole([s EXCEPT !.client.data = TRUE])
    BY <1>s DEF Whole, Unbroken, Sessions, Sockets
  <2> QED  BY <1>1, <2>1, WholeLocal DEF ClientSends
<1>2. CASE ClientLeaves(c)
  <2>1. Whole([s EXCEPT !.client.peer = "eof"])
    BY <1>s DEF Whole, Unbroken, Sessions, Sockets
  <2>2. Whole([s EXCEPT !.client.peer = "gone", !.broken = TRUE])
    BY <1>s DEF Whole, Sessions, Sockets
  <2> QED  BY <1>2, <2>1, <2>2, WholeLocal DEF ClientLeaves
<1>3. CASE ServerAnswers(c)
  <2>1. Whole([s EXCEPT !.upstream.data = TRUE, !.owed = FALSE])
    BY <1>s, <1>3 DEF ServerAnswers, Whole, Unbroken, Sessions, Sockets
  <2> QED  BY <1>3, <2>1, WholeLocal DEF ServerAnswers
<1>4. CASE ServerCloses(c)
  <2>1. Whole([s EXCEPT !.upstream.peer = "eof"])
    BY <1>s, <1>4 DEF ServerCloses, Whole, Unbroken, Sessions, Sockets
  <2> QED  BY <1>4, <2>1, WholeLocal DEF ServerCloses
<1>5. CASE ServerFails(c)
  <2>1. ASSUME NEW how \in {"eof", "gone"}
        PROVE  Whole([s EXCEPT !.upstream.peer = how, !.broken = TRUE])
    BY <1>s DEF Whole, Sessions, Sockets
  <2> QED  BY <1>5, <2>1, WholeLocal DEF ServerFails
<1> QED  BY <1>1, <1>2, <1>3, <1>4, <1>5 DEF Peers

\* RelayInv holds initially.
LEMMA RelayInit == Init => RelayInv
BY DEF Init, RelayInv, NoSession, Unopened, Fresh, Unbroken

\* Every step keeps RelayInv. The shutdown breaks every session a socket of
\* which it closes.
LEMMA RelayStep == StageInv /\ RelayInv /\ [Next]_vars => RelayInv'
<1> SUFFICES ASSUME StageInv, RelayInv, [Next]_vars PROVE RelayInv'
  OBVIOUS
<1>1. CASE AcceptFails \/ Cancel \/ RunReturns \/ CloseListener \/ UNCHANGED vars
  <2>1. sess' = sess
    BY <1>1 DEF AcceptFails, Cancel, RunReturns, CloseListener, vars
  <2> QED  BY <2>1 DEF RelayInv
<1>2. CASE CloseConns
  <2>1. ASSUME NEW c \in Clients, NEW mine PROVE Whole(Swept(sess[c], mine))
    <3>1. sess[c] \in Sessions /\ Whole(sess[c])
      BY DEF StageInv, TypeOK, RelayInv, Whole
    <3>2. CASE mine = {}
      <4>1. Swept(sess[c], mine) = sess[c]
        BY <3>1, <3>2 DEF Swept, Sessions
      <4> QED  BY <3>1, <4>1
    <3>3. CASE mine # {}
      <4>1. Swept(sess[c], mine).broken
        BY <3>1, <3>3 DEF Swept, Sessions
      <4> QED  BY <4>1 DEF Whole
    <3> QED  BY <3>2, <3>3
  <2>2. \A c \in Clients :
          sess'[c] = Swept(sess[c], {k \in {"client", "upstream"} : <<c, k>> \in conns})
    BY <1>2 DEF CloseConns
  <2> QED  BY <2>1, <2>2 DEF RelayInv, Whole
<1>3. ASSUME NEW c \in Clients, Accept(c) PROVE RelayInv'
  <2>1. Whole([NoSession EXCEPT !.pc = "dial", !.client = Fresh])
    BY DEF NoSession, Unopened, Fresh, Whole, Unbroken
  <2> QED  BY <1>3, <2>1, WholeLocal DEF Accept
<1>4. ASSUME NEW c \in Clients, Serve(c) \/ Pumps(c) \/ Peers(c) PROVE RelayInv'
  BY <1>4, ServeWhole, PumpsWhole, PeersWhole
<1> QED  BY <1>1, <1>2, <1>3, <1>4 DEF Next, Shutdown

\* The strengthened invariant both results rest on, as the run checks it.
THEOREM StagesHold == Spec => []IInv
<1>1. StageInv /\ RelayInv <=> IInv
  BY DEF IInv
<1> QED  BY StageInvInit, StageInvStep, RelayInit, RelayStep, <1>1, PTL DEF Spec

\* relay.go's promise to a client that shuts down its write side: a relay
\* between healthy peers ends with every request answered and every answer
\* delivered, however many connections are served beside it.
THEOREM RelayDelivers == Spec => []TrailingResponse
<1>1. IInv => TrailingResponse
  <2> SUFFICES ASSUME RelayInv, NEW c \in Clients, sess[c].pc = "close",
                      sess[c].mode = "relay", ~sess[c].broken
               PROVE  ~sess[c].owed /\ ~sess[c].upstream.data
    BY DEF TrailingResponse, IInv
  <2> QED  BY DEF RelayInv, Unbroken
<1> QED  BY StagesHold, <1>1, PTL
=============================================================================
