------------------------ MODULE ForwardServer_proofs ------------------------
(***************************************************************************)
(* What is proved of the components carried over to the whole server, and  *)
(* what only the two together show, for any number of clients and servers. *)
(***************************************************************************)
EXTENDS ForwardServer, TLAPS

LEMMA PoolStutters == UNCHANGED poolVars => UNCHANGED Pool!vars
  BY DEF poolVars, Pool!vars, Pool!clientVars, Pool!tableVars, Pool!checkerVars,
         Pool!historyVars

LEMMA SessStutters == UNCHANGED sessVars => UNCHANGED Sess!vars
  BY DEF sessVars, Sess!vars, Sess!threadVars, Sess!remoteVars, Sess!historyVars

\* What the whole server does to the pool, the pool may do: the connections only
\* ever touch it through connectionBroken (ForwardServer!ImplementsPool).
LEMMA PoolImplemented == Spec => ImplementsPool
<1>1. Init => Pool!Init
  BY DEF Init
<1>2. [Next]_vars => [Pool!Next]_(Pool!vars)
  <2> SUFFICES ASSUME [Next]_vars
               PROVE  Pool!Next \/ UNCHANGED Pool!vars
    OBVIOUS
  <2>1. ASSUME NEW c \in Clients, AcceptStep(c)
        PROVE  Pool!Next
    BY <2>1 DEF AcceptStep, Handshake, Pool!Next, Pool!AcceptStep
  <2>2. ASSUME NEW c \in Clients, ClientThreadStep(c)
        PROVE  Pool!Next \/ UNCHANGED Pool!vars
    BY <2>2, PoolStutters
       DEF ClientThreadStep, Refuse, Connect, OpenStreams, SessAlone, Pool!Next,
           Pool!ConnectStep
  <2>3. ASSUME NEW c \in Clients, NEW e \in Ends, ForwardThreadStep(c, e)
        PROVE  Pool!Next \/ UNCHANGED Pool!vars
    BY <2>3, PoolStutters
       DEF ForwardThreadStep, ReadForDecrement, Account, SessAlone, Pool!Next,
           Pool!ReleaseStep
  <2>4. ASSUME NEW c \in Clients, NEW e \in Ends, RemoteStep(c, e)
        PROVE  UNCHANGED Pool!vars
    BY <2>4, PoolStutters DEF RemoteStep, SessAlone
  <2>5. CASE CheckerStep
    BY <2>5 DEF CheckerStep, Pool!Next
  <2>6. ASSUME NEW s \in Servers, ServerToggles(s)
        PROVE  Pool!Next
    BY <2>6 DEF ServerToggles, Pool!Next, Servers, Pool!Servers
  <2>7. CASE UNCHANGED vars
    BY <2>7, PoolStutters DEF vars
  <2> QED
    BY <2>1, <2>2, <2>3, <2>4, <2>5, <2>6, <2>7 DEF Next
<1> QED
  BY <1>1, <1>2, PTL DEF Spec, ImplementsPool, Pool!Spec

\* What the whole server does to a connection, a connection may do: choosing and
\* counting servers adds no behaviour to it (ForwardServer!ImplementsSession).
LEMMA SessionImplemented == Spec => ImplementsSession
<1>1. Init => Sess!Init
  BY DEF Init
<1>2. [Next]_vars => [Sess!Next]_(Sess!vars)
  <2> SUFFICES ASSUME [Next]_vars
               PROVE  Sess!Next \/ UNCHANGED Sess!vars
    OBVIOUS
  <2>1. ASSUME NEW c \in Clients, AcceptStep(c)
        PROVE  Sess!Next \/ UNCHANGED Sess!vars
    BY <2>1, SessStutters DEF AcceptStep, Handshake, PoolAlone, Sess!Next
  <2>2. ASSUME NEW c \in Clients, ClientThreadStep(c)
        PROVE  Sess!Next \/ UNCHANGED Sess!vars
    BY <2>2, SessStutters
       DEF ClientThreadStep, Refuse, Connect, OpenStreams, PoolAlone, Sess!Next,
           Sess!MainStep
  <2>3. ASSUME NEW c \in Clients, NEW e \in Ends, ForwardThreadStep(c, e)
        PROVE  Sess!Next \/ UNCHANGED Sess!vars
    BY <2>3, SessStutters
       DEF ForwardThreadStep, ReadForDecrement, Account, PoolAlone, Sess!Next,
           Sess!ThreadStep, Sess!BrokenStep, Ends, Sess!Ends
  <2>4. ASSUME NEW c \in Clients, NEW e \in Ends, RemoteStep(c, e)
        PROVE  Sess!Next
    BY <2>4 DEF RemoteStep, Sess!Next, Ends, Sess!Ends
  <2>5. CASE CheckerStep
    BY <2>5, SessStutters DEF CheckerStep, PoolAlone
  <2>6. ASSUME NEW s \in Servers, ServerToggles(s)
        PROVE  UNCHANGED Sess!vars
    BY <2>6, SessStutters DEF ServerToggles, PoolAlone
  <2>7. CASE UNCHANGED vars
    BY <2>7, SessStutters DEF vars
  <2> QED
    BY <2>1, <2>2, <2>3, <2>4, <2>5, <2>6, <2>7 DEF Next
<1> QED
  BY <1>1, <1>2, PTL DEF Spec, ImplementsSession, Sess!Spec

-----------------------------------------------------------------------------
(* What is proved of the components holds in the composition: PoolP and    *)
(* SessP are the components once more, with their theorems.                *)

PoolP == INSTANCE ServerPool_proofs
SessP == INSTANCE ForwardSession_proofs

LEMMA PoolAssumed == PoolP!ConstantsAssumption
  BY ServerAssumption DEF PoolP!ConstantsAssumption, IsFiniteSet, PoolP!IsFiniteSet

LEMMA SessAssumed == SessP!BoundsAssumption
  BY ServerAssumption DEF SessP!BoundsAssumption, SessP!Ends

LEMMA SameCardinality == \A S : PoolP!Cardinality(S) = Cardinality(S)
  BY DEF Cardinality, PoolP!Cardinality, IsFiniteSet, PoolP!IsFiniteSet

LEMMA SamePool ==
    /\ Pool!Init <=> PoolP!Init
    /\ Pool!Next <=> PoolP!Next
    /\ Pool!vars = PoolP!vars
  BY
       DEF Pool!clientVars, PoolP!clientVars, Pool!tableVars, PoolP!tableVars,
           Pool!checkerVars, PoolP!checkerVars, Pool!historyVars, PoolP!historyVars,
           Pool!vars, PoolP!vars, Pool!Servers, PoolP!Servers, Pool!NoServer,
           PoolP!NoServer, Pool!Init, PoolP!Init, Pool!Scanning, PoolP!Scanning,
           Pool!TableWritten, PoolP!TableWritten, Pool!StartClientThread,
           PoolP!StartClientThread, Pool!Accept, PoolP!Accept, Pool!AcceptTls,
           PoolP!AcceptTls, Pool!Handshake, PoolP!Handshake, Pool!ScanDone,
           PoolP!ScanDone, Pool!ScanServer, PoolP!ScanServer, Pool!Refuse, PoolP!Refuse,
           Pool!Connect, PoolP!Connect, Pool!MarkDead, PoolP!MarkDead, Pool!ReadCount,
           PoolP!ReadCount, Pool!WriteCount, PoolP!WriteCount, Pool!ReadForIncrement,
           PoolP!ReadForIncrement, Pool!WriteIncrement, PoolP!WriteIncrement,
           Pool!OpenStreams, PoolP!OpenStreams, Pool!ReadForDecrement,
           PoolP!ReadForDecrement, Pool!WriteDecrement, PoolP!WriteDecrement,
           Pool!NextServer, PoolP!NextServer, Pool!Wake, PoolP!Wake, Pool!TestServer,
           PoolP!TestServer, Pool!Probe, PoolP!Probe, Pool!Revive, PoolP!Revive,
           Pool!ServerToggles, PoolP!ServerToggles, Pool!ConnectStep, PoolP!ConnectStep,
           Pool!ReleaseStep, PoolP!ReleaseStep, Pool!AcceptStep, PoolP!AcceptStep,
           Pool!CheckerStep, PoolP!CheckerStep, Pool!Next, PoolP!Next, Pool!Spec,
           PoolP!Spec

LEMMA SameSession ==
    /\ Sess!Init <=> SessP!Init
    /\ Sess!Next <=> SessP!Next
    /\ Sess!vars = SessP!vars
  BY
       DEF Sess!Ends, SessP!Ends, Sess!Other, SessP!Other, Sess!Threads, SessP!Threads,
           Sess!threadVars, SessP!threadVars, Sess!remoteVars, SessP!remoteVars,
           Sess!historyVars, SessP!historyVars, Sess!vars, SessP!vars, Sess!NoThread,
           SessP!NoThread, Sess!Init, SessP!Init, Sess!HandshakeFails,
           SessP!HandshakeFails, Sess!Refuse, SessP!Refuse, Sess!Connect, SessP!Connect,
           Sess!OpenStreams, SessP!OpenStreams, Sess!StartThread, SessP!StartThread,
           Sess!StartClientForward, SessP!StartClientForward, Sess!StartServerForward,
           SessP!StartServerForward, Sess!Goto, SessP!Goto, Sess!Finish, SessP!Finish,
           Sess!ReadData, SessP!ReadData, Sess!ReadEnd, SessP!ReadEnd, Sess!ReadFails,
           SessP!ReadFails, Sess!ClearFlag, SessP!ClearFlag, Sess!Write, SessP!Write,
           Sess!WriteFails, SessP!WriteFails, Sess!SetFlag, SessP!SetFlag,
           Sess!TestFlag, SessP!TestFlag, Sess!Enter, SessP!Enter, Sess!CloseSocket,
           SessP!CloseSocket, Sess!CloseServerSocket, SessP!CloseServerSocket,
           Sess!CloseClientSocket, SessP!CloseClientSocket, Sess!ClearBoth,
           SessP!ClearBoth, Sess!Account, SessP!Account, Sess!Present, SessP!Present,
           Sess!Send, SessP!Send, Sess!EndMoves, SessP!EndMoves, Sess!MainStep,
           SessP!MainStep, Sess!PumpStep, SessP!PumpStep, Sess!BrokenStep,
           SessP!BrokenStep, Sess!ThreadStep, SessP!ThreadStep, Sess!RemoteStep,
           SessP!RemoteStep, Sess!Next, SessP!Next, Sess!Spec, SessP!Spec

LEMMA PoolKept == Spec => PoolP!Spec
<1>1. [Pool!Next]_(Pool!vars) => [PoolP!Next]_(PoolP!vars)
  BY SamePool
     DEF Pool!vars, PoolP!vars, Pool!clientVars, PoolP!clientVars, Pool!tableVars,
         PoolP!tableVars, Pool!checkerVars, PoolP!checkerVars, Pool!historyVars,
         PoolP!historyVars
<1> QED
  BY <1>1, SamePool, PoolImplemented, PTL DEF ImplementsPool, Pool!Spec, PoolP!Spec

LEMMA SessionKept == Spec => SessP!Spec
<1>1. [Sess!Next]_(Sess!vars) => [SessP!Next]_(SessP!vars)
  BY SameSession
     DEF Sess!vars, SessP!vars, Sess!threadVars, SessP!threadVars, Sess!remoteVars,
         SessP!remoteVars, Sess!historyVars, SessP!historyVars
<1> QED
  BY <1>1, SameSession, SessionImplemented, PTL DEF ImplementsSession, Sess!Spec, SessP!Spec

LEMMA PoolFacts == Spec => [](PoolP!TypeOK /\ PoolP!CountExact)
  BY PoolKept, PoolAssumed, PoolP!TypeCorrect, PoolP!CountsAreExact, PTL

LEMMA SessionFacts == Spec => [](SessP!TypeOK /\ SessP!ReleasedOnce)
  BY SessionKept, SessAssumed, SessP!TypeCorrect, SessP!ReleasedExactlyOnce, PTL

\* To a client, the whole server is the service: the table of servers, its counters and
\* the checker thread take nothing from what a connection promises
\* (ForwardSessionService!ImplementsService).
THEOREM ServerKeepsService == Spec => SessP!ImplementsService
  BY SessionKept, SessAssumed, SessP!ServiceImplemented, PTL

\* And what was proved of a connection alone, it keeps in the whole server: the request
\* before the teardown, and the last data of either end.
THEOREM ServerKeepsConnections ==
    Spec => [](/\ SessP!NoTeardownBeforeRequest
               /\ SessP!ServerDataForwarded
               /\ SessP!ClientDataForwarded)
  BY SessionKept, SessAssumed, SessP!RequestFirst, SessP!NothingCutOff,
     SessP!NothingOfClientCutOff, PTL

\* The choice of a server, too: a client is refused only after every server was tried,
\* and the least loaded one is taken.
THEOREM ServerKeepsChoice == Spec => [](PoolP!FailOver /\ PoolP!LeastLoaded)
  BY PoolKept, PoolAssumed, PoolP!FailOverHolds, PoolP!LeastLoadedChosen, PTL

-----------------------------------------------------------------------------
(* The counter of a server is the number of its open sockets.              *)

\* The types of the variables in which the components meet.
Types ==
    /\ pc \in [Clients -> PoolP!ClientStates]
    /\ main \in [Clients -> SessP!MainStates]
    /\ fwd \in [Clients \X Ends -> SessP!ThreadStates]
    /\ sock \in [Clients \X Ends -> BOOLEAN]
    /\ released \in [Clients -> Nat]

Idle(c) == fwd[<<c, "client">>] = "none" /\ fwd[<<c, "server">>] = "none"

\* How far a client is in the pool says how far its connection is, and the other way
\* round: a socket to the server is open from Connect on, threads run from the opening of
\* the streams on, and the counter is read for -- by a thread inside connectionBroken.
Linked(c) ==
    /\ pc[c] \in {"new", "handshake", "scan", "markDead", "refused"} =>
          main[c] \in {"connecting", "refused"} /\ Idle(c) /\ ~sock[<<c, "server">>]
    /\ pc[c] \in {"connected", "increment", "streams", "leaked"} =>
          /\ main[c] = IF pc[c] = "leaked" THEN "failed" ELSE "streams"
          /\ Idle(c) /\ sock[<<c, "server">>] /\ released[c] = 0
    /\ pc[c] \in {"forwarding", "decrement", "released"} =>
          /\ main[c] \in {"startClient", "startServer", "started"}
          /\ released[c] = IF pc[c] = "released" THEN 1 ELSE 0
    /\ pc[c] = "decrement" => \E e \in Ends : fwd[<<c, e>>] = "account"
    /\ pc[c] \in {"new", "handshake", "scan", "markDead", "connected", "increment", "streams"} =>
          (c \in sslBroken <=> ~sock[<<c, "client">>])
    /\ main[c] = "startClient" => Idle(c)
    /\ main[c] = "startServer" => fwd[<<c, "server">>] = "none"
    /\ pc[c] \in {"new", "handshake", "scan", "markDead"} => released[c] = 0
    /\ pc[c] = "refused" => main[c] = "refused"
    /\ pc[c] \in {"new", "handshake", "scan", "markDead"} => main[c] = "connecting"

Link == \A c \in Clients : Linked(c)

\* What Linked says of d depends on nothing else.
LEMMA LinkedSame ==
    ASSUME NEW d \in Clients, Linked(d),
           pc'[d] = pc[d], main'[d] = main[d], released'[d] = released[d],
           sock'[<<d, "server">>] = sock[<<d, "server">>],
           \/ pc[d] \in {"forwarding", "decrement", "released", "refused", "leaked"}
           \/ /\ d \in sslBroken' <=> d \in sslBroken
              /\ sock'[<<d, "client">>] = sock[<<d, "client">>],
           \A e \in Ends : fwd'[<<d, e>>] = fwd[<<d, e>>]
    PROVE  Linked(d)'
  BY DEF Linked, Idle, Ends

LEMMA LinkStep ==
    ASSUME Types, PoolP!TypeOK, SessP!TypeOK, Link, [Next]_vars
    PROVE  Link'
<1> USE DEF Types, Link, Ends
<1>1. ASSUME NEW c \in Clients, AcceptStep(c)
      PROVE  Link'
  <2> SUFFICES ASSUME NEW d \in Clients PROVE Linked(d)'
    OBVIOUS
  <2>1. CASE UNCHANGED sessVars
    <3>1. /\ pc[c] \in {"new", "handshake"} /\ sslBroken' = sslBroken
          /\ \E state \in {"handshake", "scan"} : pc' = [pc EXCEPT ![c] = state]
      BY <1>1, <2>1 DEF AcceptStep, Handshake, Pool!Accept, Pool!AcceptTls, Pool!Handshake,
                  Pool!StartClientThread, Sess!HandshakeFails, sessVars
    <3> QED
      BY <2>1, <3>1, LinkedSame DEF Linked, Idle, sessVars
  <2>2. CASE ~UNCHANGED sessVars
    <3>1. Pool!Handshake(c) /\ Sess!HandshakeFails(c)
      BY <1>1, <2>2 DEF AcceptStep, Handshake, PoolAlone
    <3>2. /\ pc[c] = "handshake" /\ pc' = [pc EXCEPT ![c] = "scan"]
          /\ sock' = [sock EXCEPT ![<<c, "client">>] = FALSE]
          /\ sslBroken' = sslBroken \cup {c}
          /\ UNCHANGED <<main, fwd, released>>
      BY <1>1, <2>2, <3>1 DEF AcceptStep, Handshake, PoolAlone, Pool!Accept, Pool!AcceptTls,
                  Pool!Handshake, Pool!StartClientThread, Sess!HandshakeFails,
                  Sess!threadVars, Sess!historyVars
    <3>3. /\ sock'[<<d, "server">>] = sock[<<d, "server">>]
          /\ d # c => sock'[<<d, "client">>] = sock[<<d, "client">>]
          /\ ~sock'[<<c, "client">>]
      BY <3>2
    <3> QED
      BY <3>2, <3>3, LinkedSame DEF Linked, Idle
  <2> QED
    BY <2>1, <2>2
<1>2. ASSUME NEW c \in Clients, ClientThreadStep(c)
      PROVE  Link'
  <2> SUFFICES ASSUME NEW d \in Clients PROVE Linked(d)'
    OBVIOUS
  <2>0. Linked(d) /\ Linked(c)
    OBVIOUS
  <2>1. CASE PoolAlone /\ (Pool!ScanServer(c) \/ Pool!MarkDead(c)
                              \/ Pool!ReadForIncrement(c) \/ Pool!WriteIncrement(c))
    <3>1. /\ <<pc[c], pc'[c]>> \in {<<"scan", "scan">>, <<"markDead", "scan">>,
                    <<"connected", "increment">>, <<"increment", "streams">>}
          /\ d # c => pc'[d] = pc[d]
          /\ UNCHANGED sslBroken
      BY <2>1 DEF Pool!ScanServer, Pool!MarkDead, Pool!ReadForIncrement, Pool!WriteIncrement,
                  Pool!ReadCount, Pool!WriteCount
    <3>2. UNCHANGED <<main, fwd, sock, released>>
      BY <2>1 DEF PoolAlone, sessVars
    <3> QED
      BY <2>0, <3>1, <3>2, LinkedSame DEF Linked, Idle
  <2>2. CASE Refuse(c)
    <3>1. /\ pc[c] = "scan" /\ pc' = [pc EXCEPT ![c] = "refused"]
          /\ main' = [main EXCEPT ![c] = "refused"]
          /\ sock' = [sock EXCEPT ![<<c, "client">>] = FALSE]
          /\ UNCHANGED <<fwd, released, sslBroken>>
      BY <2>2 DEF Refuse, Pool!Refuse, Sess!Refuse, Sess!historyVars
    <3>2. /\ sock'[<<d, "server">>] = sock[<<d, "server">>]
          /\ d # c => sock'[<<d, "client">>] = sock[<<d, "client">>]
      BY <3>1
    <3> QED
      BY <2>0, <3>1, <3>2, LinkedSame DEF Linked, Idle
  <2>3. CASE Connect(c)
    <3>1. CASE up[server[c]]
      <4>1. /\ pc[c] = "scan" /\ pc' = [pc EXCEPT ![c] = "connected"]
            /\ main' = [main EXCEPT ![c] = "streams"]
            /\ sock' = [sock EXCEPT ![<<c, "server">>] = TRUE]
            /\ UNCHANGED <<fwd, released, sslBroken>>
        BY <2>3, <3>1 DEF Connect, Pool!Connect, Sess!Connect, Sess!historyVars
      <4>2. d # c => sock'[<<d, "server">>] = sock[<<d, "server">>]
        BY <4>1
      <4>3. sock'[<<c, "server">>] /\ sock'[<<d, "client">>] = sock[<<d, "client">>]
        BY <4>1
      <4> QED
        BY <2>0, <4>1, <4>2, <4>3, LinkedSame DEF Linked, Idle
    <3>2. CASE ~up[server[c]]
      <4>1. /\ pc[c] = "scan" /\ pc' = [pc EXCEPT ![c] = "markDead"]
            /\ UNCHANGED <<main, fwd, sock, released, sslBroken>>
        BY <2>3, <3>2 DEF Connect, Pool!Connect, sessVars
      <4> QED
        BY <2>0, <4>1, LinkedSame DEF Linked, Idle
    <3> QED
      BY <3>1, <3>2
  <2>4. CASE OpenStreams(c)
    <3>1. /\ pc[c] = "streams" /\ main[c] = "streams"
          /\ pc' = [pc EXCEPT ![c] = IF c \in sslBroken THEN "leaked" ELSE "forwarding"]
          /\ main' = [main EXCEPT ![c] = IF sock[<<c, "client">>] THEN "startClient" ELSE "failed"]
          /\ UNCHANGED <<fwd, sock, released, sslBroken>>
      BY <2>4 DEF OpenStreams, Pool!OpenStreams, Sess!OpenStreams, Sess!historyVars
    <3>2. c \in sslBroken <=> ~sock[<<c, "client">>]
      BY <2>0, <3>1 DEF Linked
    <3> QED
      BY <2>0, <3>1, <3>2, LinkedSame DEF Linked, Idle
  <2>5. CASE SessAlone /\ (Sess!StartClientForward(c) \/ Sess!StartServerForward(c))
    <3>1. UNCHANGED <<pc, sock, released, sslBroken>>
      BY <2>5 DEF SessAlone, poolVars, Sess!StartClientForward, Sess!StartServerForward,
                  Sess!StartThread, Sess!historyVars
    <3>2. CASE Sess!StartClientForward(c)
      <4>1. /\ main[c] = "startClient" /\ main' = [main EXCEPT ![c] = "startServer"]
            /\ fwd' = [fwd EXCEPT ![<<c, "client">>] = "read"]
        BY <3>2 DEF Sess!StartClientForward, Sess!StartThread
      <4>2. \A e \in Ends : <<d, e>> # <<c, "client">> => fwd'[<<d, e>>] = fwd[<<d, e>>]
        BY <4>1
      <4> QED
        BY <2>0, <3>1, <4>1, <4>2, LinkedSame DEF Linked, Idle
    <3>3. CASE Sess!StartServerForward(c)
      <4>1. /\ main[c] = "startServer" /\ main' = [main EXCEPT ![c] = "started"]
            /\ fwd' = [fwd EXCEPT ![<<c, "server">>] = "read"]
        BY <3>3 DEF Sess!StartServerForward, Sess!StartThread
      <4>2. \A e \in Ends : <<d, e>> # <<c, "server">> => fwd'[<<d, e>>] = fwd[<<d, e>>]
        BY <4>1
      <4> QED
        BY <2>0, <3>1, <4>1, <4>2, LinkedSame DEF Linked, Idle
    <3> QED
      BY <2>5, <3>2, <3>3
  <2> QED
    BY <1>2, <2>1, <2>2, <2>3, <2>4, <2>5 DEF ClientThreadStep
<1>3. ASSUME NEW c \in Clients, NEW e \in Ends, ForwardThreadStep(c, e)
      PROVE  Link'
  <2> SUFFICES ASSUME NEW d \in Clients PROVE Linked(d)'
    OBVIOUS
  <2>0. Linked(d) /\ Linked(c)
    OBVIOUS
  <2>1. CASE SessAlone /\ (\/ Sess!PumpStep(c, e) \/ Sess!Enter(c, e) \/ Sess!ClearBoth(c, e)
                           \/ Sess!CloseServerSocket(c, e) \/ Sess!CloseClientSocket(c, e))
    <3>1. UNCHANGED <<pc, sslBroken>>
      BY <2>1 DEF SessAlone, poolVars
    <3>2. /\ fwd[<<c, e>>] \notin {"none", "account"}
          /\ \E state \in SessP!ThreadStates : fwd' = [fwd EXCEPT ![<<c, e>>] = state]
          /\ UNCHANGED <<main, released>>
          /\ sock' \in {sock, [sock EXCEPT ![<<c, "server">>] = FALSE],
                              [sock EXCEPT ![<<c, "client">>] = FALSE]}
      <4>1. CASE Sess!PumpStep(c, e)
        BY <4>1 DEF Sess!PumpStep, Sess!ReadData, Sess!ReadEnd, Sess!ReadFails, Sess!Write,
                    Sess!WriteFails, Sess!ClearFlag, Sess!SetFlag, Sess!TestFlag, Sess!Goto,
                    Sess!Finish, Sess!historyVars, SessP!ThreadStates
      <4>2. CASE Sess!Enter(c, e) \/ Sess!ClearBoth(c, e)
        BY <4>2 DEF Sess!Enter, Sess!ClearBoth, Sess!Goto, Sess!historyVars,
                    SessP!ThreadStates, SessP!ClosingStates
      <4>3. CASE Sess!CloseServerSocket(c, e) \/ Sess!CloseClientSocket(c, e)
        BY <4>3 DEF Sess!CloseServerSocket, Sess!CloseClientSocket, Sess!CloseSocket, Sess!Goto,
                    Sess!historyVars, SessP!ThreadStates, SessP!ClosingStates
      <4> QED
        BY <2>1, <4>1, <4>2, <4>3
    <3>3. /\ \A x \in Ends : <<d, x>> # <<c, e>> => fwd'[<<d, x>>] = fwd[<<d, x>>]
          /\ d # c => \A x \in Ends : sock'[<<d, x>>] = sock[<<d, x>>]
      BY <3>2
    <3>4. CASE d # c
      BY <2>0, <3>1, <3>2, <3>3, <3>4, LinkedSame
    <3>5. CASE d = c
      <4>1. pc[c] \in {"forwarding", "decrement", "released"}
        BY <2>0, <3>2 DEF Linked, Idle, PoolP!ClientStates
      <4> QED
        BY <2>0, <3>1, <3>2, <3>3, <3>5, <4>1 DEF Linked, Idle
    <3> QED
      BY <3>4, <3>5
  <2>2. CASE ReadForDecrement(c, e)
    <3>1. /\ pc[c] = "forwarding" /\ pc' = [pc EXCEPT ![c] = "decrement"]
          /\ fwd[<<c, e>>] = "account"
          /\ UNCHANGED <<main, fwd, sock, released, sslBroken>>
      BY <2>2 DEF ReadForDecrement, Pool!ReadForDecrement, Pool!ReadCount, PoolAlone, sessVars
    <3> QED
      BY <2>0, <3>1, LinkedSame DEF Linked, Idle
  <2>3. CASE Account(c, e)
    <3>1. /\ pc[c] = "decrement" /\ pc' = [pc EXCEPT ![c] = "released"]
          /\ fwd' = [fwd EXCEPT ![<<c, e>>] = "done"] /\ fwd[<<c, e>>] = "account"
          /\ released' = [released EXCEPT ![c] = released[c] + 1]
          /\ UNCHANGED <<main, sock, sslBroken>>
      BY <2>3 DEF Account, Pool!WriteDecrement, Pool!WriteCount, Sess!Account, Sess!Goto
    <3>2. \A x \in Ends : <<d, x>> # <<c, e>> => fwd'[<<d, x>>] = fwd[<<d, x>>]
      BY <3>1
    <3>3. CASE d # c
      BY <2>0, <3>1, <3>2, <3>3, LinkedSame
    <3>4. CASE d = c
      BY <2>0, <3>1, <3>2, <3>4 DEF Linked, Idle
    <3> QED
      BY <3>3, <3>4
  <2> QED
    BY <1>3, <2>1, <2>2, <2>3 DEF ForwardThreadStep
<1>4. CASE UNCHANGED <<pc, sslBroken, main, fwd, sock, released>>
  BY <1>4, LinkedSame
<1>5. ASSUME NEW c \in Clients, NEW e \in Ends, RemoteStep(c, e)
      PROVE  UNCHANGED <<pc, sslBroken, main, fwd, sock, released>>
  BY <1>5 DEF RemoteStep, SessAlone, poolVars, Sess!RemoteStep, Sess!Send, Sess!EndMoves,
              Sess!threadVars, Sess!historyVars
<1>6. ASSUME CheckerStep \/ \E s \in Servers : ServerToggles(s)
      PROVE  UNCHANGED <<pc, sslBroken, main, fwd, sock, released>>
  BY <1>6 DEF CheckerStep, ServerToggles, PoolAlone, sessVars, Pool!ServerToggles,
              Pool!CheckerStep, Pool!Wake, Pool!TestServer, Pool!Probe, Pool!Revive,
              Pool!clientVars
<1>7. CASE UNCHANGED vars
  BY <1>4, <1>7 DEF vars, poolVars, sessVars
<1> QED
  BY <1>1, <1>2, <1>3, <1>4, <1>5, <1>6, <1>7 DEF Next

\* With no thread between a socket and its counter, the connections the pool counts are
\* those whose socket is open.
LEMMA CountedAreOpen ==
    ASSUME Types, Link, SessP!ReleasedOnce, NEW s \in Servers, Settled(s)
    PROVE  OpenSockets(s) = PoolP!Counted(s)
<1> SUFFICES ASSUME NEW c \in Clients, server[c] = s
             PROVE  sock[<<c, "server">>] <=> pc[c] \in {"streams", "forwarding", "decrement", "leaked"}
  BY DEF OpenSockets, PoolP!Counted
<1>1. Linked(c) /\ pc[c] \notin {"connected", "increment"} /\ ~SessP!Closing(c)
  BY DEF Link, Settled, Sess!Closing, SessP!Closing, Sess!Ends, SessP!Ends,
         Sess!ClosingStates, SessP!ClosingStates
<1>2. pc[c] \in PoolP!ClientStates
  BY DEF Types
<1>3. main[c] \in {"startClient", "startServer", "started"} =>
         \/ sock[<<c, "server">>] /\ released[c] = 0
         \/ ~sock[<<c, "server">>] /\ released[c] = 1
  BY <1>1 DEF SessP!ReleasedOnce
<1> QED
  BY <1>1, <1>2, <1>3 DEF Linked, PoolP!ClientStates

LEMMA TypesHold == PoolP!TypeOK /\ SessP!TypeOK => Types
  BY DEF PoolP!TypeOK, SessP!TypeOK, Types, SessP!Threads, SessP!Ends, Ends

\* The load a server is chosen by is the number of sockets that are open to it, whenever
\* no thread is in the middle of an update and none was lost, in the server as a whole
\* (ForwardServer!CountIsOpenSockets).
THEOREM CountsOpenSockets == Spec => []CountIsOpenSockets
<1>1. Init => Link
  <2> SUFFICES ASSUME Init, NEW c \in Clients PROVE Linked(c)
    BY DEF Link
  <2> QED
    BY DEF Init, Pool!Init, Sess!Init, Linked, Idle, Sess!Threads, Sess!Ends
<1>2. PoolP!TypeOK /\ SessP!TypeOK /\ Link /\ [Next]_vars => Link'
  BY LinkStep, TypesHold
<1>3. PoolP!TypeOK /\ PoolP!CountExact /\ SessP!TypeOK /\ SessP!ReleasedOnce /\ Link
         => CountIsOpenSockets
  <2> SUFFICES ASSUME PoolP!CountExact, Types, SessP!ReleasedOnce, Link,
                      NEW s \in Servers \ lost, Settled(s)
               PROVE  clientsConnectedCount[s] = Cardinality(OpenSockets(s))
    BY TypesHold DEF CountIsOpenSockets
  <2>1. clientsConnectedCount[s] = PoolP!Cardinality(PoolP!Counted(s))
    BY DEF PoolP!CountExact, Servers, PoolP!Servers
  <2> QED
    BY <2>1, CountedAreOpen, SameCardinality
<1> QED
  BY <1>1, <1>2, <1>3, PoolFacts, SessionFacts, PTL DEF Spec

=============================================================================
