---------------------------- MODULE ForwardServer ---------------------------
(***************************************************************************)
(* NakovHttpForwardServer as a whole: every accepted client goes through   *)
(* the server pool (ServerPool) and then has a connection of its own       *)
(* (ForwardSession).  The two meet where one statement of the code touches *)
(* both: the connection attempt, the opening of the streams, and           *)
(* server.clientsConnectedCount-- inside connectionBroken.                 *)
(***************************************************************************)
EXTENDS Integers, FiniteSets

CONSTANTS Clients, TlsClients, ServerCount, LoadBalancing, MaxChunks, Departures

\* What the components assume of them (ServerPool!ConstantsAssumption and
\* ForwardSession!BoundsAssumption).
ASSUME ServerAssumption ==
    /\ IsFiniteSet(Clients) /\ TlsClients \subseteq Clients
    /\ ServerCount \in Nat \ {0} /\ LoadBalancing \in BOOLEAN
    /\ MaxChunks \in [{"client", "server"} -> Nat]
    /\ Departures \subseteq {"shut", "gone", "reset"}

\* The state of ServerPool.
VARIABLES pc, pos, server, tmp, sslBroken, isAlive, clientsConnectedCount, up,
          checkerPc, checkerPos, lost, steady, disturbed

\* The state of ForwardSession.
VARIABLES main, fwd, sock, both, canBroke, monitor, end, queue, sent,
          released, wrote, dropped

Pool == INSTANCE ServerPool
Sess == INSTANCE ForwardSession

poolVars == <<pc, pos, server, tmp, sslBroken, isAlive, clientsConnectedCount, up,
              checkerPc, checkerPos, lost, steady, disturbed>>
sessVars == <<main, fwd, sock, both, canBroke, monitor, end, queue, sent,
              released, wrote, dropped>>
vars == <<poolVars, sessVars>>

Servers == 1..ServerCount
Ends    == {"client", "server"}

Init == Pool!Init /\ Sess!Init

\* A step of one component leaves the variables of the other alone.
PoolAlone == UNCHANGED sessVars
SessAlone == UNCHANGED poolVars

-----------------------------------------------------------------------------
(* The accept loops and ForwardServerClientThread.run.                     *)

Handshake(c) ==
    /\ Pool!Handshake(c)
    /\ IF c \in sslBroken' THEN Sess!HandshakeFails(c) ELSE UNCHANGED sessVars

AcceptStep(c) ==
    \/ (Pool!Accept(c) \/ Pool!AcceptTls(c)) /\ PoolAlone
    \/ Handshake(c)

Refuse(c) == Pool!Refuse(c) /\ Sess!Refuse(c)

Connect(c) ==
    /\ Pool!Connect(c)
    /\ IF up[server[c]] THEN Sess!Connect(c) ELSE UNCHANGED sessVars

OpenStreams(c) == Pool!OpenStreams(c) /\ Sess!OpenStreams(c)

ClientThreadStep(c) ==
    \/ /\ \/ Pool!ScanServer(c) \/ Pool!MarkDead(c)
          \/ Pool!ReadForIncrement(c) \/ Pool!WriteIncrement(c)
       /\ PoolAlone
    \/ Refuse(c) \/ Connect(c) \/ OpenStreams(c)
    \/ (Sess!StartClientForward(c) \/ Sess!StartServerForward(c)) /\ SessAlone

-----------------------------------------------------------------------------
(* ForwardThread.run and connectionBroken.                                 *)

\* clientsConnectedCount-- by the thread that holds the monitor: its read, and
\* its write, after which the monitor is left.
ReadForDecrement(c, e) ==
    /\ fwd[<<c, e>>] = "account"
    /\ Pool!ReadForDecrement(c)
    /\ PoolAlone

Account(c, e) == Pool!WriteDecrement(c) /\ Sess!Account(c, e)

ForwardThreadStep(c, e) ==
    \/ /\ \/ Sess!PumpStep(c, e) \/ Sess!Enter(c, e) \/ Sess!ClearBoth(c, e)
          \/ Sess!CloseServerSocket(c, e) \/ Sess!CloseClientSocket(c, e)
       /\ SessAlone
    \/ ReadForDecrement(c, e) \/ Account(c, e)

-----------------------------------------------------------------------------
(* Environment.  What the remote ends do before forwarding starts is seen  *)
(* by nobody until then, so they are left to move from that moment on.     *)

RemoteStep(c, e) ==
    /\ pc[c] = "forwarding"
    /\ Sess!RemoteStep(c, e)
    /\ SessAlone

CheckerStep == Pool!CheckerStep /\ PoolAlone

ServerToggles(s) == Pool!ServerToggles(s) /\ PoolAlone

-----------------------------------------------------------------------------
Next ==
    \/ \E c \in Clients :
          \/ AcceptStep(c) \/ ClientThreadStep(c)
          \/ \E e \in Ends : ForwardThreadStep(c, e) \/ RemoteStep(c, e)
    \/ CheckerStep
    \/ \E s \in Servers : ServerToggles(s)

Spec == Init /\ [][Next]_vars

\* Every started thread is scheduled; nobody makes the clients arrive, the
\* handshakes end, the remote ends move or the servers recover.
Fairness ==
    /\ \A c \in Clients :
          /\ WF_vars(ClientThreadStep(c))
          /\ \A e \in Ends : WF_vars(ForwardThreadStep(c, e))
    /\ WF_vars(CheckerStep)

FairSpec == Spec /\ Fairness

-----------------------------------------------------------------------------
(* Properties.                                                             *)

\* The whole server, seen through the variables of one component: true by the way Next
\* is put together, and what carries the theorems about the components over to it.
ImplementsPool    == Pool!Spec
ImplementsSession == Sess!Spec

\* Connections to s that are open on the forwarder's side.
OpenSockets(s) == {c \in Clients : server[c] = s /\ sock[<<c, "server">>]}

\* No thread is between a socket of s and its counter.
Settled(s) ==
    \A c \in Clients :
        server[c] = s => /\ pc[c] \notin {"connected", "increment"}
                         /\ ~Sess!Closing(c)

\* The counter the choice of a server goes by is the number of sockets open to
\* it, whenever no thread is in the middle of an update and none was lost: the
\* two ForwardThreads of a connection, racing to end it, give it back once.
CountIsOpenSockets ==
    \A s \in Servers \ lost :
        Settled(s) => clientsConnectedCount[s] = Cardinality(OpenSockets(s))

\* When the client of a forwarded connection is gone, the connection ends, its
\* server's counter is given back, and the thread that did so leaves the monitor.
ClientGoneReleases ==
    \A c \in Clients :
        (pc[c] = "forwarding" /\ end[<<c, "client">>] # "open")
            ~> (pc[c] = "released" /\ monitor[c] = Sess!NoThread)

\* ForwardServerClientThread 40-41: "waits until one of these threads stop due to
\* read/write failure or connection closure.  Closes opened connections."  Run
\* server_handshake_leak: a client whose SSL handshake failed has its connection to
\* a server opened and counted, and nobody ever closes it.
OpenedConnectionsClose ==
    \A c \in Clients :
        (sock[<<c, "server">>] /\ ~sock[<<c, "client">>]) ~> ~sock[<<c, "server">>]

=============================================================================
