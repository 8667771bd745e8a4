----------------------------- MODULE ServerPool -----------------------------
(***************************************************************************)
(* The server pool of NakovHttpForwardServer: how an accepted client is    *)
(* given a destination server, how the load of each server is counted,     *)
(* and how dead servers are found and revived.                             *)
(*                                                                         *)
(*   - the two accept loops (plain and SSL) of NakovHttpForwardServer;     *)
(*   - ForwardServerClientThread.run and createServerSocket, one thread    *)
(*     per client, up to the point where forwarding starts;                *)
(*   - the bookkeeping of connectionBroken when forwarding ends;           *)
(*   - CheckAliveThread.                                                   *)
(*                                                                         *)
(* ServerDescription.isAlive and .clientsConnectedCount are plain fields   *)
(* shared by all threads.  Each read and each write of one is a step of    *)
(* its own, and ++ and -- are a read step followed by a write step.        *)
(***************************************************************************)
EXTENDS Integers, FiniteSets

CONSTANTS
    Clients,        \* the client connections that may arrive
    TlsClients,     \* those that arrive on the SSL port
    ServerCount,    \* length of serversList
    LoadBalancing   \* useLoadBalancingAlgorithm

\* readSettings refuses an empty server list.
ASSUME ConstantsAssumption ==
    /\ IsFiniteSet(Clients)
    /\ TlsClients \subseteq Clients
    /\ ServerCount \in Nat \ {0}
    /\ LoadBalancing \in BOOLEAN

Servers  == 1..ServerCount
NoServer == 0

VARIABLES
    pc,         \* control state of each client's thread
    pos,        \* loop position of each client's scan of serversList
    server,     \* minLoadServer during the scan, then the field `server'
    tmp,        \* the value read by a ++ or -- whose write is still to come
    sslBroken,  \* clients whose socket a failed SSL handshake has closed
    isAlive,    \* ServerDescription.isAlive
    clientsConnectedCount,
    up,         \* whether the server accepts TCP connections (environment)
    checkerPc,  \* control state of CheckAliveThread
    checkerPos, \* its loop index
    lost,       \* history: servers one of whose counter updates was lost
    steady,     \* history: the servers marked alive ever since c was
                \*   accepted, until c is connected
    disturbed   \* history: scans overlapped by a write to what they read

clientVars  == <<pc, pos, server, tmp, sslBroken>>
tableVars   == <<isAlive, clientsConnectedCount>>
checkerVars == <<checkerPc, checkerPos>>
historyVars == <<lost, steady, disturbed>>
vars == <<clientVars, tableVars, up, checkerVars, historyVars>>

ClientStates ==
    {"new", "handshake", "scan", "markDead", "connected", "increment",
     "streams", "forwarding", "decrement", "released", "refused", "leaked"}

CheckerStates == {"sleep", "test", "probe", "revive"}

Init ==
    /\ pc = [c \in Clients |-> "new"]
    /\ pos = [c \in Clients |-> 1]
    /\ server = [c \in Clients |-> NoServer]
    /\ tmp = [c \in Clients |-> 0]
    /\ sslBroken = {}
    /\ isAlive = [s \in Servers |-> TRUE]
    /\ clientsConnectedCount = [s \in Servers |-> 0]
    /\ up \in [Servers -> BOOLEAN]
    /\ checkerPc = "sleep"
    /\ checkerPos = 1
    /\ lost = {}
    /\ steady = [c \in Clients |-> {}]
    /\ disturbed = {}

-----------------------------------------------------------------------------
(* History: every write to the table disturbs the scans under way.         *)

Scanning == {c \in Clients : pc[c] = "scan"}

TableWritten == disturbed' = disturbed \cup Scanning

-----------------------------------------------------------------------------
(* The accept loops.                                                       *)

StartClientThread(c) ==
    /\ pc' = [pc EXCEPT ![c] = "scan"]
    /\ steady' = [steady EXCEPT ![c] = {s \in Servers : isAlive[s]}]
    /\ UNCHANGED <<pos, server, tmp, tableVars, up, checkerVars, lost, disturbed>>

Accept(c) ==
    /\ c \notin TlsClients
    /\ pc[c] = "new"
    /\ StartClientThread(c)
    /\ UNCHANGED sslBroken

\* The SSL loop shakes hands before it accepts the next client.
AcceptTls(c) ==
    /\ c \in TlsClients
    /\ pc[c] = "new"
    /\ \A d \in Clients : pc[d] # "handshake"
    /\ pc' = [pc EXCEPT ![c] = "handshake"]
    /\ UNCHANGED <<pos, server, tmp, sslBroken, tableVars, up, checkerVars, historyVars>>

\* handshake() returns false when the handshake fails, which also closes the
\* SSL socket; the accept loop drops the result and starts the thread anyway.
Handshake(c) ==
    /\ pc[c] = "handshake"
    /\ \E failed \in BOOLEAN :
          sslBroken' = IF failed THEN sslBroken \cup {c} ELSE sslBroken
    /\ StartClientThread(c)

-----------------------------------------------------------------------------
(* createServerSocket and getServerWithMinimalLoad, in the client's thread. *)

ScanDone(c) == pos[c] > ServerCount

\* Mutant of ScanServer: <= for <, so that a later server of equal load wins.
ScanServerLastLeast(c) ==
    /\ pc[c] = "scan"
    /\ ~ScanDone(c)
    /\ LET s == pos[c]
           better == server[c] = NoServer
                     \/ clientsConnectedCount[s] <= clientsConnectedCount[server[c]]
       IN  /\ server' = IF isAlive[s] /\ better
                        THEN [server EXCEPT ![c] = s] ELSE server
           /\ pos' = [pos EXCEPT ![c] = IF isAlive[s] /\ ~LoadBalancing
                                        THEN ServerCount + 1 ELSE s + 1]
    /\ UNCHANGED <<pc, tmp, sslBroken, tableVars, up, checkerVars, historyVars>>

\* One iteration of the loop over serversList.
ScanServer(c) ==
    /\ pc[c] = "scan"
    /\ ~ScanDone(c)
    /\ LET s == pos[c]
           better == server[c] = NoServer
                     \/ clientsConnectedCount[s] < clientsConnectedCount[server[c]]
       IN  /\ server' = IF isAlive[s] /\ better
                        THEN [server EXCEPT ![c] = s] ELSE server
           /\ pos' = [pos EXCEPT ![c] = IF isAlive[s] /\ ~LoadBalancing
                                        THEN ServerCount + 1 ELSE s + 1]
    /\ UNCHANGED <<pc, tmp, sslBroken, tableVars, up, checkerVars, historyVars>>

\* No server is marked alive: the client's socket is closed.
Refuse(c) ==
    /\ pc[c] = "scan"
    /\ ScanDone(c)
    /\ server[c] = NoServer
    /\ pc' = [pc EXCEPT ![c] = "refused"]
    /\ disturbed' = disturbed \ {c}
    /\ UNCHANGED <<pos, server, tmp, sslBroken, tableVars, up, checkerVars, lost, steady>>

\* new Socket(host, port) succeeds exactly when the server accepts.
Connect(c) ==
    /\ pc[c] = "scan"
    /\ ScanDone(c)
    /\ server[c] # NoServer
    /\ IF up[server[c]]
       THEN /\ pc' = [pc EXCEPT ![c] = "connected"]
            /\ steady' = [steady EXCEPT ![c] = {}]
       ELSE /\ pc' = [pc EXCEPT ![c] = "markDead"]
            /\ UNCHANGED steady
    /\ disturbed' = disturbed \ {c}
    /\ UNCHANGED <<pos, server, tmp, sslBroken, tableVars, up, checkerVars, lost>>

\* Mutant of MarkDead: the next pass over the list goes on from the failed server.
MarkDeadScansOn(c) ==
    /\ pc[c] = "markDead"
    /\ isAlive' = [isAlive EXCEPT ![server[c]] = FALSE]
    /\ steady' = [d \in Clients |-> steady[d] \ {server[c]}]
    /\ TableWritten
    /\ pc' = [pc EXCEPT ![c] = "scan"]
    /\ server' = [server EXCEPT ![c] = NoServer]
    /\ UNCHANGED <<pos, tmp, sslBroken, clientsConnectedCount, up, checkerVars, lost>>

\* Mutant of MarkDead: the failed server is not marked.
MarkDeadForgotten(c) ==
    /\ pc[c] = "markDead"
    /\ pc' = [pc EXCEPT ![c] = "scan"]
    /\ pos' = [pos EXCEPT ![c] = 1]
    /\ server' = [server EXCEPT ![c] = NoServer]
    /\ UNCHANGED <<tmp, sslBroken, tableVars, up, checkerVars, historyVars>>

\* The catch block, after which the loop scans the list again.
MarkDead(c) ==
    /\ pc[c] = "markDead"
    /\ isAlive' = [isAlive EXCEPT ![server[c]] = FALSE]
    /\ steady' = [d \in Clients |-> steady[d] \ {server[c]}]
    /\ TableWritten
    /\ pc' = [pc EXCEPT ![c] = "scan"]
    /\ pos' = [pos EXCEPT ![c] = 1]
    /\ server' = [server EXCEPT ![c] = NoServer]
    /\ UNCHANGED <<tmp, sslBroken, clientsConnectedCount, up, checkerVars, lost>>

\* clientsConnectedCount++ and -- : a thread reads the counter of its server
\* in state `from' and writes it, changed by delta, in a later step.
ReadCount(c, from, to) ==
    /\ pc[c] = from
    /\ tmp' = [tmp EXCEPT ![c] = clientsConnectedCount[server[c]]]
    /\ pc' = [pc EXCEPT ![c] = to]
    /\ UNCHANGED <<pos, server, sslBroken, tableVars, up, checkerVars, historyVars>>

WriteCount(c, from, delta, to) ==
    /\ pc[c] = from
    /\ clientsConnectedCount' =
          [clientsConnectedCount EXCEPT ![server[c]] = tmp[c] + delta]
    /\ lost' = IF tmp[c] = clientsConnectedCount[server[c]]
               THEN lost ELSE lost \cup {server[c]}
    /\ TableWritten
    /\ tmp' = [tmp EXCEPT ![c] = 0]
    /\ pc' = [pc EXCEPT ![c] = to]
    /\ UNCHANGED <<pos, server, sslBroken, isAlive, up, checkerVars, steady>>

ReadForIncrement(c) == ReadCount(c, "connected", "increment")
WriteIncrement(c)   == WriteCount(c, "increment", 1, "streams")

-----------------------------------------------------------------------------
(* The rest of ForwardServerClientThread.run, and connectionBroken.        *)

\* getInputStream throws on a closed socket: run() prints the exception and
\* ends with the server's socket open and the server's counter raised.
OpenStreams(c) ==
    /\ pc[c] = "streams"
    /\ pc' = [pc EXCEPT ![c] = IF c \in sslBroken THEN "leaked" ELSE "forwarding"]
    /\ UNCHANGED <<pos, server, tmp, sslBroken, tableVars, up, checkerVars, historyVars>>

\* Mutant of WriteDecrement: the connection can be released again.
WriteDecrementAgain(c) == WriteCount(c, "decrement", -1, "forwarding")

\* server.clientsConnectedCount-- at the end of connectionBroken.
ReadForDecrement(c) == ReadCount(c, "forwarding", "decrement")
WriteDecrement(c)   == WriteCount(c, "decrement", -1, "released")

-----------------------------------------------------------------------------
(* CheckAliveThread.                                                       *)

\* Mutant of NextServer: the loop index is not reset for the next sweep.
NextServerNoReset ==
    /\ checkerPc' = IF checkerPos = ServerCount THEN "sleep" ELSE "test"
    /\ checkerPos' = checkerPos + 1

NextServer ==
    /\ checkerPc' = IF checkerPos = ServerCount THEN "sleep" ELSE "test"
    /\ checkerPos' = IF checkerPos = ServerCount THEN 1 ELSE checkerPos + 1

\* Thread.sleep ends; checkAllDeadServers starts at the first server.
Wake ==
    /\ checkerPc = "sleep"
    /\ checkerPc' = "test"
    /\ UNCHANGED <<clientVars, tableVars, up, checkerPos, historyVars>>

\* Mutant of TestServer: the servers marked alive are probed, not the dead ones.
TestServerSwapped ==
    /\ checkerPc = "test"
    /\ IF ~isAlive[checkerPos]
       THEN NextServer
       ELSE checkerPc' = "probe" /\ UNCHANGED checkerPos
    /\ UNCHANGED <<clientVars, tableVars, up, historyVars>>

TestServer ==
    /\ checkerPc = "test"
    /\ IF isAlive[checkerPos]
       THEN NextServer
       ELSE checkerPc' = "probe" /\ UNCHANGED checkerPos
    /\ UNCHANGED <<clientVars, tableVars, up, historyVars>>

Probe ==
    /\ checkerPc = "probe"
    /\ IF up[checkerPos]
       THEN checkerPc' = "revive" /\ UNCHANGED checkerPos
       ELSE NextServer
    /\ UNCHANGED <<clientVars, tableVars, up, historyVars>>

Revive ==
    /\ checkerPc = "revive"
    /\ isAlive' = [isAlive EXCEPT ![checkerPos] = TRUE]
    /\ TableWritten
    /\ NextServer
    /\ UNCHANGED <<clientVars, clientsConnectedCount, up, lost, steady>>

-----------------------------------------------------------------------------
(* Environment: a destination server stops or starts accepting.            *)

ServerToggles(s) ==
    /\ up' = [up EXCEPT ![s] = ~@]
    /\ UNCHANGED <<clientVars, tableVars, checkerVars, historyVars>>

-----------------------------------------------------------------------------
\* Steps a client's own thread takes without waiting for anybody.
ConnectStep(c) ==
    \/ ScanServer(c) \/ Refuse(c) \/ Connect(c) \/ MarkDead(c)
    \/ ReadForIncrement(c) \/ WriteIncrement(c) \/ OpenStreams(c)

ReleaseStep(c) == ReadForDecrement(c) \/ WriteDecrement(c)

AcceptStep(c) == Accept(c) \/ AcceptTls(c) \/ Handshake(c)

CheckerStep == Wake \/ TestServer \/ Probe \/ Revive

Next ==
    \/ \E c \in Clients : AcceptStep(c) \/ ConnectStep(c) \/ ReleaseStep(c)
    \/ CheckerStep
    \/ \E s \in Servers : ServerToggles(s)

Spec == Init /\ [][Next]_vars

\* Runnable Java threads are scheduled: a client's thread on its way to a
\* server, and the checker, whose sleep ends.  Nothing makes a client arrive,
\* a handshake or a forwarding end, or a server change state.
Fairness ==
    /\ \A c \in Clients : WF_vars(ConnectStep(c))
    /\ WF_vars(CheckerStep)

FairSpec == Spec /\ Fairness

-----------------------------------------------------------------------------
(* Properties.                                                             *)

\* Type invariant.  A counter may go below zero: a lost increment does that.
TypeOK ==
    /\ pc \in [Clients -> ClientStates]
    /\ pos \in [Clients -> 1..(ServerCount + 1)]
    /\ server \in [Clients -> Servers \cup {NoServer}]
    /\ tmp \in [Clients -> Int]
    /\ sslBroken \subseteq Clients
    /\ isAlive \in [Servers -> BOOLEAN]
    /\ clientsConnectedCount \in [Servers -> Int]
    /\ up \in [Servers -> BOOLEAN]
    /\ checkerPc \in CheckerStates
    /\ checkerPos \in Servers
    /\ lost \subseteq Servers
    /\ steady \in [Clients -> SUBSET Servers]
    /\ disturbed \subseteq Clients
    /\ \A c \in Clients :
          pc[c] \notin {"new", "handshake", "scan", "refused"} => server[c] # NoServer

\* The clients whose ++ has been written and whose -- has not.
Counted(s) ==
    {c \in Clients : /\ server[c] = s
                     /\ pc[c] \in {"streams", "forwarding", "decrement", "leaked"}}

\* A server's counter is the number of connections counted on it, whatever the
\* order of accepts, failures and releases, as long as no two unsynchronized
\* ++ / -- on that server have overlapped (ForwardServerClientThread 127, 104).
CountExact ==
    \A s \in Servers \ lost : clientsConnectedCount[s] = Cardinality(Counted(s))

\* What getServerWithMinimalLoad promises: the first alive server of minimal
\* count with load balancing, else the first alive server, else null.
GetServerWithMinimalLoad ==
    LET alive == {s \in Servers : isAlive[s]}
        least == {s \in alive : LoadBalancing =>
                     \A t \in alive : clientsConnectedCount[s] <= clientsConnectedCount[t]}
    IN  IF alive = {} THEN NoServer
        ELSE CHOOSE s \in least : \A t \in least : s <= t

\* The loop over the unlocked table returns that server whenever no thread has
\* written to the table while it ran.
LeastLoaded ==
    \A c \in Scanning \ disturbed :
        ScanDone(c) => server[c] = GetServerWithMinimalLoad

\* Fail-over: a client is turned away only if every server has been marked dead
\* at some moment since the client was accepted.  A server that stays marked
\* alive is always found, however its neighbours fail and revive meanwhile.
FailOver == \A c \in Clients : pc[c] = "refused" => steady[c] = {}

\* A server that stays up is marked alive for good in the end: a stale "dead"
\* written by a client thread after the server came back is undone by the next
\* sweep of CheckAliveThread, and no such write comes later than that.
Recovery == \A s \in Servers : <>[]up[s] => <>[](isAlive[s])

\* If servers stop flapping, a client's thread does not retry forever: it gets a
\* connection or is refused.
Decided ==
    (\A s \in Servers : <>[]up[s] \/ <>[]~up[s])
        => \A c \in Clients :
              (pc[c] = "scan") ~> (pc[c] \notin {"scan", "markDead"})

\* README 24: "We consider the server which hast minimal alive connections
\* established by Nakov Forward Server is least loaded."  With no update under
\* way, the counter the choice is made by is the number of connections.
\* Overlapping updates break it (run pool_lost_update).
Connections(s) == {c \in Clients : server[c] = s /\ pc[c] = "forwarding"}

Quiet == \A c \in Clients :
            pc[c] \notin {"connected", "increment", "streams", "decrement"}

LoadIsAliveConnections ==
    Quiet => \A s \in Servers :
                clientsConnectedCount[s] = Cardinality(Connections(s))

=============================================================================
