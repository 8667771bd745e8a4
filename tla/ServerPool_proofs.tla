-------------------------- MODULE ServerPool_proofs -------------------------
(***************************************************************************)
(* Theorems about ServerPool, for any set of clients, any number of        *)
(* servers and either setting of load balancing.                           *)
(***************************************************************************)
EXTENDS ServerPool, FiniteSetTheorems, TLAPS

-----------------------------------------------------------------------------
(* Type correctness.                                                       *)

\* Every variable keeps its type, and a client that is past the choice of a
\* server has one (ServerPool!TypeOK).
THEOREM TypeCorrect == Spec => []TypeOK
<1>1. Init => TypeOK
  BY ConstantsAssumption
     DEF Init, TypeOK, Servers, NoServer, ClientStates, CheckerStates
<1>2. TypeOK /\ [Next]_vars => TypeOK'
  <2> SUFFICES ASSUME TypeOK, [Next]_vars
               PROVE  TypeOK'
    OBVIOUS
  <2> USE ConstantsAssumption DEF TypeOK, Servers, NoServer, ClientStates, CheckerStates
  <2>0. TableWritten => disturbed' \subseteq Clients
    BY DEF TableWritten, Scanning
  <2>1. ASSUME NEW c \in Clients, Accept(c)
        PROVE  TypeOK'
    BY <2>1 DEF Accept, StartClientThread, tableVars, checkerVars
  <2>2. ASSUME NEW c \in Clients, AcceptTls(c)
        PROVE  TypeOK'
    BY <2>2 DEF AcceptTls, tableVars, checkerVars, historyVars
  <2>3. ASSUME NEW c \in Clients, Handshake(c)
        PROVE  TypeOK'
    BY <2>3 DEF Handshake, StartClientThread, tableVars, checkerVars
  <2>4. ASSUME NEW c \in Clients, ScanServer(c)
        PROVE  TypeOK'
    <3>1. pos[c] \in Servers
      BY <2>4 DEF ScanServer, ScanDone
    <3>2. pos' \in [Clients -> 1..(ServerCount + 1)]
      BY <2>4, <3>1 DEF ScanServer
    <3>3. server' \in [Clients -> Servers \cup {NoServer}]
      BY <2>4, <3>1 DEF ScanServer
    <3>4. \A d \in Clients : pc[d] # "scan" => server'[d] = server[d]
      BY <2>4 DEF ScanServer
    <3> QED
      BY <2>4, <3>2, <3>3, <3>4 DEF ScanServer, tableVars, checkerVars, historyVars
  <2>5. ASSUME NEW c \in Clients, Refuse(c)
        PROVE  TypeOK'
    BY <2>5 DEF Refuse, tableVars, checkerVars
  <2>6. ASSUME NEW c \in Clients, Connect(c)
        PROVE  TypeOK'
    BY <2>6, ZenonT(40) DEF Connect, tableVars, checkerVars
  <2>7. ASSUME NEW c \in Clients, MarkDead(c)
        PROVE  TypeOK'
    <3>1. server[c] \in Servers
      BY <2>7 DEF MarkDead
    <3>2. steady' \in [Clients -> SUBSET Servers]
      BY <2>7 DEF MarkDead
    <3>3. isAlive' \in [Servers -> BOOLEAN] /\ disturbed' \subseteq Clients
      BY <2>0, <2>7, <3>1 DEF MarkDead
    <3>4. /\ pc' \in [Clients -> ClientStates]
          /\ pos' \in [Clients -> 1..(ServerCount + 1)]
          /\ server' \in [Clients -> Servers \cup {NoServer}]
          /\ \A d \in Clients : pc'[d] # "scan" => pc'[d] = pc[d] /\ server'[d] = server[d]
      BY <2>7 DEF MarkDead
    <3> QED
      BY <2>7, <3>2, <3>3, <3>4 DEF MarkDead, checkerVars
  <2>8. ASSUME NEW c \in Clients, ReadForIncrement(c)
        PROVE  TypeOK'
    BY <2>8 DEF ReadForIncrement, ReadCount, tableVars, checkerVars, historyVars
  <2>9. ASSUME NEW c \in Clients, WriteIncrement(c)
        PROVE  TypeOK'
    <3>1. server[c] \in Servers
      BY <2>9 DEF WriteIncrement, WriteCount
    <3>2. lost' \subseteq Servers /\ disturbed' \subseteq Clients
      BY <2>0, <2>9, <3>1 DEF WriteIncrement, WriteCount
    <3>3. tmp[c] + 1 \in Int
      OBVIOUS
    <3>4. clientsConnectedCount' \in [Servers -> Int]
      BY <2>9, <3>1, <3>3 DEF WriteIncrement, WriteCount
    <3>5. tmp' \in [Clients -> Int]
      BY <2>9 DEF WriteIncrement, WriteCount
    <3> QED
      BY <2>9, <3>2, <3>4, <3>5 DEF WriteIncrement, WriteCount, checkerVars
  <2>10. ASSUME NEW c \in Clients, OpenStreams(c)
         PROVE  TypeOK'
    BY <2>10 DEF OpenStreams, tableVars, checkerVars, historyVars
  <2>11. ASSUME NEW c \in Clients, ReadForDecrement(c)
         PROVE  TypeOK'
    BY <2>11 DEF ReadForDecrement, ReadCount, tableVars, checkerVars, historyVars
  <2>12. ASSUME NEW c \in Clients, WriteDecrement(c)
         PROVE  TypeOK'
    <3>1. server[c] \in Servers
      BY <2>12 DEF WriteDecrement, WriteCount
    <3>2. lost' \subseteq Servers /\ disturbed' \subseteq Clients
      BY <2>0, <2>12, <3>1 DEF WriteDecrement, WriteCount
    <3>3. tmp[c] + (-1) \in Int
      OBVIOUS
    <3>4. clientsConnectedCount' \in [Servers -> Int]
      BY <2>12, <3>1, <3>3 DEF WriteDecrement, WriteCount
    <3>5. tmp' \in [Clients -> Int]
      BY <2>12 DEF WriteDecrement, WriteCount
    <3> QED
      BY <2>12, <3>2, <3>4, <3>5 DEF WriteDecrement, WriteCount, checkerVars
  <2>13. ASSUME CheckerStep
         PROVE  TypeOK'
    <3>1. NextServer => checkerPc' \in CheckerStates /\ checkerPos' \in Servers
      BY DEF NextServer
    <3>2. CASE Wake
      BY <3>2 DEF Wake, clientVars, tableVars, historyVars
    <3>3. CASE TestServer
      BY <3>1, <3>3 DEF TestServer, clientVars, tableVars, historyVars
    <3>4. CASE Probe
      BY <3>1, <3>4 DEF Probe, clientVars, tableVars, historyVars
    <3>5. CASE Revive
      BY <2>0, <3>1, <3>5 DEF Revive, clientVars
    <3> QED
      BY <2>13, <3>2, <3>3, <3>4, <3>5 DEF CheckerStep
  <2>14. ASSUME NEW s \in Servers, ServerToggles(s)
         PROVE  TypeOK'
    BY <2>14 DEF ServerToggles, clientVars, tableVars, checkerVars, historyVars
  <2>15. CASE UNCHANGED vars
    BY <2>15 DEF vars, clientVars, tableVars, checkerVars, historyVars
  <2> QED
    BY <2>1, <2>2, <2>3, <2>4, <2>5, <2>6, <2>7, <2>8, <2>9, <2>10, <2>11,
       <2>12, <2>13, <2>14, <2>15
       DEF Next, AcceptStep, ConnectStep, ReleaseStep
<1> QED
  BY <1>1, <1>2, PTL DEF Spec

-----------------------------------------------------------------------------
(* The counters.                                                           *)

Uncounted == {"new", "handshake", "scan", "markDead", "connected", "increment",
              "released", "refused"}

\* A step of c that does not move it into or out of the counted states, and
\* moves it to another server only outside of them, changes no set Counted(s).
LEMMA CountedStable ==
  ASSUME NEW c \in Clients,
         \A d \in Clients \ {c} : pc'[d] = pc[d] /\ server'[d] = server[d],
         \/ pc[c] \in Uncounted /\ pc'[c] \in Uncounted
         \/ /\ pc[c] \notin Uncounted /\ pc'[c] \notin Uncounted
            /\ pc[c] \in ClientStates /\ pc'[c] \in ClientStates
            /\ server'[c] = server[c]
  PROVE  \A s \in Servers : Counted(s)' = Counted(s)
BY DEF Counted, Uncounted, ClientStates

\* If neither those sets nor the counters change, the counters stay exact.
LEMMA ExactStable ==
  ASSUME CountExact, clientsConnectedCount' = clientsConnectedCount, lost' = lost,
         \A s \in Servers : Counted(s)' = Counted(s)
  PROVE  CountExact'
BY DEF CountExact

\* The write of ++: c becomes counted on its server, whose counter moves by one
\* unless another update came in between, in which case it is in lost.
LEMMA IncrementExact ==
  ASSUME NEW c \in Clients, TypeOK, CountExact, WriteIncrement(c)
  PROVE  CountExact'
<1>0. PICK s \in Servers : s = server[c]
  BY DEF WriteIncrement, WriteCount, TypeOK
<1>1. s = server[c] /\ pc[c] = "increment"
  BY <1>0 DEF WriteIncrement, WriteCount, TypeOK
<1>2. Counted(s)' = Counted(s) \cup {c} /\ c \notin Counted(s)
  BY <1>1 DEF WriteIncrement, WriteCount, Counted, TypeOK
<1>3. \A r \in Servers \ {s} : Counted(r)' = Counted(r)
  BY <1>1 DEF WriteIncrement, WriteCount, Counted, TypeOK
<1>4. \A r \in Servers \ {s} : clientsConnectedCount'[r] = clientsConnectedCount[r]
  BY <1>1 DEF WriteIncrement, WriteCount, TypeOK
<1>5. lost \subseteq lost'
  BY DEF WriteIncrement, WriteCount
<1>6. ASSUME s \notin lost'
      PROVE  clientsConnectedCount'[s] = clientsConnectedCount[s] + 1
  BY <1>1, <1>6 DEF WriteIncrement, WriteCount, TypeOK
<1>7. IsFiniteSet(Counted(s))
  BY ConstantsAssumption, FS_Subset DEF Counted
<1>8. Cardinality(Counted(s) \cup {c}) = Cardinality(Counted(s)) + 1
  BY <1>2, <1>7, FS_AddElement
<1>9. ASSUME s \notin lost'
      PROVE  clientsConnectedCount'[s] = Cardinality(Counted(s)')
  BY <1>1, <1>2, <1>5, <1>6, <1>8, <1>9 DEF CountExact
<1>10. ASSUME NEW r \in Servers \ lost', r # s
       PROVE  clientsConnectedCount'[r] = Cardinality(Counted(r)')
  BY <1>3, <1>4, <1>5, <1>10 DEF CountExact
<1>11. ASSUME NEW r \in Servers \ lost'
       PROVE  clientsConnectedCount'[r] = Cardinality(Counted(r)')
  <2>1. CASE r = s
    BY <1>9, <2>1
  <2>2. CASE r # s
    BY <1>10, <2>2
  <2> QED
    BY <2>1, <2>2
<1> QED
  BY <1>11 DEF CountExact

\* The write of --: c is no longer counted on its server.
LEMMA DecrementExact ==
  ASSUME NEW c \in Clients, TypeOK, CountExact, WriteDecrement(c)
  PROVE  CountExact'
<1>0. PICK s \in Servers : s = server[c]
  BY DEF WriteDecrement, WriteCount, TypeOK
<1>1. s = server[c] /\ pc[c] = "decrement"
  BY <1>0 DEF WriteDecrement, WriteCount, TypeOK
<1>2. Counted(s)' = Counted(s) \ {c} /\ c \in Counted(s)
  BY <1>1 DEF WriteDecrement, WriteCount, Counted, TypeOK
<1>3. \A r \in Servers \ {s} : Counted(r)' = Counted(r)
  BY <1>1 DEF WriteDecrement, WriteCount, Counted, TypeOK
<1>4. \A r \in Servers \ {s} : clientsConnectedCount'[r] = clientsConnectedCount[r]
  BY <1>1 DEF WriteDecrement, WriteCount, TypeOK
<1>5. lost \subseteq lost'
  BY DEF WriteDecrement, WriteCount
<1>6. ASSUME s \notin lost'
      PROVE  clientsConnectedCount'[s] = clientsConnectedCount[s] - 1
  BY <1>1, <1>6 DEF WriteDecrement, WriteCount, TypeOK
<1>7. IsFiniteSet(Counted(s))
  BY ConstantsAssumption, FS_Subset DEF Counted
<1>8. Cardinality(Counted(s) \ {c}) = Cardinality(Counted(s)) - 1
  BY <1>2, <1>7, FS_RemoveElement
<1>9. ASSUME s \notin lost'
      PROVE  clientsConnectedCount'[s] = Cardinality(Counted(s)')
  BY <1>1, <1>2, <1>5, <1>6, <1>8, <1>9 DEF CountExact
<1>10. ASSUME NEW r \in Servers \ lost', r # s
       PROVE  clientsConnectedCount'[r] = Cardinality(Counted(r)')
  BY <1>3, <1>4, <1>5, <1>10 DEF CountExact
<1>11. ASSUME NEW r \in Servers \ lost'
       PROVE  clientsConnectedCount'[r] = Cardinality(Counted(r)')
  <2>1. CASE r = s
    BY <1>9, <2>1
  <2>2. CASE r # s
    BY <1>10, <2>2
  <2> QED
    BY <2>1, <2>2
<1> QED
  BY <1>11 DEF CountExact

\* A server's counter is the number of connections counted on it for as long as
\* no two updates of it have overlapped (ServerPool!CountExact).
THEOREM CountsAreExact == Spec => []CountExact
<1>1. Init => CountExact
  <2> SUFFICES ASSUME Init
               PROVE  CountExact
    OBVIOUS
  <2>1. \A s \in Servers : Counted(s) = {}
    BY DEF Init, Counted
  <2> QED
    BY <2>1, FS_EmptySet DEF Init, CountExact
<1>2. TypeOK /\ TypeOK' /\ CountExact /\ [Next]_vars => CountExact'
  <2> SUFFICES ASSUME TypeOK, TypeOK', CountExact, [Next]_vars
               PROVE  CountExact'
    OBVIOUS
  <2>1. ASSUME NEW c \in Clients, AcceptStep(c)
        PROVE  CountExact'
    <3>1. clientsConnectedCount' = clientsConnectedCount /\ lost' = lost
      BY <2>1 DEF AcceptStep, Accept, AcceptTls, Handshake, StartClientThread,
                  tableVars, historyVars
    <3>2. pc[c] \in Uncounted /\ pc'[c] \in Uncounted
      BY <2>1 DEF AcceptStep, Accept, AcceptTls, Handshake, StartClientThread,
                  Uncounted, TypeOK
    <3>3. \A d \in Clients \ {c} : pc'[d] = pc[d] /\ server'[d] = server[d]
      BY <2>1 DEF AcceptStep, Accept, AcceptTls, Handshake, StartClientThread, TypeOK
    <3> QED
      BY <3>1, <3>2, <3>3, CountedStable, ExactStable
  <2>2. ASSUME NEW c \in Clients,
               \/ ScanServer(c) \/ Refuse(c) \/ Connect(c) \/ MarkDead(c)
               \/ ReadForIncrement(c)
        PROVE  CountExact'
    <3> USE <2>2 DEF ScanServer, Refuse, Connect, MarkDead, ReadForIncrement, ReadCount
    <3>1. clientsConnectedCount' = clientsConnectedCount /\ lost' = lost
      BY DEF tableVars, historyVars
    <3>2. pc[c] \in Uncounted /\ pc'[c] \in Uncounted
      BY DEF Uncounted, TypeOK
    <3>3. \A d \in Clients \ {c} : pc'[d] = pc[d] /\ server'[d] = server[d]
      BY DEF TypeOK
    <3> QED
      BY <3>1, <3>2, <3>3, CountedStable, ExactStable
  <2>3. ASSUME NEW c \in Clients, OpenStreams(c) \/ ReadForDecrement(c)
        PROVE  CountExact'
    <3> USE <2>3 DEF OpenStreams, ReadForDecrement, ReadCount
    <3>1. clientsConnectedCount' = clientsConnectedCount /\ lost' = lost
      BY DEF tableVars, historyVars
    <3>2. /\ pc[c] \notin Uncounted /\ pc'[c] \notin Uncounted
          /\ pc[c] \in ClientStates /\ pc'[c] \in ClientStates
          /\ server'[c] = server[c]
      BY DEF Uncounted, TypeOK, ClientStates
    <3>3. \A d \in Clients \ {c} : pc'[d] = pc[d] /\ server'[d] = server[d]
      BY DEF TypeOK
    <3> QED
      BY <3>1, <3>2, <3>3, CountedStable, ExactStable
  <2>4. ASSUME \/ CheckerStep
               \/ \E s \in Servers : ServerToggles(s)
               \/ UNCHANGED vars
        PROVE  CountExact'
    <3>1. UNCHANGED <<pc, server, clientsConnectedCount, lost>>
      BY <2>4 DEF CheckerStep, Wake, TestServer, Probe, Revive, ServerToggles, vars,
                  clientVars, tableVars, historyVars
    <3> QED
      BY <3>1 DEF CountExact, Counted
  <2> QED
    BY <2>1, <2>2, <2>3, <2>4, IncrementExact, DecrementExact
       DEF Next, ConnectStep, ReleaseStep
<1> QED
  BY <1>1, <1>2, TypeCorrect, PTL DEF Spec

-----------------------------------------------------------------------------
(* Fail-over and the choice of a server.                                   *)

\* A scan starts at the first server with none chosen; what has been marked alive
\* ever since c was accepted is marked alive now; and while no server has been
\* chosen, those servers are all ahead of the scan.
FailOverInv ==
    /\ \A c \in Clients : pc[c] \in {"new", "handshake"} =>
          pos[c] = 1 /\ server[c] = NoServer
    /\ \A c \in Clients : \A s \in steady[c] : isAlive[s]
    /\ \A c \in Clients : pc[c] = "scan" /\ server[c] = NoServer =>
          \A s \in steady[c] : s >= pos[c]
    /\ FailOver

\* The servers the scan of c has passed that are alive.
PassedAlive(c) == {s \in Servers : s < pos[c] /\ isAlive[s]}

\* What the loop of getServerWithMinimalLoad has found so far.
BestSoFar(c) ==
    IF server[c] = NoServer
    THEN PassedAlive(c) = {}
    ELSE /\ server[c] < pos[c]
         /\ isAlive[server[c]]
         /\ LoadBalancing =>
               \A s \in PassedAlive(c) :
                  /\ clientsConnectedCount[server[c]] <= clientsConnectedCount[s]
                  /\ s < server[c] =>
                        clientsConnectedCount[server[c]] < clientsConnectedCount[s]
         /\ ~LoadBalancing =>
               /\ ScanDone(c)
               /\ \A s \in PassedAlive(c) : server[c] <= s

ScanInv ==
    /\ \A c \in Clients : pc[c] \in {"new", "handshake"} =>
          pos[c] = 1 /\ server[c] = NoServer
    /\ \A c \in Scanning \ disturbed : BestSoFar(c)

\* A client is turned away only if every server has been marked dead at some
\* moment since it was accepted (ServerPool!FailOver).
THEOREM FailOverHolds == Spec => []FailOver
<1>1. Init => FailOverInv
  BY DEF Init, FailOverInv, FailOver
<1>2. TypeOK /\ FailOverInv /\ [Next]_vars => FailOverInv'
  <2> SUFFICES ASSUME TypeOK, FailOverInv, [Next]_vars
               PROVE  FailOverInv'
    OBVIOUS
  <2> USE DEF FailOverInv, FailOver
  <2>1. ASSUME NEW c \in Clients, Accept(c) \/ Handshake(c)
        PROVE  FailOverInv'
    <3>1. /\ pc[c] \in {"new", "handshake"}
          /\ pc' = [pc EXCEPT ![c] = "scan"]
          /\ steady' = [steady EXCEPT ![c] = {s \in Servers : isAlive[s]}]
          /\ UNCHANGED <<pos, server, isAlive>>
      BY <2>1 DEF Accept, Handshake, StartClientThread, tableVars
    <3>2. \A s \in steady'[c] : isAlive'[s] /\ s >= pos'[c]
      BY <3>1 DEF TypeOK, Servers
    <3> QED
      BY <3>1, <3>2 DEF TypeOK
  <2>2. ASSUME NEW c \in Clients, AcceptTls(c)
        PROVE  FailOverInv'
    BY <2>2 DEF AcceptTls, TypeOK, tableVars, historyVars
  <2>3. ASSUME NEW c \in Clients, ScanServer(c)
        PROVE  FailOverInv'
    <3>1. pc' = pc /\ steady' = steady /\ isAlive' = isAlive /\ pc[c] = "scan"
      BY <2>3 DEF ScanServer, tableVars, historyVars
    <3>2. \A d \in Clients \ {c} : pos'[d] = pos[d] /\ server'[d] = server[d]
      BY <2>3 DEF ScanServer, TypeOK
    <3>3. pos[c] \in Servers /\ pos[c] \in Int
      BY <2>3, ConstantsAssumption DEF ScanServer, ScanDone, TypeOK, Servers
    <3>4. ASSUME server'[c] = NoServer
          PROVE  server[c] = NoServer /\ ~isAlive[pos[c]] /\ pos'[c] = pos[c] + 1
      BY <2>3, <3>3, <3>4, ConstantsAssumption
         DEF ScanServer, TypeOK, Servers, NoServer
    <3>5. ASSUME server'[c] = NoServer, NEW s \in steady[c]
          PROVE  s >= pos'[c]
      <4>1. s \in Int /\ s >= pos[c] /\ s # pos[c]
        BY <3>1, <3>4, <3>5 DEF TypeOK, Servers
      <4> QED
        BY <3>3, <3>4, <3>5, <4>1
    <3> QED
      BY <3>1, <3>2, <3>5
  <2>4. ASSUME NEW c \in Clients, Refuse(c)
        PROVE  FailOverInv'
    <3>1. /\ pc[c] = "scan" /\ server[c] = NoServer /\ ScanDone(c)
          /\ pc' = [pc EXCEPT ![c] = "refused"]
          /\ UNCHANGED <<pos, server, steady, isAlive>>
      BY <2>4 DEF Refuse, tableVars
    <3>2. \A s \in steady[c] : s >= pos[c] /\ s <= ServerCount /\ s \in Int
      BY <3>1, ConstantsAssumption DEF TypeOK, Servers
    <3>3. pos[c] > ServerCount /\ pos[c] \in Int
      BY <3>1, ConstantsAssumption DEF ScanDone, TypeOK
    <3>4. steady[c] = {}
      BY <3>2, <3>3, ConstantsAssumption
    <3> QED
      BY <3>1, <3>4 DEF TypeOK
  <2>5. ASSUME NEW c \in Clients, Connect(c)
        PROVE  FailOverInv'
    <3>1. /\ pc' = [pc EXCEPT ![c] = "connected"] \/ pc' = [pc EXCEPT ![c] = "markDead"]
          /\ steady' = [steady EXCEPT ![c] = {}] \/ steady' = steady
          /\ UNCHANGED <<pos, server, isAlive>>
      BY <2>5 DEF Connect, tableVars
    <3> QED
      BY <3>1 DEF TypeOK
  <2>6. ASSUME NEW c \in Clients, MarkDead(c)
        PROVE  FailOverInv'
    <3>1. /\ pc' = [pc EXCEPT ![c] = "scan"]
          /\ pos' = [pos EXCEPT ![c] = 1]
          /\ server' = [server EXCEPT ![c] = NoServer]
          /\ isAlive' = [isAlive EXCEPT ![server[c]] = FALSE]
          /\ steady' = [d \in Clients |-> steady[d] \ {server[c]}]
      BY <2>6 DEF MarkDead
    <3>2. \A d \in Clients : \A s \in steady'[d] : isAlive'[s]
      BY <3>1 DEF TypeOK
    <3>3. \A s \in steady'[c] : s >= pos'[c]
      BY <3>1 DEF TypeOK, Servers
    <3>4. \A d \in Clients : steady'[d] \subseteq steady[d]
      BY <3>1
    <3>5. \A d \in Clients \ {c} :
             pc'[d] = pc[d] /\ pos'[d] = pos[d] /\ server'[d] = server[d]
      BY <3>1 DEF TypeOK
    <3>6. pc'[c] = "scan"
      BY <3>1 DEF TypeOK
    <3> QED
      BY <3>2, <3>3, <3>4, <3>5, <3>6
  <2>7. ASSUME NEW c \in Clients,
               \/ ReadForIncrement(c) \/ WriteIncrement(c) \/ OpenStreams(c)
               \/ ReadForDecrement(c) \/ WriteDecrement(c)
        PROVE  FailOverInv'
    <3>1. /\ UNCHANGED <<pos, server, isAlive, steady>>
          /\ pc'[c] \notin {"new", "handshake", "scan", "refused"}
          /\ \A d \in Clients \ {c} : pc'[d] = pc[d]
      BY <2>7 DEF ReadForIncrement, WriteIncrement, OpenStreams, ReadForDecrement,
                  WriteDecrement, ReadCount, WriteCount, TypeOK, tableVars, historyVars
    <3> QED
      BY <3>1
  <2>8. ASSUME \/ CheckerStep
               \/ \E s \in Servers : ServerToggles(s)
               \/ UNCHANGED vars
        PROVE  FailOverInv'
    <3>1. UNCHANGED <<pc, pos, server, steady>>
      BY <2>8 DEF CheckerStep, Wake, TestServer, Probe, Revive, ServerToggles, vars,
                  clientVars, historyVars
    <3>2. \A s \in Servers : isAlive[s] => isAlive'[s]
      BY <2>8 DEF CheckerStep, Wake, TestServer, Probe, Revive, ServerToggles, vars,
                  tableVars, TypeOK
    <3> QED
      BY <3>1, <3>2 DEF TypeOK
  <2> QED
    BY <2>1, <2>2, <2>3, <2>4, <2>5, <2>6, <2>7, <2>8
       DEF Next, AcceptStep, ConnectStep, ReleaseStep
<1>3. FailOverInv => FailOver
  BY DEF FailOverInv
<1> QED
  BY <1>1, <1>2, <1>3, TypeCorrect, PTL DEF Spec

\* BestSoFar reads the table and the scan's own position and choice only.
LEMMA BestStable ==
  ASSUME NEW c \in Clients, BestSoFar(c),
         UNCHANGED <<isAlive, clientsConnectedCount>>,
         pos'[c] = pos[c], server'[c] = server[c]
  PROVE  BestSoFar(c)'
BY DEF BestSoFar, PassedAlive, ScanDone

\* A scan that has just begun has passed nothing.
LEMMA BestAtStart ==
  ASSUME NEW c \in Clients, pos'[c] = 1, server'[c] = NoServer
  PROVE  BestSoFar(c)'
BY DEF BestSoFar, PassedAlive, Servers, NoServer

\* One iteration of the loop keeps what it has found the best.
LEMMA BestStep ==
  ASSUME NEW c \in Clients, TypeOK, BestSoFar(c), ScanServer(c)
  PROVE  BestSoFar(c)'
<1>0. PICK p \in Servers : p = pos[c]
  BY ConstantsAssumption DEF ScanServer, ScanDone, TypeOK, Servers
<1>m. PICK m \in Servers \cup {NoServer} : m = server[c]
  BY DEF TypeOK
<1>1. /\ p \in Int /\ 1 <= p /\ p <= ServerCount /\ ServerCount \in Int
      /\ isAlive' = isAlive /\ clientsConnectedCount' = clientsConnectedCount
      /\ ~ScanDone(c)
  BY <1>0, ConstantsAssumption DEF Servers, ScanServer, tableVars
<1>2. m = server[c] /\ (m # NoServer => m \in Servers /\ m \in Int)
  BY <1>m, ConstantsAssumption DEF Servers, NoServer
<1>3. /\ pos'[c] = IF isAlive[p] /\ ~LoadBalancing THEN ServerCount + 1 ELSE p + 1
      /\ server'[c] = IF isAlive[p] /\ (\/ m = NoServer
                                        \/ clientsConnectedCount[p] < clientsConnectedCount[m])
                      THEN p ELSE m
  BY <1>0, <1>2 DEF ScanServer, TypeOK
<1>4. \A s \in Servers : clientsConnectedCount[s] \in Int /\ s \in Int
  BY ConstantsAssumption DEF TypeOK, Servers
<1>c. isAlive' = isAlive /\ clientsConnectedCount' = clientsConnectedCount
  BY <1>1
<1>p. /\ PassedAlive(c) = {s \in Servers : s < p /\ isAlive[s]}
      /\ PassedAlive(c)' = {s \in Servers : s < pos'[c] /\ isAlive[s]}
  BY <1>0, <1>1 DEF PassedAlive, Servers
<1>5. CASE ~isAlive[p]
  <2>1. pos'[c] = p + 1 /\ server'[c] = m
    BY <1>3, <1>5
  <2>2. PassedAlive(c)' = PassedAlive(c)
    <3>1. PassedAlive(c)' = {s \in Servers : s < p + 1 /\ isAlive[s]}
      BY <1>p, <2>1
    <3> QED
      BY <1>p, <1>4, <1>5, <3>1
  <2>3. LoadBalancing \/ m = NoServer
    BY <1>1, <1>2 DEF BestSoFar
  <2> QED
    BY <1>0, <1>1, <1>2, <2>1, <2>2, <2>3 DEF BestSoFar
<1>6. CASE isAlive[p] /\ ~LoadBalancing
  <2>1. m = NoServer /\ PassedAlive(c) = {}
    BY <1>1, <1>2, <1>6 DEF BestSoFar
  <2>2. pos'[c] = ServerCount + 1 /\ server'[c] = p
    BY <1>3, <1>6, <2>1
  <2>3. \A s \in PassedAlive(c)' : p <= s
    <3>1. \A s \in Servers : isAlive[s] => ~(s < p)
      BY <1>p, <2>1
    <3> QED
      BY <1>p, <1>4, <3>1
  <2>4. p # NoServer /\ p < pos'[c] /\ isAlive'[p] /\ ScanDone(c)'
    BY <1>1, <1>6, <2>2 DEF NoServer, ScanDone
  <2> QED
    BY <1>6, <2>2, <2>3, <2>4 DEF BestSoFar
<1>7. CASE isAlive[p] /\ LoadBalancing
  <2>1. pos'[c] = p + 1 /\ p # NoServer
    BY <1>1, <1>3, <1>7 DEF NoServer
  <2>2. PassedAlive(c)' = PassedAlive(c) \cup {p}
    <3>1. PassedAlive(c)' = {s \in Servers : s < p + 1 /\ isAlive[s]}
      BY <1>p, <2>1
    <3> QED
      BY <1>p, <1>4, <1>7, <3>1
  <2>3. \A s \in PassedAlive(c) : s \in Servers /\ s < p
    BY <1>p
  <2>4. CASE m = NoServer
    <3>1. server'[c] = p /\ PassedAlive(c)' = {p}
      BY <1>2, <1>3, <1>7, <2>2, <2>4 DEF BestSoFar
    <3> QED
      BY <1>1, <1>4, <1>7, <2>1, <3>1 DEF BestSoFar
  <2>5. CASE m # NoServer /\ clientsConnectedCount[p] < clientsConnectedCount[m]
    <3>1. server'[c] = p
      BY <1>3, <1>7, <2>5
    <3>2. \A s \in PassedAlive(c) : clientsConnectedCount[p] < clientsConnectedCount[s]
      BY <1>2, <1>4, <1>7, <2>3, <2>5 DEF BestSoFar
    <3>3. \A s \in PassedAlive(c)' :
             /\ clientsConnectedCount'[p] <= clientsConnectedCount'[s]
             /\ s < p => clientsConnectedCount'[p] < clientsConnectedCount'[s]
      BY <1>c, <1>4, <2>2, <2>3, <3>2
    <3> QED
      BY <1>1, <1>7, <2>1, <3>1, <3>3 DEF BestSoFar
  <2>6. CASE m # NoServer /\ ~(clientsConnectedCount[p] < clientsConnectedCount[m])
    <3>1. server'[c] = m
      BY <1>3, <2>6
    <3>2. m \in Servers /\ m < p /\ isAlive[m]
      BY <1>0, <1>2, <2>6 DEF BestSoFar
    <3>3. clientsConnectedCount[m] <= clientsConnectedCount[p]
      BY <1>4, <2>6, <3>2
    <3>4. \A s \in PassedAlive(c) :
             /\ clientsConnectedCount[m] <= clientsConnectedCount[s]
             /\ s < m => clientsConnectedCount[m] < clientsConnectedCount[s]
      BY <1>2, <1>7, <2>6 DEF BestSoFar
    <3>5. \A s \in PassedAlive(c)' :
             /\ clientsConnectedCount[m] <= clientsConnectedCount[s]
             /\ s < m => clientsConnectedCount[m] < clientsConnectedCount[s]
      BY <1>1, <1>4, <2>2, <3>2, <3>3, <3>4
    <3>6. m # NoServer /\ m < p + 1 /\ isAlive'[m]
      BY <1>c, <1>4, <2>6, <3>2
    <3>7. m < pos'[c]
      BY <2>1, <3>6
    <3>8. \A s \in PassedAlive(c)' :
             /\ clientsConnectedCount'[m] <= clientsConnectedCount'[s]
             /\ s < m => clientsConnectedCount'[m] < clientsConnectedCount'[s]
      BY <1>c, <3>5
    <3> QED
      BY <1>7, <3>1, <3>6, <3>7, <3>8 DEF BestSoFar
  <2> QED
    BY <2>4, <2>5, <2>6
<1> QED
  BY <1>5, <1>6, <1>7, ConstantsAssumption

\* A step of c after which the table, the other scans and the record of
\* disturbances are as before keeps ScanInv, if c is not scanning afterwards.
LEMMA ScanStable ==
  ASSUME NEW c \in Clients, ScanInv,
         UNCHANGED <<isAlive, clientsConnectedCount>>,
         \A d \in Clients \ {c} :
            pc'[d] = pc[d] /\ pos'[d] = pos[d] /\ server'[d] = server[d],
         pc'[c] \notin {"new", "handshake", "scan"},
         disturbed \ {c} \subseteq disturbed'
  PROVE  ScanInv'
<1>1. ASSUME NEW d \in (Scanning \ disturbed)'
      PROVE  BestSoFar(d)'
  <2>1. d \in Scanning \ disturbed /\ d # c /\ d \in Clients
    BY <1>1 DEF Scanning
  <2> QED
    BY <2>1, BestStable DEF ScanInv
<1> QED
  BY <1>1 DEF ScanInv

\* A write to the table disturbs every scan under way.
LEMMA ScanDisturbed ==
  ASSUME ScanInv, TableWritten,
         \A d \in Clients : pc'[d] \in {"new", "handshake", "scan"} =>
            pc'[d] = pc[d] /\ pos'[d] = pos[d] /\ server'[d] = server[d]
  PROVE  ScanInv'
<1>1. (Scanning \ disturbed)' = {}
  BY DEF TableWritten, Scanning
<1> QED
  BY <1>1 DEF ScanInv

LEMMA ScanInvInductive == TypeOK /\ ScanInv /\ [Next]_vars => ScanInv'
<1> SUFFICES ASSUME TypeOK, ScanInv, [Next]_vars
             PROVE  ScanInv'
  OBVIOUS
<1>1. ASSUME NEW c \in Clients, Accept(c) \/ Handshake(c)
      PROVE  ScanInv'
  <2>1. /\ pc[c] \in {"new", "handshake"}
        /\ pc' = [pc EXCEPT ![c] = "scan"]
        /\ UNCHANGED <<pos, server, isAlive, clientsConnectedCount, disturbed>>
    BY <1>1 DEF Accept, Handshake, StartClientThread, tableVars
  <2>2. pos'[c] = 1 /\ server'[c] = NoServer
    BY <2>1 DEF ScanInv
  <2>3. ASSUME NEW d \in (Scanning \ disturbed)'
        PROVE  BestSoFar(d)'
    <3>1. CASE d = c
      BY <2>2, <3>1, BestAtStart
    <3>2. CASE d # c
      <4>1. d \in Scanning \ disturbed /\ d \in Clients
        BY <2>1, <2>3, <3>2 DEF Scanning, TypeOK
      <4> QED
        BY <2>1, <4>1, BestStable DEF ScanInv
    <3> QED
      BY <3>1, <3>2
  <2> QED
    BY <2>1, <2>3 DEF ScanInv, TypeOK
<1>2. ASSUME NEW c \in Clients, AcceptTls(c)
      PROVE  ScanInv'
  <2>1. /\ pc[c] = "new" /\ pc' = [pc EXCEPT ![c] = "handshake"]
        /\ UNCHANGED <<pos, server, isAlive, clientsConnectedCount, disturbed>>
    BY <1>2 DEF AcceptTls, tableVars, historyVars
  <2>2. ASSUME NEW d \in (Scanning \ disturbed)'
        PROVE  BestSoFar(d)'
    <3>1. d \in Scanning \ disturbed /\ d \in Clients
      BY <2>1, <2>2 DEF Scanning, TypeOK
    <3> QED
      BY <2>1, <3>1, BestStable DEF ScanInv
  <2> QED
    BY <2>1, <2>2 DEF ScanInv, TypeOK
<1>3. ASSUME NEW c \in Clients, ScanServer(c)
      PROVE  ScanInv'
  <2>1. /\ pc[c] = "scan" /\ UNCHANGED <<pc, isAlive, clientsConnectedCount, disturbed>>
        /\ \A d \in Clients \ {c} : pos'[d] = pos[d] /\ server'[d] = server[d]
    BY <1>3 DEF ScanServer, TypeOK, tableVars, historyVars
  <2>2. ASSUME NEW d \in (Scanning \ disturbed)'
        PROVE  BestSoFar(d)'
    <3>1. d \in Scanning \ disturbed /\ d \in Clients /\ BestSoFar(d)
      BY <2>1, <2>2 DEF Scanning, ScanInv
    <3>2. CASE d = c
      BY <1>3, <3>1, <3>2, BestStep
    <3>3. CASE d # c
      BY <2>1, <3>1, <3>3, BestStable
    <3> QED
      BY <3>2, <3>3
  <2> QED
    BY <2>1, <2>2 DEF ScanInv
<1>4. ASSUME NEW c \in Clients,
             \/ Refuse(c) \/ Connect(c) \/ ReadForIncrement(c) \/ OpenStreams(c)
             \/ ReadForDecrement(c)
      PROVE  ScanInv'
  <2> USE <1>4 DEF Refuse, Connect, ReadForIncrement, OpenStreams, ReadForDecrement,
                   ReadCount
  <2>1. UNCHANGED <<pos, server, isAlive, clientsConnectedCount>>
    BY DEF tableVars
  <2>2. pc'[c] \notin {"new", "handshake", "scan"} /\ \A d \in Clients \ {c} : pc'[d] = pc[d]
    BY DEF TypeOK
  <2>3. disturbed \ {c} \subseteq disturbed'
    BY DEF historyVars
  <2> QED
    BY <2>1, <2>2, <2>3, ScanStable
<1>5. ASSUME NEW c \in Clients, MarkDead(c)
      PROVE  ScanInv'
  <2>1. /\ TableWritten /\ pc[c] = "markDead"
        /\ pc' = [pc EXCEPT ![c] = "scan"]
        /\ pos' = [pos EXCEPT ![c] = 1]
        /\ server' = [server EXCEPT ![c] = NoServer]
    BY <1>5 DEF MarkDead
  <2>2. (Scanning \ disturbed)' \subseteq {c}
    BY <2>1 DEF TableWritten, Scanning, TypeOK
  <2>3. BestSoFar(c)'
    BY <2>1, BestAtStart DEF TypeOK
  <2> QED
    BY <2>1, <2>2, <2>3 DEF ScanInv, TypeOK
<1>6. ASSUME NEW c \in Clients, WriteIncrement(c) \/ WriteDecrement(c)
      PROVE  ScanInv'
  <2>1. /\ TableWritten /\ UNCHANGED <<pos, server>>
        /\ pc'[c] \notin {"new", "handshake", "scan"}
        /\ \A d \in Clients \ {c} : pc'[d] = pc[d]
    BY <1>6 DEF WriteIncrement, WriteDecrement, WriteCount, TypeOK
  <2> QED
    BY <2>1, ScanDisturbed
<1>7. ASSUME Revive
      PROVE  ScanInv'
  BY <1>7, ScanDisturbed DEF Revive, clientVars
<1>8. ASSUME \/ Wake \/ TestServer \/ Probe
             \/ \E s \in Servers : ServerToggles(s)
             \/ UNCHANGED vars
      PROVE  ScanInv'
  <2>1. UNCHANGED <<pc, pos, server, isAlive, clientsConnectedCount, disturbed>>
    BY <1>8 DEF Wake, TestServer, Probe, ServerToggles, vars, clientVars, tableVars,
                historyVars
  <2>2. ASSUME NEW d \in (Scanning \ disturbed)'
        PROVE  BestSoFar(d)'
    <3>1. d \in Scanning \ disturbed /\ d \in Clients
      BY <2>1, <2>2 DEF Scanning
    <3> QED
      BY <2>1, <3>1, BestStable DEF ScanInv
  <2> QED
    BY <2>1, <2>2 DEF ScanInv
<1> QED
  BY <1>1, <1>2, <1>3, <1>4, <1>5, <1>6, <1>7, <1>8
     DEF Next, AcceptStep, ConnectStep, ReleaseStep, CheckerStep

\* At the end of the loop the best so far is the server promised.
LEMMA BestIsMinimal ==
  ASSUME NEW c \in Clients, TypeOK, BestSoFar(c), ScanDone(c)
  PROVE  server[c] = GetServerWithMinimalLoad
<1> DEFINE alive == {s \in Servers : isAlive[s]}
           least == {s \in alive : LoadBalancing =>
                        \A t \in alive :
                           clientsConnectedCount[s] <= clientsConnectedCount[t]}
           first(s) == s \in least /\ \A t \in least : s <= t
<1>1. PassedAlive(c) = alive
  <2>1. \A s \in Servers : s < pos[c]
    BY ConstantsAssumption DEF ScanDone, TypeOK, Servers
  <2> QED
    BY <2>1 DEF PassedAlive
<1>2. CASE server[c] = NoServer
  <2>1. alive = {}
    BY <1>1, <1>2 DEF BestSoFar
  <2> QED
    BY <1>2, <2>1 DEF GetServerWithMinimalLoad
<1>3. CASE server[c] # NoServer
  <2>1. /\ \A s \in Servers : s \in Int /\ clientsConnectedCount[s] \in Int
        /\ \A s \in alive : s \in Servers
        /\ LoadBalancing \in BOOLEAN
    BY ConstantsAssumption DEF TypeOK, Servers
  <2>2. server[c] \in alive
    BY <1>3 DEF BestSoFar, TypeOK
  <2>3. first(server[c])
    <3>1. CASE LoadBalancing
      <4>1. \A t \in alive :
               /\ clientsConnectedCount[server[c]] <= clientsConnectedCount[t]
               /\ t < server[c] =>
                     clientsConnectedCount[server[c]] < clientsConnectedCount[t]
        BY <1>1, <1>3, <3>1 DEF BestSoFar
      <4>2. server[c] \in least
        BY <2>2, <4>1
      <4>3. ASSUME NEW t \in least
            PROVE  server[c] <= t
        <5>1. t \in alive /\ clientsConnectedCount[t] <= clientsConnectedCount[server[c]]
          BY <2>2, <3>1, <4>3
        <5>2. ~(t < server[c])
          BY <2>1, <2>2, <4>1, <5>1
        <5> QED
          BY <2>1, <2>2, <5>1, <5>2
      <4> QED
        BY <4>2, <4>3
    <3>2. CASE ~LoadBalancing
      <4>1. \A t \in alive : server[c] <= t
        BY <1>1, <1>3, <3>2 DEF BestSoFar
      <4>2. least = alive
        BY <3>2
      <4> QED
        BY <2>2, <4>1, <4>2
    <3> QED
      BY <3>1, <3>2
  <2>4. \A s : first(s) => s = server[c]
    BY <2>1, <2>2, <2>3
  <2>5. server[c] = CHOOSE s \in least : \A t \in least : s <= t
    BY <2>3, <2>4
  <2> QED
    BY <2>2, <2>5 DEF GetServerWithMinimalLoad
<1> QED
  BY <1>2, <1>3

\* The loop over the unlocked table yields the first least loaded alive server, or
\* the first alive one without load balancing, whenever no thread wrote to the
\* table while it ran (ServerPool!LeastLoaded).
THEOREM LeastLoadedChosen == Spec => []LeastLoaded
<1>1. Init => ScanInv
  BY DEF Init, ScanInv, Scanning
<1>2. TypeOK /\ ScanInv => LeastLoaded
  <2> SUFFICES ASSUME TypeOK, ScanInv, NEW c \in Scanning \ disturbed, ScanDone(c)
               PROVE  server[c] = GetServerWithMinimalLoad
    BY DEF LeastLoaded
  <2>1. c \in Clients /\ BestSoFar(c)
    BY DEF Scanning, ScanInv
  <2> QED
    BY <2>1, BestIsMinimal
<1> QED
  BY <1>1, <1>2, ScanInvInductive, TypeCorrect, PTL DEF Spec

=============================================================================
