----------------------- MODULE EncryptedForward_proofs ----------------------
(***************************************************************************)
(* Theorems about EncryptedForward, for any finite set of connections and  *)
(* any time-out.                                                           *)
(***************************************************************************)
EXTENDS EncryptedForward, TLAPS

\* The sockets the sweep is going to close.
Doomed(s) == s \in list \/ (sweep = "close" /\ s = current)

\* What is true of a socket.  The fourth part is why the age of an entry speaks for
\* its socket, the last one what the sweep may go by when it closes one.
Sock(s) ==
    /\ socket[s] = "none" => clientList[s] = Absent /\ switch[s] = "none"
    /\ switch[s] # "none" =>
          accepting[s[1]] = "done" \/ (accepting[s[1]] = "startRemote" /\ s = Client(s[1]))
    /\ switch[s] = "put" => s \in missed
    /\ Open(s) /\ switch[s] # "put" => clientList[s] <= idle[s]
    /\ s \in todo => socket[s] # "none" /\ s \notin list
    /\ Doomed(s) => Closed(s) \/ (Open(s) /\ (idle[s] = TIMEOUT \/ s \in missed))

\* Which sockets of a connection exist.
Conn(c) ==
    /\ socket[Client(c)] = "none" <=> accepting[c] = "new"
    /\ socket[Remote(c)] = "none" <=> accepting[c] \in {"new", "put", "connect", "failed"}

\* TimeoutCovers, for one connection.
Covered(c) ==
    Open(Client(c)) /\ accepting[c] # "put"
        => \/ Client(c) \in Listed \cup lost
           \/ sweep = "close" /\ current = Client(c)

IInv ==
    /\ TypeOK
    /\ sweep # "scan" => todo = {}
    /\ \A s \in Sockets : Sock(s)
    /\ \A c \in Connections : Conn(c) /\ Covered(c)

-----------------------------------------------------------------------------

LEMMA Names ==
    /\ NoSocket \notin Sockets
    /\ \A s \in Sockets : s[1] \in Connections /\ Peer(s) \in Sockets /\ Peer(s)[1] = s[1]
    /\ \A s \in Sockets : s = Client(s[1]) \/ s = Remote(s[1])
    /\ \A c \in Connections :
          /\ Client(c) \in Sockets /\ Remote(c) \in Sockets
          /\ Client(c)[1] = c /\ Remote(c)[1] = c
    /\ \A c, d \in Connections : Client(c) # Remote(d)
    /\ \A c, d \in Connections : (Client(c) = Client(d) \/ Remote(c) = Remote(d)) => c = d
<1>1. NoSocket \notin Sockets
  BY DEF NoSocket, Sockets
<1>2. \A s \in Sockets : s[1] \in Connections /\ Peer(s) \in Sockets /\ Peer(s)[1] = s[1]
  BY DEF Sockets, Sides, Peer
<1>3. \A s \in Sockets : s = Client(s[1]) \/ s = Remote(s[1])
  BY DEF Sockets, Sides, Client, Remote
<1>4. \A c \in Connections :
          /\ Client(c) \in Sockets /\ Remote(c) \in Sockets
          /\ Client(c)[1] = c /\ Remote(c)[1] = c
  BY DEF Sockets, Sides, Client, Remote
<1>5. \A c, d \in Connections : Client(c) # Remote(d)
  BY DEF Client, Remote
<1>6. \A c, d \in Connections : (Client(c) = Client(d) \/ Remote(c) = Remote(d)) => c = d
  BY DEF Client, Remote
<1> QED
  BY <1>1, <1>2, <1>3, <1>4, <1>5, <1>6

\* A step that leaves a socket, its Switch, its entry and the sweep's interest in it
\* alone.
Same(s) ==
    /\ accepting'[s[1]] = accepting[s[1]]
    /\ socket'[s] = socket[s] /\ switch'[s] = switch[s]
    /\ clientList'[s] = clientList[s] /\ idle'[s] = idle[s]
    /\ s \in missed' <=> s \in missed
    /\ s \in todo' => s \in todo
    /\ (s \in list' <=> s \in list) /\ (Doomed(s)' => Doomed(s))

LEMMA SockSame ==
    ASSUME NEW s \in Sockets, Sock(s), Same(s)
    PROVE  Sock(s)'
  BY DEF Same, Sock, Open, Closed, Doomed

LEMMA InvInit == Init => IInv
<1> SUFFICES ASSUME Init
             PROVE  IInv
  OBVIOUS
<1>1. TypeOK
  <2>1. idle \in [Sockets -> 0..TIMEOUT]
    BY ConstantsAssumption DEF Init
  <2>2. clientList \in [Sockets -> {Absent} \cup 0..TIMEOUT]
    BY DEF Init
  <2>3. /\ accepting \in [Connections -> AcceptStates]
        /\ socket \in [Sockets -> {"none", "open", "closed"}]
        /\ switch \in [Sockets -> SwitchStates]
    BY DEF Init, AcceptStates, SwitchStates
  <2> QED
    BY <2>1, <2>2, <2>3 DEF Init, TypeOK, SweepStates
<1>2. \A s \in Sockets : Sock(s)
  BY DEF Init, Sock, Doomed, Open, Closed
<1>3. \A c \in Connections : Conn(c) /\ Covered(c)
  BY Names DEF Init, Conn, Covered, Open
<1> QED
  BY <1>1, <1>2, <1>3 DEF Init, IInv

\* An insertion, or its loss, changes the entry of one socket.
LEMMA PutEffect ==
    ASSUME IInv, NEW s \in Sockets, Put(s)
    PROVE  /\ clientList' \in [Sockets -> {Absent} \cup 0..TIMEOUT]
           /\ lost' \subseteq Sockets /\ modified' \in BOOLEAN
           /\ clientList'[s] \in {Absent, 0} /\ (clientList'[s] = Absent => s \in lost')
           /\ \A t \in Sockets \ {s} : clientList'[t] = clientList[t] /\ (t \in lost' <=> t \in lost)
<1>1. CASE /\ clientList' = [clientList EXCEPT ![s] = 0]
           /\ modified' = (modified \/ s \notin Listed)
           /\ lost' = lost \ {s}
  BY <1>1, ConstantsAssumption DEF IInv, TypeOK, Absent
<1>2. CASE /\ s \notin Listed
           /\ lost' = lost \cup {s} /\ modified' = TRUE /\ clientList' = clientList
  BY <1>2 DEF IInv, TypeOK, Listed
<1> QED
  BY <1>1, <1>2 DEF Put

-----------------------------------------------------------------------------
(* The accept loop.                                                        *)

LEMMA AcceptKeeps ==
    ASSUME IInv, NEW c \in Connections, Accept(c)
    PROVE  IInv'
<1>1. /\ accepting[c] = "new" /\ accepting' = [accepting EXCEPT ![c] = "put"]
      /\ socket' = [socket EXCEPT ![Client(c)] = "open"]
      /\ switch' = switch /\ clientList' = clientList /\ modified' = modified /\ lost' = lost
      /\ sweep' = sweep /\ todo' = todo /\ list' = list /\ current' = current
      /\ idle' = idle /\ missed' = missed
  BY DEF Accept, Goes, tableVars, sweepVars, historyVars
<1>2. TypeOK'
  BY <1>1, Names DEF IInv, TypeOK, AcceptStates
<1>3. /\ socket'[Client(c)] = "open"
      /\ \A s \in Sockets \ {Client(c)} : socket'[s] = socket[s]
      /\ accepting'[c] = "put"
      /\ \A d \in Connections \ {c} : accepting'[d] = accepting[d]
  BY <1>1, Names DEF IInv, TypeOK
<1>4. /\ socket[Client(c)] = "none" /\ socket[Remote(c)] = "none"
  BY <1>1 DEF IInv, Conn
<1>5. Sock(Client(c)) /\ Sock(Remote(c))
  BY Names DEF IInv
<1>6. Sock(Client(c))'
  <2>1. idle[Client(c)] \in 0..TIMEOUT
    BY Names DEF IInv, TypeOK
  <2> QED
    BY <1>1, <1>3, <1>4, <1>5, <2>1, Names, ConstantsAssumption
       DEF Sock, Open, Closed, Doomed, Absent
<1>7. Sock(Remote(c))'
  BY <1>1, <1>3, <1>4, <1>5, Names DEF Sock, Open, Closed, Doomed
<1>8. \A s \in Sockets \ {Client(c), Remote(c)} : Same(s)
  BY <1>1, <1>3, Names DEF Same, Doomed
<1>9. \A s \in Sockets : Sock(s)'
  BY <1>6, <1>7, <1>8, SockSame DEF IInv
<1>10. \A d \in Connections : Conn(d)' /\ Covered(d)'
  BY <1>1, <1>3, <1>4, Names DEF IInv, Conn, Covered, Open, Listed
<1> QED
  BY <1>1, <1>2, <1>9, <1>10 DEF IInv

LEMMA PutAcceptedKeeps ==
    ASSUME IInv, NEW c \in Connections, PutAccepted(c)
    PROVE  IInv'
<1>1. /\ accepting[c] = "put" /\ accepting' = [accepting EXCEPT ![c] = "connect"]
      /\ socket' = socket /\ switch' = switch
      /\ sweep' = sweep /\ todo' = todo /\ list' = list /\ current' = current
      /\ idle' = idle /\ missed' = missed
  BY DEF PutAccepted, Goes, sweepVars, historyVars
<1>2. /\ clientList' \in [Sockets -> {Absent} \cup 0..TIMEOUT]
      /\ lost' \subseteq Sockets /\ modified' \in BOOLEAN
      /\ clientList'[Client(c)] \in {Absent, 0}
      /\ clientList'[Client(c)] = Absent => Client(c) \in lost'
      /\ \A t \in Sockets \ {Client(c)} :
            clientList'[t] = clientList[t] /\ (t \in lost' <=> t \in lost)
  BY Names, PutEffect DEF PutAccepted
<1>3. TypeOK'
  BY <1>1, <1>2 DEF IInv, TypeOK, AcceptStates
<1>4. /\ accepting'[c] = "connect"
      /\ \A d \in Connections \ {c} : accepting'[d] = accepting[d]
  BY <1>1 DEF IInv, TypeOK
<1>5. Sock(Client(c)) /\ Sock(Remote(c)) /\ Conn(c)
  BY Names DEF IInv
<1>6. Sock(Client(c))'
  <2>1. idle[Client(c)] \in 0..TIMEOUT
    BY Names DEF IInv, TypeOK
  <2> QED
    BY <1>1, <1>2, <1>4, <1>5, <2>1, Names, ConstantsAssumption
       DEF Sock, Conn, Open, Closed, Doomed, Absent
<1>7. Sock(Remote(c))'
  BY <1>1, <1>2, <1>4, <1>5, Names DEF Sock, Open, Closed, Doomed
<1>8. \A s \in Sockets \ {Client(c), Remote(c)} : Same(s)
  BY <1>1, <1>2, <1>4, Names DEF Same, Doomed
<1>9. \A s \in Sockets : Sock(s)'
  BY <1>6, <1>7, <1>8, SockSame DEF IInv
<1>10. \A d \in Connections : Conn(d)'
  BY <1>1, <1>4, Names DEF IInv, Conn
<1>11. \A d \in Connections : Covered(d)'
  BY <1>1, <1>2, <1>4, Names DEF IInv, Covered, Open, Listed
<1> QED
  BY <1>1, <1>3, <1>9, <1>10, <1>11 DEF IInv

\* Connecting opens the other socket, or closes the client's.
LEMMA ConnectKeeps ==
    ASSUME IInv, NEW c \in Connections, Connect(c) \/ ConnectFails(c)
    PROVE  IInv'
<1>1. PICK to \in {"startClient", "failed"}, s \in Sockets, state \in {"open", "closed"} :
          /\ accepting' = [accepting EXCEPT ![c] = to]
          /\ socket' = [socket EXCEPT ![s] = state]
          /\ IF to = "startClient" THEN s = Remote(c) /\ state = "open"
                                   ELSE s = Client(c) /\ state = "closed"
  BY Names DEF Connect, ConnectFails, Goes
<1>2. /\ accepting[c] = "connect"
      /\ switch' = switch /\ clientList' = clientList /\ modified' = modified /\ lost' = lost
      /\ sweep' = sweep /\ todo' = todo /\ list' = list /\ current' = current
      /\ idle' = idle /\ missed' = missed
  BY DEF Connect, ConnectFails, tableVars, sweepVars, historyVars
<1>3. TypeOK'
  BY <1>1, <1>2 DEF IInv, TypeOK, AcceptStates
<1>4. /\ socket'[s] = state
      /\ \A t \in Sockets \ {s} : socket'[t] = socket[t]
      /\ accepting'[c] = to
      /\ \A d \in Connections \ {c} : accepting'[d] = accepting[d]
  BY <1>1 DEF IInv, TypeOK
<1>5. Conn(c) /\ \A t \in Sockets : Sock(t)
  BY DEF IInv
<1>6. \A t \in {Client(c), Remote(c)} : switch[t] = "none" /\ t \in Sockets /\ t[1] = c
  BY <1>2, <1>5, Names DEF Sock
<1>7. \A t \in {Client(c), Remote(c)} \ {s} : Sock(t)'
  BY <1>2, <1>4, <1>5, <1>6 DEF Sock, Open, Closed, Doomed
<1>8. Sock(s)'
  <2>1. idle[s] \in 0..TIMEOUT
    BY DEF IInv, TypeOK
  <2>2. s \in {Client(c), Remote(c)} /\ (to = "startClient" => socket[s] = "none")
    BY <1>1, <1>2, <1>5 DEF Conn
  <2> QED
    BY <1>1, <1>2, <1>4, <1>5, <1>6, <2>1, <2>2, ConstantsAssumption
       DEF Sock, Open, Closed, Doomed, Absent
<1>9. \A t \in Sockets \ {Client(c), Remote(c)} : Same(t)
  BY <1>1, <1>2, <1>4, Names DEF Same, Doomed
<1>10. \A t \in Sockets : Sock(t)'
  BY <1>7, <1>8, <1>9, SockSame DEF IInv
<1>11. \A d \in Connections : Conn(d)'
  BY <1>1, <1>2, <1>4, Names DEF IInv, Conn
<1>12. \A d \in Connections : Covered(d)'
  BY <1>1, <1>2, <1>4, Names DEF IInv, Covered, Open, Listed
<1> QED
  BY <1>2, <1>3, <1>10, <1>11, <1>12 DEF IInv

LEMMA StartKeeps ==
    ASSUME IInv, NEW c \in Connections,
           \/ StartSwitch(c, "startClient", Client(c), "startRemote")
           \/ StartSwitch(c, "startRemote", Remote(c), "done")
    PROVE  IInv'
<1>1. PICK to \in {"startRemote", "done"}, s \in Sockets :
          /\ accepting[c] \in {"startClient", "startRemote"}
          /\ accepting' = [accepting EXCEPT ![c] = to]
          /\ switch' = [switch EXCEPT ![s] = "start"]
          /\ s \in {Client(c), Remote(c)}
          /\ IF to = "startRemote" THEN s = Client(c) /\ accepting[c] = "startClient"
                                   ELSE s = Remote(c) /\ accepting[c] = "startRemote"
  BY Names DEF StartSwitch, Goes
<1>2. /\ socket' = socket /\ clientList' = clientList /\ modified' = modified /\ lost' = lost
      /\ sweep' = sweep /\ todo' = todo /\ list' = list /\ current' = current
      /\ idle' = idle /\ missed' = missed
  BY DEF StartSwitch, tableVars, sweepVars, historyVars
<1>3. TypeOK'
  BY <1>1, <1>2 DEF IInv, TypeOK, AcceptStates, SwitchStates
<1>4. /\ switch'[s] = "start"
      /\ \A t \in Sockets \ {s} : switch'[t] = switch[t]
      /\ accepting'[c] = to
      /\ \A d \in Connections \ {c} : accepting'[d] = accepting[d]
  BY <1>1 DEF IInv, TypeOK
<1>5. Conn(c) /\ \A t \in Sockets : Sock(t)
  BY DEF IInv
<1>6. \A t \in {Client(c), Remote(c)} : t \in Sockets /\ t[1] = c /\ socket[t] # "none"
  BY <1>1, <1>5, Names DEF Conn
<1>7. \A t \in {Client(c), Remote(c)} \ {s} : Sock(t)'
  BY <1>1, <1>2, <1>4, <1>5, <1>6 DEF Sock, Open, Closed, Doomed
<1>8. Sock(s)'
  <2>1. Sock(s) /\ switch[s] = "none"
    BY <1>1, <1>5, <1>6, Names DEF Sock
  <2> QED
    BY <1>1, <1>2, <1>4, <1>6, <2>1 DEF Sock, Open, Closed, Doomed
<1>9. \A t \in Sockets \ {Client(c), Remote(c)} : Same(t)
  BY <1>1, <1>2, <1>4, Names DEF Same, Doomed
<1>10. \A t \in Sockets : Sock(t)'
  BY <1>7, <1>8, <1>9, SockSame DEF IInv
<1>11. \A d \in Connections : Conn(d)'
  BY <1>1, <1>2, <1>4, Names DEF IInv, Conn
<1>12. \A d \in Connections : Covered(d)'
  BY <1>1, <1>2, <1>4, Names DEF IInv, Covered, Open, Listed
<1> QED
  BY <1>2, <1>3, <1>10, <1>11, <1>12 DEF IInv

-----------------------------------------------------------------------------
(* Switch.                                                                 *)

\* A Switch that goes on, and at most closes one of its sockets, after which the
\* sweep may close it as well.
LEMMA SwitchMoves ==
    ASSUME IInv, NEW s \in Sockets, NEW state \in SwitchStates \ {"none", "put"},
           switch[s] \notin {"none", "put"}, switch' = [switch EXCEPT ![s] = state],
           NEW t \in Sockets, t[1] = s[1],
           socket' = socket \/ socket' = [socket EXCEPT ![t] = "closed"],
           accepting' = accepting, UNCHANGED <<tableVars, sweepVars, historyVars>>
    PROVE  IInv'
<1>1. /\ clientList' = clientList /\ modified' = modified /\ lost' = lost
      /\ sweep' = sweep /\ todo' = todo /\ list' = list /\ current' = current
      /\ idle' = idle /\ missed' = missed
  BY DEF tableVars, sweepVars, historyVars
<1>2. TypeOK'
  <2>1. switch' \in [Sockets -> SwitchStates] /\ socket' \in [Sockets -> {"none", "open", "closed"}]
    BY DEF IInv, TypeOK
  <2> QED
    BY <1>1, <2>1 DEF IInv, TypeOK
<1>3. \A u \in Sockets :
          /\ switch'[u] = IF u = s THEN state ELSE switch[u]
          /\ socket'[u] = socket[u] \/ (socket'[u] = "closed" /\ u[1] = s[1])
          /\ Sock(u)
  BY DEF IInv, TypeOK
<1>4. accepting[s[1]] \in {"startRemote", "done"} /\ Conn(s[1])
  BY <1>3, Names DEF IInv, Sock
<1>5. \A u \in Sockets : u[1] = s[1] => socket[u] # "none"
  BY <1>4, Names DEF Conn
<1>6. \A u \in Sockets : Sock(u)'
  <2> SUFFICES ASSUME NEW u \in Sockets
               PROVE  Sock(u)'
    OBVIOUS
  <2>1. CASE socket'[u] = socket[u]
    BY <1>1, <1>3, <2>1 DEF Sock, Open, Closed, Doomed
  <2>2. CASE socket'[u] = "closed" /\ u[1] = s[1]
    BY <1>1, <1>3, <1>5, <2>2 DEF Sock, Open, Closed, Doomed
  <2> QED
    BY <1>3, <2>1, <2>2
<1>7. \A d \in Connections : Conn(d)'
  BY <1>3, <1>5, Names DEF IInv, Conn
<1>8. \A d \in Connections : Covered(d)'
  BY <1>1, <1>3, Names DEF IInv, Covered, Open, Listed
<1> QED
  BY <1>1, <1>2, <1>6, <1>7, <1>8 DEF IInv

LEMMA ReadDataKeeps ==
    ASSUME IInv, NEW s \in Sockets, ReadData(s)
    PROVE  IInv'
<1>1. /\ switch[s] = "read" /\ socket[s] = "open" /\ switch' = [switch EXCEPT ![s] = "put"]
      /\ idle' = [idle EXCEPT ![s] = 0] /\ missed' = missed \cup {s}
      /\ clientList' = clientList /\ modified' = modified /\ lost' = lost
      /\ sweep' = sweep /\ todo' = todo /\ list' = list /\ current' = current
      /\ accepting' = accepting /\ socket' = socket
  BY DEF ReadData, Moves, Open, tableVars, sweepVars
<1>2. TypeOK'
  <2>1. switch' \in [Sockets -> SwitchStates]
    BY <1>1 DEF IInv, TypeOK, SwitchStates
  <2>2. idle' \in [Sockets -> 0..TIMEOUT]
    BY <1>1, ConstantsAssumption DEF IInv, TypeOK
  <2> QED
    BY <1>1, <2>1, <2>2 DEF IInv, TypeOK
<1>3. \A u \in Sockets \ {s} : switch'[u] = switch[u] /\ idle'[u] = idle[u]
  BY <1>1 DEF IInv, TypeOK
<1>4. switch'[s] = "put" /\ Sock(s)
  BY <1>1 DEF IInv, TypeOK
<1>5. Sock(s)'
  BY <1>1, <1>4 DEF Sock, Open, Closed, Doomed
<1>6. \A u \in Sockets \ {s} : Same(u)
  BY <1>1, <1>3 DEF Same, Doomed
<1>7. \A u \in Sockets : Sock(u)'
  BY <1>5, <1>6, SockSame DEF IInv
<1>8. \A d \in Connections : Conn(d)' /\ Covered(d)'
  BY <1>1 DEF IInv, Conn, Covered, Open, Listed
<1> QED
  BY <1>1, <1>2, <1>7, <1>8 DEF IInv

LEMMA PutActiveKeeps ==
    ASSUME IInv, NEW s \in Sockets, PutActive(s)
    PROVE  IInv'
<1>1. /\ switch[s] = "put" /\ switch' = [switch EXCEPT ![s] = "write"]
      /\ sweep' = sweep /\ todo' = todo /\ list' = list /\ current' = current
      /\ idle' = idle /\ missed' = missed /\ accepting' = accepting /\ socket' = socket
  BY DEF PutActive, Moves, sweepVars, historyVars
<1>2. /\ clientList' \in [Sockets -> {Absent} \cup 0..TIMEOUT]
      /\ lost' \subseteq Sockets /\ modified' \in BOOLEAN
      /\ clientList'[s] \in {Absent, 0}
      /\ clientList'[s] = Absent => s \in lost'
      /\ \A t \in Sockets \ {s} :
            clientList'[t] = clientList[t] /\ (t \in lost' <=> t \in lost)
  BY PutEffect DEF PutActive
<1>3. TypeOK'
  BY <1>1, <1>2 DEF IInv, TypeOK, SwitchStates
<1>4. /\ switch'[s] = "write" /\ Sock(s) /\ idle[s] \in 0..TIMEOUT
      /\ \A u \in Sockets \ {s} : switch'[u] = switch[u]
  BY <1>1 DEF IInv, TypeOK
<1>5. Sock(s)'
  BY <1>1, <1>2, <1>4, ConstantsAssumption DEF Sock, Open, Closed, Doomed, Absent
<1>6. \A u \in Sockets \ {s} : Same(u)
  BY <1>1, <1>2, <1>4 DEF Same, Doomed
<1>7. \A u \in Sockets : Sock(u)'
  BY <1>5, <1>6, SockSame DEF IInv
<1>8. \A d \in Connections : Conn(d)'
  BY <1>1 DEF IInv, Conn
<1>9. \A d \in Connections : Covered(d)'
  BY <1>1, <1>2, Names DEF IInv, Covered, Open, Listed
<1> QED
  BY <1>1, <1>3, <1>7, <1>8, <1>9 DEF IInv

LEMMA SwitchKeeps ==
    ASSUME IInv, NEW s \in Sockets, SwitchStep(s) \/ ReadData(s) \/ ReadEnds(s)
    PROVE  IInv'
<1>1. CASE ReadData(s)
  BY <1>1, ReadDataKeeps
<1>2. CASE PutActive(s)
  BY <1>2, PutActiveKeeps
<1>3. CASE GetStreams(s) \/ ReadEnds(s) \/ Write(s) \/ WriteFails(s)
  <2>1. PICK state \in SwitchStates \ {"none", "put"} : switch' = [switch EXCEPT ![s] = state]
    BY <1>3 DEF GetStreams, ReadEnds, Write, WriteFails, Moves, SwitchStates
  <2>2. /\ switch[s] \notin {"none", "put"} /\ socket' = socket /\ accepting' = accepting
        /\ UNCHANGED <<tableVars, sweepVars, historyVars>>
    BY <1>3 DEF GetStreams, ReadEnds, Write, WriteFails
  <2> QED
    BY <2>1, <2>2, SwitchMoves
<1>4. CASE CloseHost(s)
  BY <1>4, SwitchMoves DEF CloseHost, Moves, SwitchStates
<1>5. CASE CloseRemote(s)
  BY <1>5, SwitchMoves, Names DEF CloseRemote, Moves, SwitchStates
<1> QED
  BY <1>1, <1>2, <1>3, <1>4, <1>5 DEF SwitchStep

-----------------------------------------------------------------------------
(* AutoDestroy and the clock.                                              *)

\* The sweep begins, gives up, or goes from one of its parts to the next.
LEMMA SweepPartKeeps ==
    ASSUME IInv, StartSweep \/ SweepThrows \/ Scanned \/ Swept
    PROVE  IInv'
<1>1. /\ accepting' = accepting /\ socket' = socket /\ switch' = switch
      /\ clientList' = clientList /\ lost' = lost /\ idle' = idle /\ missed' = missed
      /\ current' = current /\ sweep # "close" /\ sweep' # "close"
  BY DEF StartSweep, SweepThrows, Scanned, Swept, tableVars, historyVars
<1>2. /\ list' \subseteq list /\ (todo' \subseteq todo \/ (todo' = Listed /\ list' = {}))
      /\ sweep' # "scan" => todo' = {}
  BY DEF StartSweep, SweepThrows, Scanned, Swept, IInv, TypeOK
<1>3. TypeOK'
  <2>1. Listed \subseteq Sockets
    BY DEF Listed
  <2>2. modified' \in BOOLEAN /\ sweep' \in SweepStates
        /\ (sweep' \in {"sleep", "dead"} => todo' \cup list' = {})
    BY DEF StartSweep, SweepThrows, Scanned, Swept, SweepStates, tableVars, IInv, TypeOK
  <2> QED
    BY <1>1, <1>2, <2>1, <2>2 DEF IInv, TypeOK
<1>4. \A s \in Sockets : Sock(s)'
  <2> SUFFICES ASSUME NEW s \in Sockets
               PROVE  Sock(s)'
    OBVIOUS
  <2>1. Sock(s)
    BY DEF IInv
  <2>2. s \in todo' => socket'[s] # "none" /\ s \notin list'
    BY <1>1, <1>2, <2>1 DEF Sock, Listed
  <2> QED
    BY <1>1, <1>2, <2>1, <2>2 DEF Sock, Open, Closed, Doomed
<1>5. \A d \in Connections : Conn(d)' /\ Covered(d)'
  BY <1>1 DEF IInv, Conn, Covered, Open, Listed
<1> QED
  BY <1>2, <1>3, <1>4, <1>5 DEF IInv

\* An entry is found timed out only if its socket is closed, idle, or about to be put.
LEMMA ExamineKeeps ==
    ASSUME IInv, NEW s \in Sockets, Examine(s)
    PROVE  IInv'
<1>1. /\ sweep = "scan" /\ s \in todo /\ todo' = todo \ {s}
      /\ list' = IF Closed(s) \/ clientList[s] >= TIMEOUT THEN list \cup {s} ELSE list
      /\ missed' = IF switch[s] = "put" THEN missed ELSE missed \ {s}
      /\ accepting' = accepting /\ socket' = socket /\ switch' = switch
      /\ clientList' = clientList /\ modified' = modified /\ lost' = lost
      /\ sweep' = sweep /\ current' = current /\ idle' = idle
  BY DEF Examine, tableVars
<1>2. TypeOK'
  BY <1>1 DEF IInv, TypeOK
<1>3. Sock(s) /\ idle[s] \in 0..TIMEOUT /\ clientList[s] \in {Absent} \cup 0..TIMEOUT
  BY DEF IInv, TypeOK
<1>4. s \in list' => Closed(s) \/ (Open(s) /\ (idle[s] = TIMEOUT \/ s \in missed'))
  <2>1. s \notin list /\ socket[s] # "none"
    BY <1>1, <1>3 DEF Sock
  <2>2. socket[s] \in {"none", "open", "closed"}
    BY DEF IInv, TypeOK
  <2>3. CASE Closed(s)
    BY <2>3
  <2>4. CASE Open(s) /\ switch[s] = "put"
    BY <1>1, <1>3, <2>4 DEF Sock
  <2>5. CASE Open(s) /\ switch[s] # "put" /\ clientList[s] >= TIMEOUT
    <3>1. clientList[s] <= idle[s]
      BY <1>3, <2>5 DEF Sock
    <3>2. idle[s] = TIMEOUT
      BY <1>3, <2>5, <3>1, ConstantsAssumption DEF Absent
    <3> QED
      BY <2>5, <3>2
  <2> QED
    BY <1>1, <2>1, <2>2, <2>3, <2>4, <2>5 DEF Open, Closed
<1>5. Sock(s)'
  BY <1>1, <1>3, <1>4 DEF Sock, Open, Closed, Doomed
<1>6. \A u \in Sockets \ {s} : Same(u)
  BY <1>1 DEF Same, Doomed
<1>7. \A u \in Sockets : Sock(u)'
  BY <1>5, <1>6, SockSame DEF IInv
<1>8. \A d \in Connections : Conn(d)' /\ Covered(d)'
  BY <1>1 DEF IInv, Conn, Covered, Open, Listed
<1> QED
  BY <1>1, <1>2, <1>7, <1>8 DEF IInv

LEMMA RemoveKeeps ==
    ASSUME IInv, NEW s \in Sockets, Remove(s)
    PROVE  IInv'
<1>1. /\ sweep = "remove" /\ s \in list /\ list' = list \ {s}
      /\ clientList' = [clientList EXCEPT ![s] = Absent]
      /\ sweep' = "close" /\ current' = s
      /\ accepting' = accepting /\ socket' = socket /\ switch' = switch
      /\ modified' = modified /\ lost' = lost /\ todo' = todo
      /\ idle' = idle /\ missed' = missed
  BY DEF Remove, historyVars
<1>2. /\ clientList'[s] = Absent
      /\ \A u \in Sockets \ {s} : clientList'[u] = clientList[u]
  BY <1>1 DEF IInv, TypeOK
<1>3. TypeOK'
  BY <1>1 DEF IInv, TypeOK, SweepStates
<1>4. \A u \in Sockets \ {s} : Same(u)
  BY <1>1, <1>2 DEF Same, Doomed
<1>5. Sock(s)'
  <2>1. Sock(s) /\ idle[s] \in 0..TIMEOUT /\ s \notin todo
    BY <1>1 DEF IInv, TypeOK
  <2> QED
    BY <1>1, <1>2, <2>1, ConstantsAssumption DEF Sock, Open, Closed, Doomed, Absent
<1>6. \A u \in Sockets : Sock(u)'
  BY <1>4, <1>5, SockSame DEF IInv
<1>7. \A d \in Connections : Conn(d)'
  BY <1>1 DEF IInv, Conn
<1>8. \A d \in Connections : Covered(d)'
  BY <1>1, <1>2, Names DEF IInv, Covered, Open, Listed
<1> QED
  BY <1>1, <1>3, <1>6, <1>7, <1>8 DEF IInv

LEMMA CloseKeeps ==
    ASSUME IInv, CloseSwept
    PROVE  IInv'
<1>1. /\ sweep = "close" /\ sweep' = "remove" /\ current' = NoSocket
      /\ socket' = [socket EXCEPT ![current] = "closed"]
      /\ accepting' = accepting /\ switch' = switch /\ clientList' = clientList
      /\ modified' = modified /\ lost' = lost /\ todo' = todo /\ list' = list
      /\ idle' = idle /\ missed' = missed
  BY DEF CloseSwept, tableVars, historyVars
<1>2. current \in Sockets
  BY <1>1 DEF IInv, TypeOK
<1>3. TypeOK'
  BY <1>1 DEF IInv, TypeOK, SweepStates
<1>4. /\ socket'[current] = "closed"
      /\ \A u \in Sockets \ {current} : socket'[u] = socket[u]
  BY <1>1, <1>2 DEF IInv, TypeOK
<1>5. Sock(current) /\ socket[current] # "none"
  BY <1>1, <1>2 DEF IInv, Sock, Doomed, Open, Closed
<1>6. \A u \in Sockets : Sock(u)'
  <2>1. \A u \in Sockets \ {current} : Same(u)
    BY <1>1, <1>4 DEF Same, Doomed
  <2>2. \A u \in Sockets \ {current} : Sock(u)'
    BY <2>1, SockSame DEF IInv
  <2>3. \A u \in Sockets : u = current => Sock(u)'
    BY <1>1, <1>4, <1>5 DEF Sock, Open, Closed, Doomed
  <2> QED
    BY <2>2, <2>3
<1>7. \A d \in Connections : Conn(d)'
  BY <1>1, <1>4, <1>5, Names DEF IInv, Conn
<1>8. \A d \in Connections : Covered(d)'
  BY <1>1, <1>4, Names DEF IInv, Covered, Open, Listed
<1> QED
  BY <1>1, <1>3, <1>6, <1>7, <1>8 DEF IInv

\* An entry does not age faster than its socket.
LEMMA TickKeeps ==
    ASSUME IInv, Tick
    PROVE  IInv'
<1>1. /\ clientList' = [s \in Sockets |->
                          IF s \in Listed THEN Older(clientList[s], TIMEOUT) ELSE Absent]
      /\ idle' = [s \in Sockets |-> IF Open(s) THEN Older(idle[s], TIMEOUT) ELSE idle[s]]
      /\ accepting' = accepting /\ socket' = socket /\ switch' = switch
      /\ modified' = modified /\ lost' = lost
      /\ sweep' = sweep /\ todo' = todo /\ list' = list /\ current' = current
      /\ missed' = missed
  BY DEF Tick, sweepVars
<1>2. \A s \in Sockets :
          /\ idle[s] \in 0..TIMEOUT /\ clientList[s] \in {Absent} \cup 0..TIMEOUT
          /\ Sock(s)
  BY DEF IInv, TypeOK
<1>3. \A s \in Sockets :
          /\ clientList[s] = Absent => clientList'[s] = Absent
          /\ clientList[s] # Absent => clientList'[s] = Older(clientList[s], TIMEOUT)
          /\ idle'[s] = IF Open(s) THEN Older(idle[s], TIMEOUT) ELSE idle[s]
  BY <1>1 DEF Listed
<1>4. \A a \in 0..TIMEOUT : Older(a, TIMEOUT) \in 0..TIMEOUT
  BY ConstantsAssumption DEF Older
<1>5. TypeOK'
  <2>1. \A s \in Sockets : idle'[s] \in 0..TIMEOUT /\ clientList'[s] \in {Absent} \cup 0..TIMEOUT
    BY <1>2, <1>3, <1>4
  <2>2. idle' \in [Sockets -> 0..TIMEOUT]
    BY <1>1, <2>1
  <2>3. clientList' \in [Sockets -> {Absent} \cup 0..TIMEOUT]
    BY <1>1, <2>1
  <2> QED
    BY <1>1, <2>2, <2>3 DEF IInv, TypeOK
<1>6. \A s \in Sockets : Sock(s)'
  <2> SUFFICES ASSUME NEW s \in Sockets
               PROVE  Sock(s)'
    OBVIOUS
  <2>1. Sock(s) /\ idle[s] \in 0..TIMEOUT /\ clientList[s] \in {Absent} \cup 0..TIMEOUT
    BY <1>2
  <2>2. idle[s] = TIMEOUT => idle'[s] = TIMEOUT
    BY <1>3, <2>1, ConstantsAssumption DEF Older
  <2>3. Open(s) /\ clientList[s] <= idle[s] => clientList'[s] <= idle'[s]
    <3>1. CASE clientList[s] = Absent
      BY <1>3, <1>4, <2>1, <3>1, ConstantsAssumption DEF Absent
    <3>2. CASE clientList[s] # Absent /\ Open(s)
      <4>1. clientList[s] \in 0..TIMEOUT
        BY <2>1, <3>2
      <4>2. /\ clientList'[s] = Older(clientList[s], TIMEOUT)
            /\ idle'[s] = Older(idle[s], TIMEOUT)
        BY <1>3, <3>2
      <4> QED
        BY <2>1, <4>1, <4>2, ConstantsAssumption DEF Older
    <3> QED
      BY <3>1, <3>2
  <2> QED
    BY <1>1, <1>3, <2>1, <2>2, <2>3 DEF Sock, Open, Closed, Doomed
<1>7. \A d \in Connections : Conn(d)'
  BY <1>1 DEF IInv, Conn
<1>8. \A d \in Connections : Covered(d)'
  <2>1. \A s \in Sockets : s \in Listed => s \in Listed'
    <3>1. \A a \in 0..TIMEOUT : Older(a, TIMEOUT) # Absent
      BY <1>4, ConstantsAssumption DEF Absent
    <3> QED
      BY <1>2, <1>3, <3>1 DEF Listed
  <2> QED
    BY <1>1, <2>1, Names DEF IInv, Covered, Open
<1> QED
  BY <1>1, <1>5, <1>6, <1>7, <1>8 DEF IInv

LEMMA InvStep == IInv /\ [Next]_vars => IInv'
<1> SUFFICES ASSUME IInv, [Next]_vars
             PROVE  IInv'
  OBVIOUS
<1>1. ASSUME NEW c \in Connections, Accept(c) \/ AcceptStep(c)
      PROVE  IInv'
  BY <1>1, AcceptKeeps, PutAcceptedKeeps, ConnectKeeps, StartKeeps DEF AcceptStep
<1>2. ASSUME NEW s \in Sockets, SwitchStep(s) \/ ReadData(s) \/ ReadEnds(s)
      PROVE  IInv'
  BY <1>2, SwitchKeeps
<1>3. CASE SweepStep
  BY <1>3, SweepPartKeeps, ExamineKeeps, RemoveKeeps, CloseKeeps DEF SweepStep
<1>4. CASE Tick
  BY <1>4, TickKeeps
<1>5. CASE UNCHANGED vars
  <2>1. /\ accepting' = accepting /\ socket' = socket /\ switch' = switch
        /\ clientList' = clientList /\ modified' = modified /\ lost' = lost
        /\ sweep' = sweep /\ todo' = todo /\ list' = list /\ current' = current
        /\ idle' = idle /\ missed' = missed
    BY <1>5 DEF vars, tableVars, sweepVars, historyVars
  <2>2. TypeOK'
    BY <2>1 DEF IInv, TypeOK
  <2>3. \A s \in Sockets : Sock(s)'
    BY <2>1 DEF IInv, Sock, Open, Closed, Doomed
  <2>4. \A c \in Connections : Conn(c)' /\ Covered(c)'
    BY <2>1 DEF IInv, Conn, Covered, Open, Listed
  <2> QED
    BY <2>1, <2>2, <2>3, <2>4 DEF IInv
<1> QED
  BY <1>1, <1>2, <1>3, <1>4, <1>5 DEF Next

-----------------------------------------------------------------------------

\* Every variable keeps its type, and the sweep what it holds in each of its parts
\* (EncryptedForward!TypeOK).
THEOREM TypeCorrect == Spec => []TypeOK
<1>1. IInv => TypeOK
  BY DEF IInv
<1> QED
  BY <1>1, InvInit, InvStep, PTL DEF Spec

\* An open client socket has an entry from its first put on, unless an overlapping
\* insertion has lost it or the sweep is just closing it
\* (EncryptedForward!TimeoutCovers).
THEOREM TimeoutReaches == Spec => []TimeoutCovers
<1>1. IInv => TimeoutCovers
  BY DEF IInv, Covered, TimeoutCovers
<1> QED
  BY <1>1, InvInit, InvStep, PTL DEF Spec

\* The sweep closes an open socket only if nothing was read from it for TIMEOUT ticks,
\* or if the last read had not been put when the sweep examined it
\* (EncryptedForward!SweepSpares).
THEOREM ActiveSpared == Spec => SweepSpares
<1>1. IInv /\ [Next]_vars =>
          [CloseSwept /\ Open(current) => idle[current] = TIMEOUT \/ current \in missed]_vars
  <2> SUFFICES ASSUME IInv, CloseSwept, Open(current)
               PROVE  idle[current] = TIMEOUT \/ current \in missed
    OBVIOUS
  <2>1. sweep = "close" /\ current \in Sockets
    BY DEF CloseSwept, IInv, TypeOK
  <2> QED
    BY <2>1 DEF IInv, Sock, Doomed, Open, Closed
<1> QED
  BY <1>1, InvInit, InvStep, PTL DEF Spec, SweepSpares

=============================================================================
