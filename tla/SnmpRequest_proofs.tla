------------------------- MODULE SnmpRequest_proofs -------------------------
(***************************************************************************)
(* Theorems about SnmpRequest, for any sets of requests, ports, ids and    *)
(* objects, and whatever the program's bytes of a name occur in.           *)
(***************************************************************************)
EXTENDS SnmpRequest, TLAPS

CallerStates == {"new", "waitReady", "send", "join", "read", "close", "done"}
ThreadStates == {"none", "start", "receive", "got", "done"}

\* The types of the variables: TypeOK without what it says of ports and results.
Types ==
    /\ caller \in [Requests -> CallerStates]
    /\ thread \in [Requests -> ThreadStates]
    /\ port \in [Requests -> Ports \cup {Nothing}]
    /\ id \in [Requests -> Ids \cup {Nothing}]
    /\ oid \in [Requests -> Objects \cup {Nothing}]
    /\ open \subseteq Requests /\ ready \subseteq Requests
    /\ packet \in [Requests -> SUBSET Answers]
    /\ value \in [Requests -> SUBSET Answers]
    /\ result \in [Requests -> SUBSET Answers]
    /\ asked \subseteq Requests /\ net \subseteq Answers
    /\ leaked \subseteq Requests /\ late \subseteq Requests

PortsOwn == \A q, r \in open : port[q] = port[r] => q = r

\* What request r is, is decided when its thread is started.
Settled(r) ==
    IF caller[r] = "new" THEN thread[r] = "none"
    ELSE port[r] \in Ports /\ id[r] \in Ids /\ oid[r] \in Objects

\* The thread takes one packet and puts what it reads in it.  It ends without one only
\* when the caller, which leaves last, has closed the socket.
Taken(r) ==
    /\ thread[r] \in {"none", "start", "receive"} => packet[r] = {}
    /\ thread[r] = "got" => packet[r] # {}
    /\ thread[r] = "done" /\ packet[r] = {} => caller[r] = "done"
    /\ value[r] = IF thread[r] = "done" THEN {a \in packet[r] : Matches(r, a) /\ a.integer}
                  ELSE {}
    /\ caller[r] \notin {"new", "done"} => r \in open

\* A caller that did not run out of time has waited for its thread, which has taken a
\* packet, and returns what it put.
Waited(r) ==
    /\ result[r] \in {{}, value[r]}
    /\ caller[r] \in {"read", "close", "done"} /\ r \notin leaked \cup late =>
          /\ thread[r] = "done" /\ packet[r] # {}
          /\ caller[r] # "read" => result[r] = value[r]

\* An answer was made for a request that has been sent, is addressed to the port of that
\* request, names its object unless it was a GetNext, and carries its id, which is found
\* unless it is short.
Made(a) ==
    /\ caller[a.of] # "new"
    /\ a.to = port[a.of]
    /\ a.of \notin GetNext => a.name = oid[a.of]
    /\ id[a.of] \in a.ids \cup Short

IInv ==
    /\ Types
    /\ PortsOwn
    /\ \A r \in Requests : Settled(r) /\ Taken(r) /\ Waited(r)
    /\ \A r \in asked : caller[r] # "new"
    /\ \A a \in net : Made(a)
    /\ \A r \in Requests : \A a \in packet[r] : Made(a) /\ a.to = port[r]

-----------------------------------------------------------------------------

LEMMA AnswerFields ==
    \A a \in Answers :
        a.to \in Ports /\ a.of \in Requests /\ a.ids \subseteq Ids /\ a.name \in Objects
  BY DEF Answers

\* Nothing that IInv says of the packets is disturbed by a step after which what was asked
\* is asked still, and the packets that are new were made for what was asked.
LEMMA PacketsKept ==
    ASSUME IInv, Types',
           \A q \in Requests : caller[q] # "new" =>
               /\ caller'[q] # "new"
               /\ port'[q] = port[q] /\ id'[q] = id[q] /\ oid'[q] = oid[q],
           \A q \in asked' : q \in asked \/ caller'[q] # "new",
           \A a \in net' : a \in net \/ Made(a)',
           \A q \in Requests : \A a \in packet'[q] :
               a \in packet[q] \/ (a \in net /\ caller[q] # "new" /\ a.to = port[q])
    PROVE  /\ \A q \in asked' : caller'[q] # "new"
           /\ \A a \in net' : Made(a)'
           /\ \A q \in Requests : \A a \in packet'[q] : Made(a)' /\ a.to = port'[q]
<1>1. \A q \in asked' : caller'[q] # "new"
  BY DEF IInv, Types
<1>2. ASSUME NEW a \in Answers, Made(a)
      PROVE  Made(a)'
  BY <1>2, AnswerFields DEF Made
<1>3. \A a \in net' : Made(a)'
  BY <1>2 DEF IInv, Types
<1>4. ASSUME NEW q \in Requests, NEW a \in packet'[q]
      PROVE  Made(a)' /\ a.to = port'[q]
  <2>1. a \in Answers /\ Made(a) /\ a.to = port[q]
    BY <1>4 DEF IInv, Types
  <2>2. caller[q] # "new"
    BY <1>4 DEF IInv, Settled, Taken
  <2> QED
    BY <1>2, <2>1, <2>2
<1> QED
  BY <1>1, <1>3, <1>4

LEMMA InvInit == Init => IInv
  BY DEF Init, IInv, Types, PortsOwn, Settled, Taken, Waited, CallerStates, ThreadStates

LEMMA OpenKeeps ==
    ASSUME IInv, NEW r \in Requests, Open(r)
    PROVE  IInv'
<1>1. PICK p \in Ports, i \in Ids, o \in Objects :
          /\ \A q \in open : port[q] # p
          /\ port' = [port EXCEPT ![r] = p]
          /\ id' = [id EXCEPT ![r] = i]
          /\ oid' = [oid EXCEPT ![r] = o]
  BY DEF Open, Asks
<1>2. /\ caller[r] = "new" /\ caller' = [caller EXCEPT ![r] = "waitReady"]
      /\ open' = open \cup {r} /\ thread' = [thread EXCEPT ![r] = "start"]
      /\ ready' = ready /\ packet' = packet /\ value' = value /\ result' = result
      /\ asked' = asked /\ net' = net /\ leaked' = leaked /\ late' = late
  BY DEF Open, CallerGoes, netVars, historyVars
<1>3. Types'
  BY <1>1, <1>2 DEF IInv, Types, CallerStates, ThreadStates
<1>4. PortsOwn'
  BY <1>1, <1>2 DEF IInv, Types, PortsOwn
<1>5. Settled(r) /\ Taken(r) /\ Waited(r) /\ thread[r] = "none"
  BY <1>2 DEF IInv, Settled
<1>6. (Settled(r) /\ Taken(r) /\ Waited(r))'
  BY <1>1, <1>2, <1>5 DEF IInv, Types, Settled, Taken, Waited
<1>7. ASSUME NEW q \in Requests \ {r}
      PROVE  (Settled(q) /\ Taken(q) /\ Waited(q))'
  BY <1>1, <1>2 DEF IInv, Types, Settled, Taken, Waited, Matches
<1>8. \A q \in Requests : caller[q] # "new" =>
          /\ caller'[q] # "new"
          /\ port'[q] = port[q] /\ id'[q] = id[q] /\ oid'[q] = oid[q]
  BY <1>1, <1>2 DEF IInv, Types
<1>9. \A q \in Requests : (Settled(q) /\ Taken(q) /\ Waited(q))'
  BY <1>6, <1>7
<1> QED
  BY <1>2, <1>3, <1>4, <1>8, <1>9, PacketsKept DEF IInv

LEMMA CallerKeeps ==
    ASSUME IInv, NEW r \in Requests, CallerStep(r)
    PROVE  IInv'
<1> USE DEF SeeReady, Send, SendFails, Join, ReadValue, Close, callVars, netVars, historyVars
<1>1. PICK to \in CallerStates \ {"new"} : caller' = [caller EXCEPT ![r] = to]
  BY DEF CallerStep, CallerGoes, CallerStates
<1>2. /\ thread' = thread /\ port' = port /\ id' = id /\ oid' = oid
      /\ ready' = ready /\ packet' = packet /\ value' = value /\ net' = net
      /\ caller[r] \notin {"new", "done"}
  BY DEF CallerStep, CallerGoes
<1>3. /\ open' \in {open, open \ {r}} /\ asked' \subseteq asked \cup {r}
      /\ leaked' \in {leaked, leaked \cup {r}} /\ late' \in {late, late \cup {r}}
  BY DEF CallerStep
<1>4. \E seen \in {result[r], {}, value[r]} : result' = [result EXCEPT ![r] = seen]
  BY DEF CallerStep, IInv, Types
<1>5. Types'
  BY <1>1, <1>2, <1>3, <1>4 DEF IInv, Types
<1>6. PortsOwn'
  BY <1>2, <1>3 DEF IInv, PortsOwn
<1>7. ASSUME NEW q \in Requests \ {r}
      PROVE  (Settled(q) /\ Taken(q) /\ Waited(q))'
  <2>1. Settled(q) /\ Taken(q) /\ Waited(q)
    BY DEF IInv
  <2>2. caller'[q] = caller[q] /\ result'[q] = result[q]
    BY <1>1, <1>4 DEF IInv, Types
  <2>3. /\ q \in open' <=> q \in open
        /\ q \in leaked' <=> q \in leaked
        /\ q \in late' <=> q \in late
    BY <1>3
  <2> QED
    BY <1>2, <2>1, <2>2, <2>3 DEF Settled, Taken, Waited, Matches
<1>8. Settled(r) /\ Taken(r) /\ Waited(r) /\ caller'[r] = to /\ r \in open
  BY <1>1, <1>2 DEF IInv, Types, Taken
<1>9. Settled(r)'
  BY <1>2, <1>8 DEF Settled, CallerStates
<1>10. Taken(r)'
  <2>1. caller'[r] # "done" => r \in open'
    BY <1>1, <1>8 DEF CallerStep, CallerGoes, IInv, Types
  <2> QED
    BY <1>2, <1>8, <2>1 DEF Taken, Matches
<1>11. Waited(r)'
  <2>1. CASE SeeReady(r) \/ Send(r)
    BY <1>8, <2>1 DEF CallerGoes, Waited, IInv, Types
  <2>2. CASE SendFails(r)
    BY <1>8, <2>2 DEF Waited, IInv, Types
  <2>3. CASE Join(r)
    BY <1>2, <1>8, <2>3 DEF CallerGoes, Waited, Taken, IInv, Types
  <2>4. CASE ReadValue(r)
    <3>1. caller[r] = "read" /\ leaked' = leaked /\ late' = late
      BY <2>4 DEF CallerGoes
    <3>2. result'[r] \in {{}, value[r]}
      BY <2>4 DEF IInv, Types
    <3>3. r \notin late => result'[r] = value[r]
      BY <2>4 DEF IInv, Types
    <3> QED
      BY <1>2, <1>8, <3>1, <3>2, <3>3 DEF Waited
  <2>5. CASE Close(r)
    BY <1>8, <2>5 DEF CallerGoes, Waited, IInv, Types
  <2> QED
    BY <2>1, <2>2, <2>3, <2>4, <2>5 DEF CallerStep
<1>12. \A q \in Requests : (Settled(q) /\ Taken(q) /\ Waited(q))'
  BY <1>7, <1>9, <1>10, <1>11
<1>13. \A q \in Requests : caller[q] # "new" => caller'[q] # "new"
  BY <1>1 DEF IInv, Types
<1>14. \A q \in asked' : q \in asked \/ caller'[q] # "new"
  BY <1>3, <1>8
<1> QED
  BY <1>2, <1>5, <1>6, <1>12, <1>13, <1>14, PacketsKept DEF IInv

\* The steps of the receiving thread.
LEMMA ThreadKeeps ==
    ASSUME IInv, NEW r \in Requests, ThreadStep(r) \/ \E a \in net : Receive(r, a)
    PROVE  IInv'
<1> USE DEF PutReady, Receive, Examine, ReceiveThrows, callVars, netVars, historyVars
<1>1. PICK to \in {"receive", "got", "done"} :
          thread' = [thread EXCEPT ![r] = to] /\ thread[r] \notin {"none", "done"}
  BY DEF ThreadStep, ThreadGoes
<1>2. /\ caller' = caller /\ port' = port /\ id' = id /\ oid' = oid /\ open' = open
      /\ result' = result /\ asked' = asked /\ net' \subseteq net /\ leaked' = leaked
      /\ late' = late /\ ready' \subseteq ready \cup {r}
  BY DEF ThreadStep, Delivered
<1>3. PICK new \in SUBSET Answers :
          /\ packet' = [packet EXCEPT ![r] = new]
          /\ new = packet[r] \/ \E a \in net : a.to = port[r] /\ new = {a}
  BY DEF ThreadStep, IInv, Types
<1>4. PICK put \in SUBSET Answers : value' = [value EXCEPT ![r] = put] /\ put \in SUBSET packet'[r]
  <2>1. value = [value EXCEPT ![r] = value[r]] /\ value[r] = {}
    BY <1>1 DEF IInv, Types, Taken
  <2>2. CASE value' = value
    BY <2>1, <2>2
  <2>3. CASE Examine(r)
    <3> DEFINE put == {a \in packet[r] : Matches(r, a) /\ a.integer}
    <3>1. packet' = packet /\ packet[r] \subseteq Answers
      BY <2>3 DEF IInv, Types
    <3>2. put \in SUBSET Answers /\ put \in SUBSET packet'[r]
      BY <3>1
    <3>3. value' = [value EXCEPT ![r] = put]
      BY <2>3
    <3> HIDE DEF put
    <3> QED
      BY <3>2, <3>3
  <2> QED
    BY <2>2, <2>3 DEF ThreadStep
<1>5. Types'
  BY <1>1, <1>2, <1>3, <1>4 DEF IInv, Types, ThreadStates
<1>6. PortsOwn'
  BY <1>2 DEF IInv, PortsOwn
<1>7. ASSUME NEW q \in Requests \ {r}
      PROVE  (Settled(q) /\ Taken(q) /\ Waited(q))'
  BY <1>1, <1>2, <1>3, <1>4 DEF IInv, Types, Settled, Taken, Waited, Matches
<1>8. /\ Settled(r) /\ Taken(r) /\ Waited(r) /\ thread'[r] = to
      /\ caller[r] # "new" /\ value[r] = {} /\ result[r] = {}
  BY <1>1 DEF IInv, Types, Settled, Taken, Waited
<1>9. Taken(r)'
  <2>1. CASE PutReady(r)
    BY <1>2, <1>8, <2>1 DEF ThreadGoes, Taken, IInv, Types
  <2>2. CASE Examine(r)
    BY <1>2, <1>8, <2>2 DEF ThreadGoes, Taken, Matches, IInv, Types
  <2>3. CASE ReceiveThrows(r)
    BY <1>2, <1>8, <2>3 DEF ThreadGoes, Taken, IInv, Types
  <2>4. CASE \E a \in net : Receive(r, a)
    BY <1>2, <1>8, <2>4 DEF ThreadGoes, Taken, IInv, Types
  <2> QED
    BY <2>1, <2>2, <2>3, <2>4 DEF ThreadStep
<1>10. (Settled(r) /\ Waited(r))'
  BY <1>1, <1>2, <1>8 DEF Settled, Waited
<1>11. \A q \in Requests : (Settled(q) /\ Taken(q) /\ Waited(q))'
  BY <1>7, <1>9, <1>10
<1>12. \A q \in Requests : \A a \in packet'[q] :
          a \in packet[q] \/ (a \in net /\ caller[q] # "new" /\ a.to = port[q])
  BY <1>3, <1>8 DEF IInv, Types
<1> QED
  BY <1>2, <1>5, <1>6, <1>11, <1>12, PacketsKept DEF IInv

LEMMA NetworkKeeps ==
    ASSUME IInv, Lose \/ \E r \in Requests : Agent(r)
    PROVE  IInv'
<1>1. /\ caller' = caller /\ thread' = thread /\ port' = port /\ id' = id /\ oid' = oid
      /\ open' = open /\ ready' = ready /\ packet' = packet /\ value' = value
      /\ result' = result /\ leaked' = leaked /\ late' = late /\ asked' \subseteq asked
  BY DEF Lose, Agent, callVars, historyVars
<1>2. \A a \in net' : a \in net \/ (a \in Answers /\ Made(a)')
  <2>1. CASE Lose
    BY <2>1 DEF Lose
  <2>2. ASSUME NEW r \in Requests, Agent(r)
        PROVE  \A a \in net' : a \in net \/ (a \in Answers /\ Made(a)')
    <3>1. caller[r] # "new" /\ port[r] \in Ports /\ id[r] \in Ids
      BY <2>2 DEF Agent, IInv, Settled
    <3>2. PICK a \in [to : {port[r]}, of : {r}, ids : {{}, {id[r]}}, name : Objects,
                      integer : BOOLEAN] :
              /\ r \notin GetNext => a.name = oid[r]
              /\ a.ids = {} => id[r] \in Short
              /\ net' = net \cup {a}
      BY <2>2 DEF Agent
    <3>3. a \in Answers
      BY <3>1, <3>2 DEF Answers
    <3>4. a.to = port[r] /\ a.of = r /\ (a.ids = {} \/ a.ids = {id[r]})
      BY <3>2
    <3>5. Made(a)'
      BY <1>1, <3>1, <3>2, <3>4 DEF Made
    <3> QED
      BY <3>2, <3>3, <3>5
  <2> QED
    BY <2>1, <2>2
<1>3. Types'
  BY <1>1, <1>2 DEF IInv, Types
<1>4. PortsOwn' /\ \A q \in Requests : (Settled(q) /\ Taken(q) /\ Waited(q))'
  <2>1. PortsOwn'
    BY <1>1 DEF IInv, PortsOwn
  <2>2. ASSUME NEW q \in Requests
        PROVE  (Settled(q) /\ Taken(q) /\ Waited(q))'
    <3>1. Settled(q) /\ Taken(q) /\ Waited(q)
      BY DEF IInv
    <3> QED
      BY <1>1, <3>1 DEF Settled, Taken, Waited, Matches
  <2> QED
    BY <2>1, <2>2
<1>5. /\ \A q \in Requests : caller[q] # "new" =>
            /\ caller'[q] # "new"
            /\ port'[q] = port[q] /\ id'[q] = id[q] /\ oid'[q] = oid[q]
      /\ \A q \in asked' : q \in asked \/ caller'[q] # "new"
      /\ \A q \in Requests : \A a \in packet'[q] :
            a \in packet[q] \/ (a \in net /\ caller[q] # "new" /\ a.to = port[q])
  BY <1>1
<1>6. /\ \A q \in asked' : caller'[q] # "new"
      /\ \A a \in net' : Made(a)'
      /\ \A q \in Requests : \A a \in packet'[q] : Made(a)' /\ a.to = port'[q]
  BY <1>2, <1>3, <1>5, PacketsKept
<1> QED
  BY <1>3, <1>4, <1>6 DEF IInv

LEMMA InvStep == IInv /\ [Next]_vars => IInv'
<1> SUFFICES ASSUME IInv, [Next]_vars
             PROVE  IInv'
  OBVIOUS
<1>1. CASE UNCHANGED vars
  BY <1>1 DEF vars, callVars, netVars, historyVars, IInv, Types, PortsOwn, Settled, Taken,
              Waited, Matches, Made
<1> QED
  BY <1>1, OpenKeeps, CallerKeeps, ThreadKeeps, NetworkKeeps DEF Next

-----------------------------------------------------------------------------

\* Every variable keeps its type, two open sockets never share a port, and a call
\* returns what its thread has put or nothing (SnmpRequest!TypeOK).
THEOREM TypeCorrect == Spec => []TypeOK
<1>1. IInv => TypeOK
  BY DEF IInv, Types, PortsOwn, Taken, Waited, TypeOK, CallerStates, ThreadStates
<1> QED
  BY <1>1, InvInit, InvStep, PTL DEF Spec

LEMMA InvMisled == IInv => MisledOnly
  BY AnswerFields DEF IInv, Types, Made, Matches, MisledOnly, Misleads, Respelled, Settled, Taken

\* What makes a receiving thread give up on a packet (the break of snmp4j line 226) is a
\* port used again, an id or a name that the agent writes in other bytes than the program,
\* or the end of the subtree of a GetNext (SnmpRequest!MisledOnly).
THEOREM MisledByCauses == Spec => []MisledOnly
  BY InvMisled, InvInit, InvStep, PTL DEF Spec

\* However the caller and its thread run, and whatever the network does: a call that did
\* not run out of time returns null only for what was in the packet its thread took, or
\* because send threw (SnmpRequest!NullExplained).
THEOREM NullIsExplained == Spec => []NullExplained
<1>1. IInv => NullExplained
  <2> SUFFICES ASSUME IInv, NEW r \in Requests, caller[r] = "done", result[r] = {},
                      r \notin leaked \cup late
               PROVE  \E a \in packet[r] : Misleads(r, a) \/ ~a.integer
    BY DEF NullExplained
  <2>1. /\ packet[r] # {}
        /\ {a \in packet[r] : Matches(r, a) /\ a.integer} = {}
    BY DEF IInv, Taken, Waited
  <2>2. \A a \in packet[r] : Matches(r, a) \/ Misleads(r, a)
    BY InvMisled DEF MisledOnly
  <2> QED
    BY <2>1, <2>2
<1> QED
  BY <1>1, InvInit, InvStep, PTL DEF Spec

=============================================================================
