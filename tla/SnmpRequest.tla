---------------------------- MODULE SnmpRequest ----------------------------
(***************************************************************************)
(* snmp4j.invokeRaw: one SNMP request over a datagram socket of its own,   *)
(* with a thread that receives the answer and a caller that waits for that *)
(* thread no longer than its time-out.                                     *)
(*                                                                         *)
(* Several callers may be at it at once, and the agent they ask is one:    *)
(* a packet for the port of a request that is over reaches the socket that *)
(* has the port now.  Packets are lost, repeated, delayed and reordered.   *)
(*                                                                         *)
(* The thread does not decode the packet, it searches it for bytes: the    *)
(* four of its request id after 02 04, and those of the name it asked for. *)
(* A packet is what such a search finds in it.  The agent writes an answer *)
(* afresh, so an id it writes in fewer bytes is not found; nor is a name   *)
(* that it writes in other bytes.  (That those bytes occur elsewhere in    *)
(* the packet by accident is left out.)                                    *)
(***************************************************************************)
EXTENDS Integers, FiniteSets

CONSTANTS
    Requests,   \* calls of invokeRaw
    GetNext,    \* the ones with isGetNext
    Ports,      \* local ports the system hands out
    Ids,        \* request ids: what Random().nextInt() returns
    Short,      \* the ids with nine equal leading bits, which need fewer than four bytes
    Objects,    \* names in the agent's tree, as they are asked for and answered
    Within,     \* <<n, m>>: the bytes the program writes for m occur in the agent's n
    MaxPackets  \* bound: answers on their way at the same time

ASSUME RequestsAssumption ==
    /\ GetNext \subseteq Requests
    /\ Short \subseteq Ids
    /\ Within \subseteq Objects \X Objects
    /\ MaxPackets \in Nat

Nothing == "nothing"   \* no port, no id, no name

VARIABLES
    caller,   \* control state of invokeRaw
    thread,   \* control state of the receiving thread
    port,     \* local port of the request's socket
    id,       \* requestId: four bytes at random, the same for two calls by chance
    oid,      \* the object asked for
    open,     \* requests whose socket is open
    ready,    \* requests whose thread has put ReadyKey
    packet,   \* what the thread has received: an answer, or {} before
    value,    \* what the thread has put under ValueKey: the answer it read, or {}
    result,   \* what invokeRaw returns: an answer, or {} for null
    asked,    \* requests sent, which may reach the agent any number of times, or never
    net,      \* answers on their way back
    leaked,   \* history: requests that ended in an exception of send
    late      \* history: requests whose join timed out with the thread still running

callVars == <<port, id, oid>>
netVars == <<asked, net>>
historyVars == <<leaked, late>>
vars == <<caller, thread, callVars, open, ready, packet, value, result, netVars, historyVars>>

\* An answer: the port it goes to, the request it was made for (which the packet does not
\* say), the ids and the name found in it, and whether its value is an integer.
Answers ==
    [to : Ports, of : Requests, ids : SUBSET Ids, name : Objects, integer : BOOLEAN]

Init ==
    /\ caller = [r \in Requests |-> "new"]
    /\ thread = [r \in Requests |-> "none"]
    /\ port = [r \in Requests |-> Nothing]
    /\ id = [r \in Requests |-> Nothing]
    /\ oid = [r \in Requests |-> Nothing]
    /\ open = {} /\ ready = {}
    /\ packet = [r \in Requests |-> {}]
    /\ value = [r \in Requests |-> {}]
    /\ result = [r \in Requests |-> {}]
    /\ asked = {} /\ net = {}
    /\ leaked = {} /\ late = {}

-----------------------------------------------------------------------------
(* The caller.                                                             *)

CallerGoes(r, from, to) ==
    /\ caller[r] = from
    /\ caller' = [caller EXCEPT ![r] = to]

\* What the request is and which socket it has, once that is decided.
Asks(r, p, i, o) ==
    /\ port' = [port EXCEPT ![r] = p]
    /\ id' = [id EXCEPT ![r] = i]
    /\ oid' = [oid EXCEPT ![r] = o]

\* Mutant of Open: a port that another socket has.
OpenShared(r) ==
    /\ CallerGoes(r, "new", "waitReady")
    /\ \E p \in Ports, i \in Ids, o \in Objects : Asks(r, p, i, o)
    /\ open' = open \cup {r}
    /\ thread' = [thread EXCEPT ![r] = "start"]
    /\ UNCHANGED <<ready, packet, value, result, netVars, historyVars>>

\* The request is put together; new DatagramSocket() and thread.start().
Open(r) ==
    /\ CallerGoes(r, "new", "waitReady")
    /\ \E p \in Ports, i \in Ids, o \in Objects :
          /\ \A q \in open : port[q] # p
          /\ Asks(r, p, i, o)
    /\ open' = open \cup {r}
    /\ thread' = [thread EXCEPT ![r] = "start"]
    /\ UNCHANGED <<ready, packet, value, result, netVars, historyVars>>

SeeReady(r) ==
    /\ CallerGoes(r, "waitReady", "send")
    /\ r \in ready
    /\ UNCHANGED <<thread, callVars, open, ready, packet, value, result, netVars, historyVars>>

Send(r) ==
    /\ CallerGoes(r, "send", "join")
    /\ asked' = asked \cup {r}
    /\ UNCHANGED <<thread, callVars, open, ready, packet, value, result, net, historyVars>>

\* InetAddress.getByName or send throws: the catch block leaves the socket open.
SendFails(r) ==
    /\ CallerGoes(r, "send", "done")
    /\ leaked' = leaked \cup {r}
    /\ UNCHANGED <<thread, callVars, open, ready, packet, value, result, netVars, late>>

\* Mutant of Join: the caller does not wait.
JoinForgotten(r) ==
    /\ CallerGoes(r, "join", "read")
    /\ UNCHANGED <<thread, callVars, open, ready, packet, value, result, netVars, historyVars>>

\* thread.join(timeout): the thread has ended, or the time is up.
Join(r) ==
    /\ CallerGoes(r, "join", "read")
    /\ late' = IF thread[r] = "done" THEN late ELSE late \cup {r}
    /\ UNCHANGED <<thread, callVars, open, ready, packet, value, result, netVars, leaked>>

\* has(ValueKey), getInt(ValueKey).  After a time-out nothing orders them after the put of
\* the thread, which may be about to come, or have come and not be seen.
ReadValue(r) ==
    /\ CallerGoes(r, "read", "close")
    /\ \E seen \in IF r \in late THEN {{}, value[r]} ELSE {value[r]} :
          result' = [result EXCEPT ![r] = seen]
    /\ UNCHANGED <<thread, callVars, open, ready, packet, value, netVars, historyVars>>

\* Mutant of Close: the socket stays open.
CloseForgotten(r) ==
    /\ CallerGoes(r, "close", "done")
    /\ UNCHANGED <<thread, callVars, open, ready, packet, value, result, netVars, historyVars>>

Close(r) ==
    /\ CallerGoes(r, "close", "done")
    /\ open' = open \ {r}
    /\ UNCHANGED <<thread, callVars, ready, packet, value, result, netVars, historyVars>>

CallerStep(r) ==
    \/ SeeReady(r) \/ Send(r) \/ SendFails(r) \/ Join(r) \/ ReadValue(r) \/ Close(r)

-----------------------------------------------------------------------------
(* The receiving thread.                                                   *)

ThreadGoes(r, from, to) ==
    /\ thread[r] = from
    /\ thread' = [thread EXCEPT ![r] = to]

\* Mutant of PutReady: the key is not put.
PutReadyForgotten(r) ==
    /\ ThreadGoes(r, "start", "receive")
    /\ UNCHANGED <<caller, callVars, open, ready, packet, value, result, netVars, historyVars>>

PutReady(r) ==
    /\ ThreadGoes(r, "start", "receive")
    /\ ready' = ready \cup {r}
    /\ UNCHANGED <<caller, callVars, open, packet, value, result, netVars, historyVars>>

\* The network may deliver a packet again.
Delivered(a) == net' \in {net, net \ {a}}

\* Whatever comes from the agent to the port ends the loop.
Receive(r, a) ==
    /\ ThreadGoes(r, "receive", "got")
    /\ r \in open /\ a \in net /\ a.to = port[r]
    /\ Delivered(a)
    /\ packet' = [packet EXCEPT ![r] = {a}]
    /\ UNCHANGED <<caller, callVars, open, ready, value, result, asked, historyVars>>

\* Mutant of Matches: the whole name is compared.
MatchesWholeName(r, a) == id[r] \in a.ids /\ a.name = oid[r]

\* The bytes of the request id are in the packet, and those of the name asked for as well:
\* it is about that name or one below it.
Matches(r, a) == id[r] \in a.ids /\ <<a.name, oid[r]>> \in Within

\* The thread puts the value if the packet matches and it is an integer, and leaves.
Examine(r) ==
    /\ ThreadGoes(r, "got", "done")
    /\ value' = [value EXCEPT ![r] = {a \in packet[r] : Matches(r, a) /\ a.integer}]
    /\ UNCHANGED <<caller, callVars, open, ready, packet, result, netVars, historyVars>>

ReceiveThrows(r) ==
    /\ ThreadGoes(r, "receive", "done")
    /\ r \notin open
    /\ UNCHANGED <<caller, callVars, open, ready, packet, value, result, netVars, historyVars>>

ThreadStep(r) == PutReady(r) \/ Examine(r) \/ ReceiveThrows(r)

-----------------------------------------------------------------------------
(* The network and the agent.                                              *)

\* The agent answers a Get with the name asked for, a GetNext with another one, or with the
\* same and no value at the end of its tree.
Agent(r) ==
    /\ r \in asked /\ Cardinality(net) < MaxPackets
    /\ \E a \in [to : {port[r]}, of : {r}, ids : {{}, {id[r]}}, name : Objects, integer : BOOLEAN] :
          /\ r \in GetNext /\ a.integer => a.name # oid[r]
          /\ r \notin GetNext => a.name = oid[r]
          /\ a.ids = {} => id[r] \in Short
          /\ net' = net \cup {a}
    /\ UNCHANGED <<caller, thread, callVars, open, ready, packet, value, result, asked, historyVars>>

\* An answer is lost.
Lose ==
    /\ \E a \in net : net' = net \ {a}
    /\ UNCHANGED <<caller, thread, callVars, open, ready, packet, value, result, asked, historyVars>>

-----------------------------------------------------------------------------

Next ==
    \/ \E r \in Requests :
          \/ Open(r) \/ CallerStep(r) \/ ThreadStep(r) \/ Agent(r)
          \/ \E a \in net : Receive(r, a)
    \/ Lose

Spec == Init /\ [][Next]_vars

\* Both threads are scheduled and the time-out of join passes.  Nothing is assumed
\* about the network and the agent.
Fairness == \A r \in Requests : WF_vars(CallerStep(r)) /\ WF_vars(ThreadStep(r))

FairSpec == Spec /\ Fairness

-----------------------------------------------------------------------------

TypeOK ==
    /\ caller \in [Requests -> {"new", "waitReady", "send", "join", "read", "close", "done"}]
    /\ thread \in [Requests -> {"none", "start", "receive", "got", "done"}]
    /\ port \in [Requests -> Ports \cup {Nothing}]
    /\ id \in [Requests -> Ids \cup {Nothing}]
    /\ oid \in [Requests -> Objects \cup {Nothing}]
    /\ open \subseteq Requests /\ ready \subseteq Requests
    /\ \A q, r \in open : port[q] = port[r] => q = r
    /\ \A r \in Requests :
          packet[r] \subseteq Answers /\ value[r] \subseteq packet[r] /\ result[r] \in {{}, value[r]}
    /\ asked \subseteq Requests /\ net \subseteq Answers
    /\ leaked \subseteq Requests /\ late \subseteq Requests

\* Names that the agent writes in other bytes than the program: some of those with a
\* sub-identifier that does not fit the two bytes of lines 144-146, as 32773, which is
\* sent as 80 05 and comes back as 05.
Respelled == {n \in Objects : <<n, n>> \notin Within}

\* Why request r may find nothing in packet a: it answers another request, which had the
\* port before; or it answers r, but the id or the name is written otherwise, or the object
\* after the one asked for lies outside its subtree.
Misleads(r, a) ==
    IF a.of # r THEN port[a.of] = port[r]
    ELSE \/ id[r] \in Short
         \/ oid[r] \in Respelled
         \/ r \in GetNext /\ <<a.name, oid[r]>> \notin Within

\* The thread gives up on a packet (the break of line 226) for these reasons only.  A Get
\* with four bytes of id and a plain name, on a port of its own, is ended by its answer.
MisledOnly ==
    \A r \in Requests : \A a \in packet[r] : Matches(r, a) \/ Misleads(r, a)

\* A call returns null only because send threw, the time was up before its thread had
\* ended, the one packet its thread took misled it, or the value was no integer: an answer
\* the thread has taken in time is never missed, however the two threads run.
NullExplained ==
    \A r \in Requests :
        caller[r] = "done" /\ result[r] = {} =>
            \/ r \in leaked \cup late
            \/ \E a \in packet[r] : Misleads(r, a) \/ ~a.integer

\* A call comes back although its answer may never come.
RequestEnds == \A r \in Requests : (caller[r] = "waitReady") ~> (caller[r] = "done")

\* The thread blocked in receive ends after its caller, which closes the socket under
\* it, except when send threw.
ReceiverEnds ==
    \A r \in Requests : (caller[r] = "done") ~> (thread[r] = "done" \/ r \in leaked)

=============================================================================
