-------------------------- MODULE EncryptedForward --------------------------
(***************************************************************************)
(* SimpleEncryptedForward: a relay of TCP connections whose idle           *)
(* connections a timer closes.                                             *)
(*                                                                         *)
(*   - the accept loop: one thread, which connects to the remote host      *)
(*     itself before it accepts again;                                     *)
(*   - two Switch threads per connection, one for each direction;          *)
(*   - AutoDestroy: a java.util.Timer that sweeps clientList, a plain      *)
(*     HashMap from sockets to the time of their last activity.            *)
(*                                                                         *)
(* All of these threads use clientList without a lock.  What that can do   *)
(* is modelled: an insertion that overlaps another structural change may   *)
(* be lost, and a sweep whose iterator meets a structural change may or    *)
(* may not notice it; if it does, the exception ends the timer for good.   *)
(*                                                                         *)
(* Time is counted in ticks.  The age of an entry is capped at TIMEOUT,    *)
(* beyond which nothing depends on it.  A sweep may start at any time: no  *)
(* property depends on the period of the timer, only on its starting again.*)
(***************************************************************************)
EXTENDS Integers, FiniteSets

CONSTANTS
    Connections,  \* client connections that may arrive
    TIMEOUT       \* ticks after which an entry has timed out

ASSUME ConstantsAssumption ==
    /\ IsFiniteSet(Connections)
    /\ TIMEOUT \in Nat \ {0}

\* The two sockets of a connection; a Switch is named by the one it reads.
Sides   == {"client", "remote"}
Sockets == Connections \X Sides
Client(c) == <<c, "client">>
Remote(c) == <<c, "remote">>
Peer(s)   == <<s[1], IF s[2] = "client" THEN "remote" ELSE "client">>

Absent == -1
NoSocket == <<>>

VARIABLES
    accepting,   \* control state of the accept loop for each connection
    socket,      \* "none", "open" or "closed"
    switch,      \* control state of each Switch
    clientList,  \* ticks since the entry was put, or Absent
    sweep,       \* control state of the TimerTask
    todo,        \* keys its iterator has still to return
    list,        \* sockets it has found closed or timed out
    current,     \* socket it has removed and is about to close
    modified,    \* clientList has changed structurally under its iterator
    idle,        \* history: ticks since data was last read from the socket
    missed,      \* history: sockets whose last read the sweep has not seen put
    lost         \* history: sockets whose insertion was lost

tableVars   == <<clientList, modified, lost>>
sweepVars   == <<sweep, todo, list, current>>
historyVars == <<idle, missed>>
vars == <<accepting, socket, switch, tableVars, sweepVars, historyVars>>

AcceptStates == {"new", "put", "connect", "startClient", "startRemote", "done", "failed"}
SwitchStates == {"none", "start", "read", "put", "write", "closeHost", "closeRemote", "done"}
SweepStates  == {"sleep", "scan", "remove", "close", "dead"}

Init ==
    /\ accepting = [c \in Connections |-> "new"]
    /\ socket = [s \in Sockets |-> "none"]
    /\ switch = [s \in Sockets |-> "none"]
    /\ clientList = [s \in Sockets |-> Absent]
    /\ sweep = "sleep"
    /\ todo = {} /\ list = {} /\ current = NoSocket
    /\ modified = FALSE
    /\ idle = [s \in Sockets |-> 0]
    /\ missed = {} /\ lost = {}

Listed == {s \in Sockets : clientList[s] # Absent}
Open(s)   == socket[s] = "open"
Closed(s) == socket[s] = "closed"

-----------------------------------------------------------------------------
(* clientList.put(s, new Date()).                                          *)

\* Sockets that some thread is about to insert.
Inserting ==
    {s \in Sockets : switch[s] = "put" \/ (s[2] = "client" /\ accepting[s[1]] = "put")}
        \ Listed

\* A HashMap is not made for two structural changes at once: one of them may vanish.
Overlapped(s) == Inserting \ {s} # {} \/ (sweep = "remove" /\ list # {})

\* Mutant of Put: putIfAbsent.
PutIfAbsent(s) ==
    /\ clientList' = IF s \in Listed THEN clientList ELSE [clientList EXCEPT ![s] = 0]
    /\ modified' = (modified \/ s \notin Listed)
    /\ UNCHANGED lost

Put(s) ==
    \/ /\ clientList' = [clientList EXCEPT ![s] = 0]
       /\ modified' = (modified \/ s \notin Listed)
       /\ lost' = lost \ {s}
    \/ /\ s \notin Listed /\ Overlapped(s)
       /\ lost' = lost \cup {s}
       /\ modified' = TRUE
       /\ UNCHANGED clientList

-----------------------------------------------------------------------------
(* The accept loop.                                                        *)

Goes(c, state) == accepting' = [accepting EXCEPT ![c] = state]

Accept(c) ==
    /\ accepting[c] = "new"
    /\ \A d \in Connections : accepting[d] \in {"new", "done", "failed"}
    /\ socket' = [socket EXCEPT ![Client(c)] = "open"]
    /\ Goes(c, "put")
    /\ UNCHANGED <<switch, tableVars, sweepVars, historyVars>>

\* Mutant of PutAccepted: the client is not entered.
PutAcceptedForgotten(c) ==
    /\ accepting[c] = "put" /\ Goes(c, "connect")
    /\ UNCHANGED <<socket, switch, tableVars, sweepVars, historyVars>>

PutAccepted(c) ==
    /\ accepting[c] = "put"
    /\ Put(Client(c))
    /\ Goes(c, "connect")
    /\ UNCHANGED <<socket, switch, sweepVars, historyVars>>

\* new Socket(remoteHostAddr, remoteHostPort) takes as long as it takes.
Connect(c) ==
    /\ accepting[c] = "connect"
    /\ socket' = [socket EXCEPT ![Remote(c)] = "open"]
    /\ Goes(c, "startClient")
    /\ UNCHANGED <<switch, tableVars, sweepVars, historyVars>>

ConnectFails(c) ==
    /\ accepting[c] = "connect"
    /\ socket' = [socket EXCEPT ![Client(c)] = "closed"]
    /\ Goes(c, "failed")
    /\ UNCHANGED <<switch, tableVars, sweepVars, historyVars>>

StartSwitch(c, from, s, to) ==
    /\ accepting[c] = from
    /\ switch' = [switch EXCEPT ![s] = "start"]
    /\ Goes(c, to)
    /\ UNCHANGED <<socket, tableVars, sweepVars, historyVars>>

AcceptStep(c) ==
    \/ PutAccepted(c)
    \/ Connect(c) \/ ConnectFails(c)
    \/ StartSwitch(c, "startClient", Client(c), "startRemote")
    \/ StartSwitch(c, "startRemote", Remote(c), "done")

-----------------------------------------------------------------------------
(* Switch(host, remoteHost), named by the socket of host.                  *)

Moves(s, state) == switch' = [switch EXCEPT ![s] = state]

\* getInputStream and getOutputStream throw on a closed socket.
GetStreams(s) ==
    /\ switch[s] = "start"
    /\ Moves(s, IF Open(s) /\ Open(Peer(s)) THEN "read" ELSE "closeHost")
    /\ UNCHANGED <<accepting, socket, tableVars, sweepVars, historyVars>>

ReadData(s) ==
    /\ switch[s] = "read" /\ Open(s)
    /\ idle' = [idle EXCEPT ![s] = 0]
    /\ missed' = missed \cup {s}
    /\ Moves(s, "put")
    /\ UNCHANGED <<accepting, socket, tableVars, sweepVars>>

\* The end of the stream, a reset by the remote end, or a socket closed here.
ReadEnds(s) ==
    /\ switch[s] = "read"
    /\ Moves(s, "closeHost")
    /\ UNCHANGED <<accepting, socket, tableVars, sweepVars, historyVars>>

PutActive(s) ==
    /\ switch[s] = "put"
    /\ Put(s)
    /\ Moves(s, "write")
    /\ UNCHANGED <<accepting, socket, sweepVars, historyVars>>

Write(s) ==
    /\ switch[s] = "write" /\ Open(Peer(s))
    /\ Moves(s, "read")
    /\ UNCHANGED <<accepting, socket, tableVars, sweepVars, historyVars>>

WriteFails(s) ==
    /\ switch[s] = "write"
    /\ Moves(s, "closeHost")
    /\ UNCHANGED <<accepting, socket, tableVars, sweepVars, historyVars>>

CloseHost(s) ==
    /\ switch[s] = "closeHost"
    /\ socket' = [socket EXCEPT ![s] = "closed"]
    /\ Moves(s, "closeRemote")
    /\ UNCHANGED <<accepting, tableVars, sweepVars, historyVars>>

\* Mutant of CloseRemote: the finally block closes its host only.
CloseRemoteForgotten(s) ==
    /\ switch[s] = "closeRemote" /\ Moves(s, "done")
    /\ UNCHANGED <<accepting, socket, tableVars, sweepVars, historyVars>>

CloseRemote(s) ==
    /\ switch[s] = "closeRemote"
    /\ socket' = [socket EXCEPT ![Peer(s)] = "closed"]
    /\ Moves(s, "done")
    /\ UNCHANGED <<accepting, tableVars, sweepVars, historyVars>>

\* What a scheduled Switch does next, as far as it is up to the Switch.
SwitchStep(s) ==
    \/ GetStreams(s)
    \/ ReadEnds(s) /\ Closed(s)
    \/ PutActive(s)
    \/ Write(s) \/ WriteFails(s)
    \/ CloseHost(s) \/ CloseRemote(s)

-----------------------------------------------------------------------------
(* AutoDestroy.                                                            *)

StartSweep ==
    /\ sweep = "sleep"
    /\ sweep' = "scan"
    /\ todo' = Listed /\ modified' = FALSE
    /\ UNCHANGED <<accepting, socket, switch, clientList, lost, list, current,
                   historyVars>>

\* The iterator returns a key, and the sweep looks at its socket and its entry.
Examine(s) ==
    /\ sweep = "scan" /\ s \in todo
    /\ todo' = todo \ {s}
    /\ list' = IF Closed(s) \/ clientList[s] >= TIMEOUT THEN list \cup {s} ELSE list
    /\ missed' = IF switch[s] = "put" THEN missed ELSE missed \ {s}
    /\ UNCHANGED <<accepting, socket, switch, tableVars, sweep, current, idle>>

\* ConcurrentModificationException (or a null entry of a map being resized)
\* leaves TimerTask.run and ends the Timer's thread.
SweepThrows ==
    /\ sweep = "scan" /\ todo # {} /\ modified
    /\ sweep' = "dead"
    /\ todo' = {} /\ list' = {}
    /\ UNCHANGED <<accepting, socket, switch, tableVars, current, historyVars>>

Scanned ==
    /\ sweep = "scan" /\ todo = {}
    /\ sweep' = "remove"
    /\ UNCHANGED <<accepting, socket, switch, tableVars, todo, list, current,
                   historyVars>>

\* Mutant of Remove: the entry stays.
RemoveForgotten(s) ==
    /\ sweep = "remove" /\ s \in list
    /\ sweep' = "close" /\ current' = s /\ list' = list \ {s}
    /\ UNCHANGED <<accepting, socket, switch, tableVars, todo, historyVars>>

Remove(s) ==
    /\ sweep = "remove" /\ s \in list
    /\ clientList' = [clientList EXCEPT ![s] = Absent]
    /\ sweep' = "close" /\ current' = s
    /\ list' = list \ {s}
    /\ UNCHANGED <<accepting, socket, switch, modified, lost, todo, historyVars>>

\* Mutant of CloseSwept: entries are removed, sockets stay open.
CloseSweptForgotten ==
    /\ sweep = "close" /\ sweep' = "remove" /\ current' = NoSocket
    /\ UNCHANGED <<accepting, socket, switch, tableVars, todo, list, historyVars>>

CloseSwept ==
    /\ sweep = "close"
    /\ socket' = [socket EXCEPT ![current] = "closed"]
    /\ sweep' = "remove" /\ current' = NoSocket
    /\ UNCHANGED <<accepting, switch, tableVars, todo, list, historyVars>>

\* Mutant of Swept: one socket is closed and the others are left for later.
SweptEarly ==
    /\ sweep = "remove" /\ sweep' = "sleep"
    /\ UNCHANGED <<accepting, socket, switch, tableVars, todo, list, current, historyVars>>

Swept ==
    /\ sweep = "remove" /\ list = {}
    /\ sweep' = "sleep"
    /\ UNCHANGED <<accepting, socket, switch, tableVars, todo, list, current,
                   historyVars>>

SweepStep ==
    \/ StartSweep \/ SweepThrows \/ Scanned \/ CloseSwept \/ Swept
    \/ \E s \in Sockets : Examine(s) \/ Remove(s)

-----------------------------------------------------------------------------
(* The environment.                                                        *)

Older(age, bound) == IF age < bound THEN age + 1 ELSE age

Tick ==
    /\ clientList' = [s \in Sockets |->
                        IF s \in Listed THEN Older(clientList[s], TIMEOUT) ELSE Absent]
    /\ idle' = [s \in Sockets |-> IF Open(s) THEN Older(idle[s], TIMEOUT) ELSE idle[s]]
    /\ <<clientList, idle>>' # <<clientList, idle>>
    /\ UNCHANGED <<accepting, socket, switch, modified, lost, sweepVars, missed>>

-----------------------------------------------------------------------------

Next ==
    \/ \E c \in Connections : Accept(c) \/ AcceptStep(c)
    \/ \E s \in Sockets : SwitchStep(s) \/ ReadData(s) \/ ReadEnds(s)
    \/ SweepStep
    \/ Tick

Spec == Init /\ [][Next]_vars

\* The threads of the process are scheduled and time passes.  Nothing is assumed
\* about clients and remote hosts: connecting may take for ever.
Fairness ==
    /\ \A c \in Connections :
          /\ WF_vars(PutAccepted(c))
          /\ WF_vars(StartSwitch(c, "startClient", Client(c), "startRemote"))
          /\ WF_vars(StartSwitch(c, "startRemote", Remote(c), "done"))
    /\ \A s \in Sockets : WF_vars(SwitchStep(s))
    /\ WF_vars(SweepStep)
    /\ WF_vars(Tick)

FairSpec == Spec /\ Fairness

-----------------------------------------------------------------------------

TypeOK ==
    /\ accepting \in [Connections -> AcceptStates]
    /\ socket \in [Sockets -> {"none", "open", "closed"}]
    /\ switch \in [Sockets -> SwitchStates]
    /\ clientList \in [Sockets -> {Absent} \cup 0..TIMEOUT]
    /\ sweep \in SweepStates
    /\ todo \subseteq Sockets /\ list \subseteq Sockets
    /\ IF sweep = "close" THEN current \in Sockets ELSE current = NoSocket
    /\ sweep \in {"sleep", "dead"} => todo \cup list = {}
    /\ modified \in BOOLEAN
    /\ idle \in [Sockets -> 0..TIMEOUT]
    /\ missed \subseteq Sockets /\ lost \subseteq Sockets

\* The time-out reaches every client: from its first put on, an open client socket
\* has an entry, is just being closed by the sweep, or its insertion has been lost
\* to an overlapping one.  A socket the sweep has removed and a Switch has put back
\* is no exception.
TimeoutCovers ==
    \A c \in Connections :
        Open(Client(c)) /\ accepting[c] # "put"
            => \/ Client(c) \in Listed \cup lost
               \/ sweep = "close" /\ current = Client(c)

\* The sweep spares active sockets: it closes an open socket only if nothing was
\* read from it for TIMEOUT ticks, or if what was read last had not been put when
\* the sweep examined the socket.
SweepSpares ==
    [][CloseSwept /\ Open(current)
         => idle[current] = TIMEOUT \/ current \in missed]_vars

\* When one socket of a relayed connection is closed, by whichever thread, the
\* other one is closed too and both threads end.
PairEnds ==
    \A c \in Connections :
        (accepting[c] = "done" /\ \E e \in Sides : Closed(<<c, e>>))
            ~> \A e \in Sides : Closed(<<c, e>>) /\ switch[<<c, e>>] = "done"

\* The entry of a closed socket goes, even one that a Switch puts back after the
\* sweep, as long as the timer survives its sweeps.
StaleEntryGone ==
    \A s \in Sockets : (s \in Listed /\ Closed(s)) ~> (s \notin Listed \/ sweep = "dead")

\* A socket with an entry is closed in the end unless data keeps arriving on it, as
\* long as the timer survives its sweeps.
IdleCloses ==
    \A s \in Sockets :
        \/ []<>(switch[s] = "put")
        \/ (s \in Listed) ~> (Closed(s) \/ sweep = "dead")

=============================================================================
