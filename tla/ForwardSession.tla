--------------------------- MODULE ForwardSession ---------------------------
(***************************************************************************)
(* The life of a forwarded connection in NakovHttpForwardServer: the       *)
(* sockets and flags of ForwardServerClientThread, its two ForwardThreads  *)
(* and connectionBroken.  Which server is chosen, and the counters of the  *)
(* servers, are ServerPool's; here a connection attempt just succeeds or   *)
(* does not.                                                               *)
(*                                                                         *)
(* A direction is named by the end it reads from: ForwardThread "client"   *)
(* reads the client and writes to the server (isClientToServer), "server"  *)
(* is the other one (isServerToClient).                                    *)
(***************************************************************************)
EXTENDS Integers, FiniteSets

CONSTANTS
    Clients,    \* the connections
    MaxChunks,  \* bound: chunks of data each end sends on a connection
    Departures  \* bound: the ways in which the remote ends leave

Ends == {"client", "server"}

ASSUME BoundsAssumption ==
    /\ MaxChunks \in [Ends -> Nat]
    /\ Departures \subseteq {"shut", "gone", "reset"}

Other(e) == IF e = "client" THEN "server" ELSE "client"
Threads == Clients \X Ends

VARIABLES
    main,       \* control state of ForwardServerClientThread.run
    fwd,        \* control state of each ForwardThread
    sock,       \* clientSocket, serverSocket: open on the forwarder's side
    both,       \* bothConnectionsAreAlive
    canBroke,   \* canBrokeClientConnection
    monitor,    \* the ForwardThread inside synchronized connectionBroken
    end,        \* what the remote client and server do with their socket
    queue,      \* chunks an end has sent and its ForwardThread has not read
    sent,       \* chunks an end has sent
    released,   \* history: how often the server's counter was given back
    wrote,      \* history: connections on which client data was forwarded
    dropped     \* history: directions in which a chunk was read but not written

threadVars  == <<main, fwd, both, canBroke, monitor>>
remoteVars  == <<end, queue, sent>>
historyVars == <<released, wrote, dropped>>
vars == <<threadVars, sock, remoteVars, historyVars>>

MainStates ==
    {"connecting", "refused", "streams", "failed",
     "startClient", "startServer", "started"}

\* Inside connectionBroken, in the order of its statements.
ClosingStates == {"closeServer", "closeClient", "clearBoth", "account"}

ThreadStates ==
    {"none", "read", "gotData", "gotEnd", "write", "setFlag", "test", "call", "done"}
        \cup ClosingStates

\* A remote end: sending, half-closed, closed, or its connection reset.
EndStates == {"open", "shut", "gone", "reset"}

NoThread == "nobody"

Init ==
    /\ main = [c \in Clients |-> "connecting"]
    /\ fwd = [t \in Threads |-> "none"]
    /\ sock = [t \in Threads |-> t[2] = "client"]
    /\ both = [c \in Clients |-> FALSE]
    /\ canBroke = [c \in Clients |-> FALSE]
    /\ monitor = [c \in Clients |-> NoThread]
    /\ end = [t \in Threads |-> "open"]
    /\ queue = [t \in Threads |-> 0]
    /\ sent = [t \in Threads |-> 0]
    /\ released = [c \in Clients |-> 0]
    /\ wrote = {}
    /\ dropped = {}

-----------------------------------------------------------------------------
(* ForwardServerClientThread.run.                                          *)

\* A failed SSL handshake closes the client's socket before run() starts.
HandshakeFails(c) ==
    /\ main[c] = "connecting"
    /\ sock[<<c, "client">>]
    /\ sock' = [sock EXCEPT ![<<c, "client">>] = FALSE]
    /\ UNCHANGED <<threadVars, remoteVars, historyVars>>

\* createServerSocket returned null.
Refuse(c) ==
    /\ main[c] = "connecting"
    /\ main' = [main EXCEPT ![c] = "refused"]
    /\ sock' = [sock EXCEPT ![<<c, "client">>] = FALSE]
    /\ UNCHANGED <<fwd, both, canBroke, monitor, remoteVars, historyVars>>

Connect(c) ==
    /\ main[c] = "connecting"
    /\ main' = [main EXCEPT ![c] = "streams"]
    /\ sock' = [sock EXCEPT ![<<c, "server">>] = TRUE]
    /\ UNCHANGED <<fwd, both, canBroke, monitor, remoteVars, historyVars>>

\* getInputStream throws on a closed socket, and run() returns.
OpenStreams(c) ==
    /\ main[c] = "streams"
    /\ IF sock[<<c, "client">>]
       THEN /\ both' = [both EXCEPT ![c] = TRUE]
            /\ main' = [main EXCEPT ![c] = "startClient"]
       ELSE /\ main' = [main EXCEPT ![c] = "failed"]
            /\ UNCHANGED both
    /\ UNCHANGED <<fwd, canBroke, monitor, sock, remoteVars, historyVars>>

\* clientForward.start(), then serverForward.start().
StartThread(c, e, from, to) ==
    /\ main[c] = from
    /\ main' = [main EXCEPT ![c] = to]
    /\ fwd' = [fwd EXCEPT ![<<c, e>>] = "read"]
    /\ UNCHANGED <<both, canBroke, monitor, sock, remoteVars, historyVars>>

StartClientForward(c) == StartThread(c, "client", "startClient", "startServer")
StartServerForward(c) == StartThread(c, "server", "startServer", "started")

-----------------------------------------------------------------------------
(* ForwardThread.run.                                                      *)

Goto(c, e, state) == fwd' = [fwd EXCEPT ![<<c, e>>] = state]

\* Where an exception or the end of the stream takes the thread.
Finish(e) == IF e = "client" THEN "call" ELSE "test"

\* Mutant of ReadData: a read that returns data the other side has not sent.
ReadDataUnsent(c, e) ==
    /\ fwd[<<c, e>>] = "read"
    /\ sock[<<c, e>>]
    /\ queue' = [queue EXCEPT ![<<c, e>>] = @ - 1]
    /\ Goto(c, e, IF e = "client" THEN "gotData" ELSE "write")
    /\ UNCHANGED <<main, both, canBroke, monitor, sock, end, sent, historyVars>>

ReadData(c, e) ==
    /\ fwd[<<c, e>>] = "read"
    /\ sock[<<c, e>>]
    /\ queue[<<c, e>>] > 0
    /\ queue' = [queue EXCEPT ![<<c, e>>] = @ - 1]
    /\ Goto(c, e, IF e = "client" THEN "gotData" ELSE "write")
    /\ UNCHANGED <<main, both, canBroke, monitor, sock, end, sent, historyVars>>

ReadEnd(c, e) ==
    /\ fwd[<<c, e>>] = "read"
    /\ sock[<<c, e>>]
    /\ queue[<<c, e>>] = 0
    /\ end[<<c, e>>] \in {"shut", "gone"}
    /\ Goto(c, e, IF e = "client" THEN "gotEnd" ELSE "test")
    /\ UNCHANGED <<main, both, canBroke, monitor, sock, remoteVars, historyVars>>

\* Mutant of ReadFails: a read may also time out.
ReadFailsOnTimeout(c, e) ==
    /\ fwd[<<c, e>>] = "read"
    /\ Goto(c, e, Finish(e))
    /\ UNCHANGED <<main, both, canBroke, monitor, sock, remoteVars, historyVars>>

\* SocketException: closed here, or reset by the other side.  The flag keeps
\* the value it had when the read began.
ReadFails(c, e) ==
    /\ fwd[<<c, e>>] = "read"
    /\ ~sock[<<c, e>>] \/ end[<<c, e>>] = "reset"
    /\ Goto(c, e, Finish(e))
    /\ UNCHANGED <<main, both, canBroke, monitor, sock, remoteVars, historyVars>>

\* Mutant of ClearFlag: the end of the client's stream is not reported.
ClearFlagSilentEnd(c) ==
    /\ fwd[<<c, "client">>] \in {"gotData", "gotEnd"}
    /\ canBroke' = [canBroke EXCEPT ![c] = FALSE]
    /\ Goto(c, "client", IF fwd[<<c, "client">>] = "gotData" THEN "write" ELSE "done")
    /\ UNCHANGED <<main, both, monitor, sock, remoteVars, historyVars>>

\* canBrokeClientConnection = false, once the read has returned.
\* Nothing raises the flag before the first read, after which this changes nothing.
ClearFlag(c) ==
    /\ fwd[<<c, "client">>] \in {"gotData", "gotEnd"}
    /\ canBroke' = [canBroke EXCEPT ![c] = FALSE]
    /\ Goto(c, "client", IF fwd[<<c, "client">>] = "gotData" THEN "write" ELSE "call")
    /\ UNCHANGED <<main, both, monitor, sock, remoteVars, historyVars>>

\* A write to an end that has closed its socket goes out, and comes back as a
\* reset.  (The model's peers read what they are sent: a write that can
\* neither complete nor fail is outside it.)
Write(c, e) ==
    LET o == Other(e)
    IN  /\ fwd[<<c, e>>] = "write"
        /\ sock[<<c, o>>]
        /\ end[<<c, o>>] # "reset"
        /\ end' = IF end[<<c, o>>] = "gone" THEN [end EXCEPT ![<<c, o>>] = "reset"] ELSE end
        /\ wrote' = IF e = "client" THEN wrote \cup {c} ELSE wrote
        /\ Goto(c, e, IF e = "client" THEN "setFlag" ELSE "read")
        /\ UNCHANGED <<main, both, canBroke, monitor, sock, queue, sent, released, dropped>>

WriteFails(c, e) ==
    /\ fwd[<<c, e>>] = "write"
    /\ ~sock[<<c, Other(e)>>] \/ end[<<c, Other(e)>>] = "reset"
    /\ dropped' = dropped \cup {<<c, e>>}
    /\ Goto(c, e, Finish(e))
    /\ UNCHANGED <<main, both, canBroke, monitor, sock, remoteVars, released, wrote>>

\* canBrokeClientConnection = true, before the next read.
SetFlag(c) ==
    /\ fwd[<<c, "client">>] = "setFlag"
    /\ canBroke' = [canBroke EXCEPT ![c] = TRUE]
    /\ Goto(c, "client", "read")
    /\ UNCHANGED <<main, both, monitor, sock, remoteVars, historyVars>>

\* Mutant of TestFlag: the end is always reported.
TestFlagIgnored(c) ==
    /\ fwd[<<c, "server">>] = "test"
    /\ Goto(c, "server", "call")
    /\ UNCHANGED <<main, both, canBroke, monitor, sock, remoteVars, historyVars>>

\* The thread from the server reports the end only if the flag is raised.
TestFlag(c) ==
    /\ fwd[<<c, "server">>] = "test"
    /\ Goto(c, "server", IF canBroke[c] THEN "call" ELSE "done")
    /\ UNCHANGED <<main, both, canBroke, monitor, sock, remoteVars, historyVars>>

-----------------------------------------------------------------------------
(* connectionBroken: the monitor is entered, bothConnectionsAreAlive is    *)
(* tested, and the four statements follow one by one.                      *)

\* Mutant of Enter: bothConnectionsAreAlive is not tested.
EnterUntested(c, e) ==
    /\ fwd[<<c, e>>] = "call"
    /\ monitor[c] = NoThread
    /\ monitor' = [monitor EXCEPT ![c] = e]
    /\ Goto(c, e, "closeServer")
    /\ UNCHANGED <<main, both, canBroke, sock, remoteVars, historyVars>>

Enter(c, e) ==
    /\ fwd[<<c, e>>] = "call"
    /\ monitor[c] = NoThread
    /\ IF both[c]
       THEN monitor' = [monitor EXCEPT ![c] = e] /\ Goto(c, e, "closeServer")
       ELSE UNCHANGED monitor /\ Goto(c, e, "done")
    /\ UNCHANGED <<main, both, canBroke, sock, remoteVars, historyVars>>

CloseSocket(c, e, s, from, to) ==
    /\ fwd[<<c, e>>] = from
    /\ sock' = [sock EXCEPT ![<<c, s>>] = FALSE]
    /\ Goto(c, e, to)
    /\ UNCHANGED <<main, both, canBroke, monitor, remoteVars, historyVars>>

\* Mutants: the same socket is closed twice.
CloseServerSocketWrong(c, e) == CloseSocket(c, e, "client", "closeServer", "closeClient")
CloseClientSocketWrong(c, e) == CloseSocket(c, e, "server", "closeClient", "clearBoth")

CloseServerSocket(c, e) == CloseSocket(c, e, "server", "closeServer", "closeClient")
CloseClientSocket(c, e) == CloseSocket(c, e, "client", "closeClient", "clearBoth")

ClearBoth(c, e) ==
    /\ fwd[<<c, e>>] = "clearBoth"
    /\ both' = [both EXCEPT ![c] = FALSE]
    /\ Goto(c, e, "account")
    /\ UNCHANGED <<main, canBroke, monitor, sock, remoteVars, historyVars>>

\* server.clientsConnectedCount--, and the monitor is left.
Account(c, e) ==
    /\ fwd[<<c, e>>] = "account"
    /\ released' = [released EXCEPT ![c] = @ + 1]
    /\ monitor' = [monitor EXCEPT ![c] = NoThread]
    /\ Goto(c, e, "done")
    /\ UNCHANGED <<main, both, canBroke, sock, remoteVars, wrote, dropped>>

-----------------------------------------------------------------------------
(* Environment: the remote client, and the server once it is connected.    *)
(* After the forwarder has closed a socket its remote end is not observed. *)

Present(c, e) == sock[<<c, e>>]

Send(c, e) ==
    /\ Present(c, e)
    /\ end[<<c, e>>] = "open"
    /\ sent[<<c, e>>] < MaxChunks[e]
    /\ sent' = [sent EXCEPT ![<<c, e>>] = @ + 1]
    /\ queue' = [queue EXCEPT ![<<c, e>>] = @ + 1]
    /\ UNCHANGED <<threadVars, sock, end, historyVars>>

\* shutdownOutput, close, or an abortive close of the remote end.
EndMoves(c, e) ==
    /\ Present(c, e)
    /\ \E state \in Departures :
          /\ <<end[<<c, e>>], state>> \in
                {<<"open", "shut">>, <<"open", "gone">>, <<"shut", "gone">>,
                 <<"open", "reset">>, <<"shut", "reset">>}
          /\ end' = [end EXCEPT ![<<c, e>>] = state]
    /\ UNCHANGED <<threadVars, sock, queue, sent, historyVars>>

-----------------------------------------------------------------------------
MainStep(c) == OpenStreams(c) \/ StartClientForward(c) \/ StartServerForward(c)

PumpStep(c, e) ==
    \/ ReadData(c, e) \/ ReadEnd(c, e) \/ ReadFails(c, e)
    \/ Write(c, e) \/ WriteFails(c, e)
    \/ e = "client" /\ (ClearFlag(c) \/ SetFlag(c))
    \/ e = "server" /\ TestFlag(c)

BrokenStep(c, e) ==
    \/ Enter(c, e) \/ CloseServerSocket(c, e) \/ CloseClientSocket(c, e)
    \/ ClearBoth(c, e) \/ Account(c, e)

ThreadStep(c, e) == PumpStep(c, e) \/ BrokenStep(c, e)

RemoteStep(c, e) == Send(c, e) \/ EndMoves(c, e)

Next ==
    \E c \in Clients :
        \/ HandshakeFails(c) \/ Refuse(c) \/ Connect(c) \/ MainStep(c)
        \/ \E e \in Ends : ThreadStep(c, e) \/ RemoteStep(c, e)

Spec == Init /\ [][Next]_vars

\* Started threads run, and a blocked read or write returns when its socket
\* allows it to.  The remote ends promise nothing.
Fairness ==
    \A c \in Clients :
        /\ WF_vars(MainStep(c))
        /\ \A e \in Ends : WF_vars(ThreadStep(c, e))

FairSpec == Spec /\ Fairness

-----------------------------------------------------------------------------
(* Properties.                                                             *)

TypeOK ==
    /\ main \in [Clients -> MainStates]
    /\ fwd \in [Threads -> ThreadStates]
    /\ sock \in [Threads -> BOOLEAN]
    /\ both \in [Clients -> BOOLEAN]
    /\ canBroke \in [Clients -> BOOLEAN]
    /\ monitor \in [Clients -> Ends \cup {NoThread}]
    /\ end \in [Threads -> EndStates]
    /\ queue \in [Threads -> Nat]
    /\ sent \in [Threads -> Nat]
    /\ released \in [Clients -> Nat]
    /\ wrote \subseteq Clients
    /\ dropped \subseteq Threads

Closing(c) == \E e \in Ends : fwd[<<c, e>>] \in ClosingStates

\* connectionBroken gives the server's counter back exactly once, although both
\* ForwardThreads may call it, at any distance from each other and before the
\* parent has started the second one: a connection is either whole (alive, both
\* sockets open, nothing released) or down (both sockets closed, released once),
\* and nobody but the monitor's owner sees anything else (lines 87-108).
ReleasedOnce ==
    \A c \in Clients :
        main[c] \in {"startClient", "startServer", "started"} /\ ~Closing(c)
            => \/ both[c] /\ sock[<<c, "client">>] /\ sock[<<c, "server">>] /\ released[c] = 0
               \/ ~both[c] /\ ~sock[<<c, "client">>] /\ ~sock[<<c, "server">>] /\ released[c] = 1

\* A server that hangs up cannot take down a connection on which no client data
\* has been forwarded yet: only the thread from the client ends such a connection
\* (ForwardThread 69-73).
NoTeardownBeforeRequest ==
    \A c \in Clients :
        fwd[<<c, "server">>] \in ClosingStates => c \in wrote

\* What e sends is forwarded before the socket of the other end is closed: while that end
\* stays, sending and receiving, and e itself has not closed its socket.
ForwardedFrom(e) ==
    \A c \in Clients :
        /\ main[c] = "started"
        /\ ~sock[<<c, Other(e)>>]
        /\ end[<<c, Other(e)>>] = "open"
        /\ end[<<c, e>>] \in {"open", "shut"}
        => queue[<<c, e>>] = 0 /\ <<c, e>> \notin dropped

\* As long as the client keeps its sending side open and the server goes on
\* reading, closing the client's socket loses nothing the server has sent:
\* either thread may tear the connection down, but not before the thread from
\* the server has read and written everything.
ServerDataForwarded == ForwardedFrom("server")

\* And as long as the server keeps its sending side open, closing the server's socket
\* loses nothing the client has sent, though the flag is still up while the client's
\* thread has a chunk in hand that it has just read (ForwardThread 57-58): only the end of
\* the server's stream has the flag tested.  A server that has finished sending, or left,
\* is the case in which that race does lose the chunk (69-73).
ClientDataForwarded == ForwardedFrom("client")

\* After connectionBroken both threads stop, the one blocked in a read included:
\* "that way will stop the threads that read from these streams" (lines 90-91).
ThreadsStop ==
    \A c \in Clients :
        (released[c] = 1) ~> (fwd[<<c, "client">>] = "done" /\ fwd[<<c, "server">>] = "done")

\* ForwardThread 5-6: "If some of the streams fails, the forwarding is stopped and
\* the parent thread is notified to close all its connections."  Run
\* session_half_open: when the server hangs up before the flag is up, the thread
\* from the server ends silently and the client's socket stays open.
ServerGoneClosesBoth ==
    \A c \in Clients :
        (main[c] = "started" /\ end[<<c, "server">>] \in {"gone", "reset"})
            ~> (~sock[<<c, "client">>] /\ ~sock[<<c, "server">>])

=============================================================================
