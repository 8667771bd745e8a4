---------------------------- MODULE HttpConnection ----------------------------
(***************************************************************************)
(* One connection of http4j's server: HttpServer's thread answers it from  *)
(* a route or a page, or makes an HttpProxy of it, which relays it to the  *)
(* server the client names.                                                *)
(*                                                                         *)
(* HttpRequest and HttpProxy are both an httplib: a socket, its two        *)
(* streams, and a receive() loop.  They are named here by what they are    *)
(* connected to: "from" is the client's HttpRequest, whose loop runs in    *)
(* HttpServer's thread, "to" the HttpProxy, whose loop has a thread of its *)
(* own.  Requests are parsed already; their content is how much body they  *)
(* announce and whether a route takes them.                                *)
(***************************************************************************)
EXTENDS Integers, Sequences

CONSTANTS
    MaxChunks,  \* bound: pieces of data a remote end sends
    MaxRoutes   \* bound: routes that match one request

Ends == {"from", "to"}
Other(e) == IF e = "from" THEN "to" ELSE "from"

ASSUME BoundsAssumption == MaxChunks \in [Ends -> Nat] /\ MaxRoutes \in Nat

VARIABLES
    kind,       \* what the client asks for
    need,       \* contentLength(), in pieces; it may be negative
    routes,     \* how many routes findRoutes finds for the request
    thread,     \* control state of the thread that runs each httplib's loop
    open,       \* the sockets that are open on this side
    streams,    \* the httplibs whose input and output are not null
    remote,     \* what the remote ends have done
    queue, sent, \* pieces a remote end has sent: not read yet, altogether
    taken,      \* pieces of a body in HttpServer.raw
    heard,      \* what was written to the client
    asked,      \* something was written to the server
    spokeFirst, \* history: the server of a tunnel spoke before it was asked
    left        \* history: the thread left the client's socket behind, open

objectVars == <<thread, open, streams, taken>>
remoteVars == <<remote, queue, sent>>
historyVars == <<spokeFirst, left>>
inputVars == <<kind, need, routes>>
vars == <<inputVars, objectVars, remoteVars, heard, asked, historyVars>>

Kinds == {"request", "proxy", "tunnel"}
RemoteStates == {"open", "shut", "gone", "reset"}
Loop == {"loop", "read", "give"}
Closing == {"peerClose", "peerNull", "ownClose", "ownNull"}
ThreadStates == {"none", "parsed", "connect", "launch", "head", "done"} \cup Loop \cup Closing

Init ==
    /\ kind \in Kinds
    /\ need \in IF kind = "request" THEN -1 .. MaxChunks["from"] ELSE {0}
    /\ routes \in IF kind = "request" THEN 0 .. MaxRoutes ELSE {0}
    /\ thread = [e \in Ends |-> IF e = "from" THEN "parsed" ELSE "none"]
    /\ open = {"from"}
    /\ streams = {"from"}
    /\ remote = [e \in Ends |-> "open"]
    /\ queue = [e \in Ends |-> 0]
    /\ sent = [e \in Ends |-> 0]
    /\ taken = 0
    /\ heard = <<>>
    /\ asked = FALSE
    /\ spokeFirst = FALSE
    /\ left = FALSE

-----------------------------------------------------------------------------

Goes(e, from, to) == thread[e] = from /\ thread' = [thread EXCEPT ![e] = to]

\* output.write reaches the other side: not through a stream that close() has set
\* to null, nor a socket that is closed or reset.
Writable(e) == e \in streams /\ e \in open /\ remote[e] # "reset"

\* Writing to an end that has closed its socket is answered with a reset.
Hit(e) == remote' = [remote EXCEPT ![e] = IF @ = "gone" THEN "reset" ELSE @]

Tell(what) ==
    IF Writable("from") THEN heard' = heard \o what /\ Hit("from")
                        ELSE UNCHANGED <<heard, remote>>

-----------------------------------------------------------------------------
(* HttpServer's thread: doProxy, then doRequest if it is not for a proxy.  *)

\* isProxyEnabled is off.
ProxyDisabled ==
    /\ kind # "request"
    /\ Goes("from", "parsed", "done")
    /\ open' = open \ {"from"}
    /\ UNCHANGED <<inputVars, streams, taken, remoteVars, heard, asked, historyVars>>

\* No usable Host: doProxy returns true all the same.
ProxyNameless ==
    /\ kind # "request"
    /\ Goes("from", "parsed", "done")
    /\ left' = TRUE
    /\ UNCHANGED <<inputVars, open, streams, taken, remoteVars, heard, asked, spokeFirst>>

DoProxy ==
    /\ kind # "request"
    /\ Goes("from", "parsed", "connect")
    /\ UNCHANGED <<inputVars, open, streams, taken, remoteVars, heard, asked, historyVars>>

DoRequest ==
    /\ kind = "request" /\ need >= 0
    /\ Goes("from", "parsed", IF need = 0 THEN "give" ELSE "loop")
    /\ UNCHANGED <<inputVars, open, streams, taken, remoteVars, heard, asked, historyVars>>

\* doRequest does nothing about a length below zero.
DoNothing ==
    /\ kind = "request" /\ need < 0
    /\ Goes("from", "parsed", "done")
    /\ left' = TRUE
    /\ UNCHANGED <<inputVars, open, streams, taken, remoteVars, heard, asked, spokeFirst>>

\* HttpProxy's constructor: its loop is started before launch() is called.
Connect ==
    /\ thread["from"] = "connect"
    /\ thread' = [thread EXCEPT !["from"] = "launch", !["to"] = "loop"]
    /\ open' = open \cup {"to"}
    /\ streams' = streams \cup {"to"}
    /\ UNCHANGED <<inputVars, taken, remoteVars, heard, asked, historyVars>>

\* connect() throws: launch() finds no streams and returns.
ConnectFails ==
    /\ Goes("from", "connect", "done")
    /\ left' = TRUE
    /\ UNCHANGED <<inputVars, open, streams, taken, remoteVars, heard, asked, spokeFirst>>

\* Mutant of Launch: the client's loop is entered without a word.
LaunchUnannounced ==
    /\ thread["from"] = "launch"
    /\ thread' = [thread EXCEPT !["from"] = IF "to" \in streams THEN "loop" ELSE "done"]
    /\ UNCHANGED <<inputVars, open, streams, taken, remoteVars, heard, asked, historyVars>>

\* launch() does nothing if the loop of the proxy has ended and closed it already.
Launch ==
    /\ thread["from"] = "launch"
    /\ thread' = [thread EXCEPT !["from"] = IF "to" \in streams THEN "head" ELSE "done"]
    /\ UNCHANGED <<inputVars, open, streams, taken, remoteVars, heard, asked, historyVars>>

\* The request's head goes to the server, or "Connection established" to the
\* client; an exception ends the thread without receive().
WriteHead ==
    LET target == IF kind = "proxy" THEN "to" ELSE "from"
    IN  /\ thread["from"] = "head"
        /\ thread' = [thread EXCEPT !["from"] = IF Writable(target) THEN "loop" ELSE "done"]
        /\ IF kind = "tunnel"
           THEN Tell(<<"established">>) /\ UNCHANGED asked
           ELSE /\ asked' = (asked \/ Writable("to"))
                /\ IF Writable("to") THEN Hit("to") ELSE UNCHANGED remote
                /\ UNCHANGED heard
        /\ UNCHANGED <<inputVars, open, streams, taken, queue, sent, historyVars>>

-----------------------------------------------------------------------------
(* httplib.receive: the loop, its ends, and close() of both httplibs.      *)

\* Reading through a stream that is null by now is caught apart: the other side
\* is not told.
Enter(e) ==
    /\ thread[e] = "loop"
    /\ thread' = [thread EXCEPT ![e] = IF e \in streams THEN "read" ELSE "ownClose"]
    /\ UNCHANGED <<inputVars, open, streams, taken, remoteVars, heard, asked, historyVars>>

\* Mutant of Read: what was read before is read again.
ReadAgain(e) ==
    /\ Goes(e, "read", "give")
    /\ e \in open
    /\ \E n \in 1 .. sent[e] :
          /\ queue' = [queue EXCEPT ![e] = @ - n]
          /\ taken' = IF kind = "request" THEN taken + n ELSE taken
    /\ UNCHANGED <<inputVars, open, streams, remote, sent, heard, asked, historyVars>>

\* A read returns some of what has come, a body or data to relay.
Read(e) ==
    /\ Goes(e, "read", "give")
    /\ e \in open
    /\ \E n \in 1 .. queue[e] :
          /\ queue' = [queue EXCEPT ![e] = @ - n]
          /\ taken' = IF kind = "request" THEN taken + n ELSE taken
    /\ UNCHANGED <<inputVars, open, streams, remote, sent, heard, asked, historyVars>>

\* closed() tells the other httplib to close; for a request it only prints.
Stop(e) == Goes(e, "read", IF kind = "request" THEN "ownClose" ELSE "peerClose")

ReadEnds(e) ==
    /\ Stop(e)
    /\ \/ e \notin open
       \/ remote[e] = "reset"
       \/ queue[e] = 0 /\ remote[e] \in {"shut", "gone"}
    /\ UNCHANGED <<inputVars, open, streams, taken, remoteVars, heard, asked, historyVars>>

\* setSoTimeout: a minute without data.
ReadTimesOut(e) ==
    /\ Stop(e)
    /\ e \in open /\ queue[e] = 0
    /\ UNCHANGED <<inputVars, open, streams, taken, remoteVars, heard, asked, historyVars>>

\* arrived() of the proxy's two directions: whether the write succeeds or not, the
\* loop goes on.
Relay(e) ==
    /\ kind # "request"
    /\ Goes(e, "give", "loop")
    /\ IF e = "to"
       THEN Tell(<<"data">>) /\ UNCHANGED asked
       ELSE /\ asked' = (asked \/ Writable("to"))
            /\ IF Writable("to") THEN Hit("to") ELSE UNCHANGED remote
            /\ UNCHANGED heard
    /\ UNCHANGED <<inputVars, open, streams, taken, queue, sent, historyVars>>

\* invokeCustomerUriRequest, or wwwroot if the body is not there yet or no route
\* handles the request.
Answer == IF taken >= need /\ routes > 0 THEN [i \in 1 .. routes |-> "route"] ELSE <<"page">>

\* Mutant of Respond: the connection is kept.
RespondKeepsOpen ==
    /\ kind = "request"
    /\ Goes("from", "give", IF need = 0 THEN "done" ELSE "loop")
    /\ Tell(Answer)
    /\ UNCHANGED <<inputVars, open, streams, taken, queue, sent, asked, historyVars>>

\* arrived() of a request: its answer, and HttpServer.close().
Respond ==
    /\ kind = "request"
    /\ Goes("from", "give", IF need = 0 THEN "done" ELSE "loop")
    /\ Tell(Answer)
    /\ open' = open \ {"from"}
    /\ UNCHANGED <<inputVars, streams, taken, queue, sent, asked, historyVars>>

\* A route throws, after those before it have answered: the try block begins too late for
\* it.  A body that was read makes it an exception of the loop, which closes the socket;
\* without one it ends the thread and nothing is closed.
RouteThrows ==
    /\ kind = "request" /\ taken >= need /\ routes > 0
    /\ Goes("from", "give", IF need = 0 THEN "done" ELSE "ownClose")
    /\ \E k \in 0 .. routes - 1 : Tell([i \in 1 .. k |-> "route"])
    /\ left' = (left \/ need = 0)
    /\ UNCHANGED <<inputVars, open, streams, taken, queue, sent, asked, spokeFirst>>

\* Mutant of CloseSocket: close() is synchronized, as receive() is.
CloseSocketSynchronized(e, target, from, to) ==
    /\ Goes(e, from, to)
    /\ target # e => thread[target] \notin Loop \cup Closing
    /\ open' = open \ {target}
    /\ UNCHANGED <<inputVars, streams, taken, remoteVars, heard, asked, historyVars>>

CloseSocket(e, target, from, to) ==
    /\ Goes(e, from, to)
    /\ open' = open \ {target}
    /\ UNCHANGED <<inputVars, streams, taken, remoteVars, heard, asked, historyVars>>

DropStreams(e, target, from, to) ==
    /\ Goes(e, from, to)
    /\ streams' = streams \ {target}
    /\ UNCHANGED <<inputVars, open, taken, remoteVars, heard, asked, historyVars>>

\* close(), which is not synchronized: of the other httplib, then of one's own.
Close(e) ==
    \/ CloseSocket(e, Other(e), "peerClose", "peerNull")
    \/ DropStreams(e, Other(e), "peerNull", "ownClose")
    \/ CloseSocket(e, e, "ownClose", "ownNull")
    \/ DropStreams(e, e, "ownNull", "done")

-----------------------------------------------------------------------------
(* Environment: the client, and the server once it is connected.           *)

Send(e) ==
    /\ e \in open /\ remote[e] = "open" /\ sent[e] < MaxChunks[e]
    /\ queue' = [queue EXCEPT ![e] = @ + 1]
    /\ sent' = [sent EXCEPT ![e] = @ + 1]
    /\ spokeFirst' = (spokeFirst \/ (e = "to" /\ kind = "tunnel" /\ ~asked))
    /\ UNCHANGED <<inputVars, objectVars, remote, heard, asked, left>>

Leave(e) ==
    /\ e \in open
    /\ \/ remote[e] = "open" /\ remote' \in {[remote EXCEPT ![e] = s] : s \in {"shut", "gone", "reset"}}
       \/ remote[e] = "shut" /\ remote' \in {[remote EXCEPT ![e] = s] : s \in {"gone", "reset"}}
    /\ UNCHANGED <<inputVars, objectVars, queue, sent, heard, asked, historyVars>>

-----------------------------------------------------------------------------

ServerStep ==
    \/ ProxyDisabled \/ ProxyNameless \/ DoProxy \/ DoRequest \/ DoNothing
    \/ Connect \/ ConnectFails \/ Launch \/ WriteHead \/ Respond
    \/ RouteThrows

ReceiveStep(e) ==
    Enter(e) \/ Read(e) \/ ReadEnds(e) \/ ReadTimesOut(e) \/ Relay(e) \/ Close(e)

Next ==
    \/ ServerStep
    \/ \E e \in Ends : ReceiveStep(e) \/ Send(e) \/ Leave(e)

Spec == Init /\ [][Next]_vars

\* Both threads run, connect() returns, and no read lasts longer than its time-out.
\* The remote ends promise nothing.
Fairness == WF_vars(ServerStep) /\ \A e \in Ends : WF_vars(ReceiveStep(e))

FairSpec == Spec /\ Fairness

-----------------------------------------------------------------------------
(* Properties.                                                             *)

TypeOK ==
    /\ kind \in Kinds /\ need \in -1 .. MaxChunks["from"] /\ routes \in 0 .. MaxRoutes
    /\ thread \in [Ends -> ThreadStates]
    /\ open \subseteq Ends /\ streams \subseteq Ends
    /\ remote \in [Ends -> RemoteStates]
    /\ queue \in [Ends -> Nat] /\ sent \in [Ends -> Nat]
    /\ \A e \in Ends : queue[e] <= sent[e] /\ sent[e] <= MaxChunks[e]
    /\ taken \in 0 .. MaxChunks["from"]
    /\ heard \in Seq({"established", "data", "route", "page"})
    /\ asked \in BOOLEAN /\ spokeFirst \in BOOLEAN /\ left \in BOOLEAN

\* Every connection comes to an end: its threads stop and its sockets are closed,
\* although either loop may end first, be told by the other or find its streams
\* gone, and although an exception in launch() closes nothing.  Only a proxied
\* request whose server cannot be named or reached, a request of negative length and
\* one without a body whose route throws leave their socket behind
\* (HttpProxy.java:26-151, httplib.java:84-115, HttpServer.java:96).
ConnectionEnds ==
    <>((\A e \in Ends : thread[e] \in {"none", "done"}) /\ (left \/ open = {}))

\* A client that asked for a tunnel hears that it stands before it hears the
\* server, unless that speaks unasked: the proxy's loop runs already when launch()
\* writes (HttpProxy.java:61-66, 137-141).
EstablishedFirst ==
    kind = "tunnel" /\ heard # <<>> /\ ~spokeFirst => heard[1] = "established"

\* A request is answered once, by one page or by the routes found for it, as far as none
\* of them throws, in however many pieces its body arrives: the first answer closes the
\* socket under the loop, which goes on reading (HttpServer.java:90-106).
AnsweredOnce ==
    kind = "request" =>
        heard = <<"page">> \/ \E k \in 0 .. routes : heard = [i \in 1 .. k |-> "route"]

=============================================================================
