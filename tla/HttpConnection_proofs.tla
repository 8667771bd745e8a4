------------------------ MODULE HttpConnection_proofs -----------------------
(***************************************************************************)
(* Theorems about HttpConnection, for any amount of data and any number of *)
(* routes.                                                                 *)
(***************************************************************************)
EXTENDS HttpConnection, SequenceTheorems, TLAPS

Words == {"established", "data", "route", "page"}

\* What has been read was sent.
Data ==
    /\ thread["to"] = "give" => sent["to"] > 0
    /\ IF kind = "request" THEN taken + queue["from"] <= sent["from"] ELSE taken = 0

\* A request has no proxy, and its answer closes the client's socket or ends the loop.
Request ==
    kind = "request" =>
        /\ thread["to"] = "none"
        /\ thread["from"] \notin {"connect", "launch", "head"}
        /\ heard = <<>> \/ "from" \notin open \/ thread["from"] \in Closing \cup {"done"}
        /\ AnsweredOnce

\* The server of a tunnel is asked only by a loop that has announced the tunnel, and
\* says nothing before it is asked.
Tunnel ==
    kind = "tunnel" /\ ~spokeFirst =>
        /\ heard # <<>> => heard[1] = "established"
        /\ thread["from"] \in Loop => heard # <<>>
        /\ asked => heard # <<>>
        /\ ~asked => sent["to"] = 0

IInv == TypeOK /\ Data /\ Request /\ Tunnel

LEMMA InvInit == Init => IInv
<1> SUFFICES ASSUME Init
             PROVE  IInv
  OBVIOUS
<1>1. MaxChunks["from"] \in Nat /\ MaxChunks["to"] \in Nat /\ MaxRoutes \in Nat
  BY BoundsAssumption DEF Ends
<1>2. need \in -1 .. MaxChunks["from"] /\ routes \in 0 .. MaxRoutes
  <2>1. CASE kind = "request"
    BY <2>1 DEF Init
  <2>2. CASE kind # "request"
    BY <1>1, <2>2 DEF Init
  <2> QED
    BY <2>1, <2>2
<1>3. /\ queue \in [Ends -> Nat] /\ sent \in [Ends -> Nat]
      /\ \A e \in Ends : queue[e] <= sent[e] /\ sent[e] <= MaxChunks[e]
  BY <1>1 DEF Init, Ends
<1>4. /\ thread \in [Ends -> ThreadStates] /\ remote \in [Ends -> RemoteStates]
      /\ open \subseteq Ends /\ streams \subseteq Ends
  BY DEF Init, Ends, ThreadStates, RemoteStates, Loop, Closing
<1>5. TypeOK
  <2>1. taken \in 0 .. MaxChunks["from"] /\ heard \in Seq(Words)
    BY <1>1 DEF Init
  <2> QED
    BY <1>2, <1>3, <1>4, <2>1 DEF Init, TypeOK, Words
<1>6. AnsweredOnce
  <2>1. <<>> = [i \in 1 .. 0 |-> "route"]
    OBVIOUS
  <2>2. 0 \in 0 .. routes
    BY <1>1, <1>2
  <2> QED
    BY <2>1, <2>2 DEF Init, AnsweredOnce
<1> QED
  BY <1>1, <1>5, <1>6 DEF Init, IInv, Data, Request, Tunnel, Ends, Loop

LEMMA Types ==
    ASSUME TypeOK
    PROVE  /\ MaxChunks["from"] \in Nat /\ MaxChunks["to"] \in Nat
           /\ queue["from"] \in Nat /\ queue["to"] \in Nat
           /\ sent["from"] \in Nat /\ sent["to"] \in Nat
           /\ thread["from"] \in ThreadStates /\ thread["to"] \in ThreadStates
  BY BoundsAssumption DEF TypeOK, Ends

\* Writing to the client adds to what it has heard, or does nothing.
LEMMA TellEffect ==
    ASSUME TypeOK, NEW what \in Seq(Words), Tell(what)
    PROVE  /\ heard' \in Seq(Words) /\ remote' \in [Ends -> RemoteStates]
           /\ heard' = IF Writable("from") THEN heard \o what ELSE heard
           /\ Writable("from") => "from" \in open
<1>1. heard \in Seq(Words)
  BY DEF TypeOK, Words
<1>2. heard' = IF Writable("from") THEN heard \o what ELSE heard
  BY DEF Tell
<1>3. heard' \in Seq(Words)
  <2>1. heard \o what \in Seq(Words)
    BY <1>1
  <2> QED
    BY <1>1, <1>2, <2>1
<1>4. remote' \in [Ends -> RemoteStates]
  BY DEF Tell, Hit, TypeOK, RemoteStates, Ends
<1> QED
  BY <1>2, <1>3, <1>4 DEF Writable

\* The steps that only move a thread, and close a socket or drop streams: the thread
\* neither enters a loop of HttpServer's, nor says anything, nor has read anything.
LEMMA MovesKeep ==
    ASSUME IInv, NEW e \in Ends, NEW to \in ThreadStates, thread' = [thread EXCEPT ![e] = to],
           e = "to" => to # "give",
           kind = "request" => e = "from" /\ to \notin {"connect", "launch", "head"},
           kind = "tunnel" /\ e = "from" /\ to \in Loop => thread[e] \in Loop,
           thread[e] \in Closing \cup {"done"} => to \in Closing \cup {"done"},
           open' \subseteq open, streams' \subseteq streams, left' \in BOOLEAN,
           UNCHANGED <<inputVars, taken, remoteVars, heard, asked, spokeFirst>>
    PROVE  IInv'
<1>1. /\ kind' = kind /\ need' = need /\ routes' = routes /\ taken' = taken
      /\ remote' = remote /\ queue' = queue /\ sent' = sent /\ heard' = heard
      /\ asked' = asked /\ spokeFirst' = spokeFirst
  BY DEF inputVars, remoteVars
<1>2. TypeOK'
  BY <1>1 DEF IInv, TypeOK
<1>3. /\ thread'["from"] = IF e = "from" THEN to ELSE thread["from"]
      /\ thread'["to"] = IF e = "to" THEN to ELSE thread["to"]
  BY DEF IInv, TypeOK, Ends
<1>4. Data'
  BY <1>1, <1>3 DEF IInv, Data
<1>5. Request'
  BY <1>1, <1>3 DEF IInv, Request, AnsweredOnce
<1>6. Tunnel'
  BY <1>1, <1>3 DEF IInv, Tunnel
<1> QED
  BY <1>2, <1>4, <1>5, <1>6 DEF IInv

-----------------------------------------------------------------------------
(* HttpServer's thread.                                                    *)

LEMMA ServerMoves ==
    ASSUME IInv,
           \/ ProxyDisabled \/ ProxyNameless \/ DoProxy \/ DoRequest \/ DoNothing
           \/ ConnectFails \/ Launch
    PROVE  IInv'
<1>1. PICK to \in {"done", "connect", "loop", "give", "head"} :
          /\ thread' = [thread EXCEPT !["from"] = to]
          /\ to \in {"connect", "head"} => kind # "request"
          /\ to \in {"loop", "give"} => kind = "request"
          /\ thread["from"] \in {"parsed", "connect", "launch"}
  BY DEF ProxyDisabled, ProxyNameless, DoProxy, DoRequest, DoNothing, ConnectFails, Launch,
         Goes, IInv, Request
<1>2. /\ open' \subseteq open /\ streams' \subseteq streams /\ left' \in BOOLEAN
      /\ UNCHANGED <<inputVars, taken, remoteVars, heard, asked, spokeFirst>>
  BY DEF ProxyDisabled, ProxyNameless, DoProxy, DoRequest, DoNothing, ConnectFails, Launch,
         historyVars, IInv, TypeOK
<1>3. "from" \in Ends /\ to \in ThreadStates
  BY DEF Ends, ThreadStates, Loop
<1> QED
  BY <1>1, <1>2, <1>3, MovesKeep DEF Loop, Closing

LEMMA ConnectKeeps ==
    ASSUME IInv, Connect
    PROVE  IInv'
<1>1. /\ thread["from"] = "connect"
      /\ thread' = [thread EXCEPT !["from"] = "launch", !["to"] = "loop"]
      /\ open' = open \cup {"to"} /\ streams' = streams \cup {"to"}
      /\ kind' = kind /\ need' = need /\ routes' = routes /\ taken' = taken
      /\ remote' = remote /\ queue' = queue /\ sent' = sent /\ heard' = heard
      /\ asked' = asked /\ spokeFirst' = spokeFirst /\ left' = left
  BY DEF Connect, inputVars, remoteVars, historyVars
<1>2. thread'["from"] = "launch" /\ thread'["to"] = "loop"
  BY <1>1 DEF IInv, TypeOK, Ends
<1>3. TypeOK'
  <2>1. thread' \in [Ends -> ThreadStates]
    BY <1>1 DEF IInv, TypeOK, ThreadStates, Loop
  <2>2. open' \subseteq Ends /\ streams' \subseteq Ends
    BY <1>1 DEF IInv, TypeOK, Ends
  <2> QED
    BY <1>1, <2>1, <2>2 DEF IInv, TypeOK
<1>4. kind # "request"
  BY <1>1 DEF IInv, Request
<1>5. Data' /\ Request'
  BY <1>1, <1>2, <1>4 DEF IInv, Data, Request
<1>6. Tunnel'
  BY <1>1, <1>2 DEF IInv, Tunnel, Loop
<1> QED
  BY <1>3, <1>5, <1>6 DEF IInv

LEMMA WriteHeadKeeps ==
    ASSUME IInv, WriteHead
    PROVE  IInv'
<1> DEFINE target == IF kind = "proxy" THEN "to" ELSE "from"
           to == IF Writable(target) THEN "loop" ELSE "done"
<1>1. /\ thread["from"] = "head" /\ thread' = [thread EXCEPT !["from"] = to]
      /\ open' = open /\ streams' = streams
      /\ kind' = kind /\ need' = need /\ routes' = routes /\ taken' = taken
      /\ queue' = queue /\ sent' = sent /\ spokeFirst' = spokeFirst /\ left' = left
  BY DEF WriteHead, inputVars, historyVars
<1>2. /\ kind # "request" /\ to \in ThreadStates
      /\ thread'["from"] = to /\ thread'["to"] = thread["to"]
  BY <1>1 DEF IInv, TypeOK, Request, Ends, ThreadStates, Loop
<1>3. Data' /\ Request'
  BY <1>1, <1>2 DEF IInv, Data, Request
<1>4. CASE kind = "tunnel"
  <2>1. Tell(<<"established">>) /\ asked' = asked
    BY <1>4 DEF WriteHead
  <2>2. <<"established">> \in Seq(Words)
    BY DEF Words
  <2>3. /\ heard' \in Seq(Words) /\ remote' \in [Ends -> RemoteStates]
        /\ heard' = IF Writable("from") THEN heard \o <<"established">> ELSE heard
    BY <2>1, <2>2, TellEffect DEF IInv
  <2>4. TypeOK'
    BY <1>1, <1>2, <2>1, <2>3 DEF IInv, TypeOK, Words
  <2>5. heard \in Seq(Words)
    BY DEF IInv, TypeOK, Words
  <2>6. CASE Writable("from")
    <3>1. heard' # <<>> /\ (heard # <<>> => heard'[1] = heard[1])
          /\ (heard = <<>> => heard'[1] = "established")
      BY <2>3, <2>5, <2>6
    <3>2. Tunnel'
      BY <1>1, <1>2, <2>1, <3>1 DEF IInv, Tunnel
    <3> QED
      BY <1>3, <2>4, <3>2 DEF IInv
  <2>7. CASE ~Writable("from")
    <3>1. heard' = heard /\ thread'["from"] = "done"
      BY <1>2, <1>4, <2>3, <2>7
    <3>2. Tunnel'
      BY <1>1, <2>1, <3>1 DEF IInv, Tunnel, Loop
    <3> QED
      BY <1>3, <2>4, <3>2 DEF IInv
  <2> QED
    BY <2>6, <2>7
<1>5. CASE kind # "tunnel"
  <2>1. heard' = heard /\ asked' \in BOOLEAN
    BY <1>5 DEF WriteHead, IInv, TypeOK
  <2>2. remote' \in [Ends -> RemoteStates]
    BY <1>5 DEF WriteHead, Hit, IInv, TypeOK, RemoteStates, Ends
  <2>3. TypeOK'
    BY <1>1, <1>2, <2>1, <2>2 DEF IInv, TypeOK
  <2>4. Tunnel'
    BY <1>1, <1>5 DEF Tunnel
  <2> QED
    BY <1>3, <2>3, <2>4 DEF IInv
<1> QED
  BY <1>4, <1>5

LEMMA AnswerWords ==
    ASSUME TypeOK
    PROVE  /\ routes \in Nat /\ <<"page">> \in Seq(Words)
           /\ \A k \in 0 .. routes : [i \in 1 .. k |-> "route"] \in Seq(Words)
<1>1. routes \in Nat
  BY BoundsAssumption DEF TypeOK
<1>2. ASSUME NEW k \in 0 .. routes
      PROVE  [i \in 1 .. k |-> "route"] \in Seq(Words)
  <2>1. k \in Nat
    BY <1>1
  <2> QED
    BY <2>1 DEF Words
<1>3. <<"page">> \in Seq(Words)
  BY DEF Words
<1> QED
  BY <1>1, <1>2, <1>3

\* The first answer finds the socket open, and closes it.
LEMMA RespondKeeps ==
    ASSUME IInv, Respond
    PROVE  IInv'
<1>1. /\ kind = "request" /\ thread["from"] = "give" /\ Tell(Answer)
      /\ open' = open \ {"from"} /\ streams' = streams
      /\ kind' = kind /\ need' = need /\ routes' = routes /\ taken' = taken
      /\ queue' = queue /\ sent' = sent /\ asked' = asked
      /\ spokeFirst' = spokeFirst /\ left' = left
  BY DEF Respond, Goes, inputVars, historyVars
<1>2. PICK to \in {"done", "loop"} : thread' = [thread EXCEPT !["from"] = to]
  BY DEF Respond, Goes
<1>3. to \in ThreadStates /\ thread'["from"] = to /\ thread'["to"] = thread["to"]
  BY <1>2 DEF IInv, TypeOK, Ends, ThreadStates, Loop
<1>4. Answer = <<"page">> \/ \E k \in 0 .. routes : Answer = [i \in 1 .. k |-> "route"]
  <2>1. routes \in 0 .. routes
    BY AnswerWords DEF IInv
  <2> QED
    BY <2>1 DEF Answer
<1>5. Answer \in Seq(Words)
  BY <1>4, AnswerWords DEF IInv
<1>6. /\ heard' \in Seq(Words) /\ remote' \in [Ends -> RemoteStates]
      /\ heard' = IF Writable("from") THEN heard \o Answer ELSE heard
      /\ Writable("from") => "from" \in open
  BY <1>1, <1>5, TellEffect DEF IInv
<1>7. TypeOK'
  <2>1. thread' \in [Ends -> ThreadStates]
    BY <1>2, <1>3 DEF IInv, TypeOK
  <2> QED
    BY <1>1, <1>6, <2>1 DEF IInv, TypeOK, Words
<1>8. Data'
  BY <1>1, <1>3 DEF IInv, Data
<1>9. heard' = heard \/ heard' = Answer
  <2>1. "from" \in open => heard = <<>>
    BY <1>1 DEF IInv, Request, Closing
  <2>2. <<>> \o Answer = Answer
    BY <1>5
  <2> QED
    BY <1>6, <2>1, <2>2
<1>10. Request'
  BY <1>1, <1>3, <1>4, <1>9 DEF IInv, Request, AnsweredOnce
<1>11. Tunnel'
  BY <1>1 DEF Tunnel
<1> QED
  BY <1>7, <1>8, <1>10, <1>11 DEF IInv

\* What the routes before the one that throws have said is the first answer, and the last.
LEMMA RouteThrowsKeeps ==
    ASSUME IInv, RouteThrows
    PROVE  IInv'
<1>1. PICK k \in 0 .. routes - 1 : Tell([i \in 1 .. k |-> "route"])
  BY DEF RouteThrows
<1>2. /\ kind = "request" /\ thread["from"] = "give"
      /\ open' = open /\ streams' = streams
      /\ kind' = kind /\ need' = need /\ routes' = routes /\ taken' = taken
      /\ queue' = queue /\ sent' = sent /\ asked' = asked
      /\ spokeFirst' = spokeFirst /\ left' \in BOOLEAN
  BY DEF RouteThrows, Goes, inputVars
<1>3. PICK to \in {"done", "ownClose"} : thread' = [thread EXCEPT !["from"] = to]
  BY DEF RouteThrows, Goes
<1>4. to \in ThreadStates /\ thread'["from"] = to /\ thread'["to"] = thread["to"]
  BY <1>3 DEF IInv, TypeOK, Ends, ThreadStates, Closing
<1> DEFINE said == [i \in 1 .. k |-> "route"]
<1>5. k \in 0 .. routes /\ said \in Seq(Words)
  <2>1. k \in 0 .. routes
    BY AnswerWords DEF IInv
  <2> QED
    BY <2>1, AnswerWords DEF IInv
<1>6. said = [i \in 1 .. k |-> "route"]
  OBVIOUS
<1>7. Tell(said)
  BY <1>1
<1> HIDE DEF said
<1>8. /\ heard' \in Seq(Words) /\ remote' \in [Ends -> RemoteStates]
      /\ heard' = IF Writable("from") THEN heard \o said ELSE heard
      /\ Writable("from") => "from" \in open
  BY <1>5, <1>7, TellEffect DEF IInv
<1>9. TypeOK'
  <2>1. thread' \in [Ends -> ThreadStates]
    BY <1>3, <1>4 DEF IInv, TypeOK
  <2> QED
    BY <1>2, <1>8, <2>1 DEF IInv, TypeOK, Words
<1>10. Data'
  BY <1>2, <1>4 DEF IInv, Data
<1>11. heard' = heard \/ heard' = said
  <2>1. "from" \in open => heard = <<>>
    BY <1>2 DEF IInv, Request, Closing
  <2>2. <<>> \o said = said
    BY <1>5
  <2> QED
    BY <1>8, <2>1, <2>2
<1>12. AnsweredOnce'
  BY <1>2, <1>5, <1>6, <1>11 DEF IInv, Request, AnsweredOnce
<1>13. Request'
  BY <1>2, <1>3, <1>4, <1>12 DEF IInv, Request, Closing
<1>14. Tunnel'
  BY <1>2 DEF Tunnel
<1> QED
  BY <1>9, <1>10, <1>13, <1>14 DEF IInv

-----------------------------------------------------------------------------
(* httplib.receive.                                                        *)

LEMMA ReceiveMoves ==
    ASSUME IInv, NEW e \in Ends, Enter(e) \/ ReadEnds(e) \/ ReadTimesOut(e) \/ Close(e)
    PROVE  IInv'
<1>1. thread[e] \in Loop \cup Closing
  BY DEF Enter, ReadEnds, ReadTimesOut, Stop, Close, CloseSocket, DropStreams, Goes, Loop, Closing
<1>2. PICK to \in {"read", "done"} \cup Closing :
          /\ thread' = [thread EXCEPT ![e] = to]
          /\ to = "read" => thread[e] = "loop"
  BY DEF Enter, ReadEnds, ReadTimesOut, Stop, Close, CloseSocket, DropStreams, Goes, Closing
<1>3. /\ open' \subseteq open /\ streams' \subseteq streams /\ left' = left
      /\ UNCHANGED <<inputVars, taken, remoteVars, heard, asked, spokeFirst>>
  BY DEF Enter, ReadEnds, ReadTimesOut, Close, CloseSocket, DropStreams, historyVars
<1>4. kind = "request" => e = "from"
  BY <1>1 DEF IInv, Request, Loop, Closing, Ends
<1>5. to \in ThreadStates /\ to \notin {"give", "connect", "launch", "head"}
  BY <1>2 DEF ThreadStates, Loop, Closing
<1>6. to \in Loop => thread[e] \in Loop
  BY <1>2 DEF Loop, Closing
<1>7. left' \in BOOLEAN
  BY <1>3 DEF IInv, TypeOK
<1>8. thread[e] \in Closing \cup {"done"} => to \in Closing \cup {"done"}
  BY <1>2 DEF Closing
<1> QED
  BY <1>2, <1>3, <1>4, <1>5, <1>6, <1>7, <1>8, MovesKeep

LEMMA ReadKeeps ==
    ASSUME IInv, NEW e \in Ends, Read(e)
    PROVE  IInv'
<1>1. PICK n \in 1 .. queue[e] :
          /\ queue' = [queue EXCEPT ![e] = @ - n]
          /\ taken' = IF kind = "request" THEN taken + n ELSE taken
  BY DEF Read
<1>2. /\ thread[e] = "read" /\ thread' = [thread EXCEPT ![e] = "give"]
      /\ open' = open /\ streams' = streams
      /\ kind' = kind /\ need' = need /\ routes' = routes /\ remote' = remote
      /\ sent' = sent /\ heard' = heard /\ asked' = asked
      /\ spokeFirst' = spokeFirst /\ left' = left
  BY DEF Read, Goes, inputVars, historyVars
<1>3. /\ queue[e] \in Nat /\ sent[e] \in Nat /\ queue[e] <= sent[e]
      /\ n \in Nat /\ n >= 1 /\ n <= queue[e]
  BY DEF IInv, TypeOK
<1>4. /\ queue'[e] = queue[e] - n
      /\ \A x \in Ends \ {e} : queue'[x] = queue[x]
      /\ thread'["from"] = IF e = "from" THEN "give" ELSE thread["from"]
      /\ thread'["to"] = IF e = "to" THEN "give" ELSE thread["to"]
  BY <1>1, <1>2 DEF IInv, TypeOK, Ends
<1>5. kind = "request" => e = "from"
  BY <1>2 DEF IInv, Request, Ends
<1>6. Data'
  <2>1. thread'["to"] = "give" => sent'["to"] > 0
    BY <1>2, <1>3, <1>4 DEF IInv, Data
  <2>2. CASE kind = "request"
    <3>1. taken' = taken + n /\ queue'["from"] = queue["from"] - n
      BY <1>1, <1>4, <1>5, <2>2
    <3>2. taken + queue["from"] <= sent["from"] /\ taken \in Nat
      BY <2>2, Types DEF IInv, Data, TypeOK
    <3>3. taken' + queue'["from"] <= sent["from"]
      BY <1>3, <1>5, <2>2, <3>1, <3>2, Types DEF IInv
    <3> QED
      BY <1>2, <2>1, <2>2, <3>3 DEF Data
  <2>3. CASE kind # "request"
    BY <1>1, <1>2, <2>1, <2>3 DEF IInv, Data
  <2> QED
    BY <2>2, <2>3
<1>7. TypeOK'
  <2>1. queue' \in [Ends -> Nat]
    BY <1>1, <1>3 DEF IInv, TypeOK
  <2>2. \A x \in Ends : queue'[x] <= sent'[x] /\ sent'[x] <= MaxChunks[x]
    <3>1. queue[e] - n <= sent[e]
      BY <1>3
    <3>2. \A x \in Ends : queue[x] <= sent[x] /\ sent[x] <= MaxChunks[x]
      BY DEF IInv, TypeOK
    <3>3. \A x \in Ends : queue'[x] <= sent[x]
      BY <1>4, <3>1, <3>2
    <3> QED
      BY <1>2, <3>2, <3>3
  <2>3. taken' \in 0 .. MaxChunks["from"]
    <3>1. CASE kind = "request"
      <4>1. taken + n <= sent["from"] /\ sent["from"] <= MaxChunks["from"]
        BY <1>3, <1>5, <3>1, Types DEF IInv, Data, TypeOK
      <4> QED
        BY <1>1, <1>3, <3>1, <4>1, Types, SMTT(30) DEF IInv, TypeOK
    <3>2. CASE kind # "request"
      BY <1>1, <3>2 DEF IInv, TypeOK
    <3> QED
      BY <3>1, <3>2
  <2>4. thread' \in [Ends -> ThreadStates]
    BY <1>2 DEF IInv, TypeOK, ThreadStates, Loop
  <2> QED
    BY <1>2, <2>1, <2>2, <2>3, <2>4 DEF IInv, TypeOK
<1>8. Request'
  <2>1. kind = "request" => heard = <<>> \/ "from" \notin open
    BY <1>2, <1>5 DEF IInv, Request, Closing
  <2> QED
    BY <1>2, <1>4, <1>5, <2>1 DEF IInv, Request, AnsweredOnce
<1>9. Tunnel'
  BY <1>2, <1>4 DEF IInv, Tunnel, Loop
<1> QED
  BY <1>6, <1>7, <1>8, <1>9 DEF IInv

LEMMA RelayKeeps ==
    ASSUME IInv, NEW e \in Ends, Relay(e)
    PROVE  IInv'
<1>1. /\ kind # "request" /\ thread[e] = "give" /\ thread' = [thread EXCEPT ![e] = "loop"]
      /\ open' = open /\ streams' = streams
      /\ kind' = kind /\ need' = need /\ routes' = routes /\ taken' = taken
      /\ queue' = queue /\ sent' = sent /\ spokeFirst' = spokeFirst /\ left' = left
  BY DEF Relay, Goes, inputVars, historyVars
<1>2. /\ thread'["from"] = IF e = "from" THEN "loop" ELSE thread["from"]
      /\ thread'["to"] = IF e = "to" THEN "loop" ELSE thread["to"]
      /\ thread' \in [Ends -> ThreadStates]
  BY <1>1 DEF IInv, TypeOK, Ends, ThreadStates, Loop
<1>3. Data' /\ Request'
  BY <1>1, <1>2 DEF IInv, Data, Request
<1>4. CASE e = "to"
  <2>1. Tell(<<"data">>) /\ asked' = asked
    BY <1>4 DEF Relay
  <2>2. <<"data">> \in Seq(Words) /\ heard \in Seq(Words)
    BY DEF IInv, TypeOK, Words
  <2>3. /\ heard' \in Seq(Words) /\ remote' \in [Ends -> RemoteStates]
        /\ heard' = IF Writable("from") THEN heard \o <<"data">> ELSE heard
    BY <2>1, <2>2, TellEffect DEF IInv
  <2>4. TypeOK'
    BY <1>1, <1>2, <2>1, <2>3 DEF IInv, TypeOK, Words
  <2>5. kind = "tunnel" /\ ~spokeFirst => heard # <<>>
    BY <1>1, <1>4, Types DEF IInv, Data, Tunnel
  <2>6. heard # <<>> => heard' # <<>> /\ heard'[1] = heard[1]
    BY <2>2, <2>3
  <2>7. Tunnel'
    BY <1>1, <1>2, <1>4, <2>1, <2>5, <2>6 DEF IInv, Tunnel
  <2> QED
    BY <1>3, <2>4, <2>7 DEF IInv
<1>5. CASE e = "from"
  <2>1. heard' = heard /\ asked' \in BOOLEAN /\ (asked => asked')
    BY <1>5 DEF Relay, IInv, TypeOK
  <2>2. remote' \in [Ends -> RemoteStates]
    BY <1>5 DEF Relay, Hit, IInv, TypeOK, RemoteStates, Ends
  <2>3. TypeOK'
    BY <1>1, <1>2, <2>1, <2>2 DEF IInv, TypeOK
  <2>4. Tunnel'
    BY <1>1, <1>2, <1>5, <2>1 DEF IInv, Tunnel, Loop
  <2> QED
    BY <1>3, <2>3, <2>4 DEF IInv
<1> QED
  BY <1>4, <1>5 DEF Ends

-----------------------------------------------------------------------------
(* The remote ends.                                                        *)

LEMMA SendKeeps ==
    ASSUME IInv, NEW e \in Ends, Send(e)
    PROVE  IInv'
<1>1. /\ sent[e] < MaxChunks[e]
      /\ queue' = [queue EXCEPT ![e] = @ + 1] /\ sent' = [sent EXCEPT ![e] = @ + 1]
      /\ spokeFirst' = (spokeFirst \/ (e = "to" /\ kind = "tunnel" /\ ~asked))
      /\ kind' = kind /\ need' = need /\ routes' = routes
      /\ thread' = thread /\ open' = open /\ streams' = streams /\ taken' = taken
      /\ remote' = remote /\ heard' = heard /\ asked' = asked /\ left' = left
  BY DEF Send, inputVars, objectVars
<1>2. /\ queue[e] \in Nat /\ sent[e] \in Nat /\ MaxChunks[e] \in Nat
      /\ queue[e] <= sent[e]
  BY BoundsAssumption DEF IInv, TypeOK
<1>3. /\ queue'[e] = queue[e] + 1 /\ sent'[e] = sent[e] + 1
      /\ \A x \in Ends \ {e} : queue'[x] = queue[x] /\ sent'[x] = sent[x]
      /\ "from" \in Ends /\ "to" \in Ends
  BY <1>1 DEF IInv, TypeOK, Ends
<1>4. TypeOK'
  <2>1. queue' \in [Ends -> Nat] /\ sent' \in [Ends -> Nat]
    BY <1>1, <1>2 DEF IInv, TypeOK
  <2>2. \A x \in Ends : queue'[x] <= sent'[x] /\ sent'[x] <= MaxChunks[x]
    BY <1>1, <1>2, <1>3 DEF IInv, TypeOK
  <2>3. spokeFirst' \in BOOLEAN
    BY <1>1 DEF IInv, TypeOK
  <2> QED
    BY <1>1, <2>1, <2>2, <2>3 DEF IInv, TypeOK
<1>5. Data'
  <2>1. thread'["to"] = "give" => sent'["to"] > 0
    BY <1>1, <1>2, <1>3 DEF IInv, Data
  <2>2. kind = "request" => taken' + queue'["from"] <= sent'["from"]
    <3>1. kind = "request" => taken + queue["from"] <= sent["from"]
      BY DEF IInv, Data
    <3>2. taken \in Int
      BY DEF IInv, TypeOK
    <3>3. CASE e = "from"
      BY <1>1, <1>2, <1>3, <3>1, <3>2, <3>3
    <3>4. CASE e # "from"
      BY <1>1, <1>3, <3>1, <3>4
    <3> QED
      BY <3>3, <3>4
  <2> QED
    BY <1>1, <2>1, <2>2 DEF IInv, Data
<1>6. Request'
  BY <1>1 DEF IInv, Request, AnsweredOnce
<1>7. Tunnel'
  BY <1>1, <1>3 DEF IInv, Tunnel
<1> QED
  BY <1>4, <1>5, <1>6, <1>7 DEF IInv

LEMMA LeaveKeeps ==
    ASSUME IInv, NEW e \in Ends, Leave(e)
    PROVE  IInv'
<1>1. /\ kind' = kind /\ need' = need /\ routes' = routes
      /\ thread' = thread /\ open' = open /\ streams' = streams /\ taken' = taken
      /\ queue' = queue /\ sent' = sent /\ heard' = heard /\ asked' = asked
      /\ spokeFirst' = spokeFirst /\ left' = left
  BY DEF Leave, inputVars, objectVars, historyVars
<1>2. remote' \in [Ends -> RemoteStates]
  BY DEF Leave, IInv, TypeOK, RemoteStates
<1>3. TypeOK'
  BY <1>1, <1>2 DEF IInv, TypeOK
<1> QED
  BY <1>1, <1>3 DEF IInv, Data, Request, Tunnel, AnsweredOnce

LEMMA InvStep == IInv /\ [Next]_vars => IInv'
<1> SUFFICES ASSUME IInv, [Next]_vars
             PROVE  IInv'
  OBVIOUS
<1>1. CASE ServerStep
  BY <1>1, ServerMoves, ConnectKeeps, WriteHeadKeeps, RespondKeeps, RouteThrowsKeeps DEF ServerStep
<1>2. ASSUME NEW e \in Ends, ReceiveStep(e)
      PROVE  IInv'
  BY <1>2, ReceiveMoves, ReadKeeps, RelayKeeps DEF ReceiveStep
<1>3. CASE UNCHANGED vars
  <2>1. /\ kind' = kind /\ need' = need /\ routes' = routes
        /\ thread' = thread /\ open' = open /\ streams' = streams /\ taken' = taken
        /\ remote' = remote /\ queue' = queue /\ sent' = sent /\ heard' = heard
        /\ asked' = asked /\ spokeFirst' = spokeFirst /\ left' = left
    BY <1>3 DEF vars, inputVars, objectVars, remoteVars, historyVars
  <2> QED
    BY <2>1 DEF IInv, TypeOK, Data, Request, Tunnel, AnsweredOnce
<1> QED
  BY <1>1, <1>2, <1>3, SendKeeps, LeaveKeeps DEF Next

-----------------------------------------------------------------------------

\* Every variable keeps its type, and no more is read than was sent
\* (HttpConnection!TypeOK).
THEOREM TypeCorrect == Spec => []TypeOK
<1>1. IInv => TypeOK
  BY DEF IInv
<1> QED
  BY <1>1, InvInit, InvStep, PTL DEF Spec

\* In however many pieces a body arrives, and however many routes there are or throw, a
\* request is answered once (HttpConnection!AnsweredOnce).
THEOREM OneAnswer == Spec => []AnsweredOnce
<1>1. IInv => AnsweredOnce
  BY DEF IInv, Request, AnsweredOnce
<1> QED
  BY <1>1, InvInit, InvStep, PTL DEF Spec

\* A client hears that its tunnel stands before it hears the server, unless that spoke
\* unasked (HttpConnection!EstablishedFirst).
THEOREM TunnelAnnounced == Spec => []EstablishedFirst
<1>1. IInv => EstablishedFirst
  BY DEF IInv, Tunnel, EstablishedFirst
<1> QED
  BY <1>1, InvInit, InvStep, PTL DEF Spec

=============================================================================
