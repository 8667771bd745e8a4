------------------------ MODULE ForwardSession_proofs -----------------------
(***************************************************************************)
(* Theorems about ForwardSession, for any set of connections and any       *)
(* bounds on what the remote ends do; and the proof that it implements     *)
(* ForwardService, by the mapping of ForwardSessionService.                *)
(***************************************************************************)
EXTENDS ForwardSessionService, TLAPS

\* Every variable keeps its type (ForwardSession!TypeOK).
THEOREM TypeCorrect == Spec => []TypeOK
<1>1. Init => TypeOK
  BY DEF Init, TypeOK, Threads, Ends, NoThread, MainStates, ThreadStates,
         ClosingStates, EndStates
<1>2. TypeOK /\ [Next]_vars => TypeOK'
  <2> SUFFICES ASSUME TypeOK, [Next]_vars
               PROVE  TypeOK'
    OBVIOUS
  <2> USE DEF TypeOK, Threads, MainStates, ThreadStates, ClosingStates, threadVars,
              remoteVars, historyVars
  <2>0. \A c \in Clients, e \in Ends : <<c, e>> \in Threads /\ <<c, Other(e)>> \in Threads
    BY DEF Ends, Other
  <2>1. ASSUME NEW c \in Clients, HandshakeFails(c) \/ Refuse(c) \/ Connect(c)
        PROVE  TypeOK'
    BY <2>1 DEF HandshakeFails, Refuse, Connect
  <2>2. ASSUME NEW c \in Clients, MainStep(c)
        PROVE  TypeOK'
    <3>1. CASE OpenStreams(c)
      BY <3>1 DEF OpenStreams
    <3>2. ASSUME NEW e \in Ends, NEW from \in MainStates, NEW to \in MainStates,
                 StartThread(c, e, from, to)
          PROVE  TypeOK'
      BY <2>0, <3>2 DEF StartThread
    <3> QED
      BY <2>2, <3>1, <3>2 DEF MainStep, StartClientForward, StartServerForward, Ends
  <2>3. ASSUME NEW c \in Clients, NEW e \in Ends,
               ReadData(c, e) \/ ReadEnd(c, e) \/ ReadFails(c, e)
        PROVE  TypeOK'
    <3>1. fwd' \in [Threads -> ThreadStates]
      BY <2>0, <2>3 DEF ReadData, ReadEnd, ReadFails, Goto, Finish
    <3>2. queue' \in [Threads -> Nat]
      <4>1. CASE ReadData(c, e)
        <5>1. queue[<<c, e>>] \in Nat /\ queue[<<c, e>>] - 1 \in Nat
          BY <2>0, <4>1 DEF ReadData
        <5> QED
          BY <2>0, <4>1, <5>1 DEF ReadData
      <4> QED
        BY <2>3, <4>1 DEF ReadEnd, ReadFails
    <3> QED
      BY <2>3, <3>1, <3>2 DEF ReadData, ReadEnd, ReadFails
  <2>4. ASSUME NEW c \in Clients, NEW e \in Ends, Write(c, e) \/ WriteFails(c, e)
        PROVE  TypeOK'
    <3>1. fwd' \in [Threads -> ThreadStates]
      BY <2>0, <2>4 DEF Write, WriteFails, Goto, Finish
    <3>2. end' \in [Threads -> EndStates]
      BY <2>0, <2>4, ZenonT(40) DEF Write, WriteFails, EndStates
    <3>3. wrote' \subseteq Clients /\ dropped' \subseteq Threads
      BY <2>0, <2>4 DEF Write, WriteFails
    <3> QED
      BY <2>4, <3>1, <3>2, <3>3 DEF Write, WriteFails
  <2>5. ASSUME NEW c \in Clients, ClearFlag(c) \/ SetFlag(c) \/ TestFlag(c)
        PROVE  TypeOK'
    <3>1. fwd' \in [Threads -> ThreadStates]
      BY <2>0, <2>5 DEF ClearFlag, SetFlag, TestFlag, Goto, Ends
    <3>2. canBroke' \in [Clients -> BOOLEAN]
      BY <2>5 DEF ClearFlag, SetFlag, TestFlag
    <3> QED
      BY <2>5, <3>1, <3>2 DEF ClearFlag, SetFlag, TestFlag
  <2>6. ASSUME NEW c \in Clients, NEW e \in Ends, BrokenStep(c, e)
        PROVE  TypeOK'
    <3>1. CASE Enter(c, e)
      <4>1. CASE both[c]
        <5>1. fwd' = [fwd EXCEPT ![<<c, e>>] = "closeServer"]
          BY <3>1, <4>1 DEF Enter, Goto
        <5>2. monitor' \in [Clients -> Ends \cup {NoThread}]
          BY <3>1, <4>1 DEF Enter
        <5> QED
          BY <2>0, <3>1, <4>1, <5>1, <5>2 DEF Enter
      <4>2. CASE ~both[c]
        BY <2>0, <3>1, <4>2 DEF Enter, Goto
      <4> QED
        BY <4>1, <4>2
    <3>2. ASSUME NEW s \in Ends, NEW from \in ThreadStates, NEW to \in ThreadStates,
                 CloseSocket(c, e, s, from, to)
          PROVE  TypeOK'
      BY <2>0, <3>2 DEF CloseSocket, Goto
    <3>3. CASE ClearBoth(c, e)
      BY <2>0, <3>3 DEF ClearBoth, Goto
    <3>4. CASE Account(c, e)
      BY <2>0, <3>4 DEF Account, Goto, NoThread
    <3> QED
      BY <2>6, <3>1, <3>2, <3>3, <3>4
         DEF BrokenStep, CloseServerSocket, CloseClientSocket, Ends
  <2>7. ASSUME NEW c \in Clients, NEW e \in Ends, Send(c, e)
        PROVE  TypeOK'
    BY <2>0, <2>7 DEF Send
  <2>8. ASSUME NEW c \in Clients, NEW e \in Ends, EndMoves(c, e)
        PROVE  TypeOK'
    <3>1. end' \in [Threads -> EndStates]
      BY <2>0, <2>8, BoundsAssumption DEF EndMoves, EndStates
    <3> QED
      BY <2>8, <3>1 DEF EndMoves
  <2>9. CASE UNCHANGED vars
    BY <2>9 DEF vars
  <2> QED
    BY <2>1, <2>2, <2>3, <2>4, <2>5, <2>6, <2>7, <2>8, <2>9
       DEF Next, ThreadStep, PumpStep, RemoteStep
<1> QED
  BY <1>1, <1>2, PTL DEF Spec

-----------------------------------------------------------------------------
(* The flag canBrokeClientConnection.                                      *)

\* Moving one thread moves no other.
LEMMA GotoMoves ==
    ASSUME TypeOK, NEW c \in Clients, NEW e \in Ends, NEW state \in ThreadStates,
           fwd' = [fwd EXCEPT ![<<c, e>>] = state]
    PROVE  \A d \in Clients, x \in Ends :
               fwd'[<<d, x>>] = IF d = c /\ x = e THEN state ELSE fwd[<<d, x>>]
<1>1. \A t \in Threads : fwd'[t] = IF t = <<c, e>> THEN state ELSE fwd[t]
  BY DEF TypeOK
<1>2. \A d \in Clients, x \in Ends :
          <<d, x>> \in Threads /\ (<<d, x>> = <<c, e>> <=> d = c /\ x = e)
  BY DEF Threads
<1> QED
  BY <1>1, <1>2

\* The flag is raised, and a teardown begun by the thread from the server, only
\* after client data went out.
FlagOf(c) ==
    /\ canBroke[c] =>
          fwd[<<c, "client">>] \notin {"none", "write", "setFlag"} /\ c \in wrote
    /\ fwd[<<c, "client">>] = "setFlag" => c \in wrote
    /\ fwd[<<c, "server">>] \in {"call"} \cup ClosingStates => c \in wrote

FlagInv == \A c \in Clients : FlagOf(c)

\* A thread that moves without touching the flag keeps FlagInv, unless it moves
\* to a write or begins a teardown.
LEMMA FlagStep ==
    ASSUME TypeOK, FlagInv, NEW c \in Clients, NEW e \in Ends,
           NEW state \in ThreadStates, fwd' = [fwd EXCEPT ![<<c, e>>] = state],
           canBroke' = canBroke, wrote' = wrote,
           state \notin {"none", "write", "setFlag"},
           e = "server" /\ state \in {"call"} \cup ClosingStates
               => fwd[<<c, e>>] \in {"call"} \cup ClosingStates
    PROVE  FlagInv'
<1>1. \A d \in Clients, x \in Ends :
          fwd'[<<d, x>>] = IF d = c /\ x = e THEN state ELSE fwd[<<d, x>>]
  BY GotoMoves DEF Goto
<1> QED
  BY <1>1 DEF FlagInv, FlagOf, Ends

LEMMA FlagInductive == TypeOK /\ FlagInv /\ [Next]_vars => FlagInv'
<1> SUFFICES ASSUME TypeOK, FlagInv, [Next]_vars
             PROVE  FlagInv'
  OBVIOUS
<1>0. "read" \in ThreadStates
  BY DEF ThreadStates
<1>1. ASSUME fwd' = fwd, canBroke' = canBroke, wrote' = wrote
      PROVE  FlagInv'
  BY <1>1 DEF FlagInv, FlagOf
<1>2. ASSUME NEW c \in Clients, NEW e \in Ends,
             ReadEnd(c, e) \/ ReadFails(c, e)
      PROVE  FlagInv'
  <2>1. PICK state \in ThreadStates :
            /\ Goto(c, e, state)
            /\ state \in {"gotEnd", "test", "call"}
            /\ state = "call" => e = "client"
    BY <1>2 DEF ReadEnd, ReadFails, Finish, Ends, ThreadStates
  <2>2. canBroke' = canBroke /\ wrote' = wrote
    BY <1>2 DEF ReadEnd, ReadFails, historyVars
  <2> QED
    BY <2>1, <2>2, FlagStep DEF Goto, ClosingStates
<1>3. ASSUME NEW c \in Clients, NEW e \in Ends, ReadData(c, e)
      PROVE  FlagInv'
  <2>1. PICK state \in ThreadStates :
            Goto(c, e, state) /\ state = IF e = "client" THEN "gotData" ELSE "write"
    BY <1>3 DEF ReadData, ThreadStates
  <2>2. canBroke' = canBroke /\ wrote' = wrote
    BY <1>3 DEF ReadData, historyVars
  <2>3. \A d \in Clients, x \in Ends :
            fwd'[<<d, x>>] = IF d = c /\ x = e THEN state ELSE fwd[<<d, x>>]
    BY <2>1, GotoMoves DEF Goto
  <2> QED
    BY <2>1, <2>2, <2>3 DEF FlagInv, FlagOf, Ends, ClosingStates
<1>4. ASSUME NEW c \in Clients, ClearFlag(c)
      PROVE  FlagInv'
  <2>1. PICK state \in ThreadStates :
            Goto(c, "client", state) /\ state \in {"write", "call"}
    BY <1>4 DEF ClearFlag, ThreadStates
  <2>2. \A d \in Clients, x \in Ends :
            fwd'[<<d, x>>] = IF d = c /\ x = "client" THEN state ELSE fwd[<<d, x>>]
    BY <1>0, <2>1, GotoMoves DEF Goto, Ends
  <2>3. \A d \in Clients : canBroke'[d] = IF d = c THEN FALSE ELSE canBroke[d]
    BY <1>4 DEF ClearFlag, TypeOK
  <2>4. wrote' = wrote
    BY <1>4 DEF ClearFlag, historyVars
  <2> QED
    BY <2>1, <2>2, <2>3, <2>4 DEF FlagInv, FlagOf, Ends
<1>5. ASSUME NEW c \in Clients, SetFlag(c)
      PROVE  FlagInv'
  <2>1. \A d \in Clients, x \in Ends :
            fwd'[<<d, x>>] = IF d = c /\ x = "client" THEN "read" ELSE fwd[<<d, x>>]
    BY <1>0, <1>5, GotoMoves DEF Goto, SetFlag, Ends
  <2>2. \A d \in Clients : canBroke'[d] = IF d = c THEN TRUE ELSE canBroke[d]
    BY <1>5 DEF SetFlag, TypeOK
  <2>3. wrote' = wrote /\ c \in wrote
    BY <1>5 DEF SetFlag, historyVars, FlagInv, FlagOf
  <2> QED
    BY <2>1, <2>2, <2>3 DEF FlagInv, FlagOf, Ends
<1>6. ASSUME NEW c \in Clients, TestFlag(c)
      PROVE  FlagInv'
  <2>1. PICK state \in ThreadStates :
            /\ Goto(c, "server", state)
            /\ state \in {"call", "done"}
            /\ state = "call" => canBroke[c]
    BY <1>6 DEF TestFlag, ThreadStates
  <2>2. \A d \in Clients, x \in Ends :
            fwd'[<<d, x>>] = IF d = c /\ x = "server" THEN state ELSE fwd[<<d, x>>]
    BY <1>0, <2>1, GotoMoves DEF Goto, Ends
  <2>3. wrote' = wrote /\ canBroke' = canBroke /\ (state = "call" => c \in wrote)
    BY <1>6, <2>1 DEF TestFlag, historyVars, FlagInv, FlagOf
  <2> QED
    BY <2>1, <2>2, <2>3 DEF FlagInv, FlagOf, Ends, ClosingStates
<1>7. ASSUME NEW c \in Clients, NEW e \in Ends, Write(c, e)
      PROVE  FlagInv'
  <2>1. PICK state \in ThreadStates :
            /\ Goto(c, e, state)
            /\ state \in {"setFlag", "read"}
            /\ state = "setFlag" => e = "client" /\ c \in wrote'
    BY <1>7 DEF Write, ThreadStates
  <2>2. \A d \in Clients, x \in Ends :
            fwd'[<<d, x>>] = IF d = c /\ x = e THEN state ELSE fwd[<<d, x>>]
    BY <1>0, <2>1, GotoMoves, ZenonT(40) DEF Goto
  <2>3. wrote \subseteq wrote' /\ canBroke' = canBroke /\ fwd[<<c, e>>] = "write"
    BY <1>7 DEF Write
  <2> QED
    BY <2>1, <2>2, <2>3 DEF FlagInv, FlagOf, Ends, ClosingStates
<1>8. ASSUME NEW c \in Clients, NEW e \in Ends, WriteFails(c, e)
      PROVE  FlagInv'
  <2>1. PICK state \in ThreadStates :
            /\ Goto(c, e, state)
            /\ state \in {"call", "test"}
            /\ state = "call" => e = "client"
    BY <1>8 DEF WriteFails, Finish, Ends, ThreadStates
  <2>2. canBroke' = canBroke /\ wrote' = wrote
    BY <1>8 DEF WriteFails
  <2> QED
    BY <2>1, <2>2, FlagStep DEF Goto, ClosingStates
<1>9. ASSUME NEW c \in Clients, NEW e \in Ends, BrokenStep(c, e)
      PROVE  FlagInv'
  <2>1. PICK state \in ThreadStates :
            Goto(c, e, state) /\ state \in ClosingStates \cup {"done"}
    BY <1>9 DEF ThreadStates, BrokenStep, Enter, CloseServerSocket, CloseClientSocket, CloseSocket,
                ClearBoth, Account, ClosingStates
  <2>2. fwd[<<c, e>>] \in {"call"} \cup ClosingStates
    BY <1>9 DEF BrokenStep, Enter, CloseServerSocket, CloseClientSocket, CloseSocket,
                ClearBoth, Account, ClosingStates
  <2>3. canBroke' = canBroke /\ wrote' = wrote
    BY <1>9 DEF BrokenStep, Enter, CloseServerSocket, CloseClientSocket, CloseSocket,
                ClearBoth, Account, historyVars
  <2> QED
    BY <2>1, <2>2, <2>3, FlagStep DEF Goto, ClosingStates
<1>10. ASSUME NEW c \in Clients, NEW e \in Ends, NEW from \in MainStates,
              NEW to \in MainStates, StartThread(c, e, from, to)
       PROVE  FlagInv'
  <2>1. Goto(c, e, "read") /\ canBroke' = canBroke /\ wrote' = wrote
    BY <1>10 DEF StartThread, Goto, historyVars
  <2> QED
    <3>1. \A d \in Clients, x \in Ends :
              fwd'[<<d, x>>] = IF d = c /\ x = e THEN "read" ELSE fwd[<<d, x>>]
      BY <1>0, <2>1, GotoMoves DEF Goto
    <3> QED
      BY <2>1, <3>1 DEF FlagInv, FlagOf, Ends, ClosingStates
<1>11. ASSUME NEW c \in Clients,
              HandshakeFails(c) \/ Refuse(c) \/ Connect(c) \/ OpenStreams(c)
       PROVE  FlagInv'
  BY <1>1, <1>11 DEF HandshakeFails, Refuse, Connect, OpenStreams, threadVars, historyVars
<1>12. ASSUME NEW c \in Clients, NEW e \in Ends, RemoteStep(c, e)
       PROVE  FlagInv'
  BY <1>1, <1>12 DEF RemoteStep, Send, EndMoves, threadVars, historyVars
<1>13. CASE UNCHANGED vars
  BY <1>1, <1>13 DEF vars, threadVars, historyVars
<1>14. ASSUME NEW c \in Clients, NEW e \in Ends, PumpStep(c, e)
       PROVE  FlagInv'
  <2>1. CASE ReadData(c, e) \/ ReadEnd(c, e) \/ ReadFails(c, e)
    BY <1>2, <1>3, <2>1
  <2>2. CASE Write(c, e) \/ WriteFails(c, e)
    BY <1>7, <1>8, <2>2
  <2>3. CASE ClearFlag(c) \/ SetFlag(c) \/ TestFlag(c)
    BY <1>4, <1>5, <1>6, <2>3
  <2> QED
    BY <1>14, <2>1, <2>2, <2>3 DEF PumpStep
<1>15. ASSUME NEW c \in Clients, MainStep(c)
       PROVE  FlagInv'
  BY <1>10, <1>11, <1>15
     DEF MainStep, StartClientForward, StartServerForward, Ends, MainStates
<1> QED
  BY <1>9, <1>11, <1>12, <1>13, <1>14, <1>15 DEF Next, ThreadStep

\* A server that hangs up first cannot bring down a connection on which nothing of
\* the client was forwarded (ForwardSession!NoTeardownBeforeRequest).
THEOREM RequestFirst == Spec => []NoTeardownBeforeRequest
<1>1. Init => FlagInv
  BY DEF Init, FlagInv, FlagOf, Threads, Ends, ClosingStates
<1>2. FlagInv => NoTeardownBeforeRequest
  BY DEF FlagInv, FlagOf, NoTeardownBeforeRequest
<1> QED
  BY <1>1, <1>2, TypeCorrect, FlagInductive, PTL DEF Spec

-----------------------------------------------------------------------------
(* connectionBroken: a connection is released exactly once.                *)

Up(c) ==
    /\ both[c]
    /\ sock[<<c, "client">>]
    /\ sock[<<c, "server">>]
    /\ released[c] = 0

Down(c) ==
    /\ ~both[c]
    /\ ~sock[<<c, "client">>]
    /\ ~sock[<<c, "server">>]
    /\ released[c] = 1

\* Before the streams are open nothing is released, and no thread runs before it
\* is started.
BeforeStart(c) ==
    /\ main[c] \in {"connecting", "refused", "streams", "failed"}
          => ~both[c] /\ released[c] = 0
    /\ main[c] \in {"connecting", "refused", "streams", "failed", "startClient"}
          => fwd[<<c, "client">>] = "none" /\ fwd[<<c, "server">>] = "none"
    /\ main[c] = "startServer" => fwd[<<c, "server">>] = "none"
    /\ main[c] = "streams" => sock[<<c, "server">>]

\* What the owner of the monitor has done of connectionBroken.
Stage(c, state) ==
    /\ state = "closeServer" => Up(c)
    /\ state = "closeClient" =>
          both[c] /\ ~sock[<<c, "server">>] /\ released[c] = 0
    /\ state = "clearBoth" =>
          both[c] /\ ~sock[<<c, "server">>] /\ ~sock[<<c, "client">>] /\ released[c] = 0
    /\ state = "account" =>
          ~both[c] /\ ~sock[<<c, "server">>] /\ ~sock[<<c, "client">>] /\ released[c] = 0

\* The threads of connection c: the one inside connectionBroken owns the monitor.
Monitor(c) ==
    /\ fwd[<<c, "client">>] \in ClosingStates <=> monitor[c] = "client"
    /\ fwd[<<c, "server">>] \in ClosingStates <=> monitor[c] = "server"

Conn(c) ==
    /\ BeforeStart(c)
    /\ Monitor(c)
    /\ main[c] \in {"startClient", "startServer", "started"} =>
          /\ monitor[c] = NoThread => Up(c) \/ Down(c)
          /\ \A e \in Ends : Stage(c, fwd[<<c, e>>])

ConnInv == \A c \in Clients : Conn(c)

LEMMA ConnImplies == TypeOK /\ ConnInv => ReleasedOnce
<1> SUFFICES ASSUME TypeOK, ConnInv, NEW c \in Clients,
                    main[c] \in {"startClient", "startServer", "started"}, ~Closing(c)
             PROVE  Up(c) \/ Down(c)
  BY DEF ReleasedOnce, Up, Down
<1>1. fwd[<<c, "client">>] \notin ClosingStates /\ fwd[<<c, "server">>] \notin ClosingStates
  BY DEF Closing, Ends
<1> QED
  BY <1>1 DEF ConnInv, Conn, Monitor, TypeOK, Ends

\* What a step leaves alone of connection d.
Same(d) ==
    /\ main'[d] = main[d] /\ both'[d] = both[d]
    /\ monitor'[d] = monitor[d] /\ released'[d] = released[d]
    /\ \A x \in Ends : fwd'[<<d, x>>] = fwd[<<d, x>>] /\ sock'[<<d, x>>] = sock[<<d, x>>]

LEMMA ConnSame ==
    ASSUME NEW d \in Clients, Conn(d), Same(d)
    PROVE  Conn(d)'
  BY DEF Same, Conn, BeforeStart, Monitor, Up, Down, Stage, Ends

\* The steps of connection c that leave everything but the state of one thread,
\* which is, and stays, outside connectionBroken.
LEMMA ConnMoves ==
    ASSUME TypeOK, ConnInv, NEW c \in Clients, NEW e \in Ends,
           NEW state \in ThreadStates, fwd' = [fwd EXCEPT ![<<c, e>>] = state],
           fwd[<<c, e>>] \notin ClosingStates \cup {"none"}, state \notin ClosingStates,
           main' = main, both' = both, monitor' = monitor, released' = released,
           sock' = sock
    PROVE  ConnInv'
<1>1. \A d \in Clients, x \in Ends :
          fwd'[<<d, x>>] = IF d = c /\ x = e THEN state ELSE fwd[<<d, x>>]
  BY GotoMoves
<1>2. \A d \in Clients \ {c} : Same(d)
  BY <1>1 DEF Same
<1>3. Conn(c)'
  <2>1. Conn(c)
    BY DEF ConnInv
  <2>2. BeforeStart(c)'
    BY <1>1, <2>1 DEF Conn, BeforeStart, Ends
  <2>3. Monitor(c)'
    BY <1>1, <2>1 DEF Conn, Monitor, Ends
  <2>4. \A x \in Ends : main[c] \in {"startClient", "startServer", "started"}
            => Stage(c, fwd[<<c, x>>])'
    BY <1>1, <2>1 DEF Conn, Stage, Up, ClosingStates, Ends
  <2> QED
    BY <2>1, <2>2, <2>3, <2>4 DEF Conn, Up, Down
<1> QED
  BY <1>2, <1>3, ConnSame DEF ConnInv

LEMMA ConnInductive == TypeOK /\ ConnInv /\ [Next]_vars => ConnInv'
<1> SUFFICES ASSUME TypeOK, ConnInv, [Next]_vars
             PROVE  ConnInv'
  OBVIOUS
<1>1. ASSUME NEW c \in Clients, \A d \in Clients \ {c} : Same(d), Conn(c)'
      PROVE  ConnInv'
  BY <1>1, ConnSame DEF ConnInv
<1>2. ASSUME main' = main, fwd' = fwd, sock' = sock, both' = both, monitor' = monitor,
             released' = released
      PROVE  ConnInv'
  BY <1>2, ConnSame DEF ConnInv, Same
<1>3. \A c, d \in Clients, x, y \in Ends :
          <<c, x>> \in Threads /\ (<<d, x>> = <<c, y>> <=> d = c /\ x = y)
  BY DEF Threads
<1>4. ASSUME NEW c \in Clients, HandshakeFails(c)
      PROVE  ConnInv'
  <2>1. \A d \in Clients \ {c} : Same(d)
    BY <1>3, <1>4 DEF HandshakeFails, Same, threadVars, historyVars, TypeOK, Ends
  <2>2. Conn(c)'
    BY <1>4 DEF HandshakeFails, Conn, ConnInv, BeforeStart, Monitor, threadVars,
                historyVars, Ends
  <2> QED
    BY <1>1, <2>1, <2>2
<1>5. ASSUME NEW c \in Clients, Refuse(c) \/ Connect(c)
      PROVE  ConnInv'
  <2>1. \A d \in Clients \ {c} : Same(d)
    BY <1>3, <1>5 DEF Refuse, Connect, Same, historyVars, TypeOK, Ends
  <2>2. Conn(c)'
    BY <1>3, <1>5 DEF Refuse, Connect, Conn, ConnInv, BeforeStart, Monitor, historyVars,
                      TypeOK, Ends
  <2> QED
    BY <1>1, <2>1, <2>2
<1>6. ASSUME NEW c \in Clients, OpenStreams(c)
      PROVE  ConnInv'
  <2>1. \A d \in Clients \ {c} : Same(d)
    BY <1>6 DEF OpenStreams, Same, historyVars, TypeOK, Ends
  <2>2. Conn(c)'
    BY <1>6 DEF OpenStreams, Conn, ConnInv, BeforeStart, Monitor, Stage, Up, historyVars,
                TypeOK, Ends, ClosingStates
  <2> QED
    BY <1>1, <2>1, <2>2
<1>7. ASSUME NEW c \in Clients, MainStep(c), ~OpenStreams(c)
      PROVE  ConnInv'
  <2>1. PICK e \in Ends, from \in MainStates, to \in MainStates :
            /\ StartThread(c, e, from, to)
            /\ <<e, from, to>> \in {<<"client", "startClient", "startServer">>,
                                    <<"server", "startServer", "started">>}
    BY <1>7 DEF MainStep, StartClientForward, StartServerForward, Ends, MainStates
  <2>2. \A d \in Clients, x \in Ends :
            fwd'[<<d, x>>] = IF d = c /\ x = e THEN "read" ELSE fwd[<<d, x>>]
    <3>1. "read" \in ThreadStates /\ fwd' = [fwd EXCEPT ![<<c, e>>] = "read"]
      BY <2>1 DEF StartThread, ThreadStates
    <3> QED
      BY <3>1, GotoMoves
  <2>3. \A d \in Clients \ {c} : Same(d)
    BY <2>1, <2>2 DEF StartThread, Same, historyVars, TypeOK
  <2>4. /\ main[c] = from /\ main'[c] = to
        /\ both' = both /\ monitor' = monitor /\ released' = released /\ sock' = sock
    BY <2>1 DEF StartThread, historyVars, TypeOK
  <2>5. Conn(c)'
    BY <2>1, <2>2, <2>4 DEF Conn, ConnInv, BeforeStart, Monitor, Stage, Up, Down, Ends,
                            ClosingStates
  <2> QED
    BY <1>1, <2>3, <2>5
<1>8. ASSUME NEW c \in Clients, NEW e \in Ends, PumpStep(c, e)
      PROVE  ConnInv'
  <2>1. PICK state \in ThreadStates :
            /\ fwd' = [fwd EXCEPT ![<<c, e>>] = state]
            /\ state \notin ClosingStates
    BY <1>8 DEF PumpStep, ReadData, ReadEnd, ReadFails, Write, WriteFails, ClearFlag,
                SetFlag, TestFlag, Goto, Finish, ThreadStates, ClosingStates, Ends
  <2>2. fwd[<<c, e>>] \notin ClosingStates \cup {"none"}
    BY <1>8 DEF PumpStep, ReadData, ReadEnd, ReadFails, Write, WriteFails, ClearFlag,
                SetFlag, TestFlag, ClosingStates
  <2>3. /\ main' = main /\ both' = both /\ monitor' = monitor
        /\ released' = released /\ sock' = sock
    BY <1>8 DEF PumpStep, ReadData, ReadEnd, ReadFails, Write, WriteFails, ClearFlag,
                SetFlag, TestFlag, historyVars
  <2> QED
    BY <2>1, <2>2, <2>3, ConnMoves

<1>9. ASSUME NEW c \in Clients, NEW e \in Ends, Enter(c, e)
      PROVE  ConnInv'
  <2>1. PICK state \in ThreadStates :
            /\ fwd' = [fwd EXCEPT ![<<c, e>>] = state]
            /\ both[c] => state = "closeServer"
            /\ ~both[c] => state = "done"
    <3>1. "closeServer" \in ThreadStates /\ "done" \in ThreadStates
      BY DEF ThreadStates, ClosingStates
    <3>2. CASE both[c]
      BY <1>9, <3>1, <3>2 DEF Enter, Goto
    <3>3. CASE ~both[c]
      BY <1>9, <3>1, <3>3 DEF Enter, Goto
    <3> QED
      BY <3>2, <3>3
  <2>2. \A d \in Clients, x \in Ends :
            fwd'[<<d, x>>] = IF d = c /\ x = e THEN state ELSE fwd[<<d, x>>]
    BY <2>1, GotoMoves, ZenonT(40)
  <2>3. main' = main /\ both' = both /\ released' = released /\ sock' = sock
    BY <1>9 DEF Enter, historyVars
  <2>4. \A d \in Clients :
            monitor'[d] = IF d = c /\ both[c] THEN e ELSE monitor[d]
    BY <1>9 DEF Enter, TypeOK
  <2>5. fwd[<<c, e>>] = "call" /\ monitor[c] = NoThread
    BY <1>9 DEF Enter
  <2>6. \A d \in Clients \ {c} : Same(d)
    BY <2>2, <2>3, <2>4 DEF Same
  <2>7. Conn(c)
    BY DEF ConnInv
  <2>8. BeforeStart(c)' /\ main[c] \in {"startClient", "startServer", "started"}
    BY <2>2, <2>3, <2>5, <2>7 DEF BeforeStart, Conn, TypeOK, MainStates, Ends
  <2>9. Conn(c)'
    BY <2>1, <2>2, <2>3, <2>4, <2>5, <2>7, <2>8
       DEF Conn, Monitor, Stage, Up, Down, ClosingStates, Ends, NoThread
  <2> QED
    BY <1>1, <2>6, <2>9
<1>10. ASSUME NEW c \in Clients, NEW e \in Ends,
              \/ CloseServerSocket(c, e) \/ CloseClientSocket(c, e)
              \/ ClearBoth(c, e) \/ Account(c, e)
       PROVE  ConnInv'
  <2>1. PICK state \in ThreadStates :
            /\ fwd' = [fwd EXCEPT ![<<c, e>>] = state]
            /\ <<fwd[<<c, e>>], state>> \in
                  {<<"closeServer", "closeClient">>, <<"closeClient", "clearBoth">>,
                   <<"clearBoth", "account">>, <<"account", "done">>}
    BY <1>10 DEF CloseServerSocket, CloseClientSocket, CloseSocket, ClearBoth, Account,
                 Goto, ThreadStates, ClosingStates
  <2>2. \A d \in Clients, x \in Ends :
            fwd'[<<d, x>>] = IF d = c /\ x = e THEN state ELSE fwd[<<d, x>>]
    BY <2>1, GotoMoves
  <2>3. main' = main /\ Conn(c)
    BY <1>10 DEF CloseServerSocket, CloseClientSocket, CloseSocket, ClearBoth, Account,
                 ConnInv
  <2>4. /\ monitor[c] = e /\ monitor[c] # NoThread
        /\ main[c] \in {"startClient", "startServer", "started"}
        /\ \A x \in Ends \ {e} : fwd[<<c, x>>] \notin ClosingStates
    BY <2>1, <2>3 DEF Conn, BeforeStart, Monitor, TypeOK, MainStates, Ends, NoThread,
                      ClosingStates
  <2>5. Stage(c, fwd[<<c, e>>])
    BY <2>3, <2>4 DEF Conn
  <2>6. BeforeStart(c)'
    BY <2>2, <2>3, <2>4, <2>1 DEF Conn, BeforeStart, Ends
  <2>7. CASE CloseServerSocket(c, e) \/ CloseClientSocket(c, e)
    <3>1. PICK s \in Ends :
              /\ sock' = [sock EXCEPT ![<<c, s>>] = FALSE]
              /\ <<fwd[<<c, e>>], state, s>> \in
                    {<<"closeServer", "closeClient", "server">>,
                     <<"closeClient", "clearBoth", "client">>}
      BY <2>1, <2>2, <2>7 DEF CloseServerSocket, CloseClientSocket, CloseSocket, Goto, Ends
    <3>2. \A d \in Clients, x \in Ends :
              sock'[<<d, x>>] = IF d = c /\ x = s THEN FALSE ELSE sock[<<d, x>>]
      BY <1>3, <3>1 DEF TypeOK
    <3>3. both' = both /\ monitor' = monitor /\ released' = released
      BY <2>7 DEF CloseServerSocket, CloseClientSocket, CloseSocket, historyVars
    <3>4. \A d \in Clients \ {c} : Same(d)
      BY <2>2, <2>3, <3>2, <3>3 DEF Same
    <3>5. Conn(c)'
      BY <2>2, <2>3, <2>4, <2>5, <2>6, <3>1, <3>2, <3>3, ZenonT(40)
         DEF Conn, Monitor, Stage, Up, ClosingStates, Ends
    <3> QED
      BY <1>1, <3>4, <3>5
  <2>8. CASE ClearBoth(c, e)
    <3>1. sock' = sock /\ monitor' = monitor /\ released' = released
      BY <2>8 DEF ClearBoth, historyVars
    <3>2. \A d \in Clients : both'[d] = IF d = c THEN FALSE ELSE both[d]
      BY <2>8 DEF ClearBoth, TypeOK
    <3>3. \A d \in Clients \ {c} : Same(d)
      BY <2>2, <2>3, <3>1, <3>2 DEF Same
    <3>4. fwd[<<c, e>>] = "clearBoth" /\ state = "account"
      BY <2>1, <2>8 DEF ClearBoth
    <3>5. Conn(c)'
      BY <2>2, <2>3, <2>4, <2>5, <2>6, <3>1, <3>2, <3>4
         DEF Conn, Monitor, Stage, ClosingStates, Ends
    <3> QED
      BY <1>1, <3>3, <3>5
  <2>9. CASE Account(c, e)
    <3>1. sock' = sock /\ both' = both
      BY <2>9 DEF Account
    <3>2. \A d \in Clients : released'[d] = IF d = c THEN released[d] + 1 ELSE released[d]
      BY <2>9 DEF Account, TypeOK
    <3>3. \A d \in Clients : monitor'[d] = IF d = c THEN NoThread ELSE monitor[d]
      BY <2>9 DEF Account, TypeOK
    <3>4. \A d \in Clients \ {c} : Same(d)
      BY <2>2, <2>3, <3>1, <3>2, <3>3 DEF Same
    <3>5. fwd[<<c, e>>] = "account" /\ state = "done"
      BY <2>1, <2>9 DEF Account
    <3>6. Down(c)'
      BY <2>5, <3>1, <3>2, <3>5 DEF Stage, Down
    <3>7. Monitor(c)'
      BY <2>2, <2>4, <3>3, <3>5 DEF Monitor, ClosingStates, Ends, NoThread
    <3>8. \A x \in Ends : Stage(c, fwd[<<c, x>>])'
      BY <2>2, <2>4, <3>5 DEF Stage, ClosingStates, Ends
    <3> QED
      BY <1>1, <2>6, <3>4, <3>6, <3>7, <3>8 DEF Conn
  <2> QED
    BY <1>10, <2>7, <2>8, <2>9
<1>11. ASSUME NEW c \in Clients, NEW e \in Ends, RemoteStep(c, e)
       PROVE  ConnInv'
  BY <1>2, <1>11 DEF RemoteStep, Send, EndMoves, threadVars, historyVars
<1>12. CASE UNCHANGED vars
  BY <1>2, <1>12 DEF vars, threadVars, historyVars
<1>13. ASSUME NEW c \in Clients, MainStep(c)
       PROVE  ConnInv'
  BY <1>6, <1>7, <1>13
<1>14. ASSUME NEW c \in Clients, NEW e \in Ends, ThreadStep(c, e)
       PROVE  ConnInv'
  BY <1>8, <1>9, <1>10, <1>14 DEF ThreadStep, BrokenStep
<1> QED
  BY <1>4, <1>5, <1>11, <1>12, <1>13, <1>14 DEF Next

\* The counter of the server is given back exactly once, by whichever of the two
\* threads gets there first (ForwardSession!ReleasedOnce).
THEOREM ReleasedExactlyOnce == Spec => []ReleasedOnce
<1>1. Init => ConnInv
  BY DEF Init, ConnInv, Conn, BeforeStart, Monitor, Threads, Ends, ClosingStates, NoThread
<1> QED
  BY <1>1, TypeCorrect, ConnInductive, ConnImplies, PTL DEF Spec

-----------------------------------------------------------------------------
(* What one end has sent is forwarded before the other's socket is closed.  *)

Running == {"startClient", "startServer", "started"}

\* Threads that have left the loop of ForwardThread.run.
LeftStates == {"gotEnd", "test", "call", "done"} \cup ClosingStates

\* Nobody has left but s, which may have finished sending.
Served(c, s) == end[<<c, Other(s)>>] = "open" /\ end[<<c, s>>] \in {"open", "shut"}

\* Then the thread from s leaves its loop first, and with nothing left to forward; the
\* thread from the other end leaves only because of that.
Data(c, s) ==
    Served(c, s) =>
        /\ fwd[<<c, s>>] \in LeftStates => queue[<<c, s>>] = 0 /\ end[<<c, s>>] # "open"
        /\ <<c, s>> \notin dropped
        /\ fwd[<<c, Other(s)>>] \in LeftStates => ~sock[<<c, "server">>]
        /\ main[c] \in Running /\ ~sock[<<c, "server">>] => fwd[<<c, s>>] \in LeftStates

DataFrom(s) == \A c \in Clients : Data(c, s)

DataInv == \A s \in Ends : DataFrom(s)

LEMMA OtherEnd ==
    ASSUME NEW s \in Ends
    PROVE  Other(s) \in Ends /\ Other(s) # s /\ Ends = {s, Other(s)}
  BY DEF Ends, Other

\* The server's socket is closed before the client's.
LEMMA ServerClosedFirst ==
    ASSUME TypeOK, ConnInv, NEW c \in Clients, main[c] \in Running, ~sock[<<c, "client">>]
    PROVE  ~sock[<<c, "server">>]
<1>1. Conn(c) /\ main[c] \in {"startClient", "startServer", "started"}
  BY DEF ConnInv, Running
<1>2. CASE monitor[c] = NoThread
  BY <1>1, <1>2 DEF Conn, Up, Down
<1>3. CASE monitor[c] # NoThread
  <2>1. PICK e \in Ends : fwd[<<c, e>>] \in ClosingStates
    BY <1>1, <1>3 DEF Conn, Monitor, TypeOK, Ends
  <2> QED
    BY <1>1, <2>1 DEF Conn, Stage, Up, ClosingStates
<1> QED
  BY <1>2, <1>3

\* What a step leaves alone of connection d.
SameData(d) ==
    /\ main'[d] = main[d]
    /\ \A x \in Ends : /\ <<d, x>> \in dropped' <=> <<d, x>> \in dropped
                      /\ queue'[<<d, x>>] = queue[<<d, x>>]
                      /\ fwd'[<<d, x>>] = fwd[<<d, x>>]
                      /\ sock'[<<d, x>>] = sock[<<d, x>>]
                      /\ end'[<<d, x>>] = end[<<d, x>>]

LEMMA DataSame ==
    ASSUME NEW s \in Ends, NEW d \in Clients, Data(d, s), SameData(d)
    PROVE  Data(d, s)'
  BY OtherEnd DEF SameData, Data, Served, Ends

LEMMA DataConcludes ==
    ASSUME TypeOK, ConnInv, DataInv, NEW s \in Ends
    PROVE  ForwardedFrom(s)
<1> SUFFICES ASSUME NEW c \in Clients,
                    main[c] = "started", ~sock[<<c, Other(s)>>], Served(c, s)
             PROVE  queue[<<c, s>>] = 0 /\ <<c, s>> \notin dropped
  BY DEF ForwardedFrom, Served
<1>1. main[c] \in Running
  BY DEF Running
<1>2. ~sock[<<c, "server">>]
  BY <1>1, ServerClosedFirst DEF Other, Ends
<1> QED
  BY <1>1, <1>2 DEF DataInv, DataFrom, Data

\* A thread that moves within its loop, or after it, and touches nothing else.
LEMMA DataMoves ==
    ASSUME TypeOK, NEW s \in Ends, DataFrom(s), NEW c \in Clients, NEW e \in Ends,
           NEW state \in ThreadStates, fwd' = [fwd EXCEPT ![<<c, e>>] = state],
           state \in LeftStates <=> fwd[<<c, e>>] \in LeftStates,
           main' = main, sock' = sock, end' = end, queue' = queue, dropped' = dropped
    PROVE  DataFrom(s)'
<1>1. \A d \in Clients, x \in Ends :
          fwd'[<<d, x>>] = IF d = c /\ x = e THEN state ELSE fwd[<<d, x>>]
  BY GotoMoves
<1>2. \A d \in Clients, x \in Ends :
          fwd'[<<d, x>>] \in LeftStates <=> fwd[<<d, x>>] \in LeftStates
  BY <1>1, ZenonT(40)
<1> QED
  BY <1>2 DEF DataFrom, Data, Served, Ends

LEMMA DataInductive ==
    ASSUME NEW s \in Ends
    PROVE  TypeOK /\ ConnInv /\ DataFrom(s) /\ [Next]_vars => DataFrom(s)'
<1> SUFFICES ASSUME TypeOK, ConnInv, DataFrom(s), [Next]_vars
             PROVE  DataFrom(s)'
  OBVIOUS
<1>1. ASSUME NEW c \in Clients, \A d \in Clients \ {c} : SameData(d), Data(c, s)'
      PROVE  DataFrom(s)'
  BY <1>1, DataSame DEF DataFrom
<1>2. ASSUME main' = main, fwd' = fwd, sock' = sock, end' = end, queue' = queue,
             dropped' = dropped
      PROVE  DataFrom(s)'
  BY <1>2, DataSame DEF DataFrom, SameData
<1>3. \A c, d \in Clients, x, y \in Ends :
          <<c, x>> \in Threads /\ (<<d, x>> = <<c, y>> <=> d = c /\ x = y)
  BY DEF Threads
<1>4. \A c \in Clients : Data(c, s) /\ Conn(c)
  BY DEF DataFrom, ConnInv
<1>5. ASSUME NEW c \in Clients, NEW e \in Ends,
             ReadEnd(c, e) \/ ReadFails(c, e) \/ WriteFails(c, e)
      PROVE  DataFrom(s)'
  <2>1. PICK state \in ThreadStates :
            /\ fwd' = [fwd EXCEPT ![<<c, e>>] = state]
            /\ state \in LeftStates
    BY <1>5 DEF ReadEnd, ReadFails, WriteFails, Goto, Finish, ThreadStates, LeftStates
  <2>2. \A d \in Clients, x \in Ends :
            fwd'[<<d, x>>] = IF d = c /\ x = e THEN state ELSE fwd[<<d, x>>]
    BY <2>1, GotoMoves
  <2>3. main' = main /\ sock' = sock /\ end' = end /\ queue' = queue
    BY <1>5 DEF ReadEnd, ReadFails, WriteFails, remoteVars
  <2>4. fwd[<<c, e>>] \notin LeftStates /\ fwd[<<c, e>>] # "none"
    BY <1>5 DEF ReadEnd, ReadFails, WriteFails, LeftStates, ClosingStates
  <2>5. main[c] \in Running
    BY <1>4, <2>4 DEF Conn, BeforeStart, Running, TypeOK, MainStates, Ends
  <2>6. \A d \in Clients, x \in Ends : (<<d, x>> \in dropped' /\ <<d, x>> \notin dropped)
            => d = c /\ e = x /\ WriteFails(c, e)
    BY <1>3, <1>5 DEF ReadEnd, ReadFails, WriteFails, historyVars, Ends
  <2>7. dropped \subseteq dropped'
    BY <1>5 DEF ReadEnd, ReadFails, WriteFails, historyVars
  <2>8. \A d \in Clients \ {c} : SameData(d)
    BY <2>2, <2>3, <2>6, <2>7 DEF SameData
  <2>9. CASE e = Other(s)
    <3>1. Other(e) = s /\ e \in {"client", "server"} /\ s \in {"client", "server"}
      BY <2>9 DEF Other, Ends
    <3>2. Served(c, s) => ~sock[<<c, e>>] \/ ~sock[<<c, s>>]
      BY <1>5, <2>9, <3>1 DEF ReadEnd, ReadFails, WriteFails, Served
    <3>3. Served(c, s) => ~sock[<<c, "server">>]
      BY <2>5, <3>1, <3>2, ServerClosedFirst
    <3>4. Data(c, s)'
      BY OtherEnd, <1>4, <2>2, <2>3, <2>6, <2>7, <2>9, <3>3 DEF Data, Served
    <3> QED
      BY <1>1, <2>8, <3>4
  <2>10. CASE e = s
    <3>1. Served(c, s) => sock[<<c, "server">>] /\ sock[<<c, "client">>]
      BY <1>4, <2>4, <2>5, <2>10, ServerClosedFirst DEF Data
    <3>2. Served(c, s) => ReadEnd(c, e)
      BY <1>5, <2>10, <3>1 DEF ReadFails, WriteFails, Served, Other, Ends
    <3>3. Served(c, s) => queue[<<c, s>>] = 0 /\ end[<<c, s>>] # "open"
      BY <2>10, <3>2 DEF ReadEnd
    <3>4. Served(c, s) => dropped' = dropped
      BY <3>2 DEF ReadEnd, historyVars
    <3>5. Data(c, s)'
      BY OtherEnd, <1>4, <2>1, <2>2, <2>3, <2>10, <3>1, <3>3, <3>4 DEF Data, Served
    <3> QED
      BY <1>1, <2>8, <3>5
  <2> QED
    BY <2>9, <2>10, OtherEnd
<1>6. ASSUME NEW c \in Clients, NEW e \in Ends, ReadData(c, e)
      PROVE  DataFrom(s)'
  <2>1. PICK state \in ThreadStates :
            fwd' = [fwd EXCEPT ![<<c, e>>] = state] /\ state \in {"gotData", "write"}
    BY <1>6 DEF ReadData, Goto, ThreadStates
  <2>2. \A d \in Clients, x \in Ends :
            fwd'[<<d, x>>] = IF d = c /\ x = e THEN state ELSE fwd[<<d, x>>]
    BY <2>1, GotoMoves
  <2>3. main' = main /\ sock' = sock /\ end' = end /\ dropped' = dropped
    BY <1>6 DEF ReadData, historyVars
  <2>4. \A d \in Clients, x \in Ends :
            ~(d = c /\ x = e) => queue'[<<d, x>>] = queue[<<d, x>>]
    BY <1>3, <1>6 DEF ReadData, TypeOK
  <2>5. fwd[<<c, e>>] = "read"
    BY <1>6 DEF ReadData
  <2>6. \A d \in Clients \ {c} : SameData(d)
    BY <2>2, <2>3, <2>4 DEF SameData, Ends
  <2>7. Data(c, s)'
    BY OtherEnd, <1>4, <2>1, <2>2, <2>3, <2>4, <2>5 DEF Data, Served, LeftStates, ClosingStates
  <2> QED
    BY <1>1, <2>6, <2>7
<1>7. ASSUME NEW c \in Clients, NEW e \in Ends, Write(c, e)
      PROVE  DataFrom(s)'
  <2>1. PICK state \in ThreadStates :
            fwd' = [fwd EXCEPT ![<<c, e>>] = state] /\ state \in {"setFlag", "read"}
    BY <1>7 DEF Write, Goto, ThreadStates
  <2>2. \A d \in Clients, x \in Ends :
            fwd'[<<d, x>>] = IF d = c /\ x = e THEN state ELSE fwd[<<d, x>>]
    BY <2>1, GotoMoves
  <2>3. main' = main /\ sock' = sock /\ queue' = queue /\ dropped' = dropped
    BY <1>7 DEF Write
  <2>4. fwd[<<c, e>>] = "write" /\ Other(e) \in Ends
    BY <1>7 DEF Write, Other, Ends
  <2>5. \A d \in Clients, x \in Ends :
            \/ end'[<<d, x>>] = end[<<d, x>>]
            \/ d = c /\ end'[<<d, x>>] = "reset"
    <3>1. CASE end[<<c, Other(e)>>] = "gone"
      <4>1. end' = [end EXCEPT ![<<c, Other(e)>>] = "reset"]
        BY <1>7, <3>1 DEF Write
      <4> QED
        BY <1>3, <2>4, <4>1 DEF TypeOK
    <3>2. CASE end[<<c, Other(e)>>] # "gone"
      BY <1>7, <3>2 DEF Write
    <3> QED
      BY <3>1, <3>2
  <2>6. \A d \in Clients \ {c} : SameData(d)
    BY <2>2, <2>3, <2>5 DEF SameData, Ends
  <2>7. Data(c, s)'
    BY OtherEnd, <1>4, <2>1, <2>2, <2>3, <2>4, <2>5 DEF Data, Served, LeftStates, ClosingStates
  <2> QED
    BY <1>1, <2>6, <2>7
<1>8. ASSUME NEW c \in Clients, ClearFlag(c) \/ SetFlag(c) \/ TestFlag(c)
      PROVE  DataFrom(s)'
  <2>1. PICK e \in Ends, state \in ThreadStates :
            /\ fwd' = [fwd EXCEPT ![<<c, e>>] = state]
            /\ state \in LeftStates <=> fwd[<<c, e>>] \in LeftStates
    <3>1. CASE ClearFlag(c)
      <4>1. PICK state \in ThreadStates :
                /\ fwd' = [fwd EXCEPT ![<<c, "client">>] = state]
                /\ state = IF fwd[<<c, "client">>] = "gotData" THEN "write" ELSE "call"
                /\ fwd[<<c, "client">>] \in {"gotData", "gotEnd"}
        BY <3>1 DEF ClearFlag, Goto, ThreadStates
      <4> QED
        BY <4>1 DEF LeftStates, ClosingStates, Ends
    <3>2. CASE SetFlag(c)
      BY <3>2 DEF SetFlag, Goto, ThreadStates, LeftStates, ClosingStates, Ends
    <3>3. CASE TestFlag(c)
      <4>1. PICK state \in ThreadStates :
                /\ fwd' = [fwd EXCEPT ![<<c, "server">>] = state]
                /\ state \in {"call", "done"}
                /\ fwd[<<c, "server">>] = "test"
        BY <3>3 DEF TestFlag, Goto, ThreadStates
      <4> QED
        BY <4>1 DEF LeftStates, Ends
    <3> QED
      BY <1>8, <3>1, <3>2, <3>3
  <2>2. main' = main /\ sock' = sock /\ end' = end /\ queue' = queue /\ dropped' = dropped
    BY <1>8 DEF ClearFlag, SetFlag, TestFlag, remoteVars, historyVars
  <2> QED
    BY <2>1, <2>2, DataMoves
<1>9. ASSUME NEW c \in Clients, NEW e \in Ends,
             Enter(c, e) \/ ClearBoth(c, e) \/ Account(c, e)
      PROVE  DataFrom(s)'
  <2>1. PICK state \in ThreadStates :
            fwd' = [fwd EXCEPT ![<<c, e>>] = state] /\ state \in ClosingStates \cup {"done"}
    BY <1>9 DEF Enter, ClearBoth, Account, Goto, ThreadStates, ClosingStates
  <2>2. fwd[<<c, e>>] \in LeftStates
    BY <1>9 DEF Enter, ClearBoth, Account, LeftStates, ClosingStates
  <2>3. main' = main /\ sock' = sock /\ end' = end /\ queue' = queue /\ dropped' = dropped
    BY <1>9 DEF Enter, ClearBoth, Account, remoteVars, historyVars
  <2> QED
    BY <2>1, <2>2, <2>3, DataMoves DEF LeftStates
<1>10. ASSUME NEW c \in Clients, NEW e \in Ends, NEW t \in Ends,
              NEW from \in ClosingStates, NEW to \in ClosingStates,
              CloseSocket(c, e, t, from, to)
       PROVE  DataFrom(s)'
  <2>1. fwd' = [fwd EXCEPT ![<<c, e>>] = to] /\ to \in ThreadStates
    BY <1>10 DEF CloseSocket, Goto, ThreadStates
  <2>2. \A d \in Clients, x \in Ends :
            fwd'[<<d, x>>] = IF d = c /\ x = e THEN to ELSE fwd[<<d, x>>]
    BY <2>1, GotoMoves
  <2>3. main' = main /\ end' = end /\ queue' = queue /\ dropped' = dropped
    BY <1>10 DEF CloseSocket, remoteVars, historyVars
  <2>4. \A d \in Clients, x \in Ends :
            sock'[<<d, x>>] = IF d = c /\ x = t THEN FALSE ELSE sock[<<d, x>>]
    BY <1>3, <1>10 DEF CloseSocket, TypeOK
  <2>5. fwd[<<c, e>>] \in LeftStates /\ to \in LeftStates
    BY <1>10 DEF CloseSocket, LeftStates
  <2>6. \A d \in Clients \ {c} : SameData(d)
    BY <2>2, <2>3, <2>4 DEF SameData
  <2>7. Served(c, s) /\ main[c] \in Running => fwd[<<c, s>>] \in LeftStates
    BY OtherEnd, <1>4, <2>5 DEF Data
  <2>8. Served(c, s)' => Served(c, s)
    BY <2>3 DEF Served
  <2>9. (sock[<<c, "server">>])' => sock[<<c, "server">>]
    BY <2>4 DEF Ends
  <2>10. Data(c, s)'
    BY OtherEnd, <1>4, <2>2, <2>3, <2>5, <2>7, <2>8, <2>9 DEF Data
  <2> QED
    BY <1>1, <2>6, <2>10
<1>11. ASSUME NEW c \in Clients, HandshakeFails(c) \/ Refuse(c) \/ Connect(c)
       PROVE  DataFrom(s)'
  <2>1. fwd' = fwd /\ end' = end /\ queue' = queue /\ dropped' = dropped
    BY <1>11 DEF HandshakeFails, Refuse, Connect, threadVars, remoteVars, historyVars
  <2>2. main[c] \notin Running /\ main'[c] \notin Running
    BY <1>11 DEF HandshakeFails, Refuse, Connect, threadVars, TypeOK, Running
  <2>3. fwd[<<c, "client">>] = "none" /\ fwd[<<c, "server">>] = "none"
    BY <1>4, <1>11 DEF HandshakeFails, Refuse, Connect, Conn, BeforeStart
  <2>4. \A d \in Clients \ {c} : SameData(d)
    <3>1. \A d \in Clients \ {c} : main'[d] = main[d]
      BY <1>11 DEF HandshakeFails, Refuse, Connect, threadVars, TypeOK
    <3>2. \A d \in Clients \ {c}, x \in Ends : sock'[<<d, x>>] = sock[<<d, x>>]
      <4>1. PICK t \in Ends, open \in BOOLEAN : sock' = [sock EXCEPT ![<<c, t>>] = open]
        BY <1>11 DEF HandshakeFails, Refuse, Connect, Ends
      <4> QED
        BY <1>3, <4>1 DEF TypeOK
    <3> QED
      BY <2>1, <3>1, <3>2 DEF SameData
  <2>5. Data(c, s)'
    <3>1. fwd[<<c, s>>] = "none" /\ fwd[<<c, Other(s)>>] = "none"
      BY <2>3 DEF Ends, Other
    <3> QED
      BY <1>4, <2>1, <2>2, <3>1 DEF Data, Served, LeftStates, ClosingStates
  <2> QED
    BY <1>1, <2>4, <2>5
<1>12. ASSUME NEW c \in Clients, OpenStreams(c)
       PROVE  DataFrom(s)'
  <2>1. fwd' = fwd /\ sock' = sock /\ end' = end /\ queue' = queue /\ dropped' = dropped
    BY <1>12 DEF OpenStreams, remoteVars, historyVars
  <2>2. sock[<<c, "server">>]
    BY <1>4, <1>12 DEF OpenStreams, Conn, BeforeStart
  <2>3. \A d \in Clients \ {c} : SameData(d)
    BY <1>12, <2>1 DEF OpenStreams, TypeOK, SameData
  <2>4. Data(c, s)'
    BY OtherEnd, <1>4, <2>1, <2>2 DEF Data, Served
  <2> QED
    BY <1>1, <2>3, <2>4
<1>13. ASSUME NEW c \in Clients, NEW e \in Ends, NEW from \in Running,
              NEW to \in Running, StartThread(c, e, from, to), fwd[<<c, e>>] \notin LeftStates
       PROVE  DataFrom(s)'
  <2>1. fwd' = [fwd EXCEPT ![<<c, e>>] = "read"] /\ "read" \in ThreadStates
    BY <1>13 DEF StartThread, ThreadStates
  <2>2. \A d \in Clients, x \in Ends :
            fwd'[<<d, x>>] = IF d = c /\ x = e THEN "read" ELSE fwd[<<d, x>>]
    BY <2>1, GotoMoves
  <2>3. sock' = sock /\ end' = end /\ queue' = queue /\ dropped' = dropped
    BY <1>13 DEF StartThread, remoteVars, historyVars
  <2>4. main[c] \in Running /\ \A d \in Clients \ {c} : main'[d] = main[d]
    BY <1>13 DEF StartThread, TypeOK
  <2>5. \A d \in Clients \ {c} : SameData(d)
    BY <2>2, <2>3, <2>4 DEF SameData
  <2>6. Data(c, s)'
    BY OtherEnd, <1>4, <1>13, <2>2, <2>3, <2>4 DEF Data, Served, LeftStates, ClosingStates
  <2> QED
    BY <1>1, <2>5, <2>6
<1>14. ASSUME NEW c \in Clients, MainStep(c)
       PROVE  DataFrom(s)'
  <2>1. CASE StartClientForward(c)
    <3>1. main[c] = "startClient"
      BY <2>1 DEF StartClientForward, StartThread
    <3>2. fwd[<<c, "client">>] \notin LeftStates
      BY <1>4, <3>1 DEF Conn, BeforeStart, LeftStates, ClosingStates
    <3> QED
      BY <1>13, <2>1, <3>2 DEF StartClientForward, Ends, Running
  <2>2. CASE StartServerForward(c)
    <3>1. main[c] = "startServer"
      BY <2>2 DEF StartServerForward, StartThread
    <3>2. fwd[<<c, "server">>] \notin LeftStates
      BY <1>4, <3>1 DEF Conn, BeforeStart, LeftStates, ClosingStates
    <3> QED
      BY <1>13, <2>2, <3>2 DEF StartServerForward, Ends, Running
  <2> QED
    BY <1>12, <1>14, <2>1, <2>2 DEF MainStep
<1>15. ASSUME NEW c \in Clients, NEW e \in Ends, Send(c, e)
       PROVE  DataFrom(s)'
  <2>1. fwd' = fwd /\ main' = main /\ sock' = sock /\ end' = end /\ dropped' = dropped
    BY <1>15 DEF Send, threadVars, historyVars
  <2>2. \A d \in Clients, x \in Ends :
            ~(d = c /\ x = e) => queue'[<<d, x>>] = queue[<<d, x>>]
    BY <1>3, <1>15 DEF Send, TypeOK
  <2>3. end[<<c, e>>] = "open"
    BY <1>15 DEF Send
  <2>4. \A d \in Clients \ {c} : SameData(d)
    BY <2>1, <2>2 DEF SameData, Ends
  <2>5. Data(c, s)'
    BY OtherEnd, <1>4, <2>1, <2>2, <2>3 DEF Data, Served
  <2> QED
    BY <1>1, <2>4, <2>5
<1>16. ASSUME NEW c \in Clients, NEW e \in Ends, EndMoves(c, e)
       PROVE  DataFrom(s)'
  <2>1. fwd' = fwd /\ main' = main /\ sock' = sock /\ queue' = queue /\ dropped' = dropped
    BY <1>16 DEF EndMoves, threadVars, historyVars
  <2>2. PICK state \in EndStates :
            /\ end' = [end EXCEPT ![<<c, e>>] = state]
            /\ <<end[<<c, e>>], state>> \in
                  {<<"open", "shut">>, <<"open", "gone">>, <<"shut", "gone">>,
                   <<"open", "reset">>, <<"shut", "reset">>}
    BY <1>16 DEF EndMoves, EndStates
  <2>3. \A d \in Clients, x \in Ends :
            end'[<<d, x>>] = IF d = c /\ x = e THEN state ELSE end[<<d, x>>]
    BY <1>3, <2>2 DEF TypeOK
  <2>4. \A d \in Clients \ {c} : SameData(d)
    BY <2>1, <2>3 DEF SameData, Ends
  <2>5. Data(c, s)'
    BY OtherEnd, <1>4, <2>1, <2>2, <2>3 DEF Data, Served
  <2> QED
    BY <1>1, <2>4, <2>5
<1>17. CASE UNCHANGED vars
  BY <1>2, <1>17 DEF vars, threadVars, remoteVars, historyVars
<1>18. ASSUME NEW c \in Clients, NEW e \in Ends, BrokenStep(c, e)
       PROVE  DataFrom(s)'
  <2>1. CASE CloseServerSocket(c, e) \/ CloseClientSocket(c, e)
    BY <1>10, <2>1 DEF CloseServerSocket, CloseClientSocket, Ends, ClosingStates
  <2> QED
    BY <1>9, <1>18, <2>1 DEF BrokenStep
<1>19. ASSUME NEW c \in Clients, NEW e \in Ends, PumpStep(c, e)
       PROVE  DataFrom(s)'
  BY <1>5, <1>6, <1>7, <1>8, <1>19 DEF PumpStep
<1> QED
  BY <1>11, <1>14, <1>15, <1>16, <1>17, <1>18, <1>19 DEF Next, ThreadStep, RemoteStep

LEMMA DataAlways == Spec => [](TypeOK /\ ConnInv /\ DataInv)
<1>1. Init => ConnInv
  BY DEF Init, ConnInv, Conn, BeforeStart, Monitor, Threads, Ends, ClosingStates, NoThread
<1>2. Init => DataInv
  BY DEF Init, DataInv, DataFrom, Data, Threads, Ends, LeftStates, ClosingStates, Running, Other
<1>3. TypeOK /\ ConnInv /\ DataInv /\ [Next]_vars => DataInv'
  BY DataInductive DEF DataInv
<1> QED
  BY <1>1, <1>2, <1>3, TypeCorrect, ConnInductive, PTL DEF Spec

\* While the client keeps its sending side open and the server reads on, nothing
\* the server has sent is lost by closing the client's socket
\* (ForwardSession!ServerDataForwarded).
THEOREM NothingCutOff == Spec => []ServerDataForwarded
<1>1. "server" \in Ends
  BY DEF Ends
<1>2. TypeOK /\ ConnInv /\ DataInv => ServerDataForwarded
  BY <1>1, DataConcludes DEF ServerDataForwarded
<1> QED
  BY <1>2, DataAlways, PTL

\* While the server keeps its sending side open and the client reads on, nothing the
\* client has sent is lost by closing the server's socket
\* (ForwardSession!ClientDataForwarded).
THEOREM NothingOfClientCutOff == Spec => []ClientDataForwarded
<1>1. "client" \in Ends
  BY DEF Ends
<1>2. TypeOK /\ ConnInv /\ DataInv => ClientDataForwarded
  BY <1>1, DataConcludes DEF ClientDataForwarded
<1> QED
  BY <1>2, DataAlways, PTL

-----------------------------------------------------------------------------
(* A thread ends only because an end of its connection did.                *)

\* Why the thread from e has left its loop.
LeaveOf(c) ==
    /\ fwd[<<c, "client">>] \in {"gotEnd", "call"} \cup ClosingStates =>
          \/ ~sock[<<c, "server">>]
          \/ end[<<c, "client">>] # "open"
          \/ end[<<c, "server">>] = "reset"
    /\ fwd[<<c, "server">>] \in {"test", "call"} \cup ClosingStates =>
          \/ ~sock[<<c, "server">>]
          \/ end[<<c, "client">>] # "open"
          \/ end[<<c, "server">>] # "open"

LeaveInv == \A c \in Clients : LeaveOf(c)

\* What a step may do to connection d without touching LeaveOf(d).
Tame(d) ==
    /\ \A x \in Ends : fwd'[<<d, x>>] = fwd[<<d, x>>]
    /\ sock'[<<d, "server">>] = sock[<<d, "server">>]
    /\ \A x \in Ends :
          \/ end'[<<d, x>>] = end[<<d, x>>]
          \/ end'[<<d, x>>] # "open" /\ end[<<d, x>>] # "reset"

LEMMA LeaveTame ==
    ASSUME NEW d \in Clients, LeaveOf(d), Tame(d)
    PROVE  LeaveOf(d)'
  BY DEF Tame, LeaveOf, Ends

LEMMA PairsDiffer ==
    \A c, d \in Clients, x, y \in Ends :
        <<c, x>> \in Threads /\ (<<d, x>> = <<c, y>> <=> d = c /\ x = y)
  BY DEF Threads

LEMMA LeaveInductive ==
    TypeOK /\ ConnInv /\ LeaveInv /\ [Next]_vars => LeaveInv'
<1> SUFFICES ASSUME TypeOK, ConnInv, LeaveInv, [Next]_vars
             PROVE  LeaveInv'
  OBVIOUS
<1>1. ASSUME \A d \in Clients : Tame(d)
      PROVE  LeaveInv'
  BY <1>1, LeaveTame DEF LeaveInv
<1>2. ASSUME NEW c \in Clients, \A d \in Clients \ {c} : Tame(d), LeaveOf(c)'
      PROVE  LeaveInv'
  BY <1>2, LeaveTame DEF LeaveInv
<1>3. \A c \in Clients : LeaveOf(c) /\ Conn(c)
  BY DEF LeaveInv, ConnInv
<1>4. ASSUME fwd' = fwd, sock' = sock, end' = end
      PROVE  LeaveInv'
  BY <1>1, <1>4 DEF Tame
<1>5. ASSUME NEW c \in Clients, NEW e \in Ends,
             ReadEnd(c, e) \/ ReadFails(c, e) \/ WriteFails(c, e)
      PROVE  LeaveInv'
  <2>1. PICK state \in ThreadStates : fwd' = [fwd EXCEPT ![<<c, e>>] = state]
    BY <1>5 DEF ReadEnd, ReadFails, WriteFails, Goto, Finish, ThreadStates
  <2>2. \A d \in Clients, x \in Ends :
            fwd'[<<d, x>>] = IF d = c /\ x = e THEN state ELSE fwd[<<d, x>>]
    BY <2>1, GotoMoves
  <2>3. sock' = sock /\ end' = end
    BY <1>5 DEF ReadEnd, ReadFails, WriteFails, remoteVars
  <2>4. main[c] \in Running
    <3>1. fwd[<<c, e>>] # "none"
      BY <1>5 DEF ReadEnd, ReadFails, WriteFails
    <3> QED
      BY <1>3, <3>1 DEF Conn, BeforeStart, Running, TypeOK, MainStates, Ends
  <2>5. ~sock[<<c, "client">>] => ~sock[<<c, "server">>]
    BY <2>4, ServerClosedFirst
  <2>6. \/ ~sock[<<c, "server">>]
        \/ end[<<c, "client">>] # "open"
        \/ e = "client" /\ end[<<c, "server">>] = "reset"
        \/ e = "server" /\ end[<<c, "server">>] # "open"
    BY <1>5, <2>5 DEF ReadEnd, ReadFails, WriteFails, Other, Ends
  <2>7. LeaveOf(c)'
    BY <1>3, <2>2, <2>3, <2>6 DEF LeaveOf, Ends
  <2>8. \A d \in Clients \ {c} : Tame(d)
    BY <2>2, <2>3 DEF Tame
  <2> QED
    BY <1>2, <2>7, <2>8
<1>6. ASSUME NEW c \in Clients, NEW e \in Ends, NEW state \in ThreadStates,
             fwd' = [fwd EXCEPT ![<<c, e>>] = state], sock' = sock, end' = end,
             \/ state \in {"read", "gotData", "write", "setFlag", "done"}
             \/ /\ state \in {"call"} \cup ClosingStates
                /\ fwd[<<c, e>>] \in {"gotEnd", "test", "call"} \cup ClosingStates
                /\ e = "server" => fwd[<<c, e>>] # "gotEnd"
                /\ e = "client" => fwd[<<c, e>>] # "test"
      PROVE  LeaveInv'
  <2>1. \A d \in Clients, x \in Ends :
            fwd'[<<d, x>>] = IF d = c /\ x = e THEN state ELSE fwd[<<d, x>>]
    BY <1>6, GotoMoves, ZenonT(40)
  <2>2. LeaveOf(c)'
    <3>1. fwd'[<<c, e>>] = state /\ \A x \in Ends \ {e} : fwd'[<<c, x>>] = fwd[<<c, x>>]
      BY <2>1
    <3>2. CASE state \in {"read", "gotData", "write", "setFlag", "done"}
      BY <1>3, <1>6, <3>1, <3>2 DEF LeaveOf, Ends, ClosingStates
    <3>3. CASE state \notin {"read", "gotData", "write", "setFlag", "done"}
      BY <1>3, <1>6, <3>1, <3>3 DEF LeaveOf, Ends
    <3> QED
      BY <3>2, <3>3
  <2>3. \A d \in Clients \ {c} : Tame(d)
    BY <1>6, <2>1 DEF Tame
  <2> QED
    BY <1>2, <2>2, <2>3
<1>7. ASSUME NEW c \in Clients, NEW e \in Ends, ReadData(c, e)
      PROVE  LeaveInv'
  <2>1. PICK state \in ThreadStates :
            fwd' = [fwd EXCEPT ![<<c, e>>] = state] /\ state \in {"gotData", "write"}
    BY <1>7 DEF ReadData, Goto, ThreadStates
  <2> QED
    BY <1>6, <1>7, <2>1 DEF ReadData
<1>8. ASSUME NEW c \in Clients, ClearFlag(c) \/ SetFlag(c) \/ TestFlag(c)
      PROVE  LeaveInv'
  <2>1. sock' = sock /\ end' = end
    BY <1>8 DEF ClearFlag, SetFlag, TestFlag, remoteVars
  <2>2. CASE ClearFlag(c)
    <3>1. PICK state \in ThreadStates :
              /\ fwd' = [fwd EXCEPT ![<<c, "client">>] = state]
              /\ state = IF fwd[<<c, "client">>] = "gotData" THEN "write" ELSE "call"
              /\ fwd[<<c, "client">>] \in {"gotData", "gotEnd"}
      BY <2>2 DEF ClearFlag, Goto, ThreadStates
    <3> QED
      BY <1>6, <2>1, <3>1 DEF Ends
  <2>3. CASE SetFlag(c)
    BY <1>6, <2>1, <2>3 DEF SetFlag, Goto, Ends, ThreadStates
  <2>4. CASE TestFlag(c)
    <3>1. PICK state \in ThreadStates :
              /\ fwd' = [fwd EXCEPT ![<<c, "server">>] = state]
              /\ state \in {"call", "done"}
              /\ fwd[<<c, "server">>] = "test"
      BY <2>4 DEF TestFlag, Goto, ThreadStates
    <3> QED
      BY <1>6, <2>1, <3>1 DEF Ends
  <2> QED
    BY <1>8, <2>2, <2>3, <2>4
<1>9. ASSUME NEW c \in Clients, NEW e \in Ends, Write(c, e)
      PROVE  LeaveInv'
  <2>1. PICK state \in ThreadStates :
            fwd' = [fwd EXCEPT ![<<c, e>>] = state] /\ state \in {"setFlag", "read"}
    BY <1>9 DEF Write, Goto, ThreadStates
  <2>2. \A d \in Clients, x \in Ends :
            fwd'[<<d, x>>] = IF d = c /\ x = e THEN state ELSE fwd[<<d, x>>]
    BY <2>1, GotoMoves
  <2>3. sock' = sock /\ Other(e) \in Ends
    BY <1>9 DEF Write, Other, Ends
  <2>4. \A d \in Clients, x \in Ends :
            \/ end'[<<d, x>>] = end[<<d, x>>]
            \/ end'[<<d, x>>] = "reset" /\ end[<<d, x>>] = "gone"
    <3>1. CASE end[<<c, Other(e)>>] = "gone"
      <4>1. end' = [end EXCEPT ![<<c, Other(e)>>] = "reset"]
        BY <1>9, <3>1 DEF Write
      <4> QED
        BY <2>3, <3>1, <4>1, PairsDiffer DEF TypeOK
    <3>2. CASE end[<<c, Other(e)>>] # "gone"
      BY <1>9, <3>2 DEF Write
    <3> QED
      BY <3>1, <3>2
  <2>5. LeaveOf(c)'
    BY <1>3, <2>1, <2>2, <2>3, <2>4 DEF LeaveOf, Ends, ClosingStates
  <2>6. \A d \in Clients \ {c} : Tame(d)
    BY <2>2, <2>3, <2>4 DEF Tame
  <2> QED
    BY <1>2, <2>5, <2>6
<1>10. ASSUME NEW c \in Clients, NEW e \in Ends,
              Enter(c, e) \/ ClearBoth(c, e) \/ Account(c, e)
       PROVE  LeaveInv'
  <2>1. PICK state \in ThreadStates :
            /\ fwd' = [fwd EXCEPT ![<<c, e>>] = state]
            /\ state \in {"closeServer", "account", "done"}
    BY <1>10 DEF Enter, ClearBoth, Account, Goto, ThreadStates, ClosingStates
  <2>2. fwd[<<c, e>>] \in {"call"} \cup ClosingStates
    BY <1>10 DEF Enter, ClearBoth, Account, ClosingStates
  <2>3. sock' = sock /\ end' = end
    BY <1>10 DEF Enter, ClearBoth, Account, remoteVars
  <2> QED
    BY <1>6, <2>1, <2>2, <2>3 DEF ClosingStates
<1>11. ASSUME NEW c \in Clients, NEW e \in Ends,
              CloseServerSocket(c, e) \/ CloseClientSocket(c, e)
       PROVE  LeaveInv'
  <2>1. PICK state \in ThreadStates, s \in Ends :
            /\ fwd' = [fwd EXCEPT ![<<c, e>>] = state]
            /\ sock' = [sock EXCEPT ![<<c, s>>] = FALSE]
            /\ state \in ClosingStates
            /\ fwd[<<c, e>>] \in ClosingStates
    BY <1>11 DEF CloseServerSocket, CloseClientSocket, CloseSocket, Goto, ThreadStates,
                 ClosingStates, Ends
  <2>2. \A d \in Clients, x \in Ends :
            fwd'[<<d, x>>] = IF d = c /\ x = e THEN state ELSE fwd[<<d, x>>]
    BY <2>1, GotoMoves
  <2>3. \A d \in Clients, x \in Ends :
            sock'[<<d, x>>] = IF d = c /\ x = s THEN FALSE ELSE sock[<<d, x>>]
    BY <2>1, PairsDiffer DEF TypeOK
  <2>4. end' = end
    BY <1>11 DEF CloseServerSocket, CloseClientSocket, CloseSocket, remoteVars
  <2>5. LeaveOf(c)'
    BY <1>3, <2>1, <2>2, <2>3, <2>4 DEF LeaveOf, Ends
  <2>6. \A d \in Clients \ {c} : Tame(d)
    BY <2>2, <2>3, <2>4 DEF Tame, Ends
  <2> QED
    BY <1>2, <2>5, <2>6
<1>12. ASSUME NEW c \in Clients, HandshakeFails(c) \/ Refuse(c) \/ Connect(c)
       PROVE  LeaveInv'
  <2>1. fwd' = fwd /\ end' = end
    BY <1>12 DEF HandshakeFails, Refuse, Connect, threadVars, remoteVars
  <2>2. fwd[<<c, "client">>] = "none" /\ fwd[<<c, "server">>] = "none"
    BY <1>3, <1>12 DEF HandshakeFails, Refuse, Connect, Conn, BeforeStart
  <2>3. LeaveOf(c)'
    BY <2>1, <2>2 DEF LeaveOf, ClosingStates
  <2>4. \A d \in Clients \ {c} : Tame(d)
    <3>1. PICK t \in Ends, value \in BOOLEAN : sock' = [sock EXCEPT ![<<c, t>>] = value]
      BY <1>12 DEF HandshakeFails, Refuse, Connect, Ends
    <3>2. \A d \in Clients \ {c} : sock'[<<d, "server">>] = sock[<<d, "server">>]
      BY <3>1, PairsDiffer DEF TypeOK, Ends
    <3> QED
      BY <2>1, <3>2 DEF Tame
  <2> QED
    BY <1>2, <2>3, <2>4
<1>13. ASSUME NEW c \in Clients, MainStep(c)
       PROVE  LeaveInv'
  <2>1. CASE OpenStreams(c)
    BY <1>4, <2>1 DEF OpenStreams, remoteVars
  <2>2. ASSUME NEW e \in Ends, NEW from \in MainStates, NEW to \in MainStates,
               StartThread(c, e, from, to)
        PROVE  LeaveInv'
    BY <1>6, <2>2 DEF StartThread, remoteVars, ThreadStates
  <2> QED
    BY <1>13, <2>1, <2>2
       DEF MainStep, StartClientForward, StartServerForward, Ends, MainStates
<1>14. ASSUME NEW c \in Clients, NEW e \in Ends, RemoteStep(c, e)
       PROVE  LeaveInv'
  <2>1. fwd' = fwd /\ sock' = sock
    BY <1>14 DEF RemoteStep, Send, EndMoves, threadVars
  <2>2. CASE Send(c, e)
    BY <1>4, <2>1, <2>2 DEF Send
  <2>3. CASE EndMoves(c, e)
    <3>1. PICK state \in Departures :
              /\ end' = [end EXCEPT ![<<c, e>>] = state]
              /\ state # "open" /\ end[<<c, e>>] # "reset"
      BY <2>3 DEF EndMoves
    <3>2. \A d \in Clients, x \in Ends :
              end'[<<d, x>>] = IF d = c /\ x = e THEN state ELSE end[<<d, x>>]
      BY <3>1, PairsDiffer DEF TypeOK
    <3> QED
      BY <1>1, <2>1, <3>1, <3>2 DEF Tame
  <2> QED
    BY <1>14, <2>2, <2>3 DEF RemoteStep
<1>15. CASE UNCHANGED vars
  BY <1>4, <1>15 DEF vars, threadVars, remoteVars
<1>16. ASSUME NEW c \in Clients, NEW e \in Ends, ThreadStep(c, e)
       PROVE  LeaveInv'
  BY <1>5, <1>7, <1>8, <1>9, <1>10, <1>11, <1>16 DEF ThreadStep, PumpStep, BrokenStep
<1> QED
  BY <1>12, <1>13, <1>14, <1>15, <1>16 DEF Next

-----------------------------------------------------------------------------
(* What the service sees of a step.                                        *)

Pending(t) == queue[t] + InHand(t)

LEMMA StageSame ==
    ASSUME NEW d \in Clients, main'[d] = main[d],
           \A x \in Ends : sock'[<<d, x>>] = sock[<<d, x>>]
    PROVE  StageOf(d)' = StageOf(d)
  BY DEF StageOf, Ends

\* Chunks change hands only on the thread that moves.
LEMMA HandMoves ==
    ASSUME TypeOK, NEW c \in Clients, NEW e \in Ends, NEW state \in ThreadStates,
           fwd' = [fwd EXCEPT ![<<c, e>>] = state]
    PROVE  \A t \in Threads :
               InHand(t)' = IF t = <<c, e>>
                            THEN IF state \in {"gotData", "write"} THEN 1 ELSE 0
                            ELSE InHand(t)
<1>1. \A t \in Threads : fwd'[t] = IF t = <<c, e>> THEN state ELSE fwd[t]
  BY DEF TypeOK
<1> QED
  BY <1>1 DEF InHand

\* What the service does not see.
LEMMA ServiceStutters ==
    ASSUME end' = end, wrote' = wrote,
           \A d \in Clients : StageOf(d)' = StageOf(d),
           \A t \in Threads : Pending(t)' = Pending(t)
    PROVE  UNCHANGED Service!vars
<1>1. [c \in Clients |-> StageOf(c)]' = [c \in Clients |-> StageOf(c)]
  OBVIOUS
<1>2. [t \in Threads |-> queue[t] + InHand(t)]' = [t \in Threads |-> queue[t] + InHand(t)]
  BY DEF Pending
<1> QED
  BY <1>1, <1>2 DEF Service!vars

\* What it sees as one connection changing its stage.
LEMMA StageMoves ==
    ASSUME NEW c \in Clients, NEW from, NEW to, StageOf(c) = from, StageOf(c)' = to,
           \A d \in Clients \ {c} : StageOf(d)' = StageOf(d),
           end' = end, wrote' = wrote, \A t \in Threads : Pending(t)' = Pending(t)
    PROVE  Service!Moves(c, from, to)
<1>1. [d \in Clients |-> StageOf(d)]' = [[d \in Clients |-> StageOf(d)] EXCEPT ![c] = to]
  OBVIOUS
<1>2. [t \in Threads |-> queue[t] + InHand(t)]' = [t \in Threads |-> queue[t] + InHand(t)]
  BY DEF Pending
<1> QED
  BY <1>1, <1>2 DEF Service!Moves

\* A thread that moves without taking or leaving a chunk, on sockets and ends that
\* stay as they are, is not seen.
LEMMA ThreadStutters ==
    ASSUME TypeOK, NEW c \in Clients, NEW e \in Ends, NEW state \in ThreadStates,
           fwd' = [fwd EXCEPT ![<<c, e>>] = state],
           state \in {"gotData", "write"} <=> fwd[<<c, e>>] \in {"gotData", "write"},
           main' = main, sock' = sock, end' = end, queue' = queue, wrote' = wrote
    PROVE  UNCHANGED Service!vars
<1>1. \A t \in Threads : Pending(t)' = Pending(t)
  <2>1. \A t \in Threads : InHand(t)' = InHand(t)
    BY HandMoves DEF InHand
  <2> QED
    BY <2>1 DEF Pending
<1>2. \A d \in Clients : StageOf(d)' = StageOf(d)
  BY StageSame
<1> QED
  BY <1>1, <1>2, ServiceStutters


-----------------------------------------------------------------------------
(* The steps of a connection, one kind after the other.                    *)

\* Before a connection is served: it is dropped, refused or connected.
LEMMA AcceptImplements ==
    ASSUME TypeOK, ConnInv, NEW c \in Clients, HandshakeFails(c) \/ Refuse(c) \/ Connect(c)
    PROVE  Service!Drop(c) \/ Service!Refuse(c) \/ UNCHANGED Service!vars
<1>1. end' = end /\ wrote' = wrote /\ fwd' = fwd /\ queue' = queue
  BY DEF HandshakeFails, Refuse, Connect, threadVars, remoteVars, historyVars
<1>2. \A t \in Threads : Pending(t)' = Pending(t)
  BY <1>1 DEF Pending, InHand
<1>3. main[c] = "connecting"
  BY DEF HandshakeFails, Refuse, Connect
<1>4. \A d \in Clients \ {c} : StageOf(d)' = StageOf(d)
  <2>1. \A d \in Clients \ {c} : main'[d] = main[d]
    BY DEF HandshakeFails, Refuse, Connect, threadVars, TypeOK
  <2>2. PICK x \in Ends, value \in BOOLEAN : sock' = [sock EXCEPT ![<<c, x>>] = value]
    BY DEF HandshakeFails, Refuse, Connect, Ends
  <2>3. \A d \in Clients \ {c}, y \in Ends : sock'[<<d, y>>] = sock[<<d, y>>]
    BY <2>2, PairsDiffer DEF TypeOK
  <2> QED
    BY <2>1, <2>3, StageSame
<1>5. <<c, "client">> \in Threads /\ <<c, "server">> \in Threads
  BY PairsDiffer DEF Ends
<1>6. CASE HandshakeFails(c)
  <2>1. StageOf(c) = "waiting"
    BY <1>3, <1>6 DEF StageOf, HandshakeFails
  <2>2. StageOf(c)' = "dropped"
    BY <1>3, <1>5, <1>6 DEF StageOf, HandshakeFails, threadVars, TypeOK
  <2> QED
    BY <1>1, <1>2, <1>4, <2>1, <2>2, StageMoves DEF Service!Drop
<1>7. CASE Refuse(c)
  <2>1. StageOf(c) \in {"waiting", "dropped"}
    BY <1>3 DEF StageOf
  <2>2. StageOf(c)' = "refused"
    BY <1>7 DEF StageOf, Refuse, TypeOK
  <2>3. Service!Moves(c, StageOf(c), "refused")
    BY <1>1, <1>2, <1>4, <2>2, StageMoves
  <2> QED
    BY <2>1, <2>3 DEF Service!Refuse
<1>8. CASE Connect(c)
  <2>1. main'[c] = "streams" /\ sock'[<<c, "client">>] = sock[<<c, "client">>]
    BY <1>5, <1>8 DEF Connect, TypeOK
  <2>2. StageOf(c)' = StageOf(c)
    BY <1>3, <2>1 DEF StageOf
  <2> QED
    BY <1>1, <1>2, <1>4, <2>2, ServiceStutters
<1> QED
  BY <1>6, <1>7, <1>8

\* The streams are opened, and the threads started.
LEMMA StartImplements ==
    ASSUME TypeOK, ConnInv, NEW c \in Clients, MainStep(c)
    PROVE  Service!Serve(c) \/ UNCHANGED Service!vars
<1>1. end' = end /\ wrote' = wrote /\ queue' = queue /\ sock' = sock
  BY DEF MainStep, OpenStreams, StartClientForward, StartServerForward, StartThread,
         remoteVars, historyVars
<1>2. \A d \in Clients \ {c} : main'[d] = main[d]
  BY DEF MainStep, OpenStreams, StartClientForward, StartServerForward, StartThread, TypeOK
<1>3. \A d \in Clients \ {c} : StageOf(d)' = StageOf(d)
  BY <1>1, <1>2, StageSame
<1>4. BeforeStart(c)
  BY DEF ConnInv, Conn
<1>5. CASE OpenStreams(c)
  <2>1. \A t \in Threads : Pending(t)' = Pending(t)
    BY <1>1, <1>5 DEF OpenStreams, Pending, InHand
  <2>2. main[c] = "streams" /\ sock[<<c, "server">>]
    BY <1>4, <1>5 DEF OpenStreams, BeforeStart
  <2>3. CASE sock[<<c, "client">>]
    <3>1. main'[c] = "startClient"
      BY <1>5, <2>3 DEF OpenStreams, TypeOK
    <3>2. StageOf(c) = "waiting" /\ StageOf(c)' = "serving"
      BY <1>1, <2>2, <2>3, <3>1 DEF StageOf
    <3> QED
      BY <1>1, <1>3, <2>1, <3>2, StageMoves DEF Service!Serve
  <2>4. CASE ~sock[<<c, "client">>]
    <3>1. main'[c] = "failed"
      BY <1>5, <2>4 DEF OpenStreams, TypeOK
    <3>2. StageOf(c)' = StageOf(c)
      BY <1>1, <2>2, <3>1 DEF StageOf
    <3> QED
      BY <1>1, <1>3, <2>1, <3>2, ServiceStutters
  <2> QED
    BY <2>3, <2>4
<1>6. ASSUME NEW e \in Ends, NEW from \in Running, NEW to \in Running,
             StartThread(c, e, from, to), fwd[<<c, e>>] = "none"
      PROVE  UNCHANGED Service!vars
  <2>1. \A t \in Threads : Pending(t)' = Pending(t)
    <3>1. fwd' = [fwd EXCEPT ![<<c, e>>] = "read"] /\ "read" \in ThreadStates
      BY <1>6 DEF StartThread, ThreadStates
    <3>2. \A t \in Threads : InHand(t)' = InHand(t)
      BY <1>6, <3>1, HandMoves DEF InHand
    <3> QED
      BY <1>1, <3>2 DEF Pending
  <2>2. main[c] \in Running /\ main'[c] \in Running
    BY <1>6 DEF StartThread, TypeOK
  <2>3. StageOf(c)' = StageOf(c)
    BY <1>1, <2>2 DEF StageOf, Running
  <2> QED
    BY <1>1, <1>3, <2>1, <2>3, ServiceStutters
<1>7. CASE StartClientForward(c)
  BY <1>4, <1>6, <1>7 DEF StartClientForward, StartThread, BeforeStart, Ends, Running
<1>8. CASE StartServerForward(c)
  BY <1>4, <1>6, <1>8 DEF StartServerForward, StartThread, BeforeStart, Ends, Running
<1> QED
  BY <1>5, <1>7, <1>8 DEF MainStep

-----------------------------------------------------------------------------
(* The threads.                                                            *)

LEMMA ThreadRuns ==
    ASSUME TypeOK, ConnInv, NEW c \in Clients, NEW e \in Ends, fwd[<<c, e>>] # "none"
    PROVE  main[c] \in Running
  BY DEF ConnInv, Conn, BeforeStart, Running, TypeOK, MainStates, Ends

\* A thread takes a chunk, or leaves its loop: not seen.
LEMMA ReadImplements ==
    ASSUME TypeOK, NEW c \in Clients, NEW e \in Ends,
           ReadData(c, e) \/ ReadEnd(c, e) \/ ReadFails(c, e)
    PROVE  UNCHANGED Service!vars
<1>1. main' = main /\ sock' = sock /\ end' = end /\ wrote' = wrote
  BY DEF ReadData, ReadEnd, ReadFails, remoteVars, historyVars
<1>2. CASE ReadData(c, e)
  <2>1. PICK state \in ThreadStates :
            fwd' = [fwd EXCEPT ![<<c, e>>] = state] /\ state \in {"gotData", "write"}
    BY <1>2 DEF ReadData, Goto, ThreadStates
  <2>2. <<c, e>> \in Threads /\ fwd[<<c, e>>] = "read"
    BY <1>2, PairsDiffer DEF ReadData
  <2>3. InHand(<<c, e>>) = 0 /\ InHand(<<c, e>>)' = 1
    BY <2>1, <2>2, HandMoves DEF InHand
  <2>4. \A t \in Threads \ {<<c, e>>} : InHand(t)' = InHand(t)
    BY <2>1, HandMoves
  <2>5. queue' = [queue EXCEPT ![<<c, e>>] = @ - 1]
    BY <1>2 DEF ReadData
  <2>6. queue'[<<c, e>>] = queue[<<c, e>>] - 1 /\ queue[<<c, e>>] \in Nat
    BY <2>2, <2>5 DEF TypeOK
  <2>7. \A t \in Threads \ {<<c, e>>} : queue'[t] = queue[t]
    BY <2>5 DEF TypeOK
  <2>8. Pending(<<c, e>>)' = Pending(<<c, e>>)
    BY <2>3, <2>6 DEF Pending
  <2>9. \A t \in Threads : Pending(t)' = Pending(t)
    BY <2>4, <2>7, <2>8 DEF Pending
  <2>10. \A d \in Clients : StageOf(d)' = StageOf(d)
    BY <1>1, StageSame
  <2> QED
    BY <1>1, <2>9, <2>10, ServiceStutters
<1>3. CASE ReadEnd(c, e) \/ ReadFails(c, e)
  <2>1. PICK state \in ThreadStates :
            /\ fwd' = [fwd EXCEPT ![<<c, e>>] = state]
            /\ state \notin {"gotData", "write"}
    BY <1>3 DEF ReadEnd, ReadFails, Goto, Finish, ThreadStates
  <2>2. queue' = queue /\ fwd[<<c, e>>] = "read"
    BY <1>3 DEF ReadEnd, ReadFails, remoteVars
  <2> QED
    BY <1>1, <2>1, <2>2, ThreadStutters
<1> QED
  BY <1>2, <1>3

\* The flag is not seen.
LEMMA FlagImplements ==
    ASSUME TypeOK, NEW c \in Clients, ClearFlag(c) \/ SetFlag(c) \/ TestFlag(c)
    PROVE  UNCHANGED Service!vars
<1>1. main' = main /\ sock' = sock /\ end' = end /\ queue' = queue /\ wrote' = wrote
  BY DEF ClearFlag, SetFlag, TestFlag, remoteVars, historyVars
<1>2. CASE ClearFlag(c)
  <2>1. PICK state \in ThreadStates :
            /\ fwd' = [fwd EXCEPT ![<<c, "client">>] = state]
            /\ state = IF fwd[<<c, "client">>] = "gotData" THEN "write" ELSE "call"
            /\ fwd[<<c, "client">>] \in {"gotData", "gotEnd"}
    BY <1>2 DEF ClearFlag, Goto, ThreadStates
  <2> QED
    BY <1>1, <2>1, ThreadStutters DEF Ends
<1>3. CASE SetFlag(c)
  BY <1>1, <1>3, ThreadStutters DEF SetFlag, Goto, Ends, ThreadStates
<1>4. CASE TestFlag(c)
  <2>1. PICK state \in ThreadStates :
            /\ fwd' = [fwd EXCEPT ![<<c, "server">>] = state]
            /\ state \in {"call", "done"}
            /\ fwd[<<c, "server">>] = "test"
    BY <1>4 DEF TestFlag, Goto, ThreadStates
  <2> QED
    BY <1>1, <2>1, ThreadStutters DEF Ends
<1> QED
  BY <1>2, <1>3, <1>4

LEMMA OneFewer ==
    ASSUME NEW S, NEW f \in [S -> Int], NEW g \in [S -> Int], NEW s \in S,
           g[s] = f[s] - 1, \A t \in S \ {s} : g[t] = f[t]
    PROVE  g = [f EXCEPT ![s] = @ - 1]
  OBVIOUS

\* A write takes the chunk out of the thread's hand.
LEMMA ChunkLeaves ==
    ASSUME TypeOK, NEW c \in Clients, NEW e \in Ends, NEW state \in ThreadStates,
           fwd' = [fwd EXCEPT ![<<c, e>>] = state], fwd[<<c, e>>] = "write",
           state \notin {"gotData", "write"}, queue' = queue
    PROVE  /\ Pending(<<c, e>>) > 0
           /\ [t \in Threads |-> queue[t] + InHand(t)]' =
                 [[t \in Threads |-> queue[t] + InHand(t)] EXCEPT ![<<c, e>>] = @ - 1]
<1>1. <<c, e>> \in Threads
  BY PairsDiffer
<1>2. \A t \in Threads : queue[t] \in Nat
  BY DEF TypeOK
<1>3. InHand(<<c, e>>) = 1 /\ InHand(<<c, e>>)' = 0
  BY <1>1, HandMoves DEF InHand
<1>4. \A t \in Threads \ {<<c, e>>} : InHand(t)' = InHand(t)
  BY HandMoves
<1>5. Pending(<<c, e>>) > 0
  BY <1>1, <1>2, <1>3 DEF Pending
<1>6. [t \in Threads |-> queue[t] + InHand(t)]' =
          [[t \in Threads |-> queue[t] + InHand(t)] EXCEPT ![<<c, e>>] = @ - 1]
  <2> DEFINE pend == [t \in Threads |-> queue[t] + InHand(t)]
             left == [t \in Threads |-> queue'[t] + InHand(t)']
  <2>1. pend' = left
    OBVIOUS
  <2>2. pend \in [Threads -> Int]
    BY <1>2 DEF InHand
  <2>3. left \in [Threads -> Int]
    BY <1>1, <1>2, <1>3, <1>4 DEF InHand
  <2>4. left[<<c, e>>] = pend[<<c, e>>] - 1
    <3>1. left[<<c, e>>] = queue[<<c, e>>]
      BY <1>1, <1>2, <1>3
    <3>2. pend[<<c, e>>] = queue[<<c, e>>] + 1
      BY <1>1, <1>3
    <3> HIDE DEF left, pend
    <3> QED
      BY <1>1, <1>2, <3>1, <3>2
  <2>5. \A t \in Threads \ {<<c, e>>} : left[t] = pend[t]
    BY <1>4
  <2> HIDE DEF pend, left
  <2>6. left = [pend EXCEPT ![<<c, e>>] = @ - 1]
    BY <1>1, <2>2, <2>3, <2>4, <2>5, OneFewer
  <2> QED
    BY <2>1, <2>6 DEF pend
<1> QED
  BY <1>5, <1>6

\* A chunk is written, or lost.
LEMMA WriteImplements ==
    ASSUME TypeOK, ConnInv, NEW c \in Clients, NEW e \in Ends, Write(c, e)
    PROVE  Service!Deliver(c, e)
<1> DEFINE o == <<c, Other(e)>>
           pend == [t \in Threads |-> queue[t] + InHand(t)]
           stages == [d \in Clients |-> StageOf(d)]
<1>1. /\ main' = main /\ sock' = sock /\ queue' = queue
      /\ sock[o] /\ end[o] # "reset"
      /\ fwd[<<c, e>>] = "write"
  BY DEF Write
<1>2. o \in Threads /\ <<c, e>> \in Threads /\ o # <<c, e>> /\ Service!Other(e) = Other(e)
  BY PairsDiffer DEF Other, Service!Other, Ends
<1>3. Pending(<<c, e>>) > 0 /\ pend' = [pend EXCEPT ![<<c, e>>] = @ - 1]
  <2>1. PICK state \in ThreadStates :
            fwd' = [fwd EXCEPT ![<<c, e>>] = state] /\ state \in {"setFlag", "read"}
    BY DEF Write, Goto, ThreadStates
  <2> QED
    BY <1>1, <2>1, ChunkLeaves
<1>4. stages' = stages
  BY <1>1, StageSame
<1>5. StageOf(c) = "serving" \/ (StageOf(c) = "closing" /\ e = "server")
  <2>1. main[c] \in Running
    BY <1>1, ThreadRuns
  <2> QED
    BY <1>1, <2>1 DEF StageOf, Running, Other, Ends
<1>6. end' = [end EXCEPT ![o] = IF @ = "gone" THEN "reset" ELSE @]
  BY <1>2 DEF Write, TypeOK
<1>7. wrote' = IF e = "client" THEN wrote \cup {c} ELSE wrote
  BY DEF Write
<1>8. pend[<<c, e>>] > 0 /\ stages[c] = StageOf(c)
  BY <1>2, <1>3 DEF Pending
<1> QED
  BY <1>1, <1>2, <1>3, <1>4, <1>5, <1>6, <1>7, <1>8 DEF Service!Deliver

LEMMA WriteFailsImplements ==
    ASSUME TypeOK, ConnInv, NEW c \in Clients, NEW e \in Ends, WriteFails(c, e)
    PROVE  Service!Lose(c, e)
<1> DEFINE o == <<c, Other(e)>>
           pend == [t \in Threads |-> queue[t] + InHand(t)]
           stages == [d \in Clients |-> StageOf(d)]
<1>1. /\ main' = main /\ sock' = sock /\ queue' = queue /\ end' = end /\ wrote' = wrote
      /\ fwd[<<c, e>>] = "write"
  BY DEF WriteFails, remoteVars
<1>2. <<c, e>> \in Threads /\ Service!Other(e) = Other(e)
  BY PairsDiffer DEF Other, Service!Other
<1>3. Pending(<<c, e>>) > 0 /\ pend' = [pend EXCEPT ![<<c, e>>] = @ - 1]
  <2>1. PICK state \in ThreadStates :
            fwd' = [fwd EXCEPT ![<<c, e>>] = state] /\ state \in {"call", "test"}
    BY DEF WriteFails, Goto, Finish, ThreadStates
  <2> QED
    BY <1>1, <2>1, ChunkLeaves
<1>4. stages' = stages
  BY <1>1, StageSame
<1>5. end[o] = "reset" \/ StageOf(c) \in {"closing", "ended"}
  <2>1. main[c] \in Running
    BY <1>1, ThreadRuns
  <2>2. ~sock[o] => ~sock[<<c, "server">>]
    BY <2>1, ServerClosedFirst DEF Other, Ends
  <2> QED
    BY <2>1, <2>2 DEF WriteFails, StageOf, Running
<1>6. pend[<<c, e>>] > 0 /\ stages[c] = StageOf(c)
  BY <1>2, <1>3 DEF Pending
<1> QED
  BY <1>1, <1>2, <1>3, <1>4, <1>5, <1>6 DEF Service!Lose

\* The two closes of connectionBroken are the two steps in which the service ends.
LEMMA CloseImplements ==
    ASSUME TypeOK, ConnInv, FlagInv, LeaveInv, NEW c \in Clients, NEW e \in Ends,
           CloseServerSocket(c, e) \/ CloseClientSocket(c, e)
    PROVE  Service!BeginEnd(c) \/ Service!FinishEnd(c) \/ UNCHANGED Service!vars
<1>1. /\ main' = main /\ end' = end /\ queue' = queue /\ wrote' = wrote
      /\ fwd[<<c, e>>] \in {"closeServer", "closeClient"}
  BY DEF CloseServerSocket, CloseClientSocket, CloseSocket, remoteVars, historyVars
<1>2. PICK s \in Ends :
          /\ sock' = [sock EXCEPT ![<<c, s>>] = FALSE]
          /\ s = "server" <=> fwd[<<c, e>>] = "closeServer"
  BY DEF CloseServerSocket, CloseClientSocket, CloseSocket, Ends
<1>3. \A d \in Clients, x \in Ends :
          sock'[<<d, x>>] = IF d = c /\ x = s THEN FALSE ELSE sock[<<d, x>>]
  BY <1>2, PairsDiffer DEF TypeOK
<1>4. \A t \in Threads : Pending(t)' = Pending(t)
  <2>1. PICK state \in ThreadStates :
            /\ fwd' = [fwd EXCEPT ![<<c, e>>] = state]
            /\ state \in {"closeClient", "clearBoth"}
    BY DEF CloseServerSocket, CloseClientSocket, CloseSocket, Goto, ThreadStates,
           ClosingStates
  <2>2. \A t \in Threads : InHand(t)' = InHand(t)
    BY <1>1, <2>1, HandMoves DEF InHand
  <2> QED
    BY <1>1, <2>2 DEF Pending
<1>5. \A d \in Clients \ {c} : StageOf(d)' = StageOf(d)
  BY <1>1, <1>3, StageSame
<1>6. main[c] \in Running /\ Stage(c, fwd[<<c, e>>])
  <2>1. main[c] \in Running
    BY <1>1, ThreadRuns
  <2> QED
    BY <2>1 DEF ConnInv, Conn, Running
<1>7. CASE s = "server"
  <2>1. Up(c)
    BY <1>2, <1>6, <1>7 DEF Stage
  <2>2. StageOf(c) = "serving" /\ StageOf(c)' = "closing"
    BY <1>1, <1>3, <1>6, <1>7, <2>1 DEF StageOf, Up, Running, Ends
  <2>3. Service!MayEnd(c)
    <3>1. LeaveOf(c) /\ FlagOf(c)
      BY DEF LeaveInv, FlagInv
    <3> QED
      BY <1>1, <2>1, <3>1 DEF Service!MayEnd, LeaveOf, FlagOf, Up, ClosingStates, Ends
  <2> QED
    BY <1>1, <1>4, <1>5, <2>2, <2>3, StageMoves DEF Service!BeginEnd
<1>8. CASE s = "client"
  <2>1. ~sock[<<c, "server">>] /\ fwd[<<c, e>>] = "closeClient"
    BY <1>1, <1>2, <1>6, <1>8 DEF Stage
  <2>2. StageOf(c)' = "ended" /\ StageOf(c) \in {"closing", "ended"}
    BY <1>1, <1>3, <1>6, <1>8, <2>1 DEF StageOf, Running, Ends
  <2>3. CASE StageOf(c) = "closing"
    BY <1>1, <1>4, <1>5, <2>2, <2>3, StageMoves DEF Service!FinishEnd
  <2>4. CASE StageOf(c) = "ended"
    <3>1. \A d \in Clients : StageOf(d)' = StageOf(d)
      BY <1>5, <2>2, <2>4
    <3> QED
      BY <1>1, <1>4, <3>1, ServiceStutters
  <2> QED
    BY <2>2, <2>3, <2>4
<1> QED
  BY <1>7, <1>8 DEF Ends

LEMMA BrokenImplements ==
    ASSUME TypeOK, NEW c \in Clients, NEW e \in Ends,
           Enter(c, e) \/ ClearBoth(c, e) \/ Account(c, e)
    PROVE  UNCHANGED Service!vars
<1>1. main' = main /\ sock' = sock /\ end' = end /\ queue' = queue /\ wrote' = wrote
  BY DEF Enter, ClearBoth, Account, remoteVars, historyVars
<1>2. PICK state \in ThreadStates :
          /\ fwd' = [fwd EXCEPT ![<<c, e>>] = state]
          /\ state \notin {"gotData", "write"}
  BY DEF Enter, ClearBoth, Account, Goto, ThreadStates, ClosingStates
<1>3. fwd[<<c, e>>] \notin {"gotData", "write"}
  BY DEF Enter, ClearBoth, Account
<1> QED
  BY <1>1, <1>2, <1>3, ThreadStutters

\* The remote ends do what the service lets them do.
LEMMA RemoteImplements ==
    ASSUME TypeOK, NEW c \in Clients, NEW e \in Ends, RemoteStep(c, e)
    PROVE  Service!Send(c, e) \/ Service!Leave(c, e)
<1> DEFINE pend == [t \in Threads |-> queue[t] + InHand(t)]
           left == [t \in Threads |-> queue'[t] + InHand(t)']
           stages == [d \in Clients |-> StageOf(d)]
<1>1. main' = main /\ sock' = sock /\ fwd' = fwd /\ wrote' = wrote
  BY DEF RemoteStep, Send, EndMoves, threadVars, historyVars
<1>2. stages' = stages
  BY <1>1, StageSame
<1>3. \A t \in Threads : InHand(t)' = InHand(t) /\ InHand(t) \in {0, 1}
  BY <1>1 DEF InHand
<1>4. pend' = left
  OBVIOUS
<1>5. CASE Send(c, e)
  <2>1. <<c, e>> \in Threads
    BY PairsDiffer
  <2>2. \A t \in Threads : queue'[t] \in Nat /\ queue[t] \in Nat
    BY <1>5 DEF Send, TypeOK
  <2>3. queue'[<<c, e>>] = queue[<<c, e>>] + 1
    BY <1>5, <2>1 DEF Send, TypeOK
  <2>4. \A t \in Threads \ {<<c, e>>} : queue'[t] = queue[t]
    BY <1>5 DEF Send, TypeOK
  <2>5. pend \in [Threads -> Int] /\ left \in [Threads -> Int]
    BY <1>3, <2>2
  <2>6. left[<<c, e>>] = pend[<<c, e>>] + 1
    BY <1>3, <2>1, <2>2, <2>3
  <2>7. \A t \in Threads \ {<<c, e>>} : left[t] = pend[t]
    BY <1>3, <2>4
  <2>8. left = [pend EXCEPT ![<<c, e>>] = @ + 1]
    <3> HIDE DEF pend, left
    <3> QED
      BY <2>1, <2>5, <2>6, <2>7
  <2> QED
    BY <1>1, <1>2, <1>4, <1>5, <2>8 DEF Send, Service!Send
<1>6. CASE EndMoves(c, e)
  <2>1. queue' = queue
    BY <1>6 DEF EndMoves
  <2>2. pend' = pend
    BY <1>3, <2>1
  <2>3. \E r \in Service!Remotes \ {"open"} : end' = [end EXCEPT ![<<c, e>>] = r]
    BY <1>6, BoundsAssumption DEF EndMoves, Service!Remotes
  <2>4. end[<<c, e>>] # "reset"
    BY <1>6 DEF EndMoves
  <2> QED
    BY <1>1, <1>2, <2>2, <2>3, <2>4 DEF Service!Leave
<1> QED
  BY <1>5, <1>6 DEF RemoteStep

LEMMA StepImplements ==
    ASSUME TypeOK, ConnInv, FlagInv, LeaveInv, [Next]_vars
    PROVE  [Service!Next]_(Service!vars)
<1>1. Service!Ends = Ends
  BY DEF Service!Ends, Ends
<1>2. CASE UNCHANGED vars
  <2>1. main' = main /\ sock' = sock /\ fwd' = fwd /\ queue' = queue
        /\ end' = end /\ wrote' = wrote
    BY <1>2 DEF vars, threadVars, remoteVars, historyVars
  <2>2. \A d \in Clients : StageOf(d)' = StageOf(d)
    BY <2>1, StageSame
  <2>3. \A t \in Threads : Pending(t)' = Pending(t)
    BY <2>1 DEF Pending, InHand
  <2> QED
    BY <2>1, <2>2, <2>3, ServiceStutters
<1>3. ASSUME NEW c \in Clients, HandshakeFails(c) \/ Refuse(c) \/ Connect(c)
      PROVE  [Service!Next]_(Service!vars)
  BY <1>3, AcceptImplements DEF Service!Next
<1>4. ASSUME NEW c \in Clients, MainStep(c)
      PROVE  [Service!Next]_(Service!vars)
  BY <1>4, StartImplements DEF Service!Next
<1>5. ASSUME NEW c \in Clients, NEW e \in Ends, PumpStep(c, e)
      PROVE  [Service!Next]_(Service!vars)
  <2>1. CASE ReadData(c, e) \/ ReadEnd(c, e) \/ ReadFails(c, e)
    BY <2>1, ReadImplements
  <2>2. CASE Write(c, e) \/ WriteFails(c, e)
    BY <1>1, <2>2, WriteImplements, WriteFailsImplements DEF Service!Next
  <2>3. CASE ClearFlag(c) \/ SetFlag(c) \/ TestFlag(c)
    BY <2>3, FlagImplements
  <2> QED
    BY <1>5, <2>1, <2>2, <2>3 DEF PumpStep
<1>6. ASSUME NEW c \in Clients, NEW e \in Ends, BrokenStep(c, e)
      PROVE  [Service!Next]_(Service!vars)
  BY <1>6, CloseImplements, BrokenImplements DEF BrokenStep, Service!Next
<1>7. ASSUME NEW c \in Clients, NEW e \in Ends, RemoteStep(c, e)
      PROVE  [Service!Next]_(Service!vars)
  BY <1>1, <1>7, RemoteImplements DEF Service!Next
<1> QED
  BY <1>2, <1>3, <1>4, <1>5, <1>6, <1>7 DEF Next, ThreadStep

\* Whatever the interleaving of the threads, the flag and the monitor, a forwarded
\* connection is what ForwardService promises: it ends only because an end of it
\* did, on both sides, and loses data only then
\* (ForwardSessionService!ImplementsService).
THEOREM ServiceImplemented == Spec => ImplementsService
<1>1. Init => Service!Init
  <2> SUFFICES ASSUME Init
               PROVE  Service!Init
    OBVIOUS
  <2>1. \A c \in Clients : StageOf(c) = "waiting"
    BY PairsDiffer DEF Init, StageOf, Ends
  <2>2. \A t \in Threads : queue[t] + InHand(t) = 0
    BY DEF Init, InHand
  <2>3. end = [t \in Clients \X Service!Ends |-> "open"] /\ wrote = {}
    BY DEF Init, Threads, Ends, Service!Ends
  <2> QED
    BY <2>1, <2>2, <2>3 DEF Service!Init, Threads, Ends, Service!Ends
<1>2. Init => ConnInv
  BY DEF Init, ConnInv, Conn, BeforeStart, Monitor, Threads, Ends, ClosingStates, NoThread
<1>3. Init => FlagInv
  BY DEF Init, FlagInv, FlagOf, Threads, Ends, ClosingStates
<1>4. Init => LeaveInv
  BY DEF Init, LeaveInv, LeaveOf, Threads, Ends, ClosingStates
<1>5. TypeOK /\ ConnInv /\ FlagInv /\ LeaveInv /\ [Next]_vars => [Service!Next]_(Service!vars)
  BY StepImplements
<1> QED
  BY <1>1, <1>2, <1>3, <1>4, <1>5, TypeCorrect, ConnInductive, FlagInductive,
     LeaveInductive, PTL DEF Spec, ImplementsService, Service!Spec

=============================================================================
