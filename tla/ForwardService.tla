--------------------------- MODULE ForwardService ---------------------------
(***************************************************************************)
(* What the forward server promises a connection, without its threads,     *)
(* flags and locks: a client waits, and is refused, dropped or served; while *)
(* it is served, chunks are delivered in both directions; the service ends  *)
(* only because an end of the connection did, and then on both sides.      *)
(***************************************************************************)
EXTENDS Integers

CONSTANT Clients

Ends == {"client", "server"}
Other(e) == IF e = "client" THEN "server" ELSE "client"

VARIABLES
    stage,    \* of each client's connection
    remote,   \* what each remote end has done
    pending,  \* chunks an end has sent that are not delivered
    heard     \* clients from which something was delivered

vars == <<stage, remote, pending, heard>>

Stages  == {"waiting", "dropped", "refused", "serving", "closing", "ended"}
Remotes == {"open", "shut", "gone", "reset"}

Init ==
    /\ stage = [c \in Clients |-> "waiting"]
    /\ remote = [t \in Clients \X Ends |-> "open"]
    /\ pending = [t \in Clients \X Ends |-> 0]
    /\ heard = {}

Moves(c, from, to) ==
    /\ stage[c] = from
    /\ stage' = [stage EXCEPT ![c] = to]
    /\ UNCHANGED <<remote, pending, heard>>

Drop(c)   == Moves(c, "waiting", "dropped")
Refuse(c) == stage[c] \in {"waiting", "dropped"} /\ Moves(c, stage[c], "refused")
Serve(c)  == Moves(c, "waiting", "serving")

\* The client is gone, or the server after it has heard from the client, or the
\* connection to the server was reset.
MayEnd(c) ==
    \/ remote[<<c, "client">>] # "open"
    \/ remote[<<c, "server">>] = "reset"
    \/ remote[<<c, "server">>] # "open" /\ c \in heard

BeginEnd(c)  == MayEnd(c) /\ Moves(c, "serving", "closing")
FinishEnd(c) == Moves(c, "closing", "ended")

Send(c, e) ==
    /\ remote[<<c, e>>] = "open"
    /\ pending' = [pending EXCEPT ![<<c, e>>] = @ + 1]
    /\ UNCHANGED <<stage, remote, heard>>

Leave(c, e) ==
    /\ remote[<<c, e>>] # "reset"
    /\ \E r \in Remotes \ {"open"} : remote' = [remote EXCEPT ![<<c, e>>] = r]
    /\ UNCHANGED <<stage, pending, heard>>

\* A chunk reaches the other end; one that is gone answers with a reset.
Deliver(c, e) ==
    LET o == <<c, Other(e)>>
    IN  /\ stage[c] = "serving" \/ (stage[c] = "closing" /\ e = "server")
        /\ remote[o] # "reset"
        /\ pending[<<c, e>>] > 0
        /\ pending' = [pending EXCEPT ![<<c, e>>] = @ - 1]
        /\ remote' = [remote EXCEPT ![o] = IF @ = "gone" THEN "reset" ELSE @]
        /\ heard' = IF e = "client" THEN heard \cup {c} ELSE heard
        /\ UNCHANGED stage

\* A chunk is lost only to an end that was reset, or after the service has ended.
Lose(c, e) ==
    /\ remote[<<c, Other(e)>>] = "reset" \/ stage[c] \in {"closing", "ended"}
    /\ pending[<<c, e>>] > 0
    /\ pending' = [pending EXCEPT ![<<c, e>>] = @ - 1]
    /\ UNCHANGED <<stage, remote, heard>>

Next ==
    \E c \in Clients :
        \/ Drop(c) \/ Refuse(c) \/ Serve(c) \/ BeginEnd(c) \/ FinishEnd(c)
        \/ \E e \in Ends : Send(c, e) \/ Leave(c, e) \/ Deliver(c, e) \/ Lose(c, e)

Spec == Init /\ [][Next]_vars

\* The promise of progress: once the client is gone the service ends, on both sides.
EndsForGood(c) ==
    /\ WF_vars(FinishEnd(c))
    /\ WF_vars(remote[<<c, "client">>] # "open" /\ BeginEnd(c))

FairSpec == Spec /\ \A c \in Clients : EndsForGood(c)

=============================================================================
