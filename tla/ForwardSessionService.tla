----------------------- MODULE ForwardSessionService ------------------------
(***************************************************************************)
(* ForwardSession implements ForwardService: the stage of a connection is  *)
(* read off its two sockets, and a chunk is pending until the ForwardThread*)
(* that holds it has written it.                                           *)
(***************************************************************************)
EXTENDS ForwardSession

\* The chunk a ForwardThread has read and not yet written.
InHand(t) == IF fwd[t] \in {"gotData", "write"} THEN 1 ELSE 0

StageOf(c) ==
    LET client == sock[<<c, "client">>]
        server == sock[<<c, "server">>]
    IN  IF main[c] = "refused" THEN "refused"
        ELSE IF main[c] \in {"connecting", "streams", "failed"}
             THEN IF client THEN "waiting" ELSE "dropped"
             ELSE IF server THEN "serving" ELSE IF client THEN "closing" ELSE "ended"

Service ==
    INSTANCE ForwardService WITH
        stage   <- [c \in Clients |-> StageOf(c)],
        remote  <- end,
        pending <- [t \in Threads |-> queue[t] + InHand(t)],
        heard   <- wrote

\* The threads, the flag and the lock implement the service: whatever their
\* interleaving, a connection ends only if an end of it did, ends on both sides,
\* and loses data only then.
ImplementsService == Service!Spec

\* They also keep its promise of progress.
ServiceProgress == Service!FairSpec

=============================================================================
