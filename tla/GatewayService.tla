--------------------------- MODULE GatewayService ---------------------------
(***************************************************************************)
(* What the gateway promises to each client, without descriptors, events,  *)
(* queues or threads: a client's request is taken in at most once, it is   *)
(* answered at most once and with its own answer, and once it has been     *)
(* taken in the gateway closes the connection only after the answer, or    *)
(* when it shuts down and closes them all.                                 *)
(***************************************************************************)
CONSTANT Clients

VARIABLES
    stage,    \* how far each client has come
    replies,  \* for whose requests the bytes each client received were made
    up        \* the gateway has not shut down

svars == <<stage, replies, up>>

Stage == {"away", "waiting", "open", "pending", "replying", "closed"}

Init ==
    /\ stage = [c \in Clients |-> "away"]
    /\ replies = [c \in Clients |-> {}]
    /\ up = TRUE

Move(c, from, to) ==
    /\ up /\ stage[c] \in from
    /\ stage' = [stage EXCEPT ![c] = to]
    /\ UNCHANGED <<replies, up>>

Arrive(c) == Move(c, {"away"}, "waiting")
Admit(c)  == Move(c, {"waiting"}, "open")
Submit(c) == Move(c, {"open"}, "pending")
\* A malformed request is refused without having been taken in.
Refuse(c) == Move(c, {"open"}, "replying")
Answer(c) == Move(c, {"pending"}, "replying")
\* A client that waits may give up before it is admitted.
HangUp(c) == Move(c, {"waiting", "open", "replying"}, "closed")

Deliver(c) ==
    /\ up /\ stage[c] = "replying"
    /\ replies' = [replies EXCEPT ![c] = {c}]
    /\ UNCHANGED <<stage, up>>

ShutDown ==
    /\ up /\ up' = FALSE
    /\ stage' = [c \in Clients |-> IF stage[c] = "away" THEN "away" ELSE "closed"]
    /\ UNCHANGED replies

Next ==
    \/ \E c \in Clients :
         \/ Arrive(c) \/ Admit(c) \/ Submit(c) \/ Refuse(c)
         \/ Answer(c) \/ Deliver(c) \/ HangUp(c)
    \/ ShutDown

Spec == Init /\ [][Next]_svars
=============================================================================
