--------------------------- MODULE ReactorService ---------------------------
(***************************************************************************)
(* The refinement mappings from Reactor to GatewayService, which is what   *)
(* clients see of it, and to TaskService, which is what it has of its      *)
(* thread pool.                                                            *)
(***************************************************************************)
EXTENDS Reactor

\* A connection in connections_ is taken in while it awaits its completion, and
\* is being answered once its WRITE filter is registered.
StageOf(c) ==
    CASE phase[c] = "away"    -> "away"
      [] phase[c] = "backlog" -> "waiting"
      [] phase[c] = "closed"  -> "closed"
      [] phase[c] = "open"    ->
           IF \E f \in FdOf(c) : conns[f].awaiting THEN "pending"
           ELSE IF \E f \in FdOf(c) : Writing(f) THEN "replying" ELSE "open"

Service == INSTANCE GatewayService
             WITH stage <- [c \in Clients |-> StageOf(c)], up <- kqOpen

\* A worker has its task in hand until the task has triggered the wake-up.
Pool == INSTANCE TaskService
          WITH Work <- Task, queue <- tasks,
               hand <- [w \in Workers |-> IF worker[w].at \in {"idle", "gone"} THEN <<>>
                                         ELSE <<worker[w].task>>],
               gone <- {w \in Workers : worker[w].at = "gone"},
               destroyed <- ~kqOpen

\* The reactor implements the service: no request is dropped between the parser,
\* the task queue, a worker, the completion queue and the socket, and none is
\* answered with another's response.  And it assumes of its workers nothing but
\* what TaskService says, which ThreadPool implements.
ServiceSpec == Service!Spec /\ Pool!Spec
=============================================================================
