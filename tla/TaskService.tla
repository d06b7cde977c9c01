---------------------------- MODULE TaskService ----------------------------
(***************************************************************************)
(* What a pool of threads promises to those who give it work, without its  *)
(* mutex, its condition variable or the state of its threads: work is      *)
(* begun once and in the order it was submitted; nothing is refused before *)
(* the pool is told to stop and nothing is taken in afterwards; a thread   *)
(* leaves only when the pool stops and no work is left; and the pool is    *)
(* destroyed only when every thread has left.                              *)
(***************************************************************************)
EXTENDS Sequences

CONSTANTS
    Workers,  (* the threads of the pool                                     *)
    Work      (* what may be submitted                                       *)

VARIABLES
    queue,     \* the work submitted and not begun
    hand,      \* the work each thread has in hand, a sequence of one or none
    gone,      \* the threads that have left
    stopping,  \* the pool has been told to stop
    destroyed  \* its destructor has returned

pvars == <<queue, hand, gone, stopping, destroyed>>

Init ==
    /\ queue = <<>> /\ hand = [w \in Workers |-> <<>>]
    /\ gone = {} /\ stopping = FALSE /\ destroyed = FALSE

Submit(x) ==
    /\ ~stopping
    /\ queue' = Append(queue, x)
    /\ UNCHANGED <<hand, gone, stopping, destroyed>>

Free(w) == w \notin gone /\ hand[w] = <<>>

Begin(w) ==
    /\ Free(w) /\ queue # <<>>
    /\ hand' = [hand EXCEPT ![w] = <<Head(queue)>>]
    /\ queue' = Tail(queue)
    /\ UNCHANGED <<gone, stopping, destroyed>>

Return(w) ==
    /\ hand[w] # <<>>
    /\ hand' = [hand EXCEPT ![w] = <<>>]
    /\ UNCHANGED <<queue, gone, stopping, destroyed>>

Stop ==
    /\ ~stopping /\ stopping' = TRUE
    /\ UNCHANGED <<queue, hand, gone, destroyed>>

Leave(w) ==
    /\ Free(w) /\ stopping /\ queue = <<>>
    /\ gone' = gone \cup {w}
    /\ UNCHANGED <<queue, hand, stopping, destroyed>>

Destroy ==
    /\ ~destroyed /\ gone = Workers
    /\ destroyed' = TRUE
    /\ UNCHANGED <<queue, hand, gone, stopping>>

Next ==
    \/ \E x \in Work : Submit(x)
    \/ \E w \in Workers : Begin(w) \/ Return(w) \/ Leave(w)
    \/ Stop \/ Destroy

Spec == Init /\ [][Next]_pvars
=============================================================================
