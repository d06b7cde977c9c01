---------------------------- MODULE AsyncLogger ----------------------------
(***************************************************************************)
(* The logger every thread of the gateway writes to (AsyncLogger): callers *)
(* append records to the active one of two buffers under a mutex; one      *)
(* background thread swaps the buffers and writes without the mutex.       *)
(* flush() blocks until what was accepted before it has been written.      *)
(*                                                                         *)
(* The background thread and the callers in flush() sleep on the same      *)
(* condition variable, so a notify_one() meant for the thread could wake a *)
(* caller instead, and leave the thread to the 200 ms of its wait_for().   *)
(* A stretch of code under the mutex is one step; waiting releases it.     *)
(***************************************************************************)
EXTENDS Integers, FiniteSets, Sequences

CONSTANTS
    Callers,      (* threads that log and flush                              *)
    Logger,       (* the background thread, worker_                          *)
    MaxRecords,   (* bound: records logged                                   *)
    MaxFlushes    (* bound: calls of flush()                                 *)

ASSUME AsyncLoggerAssumption ==
    /\ IsFiniteSet(Callers) /\ Logger \notin Callers
    /\ MaxRecords \in Nat /\ MaxFlushes \in Nat

VARIABLES
    buffers,         \* buffers_[2]: records, by number in the order accepted
    activeIndex,
    flushRequested,
    stopping,
    logger,          \* where backgroundLoop() is, with toWrite and stopNow
    caller,          \* per caller, its call of log() or flush()
    waiting,         \* threads asleep on condition_
    destructor,      \* where ~AsyncLogger is
    written,         \* history: the records written, in order
    accepted,        \* history: number of records accepted
    flushes          \* history: number of calls of flush()

vars == <<buffers, activeIndex, flushRequested, stopping, logger, caller, waiting,
          destructor, written, accepted, flushes>>

-----------------------------------------------------------------------------
\* upTo (history): the records accepted when flush() was called.
Call   == [at : {"none", "notify", "flush"}, upTo : 0 .. MaxRecords]
NoCall == [at |-> "none", upTo |-> 0]
Background == [at : {"lock", "write", "check", "gone"}, toWrite : Seq(1 .. MaxRecords),
               stopNow : BOOLEAN]

\* notify_one() and notify_all(): who sleeps afterwards.
OneAwake == IF waiting = {} THEN {{}} ELSE {waiting \ {t} : t \in waiting}

-----------------------------------------------------------------------------
(* Callers.                                                                *)

Log(t) ==
    /\ destructor = "none" /\ caller[t].at = "none" /\ accepted < MaxRecords
    /\ accepted' = accepted + 1
    /\ buffers' = [buffers EXCEPT ![activeIndex] = Append(@, accepted + 1)]
    /\ caller' = [caller EXCEPT ![t].at = "notify"]
    /\ UNCHANGED <<activeIndex, flushRequested, stopping, logger, waiting, destructor,
                   written, flushes>>

\* condition_.notify_one() at the end of log().
NotifyOne(t) ==
    /\ caller[t].at = "notify"
    /\ caller' = [caller EXCEPT ![t] = NoCall]
    /\ waiting' \in OneAwake
    /\ UNCHANGED <<buffers, activeIndex, flushRequested, stopping, logger, destructor,
                   written, accepted, flushes>>

\* Seeded fault: flush() notifies nobody.
FlushSilently(t) ==
    /\ destructor = "none" /\ caller[t].at = "none" /\ flushes < MaxFlushes
    /\ flushes' = flushes + 1
    /\ flushRequested' = TRUE
    /\ caller' = [caller EXCEPT ![t] = [at |-> "flush", upTo |-> accepted]]
    /\ waiting' = waiting \cup {t}
    /\ UNCHANGED <<buffers, activeIndex, stopping, logger, destructor, written, accepted>>

\* flush() up to the wait: the request and its notification are made under the mutex,
\* and the predicate of the wait does not hold.
Flush(t) ==
    /\ destructor = "none" /\ caller[t].at = "none" /\ flushes < MaxFlushes
    /\ flushes' = flushes + 1
    /\ flushRequested' = TRUE
    /\ caller' = [caller EXCEPT ![t] = [at |-> "flush", upTo |-> accepted]]
    /\ \E others \in OneAwake : waiting' = others \cup {t}
    /\ UNCHANGED <<buffers, activeIndex, stopping, logger, destructor, written, accepted>>

\* A caller awake in flush() looks at the predicate.
FlushAgain(t) ==
    /\ caller[t].at = "flush" /\ t \notin waiting /\ flushRequested
    /\ waiting' = waiting \cup {t}
    /\ UNCHANGED <<buffers, activeIndex, flushRequested, stopping, logger, caller, destructor,
                   written, accepted, flushes>>

FlushReturn(t) ==
    /\ caller[t].at = "flush" /\ t \notin waiting /\ ~flushRequested
    /\ caller' = [caller EXCEPT ![t] = NoCall]
    /\ UNCHANGED <<buffers, activeIndex, flushRequested, stopping, logger, waiting, destructor,
                   written, accepted, flushes>>

WakeSpuriously(t) ==
    /\ t \in waiting
    /\ waiting' = waiting \ {t}
    /\ UNCHANGED <<buffers, activeIndex, flushRequested, stopping, logger, caller, destructor,
                   written, accepted, flushes>>

-----------------------------------------------------------------------------
(* backgroundLoop().                                                       *)

SomethingToDo == stopping \/ flushRequested \/ buffers[activeIndex] # <<>>

Wait ==
    /\ logger.at = "lock" /\ Logger \notin waiting /\ ~SomethingToDo
    /\ waiting' = waiting \cup {Logger}
    /\ UNCHANGED <<buffers, activeIndex, flushRequested, stopping, logger, caller, destructor,
                   written, accepted, flushes>>

\* Seeded fault: the records are copied and left in their buffer.
SwapCopying ==
    /\ logger.at = "lock"
    /\ SomethingToDo \/ Logger \in waiting
    /\ activeIndex' = 1 - activeIndex
    /\ logger' = [at |-> "write", toWrite |-> buffers[activeIndex], stopNow |-> stopping]
    /\ waiting' = waiting \ {Logger}
    /\ UNCHANGED <<buffers, flushRequested, stopping, caller, destructor, written, accepted,
                   flushes>>

\* The wait ends, because there is something to do or after 200 ms (which a thread
\* that is asleep may have spent already), and the buffers are swapped.
Swap ==
    /\ logger.at = "lock"
    /\ SomethingToDo \/ Logger \in waiting
    /\ activeIndex' = 1 - activeIndex
    /\ logger' = [at |-> "write", toWrite |-> buffers[activeIndex], stopNow |-> stopping]
    /\ buffers' = [buffers EXCEPT ![activeIndex] = <<>>]
    /\ waiting' = waiting \ {Logger}
    /\ UNCHANGED <<flushRequested, stopping, caller, destructor, written, accepted, flushes>>

\* writeRecords(), without the mutex.
WriteRecords ==
    /\ logger.at = "write"
    /\ written' = written \o logger.toWrite
    /\ logger' = [logger EXCEPT !.at = "check", !.toWrite = <<>>]
    /\ UNCHANGED <<buffers, activeIndex, flushRequested, stopping, caller, waiting, destructor,
                   accepted, flushes>>

AfterCheck == [logger EXCEPT !.at = IF logger.stopNow THEN "gone" ELSE "lock"]

\* Seeded faults: a flush request is answered without a look at the buffers; only one
\* of the callers that wait for it is told.
CheckAtOnce ==
    /\ logger.at = "check"
    /\ logger' = AfterCheck
    /\ flushRequested' = FALSE
    /\ waiting' = IF flushRequested THEN {} ELSE waiting
    /\ UNCHANGED <<buffers, activeIndex, stopping, caller, destructor, written, accepted, flushes>>
CheckTellingOne ==
    /\ logger.at = "check"
    /\ logger' = AfterCheck
    /\ IF flushRequested /\ buffers[0] = <<>> /\ buffers[1] = <<>>
       THEN flushRequested' = FALSE /\ waiting' \in OneAwake
       ELSE UNCHANGED <<flushRequested, waiting>>
    /\ UNCHANGED <<buffers, activeIndex, stopping, caller, destructor, written, accepted, flushes>>

\* The flush request is answered once both buffers are empty.
Check ==
    /\ logger.at = "check"
    /\ logger' = AfterCheck
    /\ IF flushRequested /\ buffers[0] = <<>> /\ buffers[1] = <<>>
       THEN flushRequested' = FALSE /\ waiting' = {}
       ELSE UNCHANGED <<flushRequested, waiting>>
    /\ UNCHANGED <<buffers, activeIndex, stopping, caller, destructor, written, accepted, flushes>>

-----------------------------------------------------------------------------
(* ~AsyncLogger(), at the end of the process: nobody logs any more.        *)

BeginDestructor ==
    /\ destructor = "none" /\ \A t \in Callers : caller[t].at = "none"
    /\ stopping' = TRUE
    /\ destructor' = "notify"
    /\ UNCHANGED <<buffers, activeIndex, flushRequested, logger, caller, waiting, written,
                   accepted, flushes>>

NotifyAll ==
    /\ destructor = "notify"
    /\ waiting' = {}
    /\ destructor' = "join"
    /\ UNCHANGED <<buffers, activeIndex, flushRequested, stopping, logger, caller, written,
                   accepted, flushes>>

\* join(), then what is left is written.
EndDestructor ==
    /\ destructor = "join" /\ logger.at = "gone"
    /\ written' = written \o buffers[0] \o buffers[1]
    /\ buffers' = [i \in 0 .. 1 |-> <<>>]
    /\ destructor' = "done"
    /\ UNCHANGED <<activeIndex, flushRequested, stopping, logger, caller, waiting, accepted,
                   flushes>>

-----------------------------------------------------------------------------
Init ==
    /\ buffers = [i \in 0 .. 1 |-> <<>>] /\ activeIndex = 0
    /\ flushRequested = FALSE /\ stopping = FALSE
    /\ logger = [at |-> "lock", toWrite |-> <<>>, stopNow |-> FALSE]
    /\ caller = [t \in Callers |-> NoCall]
    /\ waiting = {} /\ destructor = "none"
    /\ written = <<>> /\ accepted = 0 /\ flushes = 0

LoggerStep == Wait \/ Swap \/ WriteRecords \/ Check
CallStep(t) == NotifyOne(t) \/ FlushAgain(t) \/ FlushReturn(t)
DestructorStep == NotifyAll \/ EndDestructor

Next ==
    \/ \E t \in Callers : Log(t) \/ Flush(t) \/ CallStep(t)
    \/ \E t \in Callers \cup {Logger} : WakeSpuriously(t)
    \/ LoggerStep
    \/ BeginDestructor \/ DestructorStep

Spec == Init /\ [][Next]_vars

\* Threads that are awake are scheduled and get the mutex; nobody has to log, to flush
\* or to end the process, and nothing is assumed of the 200 ms.
FairSpec ==
    /\ Spec
    /\ WF_vars(Logger \notin waiting /\ LoggerStep)
    /\ \A t \in Callers : WF_vars(CallStep(t))
    /\ WF_vars(DestructorStep)

-----------------------------------------------------------------------------
(* Properties.                                                             *)

\* Types; the buffer that is not active is empty, callers sleep only in flush() and
\* the thread only between two rounds.
TypeOK ==
    /\ buffers \in [0 .. 1 -> Seq(1 .. MaxRecords)] /\ activeIndex \in 0 .. 1
    /\ buffers[1 - activeIndex] = <<>>
    /\ flushRequested \in BOOLEAN /\ stopping \in BOOLEAN
    /\ logger \in Background
    /\ caller \in [Callers -> Call]
    /\ waiting \in SUBSET (Callers \cup {Logger})
    /\ \A t \in waiting \cap Callers : caller[t].at = "flush"
    /\ Logger \in waiting => logger.at = "lock"
    /\ destructor \in {"none", "notify", "join", "done"}
    /\ stopping <=> destructor # "none"
    /\ written \in Seq(1 .. MaxRecords)
    /\ accepted \in 0 .. MaxRecords /\ flushes \in 0 .. MaxFlushes

\* Every record accepted is written once and in the order of acceptance, over every
\* swap, flush and shutdown; when the destructor returns all have been written.
EachRecordOnce ==
    /\ written \o logger.toWrite \o buffers[activeIndex] = [i \in 1 .. accepted |-> i]
    /\ destructor = "done" => Len(written) = accepted

\* Wake-ups reach the background thread: while it sleeps no caller does, so that a
\* notify_one() cannot wake the wrong one; and it sleeps with something to do only if a
\* notification is still to come, so that no record or request waits for the 200 ms.
WakeUpsReachTheLogger ==
    Logger \in waiting =>
        /\ waiting = {Logger}
        /\ SomethingToDo => destructor = "notify" \/ \E t \in Callers : caller[t].at = "notify"

\* flush() "blocks until every record accepted before this call has been written out".
FlushIsComplete ==
    [][\A t \in Callers : (caller[t].at = "flush" /\ caller'[t].at # "flush")
                              => caller[t].upTo <= Len(written)]_vars

\* flush() returns once there are no new records, whichever thread a notification woke.
FlushReturns == \A t \in Callers : caller[t].at = "flush" ~> caller[t].at # "flush"

=============================================================================
