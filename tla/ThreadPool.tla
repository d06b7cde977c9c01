----------------------------- MODULE ThreadPool -----------------------------
(***************************************************************************)
(* The worker threads (ThreadPool): a queue under a mutex, a condition     *)
(* variable the workers sleep on, and a destructor that lets them finish   *)
(* the queue before it joins them.  enqueue() notifies after it has let go *)
(* of the mutex, so anything may happen between the push and the           *)
(* notification.  Reactor abstracts all of this to TakeTask and            *)
(* WorkerExit; both keep the promise of TaskService (PoolSpec here, the    *)
(* second conjunct of ServiceSpec there).                                  *)
(*                                                                         *)
(* A stretch of code under the mutex is one step; waiting releases it.     *)
(***************************************************************************)
EXTENDS Naturals, Sequences, FiniteSets

CONSTANTS
    Workers,   (* workers_                                                   *)
    Callers,   (* other threads that call enqueue()                          *)
    MaxTasks   (* bound: tasks enqueued                                      *)

ASSUME ThreadPoolAssumption ==
    /\ IsFiniteSet(Workers) /\ Workers # {}   \* a thread count of 0 becomes 1
    /\ IsFiniteSet(Callers)
    /\ Workers \cap Callers = {}
    /\ MaxTasks \in Nat

VARIABLES
    worker,     \* where each thread of the pool is
    tasks,      \* tasks_, by number in the order they were pushed
    stopping,   \* stopping_
    notifying,  \* threads in enqueue() between unlocking and notify_one()
    destructor, \* where ~ThreadPool is
    accepted,   \* history: number of tasks pushed
    begun,      \* history: the tasks workers have begun, in order
    finished    \* history: the tasks that have returned

vars == <<worker, tasks, stopping, notifying, destructor, accepted, begun, finished>>

-----------------------------------------------------------------------------
\* A worker is about to lock the mutex, sleeps in wait(), runs a task or has ended.
At(state) == {w \in Workers : worker[w].at = state}
Idle == [at |-> "locking", task |-> 0]

\* enqueue() by another thread, which the pool has to outlive, or by a task.
MayEnqueue(t) ==
    /\ t \notin notifying
    /\ IF t \in Callers THEN destructor = "none" ELSE worker[t].at = "running"

\* Seeded fault: stopping_ is not looked at.
EnqueueWhileStopping(t) ==
    /\ MayEnqueue(t) /\ accepted < MaxTasks
    /\ accepted' = accepted + 1
    /\ tasks' = Append(tasks, accepted + 1)
    /\ notifying' = notifying \cup {t}
    /\ UNCHANGED <<worker, stopping, destructor, begun, finished>>

Enqueue(t) ==
    /\ MayEnqueue(t) /\ ~stopping /\ accepted < MaxTasks
    /\ accepted' = accepted + 1
    /\ tasks' = Append(tasks, accepted + 1)
    /\ notifying' = notifying \cup {t}
    /\ UNCHANGED <<worker, stopping, destructor, begun, finished>>

\* Seeded fault: only the task that ends an empty queue is announced.
NotifyFirstOnly(t) ==
    /\ t \in notifying
    /\ notifying' = notifying \ {t}
    /\ IF At("waiting") = {} \/ Len(tasks) # 1
       THEN UNCHANGED worker
       ELSE \E w \in At("waiting") : worker' = [worker EXCEPT ![w] = Idle]
    /\ UNCHANGED <<tasks, stopping, destructor, accepted, begun, finished>>

\* condition_.notify_one() at the end of enqueue().
NotifyOne(t) ==
    /\ t \in notifying
    /\ notifying' = notifying \ {t}
    /\ IF At("waiting") = {}
       THEN UNCHANGED worker
       ELSE \E w \in At("waiting") : worker' = [worker EXCEPT ![w] = Idle]
    /\ UNCHANGED <<tasks, stopping, destructor, accepted, begun, finished>>

-----------------------------------------------------------------------------
(* workerLoop().                                                           *)

\* The predicate of wait() does not hold.
Wait(w) ==
    /\ worker[w].at = "locking" /\ ~stopping /\ tasks = <<>>
    /\ worker' = [worker EXCEPT ![w].at = "waiting"]
    /\ UNCHANGED <<tasks, stopping, notifying, destructor, accepted, begun, finished>>

WakeSpuriously(w) ==
    /\ worker[w].at = "waiting"
    /\ worker' = [worker EXCEPT ![w] = Idle]
    /\ UNCHANGED <<tasks, stopping, notifying, destructor, accepted, begun, finished>>

\* Seeded faults: the task is copied and not popped; the worker ends with tasks
\* left in the queue.
TakeTaskNoPop(w) ==
    /\ worker[w].at = "locking" /\ tasks # <<>>
    /\ worker' = [worker EXCEPT ![w] = [at |-> "running", task |-> Head(tasks)]]
    /\ begun' = Append(begun, Head(tasks))
    /\ UNCHANGED <<tasks, stopping, notifying, destructor, accepted, finished>>
ExitAtOnce(w) ==
    /\ worker[w].at = "locking" /\ stopping
    /\ worker' = [worker EXCEPT ![w].at = "gone"]
    /\ UNCHANGED <<tasks, stopping, notifying, destructor, accepted, begun, finished>>

TakeTask(w) ==
    /\ worker[w].at = "locking" /\ tasks # <<>>
    /\ worker' = [worker EXCEPT ![w] = [at |-> "running", task |-> Head(tasks)]]
    /\ begun' = Append(begun, Head(tasks))
    /\ tasks' = Tail(tasks)
    /\ UNCHANGED <<stopping, notifying, destructor, accepted, finished>>

\* The task returns; what it throws stays in its std::packaged_task.
FinishTask(w) ==
    /\ worker[w].at = "running" /\ w \notin notifying
    /\ finished' = finished \cup {worker[w].task}
    /\ worker' = [worker EXCEPT ![w] = Idle]
    /\ UNCHANGED <<tasks, stopping, notifying, destructor, accepted, begun>>

Exit(w) ==
    /\ worker[w].at = "locking" /\ stopping /\ tasks = <<>>
    /\ worker' = [worker EXCEPT ![w].at = "gone"]
    /\ UNCHANGED <<tasks, stopping, notifying, destructor, accepted, begun, finished>>

-----------------------------------------------------------------------------
(* ~ThreadPool().                                                          *)

\* Seeded fault: stopping_ is not set.
BeginDestructorUnset ==
    /\ destructor = "none" /\ notifying \cap Callers = {}
    /\ destructor' = "notify"
    /\ UNCHANGED <<worker, tasks, stopping, notifying, accepted, begun, finished>>

BeginDestructor ==
    /\ destructor = "none" /\ notifying \cap Callers = {}
    /\ stopping' = TRUE
    /\ destructor' = "notify"
    /\ UNCHANGED <<worker, tasks, notifying, accepted, begun, finished>>

\* Seeded fault: one worker is told.
NotifyAllOnce ==
    /\ destructor = "notify"
    /\ destructor' = "join"
    /\ IF At("waiting") = {}
       THEN UNCHANGED worker
       ELSE \E w \in At("waiting") : worker' = [worker EXCEPT ![w] = Idle]
    /\ UNCHANGED <<tasks, stopping, notifying, accepted, begun, finished>>

NotifyAll ==
    /\ destructor = "notify"
    /\ destructor' = "join"
    /\ worker' = [w \in Workers |-> IF worker[w].at = "waiting" THEN Idle ELSE worker[w]]
    /\ UNCHANGED <<tasks, stopping, notifying, accepted, begun, finished>>

EndDestructor ==
    /\ destructor = "join" /\ At("gone") = Workers
    /\ destructor' = "done"
    /\ UNCHANGED <<worker, tasks, stopping, notifying, accepted, begun, finished>>

-----------------------------------------------------------------------------
Init ==
    /\ worker = [w \in Workers |-> Idle]
    /\ tasks = <<>> /\ stopping = FALSE /\ notifying = {} /\ destructor = "none"
    /\ accepted = 0 /\ begun = <<>> /\ finished = {}

WorkerStep(w) ==
    \/ Wait(w) \/ TakeTask(w) \/ Exit(w)
    \/ NotifyOne(w) \/ FinishTask(w)

DestructorStep == NotifyAll \/ EndDestructor

Next ==
    \/ \E t \in Callers \cup Workers : Enqueue(t)
    \/ \E t \in Callers : NotifyOne(t)
    \/ \E w \in Workers : WorkerStep(w) \/ WakeSpuriously(w)
    \/ BeginDestructor \/ DestructorStep

Spec == Init /\ [][Next]_vars

\* Threads are scheduled, the mutex is granted and tasks come to an end; nobody has
\* to enqueue or to destroy anything.
FairSpec ==
    /\ Spec
    /\ \A w \in Workers : WF_vars(WorkerStep(w))
    /\ \A t \in Callers : WF_vars(NotifyOne(t))
    /\ WF_vars(DestructorStep)

-----------------------------------------------------------------------------
(* Properties.                                                             *)

\* Types of every variable; a worker has a task exactly while it runs it.
TypeOK ==
    /\ worker \in [Workers -> [at : {"locking", "waiting", "running", "gone"},
                               task : 0 .. MaxTasks]]
    /\ \A w \in Workers : worker[w].at = "running" <=> worker[w].task # 0
    /\ tasks \in Seq(1 .. MaxTasks)
    /\ stopping \in BOOLEAN
    /\ notifying \in SUBSET (Callers \cup Workers)
    /\ \A w \in notifying \cap Workers : worker[w].at = "running"
    /\ destructor \in {"none", "notify", "join", "done"}
    /\ stopping <=> destructor # "none"
    /\ accepted \in 0 .. MaxTasks
    /\ begun \in Seq(1 .. MaxTasks)
    /\ finished \in SUBSET (1 .. MaxTasks)

\* Every task enqueue() has accepted is begun once, in the order of acceptance, also
\* when the pool is being destroyed; and when the destructor returns all of them have
\* finished.
EveryTaskOnce ==
    /\ begun \o tasks = [i \in 1 .. accepted |-> i]
    /\ destructor = "done" => finished = 1 .. accepted

\* No wake-up is lost: while a worker sleeps, every task in the queue has a worker
\* that is awake to take it or a notification still to come.
NoLostWakeUp ==
    At("waiting") # {} => Len(tasks) <= Cardinality(At("locking")) + Cardinality(notifying)

\* enqueue(), workerLoop() and ~ThreadPool() keep the promise of the pool, which is all
\* that Reactor knows of it.
Pool == INSTANCE TaskService
          WITH Work <- 1 .. MaxTasks, queue <- tasks,
               hand <- [w \in Workers |-> IF worker[w].at = "running"
                                         THEN <<worker[w].task>> ELSE <<>>],
               gone <- At("gone"), destroyed <- destructor = "done"
PoolSpec == Pool!Spec

\* A task that has been accepted runs to its end, the pool's destruction or not.
EveryTaskRuns == \A i \in 1 .. MaxTasks : i <= accepted ~> i \in finished

\* The destructor returns: no worker sleeps through it.
DestructorReturns == stopping ~> destructor = "done"
=============================================================================
