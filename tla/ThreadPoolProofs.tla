-------------------------- MODULE ThreadPoolProofs --------------------------
(***************************************************************************)
(* Proofs about ThreadPool, for any number of workers, callers and tasks.  *)
(***************************************************************************)
EXTENDS ThreadPool, FiniteSetTheorems, SequenceTheorems, TLAPS

\* Every variable keeps its type, and a worker holds a task while it runs it (the
\* local variable of workerLoop()).
LEMMA TypeStep == TypeOK /\ [Next]_vars => TypeOK'
<1> SUFFICES ASSUME TypeOK, [Next]_vars PROVE TypeOK'
  OBVIOUS
<1> USE DEF TypeOK, Idle
<1>1. ASSUME NEW t \in Callers \cup Workers, Enqueue(t) PROVE TypeOK'
  <2>1. /\ accepted + 1 \in 1 .. MaxTasks /\ accepted' = accepted + 1
        /\ tasks' = Append(tasks, accepted + 1)
    BY <1>1, ThreadPoolAssumption DEF Enqueue
  <2>2. accepted' \in 0 .. MaxTasks /\ tasks' \in Seq(1 .. MaxTasks)
    BY <2>1
  <2>3. /\ notifying' \in SUBSET (Callers \cup Workers)
        /\ \A w \in notifying' \cap Workers : worker[w].at = "running"
    BY <1>1, ThreadPoolAssumption DEF Enqueue, MayEnqueue
  <2> QED
    BY <1>1, <2>2, <2>3 DEF Enqueue
<1>2. ASSUME NEW t \in Callers \cup Workers, NotifyOne(t) PROVE TypeOK'
  <2>1. CASE UNCHANGED worker
    BY <1>2, <2>1 DEF NotifyOne
  <2>2. ASSUME NEW w \in At("waiting"), worker' = [worker EXCEPT ![w] = Idle]
        PROVE  TypeOK'
    <3>1. w \in Workers /\ worker[w].at = "waiting" /\ w \notin notifying
      BY <2>2 DEF At
    <3>2. worker' \in [Workers -> [at : {"locking", "waiting", "running", "gone"},
                                   task : 0 .. MaxTasks]]
      BY <2>2, <3>1, ThreadPoolAssumption
    <3>3. \A v \in Workers : /\ worker'[v].at = "running" <=> worker'[v].task # 0
                             /\ v \in notifying' => worker'[v].at = "running"
      BY <1>2, <2>2, <3>1 DEF NotifyOne
    <3> QED
      BY <1>2, <3>2, <3>3 DEF NotifyOne
  <2> QED
    BY <1>2, <2>1, <2>2 DEF NotifyOne
<1>3. ASSUME NEW w \in Workers, Wait(w) PROVE TypeOK'
  BY <1>3 DEF Wait
<1>4. ASSUME NEW w \in Workers, WakeSpuriously(w) PROVE TypeOK'
  BY <1>4 DEF WakeSpuriously
<1>5. ASSUME NEW w \in Workers, TakeTask(w) PROVE TypeOK'
  <2>1. tasks # <<>> /\ tasks' = Tail(tasks) /\ begun' = Append(begun, Head(tasks))
    BY <1>5 DEF TakeTask
  <2>2. Head(tasks) \in 1 .. MaxTasks /\ tasks' \in Seq(1 .. MaxTasks)
    BY <2>1, HeadTailProperties
  <2>3. begun' \in Seq(1 .. MaxTasks)
    BY <2>1, <2>2
  <2>4. /\ worker' \in [Workers -> [at : {"locking", "waiting", "running", "gone"},
                                   task : 0 .. MaxTasks]]
        /\ worker'[w] = [at |-> "running", task |-> Head(tasks)]
        /\ \A v \in Workers \ {w} : worker'[v] = worker[v]
    BY <1>5, <2>2 DEF TakeTask
  <2>5. Head(tasks) # 0
    BY <2>2
  <2>6. \A v \in Workers : worker'[v].at = "running" <=> worker'[v].task # 0
    <3>1. worker'[w].at = "running" /\ worker'[w].task # 0
      BY <2>4, <2>5
    <3> QED
      BY <2>4, <3>1
  <2>7. \A v \in notifying \cap Workers : worker'[v].at = "running"
    BY <2>4
  <2> QED
    BY <1>5, <2>2, <2>3, <2>4, <2>6, <2>7 DEF TakeTask
<1>6. ASSUME NEW w \in Workers, FinishTask(w) PROVE TypeOK'
  <2>1. /\ worker' \in [Workers -> [at : {"locking", "waiting", "running", "gone"},
                                   task : 0 .. MaxTasks]]
        /\ worker'[w] = Idle
        /\ \A v \in Workers \ {w} : worker'[v] = worker[v]
    BY <1>6, ThreadPoolAssumption DEF FinishTask
  <2>2. /\ \A v \in Workers : worker'[v].at = "running" <=> worker'[v].task # 0
        /\ \A v \in notifying \cap Workers : worker'[v].at = "running"
    BY <1>6, <2>1 DEF FinishTask
  <2>3. worker[w].task \in 1 .. MaxTasks
    <3>1. worker[w].task \in 0 .. MaxTasks /\ worker[w].task # 0
      BY <1>6 DEF FinishTask
    <3> QED
      BY <3>1, ThreadPoolAssumption
  <2> QED
    BY <1>6, <2>1, <2>2, <2>3 DEF FinishTask
<1>7. ASSUME NEW w \in Workers, Exit(w) PROVE TypeOK'
  BY <1>7 DEF Exit
<1>8. CASE BeginDestructor
  BY <1>8 DEF BeginDestructor
<1>9. CASE NotifyAll
  BY <1>9 DEF NotifyAll
<1>10. CASE EndDestructor
  BY <1>10 DEF EndDestructor
<1>11. CASE UNCHANGED vars
  BY <1>11 DEF vars
<1> QED
  BY <1>1, <1>2, <1>3, <1>4, <1>5, <1>6, <1>7, <1>8, <1>9, <1>10, <1>11
     DEF Next, WorkerStep, DestructorStep

LEMMA TypeInit == Init => TypeOK
<1> SUFFICES ASSUME Init PROVE TypeOK
  OBVIOUS
<1>1. worker \in [Workers -> [at : {"locking", "waiting", "running", "gone"},
                             task : 0 .. MaxTasks]]
  BY ThreadPoolAssumption DEF Init, Idle
<1>2. \A w \in Workers : worker[w].at = "locking" /\ worker[w].task = 0
  BY DEF Init, Idle
<1>3. /\ tasks \in Seq(1 .. MaxTasks) /\ begun \in Seq(1 .. MaxTasks)
      /\ accepted \in 0 .. MaxTasks
  BY ThreadPoolAssumption, EmptySeq DEF Init
<1> QED
  BY <1>1, <1>2, <1>3 DEF Init, TypeOK

\* Types of every variable of the pool.
THEOREM TypeCorrect == Spec => []TypeOK
BY TypeInit, TypeStep, PTL DEF Spec

-----------------------------------------------------------------------------
(* What EveryTaskOnce needs to be inductive: the numbers in the queue follow those
   begun; a task that has begun is running or has finished; and a worker ends only
   when there is nothing left and nothing can be added. *)
Ordered ==
    /\ accepted = Len(begun) + Len(tasks)
    /\ \A i \in 1 .. Len(begun) : begun[i] = i
    /\ \A i \in 1 .. Len(tasks) : tasks[i] = Len(begun) + i

Running(i) == \E w \in Workers : worker[w].at = "running" /\ worker[w].task = i
Progress ==
    /\ finished \subseteq 1 .. Len(begun)
    /\ \A w \in Workers : worker[w].at = "running" => worker[w].task \in 1 .. Len(begun)
    /\ \A i \in 1 .. Len(begun) : i \in finished \/ Running(i)

Ending ==
    /\ \A w \in Workers : worker[w].at = "gone" => stopping /\ tasks = <<>>
    /\ destructor = "done" => \A w \in Workers : worker[w].at = "gone"

Inv == Ordered /\ Progress /\ Ending

\* enqueue() appends to the queue; every other step of a thread leaves it alone or
\* moves its head to a worker.
LEMMA OrderedStep == TypeOK /\ Ordered /\ [Next]_vars => Ordered'
<1> SUFFICES ASSUME TypeOK, Ordered, [Next]_vars PROVE Ordered'
  OBVIOUS
<1> USE DEF TypeOK, Ordered
<1>1. ASSUME NEW t \in Callers \cup Workers, Enqueue(t) PROVE Ordered'
  <2>1. accepted' = accepted + 1 /\ tasks' = Append(tasks, accepted') /\ begun' = begun
    BY <1>1 DEF Enqueue
  <2>2. Len(tasks') = Len(tasks) + 1 /\ tasks'[Len(tasks) + 1] = accepted'
        /\ \A i \in 1 .. Len(tasks) : tasks'[i] = tasks[i]
    BY <2>1, ThreadPoolAssumption
  <2> QED
    BY <2>1, <2>2
<1>2. ASSUME NEW w \in Workers, TakeTask(w) PROVE Ordered'
  <2>1. tasks # <<>> /\ tasks' = Tail(tasks) /\ begun' = Append(begun, Head(tasks))
    BY <1>2 DEF TakeTask
  <2>2. /\ Len(tasks) \in Nat \ {0} /\ Head(tasks) = tasks[1]
        /\ Len(tasks') = Len(tasks) - 1
        /\ \A i \in 1 .. Len(tasks') : tasks'[i] = tasks[i + 1]
    BY <2>1, HeadTailProperties
  <2>3. tasks[1] = Len(begun) + 1
    BY <2>2
  <2>4. /\ Len(begun') = Len(begun) + 1
        /\ \A i \in 1 .. Len(begun) : begun'[i] = begun[i]
        /\ begun'[Len(begun) + 1] = tasks[1]
    BY <2>1, <2>2
  <2>5. \A i \in 1 .. Len(begun') : begun'[i] = i
    <3> SUFFICES ASSUME NEW i \in 1 .. Len(begun') PROVE begun'[i] = i
      OBVIOUS
    <3>1. Len(begun) \in Nat /\ (i \in 1 .. Len(begun) \/ i = Len(begun) + 1)
      BY <2>4
    <3> QED
      BY <2>3, <2>4, <3>1
  <2>6. \A i \in 1 .. Len(tasks') : tasks'[i] = Len(begun') + i
    BY <2>2, <2>4
  <2>7. accepted' = Len(begun') + Len(tasks')
    BY <1>2, <2>2, <2>4 DEF TakeTask
  <2> QED
    BY <2>5, <2>6, <2>7
<1>3. CASE UNCHANGED <<accepted, begun, tasks>>
  BY <1>3
<1> QED
  BY <1>1, <1>2, <1>3
     DEF Next, WorkerStep, DestructorStep, NotifyOne, Wait, WakeSpuriously, FinishTask,
         Exit, BeginDestructor, NotifyAll, EndDestructor, vars

\* A task leaves the worker that runs it only by finishing.
LEMMA ProgressStep == TypeOK /\ Ordered /\ Progress /\ [Next]_vars => Progress'
<1> SUFFICES ASSUME TypeOK, Ordered, Progress, [Next]_vars PROVE Progress'
  OBVIOUS
<1> USE DEF TypeOK, Progress, Running
<1>1. ASSUME NEW w \in Workers, TakeTask(w) PROVE Progress'
  <2>1. PICK n \in Nat : n = Len(begun)
    OBVIOUS
  <2>2. /\ Head(tasks) = n + 1 /\ Head(tasks) \in 1 .. MaxTasks
        /\ begun' = Append(begun, Head(tasks)) /\ UNCHANGED finished
    <3>1. tasks # <<>> /\ begun' = Append(begun, Head(tasks)) /\ UNCHANGED finished
      BY <1>1 DEF TakeTask
    <3>2. tasks \in Seq(1 .. MaxTasks) /\ Len(tasks) \in Nat \ {0}
      BY <3>1
    <3>4. Head(tasks) = tasks[1] /\ tasks[1] \in 1 .. MaxTasks
      <4>1. 1 \in 1 .. Len(tasks)
        BY <3>2
      <4>2. tasks[1] \in 1 .. MaxTasks
        BY <3>2, <4>1, ElementOfSeq
      <4> QED
        BY <3>1, <3>2, <4>2, HeadTailProperties
    <3>3. tasks[1] = n + 1
      BY <2>1, <3>2 DEF Ordered
    <3> QED
      BY <3>1, <3>3, <3>4
  <2>3. /\ worker'[w].at = "running" /\ worker'[w].task = n + 1
        /\ worker[w].at = "locking"
        /\ \A v \in Workers \ {w} : worker'[v] = worker[v]
    BY <1>1, <2>2 DEF TakeTask
  <2>4. Len(begun') = n + 1
    BY <2>1, <2>2
  <2>5. ASSUME NEW i \in 1 .. n PROVE i \in finished' \/ Running(i)'
    <3>1. CASE i \in finished
      BY <2>2, <3>1
    <3>2. CASE i \notin finished
      <4>1. PICK v \in Workers : worker[v].at = "running" /\ worker[v].task = i
        BY <2>1, <3>2
      <4>2. worker'[v] = worker[v]
        BY <2>3, <4>1
      <4> QED
        BY <4>1, <4>2
    <3> QED
      BY <3>1, <3>2
  <2>6. \A v \in Workers : worker'[v].at = "running" => worker'[v].task \in 1 .. n + 1
    BY <2>1, <2>3
  <2>7. finished' \subseteq 1 .. n + 1
    BY <2>1, <2>2
  <2>8. \A i \in 1 .. n + 1 : i \in finished' \/ Running(i)'
    <3>1. \A i \in 1 .. n + 1 : i = n + 1 \/ i \in 1 .. n
      OBVIOUS
    <3>2. \A i : i = n + 1 => Running(i)'
      BY <2>3
    <3> QED
      BY <2>5, <3>1, <3>2
  <2> QED
    BY <2>4, <2>6, <2>7, <2>8
<1>2. ASSUME NEW w \in Workers, FinishTask(w) PROVE Progress'
  <2>1. /\ worker[w].at = "running" /\ finished' = finished \cup {worker[w].task}
        /\ UNCHANGED begun
        /\ \A v \in Workers \ {w} : worker'[v] = worker[v]
    BY <1>2 DEF FinishTask
  <2>2. worker[w].task \in 1 .. Len(begun) /\ worker'[w].at = "locking"
    BY <1>2, <2>1 DEF FinishTask, Idle
  <2>3. PICK n \in Nat : n = Len(begun)
    OBVIOUS
  <2>4. ASSUME NEW i \in 1 .. n PROVE i \in finished' \/ Running(i)'
    <3>1. CASE i \in finished \/ i = worker[w].task
      BY <2>1, <3>1
    <3>2. CASE i \notin finished /\ i # worker[w].task
      <4>1. PICK v \in Workers : worker[v].at = "running" /\ worker[v].task = i
        BY <2>3, <3>2
      <4>2. worker'[v] = worker[v]
        BY <2>1, <3>2, <4>1
      <4> QED
        BY <4>1, <4>2
    <3> QED
      BY <3>1, <3>2
  <2>5. finished' \subseteq 1 .. n /\ Len(begun') = n
    BY <2>1, <2>2, <2>3
  <2>6. \A v \in Workers : worker'[v].at = "running" => worker'[v].task \in 1 .. n
    BY <2>1, <2>2, <2>3
  <2> QED
    BY <2>4, <2>5, <2>6
<1>3. ASSUME UNCHANGED <<begun, finished>>,
             \A w \in Workers : /\ worker'[w].at = "running" => worker'[w] = worker[w]
                                /\ worker[w].at = "running" => worker'[w] = worker[w]
      PROVE  Progress'
  BY <1>3
<1>4. ASSUME NEW t \in Callers \cup Workers, NotifyOne(t) PROVE Progress'
  <2>1. \A w \in Workers : /\ worker'[w].at = "running" => worker'[w] = worker[w]
                           /\ worker[w].at = "running" => worker'[w] = worker[w]
    BY <1>4 DEF NotifyOne, At, Idle
  <2> QED
    BY <1>3, <1>4, <2>1 DEF NotifyOne
<1>5. ASSUME NEW w \in Workers, Wait(w) \/ WakeSpuriously(w) \/ Exit(w) PROVE Progress'
  <2>1. \A v \in Workers : /\ worker'[v].at = "running" => worker'[v] = worker[v]
                           /\ worker[v].at = "running" => worker'[v] = worker[v]
    BY <1>5 DEF Wait, WakeSpuriously, Exit, Idle
  <2> QED
    BY <1>3, <1>5, <2>1 DEF Wait, WakeSpuriously, Exit
<1>6. CASE NotifyAll
  <2>1. \A v \in Workers : /\ worker'[v].at = "running" => worker'[v] = worker[v]
                           /\ worker[v].at = "running" => worker'[v] = worker[v]
    BY <1>6 DEF NotifyAll, Idle
  <2> QED
    BY <1>3, <1>6, <2>1 DEF NotifyAll
<1>7. CASE UNCHANGED <<worker, begun, finished>>
  BY <1>3, <1>7
<1> QED
  BY <1>1, <1>2, <1>4, <1>5, <1>6, <1>7
     DEF Next, WorkerStep, DestructorStep, Enqueue, BeginDestructor, EndDestructor, vars

\* A worker that has ended stays so, and nothing is added to the queue from then on:
\* enqueue() refuses once stopping_ is set.
LEMMA EndingStep == TypeOK /\ Ending /\ [Next]_vars => Ending'
<1> SUFFICES ASSUME TypeOK, Ending, [Next]_vars PROVE Ending'
  OBVIOUS
<1> USE DEF TypeOK, Ending
<1>1. ASSUME NEW t \in Callers \cup Workers, Enqueue(t) PROVE Ending'
  BY <1>1 DEF Enqueue
<1>2. ASSUME NEW t \in Callers \cup Workers, NotifyOne(t) PROVE Ending'
  <2>1. \/ UNCHANGED worker
        \/ \E v \in At("waiting") : worker' = [worker EXCEPT ![v] = Idle]
    BY <1>2 DEF NotifyOne
  <2>2. \A w \in Workers : worker'[w].at = "gone" <=> worker[w].at = "gone"
    BY <2>1 DEF At, Idle
  <2> QED
    BY <1>2, <2>2 DEF NotifyOne
<1>3. ASSUME NEW w \in Workers, Wait(w) \/ WakeSpuriously(w) \/ TakeTask(w) \/ FinishTask(w)
      PROVE  Ending'
  <2>1. worker[w].at # "gone" /\ worker'[w].at # "gone"
    BY <1>3 DEF Wait, WakeSpuriously, TakeTask, FinishTask, Idle
  <2>2. \A v \in Workers \ {w} : worker'[v] = worker[v]
    BY <1>3 DEF Wait, WakeSpuriously, TakeTask, FinishTask
  <2>3. tasks = <<>> => tasks' = <<>>
    BY <1>3 DEF Wait, WakeSpuriously, TakeTask, FinishTask
  <2>4. UNCHANGED <<stopping, destructor>>
    BY <1>3 DEF Wait, WakeSpuriously, TakeTask, FinishTask
  <2> QED
    BY <2>1, <2>2, <2>3, <2>4
<1>4. ASSUME NEW w \in Workers, Exit(w) PROVE Ending'
  BY <1>4 DEF Exit
<1>5. CASE BeginDestructor
  BY <1>5 DEF BeginDestructor
<1>6. CASE NotifyAll
  BY <1>6 DEF NotifyAll, Idle
<1>7. CASE EndDestructor
  BY <1>7 DEF EndDestructor, At
<1>8. CASE UNCHANGED vars
  BY <1>8 DEF vars
<1> QED
  BY <1>1, <1>2, <1>3, <1>4, <1>5, <1>6, <1>7, <1>8 DEF Next, WorkerStep, DestructorStep

\* enqueue(), workerLoop() and ~ThreadPool(): every accepted task is begun once and in
\* order, and has finished when the destructor returns.
THEOREM TasksRunOnce == Spec => []EveryTaskOnce
<1>1. Init => TypeOK /\ Inv
  <2> SUFFICES ASSUME Init PROVE Inv
    BY TypeInit
  <2>1. /\ \A w \in Workers : worker[w].at = "locking"
        /\ Len(begun) = 0 /\ Len(tasks) = 0 /\ accepted = 0 /\ finished = {}
        /\ destructor = "none"
    BY DEF Init, Idle
  <2> QED
    BY <2>1 DEF Inv, Ordered, Progress, Ending
<1>2. TypeOK /\ Inv /\ [Next]_vars => TypeOK' /\ Inv'
  BY TypeStep, OrderedStep, ProgressStep, EndingStep DEF Inv
<1>3. TypeOK /\ Inv => EveryTaskOnce
  <2> SUFFICES ASSUME TypeOK, Inv PROVE EveryTaskOnce
    OBVIOUS
  <2> USE DEF TypeOK, Inv, Ordered, Progress, Ending
  <2>1. begun \o tasks = [i \in 1 .. accepted |-> i]
    <3>1. /\ Len(begun) \in Nat /\ Len(tasks) \in Nat /\ accepted = Len(begun) + Len(tasks)
          /\ begun \in Seq(Nat) /\ tasks \in Seq(Nat)
      <4>1. \A s \in Seq(1 .. MaxTasks) : s \in Seq(Nat)
        BY ThreadPoolAssumption, SeqMonotonic, Z3
      <4> QED
        BY <4>1
    <3>2. /\ begun \o tasks \in Seq(Nat) /\ Len(begun \o tasks) = accepted
          /\ \A i \in 1 .. accepted : (begun \o tasks)[i] =
                IF i <= Len(begun) THEN begun[i] ELSE tasks[i - Len(begun)]
      BY <3>1, ConcatProperties
    <3>3. \A i \in 1 .. accepted : (begun \o tasks)[i] = i
      <4> SUFFICES ASSUME NEW i \in 1 .. accepted PROVE (begun \o tasks)[i] = i
        OBVIOUS
      <4>1. i \in 1 .. Len(begun) \/ i - Len(begun) \in 1 .. Len(tasks)
        BY <3>1
      <4> QED
        BY <3>1, <3>2, <4>1
    <3>4. begun \o tasks \in [1 .. accepted -> Nat]
      BY <3>2, LenProperties
    <3> QED
      BY <3>3, <3>4
  <2>2. ASSUME destructor = "done" PROVE finished = 1 .. accepted
    <3>1. \A w \in Workers : worker[w].at = "gone" /\ tasks = <<>>
      BY <2>2
    <3>2. tasks = <<>>
      BY <3>1, ThreadPoolAssumption
    <3>3. accepted = Len(begun)
      BY <3>2
    <3> QED
      BY <3>1, <3>3 DEF Running
  <2> QED
    BY <2>1, <2>2 DEF EveryTaskOnce
<1> QED
  BY <1>1, <1>2, <1>3, PTL DEF Spec

-----------------------------------------------------------------------------
(* NoLostWakeUp is inductive as it stands: each step that could break it, a push or
   a worker that takes a task, moves both sides by one. *)

\* Moving a worker between states moves the sets of workers at each state.
LEMMA AtFinite == \A s : IsFiniteSet(At(s)) /\ Cardinality(At(s)) \in Nat
<1> SUFFICES ASSUME NEW s PROVE IsFiniteSet(At(s)) /\ Cardinality(At(s)) \in Nat
  OBVIOUS
<1>1. At(s) \subseteq Workers
  BY DEF At
<1> QED
  BY <1>1, ThreadPoolAssumption, FS_Subset, FS_CardinalityType

LEMMA AtFinite2 == \A s : IsFiniteSet(At(s)') /\ Cardinality(At(s)') \in Nat
<1> SUFFICES ASSUME NEW s PROVE IsFiniteSet(At(s)') /\ Cardinality(At(s)') \in Nat
  OBVIOUS
<1>1. At(s)' \subseteq Workers
  BY DEF At
<1> QED
  BY <1>1, ThreadPoolAssumption, FS_Subset, FS_CardinalityType

\* What one more and one less thread do to a number of threads.
LEMMA OneMore ==
  ASSUME NEW S, IsFiniteSet(S), NEW x, x \notin S
  PROVE  Cardinality(S \cup {x}) = Cardinality(S) + 1 /\ IsFiniteSet(S \cup {x})
BY FS_AddElement

LEMMA OneLess ==
  ASSUME NEW S, IsFiniteSet(S), NEW x \in S
  PROVE  Cardinality(S \ {x}) = Cardinality(S) - 1 /\ IsFiniteSet(S \ {x})
BY FS_RemoveElement

\* A worker that is woken joins those about to lock the mutex.
LEMMA WakeOne ==
  ASSUME worker \in [Workers -> [at : {"locking", "waiting", "running", "gone"},
                                task : 0 .. MaxTasks]],
         NEW w \in Workers, worker[w].at # "locking",
         worker' = [worker EXCEPT ![w] = Idle]
  PROVE  At("locking")' = At("locking") \cup {w} /\ w \notin At("locking")
BY DEF At, Idle

LEMMA NotifyingFinite ==
  ASSUME TypeOK PROVE IsFiniteSet(notifying) /\ Cardinality(notifying) \in Nat
<1>1. IsFiniteSet(Callers \cup Workers)
  BY ThreadPoolAssumption, FS_Union
<1> QED
  BY <1>1, FS_Subset, FS_CardinalityType DEF TypeOK

LEMMA WakeUpStep == TypeOK /\ NoLostWakeUp /\ [Next]_vars => NoLostWakeUp'
<1> SUFFICES ASSUME TypeOK, NoLostWakeUp, [Next]_vars, At("waiting")' # {}
             PROVE  Len(tasks') <= Cardinality(At("locking")') + Cardinality(notifying')
  BY DEF NoLostWakeUp
<1>0. PICK awake \in Nat, due \in Nat, n \in Nat :
        awake = Cardinality(At("locking")) /\ due = Cardinality(notifying) /\ n = Len(tasks)
  BY AtFinite, NotifyingFinite DEF TypeOK
<1>f. /\ IsFiniteSet(At("locking")) /\ IsFiniteSet(notifying)
      /\ Cardinality(At("locking")') \in Nat
  BY AtFinite, AtFinite2, NotifyingFinite
<1>1. ASSUME NEW t \in Callers \cup Workers, Enqueue(t)
      PROVE  Len(tasks') <= Cardinality(At("locking")') + Cardinality(notifying')
  <2>1. t \notin notifying /\ notifying' = notifying \cup {t} /\ UNCHANGED worker
    BY <1>1 DEF Enqueue, MayEnqueue
  <2>2. Len(tasks') = n + 1
    BY <1>0, <1>1 DEF Enqueue, TypeOK
  <2>3. Cardinality(notifying') = due + 1
    BY <1>0, <1>f, <2>1, OneMore
  <2>4. At("locking")' = At("locking") /\ At("waiting")' = At("waiting")
    BY <2>1 DEF At
  <2>5. n <= awake + due
    BY <1>0, <2>4 DEF NoLostWakeUp
  <2>6. Cardinality(At("locking")') = awake
    BY <1>0, <2>4
  <2> QED
    BY <1>0, <2>2, <2>3, <2>5, <2>6
<1>2. ASSUME NEW t \in Callers \cup Workers, NotifyOne(t)
      PROVE  Len(tasks') <= Cardinality(At("locking")') + Cardinality(notifying')
  <2>1. t \in notifying /\ notifying' = notifying \ {t} /\ tasks' = tasks
    BY <1>2 DEF NotifyOne
  <2>2. Cardinality(notifying') = due - 1
    BY <1>0, <1>f, <2>1, OneLess
  <2>3. At("waiting") # {}
    BY <1>2 DEF NotifyOne, At
  <2>4. PICK w \in At("waiting") : worker' = [worker EXCEPT ![w] = Idle]
    BY <1>2, <2>3 DEF NotifyOne
  <2>5. At("locking")' = At("locking") \cup {w} /\ w \notin At("locking")
    <3>1. w \in Workers /\ worker[w].at # "locking"
      BY DEF At
    <3> QED
      BY <2>4, <3>1, WakeOne DEF TypeOK
  <2>6. Cardinality(At("locking")') = awake + 1
    BY <1>0, <1>f, <2>5, OneMore
  <2>7. n <= awake + due
    BY <1>0, <2>3 DEF NoLostWakeUp
  <2> QED
    BY <1>0, <2>1, <2>2, <2>6, <2>7
<1>3. ASSUME NEW w \in Workers, Wait(w) \/ Exit(w)
      PROVE  Len(tasks') <= Cardinality(At("locking")') + Cardinality(notifying')
  <2>1. tasks' = <<>> /\ notifying' = notifying
    BY <1>3 DEF Wait, Exit
  <2> QED
    BY <1>0, <1>f, <2>1
<1>4. ASSUME NEW w \in Workers, WakeSpuriously(w) \/ FinishTask(w)
      PROVE  Len(tasks') <= Cardinality(At("locking")') + Cardinality(notifying')
  <2>1. /\ worker[w].at \in {"waiting", "running"} /\ worker' = [worker EXCEPT ![w] = Idle]
        /\ UNCHANGED <<tasks, notifying>>
    BY <1>4 DEF WakeSpuriously, FinishTask
  <2>2. At("locking")' = At("locking") \cup {w} /\ w \notin At("locking")
    BY <2>1, WakeOne DEF TypeOK
  <2>3. Cardinality(At("locking")') = awake + 1
    BY <1>0, <1>f, <2>2, OneMore
  <2>4. At("waiting") # {}
    BY <2>1 DEF At, Idle, TypeOK
  <2>5. n <= awake + due
    BY <1>0, <2>4 DEF NoLostWakeUp
  <2> QED
    BY <1>0, <2>1, <2>3, <2>5
<1>5. ASSUME NEW w \in Workers, TakeTask(w)
      PROVE  Len(tasks') <= Cardinality(At("locking")') + Cardinality(notifying')
  <2>1. /\ tasks # <<>> /\ tasks' = Tail(tasks) /\ notifying' = notifying
        /\ w \in At("locking")
    BY <1>5 DEF TakeTask, At
  <2>2. Len(tasks') = n - 1
    BY <1>0, <2>1, HeadTailProperties DEF TypeOK
  <2>3. worker' = [worker EXCEPT ![w] = [at |-> "running", task |-> Head(tasks)]]
    BY <1>5 DEF TakeTask
  <2>4. At("locking")' = At("locking") \ {w} /\ At("waiting")' = At("waiting")
    BY <2>1, <2>3 DEF At, TypeOK
  <2>5. Cardinality(At("locking")') = awake - 1
    BY <1>0, <1>f, <2>1, <2>4, OneLess
  <2>6. n <= awake + due
    BY <1>0, <2>4 DEF NoLostWakeUp
  <2>7. Cardinality(notifying') = due
    BY <1>0, <2>1
  <2> QED
    BY <1>0, <2>2, <2>5, <2>6, <2>7
<1>6. CASE NotifyAll
  <2>1. At("waiting")' = {}
    BY <1>6 DEF NotifyAll, At, Idle
  <2> QED
    BY <2>1
<1>7. CASE UNCHANGED <<worker, tasks, notifying>>
  <2>1. At("locking")' = At("locking") /\ At("waiting")' = At("waiting")
    BY <1>7 DEF At
  <2> QED
    BY <1>7, <2>1 DEF NoLostWakeUp
<1> QED
  BY <1>1, <1>2, <1>3, <1>4, <1>5, <1>6, <1>7
     DEF Next, WorkerStep, DestructorStep, BeginDestructor, EndDestructor, vars

\* enqueue() and workerLoop() around the condition variable: no worker sleeps while
\* there is a task that no other worker is awake for and no notification is due.
THEOREM WakeUpsAreKept == Spec => []NoLostWakeUp
<1>1. Init => NoLostWakeUp
  BY DEF Init, NoLostWakeUp, At, Idle
<1> QED
  BY <1>1, TypeInit, TypeStep, WakeUpStep, PTL DEF Spec

-----------------------------------------------------------------------------
(* The promise of the pool.                                                *)

Hands == [w \in Workers |-> IF worker[w].at = "running" THEN <<worker[w].task>> ELSE <<>>]

\* Steps that leave the queue alone, and every worker where it was but for its sleep.
LEMMA PoolKept ==
    ASSUME TypeOK, UNCHANGED <<tasks, stopping>>,
           destructor' = "done" <=> destructor = "done",
           \A w \in Workers : /\ worker'[w].at = "gone" <=> worker[w].at = "gone"
                              /\ worker'[w].at = "running" <=> worker[w].at = "running"
                              /\ worker[w].at = "running" => worker'[w] = worker[w]
    PROVE  UNCHANGED Pool!pvars
<1>1. At("gone")' = At("gone")
  BY DEF At
<1>2. ASSUME NEW w \in Workers PROVE Hands'[w] = Hands[w]
  BY DEF Hands
<1>3. Hands' = Hands
  BY <1>2 DEF Hands
<1>4. (destructor' = "done") = (destructor = "done")
  OBVIOUS
<1> QED BY <1>1, <1>3, <1>4 DEF Pool!pvars, Hands

LEMMA WorkerPool ==
    ASSUME TypeOK, NEW w \in Workers, TakeTask(w) \/ FinishTask(w) \/ Exit(w)
    PROVE  Pool!Begin(w) \/ Pool!Return(w) \/ Pool!Leave(w)
<1>1. worker[w].at # "gone" => w \notin At("gone")
  BY DEF At
<1>2. CASE TakeTask(w)
  <2>1. /\ worker[w].at = "locking" /\ worker'[w].at = "running"
        /\ worker'[w].task = Head(tasks)
        /\ \A v \in Workers \ {w} : worker'[v] = worker[v]
    BY <1>2 DEF TakeTask, TypeOK
  <2>2. ASSUME NEW v \in Workers
        PROVE  Hands'[v] = [Hands EXCEPT ![w] = <<Head(tasks)>>][v]
    BY <2>1 DEF Hands
  <2>3. Hands' = [Hands EXCEPT ![w] = <<Head(tasks)>>]
    BY <2>2 DEF Hands
  <2>4. At("gone")' = At("gone") /\ Hands[w] = <<>>
    BY <2>1 DEF At, Hands
  <2>5. Pool!Free(w)
    BY <1>1, <2>1, <2>4 DEF Pool!Free, Hands
  <2> QED BY <1>2, <2>3, <2>4, <2>5 DEF TakeTask, Pool!Begin, Hands
<1>3. CASE FinishTask(w)
  <2>1. /\ worker[w].at = "running" /\ worker'[w].at = "locking"
        /\ \A v \in Workers \ {w} : worker'[v] = worker[v]
    BY <1>3 DEF FinishTask, TypeOK, Idle
  <2>2. ASSUME NEW v \in Workers PROVE Hands'[v] = [Hands EXCEPT ![w] = <<>>][v]
    BY <2>1 DEF Hands
  <2>3. Hands' = [Hands EXCEPT ![w] = <<>>]
    BY <2>2 DEF Hands
  <2>4. At("gone")' = At("gone") /\ Hands[w] # <<>>
    BY <2>1 DEF At, Hands
  <2> QED BY <1>3, <2>3, <2>4 DEF FinishTask, Pool!Return, Hands
<1>4. CASE Exit(w)
  <2>1. /\ worker[w].at = "locking" /\ worker'[w].at = "gone"
        /\ \A v \in Workers \ {w} : worker'[v] = worker[v]
    BY <1>4 DEF Exit, TypeOK
  <2>2. ASSUME NEW v \in Workers PROVE Hands'[v] = Hands[v]
    BY <2>1 DEF Hands
  <2>3. Hands' = Hands /\ Hands[w] = <<>>
    BY <2>1, <2>2 DEF Hands
  <2>4. At("gone")' = At("gone") \cup {w}
    BY <2>1 DEF At
  <2>5. Pool!Free(w)
    BY <1>1, <2>1, <2>3 DEF Pool!Free, Hands
  <2> QED BY <1>4, <2>3, <2>4, <2>5 DEF Exit, Pool!Leave, Hands
<1> QED BY <1>2, <1>3, <1>4

LEMMA StepPool == TypeOK /\ [Next]_vars => [Pool!Next]_(Pool!pvars)
<1> SUFFICES ASSUME TypeOK, [Next]_vars PROVE [Pool!Next]_(Pool!pvars)
  OBVIOUS
<1>1. ASSUME NEW t \in Callers \cup Workers, Enqueue(t) PROVE [Pool!Next]_(Pool!pvars)
  <2>1. /\ ~stopping /\ accepted < MaxTasks /\ tasks' = Append(tasks, accepted + 1)
        /\ UNCHANGED <<worker, stopping, destructor>>
    BY <1>1 DEF Enqueue
  <2>2. accepted + 1 \in 1 .. MaxTasks
    BY <2>1, ThreadPoolAssumption DEF TypeOK
  <2>3. Pool!Submit(accepted + 1)
    BY <2>1 DEF Pool!Submit, At
  <2> QED BY <2>2, <2>3 DEF Pool!Next
<1>2. ASSUME NEW t \in Callers \cup Workers, NotifyOne(t) PROVE [Pool!Next]_(Pool!pvars)
  <2>1. UNCHANGED <<tasks, stopping, destructor>>
    BY <1>2 DEF NotifyOne
  <2>2. \/ UNCHANGED worker
        \/ \E v \in At("waiting") : worker' = [worker EXCEPT ![v] = Idle]
    BY <1>2 DEF NotifyOne
  <2>3. \A w \in Workers : /\ worker'[w].at = "gone" <=> worker[w].at = "gone"
                           /\ worker'[w].at = "running" <=> worker[w].at = "running"
                           /\ worker[w].at = "running" => worker'[w] = worker[w]
    BY <2>2 DEF At, Idle, TypeOK
  <2> QED BY <2>1, <2>3, PoolKept
<1>3. ASSUME NEW w \in Workers, Wait(w) \/ WakeSpuriously(w)
      PROVE  [Pool!Next]_(Pool!pvars)
  <2>1. UNCHANGED <<tasks, stopping, destructor>>
    BY <1>3 DEF Wait, WakeSpuriously
  <2>2. /\ \A v \in Workers \ {w} : worker'[v] = worker[v]
        /\ worker[w].at \in {"locking", "waiting"} /\ worker'[w].at \in {"locking", "waiting"}
    BY <1>3 DEF Wait, WakeSpuriously, Idle, TypeOK
  <2> QED BY <2>1, <2>2, PoolKept
<1>4. ASSUME NEW w \in Workers, TakeTask(w) \/ FinishTask(w) \/ Exit(w)
      PROVE  [Pool!Next]_(Pool!pvars)
  BY <1>4, WorkerPool DEF Pool!Next
<1>5. CASE BeginDestructor
  <2>1. /\ ~stopping /\ stopping' /\ stopping' = TRUE /\ UNCHANGED <<worker, tasks>>
        /\ destructor # "done" /\ destructor' # "done"
    BY <1>5 DEF BeginDestructor, TypeOK
  <2> QED BY <2>1 DEF Pool!Stop, Pool!Next, At
<1>6. CASE NotifyAll
  <2>1. UNCHANGED <<tasks, stopping>> /\ destructor # "done" /\ destructor' # "done"
    BY <1>6 DEF NotifyAll
  <2>2. \A w \in Workers : /\ worker'[w].at = "gone" <=> worker[w].at = "gone"
                           /\ worker'[w].at = "running" <=> worker[w].at = "running"
                           /\ worker[w].at = "running" => worker'[w] = worker[w]
    BY <1>6 DEF NotifyAll, Idle, TypeOK
  <2> QED BY <2>1, <2>2, PoolKept
<1>7. CASE EndDestructor
  <2>1. /\ At("gone") = Workers /\ destructor # "done" /\ destructor' = "done"
        /\ UNCHANGED <<worker, tasks, stopping>>
    BY <1>7 DEF EndDestructor
  <2> QED BY <2>1 DEF Pool!Destroy, Pool!Next, At
<1>8. CASE UNCHANGED vars
  <2>1. UNCHANGED <<worker, tasks, stopping, destructor>>
    BY <1>8 DEF vars
  <2> QED BY <2>1, PoolKept
<1> QED
  BY <1>1, <1>2, <1>3, <1>4, <1>5, <1>6, <1>7, <1>8 DEF Next, WorkerStep, DestructorStep

\* enqueue(), workerLoop() and ~ThreadPool(), with their mutex, their condition variable
\* and their notifications, do nothing that TaskService does not allow.
THEOREM PoolImplementsService == Spec => PoolSpec
<1>1. Init => Pool!Init
  <2> SUFFICES ASSUME Init PROVE Pool!Init
    OBVIOUS
  <2>1. \A w \in Workers : worker[w].at = "locking"
    BY DEF Init, Idle
  <2>2. Hands = [w \in Workers |-> <<>>] /\ At("gone") = {}
    BY <2>1 DEF Hands, At
  <2> QED BY <2>2 DEF Init, Pool!Init, Hands
<1> QED BY TypeCorrect, StepPool, <1>1, PTL DEF Spec, PoolSpec, Pool!Spec
=============================================================================
