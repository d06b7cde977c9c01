--------------------------- MODULE ReactorProofs ---------------------------
(***************************************************************************)
(* Proofs about Reactor for any number of descriptors, clients, workers    *)
(* and pieces: its invariants, and that it implements GatewayService.      *)
(***************************************************************************)
EXTENDS ReactorService, SequenceTheorems, TLAPS

-----------------------------------------------------------------------------
(* Types.                                                                  *)

\* The handlers of a client socket work on a connection that exists.
CurrentExists == pc \in {"reading", "writing"} => cur \in DOMAIN conns

\* A busy worker holds a task.
BusyHasTask == \A w \in Workers : Busy(w) => worker[w].task \in Task

TypeInv == TypeOK /\ CurrentExists /\ BusyHasTask

LEMMA InitTypes == Init => TypeInv
<1> SUFFICES ASSUME Init PROVE TypeInv
  OBVIOUS
<1>1. /\ unread \in [Clients -> Seq(Piece)] /\ backlog \in Seq(Clients)
      /\ tasks \in Seq(Task) /\ completions \in Seq(Result)
  BY EmptySeq DEF Init
<1>2. DOMAIN conns = {}
  BY DEF Init
<1>3. worker \in [Workers -> WorkerState] /\ BusyHasTask
  BY DEF Init, WorkerState, BusyHasTask, Busy
<1>4. /\ sent \in [Clients -> 0..MaxPieces] /\ sndbuf \in [Clients -> 0..SendRoom]
  BY ReactorAssumption DEF Init
<1>5. TypeOK
  BY <1>1, <1>2, <1>3, <1>4 DEF Init, TypeOK
<1> QED BY <1>3, <1>5 DEF Init, TypeInv, CurrentExists

LEMMA EventTypes ==
    /\ Listen \in Event /\ User \in Event /\ Signal \in Event
    /\ {"READ", "WRITE"} \X Fds \subseteq Event
BY DEF Event, Listen, User, Signal

LEMMA RaiseTypes ==
    ASSUME TypeOK, NEW c, NEW kinds
    PROVE  Raise(c, kinds) \in SUBSET Event
BY EventTypes DEF TypeOK, Raise

LEMMA ClientTypes ==
    ASSUME TypeInv, NEW c \in Clients, ClientStep(c)
    PROVE  TypeInv'
<1> USE RaiseTypes, EventTypes DEF TypeInv
<1>1. CASE Connect(c)
  <2>1. backlog' \in Seq(Clients)
    BY <1>1, AppendProperties DEF Connect, TypeOK
  <2>2. TypeOK'
    BY <2>1, <1>1 DEF Connect, TypeOK, loopVars, poolVars
  <2> QED BY <2>2, <1>1 DEF Connect, CurrentExists, BusyHasTask, Busy, loopVars, poolVars
<1>2. ASSUME NEW p \in Piece, SendPiece(c, p) PROVE TypeInv'
  <2>1. unread' \in [Clients -> Seq(Piece)]
    BY <1>2, AppendProperties DEF SendPiece, TypeOK
  <2>2. sent' \in [Clients -> 0..MaxPieces]
    <3>1. sent[c] \in 0..MaxPieces /\ sent[c] < MaxPieces
      BY <1>2 DEF SendPiece, TypeOK
    <3>2. sent[c] + 1 \in 0..MaxPieces
      <4> HIDE DEF TypeInv
      <4> QED BY <3>1, ReactorAssumption
    <3> QED BY <1>2, <3>2 DEF SendPiece, TypeOK
  <2>3. active' \in SUBSET Event
    BY <1>2 DEF SendPiece
  <2>4. TypeOK'
    BY <2>1, <2>2, <2>3, <1>2 DEF SendPiece, TypeOK, loopVars, poolVars
  <2> QED BY <2>4, <1>2 DEF SendPiece, CurrentExists, BusyHasTask, Busy, loopVars, poolVars
<1>3. CASE ShutDownSending(c)
  BY <1>3 DEF ShutDownSending, TypeOK, CurrentExists, BusyHasTask, Busy, loopVars, poolVars
<1>4. CASE ResetConnection(c)
  <2>1. unread' \in [Clients -> Seq(Piece)]
    BY <1>4, EmptySeq DEF ResetConnection, TypeOK
  <2>2. active' \in SUBSET Event
    BY <1>4 DEF ResetConnection
  <2>3. reset' \in [Clients -> BOOLEAN]
    BY <1>4 DEF ResetConnection, TypeOK
  <2>4. UNCHANGED <<phase, sent, fin, sndbuf, replies, backlog, armed, kqOpen, loopVars,
                    conns, poolVars, asked>>
    BY <1>4 DEF ResetConnection
  <2>5. TypeOK'
    BY <2>1, <2>2, <2>3, <2>4 DEF TypeOK, loopVars, poolVars
  <2> QED BY <2>5, <1>4 DEF ResetConnection, CurrentExists, BusyHasTask, Busy, loopVars, poolVars
<1>5. CASE ReadReply(c)
  <2>1. sndbuf[c] \in 0..SendRoom /\ sndbuf[c] > 0
    BY <1>5 DEF ReadReply, TypeOK
  <2>2. sndbuf[c] - 1 \in 0..SendRoom
    <3> HIDE DEF TypeInv
    <3> QED BY <2>1, ReactorAssumption
  <2>3. sndbuf' \in [Clients -> 0..SendRoom] /\ active' \in SUBSET Event
    BY <1>5, <2>2 DEF ReadReply, TypeOK
  <2>4. TypeOK'
    BY <1>5, <2>3 DEF ReadReply, TypeOK, loopVars, poolVars
  <2> QED BY <1>5, <2>4 DEF ReadReply, CurrentExists, BusyHasTask, Busy, loopVars, poolVars
<1> QED BY <1>1, <1>2, <1>3, <1>4, <1>5 DEF ClientStep

LEMMA LoopTypes ==
    ASSUME TypeInv,
           \/ Run \/ LeaveLoop \/ Poll \/ PollFails
           \/ TakeUser \/ TakeSignal \/ TakeListen \/ EndOfBatch
           \/ \E f \in Fds : TakeRead(f) \/ TakeWrite(f)
    PROVE  TypeInv'
<1> USE DEF TypeInv, TypeOK, CurrentExists, BusyHasTask, Busy, netVars, kqVars,
            loopVars, poolVars, NextEvent
<1>1. CASE Run
  BY <1>1 DEF Run
<1>2. CASE LeaveLoop
  BY <1>2 DEF LeaveLoop
<1>3. CASE Poll
  BY <1>3 DEF Poll, Batches
<1>4. CASE PollFails
  BY <1>4 DEF PollFails
<1>5. CASE TakeUser
  BY <1>5 DEF TakeUser
<1>6. CASE TakeSignal
  BY <1>6 DEF TakeSignal
<1>7. CASE TakeListen
  BY <1>7 DEF TakeListen
<1>8. CASE EndOfBatch
  BY <1>8 DEF EndOfBatch
<1>9. ASSUME NEW f \in Fds, TakeRead(f) PROVE TypeInv'
  BY <1>9 DEF TakeRead
<1>10. ASSUME NEW f \in Fds, TakeWrite(f) PROVE TypeInv'
  BY <1>10 DEF TakeWrite
<1> QED BY <1>1, <1>2, <1>3, <1>4, <1>5, <1>6, <1>7, <1>8, <1>9, <1>10

\* What the actions on a single connection do to connections_ and the kqueue.
LEMMA CloseTypes ==
    ASSUME TypeInv, pc \in {"reading", "writing"}, CloseConnection(cur)
    PROVE  /\ armed' \in SUBSET ({"READ", "WRITE"} \X Fds) /\ active' \in SUBSET Event
           /\ DOMAIN conns' = DOMAIN conns \ {cur}
           /\ \A f \in DOMAIN conns' : conns'[f] = conns[f]
           /\ phase' \in [Clients -> {"away", "backlog", "open", "closed"}]
           /\ unread' \in [Clients -> Seq(Piece)]
           /\ sent' \in [Clients -> 0..MaxPieces]
           /\ fin' \in [Clients -> BOOLEAN] /\ reset' \in [Clients -> BOOLEAN]
           /\ sndbuf' \in [Clients -> 0..SendRoom]
<1> USE DEF TypeInv, TypeOK
<1>1. armed' \in SUBSET ({"READ", "WRITE"} \X Fds) /\ active' \in SUBSET Event
  BY DEF CloseConnection, Disarm
<1>2. /\ DOMAIN conns' = DOMAIN conns \ {cur}
      /\ \A f \in DOMAIN conns' : conns'[f] = conns[f]
  BY DEF CloseConnection, Restrict
<1>3. conns[cur].client \in Clients
  BY DEF CurrentExists, Connection
<1>4. unread' \in [Clients -> Seq(Piece)]
  BY <1>3, EmptySeq DEF CloseConnection
<1>5. /\ sent' \in [Clients -> 0..MaxPieces] /\ sndbuf' \in [Clients -> 0..SendRoom]
  BY <1>3, ReactorAssumption DEF CloseConnection
<1>6. /\ phase' \in [Clients -> {"away", "backlog", "open", "closed"}]
      /\ fin' \in [Clients -> BOOLEAN] /\ reset' \in [Clients -> BOOLEAN]
  BY <1>3 DEF CloseConnection
<1> QED BY <1>1, <1>2, <1>4, <1>5, <1>6

LEMMA RearmTypes ==
    ASSUME TypeInv, NEW f \in Fds, NEW w, Rearm(f, w)
    PROVE  armed' \in SUBSET ({"READ", "WRITE"} \X Fds) /\ active' \in SUBSET Event
BY EventTypes DEF TypeInv, TypeOK, Rearm

LEMMA ReceiveTypes ==
    ASSUME TypeInv, Receive
    PROVE  TypeInv'
<1> DEFINE f == cur
           c == conns[f].client
<1>1. f \in DOMAIN conns /\ f \in Fds /\ conns[f] \in Connection /\ c \in Clients
  BY DEF Receive, TypeInv, TypeOK, CurrentExists, Connection
<1>2. PICK k \in 1 .. Len(unread[c]), full \in BOOLEAN :
         /\ unread' = [unread EXCEPT ![c] = SubSeq(@, k + 1, Len(@))]
         /\ \/ Dispatch(f)
            \/ Reject(f)
            \/ KeepReading(full)
  BY DEF Receive
<1>3. unread[c] \in Seq(Piece) /\ Len(unread[c]) \in Nat
  BY <1>1 DEF TypeInv, TypeOK
<1>4. SubSeq(unread[c], k + 1, Len(unread[c])) \in Seq(Piece)
  BY <1>3
<1>5. unread' \in [Clients -> Seq(Piece)]
  BY <1>1, <1>2, <1>4 DEF TypeInv, TypeOK
<1>6. CASE Dispatch(f)
  <2>1. [fd |-> f, client |-> c] \in Task
    BY <1>1 DEF Task
  <2>2. tasks' \in Seq(Task)
    BY <2>1, <1>6, AppendProperties DEF Dispatch, TypeInv, TypeOK
  <2>3. DOMAIN conns' = DOMAIN conns /\ \A g \in DOMAIN conns' : conns'[g] \in Connection
    BY <1>1, <1>6 DEF Dispatch, TypeInv, TypeOK, Connection
  <2> QED
    BY <1>5, <1>6, <2>2, <2>3 DEF Receive, Dispatch, BackToEvents, TypeInv, TypeOK,
       CurrentExists, BusyHasTask, Busy
<1>7. CASE Reject(f)
  <2>1. DOMAIN conns' = DOMAIN conns /\ \A g \in DOMAIN conns' : conns'[g] \in Connection
    <3>1. /\ DOMAIN conns' = DOMAIN conns
          /\ \A g \in DOMAIN conns \ {f} : conns'[g] = conns[g]
          /\ conns'[f] = [[conns[f] EXCEPT !.unsent = ReplySize] EXCEPT !.replyTo = c]
      BY <1>1, <1>7 DEF Reject
    <3>2. ReplySize \in 0..ReplySize
      BY ReactorAssumption
    <3>3. conns'[f] \in Connection
      BY <1>1, <3>1, <3>2 DEF Connection
    <3> QED BY <3>1, <3>3 DEF TypeInv, TypeOK
  <2>2. armed' \in SUBSET ({"READ", "WRITE"} \X Fds) /\ active' \in SUBSET Event
    BY <1>1, <1>7, RearmTypes DEF Reject
  <2> QED
    BY <1>5, <1>7, <2>1, <2>2 DEF Receive, Reject, BackToEvents, TypeInv, TypeOK,
       CurrentExists, BusyHasTask, Busy
<1>8. CASE KeepReading(full)
  BY <1>5, <1>8 DEF Receive, KeepReading, BackToEvents, TypeInv, TypeOK,
     CurrentExists, BusyHasTask, Busy
<1> QED BY <1>2, <1>6, <1>7, <1>8

\* What a connection given up in the backlog leaves.
LEMMA AbortFrame ==
    ASSUME TypeInv, AcceptAborted
    PROVE  /\ 1 \in DOMAIN backlog /\ backlog[1] = Head(backlog) /\ Head(backlog) \in Clients
           /\ phase' = [phase EXCEPT ![Head(backlog)] = "closed"]
           /\ phase' \in [Clients -> {"away", "backlog", "open", "closed"}]
           /\ backlog' = Tail(backlog) /\ backlog' \in Seq(Clients)
           /\ stranded' = (backlog' # <<>>)
           /\ pc = "accepting" /\ pc' = "events"
           /\ UNCHANGED <<unread, sent, fin, reset, sndbuf, replies, armed, active, kqOpen,
                          cur, batch, running, conns, poolVars, asked>>
<1>1. backlog \in Seq(Clients) /\ backlog # <<>>
  BY DEF AcceptAborted, TypeInv, TypeOK
<1>2. 1 \in DOMAIN backlog /\ backlog[1] = Head(backlog) /\ Head(backlog) \in Clients
  BY <1>1
<1>3. Tail(backlog) \in Seq(Clients)
  BY <1>1, HeadTailProperties
<1>4. [phase EXCEPT ![Head(backlog)] = "closed"]
        \in [Clients -> {"away", "backlog", "open", "closed"}]
  BY <1>2 DEF TypeInv, TypeOK
<1> QED BY <1>2, <1>3, <1>4 DEF AcceptAborted, kqVars

LEMMA SocketTypes ==
    ASSUME TypeInv,
           \/ Accept \/ StopAccepting \/ AcceptAborted
           \/ ReceiveEnd \/ ReceiveAgain \/ SendSome \/ SendAgain \/ SendEnd
    PROVE  TypeInv'
<1>8. CASE AcceptAborted
  BY <1>8, AbortFrame DEF TypeInv, TypeOK, CurrentExists, BusyHasTask, Busy, poolVars
<1> USE DEF TypeInv, TypeOK, CurrentExists, BusyHasTask, Busy, netVars, kqVars,
            loopVars, poolVars, BackToEvents
<1>1. CASE Accept
  <2>1. PICK f \in FreeFds :
          /\ conns' = [g \in DOMAIN conns \cup {f} |->
                         IF g = f THEN NewConnection(Head(backlog)) ELSE conns[g]]
          /\ phase' = [phase EXCEPT ![Head(backlog)] = "open"]
          /\ backlog' = Tail(backlog)
          /\ armed' = armed \cup {<<"READ", f>>}
          /\ active' \in {active, active \cup {<<"READ", f>>}}
    BY <1>1 DEF Accept
  <2>2. Head(backlog) \in Clients /\ backlog' \in Seq(Clients)
    BY <1>1, <2>1, HeadTailProperties DEF Accept
  <2>3. f \in Fds /\ active' \in SUBSET Event /\ armed' \in SUBSET ({"READ", "WRITE"} \X Fds)
    BY <2>1, EventTypes DEF FreeFds
  <2>4. NewConnection(Head(backlog)) \in Connection
    BY <2>2, ReactorAssumption DEF NewConnection, Connection
  <2>5. /\ DOMAIN conns' = DOMAIN conns \cup {f}
        /\ \A g \in DOMAIN conns' : conns'[g] \in Connection
    BY <2>1, <2>4
  <2>6. phase' \in [Clients -> {"away", "backlog", "open", "closed"}]
    BY <2>1
  <2> QED BY <1>1, <2>2, <2>3, <2>5, <2>6 DEF Accept
<1>2. CASE StopAccepting
  BY <1>2 DEF StopAccepting
<1>3. CASE ReceiveEnd
  BY <1>3, CloseTypes DEF ReceiveEnd
<1>4. CASE ReceiveAgain
  BY <1>4 DEF ReceiveAgain
<1>5. CASE SendSome
  <2>1. cur \in DOMAIN conns /\ conns[cur] \in Connection
    BY <1>5 DEF SendSome
  <2>2. /\ DOMAIN conns' = DOMAIN conns
        /\ \A f \in DOMAIN conns' : conns'[f] \in Connection
    <3>1. conns[cur].unsent - 1 \in 0..ReplySize
      <4>1. conns[cur].unsent \in 0..ReplySize /\ conns[cur].unsent > 0
        BY <1>5, <2>1 DEF SendSome, Connection
      <4> HIDE DEF TypeInv, TypeOK
      <4> QED BY <4>1, ReactorAssumption
    <3>2. /\ DOMAIN conns' = DOMAIN conns
          /\ \A f \in DOMAIN conns \ {cur} : conns'[f] = conns[f]
          /\ conns'[cur] = [conns[cur] EXCEPT !.unsent = conns[cur].unsent - 1]
      BY <1>5, <2>1 DEF SendSome
    <3>3. conns'[cur] \in Connection
      BY <2>1, <3>1, <3>2 DEF Connection
    <3> QED BY <3>2, <3>3
  <2>3. conns[cur].client \in Clients /\ conns[cur].replyTo \in Clients \cup {NoClient}
    BY <2>1 DEF Connection
  <2>4. sndbuf' \in [Clients -> 0..SendRoom]
    <3>1. sndbuf[conns[cur].client] + 1 \in 0..SendRoom
      <4>1. /\ sndbuf[conns[cur].client] \in 0..SendRoom
            /\ sndbuf[conns[cur].client] < SendRoom
        BY <1>5, <2>3 DEF SendSome
      <4> HIDE DEF TypeInv, TypeOK
      <4> QED BY <4>1, ReactorAssumption
    <3> QED BY <1>5, <3>1 DEF SendSome
  <2>5. replies' \in [Clients -> SUBSET (Clients \cup {NoClient})]
    BY <1>5, <2>3 DEF SendSome
  <2>6. UNCHANGED <<phase, unread, sent, fin, reset, backlog, armed, active, kqOpen, pc, cur,
                    batch, running, stranded, tasks, completions, worker, abandoning,
                    stopping, asked>>
    BY <1>5 DEF SendSome
  <2> QED BY <2>2, <2>4, <2>5, <2>6
<1>6. CASE SendAgain
  BY <1>6 DEF SendAgain
<1>7. CASE SendEnd
  BY <1>7, CloseTypes DEF SendEnd
<1> QED BY <1>1, <1>2, <1>3, <1>4, <1>5, <1>6, <1>7, <1>8

LEMMA DrainTypes ==
    ASSUME TypeInv, DrainOne \/ DrainEnd
    PROVE  TypeInv'
<1> USE DEF TypeInv, TypeOK, CurrentExists, BusyHasTask, Busy, netVars, kqVars,
            loopVars, poolVars
<1>1. CASE DrainOne
  <2> DEFINE r == Head(completions)
  <2>1. r \in Result /\ completions' \in Seq(Result)
    BY <1>1, HeadTailProperties DEF DrainOne
  <2>2. r.fd \in Fds /\ r.client \in Clients /\ r.size \in 0..ReplySize
    <3> HIDE DEF TypeInv, TypeOK
    <3> QED BY <2>1, ReactorAssumption DEF Result
  <2>3. CASE r.fd \in DOMAIN conns
    <3>1. /\ DOMAIN conns' = DOMAIN conns
          /\ \A f \in DOMAIN conns' : conns'[f] \in Connection
      <4>1. /\ DOMAIN conns' = DOMAIN conns
            /\ \A f \in DOMAIN conns \ {r.fd} : conns'[f] = conns[f]
            /\ conns'[r.fd] = [[[conns[r.fd] EXCEPT !.awaiting = FALSE]
                                             EXCEPT !.unsent = r.size]
                                             EXCEPT !.replyTo = r.client]
        BY <1>1, <2>3 DEF DrainOne
      <4>2. conns'[r.fd] \in Connection
        BY <2>2, <2>3, <4>1 DEF Connection
      <4> QED BY <4>1, <4>2
    <3>2. active' \in SUBSET Event /\ armed' \in SUBSET ({"READ", "WRITE"} \X Fds)
      BY <1>1, <2>2, <2>3, EventTypes DEF DrainOne
    <3> QED BY <1>1, <2>1, <3>1, <3>2 DEF DrainOne
  <2>4. CASE r.fd \notin DOMAIN conns
    BY <1>1, <2>1, <2>4 DEF DrainOne
  <2> QED BY <2>3, <2>4
<1>2. CASE DrainEnd
  BY <1>2 DEF DrainEnd
<1> QED BY <1>1, <1>2

LEMMA WorkerTypes ==
    ASSUME TypeInv, NEW w \in Workers, WorkerStep(w)
    PROVE  TypeInv'
<1> USE DEF TypeInv, TypeOK, CurrentExists, BusyHasTask, Busy, netVars, kqVars,
            loopVars, poolVars
<1>1. CASE TakeTask(w)
  <2>1. Head(tasks) \in Task /\ tasks' \in Seq(Task)
    BY <1>1, HeadTailProperties DEF TakeTask
  <2> QED BY <1>1, <2>1 DEF TakeTask, WorkerState
<1>2. CASE DropTask(w)
  <2>1. worker' \in [Workers -> WorkerState] /\ BusyHasTask'
    BY <1>2 DEF DropTask, WorkerState
  <2> QED BY <1>2, <2>1 DEF DropTask
<1>3. CASE BeginTask(w)
  <2>1. worker' \in [Workers -> WorkerState] /\ BusyHasTask'
    BY <1>3 DEF BeginTask, WorkerState
  <2> QED BY <1>3, <2>1 DEF BeginTask
<1>4. CASE PushCompletion(w)
  <2>1. PICK n \in {0, ReplySize} :
          completions' = Append(completions, [fd |-> worker[w].task.fd,
                                              client |-> worker[w].task.client,
                                              size |-> n])
    BY <1>4 DEF PushCompletion
  <2>2. [fd |-> worker[w].task.fd, client |-> worker[w].task.client, size |-> n] \in Result
    BY <1>4 DEF PushCompletion, Result, Task
  <2>3. completions' \in Seq(Result)
    BY <2>1, <2>2, AppendProperties
  <2>4. worker' \in [Workers -> WorkerState] /\ BusyHasTask'
    BY <1>4 DEF PushCompletion, WorkerState
  <2> QED BY <1>4, <2>3, <2>4 DEF PushCompletion
<1>5. CASE TriggerWake(w)
  BY <1>5, EventTypes DEF TriggerWake, WorkerState
<1>6. CASE WorkerExit(w)
  BY <1>6 DEF WorkerExit, WorkerState
<1> QED BY <1>1, <1>2, <1>3, <1>4, <1>5, <1>6 DEF WorkerStep

LEMMA ShutdownTypes ==
    ASSUME TypeInv, Stop \/ DeliverSignal \/ BeginTeardown \/ EndTeardown
    PROVE  TypeInv'
<1> USE DEF TypeInv, TypeOK, CurrentExists, BusyHasTask, Busy, netVars, kqVars,
            loopVars, poolVars
<1>1. CASE Stop
  BY <1>1, EventTypes DEF Stop
<1>2. CASE DeliverSignal
  BY <1>2, EventTypes DEF DeliverSignal
<1>3. CASE BeginTeardown
  BY <1>3 DEF BeginTeardown
<1>4. CASE EndTeardown
  <2>1. DOMAIN conns' = {}
    BY <1>4 DEF EndTeardown, Restrict
  <2>2. unread' \in [Clients -> Seq(Piece)] /\ backlog' \in Seq(Clients)
    BY <1>4, EmptySeq DEF EndTeardown
  <2>3. /\ phase' \in [Clients -> {"away", "backlog", "open", "closed"}]
        /\ sent' \in [Clients -> 0..MaxPieces] /\ sndbuf' \in [Clients -> 0..SendRoom]
    BY <1>4, ReactorAssumption DEF EndTeardown
  <2> QED BY <1>4, <2>1, <2>2, <2>3 DEF EndTeardown
<1> QED BY <1>1, <1>2, <1>3, <1>4

LEMMA StepTypes == TypeInv /\ [Next]_vars => TypeInv'
<1> SUFFICES ASSUME TypeInv, [Next]_vars PROVE TypeInv'
  OBVIOUS
<1>1. CASE UNCHANGED vars
  BY <1>1 DEF vars, netVars, kqVars, loopVars, poolVars, TypeInv, TypeOK, CurrentExists,
     BusyHasTask, Busy
<1>2. ASSUME NEW c \in Clients, ClientStep(c) PROVE TypeInv'
  BY <1>2, ClientTypes
<1>3. ASSUME NEW w \in Workers, WorkerStep(w) PROVE TypeInv'
  BY <1>3, WorkerTypes
<1>4. CASE ReactorStep
  BY <1>4, LoopTypes, ReceiveTypes, SocketTypes, DrainTypes, ShutdownTypes
     DEF ReactorStep, HandlerStep
<1>5. CASE PollFails \/ Stop \/ DeliverSignal
  BY <1>5, LoopTypes, ShutdownTypes
<1> QED BY <1>1, <1>2, <1>3, <1>4, <1>5 DEF Next

\* Every variable keeps its type, whatever the interleaving: in particular the
\* handlers only ever touch connections that are in connections_.
THEOREM TypeCorrect == Spec => []TypeOK
<1>1. TypeInv => TypeOK
  BY DEF TypeInv
<1> QED BY InitTypes, StepTypes, <1>1, PTL DEF Spec

-----------------------------------------------------------------------------
(* Safety: the inductive invariant behind RepliesReachTheirClient.         *)

\* A knote is active only while it is registered: EV_DELETE and close() take its
\* pending event away.
ActiveIsArmed == \A f \in Fds :
    /\ <<"READ", f>> \in active => Reading(f)
    /\ <<"WRITE", f>> \in active => Writing(f)

\* There is a batch only while run() goes through it.
BatchInLoop ==
    pc \notin {"events", "accepting", "reading", "writing", "drainEvent"} => batch = {}

\* The event a handler was called for is no longer in the batch.
CurrentEventTaken ==
    /\ pc = "reading" => <<"READ", cur>> \notin batch
    /\ pc = "writing" => <<"WRITE", cur>> \notin batch

\* What is being written answers the connection's own request.
ReplyOwner == \A f \in DOMAIN conns : Writing(f) => conns[f].replyTo = conns[f].client

OpenUntilTornDown == pc # "tornDown" => kqOpen

Filters ==
    /\ OneModePerConnection
    /\ EventsAreCurrent
    /\ ActiveIsArmed
    /\ BatchInLoop
    /\ CurrentEventTaken
    /\ ReplyOwner
    /\ RepliesReachTheirClient

Work ==
    /\ WorkHasConnection
    /\ OneResponsePerConnection
    /\ OpenUntilTornDown

Inv == TypeInv /\ Filters /\ Work

LEMMA InitInv == Init => Inv
<1> SUFFICES ASSUME Init PROVE Inv
  OBVIOUS
<1>1. TypeInv
  BY InitTypes
<1>2. DOMAIN conns = {} /\ DOMAIN tasks = {} /\ DOMAIN completions = {}
  BY DEF Init
<1>3. Filters
  BY <1>2 DEF Init, Filters, OneModePerConnection, EventsAreCurrent, ActiveIsArmed,
     BatchInLoop, CurrentEventTaken, ReplyOwner, RepliesReachTheirClient, Reading, Writing
<1>4. Work
  BY <1>2 DEF Init, Work, WorkHasConnection, OneResponsePerConnection,
     OpenUntilTornDown, Owed, Busy
<1> QED BY <1>1, <1>3, <1>4 DEF Inv

\* Steps that leave the connections and their filters alone.
LEMMA FiltersKept ==
    ASSUME Inv, UNCHANGED <<armed, conns, replies, batch, pc, cur>>,
           \A f \in Fds, k \in {"READ", "WRITE"} :
               <<k, f>> \in active' => <<k, f>> \in active \cup armed
    PROVE  Filters'
BY DEF Inv, Filters, OneModePerConnection, EventsAreCurrent, ActiveIsArmed, BatchInLoop,
   CurrentEventTaken, ReplyOwner, RepliesReachTheirClient, Reading, Writing

LEMMA ClientFilters ==
    ASSUME Inv, NEW c \in Clients, ClientStep(c)
    PROVE  Filters'
<1>1. UNCHANGED <<armed, conns, replies, batch, pc, cur>>
  BY DEF ClientStep, Connect, SendPiece, ShutDownSending, ResetConnection, ReadReply, loopVars
<1>2. active' = active \cup {Listen} \/ \E kinds : active' = Raise(c, kinds)
  BY DEF ClientStep, Connect, SendPiece, ShutDownSending, ResetConnection, ReadReply
<1> QED BY <1>1, <1>2, FiltersKept DEF Raise, Listen

LEMMA WorkerFilters ==
    ASSUME Inv, NEW w \in Workers, WorkerStep(w)
    PROVE  Filters'
<1>1. UNCHANGED <<armed, conns, replies, batch, pc, cur>>
  BY DEF WorkerStep, TakeTask, DropTask, BeginTask, PushCompletion, TriggerWake, WorkerExit,
     loopVars, kqVars, netVars
<1>2. active' = active \/ active' = active \cup {User}
  BY DEF WorkerStep, TakeTask, DropTask, BeginTask, PushCompletion, TriggerWake, WorkerExit,
     kqVars
<1> QED BY <1>1, <1>2, FiltersKept DEF User

LEMMA LoopFilters ==
    ASSUME Inv,
           \/ Run \/ LeaveLoop \/ Poll \/ PollFails
           \/ TakeUser \/ TakeSignal \/ TakeListen \/ EndOfBatch
           \/ \E f \in Fds : TakeRead(f) \/ TakeWrite(f)
    PROVE  Filters'
<1> USE DEF Inv, Filters, OneModePerConnection, EventsAreCurrent, ActiveIsArmed, BatchInLoop,
            CurrentEventTaken, ReplyOwner, RepliesReachTheirClient, Reading, Writing,
            netVars, kqVars, loopVars, NextEvent
<1>1. CASE Run
  BY <1>1 DEF Run
<1>2. CASE LeaveLoop
  BY <1>2 DEF LeaveLoop
<1>3. CASE Poll
  BY <1>3 DEF Poll, Batches
<1>4. CASE PollFails
  BY <1>4 DEF PollFails
<1>5. CASE TakeUser
  BY <1>5 DEF TakeUser
<1>6. CASE TakeSignal
  BY <1>6 DEF TakeSignal
<1>7. CASE TakeListen
  BY <1>7 DEF TakeListen
<1>8. CASE EndOfBatch
  BY <1>8 DEF EndOfBatch
<1>9. ASSUME NEW f \in Fds, TakeRead(f) PROVE Filters'
  BY <1>9 DEF TakeRead
<1>10. ASSUME NEW f \in Fds, TakeWrite(f) PROVE Filters'
  BY <1>10 DEF TakeWrite
<1> QED BY <1>1, <1>2, <1>3, <1>4, <1>5, <1>6, <1>7, <1>8, <1>9, <1>10

\* closeConnection() takes one descriptor out of connections_ and out of the kqueue.
LEMMA CloseFilters ==
    ASSUME Inv, pc \in {"reading", "writing"}, CloseConnection(cur), BackToEvents,
           UNCHANGED <<batch, replies>>
    PROVE  Filters'
<1> USE DEF Reading, Writing
<1>1. cur \in DOMAIN conns /\ cur \in Fds /\ DOMAIN conns \in SUBSET Fds
  BY DEF Inv, TypeInv, TypeOK, CurrentExists
<1>2. /\ DOMAIN conns' = DOMAIN conns \ {cur}
      /\ \A f \in DOMAIN conns' : conns'[f] = conns[f]
  BY CloseTypes DEF Inv
<1>3. /\ <<"READ", cur>> \notin armed' /\ <<"WRITE", cur>> \notin armed'
      /\ <<"READ", cur>> \notin active' /\ <<"WRITE", cur>> \notin active'
      /\ \A f \in Fds \ {cur} :
           /\ Reading(f)' = Reading(f) /\ Writing(f)' = Writing(f)
           /\ <<"READ", f>> \in active' => <<"READ", f>> \in active
           /\ <<"WRITE", f>> \in active' => <<"WRITE", f>> \in active
  BY <1>1 DEF CloseConnection, Disarm
<1>4. <<"READ", cur>> \notin batch /\ <<"WRITE", cur>> \notin batch
  BY <1>1 DEF Inv, Filters, OneModePerConnection, EventsAreCurrent, CurrentEventTaken
<1>5. OneModePerConnection' /\ ReplyOwner'
  BY <1>1, <1>2, <1>3 DEF Inv, Filters, OneModePerConnection, ReplyOwner
<1>6. EventsAreCurrent' /\ BatchInLoop' /\ CurrentEventTaken'
  BY <1>3, <1>4 DEF Inv, Filters, EventsAreCurrent, BatchInLoop, CurrentEventTaken, BackToEvents
<1>7. ActiveIsArmed' /\ RepliesReachTheirClient'
  BY <1>3 DEF Inv, Filters, ActiveIsArmed, RepliesReachTheirClient
<1> QED BY <1>5, <1>6, <1>7 DEF Filters

LEMMA ReceiveFilters ==
    ASSUME Inv, Receive
    PROVE  Filters'
<1> USE DEF Reading, Writing
<1> DEFINE f == cur
<1>1. /\ f \in DOMAIN conns /\ f \in Fds /\ DOMAIN conns \in SUBSET Fds
      /\ conns[f] \in Connection
  BY DEF Receive, Inv, TypeInv, TypeOK, CurrentExists
<1>2. /\ Reading(f) /\ ~Writing(f) /\ ~conns[f].awaiting
      /\ <<"READ", f>> \notin batch /\ <<"WRITE", f>> \notin batch
      /\ conns[f].replyTo = NoClient
  BY <1>1 DEF Receive, Inv, Filters, OneModePerConnection, EventsAreCurrent, CurrentEventTaken
<1>3. \/ Dispatch(f)
      \/ Reject(f)
      \/ \E full \in BOOLEAN : KeepReading(full)
  BY DEF Receive
<1>4. UNCHANGED <<batch, replies>> /\ pc = "reading"
  BY DEF Receive
<1>5. CASE Dispatch(f)
  <2>1. /\ DOMAIN conns' = DOMAIN conns
        /\ \A g \in DOMAIN conns \ {f} : conns'[g] = conns[g]
        /\ conns'[f].awaiting /\ conns'[f].replyTo = conns[f].replyTo
        /\ conns'[f].client = conns[f].client
    BY <1>1, <1>5 DEF Dispatch, Connection
  <2>2. /\ <<"READ", f>> \notin armed' /\ <<"WRITE", f>> \notin armed' /\ <<"READ", f>> \notin active'
        /\ \A g \in Fds \ {f} : Reading(g)' = Reading(g)
        /\ \A g \in Fds : Writing(g)' = Writing(g)
        /\ active' \subseteq active
    BY <1>2, <1>5 DEF Dispatch
  <2>3. OneModePerConnection' /\ ReplyOwner'
    BY <1>1, <1>2, <2>1, <2>2 DEF Inv, Filters, OneModePerConnection, ReplyOwner
  <2>4. EventsAreCurrent' /\ BatchInLoop' /\ CurrentEventTaken'
    BY <1>2, <1>4, <1>5, <2>2 DEF Inv, Filters, EventsAreCurrent, BatchInLoop,
       CurrentEventTaken, Dispatch, BackToEvents
  <2>5. ActiveIsArmed' /\ RepliesReachTheirClient'
    BY <1>4, <2>2 DEF Inv, Filters, ActiveIsArmed, RepliesReachTheirClient
  <2> QED BY <2>3, <2>4, <2>5 DEF Filters
<1>6. CASE Reject(f)
  <2>1. /\ DOMAIN conns' = DOMAIN conns
        /\ \A g \in DOMAIN conns \ {f} : conns'[g] = conns[g]
        /\ ~conns'[f].awaiting /\ conns'[f].replyTo = conns[f].client
        /\ conns'[f].client = conns[f].client
    BY <1>1, <1>2, <1>6 DEF Reject, Connection
  <2>2. /\ <<"READ", f>> \notin armed' /\ <<"WRITE", f>> \in armed' /\ <<"READ", f>> \notin active'
        /\ \A g \in Fds \ {f} : Reading(g)' = Reading(g) /\ Writing(g)' = Writing(g)
        /\ active' \subseteq active \cup {<<"WRITE", f>>}
    BY <1>2, <1>6 DEF Reject, Rearm
  <2>3. OneModePerConnection' /\ ReplyOwner'
    <3>1. OneModePerConnection'
      BY <1>1, <2>1, <2>2 DEF Inv, Filters, OneModePerConnection
    <3>2. ASSUME NEW g \in DOMAIN conns', Writing(g)' PROVE conns'[g].replyTo = conns'[g].client
      BY <1>1, <2>1, <2>2, <3>2 DEF Inv, Filters, ReplyOwner
    <3> QED BY <3>1, <3>2 DEF ReplyOwner
  <2>4. EventsAreCurrent' /\ BatchInLoop' /\ CurrentEventTaken'
    BY <1>2, <1>4, <1>6, <2>2 DEF Inv, Filters, EventsAreCurrent, BatchInLoop,
       CurrentEventTaken, Reject, BackToEvents
  <2>5. ActiveIsArmed' /\ RepliesReachTheirClient'
    BY <1>4, <2>2 DEF Inv, Filters, ActiveIsArmed, RepliesReachTheirClient
  <2> QED BY <2>3, <2>4, <2>5 DEF Filters
<1>7. ASSUME NEW full \in BOOLEAN, KeepReading(full) PROVE Filters'
  BY <1>4, <1>7 DEF Inv, Filters, OneModePerConnection, EventsAreCurrent, ActiveIsArmed,
     BatchInLoop, CurrentEventTaken, ReplyOwner, RepliesReachTheirClient, KeepReading,
     BackToEvents
<1> QED BY <1>3, <1>5, <1>6, <1>7

LEMMA SocketFilters ==
    ASSUME Inv,
           \/ Accept \/ StopAccepting \/ AcceptAborted
           \/ ReceiveEnd \/ ReceiveAgain \/ SendSome \/ SendAgain \/ SendEnd
    PROVE  Filters'
<1> USE DEF Reading, Writing
<1>1. CASE Accept
  <2>1. PICK f \in FreeFds :
          /\ conns' = [g \in DOMAIN conns \cup {f} |->
                         IF g = f THEN NewConnection(Head(backlog)) ELSE conns[g]]
          /\ armed' = armed \cup {<<"READ", f>>}
          /\ active' \in {active, active \cup {<<"READ", f>>}}
    BY <1>1 DEF Accept
  <2>2. f \in Fds /\ f \notin DOMAIN conns /\ UNCHANGED <<batch, replies, pc, cur>>
    BY <1>1, <2>1 DEF FreeFds, Accept, loopVars
  <2>3. /\ conns'[f].awaiting = FALSE /\ conns'[f].replyTo = NoClient
        /\ DOMAIN conns' = DOMAIN conns \cup {f}
        /\ \A g \in DOMAIN conns : conns'[g] = conns[g]
    BY <2>1, <2>2 DEF NewConnection
  <2> QED
    BY <1>1, <2>1, <2>2, <2>3 DEF Accept, Inv, Filters, OneModePerConnection,
       EventsAreCurrent, ActiveIsArmed, BatchInLoop, CurrentEventTaken, ReplyOwner,
       RepliesReachTheirClient
<1>2. CASE StopAccepting \/ AcceptAborted \/ ReceiveAgain \/ SendAgain
  BY <1>2 DEF Inv, Filters, OneModePerConnection, EventsAreCurrent, ActiveIsArmed,
     BatchInLoop, CurrentEventTaken, ReplyOwner, RepliesReachTheirClient, StopAccepting,
     AcceptAborted, ReceiveAgain, SendAgain, BackToEvents, netVars, kqVars
<1>3. CASE ReceiveEnd \/ SendEnd
  BY <1>3, CloseFilters DEF ReceiveEnd, SendEnd
<1>4. CASE SendSome
  <2>1. /\ cur \in DOMAIN conns /\ cur \in Fds /\ conns[cur] \in Connection
        /\ DOMAIN conns \in SUBSET Fds
    BY <1>4 DEF SendSome, Inv, TypeInv, TypeOK, CurrentExists
  <2>2. /\ DOMAIN conns' = DOMAIN conns
        /\ \A f \in DOMAIN conns : /\ conns'[f].client = conns[f].client
                                   /\ conns'[f].awaiting = conns[f].awaiting
                                   /\ conns'[f].replyTo = conns[f].replyTo
    BY <1>4, <2>1 DEF SendSome, Inv, TypeInv, TypeOK, Connection
  <2>3. conns[cur].replyTo = conns[cur].client
    BY <1>4, <2>1 DEF SendSome, Inv, Filters, EventsAreCurrent, ReplyOwner
  <2>4. RepliesReachTheirClient'
    BY <1>4, <2>1, <2>3 DEF SendSome, Inv, Filters, TypeInv, TypeOK, Connection,
       RepliesReachTheirClient
  <2>5. UNCHANGED <<armed, active, batch, pc, cur>>
    BY <1>4 DEF SendSome, kqVars, loopVars
  <2> QED BY <2>1, <2>2, <2>4, <2>5 DEF Inv, Filters, OneModePerConnection,
       EventsAreCurrent, ActiveIsArmed, BatchInLoop, CurrentEventTaken, ReplyOwner
<1> QED BY <1>1, <1>2, <1>3, <1>4

\* The head of the completion queue is for a connection that awaits it, and made
\* for its client.
LEMMA HeadIsAwaited ==
    ASSUME Inv, pc \in {"drainEvent", "drain"}, completions # <<>>
    PROVE  LET r == Head(completions) IN
           /\ r \in Result
           /\ r.fd \in DOMAIN conns
           /\ conns[r.fd].client = r.client
           /\ conns[r.fd].awaiting
<1> DEFINE r == Head(completions)
<1>1. r \in Result /\ 1 \in DOMAIN completions /\ completions[1] = r
  BY HeadTailProperties, LenProperties DEF Inv, TypeInv, TypeOK
<1>2. r.fd \in Fds /\ r.client \in Clients
  BY <1>1 DEF Result
<1>3. Owed(r.fd, r.client) /\ kqOpen
  BY <1>1 DEF Owed, Inv, Work, OpenUntilTornDown
<1> QED BY <1>1, <1>2, <1>3 DEF Inv, Work, WorkHasConnection

LEMMA DrainFilters ==
    ASSUME Inv, DrainOne \/ DrainEnd
    PROVE  Filters'
<1> USE DEF Reading, Writing
<1>1. CASE DrainOne
  <2> DEFINE r == Head(completions)
  <2>1. /\ r \in Result /\ r.fd \in DOMAIN conns /\ r.fd \in Fds
        /\ conns[r.fd].client = r.client /\ conns[r.fd].awaiting
        /\ conns[r.fd] \in Connection /\ DOMAIN conns \in SUBSET Fds
    BY <1>1, HeadIsAwaited DEF DrainOne, Inv, TypeInv, TypeOK
  <2>2. /\ DOMAIN conns' = DOMAIN conns
        /\ \A f \in DOMAIN conns \ {r.fd} : conns'[f] = conns[f]
        /\ ~conns'[r.fd].awaiting
        /\ conns'[r.fd].client = r.client /\ conns'[r.fd].replyTo = r.client
    <3>1. /\ DOMAIN conns' = DOMAIN conns
          /\ \A f \in DOMAIN conns \ {r.fd} : conns'[f] = conns[f]
          /\ conns'[r.fd] = [[[conns[r.fd] EXCEPT !.awaiting = FALSE]
                                           EXCEPT !.unsent = r.size]
                                           EXCEPT !.replyTo = r.client]
      BY <1>1, <2>1 DEF DrainOne
    <3> QED BY <2>1, <3>1 DEF Connection
  <2>3. /\ ~Reading(r.fd) /\ ~Writing(r.fd)
        /\ armed' = armed \cup {<<"WRITE", r.fd>>}
        /\ active' \subseteq active \cup {<<"WRITE", r.fd>>}
    BY <1>1, <2>1 DEF DrainOne, Inv, Filters, OneModePerConnection
  <2>4. UNCHANGED <<batch, replies, pc, cur>>
    BY <1>1 DEF DrainOne, netVars, loopVars
  <2>5. OneModePerConnection' /\ ReplyOwner'
    BY <2>1, <2>2, <2>3 DEF Inv, Filters, OneModePerConnection, ReplyOwner
  <2> QED
    BY <2>3, <2>4, <2>5 DEF Inv, Filters, EventsAreCurrent, ActiveIsArmed,
       BatchInLoop, CurrentEventTaken, RepliesReachTheirClient
<1>2. CASE DrainEnd
  BY <1>2 DEF DrainEnd, Inv, Filters, OneModePerConnection, EventsAreCurrent, ActiveIsArmed,
     BatchInLoop, CurrentEventTaken, ReplyOwner, RepliesReachTheirClient, netVars, kqVars
<1> QED BY <1>1, <1>2

LEMMA ShutdownFilters ==
    ASSUME Inv, Stop \/ DeliverSignal \/ BeginTeardown \/ EndTeardown
    PROVE  Filters'
<1>1. CASE Stop
  BY <1>1, FiltersKept DEF Stop, User, netVars
<1>2. CASE DeliverSignal
  BY <1>2, FiltersKept DEF DeliverSignal, Signal, netVars, loopVars
<1>3. CASE BeginTeardown
  BY <1>3 DEF BeginTeardown, netVars, kqVars, Inv, Filters, OneModePerConnection,
     EventsAreCurrent, ActiveIsArmed, BatchInLoop, CurrentEventTaken, ReplyOwner,
     RepliesReachTheirClient, Reading, Writing
<1>4. CASE EndTeardown
  <2>1. DOMAIN conns' = {}
    BY <1>4 DEF EndTeardown, Restrict
  <2>2. batch = {} /\ batch' = {}
    BY <1>4 DEF EndTeardown, Inv, Filters, BatchInLoop
  <2> QED
    BY <1>4, <2>1, <2>2 DEF EndTeardown, Inv, Filters, OneModePerConnection,
       EventsAreCurrent, ActiveIsArmed, BatchInLoop, CurrentEventTaken, ReplyOwner,
       RepliesReachTheirClient, Reading, Writing
<1> QED BY <1>1, <1>2, <1>3, <1>4

-----------------------------------------------------------------------------
(* Sequences used as queues.                                               *)

LEMMA AppendElements ==
    ASSUME NEW S, NEW s \in Seq(S), NEW e \in S, NEW i \in DOMAIN Append(s, e)
    PROVE  \/ i \in DOMAIN s /\ Append(s, e)[i] = s[i]
           \/ i \notin DOMAIN s /\ i = Len(s) + 1 /\ Append(s, e)[i] = e
BY AppendProperties, LenProperties

LEMMA TailElements ==
    ASSUME NEW S, NEW s \in Seq(S), s # <<>>
    PROVE  /\ 1 \in DOMAIN s /\ s[1] = Head(s) /\ Head(s) \in S
           /\ \A i \in DOMAIN Tail(s) : /\ i \in Nat /\ i + 1 # 1
                                        /\ i + 1 \in DOMAIN s /\ Tail(s)[i] = s[i + 1]
BY HeadTailProperties, LenProperties

-----------------------------------------------------------------------------
(* The work on its way through the pool.                                   *)

\* Steps that leave the queues, the workers' tasks and what they are matched
\* against alone.
LEMMA WorkKept ==
    ASSUME Inv, UNCHANGED <<tasks, completions, kqOpen>>, pc = "tornDown" => pc' = "tornDown",
           \A w \in Workers : Busy(w)' => Busy(w) /\ worker'[w].task = worker[w].task,
           \A f \in DOMAIN conns : conns[f].awaiting =>
               f \in DOMAIN conns' /\ conns'[f].client = conns[f].client /\ conns'[f].awaiting
    PROVE  Work'
<1>1. ASSUME NEW f \in Fds, NEW c \in Clients, Owed(f, c)' PROVE Owed(f, c)
  BY <1>1 DEF Owed
<1>2. WorkHasConnection'
  BY <1>1 DEF Inv, Work, WorkHasConnection
<1> QED BY <1>2 DEF Inv, Work, OneResponsePerConnection, OpenUntilTornDown

LEMMA ClientWork ==
    ASSUME Inv, NEW c \in Clients, ClientStep(c)
    PROVE  Work'
<1>1. UNCHANGED <<tasks, completions, kqOpen, pc, worker, conns>>
  BY DEF ClientStep, Connect, SendPiece, ShutDownSending, ResetConnection, ReadReply,
     loopVars, poolVars
<1> QED BY <1>1, WorkKept DEF Busy

LEMMA LoopWork ==
    ASSUME Inv,
           \/ Run \/ LeaveLoop \/ Poll \/ PollFails
           \/ TakeUser \/ TakeSignal \/ TakeListen \/ EndOfBatch
           \/ \E f \in Fds : TakeRead(f) \/ TakeWrite(f)
    PROVE  Work'
<1>1. UNCHANGED <<tasks, completions, kqOpen, worker, conns>>
  BY DEF Run, LeaveLoop, Poll, PollFails, TakeUser, TakeSignal, TakeListen, EndOfBatch,
     TakeRead, TakeWrite, kqVars, poolVars
<1>2. pc = "tornDown" => pc' = "tornDown"
  BY DEF Run, LeaveLoop, Poll, PollFails, TakeUser, TakeSignal, TakeListen, EndOfBatch,
     TakeRead, TakeWrite, NextEvent
<1> QED BY <1>1, <1>2, WorkKept DEF Busy

\* A connection with an event being handled awaits nothing, so no work is owed to it.
LEMMA NothingOwed ==
    ASSUME Inv, NEW f \in Fds, f \notin DOMAIN conns \/ ~conns[f].awaiting, kqOpen
    PROVE  /\ \A i \in DOMAIN tasks : tasks[i].fd # f
           /\ \A i \in DOMAIN completions : completions[i].fd # f
           /\ \A w \in Workers : Busy(w) => worker[w].task.fd # f
<1>1. \A c \in Clients : ~Owed(f, c)
  BY DEF Inv, Work, WorkHasConnection
<1>2. ASSUME NEW i \in DOMAIN tasks, tasks[i].fd = f PROVE FALSE
  <2>1. tasks[i] \in Task
    BY ElementOfSeq, LenProperties DEF Inv, TypeInv, TypeOK
  <2>2. tasks[i] = [fd |-> f, client |-> tasks[i].client] /\ tasks[i].client \in Clients
    BY <1>2, <2>1 DEF Task
  <2> QED BY <1>1, <2>2 DEF Owed
<1>3. ASSUME NEW i \in DOMAIN completions, completions[i].fd = f PROVE FALSE
  <2>1. completions[i] \in Result
    BY ElementOfSeq, LenProperties DEF Inv, TypeInv, TypeOK
  <2> QED BY <1>1, <1>3, <2>1 DEF Owed, Result
<1>4. ASSUME NEW w \in Workers, Busy(w), worker[w].task.fd = f PROVE FALSE
  <2>1. worker[w].task = [fd |-> f, client |-> worker[w].task.client]
        /\ worker[w].task.client \in Clients
    BY <1>4 DEF Inv, TypeInv, BusyHasTask, Task
  <2> QED BY <1>1, <1>4, <2>1 DEF Owed
<1> QED BY <1>2, <1>3, <1>4

LEMMA ReceiveWork ==
    ASSUME Inv, Receive
    PROVE  Work'
<1> DEFINE f == cur
           t == [fd |-> f, client |-> conns[f].client]
<1>1. /\ f \in DOMAIN conns /\ f \in Fds /\ DOMAIN conns \in SUBSET Fds
      /\ conns[f] \in Connection /\ conns[f].client \in Clients
      /\ kqOpen /\ pc = "reading"
  BY DEF Receive, Inv, TypeInv, TypeOK, CurrentExists, Work, OpenUntilTornDown, Connection
<1>2. ~conns[f].awaiting
  BY <1>1 DEF Inv, Filters, OneModePerConnection, EventsAreCurrent
<1>3. \/ Dispatch(f)
      \/ Reject(f)
      \/ \E full \in BOOLEAN : KeepReading(full)
  BY DEF Receive
<1>4. UNCHANGED <<completions, worker, kqOpen>>
  BY <1>1, <1>3 DEF Receive, Dispatch, Reject, KeepReading, BackToEvents
<1>5. CASE Dispatch(f)
  <2>1. t \in Task /\ tasks \in Seq(Task)
    BY <1>1 DEF Task, Inv, TypeInv, TypeOK
  <2>2. \A i \in DOMAIN tasks' : \/ i \in DOMAIN tasks /\ tasks'[i] = tasks[i]
                                 \/ i \notin DOMAIN tasks /\ i = Len(tasks) + 1 /\ tasks'[i] = t
    BY <1>5, <2>1, AppendElements DEF Dispatch
  <2>3. /\ DOMAIN conns' = DOMAIN conns
        /\ \A g \in DOMAIN conns \ {f} : conns'[g] = conns[g]
        /\ conns'[f].awaiting /\ conns'[f].client = conns[f].client
    BY <1>1, <1>5 DEF Dispatch, Connection
  <2>4. ASSUME NEW g \in Fds, NEW c \in Clients, Owed(g, c)'
        PROVE  Owed(g, c) \/ (g = f /\ c = conns[f].client)
    BY <1>4, <2>2, <2>4 DEF Owed, Busy
  <2>5. WorkHasConnection'
    BY <1>1, <2>3, <2>4 DEF Inv, Work, WorkHasConnection
  <2>6. /\ \A i \in DOMAIN tasks : tasks[i].fd # f
        /\ \A i \in DOMAIN completions : completions[i].fd # f
        /\ \A w \in Workers : Busy(w) => worker[w].task.fd # f
    BY <1>1, <1>2, NothingOwed
  <2>7. \A w \in Workers : Busy(w)' = Busy(w) /\ worker'[w] = worker[w]
    BY <1>4 DEF Busy
  <2>8. OneResponsePerConnection'
    BY <1>4, <2>2, <2>6, <2>7 DEF Inv, Work, OneResponsePerConnection
  <2> QED BY <1>1, <1>4, <2>5, <2>8 DEF Inv, Work, OpenUntilTornDown
<1>6. CASE Reject(f)
  <2>1. /\ DOMAIN conns' = DOMAIN conns
        /\ \A g \in DOMAIN conns \ {f} : conns'[g] = conns[g]
    BY <1>6 DEF Reject
  <2> QED BY <1>1, <1>2, <1>4, <1>6, <2>1, WorkKept DEF Reject, Busy
<1>7. ASSUME NEW full \in BOOLEAN, KeepReading(full) PROVE Work'
  BY <1>1, <1>4, <1>7, WorkKept DEF KeepReading, Busy
<1> QED BY <1>3, <1>5, <1>6, <1>7

LEMMA SocketWork ==
    ASSUME Inv,
           \/ Accept \/ StopAccepting \/ AcceptAborted
           \/ ReceiveEnd \/ ReceiveAgain \/ SendSome \/ SendAgain \/ SendEnd
    PROVE  Work'
<1>1. UNCHANGED <<tasks, completions, worker, kqOpen>> /\ pc # "tornDown"
  BY DEF Accept, StopAccepting, AcceptAborted, ReceiveEnd, ReceiveAgain, SendSome, SendAgain, SendEnd,
     kqVars, loopVars, poolVars, BackToEvents
<1>2. CASE Accept
  BY <1>1, <1>2, WorkKept DEF Accept, FreeFds, Busy
<1>3. CASE StopAccepting \/ AcceptAborted \/ ReceiveAgain \/ SendAgain
  <2>1. UNCHANGED conns
    BY <1>3 DEF StopAccepting, AcceptAborted, ReceiveAgain, SendAgain
  <2> QED BY <1>1, <2>1, WorkKept DEF Busy
<1>4. CASE ReceiveEnd \/ SendEnd
  <2>1. /\ CloseConnection(cur)
        /\ cur \in DOMAIN conns /\ cur \in Fds
        /\ \/ pc = "reading" /\ Reading(cur)
           \/ pc = "writing" /\ Writing(cur)
    BY <1>4 DEF ReceiveEnd, SendEnd, Inv, TypeInv, TypeOK, CurrentExists, Filters,
       EventsAreCurrent
  <2>2. ~conns[cur].awaiting
    BY <2>1 DEF Inv, Filters, OneModePerConnection
  <2>3. /\ DOMAIN conns' = DOMAIN conns \ {cur}
        /\ \A f \in DOMAIN conns' : conns'[f] = conns[f]
    BY <2>1, CloseTypes DEF Inv
  <2> QED BY <1>1, <2>2, <2>3, WorkKept DEF Busy
<1>5. CASE SendSome
  <2>1. /\ DOMAIN conns' = DOMAIN conns
        /\ \A f \in DOMAIN conns : /\ conns'[f].client = conns[f].client
                                   /\ conns'[f].awaiting = conns[f].awaiting
    BY <1>5 DEF SendSome, Inv, TypeInv, TypeOK, Connection
  <2> QED BY <1>1, <2>1, WorkKept DEF Busy
<1> QED BY <1>2, <1>3, <1>4, <1>5

LEMMA DrainWork ==
    ASSUME Inv, DrainOne \/ DrainEnd
    PROVE  Work'
<1>1. CASE DrainOne
  <2> DEFINE r == Head(completions)
  <2>1. /\ r \in Result /\ r.fd \in DOMAIN conns /\ r.fd \in Fds
        /\ DOMAIN conns \in SUBSET Fds
    BY <1>1, HeadIsAwaited DEF DrainOne, Inv, TypeInv, TypeOK
  <2>2. /\ DOMAIN conns' = DOMAIN conns
        /\ \A f \in DOMAIN conns \ {r.fd} : conns'[f] = conns[f]
    BY <1>1, <2>1 DEF DrainOne
  <2>3. UNCHANGED <<tasks, worker, kqOpen, pc>> /\ completions' = Tail(completions)
    BY <1>1 DEF DrainOne, loopVars
  <2>4. /\ 1 \in DOMAIN completions /\ completions[1] = r
        /\ \A i \in DOMAIN completions' :
             /\ i \in Nat /\ i + 1 # 1
             /\ i + 1 \in DOMAIN completions /\ completions'[i] = completions[i + 1]
    BY <1>1, <2>3, TailElements DEF DrainOne, Inv, TypeInv, TypeOK
  <2>5. \A w \in Workers : Busy(w)' = Busy(w) /\ worker'[w] = worker[w]
    BY <2>3 DEF Busy
  <2>6. ASSUME NEW g \in Fds, NEW c \in Clients, Owed(g, c)' PROVE Owed(g, c) /\ g # r.fd
    BY <2>3, <2>4, <2>5, <2>6 DEF Owed, Inv, Work, OneResponsePerConnection
  <2>7. WorkHasConnection'
    BY <2>2, <2>3, <2>6 DEF Inv, Work, WorkHasConnection
  <2>8. OneResponsePerConnection'
    BY <2>3, <2>4, <2>5 DEF Inv, Work, OneResponsePerConnection
  <2> QED BY <2>3, <2>7, <2>8 DEF Inv, Work, OpenUntilTornDown
<1>2. CASE DrainEnd
  BY <1>2, WorkKept DEF DrainEnd, kqVars, poolVars, Busy
<1> QED BY <1>1, <1>2

LEMMA WorkerWork ==
    ASSUME Inv, NEW w \in Workers, WorkerStep(w)
    PROVE  Work'
<1>1. worker \in [Workers -> WorkerState]
  BY DEF Inv, TypeInv, TypeOK
<1>2. UNCHANGED <<conns, kqOpen, pc>> /\ \A v \in Workers \ {w} : worker'[v] = worker[v]
  BY <1>1 DEF WorkerStep, TakeTask, DropTask, BeginTask, PushCompletion, TriggerWake,
     WorkerExit, kqVars, loopVars
<1>3. CASE TakeTask(w)
  <2>1. UNCHANGED completions /\ tasks' = Tail(tasks) /\ ~Busy(w)
    BY <1>3 DEF TakeTask, Busy
  <2>2. worker'[w].at = "taken" /\ worker'[w].task = Head(tasks)
    BY <1>1, <1>3 DEF TakeTask
  <2>3. /\ 1 \in DOMAIN tasks /\ tasks[1] = Head(tasks)
        /\ \A i \in DOMAIN tasks' : /\ i \in Nat /\ i + 1 # 1
                                    /\ i + 1 \in DOMAIN tasks /\ tasks'[i] = tasks[i + 1]
    BY <1>3, <2>1, TailElements DEF TakeTask, Inv, TypeInv, TypeOK
  <2>4. \A v \in Workers \ {w} : Busy(v)' = Busy(v)
    BY <1>2 DEF Busy
  <2>5. ASSUME NEW f \in Fds, NEW c \in Clients, Owed(f, c)' PROVE Owed(f, c)
    BY <1>2, <2>1, <2>2, <2>3, <2>4, <2>5 DEF Owed
  <2>6. WorkHasConnection'
    BY <1>2, <2>5 DEF Inv, Work, WorkHasConnection
  <2>7. OneResponsePerConnection'
    BY <1>2, <2>1, <2>2, <2>3, <2>4 DEF Inv, Work, OneResponsePerConnection
  <2> QED BY <1>2, <2>6, <2>7 DEF Inv, Work, OpenUntilTornDown
<1>4. CASE PushCompletion(w)
  <2> DEFINE t == worker[w].task
  <2>1. UNCHANGED tasks /\ Busy(w) /\ t \in Task
    BY <1>4 DEF PushCompletion, Busy, Inv, TypeInv, BusyHasTask
  <2>2. PICK n \in {0, ReplySize} :
          completions' = Append(completions, [fd |-> t.fd, client |-> t.client, size |-> n])
    BY <1>4 DEF PushCompletion
  <2>3. [fd |-> t.fd, client |-> t.client, size |-> n] \in Result
    BY <2>1 DEF Task, Result
  <2>4. \A i \in DOMAIN completions' :
          \/ i \in DOMAIN completions /\ completions'[i] = completions[i]
          \/ /\ i \notin DOMAIN completions /\ i = Len(completions) + 1
             /\ completions'[i].fd = t.fd /\ completions'[i].client = t.client
    BY <2>2, <2>3, AppendElements DEF Inv, TypeInv, TypeOK
  <2>5. /\ ~Busy(w)'
        /\ \A v \in Workers \ {w} : Busy(v)' = Busy(v)
    BY <1>2, <1>1, <1>4 DEF PushCompletion, Busy
  <2>6. ASSUME NEW f \in Fds, NEW c \in Clients, Owed(f, c)' PROVE Owed(f, c)
    <3>1. t.fd = f /\ t.client = c => Owed(f, c)
      BY <2>1 DEF Owed, Task
    <3> QED BY <1>2, <2>1, <2>4, <2>5, <2>6, <3>1 DEF Owed
  <2>7. WorkHasConnection'
    BY <1>2, <2>6 DEF Inv, Work, WorkHasConnection
  <2>8. OneResponsePerConnection'
    BY <1>2, <2>1, <2>4, <2>5 DEF Inv, Work, OneResponsePerConnection
  <2> QED BY <1>2, <2>7, <2>8 DEF Inv, Work, OpenUntilTornDown
<1>5. CASE DropTask(w) \/ BeginTask(w) \/ TriggerWake(w) \/ WorkerExit(w)
  <2>1. UNCHANGED <<tasks, completions>>
    BY <1>5 DEF DropTask, BeginTask, TriggerWake, WorkerExit
  <2>2. Busy(w)' => Busy(w) /\ worker'[w].task = worker[w].task
    <3>1. ASSUME BeginTask(w) PROVE Busy(w) /\ worker'[w].task = worker[w].task
      BY <1>1, <3>1 DEF BeginTask, Busy, WorkerState
    <3>2. ASSUME DropTask(w) \/ TriggerWake(w) \/ WorkerExit(w) PROVE ~Busy(w)'
      BY <1>1, <3>2 DEF DropTask, TriggerWake, WorkerExit, Busy, WorkerState
    <3> QED BY <1>5, <3>1, <3>2
  <2>3. \A v \in Workers : Busy(v)' => Busy(v) /\ worker'[v].task = worker[v].task
    BY <1>2, <2>2 DEF Busy
  <2> QED BY <1>2, <2>1, <2>3, WorkKept
<1> QED BY <1>3, <1>4, <1>5 DEF WorkerStep

LEMMA ShutdownWork ==
    ASSUME Inv, Stop \/ DeliverSignal \/ BeginTeardown \/ EndTeardown
    PROVE  Work'
<1>1. CASE Stop \/ DeliverSignal \/ BeginTeardown
  <2>1. UNCHANGED <<tasks, completions, kqOpen, conns, worker>>
    BY <1>1 DEF Stop, DeliverSignal, BeginTeardown, poolVars, loopVars, kqVars
  <2>2. pc = "tornDown" => pc' = "tornDown"
    BY <1>1 DEF Stop, DeliverSignal, BeginTeardown, loopVars
  <2> QED BY <2>1, <2>2, WorkKept DEF Busy
<1>2. CASE EndTeardown
  <2>1. ~kqOpen' /\ pc' = "tornDown" /\ UNCHANGED <<tasks, completions, worker>>
    BY <1>2 DEF EndTeardown, poolVars
  <2>2. \A w \in Workers : Busy(w)' = Busy(w)
    BY <2>1 DEF Busy
  <2>3. OneResponsePerConnection'
    BY <2>1, <2>2 DEF Inv, Work, OneResponsePerConnection
  <2> QED BY <2>1, <2>3 DEF Work, WorkHasConnection, OpenUntilTornDown
<1> QED BY <1>1, <1>2

-----------------------------------------------------------------------------
LEMMA StepInv == Inv /\ [Next]_vars => Inv'
<1> SUFFICES ASSUME Inv, [Next]_vars PROVE Inv'
  OBVIOUS
<1>1. TypeInv'
  BY StepTypes DEF Inv
<1>2. CASE UNCHANGED vars
  <2>1. UNCHANGED <<armed, active, kqOpen, conns, replies, batch, pc, cur, tasks, completions,
                    worker>>
    BY <1>2 DEF vars, netVars, kqVars, loopVars, poolVars
  <2>2. Filters'
    BY <2>1, FiltersKept
  <2>3. Work'
    BY <2>1, WorkKept DEF Busy
  <2> QED BY <1>1, <2>2, <2>3 DEF Inv
<1>3. ASSUME NEW c \in Clients, ClientStep(c) PROVE Inv'
  BY <1>1, <1>3, ClientFilters, ClientWork DEF Inv
<1>4. ASSUME NEW w \in Workers, WorkerStep(w) PROVE Inv'
  BY <1>1, <1>4, WorkerFilters, WorkerWork DEF Inv
<1>5. CASE ReactorStep
  <2>1. Filters'
    BY <1>5, LoopFilters, ReceiveFilters, SocketFilters, DrainFilters, ShutdownFilters
       DEF ReactorStep, HandlerStep
  <2>2. Work'
    BY <1>5, LoopWork, ReceiveWork, SocketWork, DrainWork, ShutdownWork
       DEF ReactorStep, HandlerStep
  <2> QED BY <1>1, <2>1, <2>2 DEF Inv
<1>6. CASE PollFails \/ Stop \/ DeliverSignal
  BY <1>1, <1>6, LoopFilters, ShutdownFilters, LoopWork, ShutdownWork DEF Inv
<1> QED BY <1>2, <1>3, <1>4, <1>5, <1>6 DEF Next

LEMMA InvAlways == Spec => []Inv
BY InitInv, StepInv, PTL DEF Spec

\* No client ever receives a byte of the response to another client's request,
\* although a completion carries nothing but a descriptor number that is reused.
THEOREM RepliesAreDelivered == Spec => []RepliesReachTheirClient
<1>1. Inv => RepliesReachTheirClient
  BY DEF Inv, Filters
<1> QED BY InvAlways, <1>1, PTL

\* The filters registered for a connection follow its mode, and no event of a
\* batch is about a connection that has gone.
THEOREM FiltersFollowMode == Spec => []EventsFollowMode
<1>1. Inv => EventsFollowMode
  BY DEF Inv, Filters, EventsFollowMode
<1> QED BY InvAlways, <1>1, PTL

-----------------------------------------------------------------------------
(* Teardown.                                                               *)

\* Workers leave only once the pool stops and its queue is empty, and nothing is
\* queued any more then.
Joining ==
    /\ stopping <=> pc \in {"joining", "tornDown"}
    /\ \A w \in Workers : worker[w].at = "gone" => stopping /\ tasks = <<>>
    /\ kqOpen <=> pc # "tornDown"
    /\ pc = "tornDown" => AllJoined

LEMMA StepJoining == TypeInv /\ Joining /\ [Next]_vars => Joining'
<1> SUFFICES ASSUME TypeInv, Joining, [Next]_vars PROVE Joining'
  OBVIOUS
<1> USE DEF Joining, AllJoined
<1>1. CASE UNCHANGED vars
  BY <1>1 DEF vars, kqVars, loopVars, poolVars
<1>2. ASSUME NEW c \in Clients, ClientStep(c) PROVE Joining'
  BY <1>2 DEF ClientStep, Connect, SendPiece, ShutDownSending, ResetConnection, ReadReply,
     loopVars, poolVars
<1>3. ASSUME NEW w \in Workers, WorkerStep(w) PROVE Joining'
  <2>1. UNCHANGED <<pc, kqOpen, stopping>>
    BY <1>3 DEF WorkerStep, TakeTask, DropTask, BeginTask, PushCompletion, TriggerWake,
       WorkerExit, loopVars, kqVars
  <2>2. worker \in [Workers -> WorkerState]
    BY DEF TypeInv, TypeOK
  <2>3. CASE TakeTask(w)
    BY <2>1, <2>2, <2>3 DEF TakeTask
  <2>4. CASE DropTask(w) \/ BeginTask(w) \/ PushCompletion(w) \/ TriggerWake(w)
    <3>1. UNCHANGED tasks /\ worker[w].at # "gone"
      BY <2>4 DEF DropTask, BeginTask, PushCompletion, TriggerWake
    <3>2. worker'[w].at # "gone" /\ \A v \in Workers \ {w} : worker'[v] = worker[v]
      BY <2>2, <2>4 DEF DropTask, BeginTask, PushCompletion, TriggerWake, WorkerState
    <3>3. pc # "tornDown"
      BY <3>1
    <3> QED BY <2>1, <3>1, <3>2, <3>3
  <2>5. CASE WorkerExit(w)
    <3>1. stopping /\ tasks = <<>> /\ UNCHANGED tasks
      BY <2>5 DEF WorkerExit
    <3>2. pc # "tornDown"
      BY <2>5 DEF WorkerExit
    <3> QED BY <2>1, <3>1, <3>2
  <2> QED BY <1>3, <2>3, <2>4, <2>5 DEF WorkerStep
<1>4. CASE Run \/ LeaveLoop \/ Poll \/ PollFails
  BY <1>4 DEF Run, LeaveLoop, Poll, PollFails, kqVars, poolVars
<1>5. CASE TakeUser \/ TakeSignal \/ TakeListen \/ EndOfBatch
           \/ \E f \in Fds : TakeRead(f) \/ TakeWrite(f)
  <2>1. pc = "events" /\ pc' \notin {"joining", "tornDown"}
    BY <1>5 DEF TakeUser, TakeSignal, TakeListen, EndOfBatch, TakeRead, TakeWrite, NextEvent
  <2>2. UNCHANGED <<kqOpen, tasks, worker, stopping>>
    BY <1>5 DEF TakeUser, TakeSignal, TakeListen, EndOfBatch, TakeRead, TakeWrite, kqVars,
       poolVars
  <2> QED BY <2>1, <2>2
<1>6. CASE Accept \/ StopAccepting \/ AcceptAborted \/ ReceiveEnd \/ ReceiveAgain
           \/ SendSome \/ SendAgain \/ SendEnd
  BY <1>6 DEF Accept, StopAccepting, AcceptAborted, ReceiveEnd, ReceiveAgain, SendSome,
     SendAgain, SendEnd, BackToEvents, kqVars, loopVars, poolVars
<1>7. CASE Receive
  <2>1. pc = "reading" /\ pc' \in {"reading", "events"}
    BY <1>7 DEF Receive, Dispatch, Reject, KeepReading, BackToEvents
  <2> QED BY <1>7, <2>1 DEF Receive
<1>8. CASE DrainOne \/ DrainEnd
  BY <1>8 DEF DrainOne, DrainEnd, kqVars, loopVars, poolVars
<1>9. CASE Stop \/ DeliverSignal
  BY <1>9 DEF Stop, DeliverSignal, loopVars, poolVars
<1>10. CASE BeginTeardown
  BY <1>10 DEF BeginTeardown, kqVars
<1>11. CASE EndTeardown
  BY <1>11 DEF EndTeardown, poolVars
<1> QED BY <1>1, <1>2, <1>3, <1>4, <1>5, <1>6, <1>7, <1>8, <1>9, <1>10, <1>11
        DEF Next, ReactorStep, HandlerStep

LEMMA JoiningAlways == Spec => [](TypeInv /\ Joining)
<1>1. Init => Joining
  BY DEF Init, Joining
<1> QED BY InitTypes, StepTypes, StepJoining, <1>1, PTL DEF Spec

\* teardown() closes the connections and the kqueue after it has destroyed the
\* pool: by then every worker has left its loop and no task is left to use them.
KqueueOutlivesWorkers ==
    ~kqOpen => tasks = <<>> /\ \A w \in Workers : worker[w].at = "gone"

\* In every state of the reactor, a kqueue that teardown() has closed is one no
\* worker and no queued task can touch any more: the pool was joined before it.
THEOREM KqueueIsClosedLast == Spec => []KqueueOutlivesWorkers
<1>1. Joining => KqueueOutlivesWorkers
  BY ReactorAssumption DEF Joining, AllJoined, KqueueOutlivesWorkers
<1> QED BY JoiningAlways, <1>1, PTL

-----------------------------------------------------------------------------
(* Wake-ups.                                                               *)

\* Before run() there is no connection, so no work.
NothingBeforeRun == pc = "constructed" => DOMAIN conns = {}

Awake == NothingBeforeRun /\ CompletionWillBeSeen

LEMMA StepAwake == Inv /\ Awake /\ [Next]_vars => Awake'
<1> SUFFICES ASSUME Inv, Awake, [Next]_vars PROVE Awake'
  OBVIOUS
<1> USE DEF Awake, NothingBeforeRun, CompletionWillBeSeen
<1>1. CASE UNCHANGED vars
  BY <1>1 DEF vars, kqVars, loopVars, poolVars
<1>2. ASSUME NEW c \in Clients, ClientStep(c) PROVE Awake'
  BY <1>2 DEF ClientStep, Connect, SendPiece, ShutDownSending, ResetConnection, ReadReply,
     Raise, loopVars, poolVars
<1>3. ASSUME NEW w \in Workers, WorkerStep(w) PROVE Awake'
  <2>1. UNCHANGED <<pc, conns>> /\ worker \in [Workers -> WorkerState]
    BY <1>3 DEF WorkerStep, TakeTask, DropTask, BeginTask, PushCompletion, TriggerWake,
       WorkerExit, loopVars, Inv, TypeInv, TypeOK
  <2>2. CASE PushCompletion(w)
    BY <2>1, <2>2 DEF PushCompletion
  <2>3. CASE TriggerWake(w)
    BY <2>1, <2>3 DEF TriggerWake
  <2>4. CASE TakeTask(w) \/ DropTask(w) \/ BeginTask(w) \/ WorkerExit(w)
    <3>1. UNCHANGED <<completions, active>>
      BY <2>4 DEF TakeTask, DropTask, BeginTask, WorkerExit, kqVars
    <3>2. \A v \in Workers : worker[v].at = "wake" => worker'[v].at = "wake"
      BY <2>1, <2>4 DEF TakeTask, DropTask, BeginTask, WorkerExit
    <3> QED BY <2>1, <3>1, <3>2
  <2> QED BY <1>3, <2>2, <2>3, <2>4 DEF WorkerStep
<1>4. CASE Run
  <2>1. DOMAIN conns = {} /\ kqOpen
    BY <1>4 DEF Run, Inv, Work, OpenUntilTornDown
  <2>2. \A i \in DOMAIN completions : completions[i] \in Result
    BY ElementOfSeq, LenProperties DEF Inv, TypeInv, TypeOK
  <2>3. completions = <<>>
    <3> SUFFICES ASSUME completions # <<>> PROVE FALSE
      OBVIOUS
    <3>1. 1 \in DOMAIN completions
      BY TailElements DEF Inv, TypeInv, TypeOK
    <3>2. completions[1].fd \in Fds
      BY <2>2, <3>1 DEF Result
    <3> QED BY <2>1, <3>1, <3>2, NothingOwed
  <2> QED BY <1>4, <2>1, <2>3 DEF Run, poolVars
<1>5. CASE LeaveLoop \/ Poll \/ PollFails
  BY <1>5 DEF LeaveLoop, Poll, PollFails
<1>6. CASE TakeUser \/ TakeSignal \/ TakeListen \/ EndOfBatch
           \/ \E f \in Fds : TakeRead(f) \/ TakeWrite(f)
  <2>1. pc' \notin {"constructed", "poll"}
    BY <1>6 DEF TakeUser, TakeSignal, TakeListen, EndOfBatch, TakeRead, TakeWrite, NextEvent
  <2> QED BY <2>1
<1>7. CASE Accept \/ StopAccepting \/ AcceptAborted \/ ReceiveEnd \/ ReceiveAgain
           \/ SendSome \/ SendAgain \/ SendEnd
  BY <1>7 DEF Accept, StopAccepting, AcceptAborted, ReceiveEnd, ReceiveAgain, SendSome,
     SendAgain, SendEnd, BackToEvents, loopVars
<1>8. CASE Receive
  BY <1>8 DEF Receive, Dispatch, Reject, KeepReading, BackToEvents
<1>9. CASE DrainOne
  BY <1>9 DEF DrainOne, loopVars
<1>10. CASE DrainEnd
  BY <1>10 DEF DrainEnd, poolVars
<1>11. CASE Stop \/ DeliverSignal
  BY <1>11 DEF Stop, DeliverSignal, loopVars, poolVars
<1>12. CASE BeginTeardown \/ EndTeardown
  BY <1>12 DEF BeginTeardown, EndTeardown
<1> QED BY <1>1, <1>2, <1>3, <1>4, <1>5, <1>6, <1>7, <1>8, <1>9, <1>10, <1>11, <1>12
        DEF Next, ReactorStep, HandlerStep

\* No completion is left to the poll timeout: the reactor does not go back to
\* kevent() with a completion queued unless a wake-up is waiting or coming.
THEOREM CompletionsAreAnnounced == Spec => []CompletionWillBeSeen
<1>1. Init => Awake
  BY DEF Init, Awake, NothingBeforeRun, CompletionWillBeSeen
<1>2. Awake => CompletionWillBeSeen
  BY DEF Awake
<1> QED BY InvAlways, StepAwake, <1>1, <1>2, PTL DEF Spec

-----------------------------------------------------------------------------
(* Which connection belongs to which client: no edge is lost, and the      *)
(* reactor implements GatewayService.                                      *)

\* A client has one connection, in the backlog or in connections_.
Owners ==
    /\ \A f \in DOMAIN conns : phase[conns[f].client] = "open"
    /\ \A f, g \in DOMAIN conns : conns[f].client = conns[g].client => f = g
    /\ \A i \in DOMAIN backlog : phase[backlog[i]] = "backlog"
    /\ \A i, j \in DOMAIN backlog : backlog[i] = backlog[j] => i = j

LEMMA ConnectionTypes ==
    ASSUME TypeInv
    PROVE  /\ \A f \in DOMAIN conns : f \in Fds /\ conns[f].client \in Clients
           /\ \A i \in DOMAIN backlog : backlog[i] \in Clients
           /\ \A c \in Clients : FdOf(c) \subseteq DOMAIN conns
<1>1. \A i \in DOMAIN backlog : backlog[i] \in Clients
  BY ElementOfSeq, LenProperties DEF TypeInv, TypeOK
<1> QED BY <1>1 DEF TypeInv, TypeOK, Connection, FdOf

LEMMA OwnersKept ==
    ASSUME Owners, UNCHANGED <<phase, backlog>>, DOMAIN conns' = DOMAIN conns,
           \A f \in DOMAIN conns : conns'[f].client = conns[f].client
    PROVE  Owners'
BY DEF Owners

\* What the operations on one connection leave of the others.
LEMMA ReceiveFrame ==
    ASSUME TypeInv, Receive
    PROVE  /\ cur \in DOMAIN conns /\ DOMAIN conns' = DOMAIN conns
           /\ \A f \in DOMAIN conns \ {cur} : conns'[f] = conns[f]
           /\ conns'[cur].client = conns[cur].client
           /\ \/ Dispatch(cur) /\ conns'[cur].awaiting
              \/ Reject(cur) /\ conns'[cur].awaiting = conns[cur].awaiting
              \/ (\E full \in BOOLEAN : KeepReading(full)) /\ conns' = conns
<1>1. cur \in DOMAIN conns /\ conns[cur] \in Connection
  BY DEF Receive, TypeInv, TypeOK, CurrentExists
<1>2. Dispatch(cur) \/ Reject(cur) \/ \E full \in BOOLEAN : KeepReading(full)
  BY DEF Receive
<1>3. CASE Dispatch(cur)
  BY <1>1, <1>3 DEF Dispatch, Connection
<1>4. CASE Reject(cur)
  BY <1>1, <1>4 DEF Reject, Connection
<1>5. CASE \E full \in BOOLEAN : KeepReading(full)
  BY <1>1, <1>5 DEF KeepReading
<1> QED BY <1>2, <1>3, <1>4, <1>5

LEMMA SendFrame ==
    ASSUME TypeInv, SendSome
    PROVE  /\ cur \in DOMAIN conns /\ DOMAIN conns' = DOMAIN conns
           /\ \A f \in DOMAIN conns : /\ conns'[f].client = conns[f].client
                                      /\ conns'[f].awaiting = conns[f].awaiting
BY DEF SendSome, TypeInv, TypeOK, CurrentExists, Connection

LEMMA DrainFrame ==
    ASSUME Inv, DrainOne
    PROVE  LET r == Head(completions) IN
           /\ r.fd \in DOMAIN conns /\ r.fd \in Fds
           /\ DOMAIN conns' = DOMAIN conns
           /\ \A f \in DOMAIN conns \ {r.fd} : conns'[f] = conns[f]
           /\ conns'[r.fd].client = conns[r.fd].client
           /\ conns[r.fd].awaiting /\ ~conns'[r.fd].awaiting
           /\ armed' = armed \cup {<<"WRITE", r.fd>>}
           /\ active' = IF Writable(conns[r.fd].client)
                        THEN active \cup {<<"WRITE", r.fd>>} ELSE active
<1> DEFINE r == Head(completions)
<1>1. /\ r \in Result /\ r.fd \in DOMAIN conns /\ r.fd \in Fds
      /\ conns[r.fd].client = r.client /\ conns[r.fd].awaiting
      /\ conns[r.fd] \in Connection
  BY HeadIsAwaited DEF DrainOne, Inv, TypeInv, TypeOK
<1>2. /\ DOMAIN conns' = DOMAIN conns
      /\ \A f \in DOMAIN conns \ {r.fd} : conns'[f] = conns[f]
      /\ conns'[r.fd] = [[[conns[r.fd] EXCEPT !.awaiting = FALSE]
                                       EXCEPT !.unsent = r.size]
                                       EXCEPT !.replyTo = r.client]
      /\ armed' = armed \cup {<<"WRITE", r.fd>>}
      /\ active' = IF Writable(conns[r.fd].client)
                   THEN active \cup {<<"WRITE", r.fd>>} ELSE active
  BY <1>1 DEF DrainOne
<1>3. conns'[r.fd].client = conns[r.fd].client /\ ~conns'[r.fd].awaiting
  BY <1>1, <1>2 DEF Connection
<1> QED BY <1>1, <1>2, <1>3

LEMMA AcceptFrame ==
    ASSUME TypeInv, Accept
    PROVE  \E f \in Fds \ DOMAIN conns :
             /\ DOMAIN conns' = DOMAIN conns \cup {f}
             /\ \A g \in DOMAIN conns : conns'[g] = conns[g]
             /\ conns'[f] = NewConnection(Head(backlog))
             /\ 1 \in DOMAIN backlog /\ backlog[1] = Head(backlog) /\ Head(backlog) \in Clients
             /\ phase' = [phase EXCEPT ![Head(backlog)] = "open"]
             /\ backlog' = Tail(backlog)
             /\ armed' = armed \cup {<<"READ", f>>}
             /\ active' = IF Readable(Head(backlog)) THEN active \cup {<<"READ", f>>}
                                                      ELSE active
<1>1. PICK f \in FreeFds :
        /\ conns' = [g \in DOMAIN conns \cup {f} |->
                       IF g = f THEN NewConnection(Head(backlog)) ELSE conns[g]]
        /\ phase' = [phase EXCEPT ![Head(backlog)] = "open"]
        /\ backlog' = Tail(backlog)
        /\ armed' = armed \cup {<<"READ", f>>}
        /\ active' = IF Readable(Head(backlog)) THEN active \cup {<<"READ", f>>}
                                               ELSE active
  BY DEF Accept
<1>2. 1 \in DOMAIN backlog /\ backlog[1] = Head(backlog) /\ Head(backlog) \in Clients
  BY TailElements DEF Accept, TypeInv, TypeOK
<1>3. f \in Fds \ DOMAIN conns
  BY DEF FreeFds
<1>4. /\ DOMAIN conns' = DOMAIN conns \cup {f}
      /\ \A g \in DOMAIN conns : conns'[g] = conns[g]
      /\ conns'[f] = NewConnection(Head(backlog))
  BY <1>1, <1>3
<1> QED BY <1>1, <1>2, <1>3, <1>4

LEMMA StepOwners ==
    ASSUME Inv, Owners, [Next]_vars
    PROVE  Owners'
<1>1. CASE UNCHANGED vars
  BY <1>1, OwnersKept DEF vars, netVars
<1>2. ASSUME NEW c \in Clients, ClientStep(c) PROVE Owners'
  <2>1. CASE Connect(c)
    <3>1. /\ phase[c] = "away" /\ phase' = [phase EXCEPT ![c] = "backlog"]
          /\ backlog' = Append(backlog, c) /\ UNCHANGED conns
      BY <2>1 DEF Connect
    <3>2. /\ backlog \in Seq(Clients) /\ phase'[c] = "backlog"
          /\ \A d \in Clients \ {c} : phase'[d] = phase[d]
      BY <3>1 DEF Inv, TypeInv, TypeOK
    <3>3. \A i \in DOMAIN backlog' :
            \/ i \in DOMAIN backlog /\ backlog'[i] = backlog[i]
            \/ i \notin DOMAIN backlog /\ i = Len(backlog) + 1 /\ backlog'[i] = c
      BY <3>1, <3>2, AppendElements
    <3> QED BY <3>1, <3>2, <3>3, ConnectionTypes DEF Owners, Inv
  <2>2. CASE ~Connect(c)
    BY <1>2, <2>2, OwnersKept DEF ClientStep, SendPiece, ShutDownSending, ResetConnection,
       ReadReply
  <2> QED BY <2>1, <2>2
<1>3. ASSUME NEW w \in Workers, WorkerStep(w) PROVE Owners'
  BY <1>3, OwnersKept DEF WorkerStep, TakeTask, DropTask, BeginTask, PushCompletion,
     TriggerWake, WorkerExit, netVars
<1>4. CASE \/ Run \/ LeaveLoop \/ Poll \/ PollFails
           \/ TakeUser \/ TakeSignal \/ TakeListen \/ EndOfBatch
           \/ \E f \in Fds : TakeRead(f) \/ TakeWrite(f)
  BY <1>4, OwnersKept DEF Run, LeaveLoop, Poll, PollFails, TakeUser, TakeSignal, TakeListen,
     EndOfBatch, TakeRead, TakeWrite, netVars
<1>5. CASE StopAccepting \/ ReceiveAgain \/ SendAgain \/ DrainEnd
           \/ Stop \/ DeliverSignal \/ BeginTeardown
  BY <1>5, OwnersKept DEF StopAccepting, ReceiveAgain, SendAgain, DrainEnd, Stop,
     DeliverSignal, BeginTeardown, netVars
<1>6. CASE Receive
  BY <1>6, ReceiveFrame, OwnersKept DEF Inv, Receive
<1>7. CASE SendSome
  BY <1>7, SendFrame, OwnersKept DEF Inv, SendSome
<1>8. CASE DrainOne
  BY <1>8, DrainFrame, OwnersKept DEF DrainOne, netVars
<1>9. CASE Accept
  <2> DEFINE c == Head(backlog)
  <2>1. PICK f \in Fds \ DOMAIN conns :
          /\ DOMAIN conns' = DOMAIN conns \cup {f}
          /\ \A g \in DOMAIN conns : conns'[g] = conns[g]
          /\ conns'[f] = NewConnection(c)
          /\ 1 \in DOMAIN backlog /\ backlog[1] = c /\ c \in Clients
          /\ phase' = [phase EXCEPT ![c] = "open"]
          /\ backlog' = Tail(backlog)
    BY <1>9, AcceptFrame DEF Inv
  <2>2. phase'[c] = "open" /\ \A d \in Clients \ {c} : phase'[d] = phase[d]
    BY <2>1 DEF Inv, TypeInv, TypeOK
  <2>3. conns'[f].client = c
    BY <2>1 DEF NewConnection
  <2>4. \A i \in DOMAIN backlog' : /\ i \in Nat /\ i + 1 # 1 /\ i + 1 \in DOMAIN backlog
                                   /\ backlog'[i] = backlog[i + 1]
    BY <1>9, <2>1, TailElements DEF Accept, Inv, TypeInv, TypeOK
  <2>5. \A g \in DOMAIN conns : conns[g].client # c
    BY <2>1 DEF Owners
  <2> QED BY <2>1, <2>2, <2>3, <2>4, <2>5, ConnectionTypes DEF Owners, Inv
<1>10. CASE ReceiveEnd \/ SendEnd
  <2>1. /\ CloseConnection(cur) /\ UNCHANGED backlog /\ cur \in DOMAIN conns
        /\ pc \in {"reading", "writing"}
    BY <1>10 DEF ReceiveEnd, SendEnd, Inv, TypeInv, CurrentExists
  <2>2. /\ DOMAIN conns' = DOMAIN conns \ {cur}
        /\ \A f \in DOMAIN conns' : conns'[f] = conns[f]
    BY <2>1, CloseTypes DEF Inv
  <2>3. \A d \in Clients \ {conns[cur].client} : phase'[d] = phase[d]
    BY <2>1 DEF CloseConnection, Inv, TypeInv, TypeOK
  <2> QED BY <2>1, <2>2, <2>3, ConnectionTypes DEF Owners, Inv
<1>11. CASE EndTeardown
  BY <1>11 DEF EndTeardown, Restrict, Owners
<1>12. CASE AcceptAborted
  <2>1. PICK c \in Clients :
          /\ 1 \in DOMAIN backlog /\ backlog[1] = c
          /\ phase' = [phase EXCEPT ![c] = "closed"]
          /\ backlog \in Seq(Clients) /\ backlog # <<>> /\ backlog' = Tail(backlog)
          /\ UNCHANGED conns
    BY <1>12, AbortFrame DEF AcceptAborted, Inv, TypeInv, TypeOK
  <2>2. phase'[c] = "closed" /\ \A d \in Clients \ {c} : phase'[d] = phase[d]
    BY <2>1 DEF Inv, TypeInv, TypeOK
  <2>3. \A i \in DOMAIN backlog' : /\ i \in Nat /\ i + 1 # 1 /\ i + 1 \in DOMAIN backlog
                                   /\ backlog'[i] = backlog[i + 1]
    BY <2>1, TailElements
  <2>4. \A g \in DOMAIN conns : conns[g].client # c
    BY <2>1 DEF Owners
  <2> QED BY <2>1, <2>2, <2>3, <2>4, ConnectionTypes DEF Owners, Inv
<1> QED BY <1>1, <1>2, <1>3, <1>4, <1>5, <1>6, <1>7, <1>8, <1>9, <1>10, <1>11, <1>12
        DEF Next, ReactorStep, HandlerStep

-----------------------------------------------------------------------------
(* A connection that awaits a response has one on its way.                 *)

OnItsWay(f) == Owed(f, conns[f].client)

\* Steps after which nothing new is awaited, by another client or of other work.
LEMMA AwaitedKept ==
    ASSUME AwaitedIsOnItsWay, abandoning => abandoning',
           \A f \in DOMAIN conns' : conns'[f].awaiting =>
               /\ f \in DOMAIN conns /\ conns[f].awaiting
               /\ conns'[f].client = conns[f].client
               /\ \A c : Owed(f, c) => abandoning' \/ Owed(f, c)'
    PROVE  AwaitedIsOnItsWay'
<1>1. ASSUME NEW f \in DOMAIN conns', conns'[f].awaiting
      PROVE  abandoning' \/ OnItsWay(f)'
  <2>1. PICK c : c = conns[f].client
    OBVIOUS
  <2>2. conns[f].awaiting /\ f \in DOMAIN conns /\ conns'[f].client = c
    BY <1>1, <2>1
  <2>3. abandoning \/ Owed(f, c)
    BY <2>1, <2>2 DEF AwaitedIsOnItsWay
  <2>4. abandoning' \/ Owed(f, c)'
    BY <1>1, <2>3
  <2> QED BY <2>2, <2>4 DEF OnItsWay, Owed
<1> QED BY <1>1 DEF AwaitedIsOnItsWay, OnItsWay

LEMMA OwedKept ==
    ASSUME UNCHANGED <<tasks, completions>>, NEW f, NEW c, Owed(f, c),
           \A w \in Workers : Busy(w) => Busy(w)' /\ worker'[w].task = worker[w].task
    PROVE  Owed(f, c)'
BY DEF Owed

LEMMA ReceiveAwaited ==
    ASSUME Inv, AwaitedIsOnItsWay, Receive
    PROVE  AwaitedIsOnItsWay'
<1> DEFINE c == conns[cur].client
<1>1. /\ cur \in DOMAIN conns /\ DOMAIN conns' = DOMAIN conns
      /\ \A f \in DOMAIN conns \ {cur} : conns'[f] = conns[f]
      /\ conns'[cur].client = c
  BY ReceiveFrame DEF Inv
<1>2. UNCHANGED <<completions, worker, abandoning>> /\ pc = "reading"
  BY DEF Receive
<1>3. ~conns[cur].awaiting
  BY <1>1, <1>2 DEF Inv, Filters, OneModePerConnection, EventsAreCurrent
<1>4. \/ Dispatch(cur)
      \/ Reject(cur) \/ \E full \in BOOLEAN : KeepReading(full)
  BY DEF Receive
<1>5. CASE Dispatch(cur)
  <2>1. PICK t : t = [fd |-> cur, client |-> c]
    OBVIOUS
  <2>2. t \in Task /\ tasks \in Seq(Task) /\ tasks' = Append(tasks, t)
    BY <1>1, <1>5, <2>1, ConnectionTypes DEF Dispatch, Task, Inv, TypeInv, TypeOK
  <2>3. /\ \A i \in DOMAIN tasks : i \in DOMAIN tasks' /\ tasks'[i] = tasks[i]
        /\ Len(tasks) + 1 \in DOMAIN tasks' /\ tasks'[Len(tasks) + 1] = t
    BY <2>2, AppendProperties, LenProperties
  <2>4. \A f : f = cur => OnItsWay(f)'
    BY <1>1, <2>1, <2>3 DEF OnItsWay, Owed
  <2>5. ASSUME NEW f, NEW d, Owed(f, d) PROVE Owed(f, d)'
    <3>1. \A i \in DOMAIN tasks : tasks[i] = [fd |-> f, client |-> d]
              => i \in DOMAIN tasks' /\ tasks'[i] = [fd |-> f, client |-> d]
      BY <2>3
    <3>2. \A w \in Workers : Busy(w) => Busy(w)' /\ worker'[w] = worker[w]
      BY <1>2 DEF Busy
    <3> QED BY <1>2, <2>5, <3>1, <3>2 DEF Owed
  <2>6. ASSUME NEW f \in DOMAIN conns', conns'[f].awaiting
        PROVE  abandoning' \/ OnItsWay(f)'
    <3>1. CASE f = cur
      BY <2>4, <3>1
    <3>2. CASE f # cur
      <4>1. PICK d : d = conns[f].client
        OBVIOUS
      <4>2. conns'[f] = conns[f] /\ f \in DOMAIN conns
        BY <1>1, <2>6, <3>2
      <4>3. abandoning \/ Owed(f, d)
        BY <2>6, <4>1, <4>2 DEF AwaitedIsOnItsWay
      <4>4. abandoning' \/ Owed(f, d)'
        BY <1>2, <2>5, <4>3
      <4> QED BY <4>1, <4>2, <4>4 DEF OnItsWay, Owed
    <3> QED BY <3>1, <3>2
  <2> QED BY <2>6 DEF AwaitedIsOnItsWay, OnItsWay
<1>6. CASE Reject(cur) \/ \E full \in BOOLEAN : KeepReading(full)
  <2>1. UNCHANGED tasks /\ ~conns'[cur].awaiting
    <3>1. ASSUME Reject(cur) PROVE UNCHANGED tasks /\ ~conns'[cur].awaiting
      BY <1>1, <1>3, <3>1 DEF Reject, Inv, TypeInv, TypeOK, Connection
    <3>2. ASSUME NEW full \in BOOLEAN, KeepReading(full)
          PROVE  UNCHANGED tasks /\ ~conns'[cur].awaiting
      BY <1>3, <3>2 DEF KeepReading
    <3> QED BY <1>6, <3>1, <3>2
  <2>2. \A w \in Workers : Busy(w) => Busy(w)' /\ worker'[w].task = worker[w].task
    BY <1>2 DEF Busy
  <2>3. ASSUME NEW f, NEW d, Owed(f, d) PROVE Owed(f, d)'
    BY <1>2, <2>1, <2>2, <2>3, OwedKept
  <2> QED BY <1>1, <1>2, <2>1, <2>3, AwaitedKept
<1> QED BY <1>4, <1>5, <1>6

LEMMA DrainAwaited ==
    ASSUME Inv, AwaitedIsOnItsWay, DrainOne
    PROVE  AwaitedIsOnItsWay'
<1> DEFINE r == Head(completions)
<1>1. /\ r.fd \in DOMAIN conns /\ DOMAIN conns' = DOMAIN conns
      /\ \A f \in DOMAIN conns \ {r.fd} : conns'[f] = conns[f]
      /\ ~conns'[r.fd].awaiting
  BY DrainFrame
<1>2. UNCHANGED <<tasks, worker, abandoning>> /\ completions' = Tail(completions)
  BY DEF DrainOne
<1>3. completions \in Seq(Result) /\ completions # <<>>
  BY DEF DrainOne, Inv, TypeInv, TypeOK
<1>4. ASSUME NEW i \in DOMAIN completions, completions[i].fd # r.fd
      PROVE  i - 1 \in DOMAIN completions' /\ completions'[i - 1] = completions[i]
  <2>1. /\ Len(completions') = Len(completions) - 1 /\ Len(completions) \in Nat
        /\ \A j \in 1 .. Len(completions') : completions'[j] = completions[j + 1]
        /\ DOMAIN completions = 1 .. Len(completions)
        /\ DOMAIN completions' = 1 .. Len(completions')
    BY <1>2, <1>3, HeadTailProperties, LenProperties
  <2>2. i # 1
    BY <1>3, <1>4, HeadTailProperties
  <2>3. i \in Nat /\ i - 1 \in 1 .. Len(completions') /\ (i - 1) + 1 = i
    BY <2>1, <2>2
  <2> QED BY <2>1, <2>3
<1>5. ASSUME NEW f, f # r.fd, NEW c, Owed(f, c) PROVE Owed(f, c)'
  BY <1>2, <1>4, <1>5 DEF Owed, Busy
<1> QED BY <1>1, <1>2, <1>5, AwaitedKept

LEMMA WorkerAwaited ==
    ASSUME Inv, AwaitedIsOnItsWay, NEW w \in Workers, WorkerStep(w)
    PROVE  AwaitedIsOnItsWay'
<1>1. worker \in [Workers -> WorkerState]
  BY DEF Inv, TypeInv, TypeOK
<1>2. UNCHANGED <<conns, abandoning>> /\ \A v \in Workers \ {w} : worker'[v] = worker[v]
  BY <1>1 DEF WorkerStep, TakeTask, DropTask, BeginTask, PushCompletion, TriggerWake,
     WorkerExit
<1> SUFFICES ASSUME NEW f, NEW c, Owed(f, c) PROVE abandoning' \/ Owed(f, c)'
  BY <1>2, AwaitedKept
<1>3. \A v \in Workers \ {w} : Busy(v)' = Busy(v)
  BY <1>2 DEF Busy
<1>4. CASE TakeTask(w)
  <2>1. /\ tasks \in Seq(Task) /\ tasks # <<>> /\ tasks' = Tail(tasks)
        /\ UNCHANGED completions
    BY <1>4 DEF TakeTask, Inv, TypeInv, TypeOK
  <2>2. Busy(w)' /\ worker'[w].task = tasks[1] /\ ~Busy(w)
    BY <1>1, <1>4, <2>1, HeadTailProperties DEF TakeTask, Busy
  <2>3. ASSUME NEW i \in DOMAIN tasks, i # 1
        PROVE  i - 1 \in DOMAIN tasks' /\ tasks'[i - 1] = tasks[i]
    <3>1. /\ Len(tasks') = Len(tasks) - 1 /\ Len(tasks) \in Nat
          /\ \A j \in 1 .. Len(tasks') : tasks'[j] = tasks[j + 1]
          /\ DOMAIN tasks = 1 .. Len(tasks) /\ DOMAIN tasks' = 1 .. Len(tasks')
      BY <2>1, HeadTailProperties, LenProperties
    <3>2. i \in Nat /\ i - 1 \in 1 .. Len(tasks') /\ (i - 1) + 1 = i
      BY <2>3, <3>1
    <3> QED BY <3>1, <3>2
  <2> QED BY <1>2, <1>3, <2>1, <2>2, <2>3 DEF Owed
<1>5. CASE PushCompletion(w)
  <2> DEFINE t == worker[w].task
  <2>1. UNCHANGED tasks /\ Busy(w) /\ t \in Task
    BY <1>5 DEF PushCompletion, Busy, Inv, TypeInv, BusyHasTask
  <2>2. PICK n \in {0, ReplySize} :
          completions' = Append(completions, [fd |-> t.fd, client |-> t.client, size |-> n])
    BY <1>5 DEF PushCompletion
  <2> DEFINE r == [fd |-> t.fd, client |-> t.client, size |-> n]
  <2>3. r \in Result /\ completions \in Seq(Result)
    BY <2>1 DEF Task, Result, Inv, TypeInv, TypeOK
  <2>4. /\ \A i \in DOMAIN completions : i \in DOMAIN completions'
                                         /\ completions'[i] = completions[i]
        /\ Len(completions) + 1 \in DOMAIN completions'
        /\ completions'[Len(completions) + 1] = r
    <3>1. completions' = Append(completions, r)
      BY <2>2
    <3> HIDE DEF r
    <3> QED BY <2>3, <3>1, AppendProperties, LenProperties
  <2>5. r.fd = t.fd /\ r.client = t.client
    OBVIOUS
  <2>6. CASE worker[w].task = [fd |-> f, client |-> c]
    <3> HIDE DEF r
    <3> QED BY <2>4, <2>5, <2>6 DEF Owed
  <2>7. CASE worker[w].task # [fd |-> f, client |-> c]
    <3> HIDE DEF r
    <3> QED BY <1>2, <1>3, <2>1, <2>4, <2>7 DEF Owed
  <2> QED BY <2>6, <2>7
<1>6. CASE BeginTask(w) \/ TriggerWake(w) \/ WorkerExit(w)
  <2>1. UNCHANGED <<tasks, completions>>
    BY <1>6 DEF BeginTask, TriggerWake, WorkerExit
  <2>2. Busy(w) => Busy(w)' /\ worker'[w].task = worker[w].task
    BY <1>1, <1>6 DEF BeginTask, TriggerWake, WorkerExit, Busy, WorkerState
  <2> QED BY <1>2, <1>3, <2>1, <2>2, OwedKept
<1>7. CASE DropTask(w)
  BY <1>2, <1>7 DEF DropTask
<1> QED BY <1>4, <1>5, <1>6, <1>7 DEF WorkerStep

LEMMA StepAwaited == Inv /\ AwaitedIsOnItsWay /\ [Next]_vars => AwaitedIsOnItsWay'
<1> SUFFICES ASSUME Inv, AwaitedIsOnItsWay, [Next]_vars PROVE AwaitedIsOnItsWay'
  OBVIOUS
<1>1. ASSUME UNCHANGED <<tasks, completions, worker>>, abandoning => abandoning',
             \A f \in DOMAIN conns' : conns'[f].awaiting =>
                 /\ f \in DOMAIN conns /\ conns[f].awaiting
                 /\ conns'[f].client = conns[f].client
      PROVE  AwaitedIsOnItsWay'
  <2>1. \A w \in Workers : Busy(w) => Busy(w)' /\ worker'[w].task = worker[w].task
    BY <1>1 DEF Busy
  <2>2. ASSUME NEW f, NEW c, Owed(f, c) PROVE Owed(f, c)'
    BY <1>1, <2>1, <2>2, OwedKept
  <2> QED BY <1>1, <2>2, AwaitedKept
<1>2. CASE UNCHANGED vars
  BY <1>1, <1>2 DEF vars, poolVars
<1>3. ASSUME NEW c \in Clients, ClientStep(c) PROVE AwaitedIsOnItsWay'
  BY <1>1, <1>3 DEF ClientStep, Connect, SendPiece, ShutDownSending, ResetConnection,
     ReadReply, poolVars
<1>4. CASE \/ Run \/ LeaveLoop \/ Poll \/ PollFails
           \/ TakeUser \/ TakeSignal \/ TakeListen \/ EndOfBatch
           \/ \E f \in Fds : TakeRead(f) \/ TakeWrite(f)
  BY <1>1, <1>4 DEF Run, LeaveLoop, Poll, PollFails, TakeUser, TakeSignal, TakeListen,
     EndOfBatch, TakeRead, TakeWrite, poolVars
<1>5. CASE \/ StopAccepting \/ AcceptAborted \/ ReceiveAgain \/ SendAgain \/ DrainEnd
           \/ Stop \/ DeliverSignal
  BY <1>1, <1>5 DEF StopAccepting, AcceptAborted, ReceiveAgain, SendAgain, DrainEnd, Stop, DeliverSignal,
     poolVars
<1>6. CASE Accept
  <2>1. UNCHANGED poolVars
    BY <1>6 DEF Accept
  <2>2. PICK f \in Fds \ DOMAIN conns :
          /\ DOMAIN conns' = DOMAIN conns \cup {f}
          /\ \A g \in DOMAIN conns : conns'[g] = conns[g]
          /\ conns'[f] = NewConnection(Head(backlog))
    BY <1>6, AcceptFrame DEF Inv
  <2>3. ~conns'[f].awaiting
    BY <2>2 DEF NewConnection
  <2> QED BY <1>1, <2>1, <2>2, <2>3 DEF poolVars
<1>7. CASE ReceiveEnd \/ SendEnd
  <2>1. UNCHANGED poolVars /\ CloseConnection(cur) /\ pc \in {"reading", "writing"}
    BY <1>7 DEF ReceiveEnd, SendEnd
  <2>2. /\ DOMAIN conns' = DOMAIN conns \ {cur}
        /\ \A f \in DOMAIN conns' : conns'[f] = conns[f]
    BY <2>1, CloseTypes DEF Inv
  <2> QED BY <1>1, <2>1, <2>2 DEF poolVars
<1>8. CASE SendSome
  <2>1. UNCHANGED poolVars
    BY <1>8 DEF SendSome
  <2> QED BY <1>1, <1>8, <2>1, SendFrame DEF poolVars, Inv
<1>9. CASE BeginTeardown
  BY <1>1, <1>9 DEF BeginTeardown
<1>10. CASE EndTeardown
  <2>1. DOMAIN conns' = {}
    BY <1>10 DEF EndTeardown, Restrict
  <2> QED BY <2>1 DEF AwaitedIsOnItsWay
<1>11. ASSUME NEW w \in Workers, WorkerStep(w) PROVE AwaitedIsOnItsWay'
  BY <1>11, WorkerAwaited
<1> QED BY <1>2, <1>3, <1>4, <1>5, <1>6, <1>7, <1>8, <1>9, <1>10, <1>11, ReceiveAwaited,
           DrainAwaited DEF Next, ReactorStep, HandlerStep

\* A connection awaits a response exactly when one, and only one, is on its way to it
\* through dispatchToThreadPool(), a worker and drainCompletionQueue(): its descriptor
\* is not closed meanwhile, and no task and no result is lost or doubled.
THEOREM WorkIsMatched == Spec => []WorkMatchesConnection
<1>1. Init => AwaitedIsOnItsWay
  BY DEF Init, AwaitedIsOnItsWay
<1>2. Inv /\ AwaitedIsOnItsWay => WorkMatchesConnection
  BY DEF Inv, Work, WorkMatchesConnection
<1> QED BY InvAlways, StepAwaited, <1>1, <1>2, PTL DEF Spec

-----------------------------------------------------------------------------
(* Edges.                                                                  *)

\* One connection's part of NoLostEdge.
NoticedFor(f, kind, at) == <<kind, f>> \in active \cup batch \/ (pc = at /\ cur = f)
EdgeFor(f) ==
    LET c == conns[f].client
    IN /\ Reading(f) /\ (unread[c] # <<>> \/ reset[c]) => NoticedFor(f, "READ", "reading")
       /\ Writing(f) /\ Writable(c) => NoticedFor(f, "WRITE", "writing")

LEMMA EdgeForEach ==
    /\ NoLostEdge <=> \A f \in DOMAIN conns : EdgeFor(f)
    /\ NoLostEdge' <=> \A f \in DOMAIN conns' : EdgeFor(f)'
BY DEF NoLostEdge, EdgeFor, NoticedFor

\* A connection whose socket, filters and client do not change keeps its edge as
\* long as its events stay where they are.
LEMMA EdgeKept ==
    ASSUME NEW f, EdgeFor(f),
           NEW c, conns[f].client = c, conns'[f].client = c,
           unread'[c] = unread[c], reset'[c] = reset[c], sndbuf'[c] = sndbuf[c],
           <<"READ", f>> \in armed' => <<"READ", f>> \in armed,
           <<"WRITE", f>> \in armed' => <<"WRITE", f>> \in armed,
           <<"READ", f>> \in active \cup batch => <<"READ", f>> \in active' \cup batch',
           <<"WRITE", f>> \in active \cup batch => <<"WRITE", f>> \in active' \cup batch',
           pc \in {"reading", "writing"} /\ cur = f => pc' = pc /\ cur' = f
    PROVE  EdgeFor(f)'
BY DEF EdgeFor, NoticedFor, Reading, Writing, Writable

LEMMA ClientEdges ==
    ASSUME Inv, Owners, NoLostEdge, NEW c \in Clients, ClientStep(c)
    PROVE  NoLostEdge'
<1>0. UNCHANGED conns
  BY DEF ClientStep, Connect, SendPiece, ShutDownSending, ResetConnection, ReadReply
<1>1. SUFFICES ASSUME NEW f \in DOMAIN conns PROVE EdgeFor(f)'
  BY <1>0, EdgeForEach
<1>2. EdgeFor(f) /\ f \in Fds /\ conns[f].client \in Clients
  BY EdgeForEach, ConnectionTypes DEF Inv
<1>3. UNCHANGED <<conns, armed, batch, pc, cur>> /\ active \subseteq active'
  BY DEF ClientStep, Connect, SendPiece, ShutDownSending, ResetConnection, ReadReply, Raise,
     loopVars
<1>4. CASE conns[f].client # c \/ Connect(c) \/ ShutDownSending(c)
  <2>1. LET d == conns[f].client
        IN unread'[d] = unread[d] /\ reset'[d] = reset[d] /\ sndbuf'[d] = sndbuf[d]
    BY <1>2, <1>4 DEF ClientStep, Connect, SendPiece, ShutDownSending, ResetConnection,
       ReadReply, Inv, TypeInv, TypeOK
  <2> QED BY <1>2, <1>3, <2>1, EdgeKept DEF Reading, Writing
<1>5. CASE conns[f].client = c
  <2>1. f \in FdOf(c)
    BY <1>5 DEF FdOf
  <2>2. ASSUME NEW p \in Piece, SendPiece(c, p) PROVE EdgeFor(f)'
    <3>1. Reading(f) => <<"READ", f>> \in active'
      BY <2>1, <2>2 DEF SendPiece, Raise, Reading
    <3>2. UNCHANGED <<reset, sndbuf>>
      BY <2>2 DEF SendPiece
    <3> QED BY <1>2, <1>3, <3>1, <3>2 DEF EdgeFor, NoticedFor, Reading, Writing, Writable
  <2>3. CASE ResetConnection(c)
    <3>1. /\ Reading(f) => <<"READ", f>> \in active'
          /\ Writing(f) => <<"WRITE", f>> \in active'
      BY <2>1, <2>3 DEF ResetConnection, Raise, Reading, Writing
    <3> QED BY <1>3, <3>1 DEF EdgeFor, NoticedFor, Reading, Writing
  <2>4. CASE ReadReply(c)
    <3>1. Writing(f) => <<"WRITE", f>> \in active'
      BY <2>1, <2>4 DEF ReadReply, Raise, Writing
    <3>2. UNCHANGED <<unread, reset>>
      BY <2>4 DEF ReadReply
    <3> QED BY <1>2, <1>3, <3>1, <3>2 DEF EdgeFor, NoticedFor, Reading, Writing
  <2> QED BY <1>4, <2>2, <2>3, <2>4 DEF ClientStep
<1> QED BY <1>4, <1>5

\* Handlers that end with the connection gone or its other filter registered.
LEMMA CloseEdges ==
    ASSUME Inv, Owners, NoLostEdge, ReceiveEnd \/ SendEnd
    PROVE  NoLostEdge'
<1>1. /\ CloseConnection(cur) /\ BackToEvents /\ UNCHANGED batch
      /\ cur \in DOMAIN conns /\ pc \in {"reading", "writing"}
  BY DEF ReceiveEnd, SendEnd, Inv, TypeInv, CurrentExists
<1>2. /\ DOMAIN conns' = DOMAIN conns \ {cur}
      /\ \A f \in DOMAIN conns' : conns'[f] = conns[f]
  BY <1>1, CloseTypes DEF Inv
<1>3. ASSUME NEW f \in DOMAIN conns' PROVE EdgeFor(f)'
  <2>1. EdgeFor(f) /\ f \in Fds /\ conns[f].client \in Clients /\ f # cur
        /\ conns[f].client # conns[cur].client
    BY <1>1, <1>2, EdgeForEach, ConnectionTypes DEF Inv, Owners
  <2>2. LET c == conns[f].client
        IN unread'[c] = unread[c] /\ reset'[c] = reset[c] /\ sndbuf'[c] = sndbuf[c]
    BY <1>1, <2>1 DEF CloseConnection, Inv, TypeInv, TypeOK
  <2>3. /\ Reading(f)' = Reading(f) /\ Writing(f)' = Writing(f)
        /\ <<"READ", f>> \in active => <<"READ", f>> \in active'
        /\ <<"WRITE", f>> \in active => <<"WRITE", f>> \in active'
    BY <1>1, <2>1 DEF CloseConnection, Disarm, Reading, Writing
  <2> QED BY <1>1, <1>2, <2>1, <2>2, <2>3, EdgeKept DEF Reading, Writing
<1> QED BY <1>3, EdgeForEach

LEMMA ReceiveEdges ==
    ASSUME Inv, Owners, NoLostEdge, Receive
    PROVE  NoLostEdge'
<1> DEFINE c == conns[cur].client
<1>1. /\ cur \in DOMAIN conns /\ DOMAIN conns' = DOMAIN conns
      /\ \A f \in DOMAIN conns \ {cur} : conns'[f] = conns[f]
      /\ conns'[cur].client = c
  BY ReceiveFrame DEF Inv
<1>2. PICK k \in 1 .. Len(unread[c]), full \in BOOLEAN :
        /\ k < Len(unread[c]) => full
        /\ unread' = [unread EXCEPT ![c] = SubSeq(@, k + 1, Len(@))]
        /\ Dispatch(cur) \/ Reject(cur) \/ KeepReading(full)
  BY DEF Receive
<1>3. /\ UNCHANGED <<reset, sndbuf, batch>> /\ ~reset[c] /\ pc = "reading"
      /\ \A d \in Clients \ {c} : unread'[d] = unread[d]
  BY <1>2 DEF Receive, Inv, TypeInv, TypeOK
<1>4. c \in Clients /\ cur \in Fds /\ Reading(cur) /\ ~Writing(cur)
  BY <1>1, <1>3, ConnectionTypes DEF Inv, Filters, EventsAreCurrent, OneModePerConnection
<1>5. ASSUME NEW f \in DOMAIN conns \ {cur} PROVE EdgeFor(f)'
  <2>1. EdgeFor(f) /\ f \in Fds /\ conns[f].client \in Clients /\ conns[f].client # c
    BY <1>1, EdgeForEach, ConnectionTypes DEF Inv, Owners
  <2>2. /\ Reading(f)' = Reading(f) /\ Writing(f)' = Writing(f)
        /\ <<"READ", f>> \in active => <<"READ", f>> \in active'
        /\ <<"WRITE", f>> \in active => <<"WRITE", f>> \in active'
    BY <1>2, <2>1 DEF Dispatch, Reject, Rearm, KeepReading, Reading, Writing
  <2> QED BY <1>1, <1>3, <2>1, <2>2, EdgeKept DEF Reading, Writing
<1>6. ASSUME NEW f, f = cur PROVE EdgeFor(f)'
  <2>1. CASE Dispatch(cur)
    BY <1>4, <1>6, <2>1 DEF Dispatch, EdgeFor, Reading, Writing
  <2>2. CASE Reject(cur)
    <3>1. /\ <<"READ", f>> \notin armed'
          /\ Writable(c) => <<"WRITE", f>> \in active'
      BY <1>6, <2>2 DEF Reject, Rearm
    <3> QED BY <1>1, <1>3, <1>6, <3>1 DEF EdgeFor, NoticedFor, Reading, Writing, Writable
  <2>3. CASE KeepReading(full)
    <3>1. UNCHANGED <<conns, armed>> /\ (full => pc' = "reading" /\ cur' = cur)
      BY <1>3, <2>3 DEF KeepReading
    <3>2. ~full => unread'[c] = <<>>
      <4> SUFFICES ASSUME ~full PROVE unread'[c] = <<>>
        OBVIOUS
      <4>1. unread[c] \in Seq(Piece) /\ Len(unread[c]) \in Nat
        BY <1>4 DEF Inv, TypeInv, TypeOK
      <4>2. k = Len(unread[c])
        BY <1>2, <4>1
      <4>3. SubSeq(unread[c], k + 1, Len(unread[c])) = <<>>
        BY <4>1, <4>2, SubSeqEmpty
      <4> QED BY <1>2, <1>4, <4>3 DEF Inv, TypeInv, TypeOK
    <3> QED BY <1>3, <1>4, <1>6, <3>1, <3>2 DEF EdgeFor, NoticedFor, Reading, Writing
  <2> QED BY <1>2, <2>1, <2>2, <2>3
<1> QED BY <1>1, <1>5, <1>6, EdgeForEach

LEMMA LoopEdges ==
    ASSUME Inv, NoLostEdge,
           \/ Run \/ LeaveLoop \/ Poll \/ PollFails
           \/ TakeUser \/ TakeSignal \/ TakeListen \/ EndOfBatch
           \/ \E f \in Fds : TakeRead(f) \/ TakeWrite(f)
    PROVE  NoLostEdge'
<1>1. UNCHANGED <<conns, armed, unread, reset, sndbuf>>
  BY DEF Run, LeaveLoop, Poll, PollFails, TakeUser, TakeSignal, TakeListen, EndOfBatch,
     TakeRead, TakeWrite, netVars, kqVars
<1>2. pc \notin {"reading", "writing"}
  BY DEF Run, LeaveLoop, Poll, PollFails, TakeUser, TakeSignal, TakeListen, EndOfBatch,
     TakeRead, TakeWrite, NextEvent
<1>3. SUFFICES ASSUME NEW f \in DOMAIN conns PROVE EdgeFor(f)'
  BY <1>1, EdgeForEach
<1>4. EdgeFor(f) /\ f \in Fds
  BY EdgeForEach, ConnectionTypes DEF Inv
<1>5. CASE TakeRead(f)
  <2>1. /\ active' = active
        /\ \A k : <<k, f>> \in batch /\ k # "READ" => <<k, f>> \in batch'
    BY <1>5 DEF TakeRead, NextEvent, kqVars
  <2>2. Reading(f) => pc' = "reading" /\ cur' = f
    BY <1>5 DEF TakeRead, Inv, Filters, OneModePerConnection
  <2> QED BY <1>1, <1>2, <1>4, <2>1, <2>2 DEF EdgeFor, NoticedFor, Reading, Writing, Writable
<1>6. CASE TakeWrite(f)
  <2>1. /\ active' = active
        /\ \A k : <<k, f>> \in batch /\ k # "WRITE" => <<k, f>> \in batch'
    BY <1>6 DEF TakeWrite, NextEvent, kqVars
  <2>2. pc' = "writing" /\ cur' = f
    BY <1>6 DEF TakeWrite
  <2> QED BY <1>1, <1>2, <1>4, <2>1, <2>2 DEF EdgeFor, NoticedFor, Reading, Writing, Writable
<1>7. CASE ~TakeRead(f) /\ ~TakeWrite(f)
  <2>1. ASSUME NEW k \in {"READ", "WRITE"}, <<k, f>> \in active \cup batch
        PROVE  <<k, f>> \in active' \cup batch'
    <3>1. CASE Run \/ LeaveLoop \/ PollFails \/ EndOfBatch
      BY <2>1, <3>1 DEF Run, LeaveLoop, PollFails, EndOfBatch, kqVars
    <3>4. CASE Poll
      <4>1. batch = {} /\ \E b : batch' = b /\ active' = active \ b
        BY <3>4 DEF Poll, Inv, Filters, BatchInLoop
      <4> QED BY <2>1, <4>1
    <3>2. CASE TakeUser \/ TakeSignal \/ TakeListen
      BY <2>1, <3>2 DEF TakeUser, TakeSignal, TakeListen, NextEvent, User, Signal, Listen, kqVars
    <3>3. ASSUME NEW g \in Fds, TakeRead(g) \/ TakeWrite(g) PROVE <<k, f>> \in active' \cup batch'
      <4>1. g # f
        BY <1>7, <3>3
      <4> QED BY <2>1, <3>3, <4>1 DEF TakeRead, TakeWrite, NextEvent, kqVars
    <3> QED BY <3>1, <3>2, <3>3, <3>4
  <2> QED BY <1>1, <1>2, <1>4, <2>1, EdgeKept
<1> QED BY <1>5, <1>6, <1>7

LEMMA StepEdges ==
    ASSUME Inv, Owners, NoLostEdge, [Next]_vars
    PROVE  NoLostEdge'
<1>1. CASE UNCHANGED <<conns, armed, active, batch, unread, reset, sndbuf, pc, cur>>
  BY <1>1 DEF NoLostEdge, Reading, Writing, Writable
<1>2. CASE UNCHANGED vars
  BY <1>1, <1>2 DEF vars, netVars, kqVars, loopVars
<1>3. ASSUME NEW w \in Workers, WorkerStep(w) PROVE NoLostEdge'
  <2>1. UNCHANGED <<conns, armed, batch, unread, reset, sndbuf, pc, cur>>
        /\ active \subseteq active'
    BY <1>3 DEF WorkerStep, TakeTask, DropTask, BeginTask, PushCompletion, TriggerWake,
       WorkerExit, netVars, kqVars, loopVars
  <2> QED BY <2>1 DEF NoLostEdge, Reading, Writing, Writable
<1>4. CASE Accept
  <2> DEFINE c == Head(backlog)
  <2>1. PICK f \in Fds \ DOMAIN conns :
          /\ DOMAIN conns' = DOMAIN conns \cup {f}
          /\ \A g \in DOMAIN conns : conns'[g] = conns[g]
          /\ conns'[f] = NewConnection(c)
          /\ armed' = armed \cup {<<"READ", f>>}
          /\ active' = IF Readable(c) THEN active \cup {<<"READ", f>>} ELSE active
    BY <1>4, AcceptFrame DEF Inv
  <2>2. UNCHANGED <<batch, unread, reset, sndbuf, pc, cur>>
    BY <1>4 DEF Accept, loopVars
  <2>3. ASSUME NEW g \in DOMAIN conns PROVE EdgeFor(g)'
    <3>1. EdgeFor(g) /\ g \in Fds /\ g # f
      BY EdgeForEach, ConnectionTypes DEF Inv
    <3> QED BY <2>1, <2>2, <3>1, EdgeKept DEF Reading, Writing
  <2>4. EdgeFor(f)'
    <3>1. <<"WRITE", f>> \notin armed' /\ conns'[f].client = c
      BY <2>1 DEF Writing, Inv, Filters, OneModePerConnection, NewConnection
    <3> QED BY <2>1, <2>2, <3>1 DEF EdgeFor, NoticedFor, Readable, Writing
  <2> QED BY <2>1, <2>3, <2>4, EdgeForEach
<1>5. CASE SendSome
  <2>1. /\ cur \in DOMAIN conns /\ DOMAIN conns' = DOMAIN conns
        /\ \A f \in DOMAIN conns : conns'[f].client = conns[f].client
    BY <1>5, SendFrame DEF Inv
  <2>2. /\ UNCHANGED <<armed, active, batch, unread, reset, pc, cur>> /\ pc = "writing"
        /\ \A d \in Clients \ {conns[cur].client} : sndbuf'[d] = sndbuf[d]
    BY <1>5 DEF SendSome, kqVars, loopVars, Inv, TypeInv, TypeOK
  <2>3. Writing(cur) /\ ~Reading(cur) /\ cur \in Fds
    BY <2>1, <2>2 DEF Inv, Filters, EventsAreCurrent, OneModePerConnection
  <2>4. ASSUME NEW f \in DOMAIN conns, f # cur PROVE EdgeFor(f)'
    <3>1. EdgeFor(f) /\ f \in Fds /\ conns[f].client \in Clients
          /\ conns[f].client # conns[cur].client
      BY <2>1, <2>4, EdgeForEach, ConnectionTypes DEF Inv, Owners
    <3> QED BY <2>1, <2>2, <3>1, EdgeKept DEF Reading, Writing
  <2>5. ASSUME NEW f, f = cur PROVE EdgeFor(f)'
    BY <2>2, <2>3, <2>5 DEF EdgeFor, NoticedFor, Reading, Writing
  <2> QED BY <2>1, <2>4, <2>5, EdgeForEach
<1>6. CASE ReceiveAgain
  <2>1. /\ UNCHANGED <<conns, armed, active, batch, unread, reset, sndbuf>>
        /\ pc = "reading" /\ ~Readable(conns[cur].client) /\ BackToEvents
    BY <1>6 DEF ReceiveAgain, netVars, kqVars
  <2>2. cur \in DOMAIN conns /\ ~Writing(cur)
    BY <2>1 DEF Inv, TypeInv, CurrentExists, Filters, EventsAreCurrent, OneModePerConnection
  <2> QED BY <2>1, <2>2 DEF NoLostEdge, Readable, Writable, Reading, Writing
<1>7. CASE SendAgain
  <2>1. /\ UNCHANGED <<conns, armed, active, batch, unread, reset, sndbuf>>
        /\ pc = "writing" /\ ~Writable(conns[cur].client) /\ BackToEvents
    BY <1>7 DEF SendAgain, netVars, kqVars
  <2>2. cur \in DOMAIN conns /\ ~Reading(cur)
    BY <2>1 DEF Inv, TypeInv, CurrentExists, Filters, EventsAreCurrent, OneModePerConnection
  <2> QED BY <2>1, <2>2 DEF NoLostEdge, Writable, Reading, Writing
<1>8. CASE DrainOne
  <2> DEFINE r == Head(completions)
  <2>1. /\ r.fd \in DOMAIN conns /\ r.fd \in Fds
        /\ DOMAIN conns' = DOMAIN conns
        /\ \A f \in DOMAIN conns \ {r.fd} : conns'[f] = conns[f]
        /\ conns'[r.fd].client = conns[r.fd].client
        /\ conns[r.fd].awaiting
        /\ armed' = armed \cup {<<"WRITE", r.fd>>}
        /\ active' = IF Writable(conns[r.fd].client)
                     THEN active \cup {<<"WRITE", r.fd>>} ELSE active
    BY <1>8, DrainFrame
  <2>2. UNCHANGED <<batch, unread, reset, sndbuf, pc, cur>>
    BY <1>8 DEF DrainOne, netVars, loopVars
  <2>3. ASSUME NEW g \in DOMAIN conns \ {r.fd} PROVE EdgeFor(g)'
    <3>1. EdgeFor(g) /\ g \in Fds
      BY EdgeForEach, ConnectionTypes DEF Inv
    <3> QED BY <2>1, <2>2, <3>1, EdgeKept DEF Reading, Writing
  <2>4. ASSUME NEW f, f = r.fd PROVE EdgeFor(f)'
    <3>1. <<"READ", f>> \notin armed'
      BY <2>1, <2>4 DEF Inv, Filters, OneModePerConnection, Reading
    <3> QED BY <2>1, <2>2, <2>4, <3>1 DEF EdgeFor, NoticedFor, Reading, Writable
  <2> QED BY <2>1, <2>3, <2>4, EdgeForEach
<1>9. CASE StopAccepting \/ AcceptAborted \/ DrainEnd \/ Stop \/ DeliverSignal \/ BeginTeardown
  <2>1. /\ UNCHANGED <<conns, armed, batch, unread, reset, sndbuf, cur>>
        /\ active \subseteq active'
        /\ pc' = pc \/ pc \notin {"reading", "writing"}
    BY <1>9 DEF StopAccepting, AcceptAborted, DrainEnd, Stop, DeliverSignal, BeginTeardown, netVars, kqVars,
       loopVars
  <2> QED BY <2>1 DEF NoLostEdge, Reading, Writing, Writable
<1>10. CASE EndTeardown
  BY <1>10 DEF EndTeardown, Restrict, NoLostEdge
<1>11. CASE Next
  BY <1>3, <1>4, <1>5, <1>6, <1>7, <1>8, <1>9, <1>10, <1>11,
     ClientEdges, CloseEdges, ReceiveEdges, LoopEdges DEF Next, ReactorStep, HandlerStep
<1> QED BY <1>2, <1>11

LEMMA OwnersAlways == Spec => [](Inv /\ Owners)
<1>1. Init => Owners
  BY EmptySeq DEF Init, Owners
<1>2. Inv /\ Owners /\ [Next]_vars => Owners'
  BY StepOwners
<1> QED BY InitInv, StepInv, <1>1, <1>2, PTL DEF Spec

\* No edge is lost although every filter is edge-triggered: whenever there is
\* something to read or room to write on a connection that waits for it, the event
\* is waiting or its handler runs.
THEOREM EdgesAreKept == Spec => []NoLostEdge
<1>1. Init => NoLostEdge
  BY DEF Init, NoLostEdge
<1>2. Inv /\ Owners /\ NoLostEdge /\ [Next]_vars => NoLostEdge'
  BY StepEdges
<1> QED BY OwnersAlways, <1>1, <1>2, PTL DEF Spec

-----------------------------------------------------------------------------
(* The backlog.                                                            *)

LEMMA BacklogKept ==
    ASSUME NoStrandedBacklog, UNCHANGED <<backlog, stranded>>,
           Listen \in active \cup batch => Listen \in active' \cup batch',
           pc = "accepting" => pc' = "accepting"
    PROVE  NoStrandedBacklog'
BY DEF NoStrandedBacklog

LEMMA StepBacklog ==
    ASSUME Inv, NoStrandedBacklog, [Next]_vars
    PROVE  NoStrandedBacklog'
<1>1. CASE UNCHANGED vars
  BY <1>1, BacklogKept DEF vars, netVars, kqVars, loopVars
<1>2. ASSUME NEW c \in Clients, ClientStep(c) PROVE NoStrandedBacklog'
  <2>1. CASE Connect(c)
    BY <2>1 DEF Connect, NoStrandedBacklog
  <2>2. CASE ~Connect(c)
    BY <1>2, <2>2, BacklogKept DEF ClientStep, SendPiece, ShutDownSending, ResetConnection,
       ReadReply, Raise, loopVars
  <2> QED BY <2>1, <2>2
<1>3. ASSUME NEW w \in Workers, WorkerStep(w) PROVE NoStrandedBacklog'
  BY <1>3, BacklogKept DEF WorkerStep, TakeTask, DropTask, BeginTask, PushCompletion,
     TriggerWake, WorkerExit, netVars, kqVars, loopVars
<1>4. CASE Run \/ LeaveLoop \/ PollFails \/ EndOfBatch \/ Stop \/ DeliverSignal
           \/ BeginTeardown \/ DrainEnd
  BY <1>4, BacklogKept DEF Run, LeaveLoop, PollFails, EndOfBatch, Stop, DeliverSignal,
     BeginTeardown, DrainEnd, netVars, kqVars, loopVars
<1>5. CASE Poll
  <2>1. batch = {} /\ \E b : batch' = b /\ active' = active \ b
    BY <1>5 DEF Poll, Inv, Filters, BatchInLoop
  <2> QED BY <1>5, <2>1, BacklogKept DEF Poll, netVars
<1>6. CASE TakeUser \/ TakeSignal \/ \E f \in Fds : TakeRead(f) \/ TakeWrite(f)
  BY <1>6, BacklogKept DEF TakeUser, TakeSignal, TakeRead, TakeWrite, NextEvent, Listen,
     User, Signal, netVars, kqVars
<1>7. CASE TakeListen
  BY <1>7 DEF TakeListen, NoStrandedBacklog
<1>8. CASE Accept
  BY <1>8 DEF Accept, NoStrandedBacklog, loopVars
<1>9. CASE StopAccepting
  BY <1>9 DEF StopAccepting, NoStrandedBacklog, netVars
<1>10. CASE Receive
  <2>1. UNCHANGED <<backlog, stranded, batch>> /\ pc = "reading"
    BY <1>10 DEF Receive
  <2>2. Dispatch(cur) \/ Reject(cur) \/ \E full \in BOOLEAN : KeepReading(full)
    BY <1>10 DEF Receive
  <2>3. Listen \in active => Listen \in active'
    BY <2>2 DEF Dispatch, Reject, KeepReading, Rearm, Listen
  <2> QED BY <2>1, <2>3, BacklogKept
<1>11. CASE ReceiveEnd \/ SendEnd
  <2>1. CloseConnection(cur) /\ UNCHANGED <<backlog, stranded, batch>> /\ pc # "accepting"
    BY <1>11 DEF ReceiveEnd, SendEnd
  <2>2. Listen \in active => Listen \in active'
    BY <2>1 DEF CloseConnection, Disarm, Listen
  <2> QED BY <2>1, <2>2, BacklogKept
<1>12. CASE ReceiveAgain \/ SendAgain \/ SendSome
  BY <1>12, BacklogKept DEF ReceiveAgain, SendAgain, SendSome, netVars, kqVars, loopVars
<1>13. CASE DrainOne
  BY <1>13, BacklogKept DEF DrainOne, netVars, loopVars
<1>14. CASE EndTeardown
  BY <1>14 DEF EndTeardown, NoStrandedBacklog
<1>15. CASE AcceptAborted
  BY <1>15 DEF AcceptAborted, NoStrandedBacklog
<1> QED BY <1>1, <1>2, <1>3, <1>4, <1>5, <1>6, <1>7, <1>8, <1>9, <1>10, <1>11,
           <1>12, <1>13, <1>14, <1>15 DEF Next, ReactorStep, HandlerStep

\* A connection waits in the backlog only with its event ahead, unless accept()
\* failed, for whatever reason, and no client has connected since.
THEOREM BacklogIsAnnounced == Spec => []NoStrandedBacklog
<1>1. Init => NoStrandedBacklog
  BY DEF Init, NoStrandedBacklog
<1>2. Inv /\ NoStrandedBacklog /\ [Next]_vars => NoStrandedBacklog'
  BY StepBacklog
<1> QED BY InvAlways, <1>1, <1>2, PTL DEF Spec

-----------------------------------------------------------------------------
(* Refinement.                                                             *)

\* The stage of the client of a connection in connections_.
StageOfConnection(f) ==
    IF conns[f].awaiting THEN "pending" ELSE IF Writing(f) THEN "replying" ELSE "open"

LEMMA OpenStage ==
    ASSUME TypeInv, Owners, NEW f \in DOMAIN conns
    PROVE  StageOf(conns[f].client) = StageOfConnection(f)
<1>1. FdOf(conns[f].client) = {f} /\ phase[conns[f].client] = "open"
  BY DEF FdOf, Owners
<1> QED BY <1>1 DEF StageOf, StageOfConnection

\* A client whose connection does not change stays where it is.
LEMMA StageKept ==
    ASSUME NEW c \in Clients, phase'[c] = phase[c],
           \A f \in FdOf(c) : /\ f \in DOMAIN conns' /\ conns'[f].client = c
                              /\ conns'[f].awaiting = conns[f].awaiting
                              /\ <<"WRITE", f>> \in armed' <=> <<"WRITE", f>> \in armed,
           \A f \in DOMAIN conns' : conns'[f].client = c => f \in FdOf(c)
    PROVE  StageOf(c)' = StageOf(c)
<1>1. FdOf(c)' = FdOf(c)
  BY DEF FdOf
<1>2. (\E f \in FdOf(c) : conns[f].awaiting)' = (\E f \in FdOf(c) : conns[f].awaiting)
  BY <1>1 DEF FdOf
<1>3. (\E f \in FdOf(c) : Writing(f))' = (\E f \in FdOf(c) : Writing(f))
  BY <1>1 DEF FdOf, Writing
<1> QED BY <1>2, <1>3 DEF StageOf

LEMMA AllStagesKept ==
    ASSUME TypeInv, UNCHANGED <<phase, replies, armed, kqOpen>>, DOMAIN conns' = DOMAIN conns,
           \A f \in DOMAIN conns : /\ conns'[f].client = conns[f].client
                                   /\ conns'[f].awaiting = conns[f].awaiting
    PROVE  UNCHANGED Service!svars
<1>1. \A c \in Clients : StageOf(c)' = StageOf(c)
  BY StageKept DEF FdOf
<1> QED BY <1>1 DEF Service!svars

LEMMA StageMoves ==
    ASSUME NEW c \in Clients, NEW from, NEW to, StageOf(c) \in from, StageOf(c)' = to,
           \A d \in Clients \ {c} : StageOf(d)' = StageOf(d),
           kqOpen, UNCHANGED <<kqOpen, replies>>
    PROVE  Service!Move(c, from, to)
BY DEF Service!Move

\* A step that changes the connection f only moves its client only.
LEMMA OthersStay ==
    ASSUME TypeInv, Owners, NEW f \in DOMAIN conns, NEW c \in Clients \ {conns[f].client},
           phase'[c] = phase[c],
           \A g \in DOMAIN conns \ {f} :
               /\ g \in DOMAIN conns' /\ conns'[g] = conns[g]
               /\ <<"WRITE", g>> \in armed' <=> <<"WRITE", g>> \in armed,
           \A g \in DOMAIN conns' : g # f => g \in DOMAIN conns,
           f \in DOMAIN conns' => conns'[f].client = conns[f].client
    PROVE  StageOf(c)' = StageOf(c)
<1>1. \A g \in FdOf(c) : g \in DOMAIN conns \ {f} /\ conns[g].client = c
  BY DEF FdOf
<1> QED BY <1>1, StageKept DEF FdOf

LEMMA ClientStage ==
    ASSUME Inv, Owners, NEW c \in Clients, ClientStep(c)
    PROVE  Service!Arrive(c) \/ UNCHANGED Service!svars
<1>1. UNCHANGED <<conns, armed, replies, kqOpen>>
  BY DEF ClientStep, Connect, SendPiece, ShutDownSending, ResetConnection, ReadReply, loopVars
<1>2. CASE Connect(c)
  <2>1. /\ phase[c] = "away" /\ phase'[c] = "backlog" /\ kqOpen
        /\ \A d \in Clients \ {c} : phase'[d] = phase[d]
    BY <1>2 DEF Connect, Inv, TypeInv, TypeOK
  <2>2. StageOf(c) = "away" /\ StageOf(c)' = "waiting"
    BY <2>1 DEF StageOf
  <2>3. \A d \in Clients \ {c} : StageOf(d)' = StageOf(d)
    BY <1>1, <2>1, StageKept DEF FdOf
  <2> QED BY <1>1, <2>1, <2>2, <2>3, StageMoves DEF Service!Arrive
<1>3. CASE ~Connect(c)
  <2>1. UNCHANGED phase
    BY <1>3 DEF ClientStep, SendPiece, ShutDownSending, ResetConnection, ReadReply
  <2> QED BY <1>1, <2>1, AllStagesKept DEF Inv
<1> QED BY <1>2, <1>3

LEMMA AcceptStage ==
    ASSUME Inv, Owners, Accept
    PROVE  \E c \in Clients : Service!Admit(c)
<1>0. PICK c : c = Head(backlog)
  OBVIOUS
<1>1. PICK f \in Fds \ DOMAIN conns :
        /\ DOMAIN conns' = DOMAIN conns \cup {f}
        /\ \A g \in DOMAIN conns : conns'[g] = conns[g]
        /\ conns'[f] = NewConnection(c)
        /\ 1 \in DOMAIN backlog /\ backlog[1] = c /\ c \in Clients
        /\ phase' = [phase EXCEPT ![c] = "open"]
        /\ armed' = armed \cup {<<"READ", f>>}
  BY <1>0, AcceptFrame DEF Inv
<1>2. /\ phase[c] = "backlog" /\ phase'[c] = "open"
      /\ \A d \in Clients \ {c} : phase'[d] = phase[d]
  BY <1>1 DEF Owners, Inv, TypeInv, TypeOK
<1>3. kqOpen /\ UNCHANGED <<kqOpen, replies>>
  BY DEF Accept, Inv, Work, OpenUntilTornDown
<1>4. conns'[f].client = c /\ ~conns'[f].awaiting /\ <<"WRITE", f>> \notin armed'
  BY <1>1 DEF NewConnection, Inv, Filters, OneModePerConnection, Writing
<1>5. StageOf(c) = "waiting" /\ StageOf(c)' = "open"
  <2>1. \A g \in DOMAIN conns : conns[g].client # c
    BY <1>2 DEF Owners
  <2>2. FdOf(c)' = {f}
    BY <1>1, <1>4, <2>1 DEF FdOf
  <2> QED BY <1>2, <1>4, <2>2 DEF StageOf, Writing
<1>6. \A d \in Clients \ {c} : StageOf(d)' = StageOf(d)
  BY <1>1, <1>2, <1>4, StageKept DEF FdOf
<1> QED BY <1>1, <1>3, <1>5, <1>6, StageMoves DEF Service!Admit

LEMMA AbortStage ==
    ASSUME Inv, Owners, AcceptAborted
    PROVE  \E c \in Clients : Service!HangUp(c)
<1>1. PICK c \in Clients :
        /\ 1 \in DOMAIN backlog /\ backlog[1] = c
        /\ phase' = [phase EXCEPT ![c] = "closed"]
        /\ UNCHANGED <<conns, armed, replies, kqOpen>>
  BY AbortFrame DEF Inv
<1>2. /\ phase[c] = "backlog" /\ phase'[c] = "closed"
      /\ \A d \in Clients \ {c} : phase'[d] = phase[d]
  BY <1>1 DEF Owners, Inv, TypeInv, TypeOK
<1>3. kqOpen
  BY DEF AcceptAborted, Inv, Work, OpenUntilTornDown
<1>4. StageOf(c) = "waiting" /\ StageOf(c)' = "closed"
  BY <1>2 DEF StageOf
<1>5. \A d \in Clients \ {c} : StageOf(d)' = StageOf(d)
  BY <1>1, <1>2, StageKept DEF FdOf
<1> QED BY <1>1, <1>3, <1>4, <1>5, StageMoves DEF Service!HangUp

LEMMA ReceiveStage ==
    ASSUME Inv, Owners, Owners', TypeInv', Receive
    PROVE  \/ \E c \in Clients : Service!Submit(c) \/ Service!Refuse(c)
           \/ UNCHANGED Service!svars
<1>0. PICK f, c : f = cur /\ c = conns[f].client
  OBVIOUS
<1>1. /\ f \in DOMAIN conns /\ DOMAIN conns' = DOMAIN conns
      /\ \A g \in DOMAIN conns \ {f} : conns'[g] = conns[g]
      /\ conns'[f].client = c
      /\ \/ Dispatch(f) /\ conns'[f].awaiting
         \/ Reject(f) /\ conns'[f].awaiting = conns[f].awaiting
         \/ (\E full \in BOOLEAN : KeepReading(full)) /\ conns' = conns
  BY <1>0, ReceiveFrame DEF Inv
<1>2. /\ UNCHANGED <<kqOpen, replies, phase>> /\ kqOpen
      /\ c \in Clients /\ f \in Fds
      /\ ~conns[f].awaiting /\ ~Writing(f)
  BY <1>0, <1>1, ConnectionTypes DEF Receive, Inv, Work, OpenUntilTornDown, Filters,
     EventsAreCurrent, OneModePerConnection
<1>3. StageOf(c) = "open"
  BY <1>0, <1>1, <1>2, OpenStage DEF StageOfConnection, Inv
<1>4. StageOf(c)' = IF conns'[f].awaiting THEN "pending"
                    ELSE IF <<"WRITE", f>> \in armed' THEN "replying" ELSE "open"
  <2>1. FdOf(c)' = {f} /\ phase'[c] = "open"
    BY <1>1 DEF FdOf, Owners
  <2> QED BY <2>1 DEF StageOf, Writing
<1>5. ASSUME \A g \in DOMAIN conns \ {f} :
                 <<"WRITE", g>> \in armed' <=> <<"WRITE", g>> \in armed
      PROVE  \A d \in Clients \ {c} : StageOf(d)' = StageOf(d)
  BY <1>0, <1>1, <1>2, <1>5, OthersStay DEF Inv
<1>6. CASE Dispatch(f) /\ conns'[f].awaiting
  <2>1. armed' = armed \ {<<"READ", f>>}
    BY <1>6 DEF Dispatch
  <2> QED BY <1>1, <1>2, <1>3, <1>4, <1>5, <1>6, <2>1, StageMoves DEF Service!Submit
<1>7. CASE Reject(f) /\ conns'[f].awaiting = conns[f].awaiting
  <2>1. armed' = (armed \ {<<"READ", f>>}) \cup {<<"WRITE", f>>}
    BY <1>7 DEF Reject, Rearm
  <2> QED BY <1>1, <1>2, <1>3, <1>4, <1>5, <1>7, <2>1, StageMoves DEF Service!Refuse
<1>8. CASE (\E full \in BOOLEAN : KeepReading(full)) /\ conns' = conns
  <2>1. UNCHANGED armed
    BY <1>8 DEF KeepReading
  <2> QED BY <1>2, <1>8, <2>1, AllStagesKept DEF Inv
<1> QED BY <1>1, <1>6, <1>7, <1>8

LEMMA CloseStage ==
    ASSUME Inv, Owners, ReceiveEnd \/ SendEnd
    PROVE  \E c \in Clients : Service!HangUp(c)
<1>0. PICK f, c : f = cur /\ c = conns[f].client
  OBVIOUS
<1>1. /\ CloseConnection(f) /\ UNCHANGED <<kqOpen, replies>>
      /\ f \in DOMAIN conns /\ c \in Clients
      /\ pc \in {"reading", "writing"}
  BY <1>0, ConnectionTypes DEF ReceiveEnd, SendEnd, Inv, TypeInv, CurrentExists
<1>2. /\ DOMAIN conns' = DOMAIN conns \ {f}
      /\ \A g \in DOMAIN conns' : conns'[g] = conns[g]
  BY <1>0, <1>1, CloseTypes DEF Inv
<1>3. /\ phase'[c] = "closed" /\ kqOpen
      /\ \A d \in Clients \ {c} : phase'[d] = phase[d]
  BY <1>0, <1>1 DEF CloseConnection, Inv, TypeInv, TypeOK, Work, OpenUntilTornDown
<1>4. ~conns[f].awaiting
  BY <1>0, <1>1 DEF Inv, Filters, EventsAreCurrent, OneModePerConnection
<1>5. StageOf(c) \in {"open", "replying"}
  BY <1>0, <1>1, <1>4, OpenStage DEF StageOfConnection, Inv
<1>6. StageOf(c)' = "closed"
  BY <1>3 DEF StageOf
<1>7. \A g \in DOMAIN conns \ {f} : <<"WRITE", g>> \in armed' <=> <<"WRITE", g>> \in armed
  BY <1>1 DEF CloseConnection, Disarm
<1>8. \A d \in Clients \ {c} : StageOf(d)' = StageOf(d)
  BY <1>0, <1>1, <1>2, <1>3, <1>7, OthersStay DEF Inv
<1> QED BY <1>1, <1>3, <1>5, <1>6, <1>8, StageMoves DEF Service!HangUp

LEMMA SendStage ==
    ASSUME Inv, Owners, SendSome
    PROVE  \E c \in Clients : Service!Deliver(c)
<1>0. PICK c : c = conns[cur].client
  OBVIOUS
<1>1. /\ cur \in DOMAIN conns /\ DOMAIN conns' = DOMAIN conns
      /\ \A f \in DOMAIN conns : /\ conns'[f].client = conns[f].client
                                 /\ conns'[f].awaiting = conns[f].awaiting
  BY SendFrame DEF Inv
<1>2. /\ c \in Clients /\ Writing(cur) /\ ~conns[cur].awaiting
      /\ conns[cur].replyTo = c /\ kqOpen
  BY <1>0, <1>1, ConnectionTypes DEF SendSome, Inv, Filters, EventsAreCurrent,
     OneModePerConnection, ReplyOwner, Work, OpenUntilTornDown
<1>3. StageOf(c) = "replying"
  BY <1>0, <1>1, <1>2, OpenStage DEF StageOfConnection, Inv
<1>4. UNCHANGED <<phase, armed, kqOpen>>
  BY DEF SendSome, kqVars
<1>5. \A d \in Clients : StageOf(d)' = StageOf(d)
  BY <1>1, <1>4, StageKept DEF FdOf
<1>6. replies' = [replies EXCEPT ![c] = {c}]
  <2>1. replies[c] \cup {c} = {c}
    BY <1>2 DEF Inv, Filters, RepliesReachTheirClient
  <2> QED BY <1>0, <1>2, <2>1 DEF SendSome
<1> QED BY <1>2, <1>3, <1>4, <1>5, <1>6 DEF Service!Deliver

LEMMA DrainStage ==
    ASSUME Inv, Owners, Owners', DrainOne
    PROVE  \E c \in Clients : Service!Answer(c)
<1>0. PICK f, c : f = Head(completions).fd /\ c = conns[f].client
  OBVIOUS
<1>1. /\ f \in DOMAIN conns /\ f \in Fds
      /\ DOMAIN conns' = DOMAIN conns
      /\ \A g \in DOMAIN conns \ {f} : conns'[g] = conns[g]
      /\ conns'[f].client = conns[f].client
      /\ conns[f].awaiting /\ ~conns'[f].awaiting
      /\ armed' = armed \cup {<<"WRITE", f>>}
  BY <1>0, DrainFrame
<1>2. /\ UNCHANGED <<phase, replies, kqOpen>> /\ kqOpen /\ c \in Clients
  BY <1>0, <1>1, ConnectionTypes DEF DrainOne, netVars, Inv, Work, OpenUntilTornDown
<1>3. StageOf(c) = "pending"
  BY <1>0, <1>1, OpenStage DEF StageOfConnection, Inv
<1>4. StageOf(c)' = "replying"
  <2>1. FdOf(c)' = {f} /\ phase'[c] = "open"
    BY <1>0, <1>1, <1>2 DEF FdOf, Owners
  <2> QED BY <1>1, <2>1 DEF StageOf, Writing
<1>5. \A d \in Clients \ {c} : StageOf(d)' = StageOf(d)
  BY <1>0, <1>1, <1>2, OthersStay DEF Inv
<1> QED BY <1>2, <1>3, <1>4, <1>5, StageMoves DEF Service!Answer

LEMMA TeardownStage ==
    ASSUME Inv, EndTeardown
    PROVE  Service!ShutDown
<1>1. kqOpen /\ ~kqOpen' /\ kqOpen' = FALSE /\ UNCHANGED replies
  BY DEF EndTeardown, Inv, Work, OpenUntilTornDown
<1>2. \A c \in Clients : StageOf(c)' = IF phase[c] = "away" THEN "away" ELSE "closed"
  BY DEF EndTeardown, StageOf
<1>3. \A c \in Clients : phase[c] = "away" <=> StageOf(c) = "away"
  BY DEF StageOf, Inv, TypeInv, TypeOK
<1> QED BY <1>1, <1>2, <1>3 DEF Service!ShutDown

LEMMA StepService ==
    ASSUME Inv, Owners, Inv', Owners', [Next]_vars
    PROVE  [Service!Next]_(Service!svars)
<1>1. CASE UNCHANGED vars
  BY <1>1, AllStagesKept DEF vars, netVars, kqVars, Inv
<1>2. ASSUME NEW c \in Clients, ClientStep(c) PROVE [Service!Next]_(Service!svars)
  BY <1>2, ClientStage DEF Service!Next
<1>3. ASSUME NEW w \in Workers, WorkerStep(w) PROVE UNCHANGED Service!svars
  <2>1. UNCHANGED <<phase, replies, armed, kqOpen, conns>>
    BY <1>3 DEF WorkerStep, TakeTask, DropTask, BeginTask, PushCompletion, TriggerWake,
       WorkerExit, netVars, kqVars
  <2> QED BY <2>1, AllStagesKept DEF Inv
<1>4. CASE \/ Run \/ LeaveLoop \/ Poll \/ PollFails
           \/ TakeUser \/ TakeSignal \/ TakeListen \/ EndOfBatch
           \/ \E f \in Fds : TakeRead(f) \/ TakeWrite(f)
  <2>1. UNCHANGED <<phase, replies, armed, kqOpen, conns>>
    BY <1>4 DEF Run, LeaveLoop, Poll, PollFails, TakeUser, TakeSignal, TakeListen, EndOfBatch,
       TakeRead, TakeWrite, netVars, kqVars
  <2> QED BY <2>1, AllStagesKept DEF Inv
<1>5. CASE StopAccepting \/ ReceiveAgain \/ SendAgain \/ DrainEnd
           \/ Stop \/ DeliverSignal \/ BeginTeardown
  <2>1. UNCHANGED <<phase, replies, armed, kqOpen, conns>>
    BY <1>5 DEF StopAccepting, ReceiveAgain, SendAgain, DrainEnd, Stop, DeliverSignal,
       BeginTeardown, netVars, kqVars
  <2> QED BY <2>1, AllStagesKept DEF Inv
<1>6. CASE Accept \/ AcceptAborted \/ ReceiveEnd \/ SendEnd \/ SendSome \/ DrainOne
  BY <1>6, AcceptStage, AbortStage, CloseStage, SendStage, DrainStage DEF Service!Next
<1>7. CASE Receive
  BY <1>7, ReceiveStage DEF Service!Next, Inv
<1>8. CASE EndTeardown
  BY <1>8, TeardownStage DEF Service!Next
<1> QED BY <1>1, <1>2, <1>3, <1>4, <1>5, <1>6, <1>7, <1>8 DEF Next, ReactorStep, HandlerStep

-----------------------------------------------------------------------------
(* What the reactor has of its pool.                                       *)

Hands == [w \in Workers |-> IF worker[w].at \in {"idle", "gone"} THEN <<>>
                           ELSE <<worker[w].task>>]
Left == {w \in Workers : worker[w].at = "gone"}

\* Steps of clients and of the reactor that have nothing to do with the pool.
LEMMA PoolKept ==
    ASSUME UNCHANGED <<tasks, worker, stopping, kqOpen>>
    PROVE  UNCHANGED Pool!pvars
BY DEF Pool!pvars

LEMMA HandOf ==
    ASSUME TypeInv, NEW w \in Workers
    PROVE  /\ Hands[w] = <<>> <=> worker[w].at \in {"idle", "gone"}
           /\ w \in Left <=> worker[w].at = "gone"
BY DEF Hands, Left

\* The guards and effects of taking a task and of leaving, as this module has them, are
\* those of the pool: its worker threads are restricted by nothing else.
LEMMA WorkersAreThePool ==
    ASSUME TypeInv, NEW w \in Workers
    PROVE  /\ TakeTask(w) <=>
                /\ Pool!Begin(w)
                /\ worker' = [worker EXCEPT ![w] = [at |-> "taken", task |-> Head(tasks)]]
                /\ UNCHANGED <<netVars, kqVars, loopVars, conns, completions, abandoning,
                               stopping, asked>>
           /\ WorkerExit(w) <=>
                /\ Pool!Leave(w)
                /\ worker' = [worker EXCEPT ![w].at = "gone"]
                /\ UNCHANGED <<netVars, kqVars, loopVars, conns, tasks, completions,
                               abandoning, stopping, asked>>
<1>0. worker \in [Workers -> WorkerState]
  BY DEF TypeInv, TypeOK
<1>1. Pool!Free(w) <=> worker[w].at = "idle"
  BY HandOf DEF Pool!Free, Hands, Left
<1>2. ASSUME worker[w].at = "idle",
             worker' = [worker EXCEPT ![w] = [at |-> "taken", task |-> Head(tasks)]]
      PROVE  Hands' = [Hands EXCEPT ![w] = <<Head(tasks)>>] /\ Left' = Left
  <2>1. /\ worker'[w].at = "taken" /\ worker'[w].task = Head(tasks)
        /\ \A v \in Workers \ {w} : worker'[v] = worker[v]
    BY <1>0, <1>2
  <2>2. ASSUME NEW v \in Workers
        PROVE  Hands'[v] = [Hands EXCEPT ![w] = <<Head(tasks)>>][v]
    <3>1. CASE v = w
      BY <2>1, <3>1 DEF Hands
    <3>2. CASE v # w
      BY <2>1, <3>2 DEF Hands
    <3> QED BY <3>1, <3>2
  <2>3. Hands' = [Hands EXCEPT ![w] = <<Head(tasks)>>]
    BY <2>2 DEF Hands
  <2>4. Left' = Left
    BY <1>2, <2>1 DEF Left
  <2> QED BY <2>3, <2>4
<1>3. ASSUME worker[w].at = "idle", worker' = [worker EXCEPT ![w].at = "gone"]
      PROVE  Hands' = Hands /\ Left' = Left \cup {w}
  <2>1. /\ worker'[w].at = "gone"
        /\ \A v \in Workers \ {w} : worker'[v] = worker[v]
    BY <1>0, <1>3 DEF WorkerState
  <2> QED BY <1>3, <2>1 DEF Hands, Left
<1>4. TakeTask(w) => Pool!Begin(w)
  BY <1>1, <1>2 DEF TakeTask, Pool!Begin, Hands, Left, kqVars
<1>5. WorkerExit(w) => Pool!Leave(w)
  BY <1>1, <1>3 DEF WorkerExit, Pool!Leave, Hands, Left, kqVars
<1>6. Pool!Begin(w) => worker[w].at = "idle" /\ tasks # <<>> /\ tasks' = Tail(tasks)
  BY <1>1 DEF Pool!Begin
<1>7. Pool!Leave(w) => worker[w].at = "idle" /\ stopping /\ tasks = <<>>
  BY <1>1 DEF Pool!Leave
<1> QED BY <1>4, <1>5, <1>6, <1>7 DEF TakeTask, WorkerExit

LEMMA WorkerPool ==
    ASSUME TypeInv, NEW w \in Workers, WorkerStep(w)
    PROVE  [Pool!Next]_(Pool!pvars)
<1>0. worker \in [Workers -> WorkerState]
  BY DEF TypeInv, TypeOK
<1>1. CASE TakeTask(w) \/ WorkerExit(w)
  BY <1>1, WorkersAreThePool DEF Pool!Next
<1>2. CASE BeginTask(w) \/ PushCompletion(w)
  <2>1. /\ UNCHANGED <<tasks, stopping, kqOpen>>
        /\ worker[w].at \in {"taken", "running"}
        /\ worker'[w].at \in {"running", "wake"} /\ worker'[w].task = worker[w].task
        /\ \A v \in Workers \ {w} : worker'[v] = worker[v]
    BY <1>0, <1>2 DEF BeginTask, PushCompletion, WorkerState, kqVars
  <2>2. Hands' = Hands /\ Left' = Left
    BY <2>1 DEF Hands, Left
  <2> QED BY <2>1, <2>2 DEF Pool!pvars, Hands, Left
<1>3. CASE DropTask(w) \/ TriggerWake(w)
  <2>1. /\ UNCHANGED <<tasks, stopping, kqOpen>>
        /\ worker[w].at \in {"taken", "wake"} /\ worker'[w].at = "idle"
        /\ \A v \in Workers \ {w} : worker'[v] = worker[v]
    BY <1>0, <1>3 DEF DropTask, TriggerWake, kqVars
  <2>2. Hands' = [Hands EXCEPT ![w] = <<>>] /\ Left' = Left /\ Hands[w] # <<>>
    BY <2>1 DEF Hands, Left
  <2>3. Pool!Return(w)
    BY <2>1, <2>2 DEF Pool!Return, Hands, Left
  <2> QED BY <2>3 DEF Pool!Next
<1> QED BY <1>1, <1>2, <1>3 DEF WorkerStep

LEMMA StepPool ==
    ASSUME TypeInv, Joining, [Next]_vars
    PROVE  [Pool!Next]_(Pool!pvars)
<1>1. CASE UNCHANGED vars
  BY <1>1, PoolKept DEF vars, poolVars, kqVars
<1>2. ASSUME NEW c \in Clients, ClientStep(c) PROVE UNCHANGED Pool!pvars
  BY <1>2, PoolKept DEF ClientStep, Connect, SendPiece, ShutDownSending, ResetConnection,
     ReadReply, poolVars
<1>3. CASE \/ Run \/ LeaveLoop \/ Poll \/ PollFails
           \/ TakeUser \/ TakeSignal \/ TakeListen \/ EndOfBatch
           \/ \E f \in Fds : TakeRead(f) \/ TakeWrite(f)
  BY <1>3, PoolKept DEF Run, LeaveLoop, Poll, PollFails, TakeUser, TakeSignal, TakeListen,
     EndOfBatch, TakeRead, TakeWrite, poolVars, kqVars
<1>4. CASE \/ Accept \/ StopAccepting \/ AcceptAborted \/ ReceiveEnd \/ ReceiveAgain
           \/ SendSome \/ SendAgain \/ SendEnd \/ DrainOne \/ DrainEnd
           \/ Stop \/ DeliverSignal
  BY <1>4, PoolKept DEF Accept, StopAccepting, AcceptAborted, ReceiveEnd, ReceiveAgain, SendSome, SendAgain,
     SendEnd, DrainOne, DrainEnd, Stop, DeliverSignal, poolVars, kqVars
<1>5. CASE Receive
  <2>1. UNCHANGED <<worker, stopping, kqOpen>> /\ pc = "reading"
    BY <1>5 DEF Receive
  <2>2. UNCHANGED tasks \/ Dispatch(cur)
    BY <1>5 DEF Receive, Reject, KeepReading
  <2>3. CASE UNCHANGED tasks
    BY <2>1, <2>3, PoolKept
  <2>4. CASE Dispatch(cur)
    <3> DEFINE t == [fd |-> cur, client |-> conns[cur].client]
    <3>1. t \in Task /\ tasks' = Append(tasks, t)
      BY <2>1, <2>4, ConnectionTypes DEF Dispatch, Task, TypeInv, CurrentExists
    <3>2. ~stopping
      BY <2>1 DEF Joining
    <3>3. Pool!Submit(t)
      BY <2>1, <3>1, <3>2 DEF Pool!Submit
    <3> QED BY <3>1, <3>3 DEF Pool!Next
  <2> QED BY <2>2, <2>3, <2>4
<1>6. CASE BeginTeardown
  <2>1. ~stopping /\ stopping' /\ UNCHANGED <<tasks, worker, kqOpen>>
    BY <1>6 DEF BeginTeardown, Joining, kqVars
  <2> QED BY <2>1 DEF Pool!Stop, Pool!Next
<1>7. CASE EndTeardown
  <2>1. kqOpen /\ ~kqOpen' /\ AllJoined /\ UNCHANGED <<tasks, worker, stopping>>
    BY <1>7 DEF EndTeardown, Joining, poolVars
  <2>2. Left = Workers
    BY <2>1 DEF AllJoined, Left
  <2> QED BY <2>1, <2>2 DEF Pool!Destroy, Pool!Next, Left
<1>8. ASSUME NEW w \in Workers, WorkerStep(w) PROVE [Pool!Next]_(Pool!pvars)
  BY <1>8, WorkerPool
<1> QED BY <1>1, <1>2, <1>3, <1>4, <1>5, <1>6, <1>7, <1>8 DEF Next, ReactorStep, HandlerStep

\* The reactor, its workers and its queues implement the service: every request
\* taken in is answered, once and to its own client, before its connection closes.  And
\* dispatchToThreadPool(), the tasks and teardown() use the pool as TaskService allows.
THEOREM ReactorImplementsService == Spec => ServiceSpec
<1>1. Init => Service!Init
  BY DEF Init, Service!Init, StageOf
<1>2. Inv /\ Owners /\ Inv' /\ Owners' /\ [Next]_vars => [Service!Next]_(Service!svars)
  BY StepService
<1>3. Init => Pool!Init
  <2> SUFFICES ASSUME Init PROVE Pool!Init
    OBVIOUS
  <2>1. \A w \in Workers : worker[w].at = "idle"
    BY DEF Init
  <2>2. Hands = [w \in Workers |-> <<>>] /\ Left = {}
    BY <2>1 DEF Hands, Left
  <2> QED BY <2>2 DEF Init, Pool!Init, Hands, Left
<1>4. TypeInv /\ Joining /\ [Next]_vars => [Pool!Next]_(Pool!pvars)
  BY StepPool
<1> QED BY OwnersAlways, JoiningAlways, <1>1, <1>2, <1>3, <1>4, PTL
           DEF Spec, ServiceSpec, Service!Spec, Pool!Spec
=============================================================================
