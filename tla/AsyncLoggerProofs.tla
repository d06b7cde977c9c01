------------------------- MODULE AsyncLoggerProofs -------------------------
(***************************************************************************)
(* Proofs about AsyncLogger.                                               *)
(***************************************************************************)
EXTENDS AsyncLogger, SequenceTheorems, TLAPS

-----------------------------------------------------------------------------
(* Types.                                                                  *)

LEMMA TypeInit == Init => TypeOK
<1> SUFFICES ASSUME Init PROVE TypeOK
  OBVIOUS
<1>1. <<>> \in Seq(1 .. MaxRecords)
  BY EmptySeq
<1>2. buffers \in [0 .. 1 -> Seq(1 .. MaxRecords)] /\ buffers[1 - activeIndex] = <<>>
  BY <1>1 DEF Init
<1>3. logger \in Background /\ caller \in [Callers -> Call]
  BY <1>1, AsyncLoggerAssumption DEF Init, Background, NoCall, Call
<1>4. accepted \in 0 .. MaxRecords /\ flushes \in 0 .. MaxFlushes /\ activeIndex \in 0 .. 1
  BY AsyncLoggerAssumption DEF Init
<1> QED
  BY <1>1, <1>2, <1>3, <1>4 DEF Init, TypeOK

LEMMA TypeStep == TypeOK /\ [Next]_vars => TypeOK'
<1> SUFFICES ASSUME TypeOK, [Next]_vars PROVE TypeOK'
  OBVIOUS
<1> USE AsyncLoggerAssumption
<1>1. ASSUME NEW t \in Callers, Log(t) PROVE TypeOK'
  <2>1. accepted + 1 \in 1 .. MaxRecords /\ accepted + 1 \in 0 .. MaxRecords
    BY <1>1 DEF Log, TypeOK
  <2>2. Append(buffers[activeIndex], accepted + 1) \in Seq(1 .. MaxRecords)
    BY <2>1, AppendProperties DEF TypeOK
  <2>3. [caller[t] EXCEPT !.at = "notify"] \in Call
    BY DEF TypeOK, Call
  <2> QED
    <3>1. buffers' \in [0 .. 1 -> Seq(1 .. MaxRecords)] /\ buffers'[1 - activeIndex'] = <<>>
      BY <1>1, <2>2 DEF Log, TypeOK
    <3>2. caller' \in [Callers -> Call]
      BY <1>1, <2>3 DEF Log, TypeOK
    <3>3. \A u \in waiting' \cap Callers : caller'[u].at = "flush"
      BY <1>1 DEF Log, TypeOK
    <3> QED
      BY <1>1, <2>1, <3>1, <3>2, <3>3 DEF Log, TypeOK
<1>2. ASSUME NEW t \in Callers, NotifyOne(t) PROVE TypeOK'
  <2>1. waiting' \subseteq waiting
    BY <1>2 DEF NotifyOne, OneAwake
  <2> QED
    BY <1>2, <2>1 DEF NotifyOne, TypeOK, Call, NoCall
<1>3. ASSUME NEW t \in Callers, Flush(t) PROVE TypeOK'
  <2>1. waiting' \subseteq waiting \cup {t}
    BY <1>3 DEF Flush, OneAwake
  <2>2. flushes + 1 \in 0 .. MaxFlushes
    BY <1>3 DEF Flush, TypeOK
  <2> QED
    BY <1>3, <2>1, <2>2 DEF Flush, TypeOK, Call
<1>4. ASSUME NEW t \in Callers, FlushAgain(t) PROVE TypeOK'
  BY <1>4 DEF FlushAgain, TypeOK
<1>5. ASSUME NEW t \in Callers, FlushReturn(t) PROVE TypeOK'
  BY <1>5 DEF FlushReturn, TypeOK, Call, NoCall
<1>6. ASSUME NEW t \in Callers \cup {Logger}, WakeSpuriously(t) PROVE TypeOK'
  BY <1>6 DEF WakeSpuriously, TypeOK
<1>7. CASE Wait
  BY <1>7 DEF Wait, TypeOK
<1>8. CASE Swap
  <2>1. <<>> \in Seq(1 .. MaxRecords)
    BY EmptySeq
  <2>2. 1 - activeIndex \in 0 .. 1 /\ 1 - (1 - activeIndex) = activeIndex
    BY DEF TypeOK
  <2>3. logger' \in Background
    BY <1>8 DEF Swap, TypeOK, Background
  <2>4. buffers' \in [0 .. 1 -> Seq(1 .. MaxRecords)] /\ buffers'[1 - activeIndex'] = <<>>
    BY <1>8, <2>1, <2>2 DEF Swap, TypeOK
  <2> QED
    BY <1>8, <2>2, <2>3, <2>4 DEF Swap, TypeOK
<1>9. CASE WriteRecords
  <2>1. <<>> \in Seq(1 .. MaxRecords)
    BY EmptySeq
  <2>2. logger' \in Background
    BY <1>9, <2>1 DEF WriteRecords, TypeOK, Background
  <2>3. written' \in Seq(1 .. MaxRecords)
    BY <1>9, ConcatProperties DEF WriteRecords, TypeOK, Background
  <2>4. Logger \notin waiting
    BY <1>9 DEF WriteRecords, TypeOK
  <2> QED
    BY <1>9, <2>2, <2>3, <2>4 DEF WriteRecords, TypeOK
<1>10. CASE Check
  <2>1. logger' \in Background
    BY <1>10 DEF Check, AfterCheck, TypeOK, Background
  <2>2. waiting' \subseteq waiting /\ flushRequested' \in BOOLEAN
    BY <1>10 DEF Check, TypeOK
  <2>3. Logger \notin waiting
    BY <1>10 DEF Check, TypeOK
  <2> QED
    BY <1>10, <2>1, <2>2, <2>3 DEF Check, TypeOK
<1>11. CASE BeginDestructor
  BY <1>11 DEF BeginDestructor, TypeOK
<1>12. CASE NotifyAll
  BY <1>12 DEF NotifyAll, TypeOK
<1>13. CASE EndDestructor
  <2>1. <<>> \in Seq(1 .. MaxRecords)
    BY EmptySeq
  <2>2. written' \in Seq(1 .. MaxRecords)
    BY <1>13, ConcatProperties DEF EndDestructor, TypeOK
  <2>3. 1 - activeIndex \in 0 .. 1
    BY DEF TypeOK
  <2> QED
    BY <1>13, <2>1, <2>2, <2>3 DEF EndDestructor, TypeOK
<1>14. CASE UNCHANGED vars
  BY <1>14 DEF vars, TypeOK
<1> QED
  BY <1>1, <1>2, <1>3, <1>4, <1>5, <1>6, <1>7, <1>8, <1>9, <1>10, <1>11, <1>12, <1>13, <1>14
     DEF Next, CallStep, LoggerStep, DestructorStep

\* Every variable keeps its type; the inactive buffer is empty outside the mutex and
\* threads sleep only where they wait.
THEOREM TypeCorrect == Spec => []TypeOK
BY TypeInit, TypeStep, PTL DEF Spec

-----------------------------------------------------------------------------
(* Records.                                                                *)

\* Between the check and the next swap the thread holds no records; when the destructor
\* has returned there are none anywhere.
Drained ==
    /\ logger.at # "write" => logger.toWrite = <<>>
    /\ destructor = "done" => logger.at = "gone" /\ buffers[activeIndex] = <<>>

Numbers(n) == [i \in 1 .. n |-> i]

InOrder == written \o logger.toWrite \o buffers[activeIndex] = Numbers(accepted)

LEMMA NumbersType == ASSUME NEW n \in Nat PROVE Numbers(n) \in Seq(Nat) /\ Len(Numbers(n)) = n
  BY DEF Numbers

LEMMA OneMore == ASSUME NEW n \in Nat PROVE Append(Numbers(n), n + 1) = Numbers(n + 1)
  BY DEF Numbers

LEMMA Concatenated ==
    ASSUME NEW S, NEW s \in Seq(S), NEW t \in Seq(S), NEW u \in Seq(S)
    PROVE  /\ s \o t \in Seq(S) /\ Len(s \o t) = Len(s) + Len(t)
           /\ (s \o t) \o u = s \o (t \o u)
           /\ s \o <<>> = s /\ <<>> \o s = s
  BY EmptySeq

LEMMA Appended ==
    ASSUME NEW S, NEW s \in Seq(S), NEW t \in Seq(S), NEW e \in S
    PROVE  s \o Append(t, e) = Append(s \o t, e)
  OBVIOUS

LEMMA DrainedStep == TypeOK /\ Drained /\ [Next]_vars => Drained'
<1> SUFFICES ASSUME TypeOK, Drained, [Next]_vars PROVE Drained'
  OBVIOUS
<1>1. CASE Swap
  BY <1>1 DEF Swap, Drained
<1>2. CASE WriteRecords
  BY <1>2 DEF WriteRecords, Drained, TypeOK, Background
<1>3. CASE Check
  BY <1>3 DEF Check, AfterCheck, Drained, TypeOK, Background
<1>4. CASE EndDestructor
  BY <1>4 DEF EndDestructor, Drained, TypeOK
<1>5. ASSUME NEW t \in Callers, Log(t) \/ Flush(t) \/ CallStep(t) PROVE Drained'
  BY <1>5 DEF Drained, Log, Flush, CallStep, NotifyOne, FlushAgain, FlushReturn
<1>6. ASSUME NEW t \in Callers \cup {Logger}, WakeSpuriously(t) PROVE Drained'
  BY <1>6 DEF Drained, WakeSpuriously
<1>7. CASE Wait \/ BeginDestructor \/ NotifyAll \/ UNCHANGED vars
  BY <1>7 DEF Drained, Wait, BeginDestructor, NotifyAll, vars
<1> QED
  BY <1>1, <1>2, <1>3, <1>4, <1>5, <1>6, <1>7 DEF Next, LoggerStep, DestructorStep

LEMMA InOrderStep == TypeOK /\ Drained /\ InOrder /\ [Next]_vars => InOrder'
<1> SUFFICES ASSUME TypeOK, Drained, InOrder, [Next]_vars PROVE InOrder'
  OBVIOUS
<1> DEFINE R == 1 .. MaxRecords
           b == buffers[activeIndex]
           w == logger.toWrite
<1> HIDE DEF R
<1>0. /\ written \in Seq(R) /\ w \in Seq(R) /\ b \in Seq(R) /\ <<>> \in Seq(R)
      /\ activeIndex \in 0 .. 1 /\ accepted \in Nat /\ MaxRecords \in Nat
  BY AsyncLoggerAssumption, EmptySeq DEF TypeOK, Background, R
<1>1. ASSUME NEW t \in Callers, Log(t) PROVE InOrder'
  <2>1. accepted + 1 \in R
    BY <1>0, <1>1 DEF Log, R
  <2>2. (written \o w) \o Append(b, accepted + 1) = Append((written \o w) \o b, accepted + 1)
    <3>1. PICK s \in Seq(R), u \in Seq(R), e \in R :
            s = written \o w /\ u = b /\ e = accepted + 1
      BY <1>0, <2>1, Concatenated
    <3>2. s \o Append(u, e) = Append(s \o u, e)
      BY Appended
    <3> QED
      BY <3>1, <3>2
  <2>3. /\ written' = written /\ logger' = logger /\ accepted' = accepted + 1
        /\ buffers'[activeIndex'] = Append(b, accepted + 1)
    BY <1>0, <1>1 DEF Log, TypeOK
  <2> QED
    BY <1>0, <2>2, <2>3, OneMore DEF InOrder
<1>2. CASE Swap
  <2>1. written' = written /\ accepted' = accepted /\ w = <<>> /\ logger'.toWrite = b
    BY <1>2 DEF Swap, Drained
  <2>2. buffers'[activeIndex'] = <<>>
    BY <1>2, <1>0 DEF Swap, TypeOK
  <2>3. (written \o <<>>) \o b = (written \o b) \o <<>>
    BY <1>0, Concatenated
  <2> QED
    BY <2>1, <2>2, <2>3 DEF InOrder
<1>3. CASE WriteRecords
  <2>1. /\ written' = written \o w /\ accepted' = accepted /\ buffers'[activeIndex'] = b
        /\ logger'.toWrite = <<>>
    BY <1>3 DEF WriteRecords, TypeOK, Background
  <2>2. (written \o w) \o <<>> = written \o w
    BY <1>0, Concatenated
  <2> QED
    BY <2>1, <2>2 DEF InOrder
<1>4. CASE EndDestructor
  <2>1. /\ written' = written \o buffers[0] \o buffers[1] /\ accepted' = accepted
        /\ buffers'[activeIndex'] = <<>> /\ logger'.toWrite = w /\ w = <<>>
    BY <1>0, <1>4 DEF EndDestructor, Drained
  <2>2. written \o buffers[0] \o buffers[1] = written \o b
    <3>0. written \o b \in Seq(R)
      BY <1>0, Concatenated
    <3>1. (written \o b) \o <<>> = written \o b /\ written \o <<>> = written
      BY <1>0, <3>0, Concatenated
    <3>2. CASE activeIndex = 0
      <4>1. buffers[1] = <<>>
        BY <3>2 DEF TypeOK
      <4> QED
        BY <3>1, <3>2, <4>1
    <3>3. CASE activeIndex = 1
      <4>1. buffers[0] = <<>>
        BY <3>3 DEF TypeOK
      <4> QED
        BY <3>1, <3>3, <4>1
    <3>4. activeIndex = 0 \/ activeIndex = 1
      BY <1>0
    <3> QED
      BY <3>2, <3>3, <3>4
  <2>3. ((written \o b) \o <<>>) \o <<>> = (written \o <<>>) \o b
    BY <1>0, Concatenated
  <2> QED
    BY <2>1, <2>2, <2>3 DEF InOrder
<1>5. CASE UNCHANGED <<written, buffers, activeIndex, accepted>> /\ logger'.toWrite = w
  BY <1>5 DEF InOrder
<1>6. ASSUME NEW t \in Callers, Flush(t) \/ CallStep(t)
      PROVE  UNCHANGED <<written, buffers, activeIndex, accepted, logger>>
  BY <1>6 DEF Flush, CallStep, NotifyOne, FlushAgain, FlushReturn
<1>7. ASSUME NEW t \in Callers \cup {Logger}, WakeSpuriously(t)
      PROVE  UNCHANGED <<written, buffers, activeIndex, accepted, logger>>
  BY <1>7 DEF WakeSpuriously
<1>8. CASE Wait \/ BeginDestructor \/ NotifyAll \/ UNCHANGED vars
  BY <1>8 DEF InOrder, Wait, BeginDestructor, NotifyAll, vars
<1>9. CASE Check
  <2>1. UNCHANGED <<written, buffers, activeIndex, accepted>> /\ logger'.toWrite = w
    BY <1>9 DEF Check, AfterCheck, TypeOK, Background
  <2> QED
    BY <1>5, <2>1
<1> QED
  BY <1>1, <1>2, <1>3, <1>4, <1>5, <1>6, <1>7, <1>8, <1>9 DEF Next, LoggerStep, DestructorStep

LEMMA RecordsInit == Init => Drained /\ InOrder
  BY EmptySeq DEF Init, Drained, InOrder, Numbers

\* Once nothing is in the buffers or in the thread's hands, all records are written.
LEMMA AllWritten ==
    TypeOK /\ InOrder /\ logger.toWrite = <<>> /\ buffers[activeIndex] = <<>>
        => Len(written) = accepted
<1> SUFFICES ASSUME TypeOK, InOrder, logger.toWrite = <<>>, buffers[activeIndex] = <<>>
             PROVE  Len(written) = accepted
  OBVIOUS
<1>1. written \in Seq(1 .. MaxRecords) /\ <<>> \in Seq(1 .. MaxRecords) /\ accepted \in Nat
  BY AsyncLoggerAssumption, EmptySeq DEF TypeOK
<1>2. written \o <<>> \o <<>> = written
  BY <1>1, Concatenated
<1> QED
  BY <1>1, <1>2, NumbersType DEF InOrder

\* Records are written once, in the order in which they were accepted, and all of them by
\* the time the destructor returns.
THEOREM RecordsAreKept == Spec => []EachRecordOnce
<1>1. TypeOK /\ Drained /\ InOrder => EachRecordOnce
  BY AllWritten DEF Drained, InOrder, EachRecordOnce, Numbers
<1> QED
  BY <1>1, RecordsInit, TypeCorrect, DrainedStep, InOrderStep, PTL DEF Spec

-----------------------------------------------------------------------------
(* Wake-ups.                                                               *)

\* Who sleeps tells whether a flush is asked for: callers only while it is, the thread
\* only while it is not.
Sleepers ==
    /\ waiting \cap Callers # {} => flushRequested
    /\ Logger \in waiting => ~flushRequested

Pending == destructor = "notify" \/ \E t \in Callers : caller[t].at = "notify"

\* The thread does not sleep through records or the end.
Announced == Logger \in waiting /\ (stopping \/ buffers[activeIndex] # <<>>) => Pending

LEMMA SleepersStep == TypeOK /\ Sleepers /\ [Next]_vars => Sleepers'
<1> SUFFICES ASSUME TypeOK, Sleepers, [Next]_vars PROVE Sleepers'
  OBVIOUS
<1>1. ASSUME NEW t \in Callers, Log(t) \/ FlushReturn(t) PROVE Sleepers'
  BY <1>1 DEF Log, FlushReturn, Sleepers
<1>2. ASSUME NEW t \in Callers, NotifyOne(t) PROVE Sleepers'
  BY <1>2 DEF NotifyOne, OneAwake, Sleepers
<1>3. ASSUME NEW t \in Callers, Flush(t) PROVE Sleepers'
  <2>1. Logger \in waiting => waiting = {Logger}
    BY DEF Sleepers, TypeOK
  <2>2. PICK others \in OneAwake : waiting' = others \cup {t}
    BY <1>3 DEF Flush
  <2>3. Logger \notin waiting'
    BY <2>1, <2>2, AsyncLoggerAssumption DEF OneAwake
  <2> QED
    BY <1>3, <2>3 DEF Flush, Sleepers
<1>4. ASSUME NEW t \in Callers, FlushAgain(t) PROVE Sleepers'
  BY <1>4, AsyncLoggerAssumption DEF FlushAgain, Sleepers
<1>5. ASSUME NEW t \in Callers \cup {Logger}, WakeSpuriously(t) PROVE Sleepers'
  BY <1>5 DEF WakeSpuriously, Sleepers
<1>6. CASE Wait
  BY <1>6, AsyncLoggerAssumption DEF Wait, SomethingToDo, Sleepers
<1>7. CASE WriteRecords \/ BeginDestructor \/ EndDestructor
  <2>1. UNCHANGED <<waiting, flushRequested>>
    BY <1>7 DEF WriteRecords, BeginDestructor, EndDestructor
  <2> QED
    BY <2>1 DEF Sleepers
<1>11. CASE NotifyAll
  BY <1>11 DEF NotifyAll, Sleepers
<1>10. CASE Swap
  <2>1. waiting' \subseteq waiting /\ Logger \notin waiting' /\ flushRequested' = flushRequested
    BY <1>10 DEF Swap
  <2> QED
    BY <2>1 DEF Sleepers
<1>8. CASE Check
  BY <1>8 DEF Check, Sleepers
<1>9. CASE UNCHANGED vars
  BY <1>9 DEF vars, Sleepers
<1> QED
  BY <1>1, <1>2, <1>3, <1>4, <1>5, <1>6, <1>7, <1>8, <1>9,
     <1>10, <1>11 DEF Next, CallStep, LoggerStep, DestructorStep

LEMMA AnnouncedStep == TypeOK /\ Sleepers /\ Announced /\ [Next]_vars => Announced'
<1> SUFFICES ASSUME TypeOK, Sleepers, Announced, [Next]_vars, Logger \in waiting',
                    stopping' \/ buffers'[activeIndex'] # <<>>
             PROVE  Pending'
  BY DEF Announced
<1>0. Logger \in waiting => waiting = {Logger}
  BY DEF Sleepers, TypeOK
<1>1. ASSUME NEW t \in Callers, Log(t) PROVE Pending'
  BY <1>1 DEF Log, Pending, TypeOK, Call
<1>2. ASSUME NEW t \in Callers, NotifyOne(t) PROVE FALSE
  BY <1>0, <1>2 DEF NotifyOne, OneAwake
<1>3. ASSUME NEW t \in Callers, Flush(t) PROVE FALSE
  <2>1. PICK others \in OneAwake : waiting' = others \cup {t}
    BY <1>3 DEF Flush
  <2> QED
    BY <1>0, <2>1, AsyncLoggerAssumption DEF OneAwake
<1>4. ASSUME NEW t \in Callers, FlushAgain(t) PROVE Pending'
  BY <1>4, AsyncLoggerAssumption DEF FlushAgain, Announced, Pending
<1>5. ASSUME NEW t \in Callers, FlushReturn(t) PROVE Pending'
  BY <1>5 DEF FlushReturn, Announced, Pending, TypeOK
<1>6. ASSUME NEW t \in Callers \cup {Logger}, WakeSpuriously(t) PROVE Pending'
  BY <1>6 DEF WakeSpuriously, Announced, Pending
<1>7. CASE Wait
  BY <1>7 DEF Wait, SomethingToDo
<1>8. CASE Swap \/ NotifyAll
  BY <1>8 DEF Swap, NotifyAll
<1>9. CASE WriteRecords \/ Check
  BY <1>9 DEF WriteRecords, Check, TypeOK
<1>10. CASE BeginDestructor
  BY <1>10 DEF BeginDestructor, Pending
<1>11. CASE EndDestructor
  BY <1>11 DEF EndDestructor, TypeOK
<1>12. CASE UNCHANGED vars
  BY <1>12 DEF vars, Announced, Pending
<1> QED
  BY <1>1, <1>2, <1>3, <1>4, <1>5, <1>6, <1>7, <1>8, <1>9, <1>10, <1>11, <1>12
     DEF Next, CallStep, LoggerStep, DestructorStep

\* A notification never wakes a caller in place of the thread, and the thread sleeps with
\* something to do only while a notification is on its way.
THEOREM WakeUpsAreKept == Spec => []WakeUpsReachTheLogger
<1>1. Init => Sleepers /\ Announced
  BY DEF Init, Sleepers, Announced
<1>2. TypeOK /\ Sleepers /\ Announced => WakeUpsReachTheLogger
  BY DEF TypeOK, Sleepers, Announced, Pending, WakeUpsReachTheLogger, SomethingToDo
<1> QED
  BY <1>1, <1>2, TypeCorrect, SleepersStep, AnnouncedStep, PTL DEF Spec

-----------------------------------------------------------------------------
(* flush().                                                                *)

\* What a caller in flush() has to wait for has been accepted, and written when its
\* request has been answered.
Answered ==
    \A t \in Callers : caller[t].at = "flush" =>
        /\ caller[t].upTo <= accepted
        /\ ~flushRequested => caller[t].upTo <= Len(written)

LEMMA WrittenGrows ==
    TypeOK /\ [Next]_vars => Len(written') \in Nat /\ Len(written) \in Nat
                             /\ Len(written) <= Len(written')
<1> SUFFICES ASSUME TypeOK, [Next]_vars
             PROVE  Len(written') \in Nat /\ Len(written) \in Nat /\ Len(written) <= Len(written')
  OBVIOUS
<1> DEFINE S == Seq(1 .. MaxRecords)
<1>0. written \in S /\ logger.toWrite \in S /\ buffers[0] \in S /\ buffers[1] \in S
  BY DEF TypeOK, Background
<1>1. CASE WriteRecords
  BY <1>0, <1>1, Concatenated, LenProperties DEF WriteRecords
<1>2. CASE EndDestructor
  <2>1. Len(written \o buffers[0] \o buffers[1]) = Len(written) + Len(buffers[0]) + Len(buffers[1])
    BY <1>0, Concatenated
  <2> QED
    <3>1. PICK m \in Nat, i \in Nat, j \in Nat :
            m = Len(written) /\ i = Len(buffers[0]) /\ j = Len(buffers[1])
      BY <1>0, LenProperties
    <3>2. Len(written') = m + i + j
      BY <1>2, <2>1, <3>1 DEF EndDestructor
    <3>3. m + i + j \in Nat /\ m <= m + i + j
      OBVIOUS
    <3> QED
      BY <3>1, <3>2, <3>3, Zenon
<1>3. CASE ~WriteRecords /\ ~EndDestructor
  <2>1. written' = written
    BY <1>3 DEF Next, CallStep, LoggerStep, DestructorStep, Log, NotifyOne, Flush, FlushAgain,
       FlushReturn, WakeSpuriously, Wait, Swap, Check, BeginDestructor, NotifyAll, vars
  <2> QED
    BY <1>0, <2>1, LenProperties
<1> QED
  BY <1>1, <1>2, <1>3

LEMMA AnsweredStep == TypeOK /\ Drained /\ InOrder /\ Answered /\ [Next]_vars => Answered'
<1> SUFFICES ASSUME TypeOK, Drained, InOrder, Answered, [Next]_vars PROVE Answered'
  OBVIOUS
<1>0. /\ Len(written') \in Nat /\ Len(written) \in Nat /\ Len(written) <= Len(written')
      /\ accepted \in Nat /\ \A t \in Callers : caller[t].upTo \in Nat
  BY WrittenGrows, AsyncLoggerAssumption DEF TypeOK, Call
<1>1. ASSUME NEW t \in Callers, Log(t) PROVE Answered'
  BY <1>0, <1>1 DEF Log, Answered, TypeOK, Call
<1>2. ASSUME NEW t \in Callers, NotifyOne(t) \/ FlushReturn(t) PROVE Answered'
  BY <1>0, <1>2 DEF NotifyOne, FlushReturn, NoCall, Answered, TypeOK
<1>3. ASSUME NEW t \in Callers, Flush(t) PROVE Answered'
  BY <1>0, <1>3 DEF Flush, Answered, TypeOK
<1>4. CASE Check
  <2>1. UNCHANGED <<caller, accepted, written>>
    BY <1>4 DEF Check
  <2>2. CASE UNCHANGED flushRequested
    BY <2>1, <2>2 DEF Answered
  <2>3. CASE buffers[0] = <<>> /\ buffers[1] = <<>>
    <3>1. Len(written) = accepted
      BY <1>4, <2>3, AllWritten DEF Check, Drained, TypeOK
    <3> QED
      BY <2>1, <3>1 DEF Answered
  <2> QED
    BY <1>4, <2>2, <2>3 DEF Check
<1>5. CASE UNCHANGED <<caller, accepted, flushRequested>>
  BY <1>0, <1>5 DEF Answered
<1>6. CASE ~Check /\ ~ \E t \in Callers : Log(t) \/ NotifyOne(t) \/ FlushReturn(t) \/ Flush(t)
  BY <1>5, <1>6 DEF Next, CallStep, LoggerStep, DestructorStep, FlushAgain, WakeSpuriously, Wait,
     Swap, WriteRecords, BeginDestructor, NotifyAll, EndDestructor, vars
<1> QED
  BY <1>1, <1>2, <1>3, <1>4, <1>6

\* flush() returns only when every record accepted before the call has been written.
THEOREM FlushesAreComplete == Spec => FlushIsComplete
<1>1. Init => Answered
  BY DEF Init, NoCall, Answered
<1>2. TypeOK /\ Answered /\ [Next]_vars =>
        [\A t \in Callers : (caller[t].at = "flush" /\ caller'[t].at # "flush")
                                => caller[t].upTo <= Len(written)]_vars
  <2> SUFFICES ASSUME TypeOK, Answered, Next, NEW t \in Callers, caller[t].at = "flush",
                      caller'[t].at # "flush"
               PROVE  caller[t].upTo <= Len(written)
    OBVIOUS
  <2>1. \E u \in Callers : FlushReturn(u)
    BY DEF Next, TypeOK, Call, Log, Flush, NotifyOne, FlushAgain, CallStep, LoggerStep, DestructorStep,
       WakeSpuriously, Wait, Swap, WriteRecords, Check, BeginDestructor, NotifyAll, EndDestructor
  <2> QED
    BY <2>1 DEF FlushReturn, Answered
<1> QED
  BY <1>1, <1>2, TypeCorrect, RecordsInit, DrainedStep, InOrderStep, AnsweredStep, PTL
     DEF Spec, FlushIsComplete
=============================================================================
