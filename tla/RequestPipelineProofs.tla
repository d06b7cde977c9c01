------------------------ MODULE RequestPipelineProofs ------------------------
(***************************************************************************)
(* Proofs about RequestPipeline: nothing runs twice, a task pushes one      *)
(* completion with the answer that is due, and the trie of Router finds    *)
(* the route that the registrations promise.                               *)
(***************************************************************************)
EXTENDS RequestPipeline, SequenceTheorems, WellFoundedInduction, TLAPS

TypeInv ==
  /\ chain \in Nat
  /\ frames \in Seq(BOOLEAN)
  /\ ran \in Seq(Nat)

(* The stack and what has run: the frame on top called next() if something *)
(* ran after it, and those below it did.                                   *)
Stack ==
  /\ Len(frames) <= chain /\ Len(frames) <= Len(ran) /\ Len(ran) <= chain + 1
  /\ \A i \in 1 .. Len(ran) : ran[i] = i
  /\ \A i \in 1 .. Len(frames) - 1 : frames[i]
  /\ (frames # <<>> /\ ~frames[Len(frames)]) => Len(ran) = Len(frames)
  /\ step \in {"none", "queued", "dropped"} => frames = <<>> /\ ran = <<>>
  /\ ~running => step = "none"

StackInv == TypeInv /\ Stack

(* Sequences of any kind: the last entry replaced, the last one removed.   *)
LEMMA LastReplaced ==
  ASSUME NEW S, NEW s \in Seq(S), Len(s) > 0, NEW x \in S
  PROVE  LET t == [s EXCEPT ![Len(s)] = x]
         IN /\ t \in Seq(S) /\ Len(t) = Len(s) /\ t[Len(s)] = x
            /\ \A i \in 1 .. Len(s) : i # Len(s) => i \in 1 .. Len(s) - 1 /\ t[i] = s[i]
<1>1. PICK n \in Nat : n = Len(s) /\ n > 0
  OBVIOUS
<1>2. s \in [1 .. n -> S] /\ n \in 1 .. n
  BY <1>1
<1>3. [s EXCEPT ![n] = x] \in [1 .. n -> S] /\ [s EXCEPT ![n] = x][n] = x
  BY <1>2, Zenon
<1>4. \A i \in 1 .. n : i # n => [s EXCEPT ![n] = x][i] = s[i]
  BY <1>2, Zenon
<1>5. \A i \in 1 .. n : i # n => i \in 1 .. n - 1
  OBVIOUS
<1>6. \A t \in [1 .. n -> S] : t \in Seq(S) /\ Len(t) = n
  OBVIOUS
<1> QED BY <1>1, <1>3, <1>4, <1>5, <1>6, Zenon

LEMMA LastRemoved ==
  ASSUME NEW S, NEW s \in Seq(S), Len(s) > 0
  PROVE  LET t == SubSeq(s, 1, Len(s) - 1)
         IN /\ t \in Seq(S) /\ Len(t) = Len(s) - 1
            /\ \A i \in 1 .. Len(s) - 1 : t[i] = s[i]
<1>1. PICK n \in Nat : Len(s) = n + 1
  <2>1. Len(s) \in Nat /\ Len(s) > 0
    OBVIOUS
  <2> QED BY <2>1
<1>2. /\ SubSeq(s, 1, n) \in Seq(S) /\ Len(SubSeq(s, 1, n)) = n
      /\ \A i \in 1 .. n : SubSeq(s, 1, n)[i] = s[i]
  BY <1>1
<1>3. Len(s) - 1 = n
  BY <1>1
<1> QED BY <1>2, <1>3, Zenon

LEMMA InitStack == Init => StackInv
BY DEF Init, StackInv, TypeInv, Stack

(* invoke() below a stack whose frames have all called next(), when nothing *)
(* has run beyond them.                                                    *)
LEMMA InvokeStack ==
  ASSUME StackInv, running, running' = running, chain' = chain, step' = "called",
         NEW stack \in Seq(BOOLEAN), Len(stack) <= chain, Len(ran) = Len(stack),
         \A i \in 1 .. Len(stack) : stack[i],
         Invoke(stack)
  PROVE  StackInv'
<1>1. /\ ran' = Append(ran, Len(stack) + 1)
      /\ \/ frames' = stack /\ Len(stack) = chain
         \/ frames' = Append(stack, FALSE) /\ Len(stack) < chain
  <2>1. chain \in Nat /\ Len(stack) \in Nat
    BY DEF StackInv, TypeInv
  <2>2. CASE Len(stack) = chain
    BY <2>2 DEF Invoke
  <2>3. CASE Len(stack) # chain
    <3>1. frames' = Append(stack, FALSE) /\ ran' = Append(ran, Len(stack) + 1)
      BY <2>3 DEF Invoke
    <3>2. Len(stack) < chain
      BY <2>1, <2>3
    <3> QED BY <3>1, <3>2
  <2> QED BY <2>2, <2>3
<1>2. ran' \in Seq(Nat) /\ Len(ran') = Len(stack) + 1 /\ \A i \in 1 .. Len(ran') : ran'[i] = i
  BY <1>1 DEF StackInv, TypeInv, Stack
<1>3. CASE frames' = stack /\ Len(stack) = chain
  BY <1>2, <1>3 DEF StackInv, TypeInv, Stack
<1>4. CASE frames' = Append(stack, FALSE) /\ Len(stack) < chain
  <2>1. frames' \in Seq(BOOLEAN) /\ Len(frames') = Len(stack) + 1
    BY <1>4
  <2>2. \A i \in 1 .. Len(frames') - 1 : frames'[i]
    BY <1>4, <2>1
  <2> QED BY <1>2, <1>4, <2>1, <2>2 DEF StackInv, TypeInv, Stack
<1> QED BY <1>1, <1>3, <1>4

LEMMA StackStep == StackInv /\ [Next]_vars => StackInv'
<1> SUFFICES ASSUME StackInv, [Next]_vars PROVE StackInv'
  OBVIOUS
<1>1. CASE RegisterRoute
  BY <1>1 DEF RegisterRoute, task, StackInv, TypeInv, Stack
<1>2. CASE Use
  BY <1>2 DEF Use, task, StackInv, TypeInv, Stack
<1>3. CASE Run
  BY <1>3 DEF Run, task, StackInv, TypeInv, Stack
<1>4. ASSUME NEW r \in Requests, Dispatch(r) PROVE StackInv'
  BY <1>4 DEF Dispatch, StackInv, TypeInv, Stack
<1>5. CASE Abandon
  BY <1>5 DEF Abandon, StackInv, TypeInv, Stack
<1>6. CASE Begin
  <2>1. ran = <<>> /\ frames = <<>> /\ running
    BY <1>6 DEF Begin, StackInv, Stack
  <2>2. <<>> \in Seq(BOOLEAN) /\ Len(<<>>) = 0 /\ Len(<<>>) <= chain /\ Len(ran) = Len(<<>>)
    BY <2>1 DEF StackInv, TypeInv
  <2>3. Invoke(<<>>) /\ running' = running /\ chain' = chain /\ step' = "called"
    BY <1>6 DEF Begin
  <2>4. \A i \in 1 .. Len(<<>>) : <<>>[i]
    BY <2>2
  <2> QED BY <2>1, <2>2, <2>3, <2>4, InvokeStack
<1>7. CASE CallNext
  <2> DEFINE stack == [frames EXCEPT ![Len(frames)] = TRUE]
  <2>1. Len(frames) > 0 /\ frames # <<>> /\ ~frames[Len(frames)] /\ running /\ step' = "called"
    BY <1>7 DEF CallNext, InMiddleware, Top, StackInv, Stack
  <2>2. /\ stack \in Seq(BOOLEAN) /\ Len(stack) = Len(frames) /\ stack[Len(frames)] = TRUE
        /\ \A i \in 1 .. Len(frames) :
             i # Len(frames) => i \in 1 .. Len(frames) - 1 /\ stack[i] = frames[i]
    <3>1. frames \in Seq(BOOLEAN) /\ TRUE \in BOOLEAN
      BY DEF StackInv, TypeInv
    <3> QED BY <2>1, <3>1, LastReplaced
  <2>3. \A i \in 1 .. Len(stack) : stack[i]
    BY <2>2, Zenon DEF StackInv, Stack
  <2>4. Len(ran) = Len(stack) /\ Len(stack) <= chain
    BY <2>1, <2>2 DEF StackInv, TypeInv, Stack
  <2>5. Invoke(stack) /\ running' = running /\ chain' = chain
    BY <1>7 DEF CallNext, Top
  <2> QED BY <2>1, <2>2, <2>3, <2>4, <2>5, InvokeStack
<1>8. ASSUME step = "called" \/ step = "queued", step' = "called" \/ step' = "finished",
             UNCHANGED <<chain, running, frames, ran>>
      PROVE  StackInv'
  BY <1>8 DEF StackInv, TypeInv, Stack
<1>9. CASE CallNextAgain
  BY <1>8, <1>9 DEF CallNextAgain, InMiddleware
<1>10. ASSUME NEW isRaised, Middleware(isRaised) PROVE StackInv'
  BY <1>8, <1>10 DEF Middleware, InMiddleware
<1>11. CASE Leave
  <2>1. Len(frames) > 0 /\ step = "called" /\ frames' = SubSeq(frames, 1, Len(frames) - 1)
    BY <1>11 DEF Leave, InMiddleware, Top
  <2>2. /\ frames' \in Seq(BOOLEAN) /\ Len(frames') = Len(frames) - 1
        /\ \A i \in 1 .. Len(frames) - 1 : frames'[i] = frames[i]
    BY <2>1, LastRemoved DEF StackInv, TypeInv
  <2>3. \A i \in 1 .. Len(frames') : frames'[i]
    BY <2>2, Zenon DEF StackInv, Stack
  <2>4. UNCHANGED <<chain, running, step, ran>>
    BY <1>11 DEF Leave
  <2>5. TypeInv' /\ Len(frames) \in Nat /\ Len(frames') <= Len(frames)
        /\ \A i \in 1 .. Len(frames') - 1 : i \in 1 .. Len(frames')
    BY <2>1, <2>2, <2>4 DEF StackInv, TypeInv
  <2>6. Len(frames') <= chain /\ Len(frames') <= Len(ran)
    <3>1. Len(frames) <= chain /\ Len(frames) <= Len(ran) /\ chain \in Nat /\ Len(ran) \in Nat
      BY DEF StackInv, TypeInv, Stack
    <3> QED BY <2>1, <2>2, <3>1
  <2>7. frames' # <<>> => frames'[Len(frames')]
    <3>1. frames' # <<>> => Len(frames') \in 1 .. Len(frames')
      BY <2>2
    <3> QED BY <2>3, <3>1
  <2> QED BY <2>1, <2>3, <2>4, <2>5, <2>6, <2>7 DEF StackInv, Stack
<1>12. CASE TooManyRequests
  BY <1>8, <1>12 DEF TooManyRequests, Push
<1>13. CASE Reply \/ InternalError
  BY <1>8, <1>13 DEF Reply, InternalError, Push, Finished
<1>14. CASE OutOfMemory
  BY <1>8, <1>14 DEF OutOfMemory, Finished
<1>15. CASE UNCHANGED vars
  BY <1>15 DEF vars, task, StackInv, TypeInv, Stack
<1> QED
  BY <1>1, <1>2, <1>3, <1>4, <1>5, <1>6, <1>7, <1>9, <1>10, <1>11, <1>12, <1>13, <1>14, <1>15
     DEF Next, ChangeRequest, ChangeResponse, Throw, Catch

LEMMA StackAlways == Spec => []StackInv
BY InitStack, StackStep, PTL DEF Spec

(* Middleware and the terminal step run at most once, in order, for every  *)
(* length of the chain.                                                    *)
THEOREM RunsOnce == Spec => []NothingRunsTwice
<1>1. StackInv => NothingRunsTwice
  BY DEF StackInv, TypeInv, Stack, NothingRunsTwice, Terminal
<1> QED BY StackAlways, <1>1, PTL

-----------------------------------------------------------------------------
(* The answer.                                                             *)

Work ==
  /\ response = [status |-> response.status, body |-> response.body]
  /\ response.status \in Authors /\ response.body \in Authors
  /\ proxied = {} \/ (proxied = Proxies /\ Proxies # {})

Completion ==
  /\ step # "finished" => answers = <<>>
  /\ step = "finished" => Len(answers) = 1 /\ Allowed(answers[1])

AnswerInv == StackInv /\ Work /\ Completion

(* match() finds one route at most.                                        *)
LEMMA OneMatch == \A r, match : match \in Match(r) => Match(r) = {match}
BY DEF Match, Found

(* Before anything has run, nobody has written anything.                   *)
LEMMA NothingYet == chain \in Nat /\ ran = <<>> =>
                      Due = {} /\ Proxies = {} /\ Authors = {Nobody}
<1> SUFFICES ASSUME chain \in Nat, ran = <<>>
             PROVE  Due = {} /\ Proxies = {} /\ Authors = {Nobody}
  OBVIOUS
<1>1. ~Arrived
  BY DEF Arrived, Terminal
<1>2. Due = {} /\ Proxies = {}
  BY <1>1 DEF Due, Proxies
<1>3. DOMAIN ran \cap 1 .. chain = {}
  OBVIOUS
<1> QED BY <1>1, <1>2, <1>3, Zenon DEF Authors

LEMMA InitAnswer == Init => AnswerInv
<1> SUFFICES ASSUME Init PROVE Work /\ Completion
  BY InitStack DEF AnswerInv
<1>1. Authors = {Nobody}
  BY NothingYet DEF Init
<1> QED BY <1>1 DEF Init, Work, Completion

(* While the task has not begun, and when it is not concerned.             *)
LEMMA BeforeTheTask ==
  ASSUME AnswerInv, StackInv', ran = <<>>, UNCHANGED <<response, proxied, ran, answers>>,
         step # "finished", step' # "finished"
  PROVE  AnswerInv'
<1>1. Due = {} /\ Proxies = {} /\ Authors = {Nobody}
  BY NothingYet DEF AnswerInv, StackInv, TypeInv
<1>2. chain' \in Nat /\ ran' = <<>>
  BY DEF StackInv, TypeInv
<1>3. ~Arrived'
  <2>1. Len(ran') = 0
    <3>1. Len(<<>>) = 0
      OBVIOUS
    <3> QED BY <1>2, <3>1, Zenon
  <2>2. chain' + 1 # 0
    <3>1. \A n \in Nat : n + 1 # 0
      OBVIOUS
    <3> QED BY <1>2, <3>1, Zenon
  <2> QED BY <2>1, <2>2 DEF Arrived, Terminal
<1>4. Due' = {} /\ Proxies' = {}
  BY <1>3 DEF Due, Proxies
<1>5. DOMAIN ran' \cap 1 .. chain' = {}
  BY <1>2
<1>6. Authors' = {Nobody}
  BY <1>3, <1>4, <1>5, Zenon DEF Authors
<1> QED BY <1>1, <1>4, <1>6 DEF AnswerInv, Work, Completion

(* What is due depends on the trie, the chain and what has run.            *)
LEMMA DueIsKept ==
  UNCHANGED <<routes, chain, ran, routed>> => /\ Arrived' = Arrived /\ Due' = Due
                                              /\ Proxies' = Proxies /\ Authors' = Authors
<1> SUFFICES ASSUME UNCHANGED <<routes, chain, ran, routed>>
             PROVE  /\ Arrived' = Arrived /\ Due' = Due
                    /\ Proxies' = Proxies /\ Authors' = Authors
  OBVIOUS
<1>1. Arrived' = Arrived
  BY DEF Arrived, Terminal
<1>2. Due' = Due
  BY <1>1 DEF Due, Match, routes
<1>3. Proxies' = Proxies
  BY <1>2 DEF Proxies
<1> QED BY <1>1, <1>2, <1>3 DEF Authors

LEMMA TaskGoesOn ==
  ASSUME AnswerInv, StackInv', UNCHANGED <<routes, chain, ran, routed, response, proxied, answers>>,
         step # "finished", step' # "finished"
  PROVE  AnswerInv'
BY DueIsKept DEF AnswerInv, Work, Completion

(* A response left alone, filled, or with only its status set is covered.   *)
LEMMA AlsoWritten ==
  ASSUME AnswerInv, NEW author
  PROVE  {response, Filled(author), [response EXCEPT !.status = author]} \subseteq Written(author)
BY DEF AnswerInv, Work, Filled, Written

(* invoke(): a middleware starts, or the terminal step runs.               *)
LEMMA InvokeAnswer ==
  ASSUME AnswerInv, StackInv', NEW stack, Len(stack) = Len(ran), Len(stack) <= chain,
         Invoke(stack), UNCHANGED <<routes, chain, request, answers>>,
         step # "finished", step' # "finished"
  PROVE  AnswerInv'
<1>1. PICK n \in Nat : n = Len(ran) /\ Len(ran') = n + 1 /\ chain \in Nat /\ n <= chain
                       /\ DOMAIN ran \subseteq DOMAIN ran'
  BY DEF Invoke, AnswerInv, StackInv, TypeInv
<1>2. ~Arrived /\ Due = {} /\ Proxies = {} /\ proxied = {}
  <2>1. ~Arrived
    BY <1>1 DEF Arrived, Terminal
  <2> QED BY <2>1 DEF Due, Proxies, AnswerInv, Work
<1>3. Authors \ {Nobody} =
        ({ByMiddleware(i, FALSE) : i \in DOMAIN ran \cap 1 .. chain}
          \cup {ByMiddleware(i, TRUE) : i \in DOMAIN ran \cap 1 .. chain}) \ {Nobody}
  BY <1>2, Zenon DEF Authors
<1>4. Authors \ {Nobody} \subseteq Authors'
  <2>1. DOMAIN ran \cap 1 .. chain \subseteq DOMAIN ran' \cap 1 .. chain'
    BY <1>1
  <2>2. \A i, advanced : ByMiddleware(i, advanced)' = ByMiddleware(i, advanced)
    BY DEF ByMiddleware
  <2> QED BY <1>3, <2>1, <2>2, Zenon DEF Authors
<1>5. ~Arrived' \/ Due' # {} => Authors \subseteq Authors'
  BY <1>4, Zenon DEF Authors, Nobody
<1>6. CASE n < chain
  <2>1. ~Arrived'
    BY <1>1, <1>6 DEF Arrived, Terminal
  <2>2. Due' = {} /\ Proxies' = {}
    BY <2>1 DEF Due, Proxies
  <2>3. UNCHANGED <<response, proxied>>
    <3>1. Len(stack) # chain
      BY <1>1, <1>6
    <3> QED BY <3>1 DEF Invoke
  <2> QED BY <1>2, <1>5, <2>1, <2>2, <2>3 DEF AnswerInv, Work, Completion
<1>7. CASE n = chain
  <2>1. Arrived' /\ routed' = request /\ RouteRequest
    BY <1>1, <1>7 DEF Invoke, Arrived, Terminal
  <2>2. Due' = Match(request)
    BY <2>1 DEF Due, Match, routes
  <2>3. CASE Match(request) = {}
    <3>1. response' = Filled(NotFound) /\ proxied' = proxied
      BY <2>1, <2>3 DEF RouteRequest
    <3>2. NotFound \in Authors'
      BY <2>1, <2>2, <2>3 DEF Authors, NotFound
    <3> QED BY <1>2, <3>1, <3>2 DEF AnswerInv, Work, Completion, Filled, NotFound
  <2>4. ASSUME NEW match \in Match(request),
               \/ match.entry.reg.kind = "handler" /\ RunHandler(match)
               \/ match.entry.reg.kind = "echo"    /\ RunEcho(match)
               \/ match.entry.reg.kind = "proxy"   /\ RunProxy(match)
        PROVE  AnswerInv'
    <3>1. Due' = {match}
      BY <2>2, OneMatch
    <3>2. Authors \subseteq Authors' /\ ByRoute(match) \in Authors'
      BY <1>5, <3>1, Zenon DEF Authors, ByRoute
    <3>3. \/ proxied' = proxied
          \/ proxied' = {match} /\ match.entry.reg.kind = "proxy"
      BY <2>4 DEF RunHandler, RunEcho, RunProxy, Untouched
    <3>4. proxied' = {} \/ (proxied' = Proxies' /\ Proxies' # {})
      BY <1>2, <3>1, <3>3 DEF Proxies
    <3>5. response' \in Written(ByRoute(match))
      BY <2>4, AlsoWritten DEF RunHandler, RunEcho, RunProxy, Untouched
    <3>6. /\ response' = [status |-> response'.status, body |-> response'.body]
          /\ response'.status \in Authors' /\ response'.body \in Authors'
      BY <3>2, <3>5 DEF AnswerInv, Work, Written
    <3> QED BY <3>4, <3>6 DEF AnswerInv, Work, Completion
  <2> QED BY <2>1, <2>3, <2>4 DEF RouteRequest
<1> QED BY <1>1, <1>6, <1>7

(* The completion.                                                         *)
LEMMA PushAnswer ==
  ASSUME AnswerInv, StackInv', NEW answer, Push(answer), step # "finished",
         Allowed(answer), raised' = raised
  PROVE  AnswerInv'
<1>1. UNCHANGED <<routes, chain, ran, routed, response, proxied>> /\ step' = "finished"
  BY DEF Push
<1>2. Len(answers') = 1 /\ answers'[1] = answer
  BY DEF Push, AnswerInv, Completion
<1>3. Allowed(answer)'
  BY <1>1, DueIsKept DEF Allowed
<1> QED BY <1>1, <1>2, <1>3, DueIsKept DEF AnswerInv, Work, Completion

LEMMA AnswerStep == AnswerInv /\ [Next]_vars => AnswerInv'
<1> SUFFICES ASSUME AnswerInv, [Next]_vars PROVE AnswerInv'
  OBVIOUS
<1>0. StackInv'
  BY StackStep DEF AnswerInv
<1>1. ASSUME ~running, UNCHANGED task PROVE AnswerInv'
  <2>1. step = "none" /\ ran = <<>>
    BY <1>1 DEF AnswerInv, StackInv, Stack
  <2> QED BY <1>0, <1>1, <2>1, BeforeTheTask DEF task
<1>2. CASE RegisterRoute \/ Use \/ Run
  BY <1>1, <1>2 DEF RegisterRoute, Use, Run
<1>3. ASSUME NEW r \in Requests, Dispatch(r) PROVE AnswerInv'
  BY <1>0, <1>3, TaskGoesOn, BeforeTheTask DEF Dispatch, AnswerInv, StackInv, Stack
<1>4. CASE Abandon
  BY <1>0, <1>4, TaskGoesOn DEF Abandon
<1>5. CASE TooManyRequests
  <2>1. Allowed([kind |-> "limited"]) /\ step # "finished"
    BY <1>5 DEF TooManyRequests, Allowed, AnswerInv, StackInv, Stack
  <2> QED BY <1>0, <1>5, <2>1, PushAnswer DEF TooManyRequests
<1>6. CASE Begin
  <2>1. ran = <<>> /\ Len(<<>>) = Len(ran) /\ Len(<<>>) <= chain
    BY <1>6 DEF Begin, AnswerInv, StackInv, TypeInv, Stack
  <2>2. Invoke(<<>>) /\ step = "queued" /\ step' = "called" /\ UNCHANGED <<routes, chain, request, answers>>
    BY <1>6 DEF Begin
  <2> QED BY <1>0, <2>1, <2>2, InvokeAnswer
<1>7. CASE CallNext
  <2> DEFINE stack == [frames EXCEPT ![Len(frames)] = TRUE]
  <2>1. /\ Len(frames) > 0 /\ frames # <<>> /\ ~frames[Len(frames)]
        /\ step = "called" /\ step' = "called"
        /\ Invoke(stack) /\ UNCHANGED <<routes, chain, request, answers>>
    BY <1>7 DEF CallNext, InMiddleware, Top, AnswerInv, StackInv, Stack
  <2>2. Len(stack) = Len(frames)
    <3>1. frames \in Seq(BOOLEAN) /\ TRUE \in BOOLEAN
      BY DEF AnswerInv, StackInv, TypeInv
    <3> QED BY <2>1, <3>1, LastReplaced
  <2>3. Len(stack) = Len(ran) /\ Len(stack) <= chain
    BY <2>1, <2>2 DEF AnswerInv, StackInv, Stack
  <2> QED BY <1>0, <2>1, <2>3, InvokeAnswer
<1>8. CASE CallNextAgain
  BY <1>0, <1>8, TaskGoesOn DEF CallNextAgain, InMiddleware
<1>9. ASSUME NEW isRaised, Middleware(isRaised), response' = response PROVE AnswerInv'
  BY <1>0, <1>9, TaskGoesOn DEF Middleware, InMiddleware
<1>10. CASE ChangeResponse
  <2>1. ByMiddleware(Top, frames[Top]) \in Authors
    <3>1. Top \in Nat /\ Top > 0 /\ Top <= chain /\ Top <= Len(ran)
      BY <1>10 DEF ChangeResponse, Middleware, InMiddleware, Top, AnswerInv, StackInv, TypeInv, Stack
    <3>2. Top \in DOMAIN ran \cap 1 .. chain
      BY <3>1 DEF AnswerInv, StackInv, TypeInv
    <3>3. frames[Top] \in BOOLEAN
      BY <3>1 DEF Top, AnswerInv, StackInv, TypeInv
    <3>4. CASE frames[Top] = FALSE
      BY <3>2, <3>4, Zenon DEF Authors
    <3>5. CASE frames[Top] = TRUE
      BY <3>2, <3>5, Zenon DEF Authors
    <3> QED BY <3>3, <3>4, <3>5
  <2>2. response' \in Written(ByMiddleware(Top, frames[Top]))
    BY <1>10 DEF ChangeResponse
  <2>3. /\ response' = [status |-> response'.status, body |-> response'.body]
        /\ response'.status \in Authors /\ response'.body \in Authors
    BY <2>1, <2>2 DEF AnswerInv, Work, Written
  <2>4. /\ UNCHANGED <<routes, chain, step, proxied, ran, routed, answers>>
        /\ step = "called"
    BY <1>10 DEF ChangeResponse, Middleware, InMiddleware
  <2> QED BY <1>0, <2>3, <2>4, DueIsKept DEF AnswerInv, Work, Completion
<1>11. CASE Leave
  BY <1>0, <1>11, TaskGoesOn DEF Leave, InMiddleware
<1>12. CASE Reply
  <2>1. step = "called" /\ raised' = raised
    BY <1>12 DEF Reply, Finished
  <2>2. CASE proxied # {}
    <3>1. Allowed([kind |-> "upstream", of |-> proxied])
      BY <2>2 DEF Allowed, AnswerInv, Work
    <3> QED BY <1>0, <1>12, <2>1, <2>2, <3>1, PushAnswer DEF Reply
  <2>3. CASE proxied = {}
    <3>1. Allowed([kind |-> "response", of |-> response])
      BY <2>3 DEF Allowed, AnswerInv, Work
    <3> QED BY <1>0, <1>12, <2>1, <2>3, <3>1, PushAnswer DEF Reply
  <2> QED BY <2>2, <2>3
<1>13. CASE InternalError
  <2>1. step = "called" /\ raised /\ raised' = raised
    BY <1>13 DEF InternalError, Finished
  <2>2. PICK text \in {"500", ""} : Push([kind |-> "error", of |-> text])
    BY <1>13 DEF InternalError
  <2>3. Allowed([kind |-> "error", of |-> text])
    BY <2>1 DEF Allowed
  <2> QED BY <1>0, <2>1, <2>2, <2>3, PushAnswer
<1>14. CASE OutOfMemory
  BY <1>0, <1>14, TaskGoesOn DEF OutOfMemory, Finished
<1>15. CASE UNCHANGED vars
  <2>1. UNCHANGED <<routes, chain, ran, routed, response, proxied, answers, raised, step>>
    BY <1>15 DEF vars, task
  <2>2. ASSUME NEW answer PROVE Allowed(answer)' <=> Allowed(answer)
    BY <2>1, DueIsKept, Zenon DEF Allowed
  <2>3. CASE step # "finished"
    BY <1>0, <2>1, <2>3, TaskGoesOn
  <2>4. CASE step = "finished"
    <3>1. Allowed(answers[1])'
      BY <2>1, <2>2, <2>4 DEF AnswerInv, Completion
    <3> QED BY <1>0, <2>1, <2>4, <3>1, DueIsKept DEF AnswerInv, Work, Completion
  <2> QED BY <2>3, <2>4
<1> QED
  BY <1>2, <1>3, <1>4, <1>5, <1>6, <1>7, <1>8, <1>9, <1>10, <1>11, <1>12, <1>13, <1>14, <1>15
     DEF Next, ChangeRequest, Throw, Catch

(* The task is answered once, with the answer that is due, for every set   *)
(* of routes, registered in whatever order and failing wherever they may,  *)
(* and every chain of middleware.                                          *)
THEOREM AnswersAreDue == Spec => []AnswerIsDue
<1>1. AnswerInv => AnswerIsDue
  <2> SUFFICES ASSUME AnswerInv PROVE AnswerIsDue
    OBVIOUS
  <2>1. CASE step = "finished"
    <3>1. \A i \in DOMAIN answers : i = 1
      BY <2>1 DEF AnswerInv, Completion
    <3> QED BY <2>1, <3>1 DEF AnswerInv, Completion, AnswerIsDue
  <2>2. CASE step # "finished"
    BY <2>2 DEF AnswerInv, Completion, AnswerIsDue
  <2> QED BY <2>1, <2>2
<1> QED BY InitAnswer, InitStack, AnswerStep, <1>1, PTL DEF Spec

-----------------------------------------------------------------------------
(* The numbers, without and with induction, over sets.                     *)
LEMMA Least ==
  ASSUME NEW S \in SUBSET Nat, S # {}
  PROVE  \E m \in S : \A k \in S : m <= k
<1>1. IsWellFoundedOn(OpToRel(<, Nat), Nat)
  BY NatLessThanWellFounded
<1> DEFINE R == {p \in Nat \X Nat : p[1] < p[2]}
<1>2. IsWellFoundedOn(R, Nat)
  BY <1>1 DEF OpToRel
<1>3. PICK m \in S : \A k \in S : ~(<<k, m>> \in R)
  <2> HIDE DEF R
  <2> QED BY <1>2, WFMin
<1>4. ASSUME NEW k \in S PROVE ~(k < m) /\ k \in Nat /\ m \in Nat
  <2>1. k \in Nat /\ m \in Nat /\ <<k, m>> \in Nat \X Nat /\ <<k, m>>[1] = k /\ <<k, m>>[2] = m
    OBVIOUS
  <2>2. k < m => <<k, m>> \in R
    BY <2>1
  <2> QED BY <1>3, <2>1, <2>2
<1> HIDE DEF R
<1>5. \A k \in S : m <= k
  BY <1>4
<1> QED BY <1>5

LEMMA AllNumbers ==
  ASSUME NEW G, 0 \in G, \A n \in Nat : n \in G => n + 1 \in G
  PROVE  \A n \in Nat : n \in G
<1> SUFFICES ASSUME Nat \ G # {} PROVE FALSE
  OBVIOUS
<1>1. PICK m \in Nat \ G : \A k \in Nat \ G : m <= k
  BY Least
<1>2. m # 0 /\ m - 1 \in Nat /\ ~(m <= m - 1) /\ m - 1 + 1 = m
  BY <1>1
<1>3. m - 1 \in G
  BY <1>1, <1>2
<1> QED BY <1>1, <1>2, <1>3

-----------------------------------------------------------------------------
(* Paths and patterns.                                                     *)
Edge == STRING \cup {AnyText}

Texts == Seq(STRING)

NodeOf(pattern) == NodeAt(pattern, Len(pattern))

LEMMA SegmentsAre ==
  ASSUME NEW path \in Seq(STRING), SplitOK(path), AnyText \notin Range(path)
  PROVE  /\ Segments(path) \in Texts
         /\ \A i \in 1 .. Len(Segments(path)) : Segments(path)[i] # AnyText
<1>1. PICK n \in Nat : n = Len(path) /\ n > 1
  BY LenProperties DEF SplitOK
<1>2. \A i \in 1 .. n : path[i] \in STRING /\ path[i] # AnyText
  BY <1>1 DEF Range
<1>3. CASE Last(path) = Empty
  <2>1. Segments(path) = SubSeq(path, 2, n - 1)
    BY <1>1, <1>3 DEF Segments
  <2>2. /\ SubSeq(path, 2, n - 1) \in Seq(STRING)
        /\ Len(SubSeq(path, 2, n - 1)) = IF 2 <= n - 1 THEN n - 1 - 2 + 1 ELSE 0
        /\ \A i \in 1 .. n - 1 - 2 + 1 : SubSeq(path, 2, n - 1)[i] = path[2 + i - 1]
    <3>1. \A i \in 2 .. n - 1 : path[i] \in STRING
      BY <1>1, <1>2
    <3>2. 2 \in Int /\ n - 1 \in Int
      BY <1>1
    <3> QED BY <3>1, <3>2, SubSeqProperties
  <2>3. n - 1 - 2 + 1 = n - 2 /\ (2 <= n - 1 \/ n - 2 = 0) /\ \A i \in 1 .. n - 2 : 2 + i - 1 \in 1 .. n
    BY <1>1
  <2>4. Len(Segments(path)) = n - 2
    BY <2>1, <2>2, <2>3
  <2>5. \A i \in 1 .. n - 2 : Segments(path)[i] = path[2 + i - 1]
    BY <2>1, <2>2, <2>3
  <2> QED BY <1>2, <2>1, <2>2, <2>3, <2>4, <2>5 DEF Texts
<1>4. CASE Last(path) # Empty
  <2>1. Segments(path) = Tail(path)
    BY <1>4 DEF Segments
  <2>2. path # <<>>
    BY <1>1, EmptySeq
  <2>3. Tail(path) \in Seq(STRING) /\ Len(Tail(path)) = n - 1
        /\ \A i \in 1 .. Len(Tail(path)) : Tail(path)[i] = path[i + 1]
    BY <1>1, <2>2, HeadTailProperties
  <2>4. \A i \in 1 .. n - 1 : i + 1 \in 1 .. n
    BY <1>1
  <2> QED BY <1>2, <2>1, <2>3, <2>4 DEF Texts
<1> QED BY <1>3, <1>4

LEMMA NodesAre ==
  ASSUME NEW p \in Texts, NEW n \in 0 .. Len(p)
  PROVE  /\ NodeAt(p, n) \in Seq(Edge) /\ Len(NodeAt(p, n)) = n /\ n \in Nat
         /\ DOMAIN NodeAt(p, n) = 1 .. n
         /\ \A i \in 1 .. n : NodeAt(p, n)[i] = IF IsParam(p[i]) THEN AnyText ELSE p[i]
<1>1. Len(p) \in Nat /\ n \in Nat /\ \A i \in 1 .. n : i \in 1 .. Len(p) /\ p[i] \in STRING
  BY DEF Texts
<1>2. NodeAt(p, n) = [i \in 1 .. n |-> IF IsParam(p[i]) THEN AnyText ELSE p[i]]
  BY DEF NodeAt
<1>3. \A i \in 1 .. n : (IF IsParam(p[i]) THEN AnyText ELSE p[i]) \in Edge
  BY <1>1 DEF Edge
<1>4. NodeAt(p, n) \in [1 .. n -> Edge]
  BY <1>2, <1>3
<1>5. \A f \in [1 .. n -> Edge] : f \in Seq(Edge) /\ Len(f) = n /\ DOMAIN f = 1 .. n
  BY <1>1
<1> QED BY <1>1, <1>2, <1>4, <1>5

LEMMA SameNodes ==
  ASSUME NEW s \in Seq(Edge), NEW t \in Seq(Edge), Len(s) = Len(t),
         \A i \in 1 .. Len(s) : s[i] = t[i]
  PROVE  s = t
BY SeqEqual

LEMMA NodeGrows ==
  ASSUME NEW p \in Texts, NEW n \in 1 .. Len(p)
  PROVE  NodeAt(p, n) = Append(NodeAt(p, n - 1), IF IsParam(p[n]) THEN AnyText ELSE p[n])
<1> DEFINE e == IF IsParam(p[n]) THEN AnyText ELSE p[n]
           a == NodeAt(p, n - 1)
           b == NodeAt(p, n)
<1>1. n \in Nat /\ n - 1 \in 0 .. Len(p) /\ n \in 0 .. Len(p) /\ p[n] \in STRING
  BY DEF Texts
<1>2. e \in Edge
  BY <1>1 DEF Edge
<1>3. a \in Seq(Edge) /\ Len(a) = n - 1 /\ b \in Seq(Edge) /\ Len(b) = n
      /\ \A i \in 1 .. n - 1 : a[i] = IF IsParam(p[i]) THEN AnyText ELSE p[i]
  BY <1>1, NodesAre
<1>6. \A i \in 1 .. n : b[i] = IF IsParam(p[i]) THEN AnyText ELSE p[i]
  BY <1>1, NodesAre
<1>4. b[n] = e
  BY <1>1, <1>6
<1> HIDE DEF a, b, e
<1>5. /\ Append(a, e) \in Seq(Edge) /\ Len(Append(a, e)) = n - 1 + 1
      /\ \A i \in 1 .. n - 1 : Append(a, e)[i] = a[i]
      /\ Append(a, e)[n - 1 + 1] = e
  BY <1>2, <1>3, AppendProperties
<1>7. n - 1 + 1 = n /\ \A i \in 1 .. n : i \in 1 .. n - 1 \/ i = n
  BY <1>1
<1>8. \A i \in 1 .. n : b[i] = Append(a, e)[i]
  BY <1>3, <1>4, <1>5, <1>6, <1>7
<1>9. b = Append(a, e)
  BY <1>3, <1>5, <1>7, <1>8, SameNodes
<1> QED BY <1>9 DEF a, b, e

-----------------------------------------------------------------------------
(* The walk of match() exists and goes one edge further at each step.      *)
Steps(tree, segs, f, n) ==
  f = [k \in 0 .. n |-> IF k = 0 THEN <<>> ELSE Descend(tree, f[k - 1], segs[k])]

LEMMA WalkExists ==
  ASSUME NEW tree, NEW segs, NEW n \in Nat
  PROVE  \E f : Steps(tree, segs, f, n)
<1> DEFINE G == {m \in Nat : \E f : Steps(tree, segs, f, m)}
<1>1. 0 \in G
  <2>1. Steps(tree, segs, [k \in 0 .. 0 |-> <<>>], 0)
    BY \A k \in 0 .. 0 : k = 0 DEF Steps
  <2> QED BY <2>1
<1>2. ASSUME NEW m \in Nat, m \in G PROVE m + 1 \in G
  <2>1. PICK f : Steps(tree, segs, f, m)
    BY <1>2
  <2> DEFINE g == [k \in 0 .. m + 1 |-> IF k <= m THEN f[k] ELSE Descend(tree, f[m], segs[m + 1])]
  <2>2. \A k \in 0 .. m : f[k] = IF k = 0 THEN <<>> ELSE Descend(tree, f[k - 1], segs[k])
    BY <2>1 DEF Steps
  <2>3. \A k \in 0 .. m : k \in 0 .. m + 1 /\ k <= m
    OBVIOUS
  <2>4. g[m + 1] = Descend(tree, f[m], segs[m + 1]) /\ \A k \in 0 .. m : g[k] = f[k]
    BY <2>3
  <2>5. ASSUME NEW k \in 0 .. m + 1
        PROVE  g[k] = IF k = 0 THEN <<>> ELSE Descend(tree, g[k - 1], segs[k])
    <3>1. CASE k = m + 1
      <4>1. k # 0 /\ k - 1 = m /\ m \in 0 .. m
        BY <3>1
      <4>2. g[k - 1] = f[m]
        BY <2>4, <4>1
      <4> QED BY <2>4, <3>1, <4>1, <4>2
    <3>2. CASE k # m + 1
      <4>1. k \in 0 .. m /\ (k # 0 => k - 1 \in 0 .. m)
        BY <3>2
      <4>2. g[k] = f[k] /\ (k # 0 => g[k - 1] = f[k - 1])
        BY <2>4, <4>1
      <4> QED BY <2>2, <4>1, <4>2
    <3> QED BY <3>1, <3>2
  <2>6. g = [k \in 0 .. m + 1 |-> g[k]]
    OBVIOUS
  <2> HIDE DEF g
  <2>7. Steps(tree, segs, g, m + 1)
    BY <2>5, <2>6 DEF Steps
  <2> QED BY <2>7
<1> HIDE DEF G
<1>3. n \in G
  BY <1>1, <1>2, AllNumbers
<1> QED BY <1>3 DEF G

LEMMA WalkSteps ==
  ASSUME NEW tree, NEW segs \in Texts
  PROVE  LET f == Walk(tree, segs)
         IN /\ f[0] = <<>>
            /\ \A k \in 1 .. Len(segs) : f[k] = Descend(tree, f[k - 1], segs[k])
<1>1. PICK n \in Nat : n = Len(segs)
  BY DEF Texts
<1>2. \E f : Steps(tree, segs, f, n)
  BY WalkExists
<1>3. Walk(tree, segs) = CHOOSE f : Steps(tree, segs, f, n)
  BY <1>1 DEF Walk, Steps
<1> DEFINE f == Walk(tree, segs)
<1>4. Steps(tree, segs, f, n)
  BY <1>2, <1>3
<1> HIDE DEF f
<1>5. \A k \in 0 .. n : f[k] = IF k = 0 THEN <<>> ELSE Descend(tree, f[k - 1], segs[k])
  BY <1>4 DEF Steps
<1>6. \A k \in 1 .. n : k \in 0 .. n /\ k # 0
  OBVIOUS
<1>7. 0 \in 0 .. n
  OBVIOUS
<1> QED BY <1>1, <1>5, <1>6, <1>7 DEF f

(* What has been walked is a node whose edges never change again.          *)
LEMMA WalkGrows ==
  ASSUME NEW tree, NEW segs \in Texts
  PROVE  LET f == Walk(tree, segs)
         IN \A k \in 0 .. Len(segs) :
              /\ f[k] \in Seq(Edge) /\ Len(f[k]) = k
              /\ \A i \in 1 .. k : f[k][i] = f[i][i]
<1> DEFINE f == Walk(tree, segs)
<1>1. f[0] = <<>> /\ \A k \in 1 .. Len(segs) : f[k] = Descend(tree, f[k - 1], segs[k])
  BY WalkSteps
<1>2. PICK n \in Nat : n = Len(segs) /\ \A k \in 1 .. n : segs[k] \in STRING
  BY DEF Texts
<1> HIDE DEF f
<1> DEFINE Good(k) == /\ f[k] \in Seq(Edge) /\ Len(f[k]) = k
                      /\ \A i \in 1 .. k : f[k][i] = f[i][i]
           G == {k \in Nat : k <= n => Good(k)}
<1>3. 0 \in G
  <2>1. <<>> \in Seq(Edge) /\ Len(<<>>) = 0
    BY EmptySeq
  <2>2. \A i \in 1 .. 0 : FALSE
    OBVIOUS
  <2>3. Good(0)
    BY <1>1, <2>1, <2>2
  <2> HIDE DEF Good
  <2> QED BY <2>3
<1>4. ASSUME NEW k \in Nat, k \in G PROVE k + 1 \in G
  <2> SUFFICES ASSUME k + 1 <= n PROVE Good(k + 1)
    OBVIOUS
  <2>1. Good(k) /\ k + 1 \in 1 .. n /\ k + 1 - 1 = k
    BY <1>2, <1>4
  <2> DEFINE e == IF Append(f[k], segs[k + 1]) \in tree THEN segs[k + 1] ELSE AnyText
  <2>2. f[k + 1] = Append(f[k], e) /\ e \in Edge
    <3>1. f[k + 1] = Descend(tree, f[k], segs[k + 1]) /\ segs[k + 1] \in STRING
      BY <1>1, <1>2, <2>1
    <3> QED BY <3>1 DEF Descend, Edge
  <2> HIDE DEF e
  <2>3. /\ Append(f[k], e) \in Seq(Edge) /\ Len(Append(f[k], e)) = k + 1
        /\ \A i \in 1 .. k : Append(f[k], e)[i] = f[k][i]
    BY <2>1, <2>2, AppendProperties
  <2>4. ASSUME NEW i \in 1 .. k + 1 PROVE f[k + 1][i] = f[i][i]
    <3>1. CASE i = k + 1
      BY <3>1
    <3>2. CASE i # k + 1
      <4>1. i \in 1 .. k
        BY <3>2
      <4> QED BY <2>1, <2>2, <2>3, <4>1
    <3> QED BY <3>1, <3>2
  <2> QED BY <2>2, <2>3, <2>4
<1> HIDE DEF G
<1>5. \A k \in Nat : k \in G
  BY <1>3, <1>4, AllNumbers
<1>6. \A k \in 0 .. n : k \in Nat /\ k <= n
  BY <1>2
<1> QED BY <1>2, <1>5, <1>6 DEF G, f

-----------------------------------------------------------------------------
(* What the trie knows of the registrations that did not throw.            *)
Pattern(entry) == Segments(entry.reg.path)
Key(entry) == <<NodeOf(Pattern(entry)), entry.reg.method>>

Planted(entry) ==
  /\ entry.reg \in Registrations /\ SplitOK(entry.reg.path)
  /\ \A i \in 0 .. Len(Pattern(entry)) : NodeAt(Pattern(entry), i) \in nodes
  /\ \A i \in 1 .. Len(Pattern(entry)) :
       IsParam(Pattern(entry)[i]) => paramName[NodeAt(Pattern(entry), i)] = Param[Pattern(entry)[i]]

Registered ==
  /\ <<>> \in nodes
  /\ \A entry \in accepted : /\ Planted(entry)
                             /\ Key(entry) \in DOMAIN handlers /\ handlers[Key(entry)] = entry
  /\ \A k \in DOMAIN handlers : handlers[k] \in accepted /\ k = Key(handlers[k])

LEMMA PathsAre ==
  ASSUME NEW r \in Registrations \cup Requests, SplitOK(r.path)
  PROVE  /\ Segments(r.path) \in Texts
         /\ \A i \in 1 .. Len(Segments(r.path)) : Segments(r.path)[i] # AnyText
<1>1. r.path \in Seq(STRING) /\ AnyText \notin Range(r.path)
  BY RouterConstants
<1> QED BY <1>1, SegmentsAre

LEMMA PatternsAre ==
  ASSUME NEW entry, Planted(entry)
  PROVE  /\ Pattern(entry) \in Texts
         /\ \A i \in 1 .. Len(Pattern(entry)) : Pattern(entry)[i] # AnyText
BY PathsAre DEF Planted, Pattern

(* A pattern whose nodes exist fits exactly the requests the walk of which *)
(* ends at its last node.                                                  *)
LEMMA FitsIsReached ==
  ASSUME NEW entry, Planted(entry), NEW r \in Requests, SplitOK(r.path)
  PROVE  Fits(Pattern(entry), Segments(r.path)) <=> Reached(nodes, r.path) = NodeOf(Pattern(entry))
<1> DEFINE p == Pattern(entry)
           segs == Segments(r.path)
           f == Walk(nodes, segs)
<1>1. /\ p \in Texts /\ segs \in Texts
      /\ \A i \in 1 .. Len(p) : p[i] # AnyText
      /\ \A i \in 1 .. Len(segs) : segs[i] # AnyText
      /\ \A i \in 0 .. Len(p) : NodeAt(p, i) \in nodes
  BY PatternsAre, PathsAre DEF Planted
<1>2. /\ f[0] = <<>>
      /\ \A k \in 1 .. Len(segs) : f[k] = Descend(nodes, f[k - 1], segs[k])
      /\ \A k \in 0 .. Len(segs) : /\ f[k] \in Seq(Edge) /\ Len(f[k]) = k
                                   /\ \A i \in 1 .. k : f[k][i] = f[i][i]
  BY <1>1, WalkSteps, WalkGrows
<1>3. PICK n \in Nat : n = Len(segs)
  BY <1>1 DEF Texts
<1>4. PICK m \in Nat : m = Len(p)
  BY <1>1 DEF Texts
<1>5. Reached(nodes, r.path) = f[n] /\ NodeOf(p) = NodeAt(p, m)
  BY <1>3, <1>4 DEF Reached, NodeOf
<1> HIDE DEF f
<1>6. /\ NodeAt(p, 0) = <<>>
      /\ \A k \in 0 .. m : NodeAt(p, k) \in Seq(Edge) /\ Len(NodeAt(p, k)) = k
      /\ \A k \in 1 .. m : NodeAt(p, k) = Append(NodeAt(p, k - 1), IF IsParam(p[k]) THEN AnyText ELSE p[k])
  <2>1. \A k \in 0 .. m : NodeAt(p, k) \in Seq(Edge) /\ Len(NodeAt(p, k)) = k
    BY <1>1, <1>4, NodesAre
  <2>2. \A k \in 1 .. m : NodeAt(p, k) = Append(NodeAt(p, k - 1), IF IsParam(p[k]) THEN AnyText ELSE p[k])
    BY <1>1, <1>4, NodeGrows
  <2>3. NodeAt(p, 0) \in Seq(Edge) /\ Len(NodeAt(p, 0)) = 0
    BY <2>1
  <2>4. NodeAt(p, 0) = <<>>
    BY <2>3, EmptySeq
  <2> QED BY <2>1, <2>2, <2>4
<1> HIDE DEF p, segs
<1>7. ASSUME Fits(p, segs) PROVE f[n] = NodeAt(p, m)
  <2>1. /\ m = n
        /\ \A i \in 1 .. n : IF IsParam(p[i]) THEN Append(NodeAt(p, i - 1), segs[i]) \notin nodes
                                              ELSE p[i] = segs[i]
    <3>1. DOMAIN p = 1 .. m
      BY <1>1, <1>4, LenProperties DEF Texts
    <3> QED BY <1>3, <1>4, <1>7, <3>1 DEF Fits
  <2> DEFINE G == {k \in Nat : k <= n => f[k] = NodeAt(p, k)}
  <2>2. 0 \in G
    BY <1>2, <1>6
  <2>3. ASSUME NEW k \in Nat, k \in G PROVE k + 1 \in G
    <3> SUFFICES ASSUME k + 1 <= n PROVE f[k + 1] = NodeAt(p, k + 1)
      OBVIOUS
    <3>1. PICK j \in 1 .. n : j = k + 1 /\ j - 1 = k /\ j \in 1 .. m /\ j \in 0 .. Len(p) /\ j \in 1 .. Len(segs)
      BY <1>3, <1>4, <2>1
    <3>2. f[j - 1] = NodeAt(p, j - 1)
      BY <2>3, <3>1
    <3>3. f[j] = Descend(nodes, NodeAt(p, j - 1), segs[j])
      BY <1>2, <3>1, <3>2
    <3>4. NodeAt(p, j) = Append(NodeAt(p, j - 1), IF IsParam(p[j]) THEN AnyText ELSE p[j])
      BY <1>6, <3>1
    <3>5. NodeAt(p, j) \in nodes
      BY <1>1, <3>1
    <3>6. IF IsParam(p[j]) THEN Append(NodeAt(p, j - 1), segs[j]) \notin nodes ELSE p[j] = segs[j]
      BY <2>1
    <3>7. f[j] = NodeAt(p, j)
      <4> DEFINE a == NodeAt(p, j - 1)
      <4> HIDE DEF a
      <4>1. f[j] = IF Append(a, segs[j]) \in nodes THEN Append(a, segs[j]) ELSE Append(a, AnyText)
        BY <3>3 DEF Descend, a
      <4>2. NodeAt(p, j) = IF IsParam(p[j]) THEN Append(a, AnyText) ELSE Append(a, p[j])
        BY <3>4 DEF a
      <4>3. CASE IsParam(p[j])
        BY <3>6, <4>1, <4>2, <4>3 DEF a
      <4>4. CASE ~IsParam(p[j])
        BY <3>5, <3>6, <4>1, <4>2, <4>4
      <4> QED BY <4>3, <4>4
    <3> QED BY <3>1, <3>7
  <2> HIDE DEF G
  <2>4. n \in G
    BY <2>2, <2>3, AllNumbers
  <2> QED BY <2>1, <2>4 DEF G
<1>8. ASSUME f[n] = NodeAt(p, m) PROVE Fits(p, segs)
  <2>1. m = n
    <3>1. Len(f[n]) = n /\ Len(NodeAt(p, m)) = m
      BY <1>2, <1>3, <1>6
    <3> QED BY <1>8, <3>1
  <2>2. ASSUME NEW k \in 0 .. n PROVE f[k] = NodeAt(p, k)
    <3>1. ASSUME NEW i \in 1 .. k PROVE f[k][i] = NodeAt(p, k)[i]
      <4>1. i \in 1 .. n /\ n \in 0 .. n
        OBVIOUS
      <4>2. f[k][i] = f[i][i] /\ f[n][i] = f[i][i]
        BY <1>2, <1>3, <4>1
      <4>3. NodeAt(p, n)[i] = NodeAt(p, k)[i]
        <5>1. \A j \in 1 .. n : NodeAt(p, n)[j] = IF IsParam(p[j]) THEN AnyText ELSE p[j]
          <6>1. n \in 0 .. Len(p)
            BY <1>4, <2>1
          <6> QED BY <1>1, <6>1, NodesAre
        <5>2. \A j \in 1 .. k : NodeAt(p, k)[j] = IF IsParam(p[j]) THEN AnyText ELSE p[j]
          <6>1. k \in 0 .. Len(p)
            BY <1>4, <2>1
          <6> QED BY <1>1, <6>1, NodesAre
        <5> QED BY <4>1, <5>1, <5>2
      <4> QED BY <1>8, <2>1, <4>2, <4>3
    <3>2. f[k] \in Seq(Edge) /\ Len(f[k]) = k /\ NodeAt(p, k) \in Seq(Edge) /\ Len(NodeAt(p, k)) = k
      BY <1>2, <1>3, <1>6, <2>1
    <3> QED BY <3>1, <3>2, SameNodes
  <2>3. ASSUME NEW i \in 1 .. n
        PROVE  IF IsParam(p[i]) THEN Append(NodeAt(p, i - 1), segs[i]) \notin nodes ELSE p[i] = segs[i]
    <3> DEFINE a == NodeAt(p, i - 1)
               e == IF IsParam(p[i]) THEN AnyText ELSE p[i]
               x == IF Append(a, segs[i]) \in nodes THEN segs[i] ELSE AnyText
    <3>1. i - 1 \in 0 .. n /\ i \in 0 .. n /\ i \in 1 .. Len(segs) /\ i \in 1 .. m
      BY <1>3, <2>1
    <3>2. Append(a, x) = Append(a, e)
      <4>1. f[i] = Descend(nodes, f[i - 1], segs[i]) /\ f[i - 1] = a /\ f[i] = NodeAt(p, i)
        BY <1>2, <2>2, <3>1
      <4>2. NodeAt(p, i) = Append(a, e)
        BY <1>6, <3>1
      <4> QED BY <4>1, <4>2 DEF Descend
    <3>3. a \in Seq(Edge) /\ Len(a) = i - 1
      BY <1>6, <2>1, <3>1
    <3>4. segs[i] \in STRING /\ p[i] \in STRING /\ segs[i] # AnyText /\ p[i] # AnyText
      BY <1>1, <1>4, <3>1 DEF Texts
    <3>5. x \in Edge /\ e \in Edge
      BY <3>4 DEF Edge
    <3> HIDE DEF a, x, e
    <3>6. Append(a, x)[Len(a) + 1] = x /\ Append(a, e)[Len(a) + 1] = e
      BY <3>3, <3>5, AppendProperties
    <3>7. x = e
      BY <3>2, <3>6
    <3> QED BY <3>4, <3>7 DEF a, x, e
  <2>4. DOMAIN p = 1 .. m
    BY <1>1, <1>4, LenProperties DEF Texts
  <2> QED BY <1>3, <1>4, <2>1, <2>3, <2>4 DEF Fits
<1>9. Fits(p, segs) <=> Reached(nodes, r.path) = NodeOf(p)
  BY <1>5, <1>7, <1>8
<1> QED BY <1>9 DEF p, segs

(* A parameter's value is the one the pattern gives to its name.           *)
LEMMA ParamsAreOwn ==
  ASSUME NEW entry, Planted(entry), NEW r
  PROVE  ParamsAt(paramName, NodeOf(Pattern(entry)), r.path) = ParamsOf(entry, r)
<1> DEFINE p == Pattern(entry)
<1>1. PICK m \in Nat : m = Len(p) /\ DOMAIN p = 1 .. m
  BY PatternsAre, LenProperties DEF Texts
<1>2. /\ DOMAIN NodeAt(p, m) = 1 .. m
      /\ \A i \in 1 .. m : NodeAt(p, m)[i] = IF IsParam(p[i]) THEN AnyText ELSE p[i]
  <2>1. m \in 0 .. Len(p) /\ p \in Texts
    BY <1>1, PatternsAre
  <2> HIDE DEF p
  <2> QED BY <2>1, NodesAre
<1>3. ASSUME NEW i \in 1 .. m PROVE SubSeq(NodeAt(p, m), 1, i) = NodeAt(p, i)
  <2> DEFINE a == NodeAt(p, m)
             b == NodeAt(p, i)
  <2>1. p \in Texts /\ m \in 0 .. Len(p) /\ i \in 0 .. Len(p) /\ i \in Nat
    BY <1>1, PatternsAre
  <2>2. /\ a \in Seq(Edge) /\ Len(a) = m
        /\ \A j \in 1 .. m : a[j] = IF IsParam(p[j]) THEN AnyText ELSE p[j]
    BY <2>1, NodesAre
  <2>3. /\ b \in Seq(Edge) /\ Len(b) = i
        /\ \A j \in 1 .. i : b[j] = IF IsParam(p[j]) THEN AnyText ELSE p[j]
    BY <2>1, NodesAre
  <2> HIDE DEF a, b
  <2>4. /\ SubSeq(a, 1, i) \in Seq(Edge) /\ Len(SubSeq(a, 1, i)) = i
        /\ \A j \in 1 .. i : SubSeq(a, 1, i)[j] = a[j]
    <3>1. \A j \in 1 .. i : a[j] \in Edge /\ 1 + j - 1 = j
      BY <2>2, ElementOfSeq
    <3>2. /\ SubSeq(a, 1, i) \in Seq(Edge)
          /\ Len(SubSeq(a, 1, i)) = IF 1 <= i THEN i - 1 + 1 ELSE 0
          /\ \A j \in 1 .. i - 1 + 1 : SubSeq(a, 1, i)[j] = a[1 + j - 1]
      <4>1. 1 \in Int /\ i \in Int /\ \A j \in 1 .. i : a[j] \in Edge
        BY <2>1, <3>1
      <4> QED BY <4>1, SubSeqProperties
    <3>3. 1 <= i /\ i - 1 + 1 = i
      BY <2>1
    <3> QED BY <3>1, <3>2, <3>3
  <2>5. \A j \in 1 .. i : SubSeq(a, 1, i)[j] = b[j]
    BY <2>2, <2>3, <2>4
  <2>6. SubSeq(a, 1, i) = b
    BY <2>3, <2>4, <2>5, SameNodes
  <2> QED BY <2>6 DEF a, b
<1>4. \A i \in 1 .. m : p[i] # AnyText /\ (IsParam(p[i]) => paramName[NodeAt(p, i)] = Param[p[i]])
  BY <1>1, PatternsAre DEF Planted
<1> HIDE DEF p
<1>5. \A i \in 1 .. m :
        (IF NodeAt(p, m)[i] = AnyText THEN paramName[SubSeq(NodeAt(p, m), 1, i)] ELSE Empty)
          = (IF IsParam(p[i]) THEN Param[p[i]] ELSE Empty)
  BY <1>2, <1>3, <1>4
<1>6. [i \in DOMAIN NodeAt(p, m) |->
         IF NodeAt(p, m)[i] = AnyText THEN paramName[SubSeq(NodeAt(p, m), 1, i)] ELSE Empty]
        = [i \in DOMAIN p |-> IF IsParam(p[i]) THEN Param[p[i]] ELSE Empty]
  BY <1>1, <1>2, <1>5
<1>7. NodeOf(p) = NodeAt(p, m)
  BY <1>1 DEF NodeOf
<1> QED BY <1>6, <1>7 DEF ParamsAt, ParamsOf, p, Pattern

(* The walk finds what the comparison of all accepted patterns finds.      *)
LEMMA MatchIsBest ==
  ASSUME Registered, NEW r \in Requests
  PROVE  Match(r) = BestMatch(r)
<1> DEFINE node == Reached(nodes, r.path)
           k == <<node, r.method>>
           Found1(entry) == [entry |-> entry, params |-> ParamsOf(entry, r)]
           B == {entry \in accepted : /\ entry.reg.method = r.method
                                      /\ SplitOK(r.path)
                                      /\ Fits(Segments(entry.reg.path), Segments(r.path))}
<1>1. \A entry \in B : /\ k \in DOMAIN handlers /\ handlers[k] = entry
  <2> SUFFICES ASSUME NEW entry \in B PROVE k \in DOMAIN handlers /\ handlers[k] = entry
    OBVIOUS
  <2>1. Planted(entry) /\ Key(entry) \in DOMAIN handlers /\ handlers[Key(entry)] = entry
    BY DEF Registered
  <2>2. Fits(Pattern(entry), Segments(r.path)) /\ SplitOK(r.path) /\ entry.reg.method = r.method
    BY DEF Pattern
  <2>3. node = NodeOf(Pattern(entry))
    BY <2>1, <2>2, FitsIsReached
  <2>4. Key(entry) = k
    BY <2>2, <2>3 DEF Key
  <2> QED BY <2>1, <2>4
<1>2. BestMatch(r) = {Found1(entry) : entry \in B}
  BY DEF BestMatch
<1>3. CASE SplitOK(r.path) /\ k \in DOMAIN handlers
  <2> DEFINE e == handlers[k]
  <2>1. e \in accepted /\ Planted(e) /\ k = Key(e)
    BY <1>3 DEF Registered
  <2> HIDE DEF e
  <2>2. node = NodeOf(Pattern(e)) /\ e.reg.method = r.method
    BY <2>1 DEF Key
  <2>3. Fits(Segments(e.reg.path), Segments(r.path))
    BY <1>3, <2>1, <2>2, FitsIsReached DEF Pattern
  <2>4. e \in B
    BY <1>3, <2>1, <2>2, <2>3
  <2>5. B = {e}
    BY <1>1, <2>4 DEF e
  <2>6. ParamsAt(paramName, node, r.path) = ParamsOf(e, r)
    BY <2>1, <2>2, ParamsAreOwn
  <2>7. Match(r) = {[entry |-> e, params |-> ParamsAt(paramName, node, r.path)]}
    BY <1>3 DEF Match, Found, e
  <2> HIDE DEF B
  <2> QED BY <1>2, <2>5, <2>6, <2>7
<1>4. CASE ~(SplitOK(r.path) /\ k \in DOMAIN handlers)
  <2>1. B = {}
    BY <1>1, <1>4
  <2>2. Match(r) = {}
    BY <1>4 DEF Match, Found
  <2> HIDE DEF B
  <2> QED BY <1>2, <2>1, <2>2
<1> QED BY <1>3, <1>4

LEMMA WalkedThrough ==
  ASSUME NEW p \in Texts, Walked(p) = Len(p), NEW i \in 1 .. Len(p)
  PROVE  ~Refused(p, i)
<1> SUFFICES ASSUME Refused(p, i) PROVE FALSE
  OBVIOUS
<1> DEFINE S == {Len(p)} \cup {j - 1 : j \in {k \in 1 .. Len(p) : Refused(p, k)}}
<1>1. Len(p) \in Nat /\ i \in Nat /\ i <= Len(p)
  BY DEF Texts
<1>2. S \in SUBSET Nat /\ S # {} /\ i - 1 \in S
  BY <1>1
<1>3. Walked(p) = Min(S)
  BY DEF Walked
<1> HIDE DEF S
<1>4. \E m \in S : \A k \in S : m <= k
  BY <1>2, Least
<1>5. Min(S) <= i - 1
  BY <1>2, <1>4 DEF Min
<1> QED BY <1>1, <1>3, <1>5

LEMMA InitRegistered == Init => Registered
BY DEF Init, RouterInit, Registered

(* The names that are known stay; a new node gets the name of its segment. *)
LEMMA NamesStay ==
  ASSUME NEW reg, Register(reg), NEW p \in Texts, NEW i \in 1 .. Len(p), IsParam(p[i]),
         NodeAt(p, i) \in nodes'
  PROVE  paramName'[NodeAt(p, i)] = IF NodeAt(p, i) \in nodes THEN paramName[NodeAt(p, i)]
                                    ELSE Param[Segments(reg.path)[i]]
<1> DEFINE n == NodeAt(p, i)
<1>1. i \in 0 .. Len(p) /\ i \in Nat /\ i \in 1 .. i
  BY DEF Texts
<1>2. n \in Seq(Edge) /\ Len(n) = i /\ n[i] = AnyText
  BY <1>1, NodesAre
<1>3. n # <<>> /\ Last(n) = AnyText
  BY <1>1, <1>2, EmptySeq DEF Last
<1> HIDE DEF n
<1>4. paramName' = [q \in {m \in nodes' \ {<<>>} : Last(m) = AnyText} |->
                      IF q \in nodes THEN paramName[q] ELSE Param[Segments(reg.path)[Len(q)]]]
  BY DEF Register
<1>5. n \in {m \in nodes' \ {<<>>} : Last(m) = AnyText}
  BY <1>3 DEF n
<1>6. paramName'[n] = IF n \in nodes THEN paramName[n] ELSE Param[Segments(reg.path)[Len(n)]]
  BY <1>4, <1>5
<1> QED BY <1>2, <1>6 DEF n

LEMMA RegisterKeeps ==
  ASSUME Registered, NEW reg \in Registrations, Register(reg)
  PROVE  Registered'
<1> DEFINE p == Segments(reg.path)
           k == <<NodeAt(p, Len(p)), reg.method>>
<1>0. PICK e : e = [reg |-> reg, id |-> attempts + 1]
  OBVIOUS
<1>1. /\ SplitOK(reg.path) /\ nodes' = nodes \cup {NodeAt(p, i) : i \in 1 .. Walked(p)}
      /\ IF Walked(p) = Len(p) /\ ~Taken(NodeAt(p, Len(p)), reg.method)
         THEN /\ handlers' = [q \in DOMAIN handlers \cup {k} |-> IF q = k THEN e ELSE handlers[q]]
              /\ accepted' = accepted \cup {e}
         ELSE UNCHANGED <<handlers, accepted>>
  BY <1>0 DEF Register
<1>2. p \in Texts
  BY <1>1, PathsAre
<1>3. ASSUME NEW entry \in accepted PROVE Planted(entry)'
  <2>1. Planted(entry) /\ Pattern(entry) \in Texts
    BY PatternsAre DEF Registered
  <2>2. \A i \in 0 .. Len(Pattern(entry)) : NodeAt(Pattern(entry), i) \in nodes /\ NodeAt(Pattern(entry), i) \in nodes'
    BY <1>1, <2>1 DEF Planted
  <2>3. ASSUME NEW i \in 1 .. Len(Pattern(entry)), IsParam(Pattern(entry)[i])
        PROVE  paramName'[NodeAt(Pattern(entry), i)] = Param[Pattern(entry)[i]]
    <3>1. i \in 0 .. Len(Pattern(entry))
      BY <2>1 DEF Texts
    <3> QED BY <2>1, <2>2, <2>3, <3>1, NamesStay DEF Planted
  <2> QED BY <2>1, <2>2, <2>3 DEF Planted
<1>4. Pattern(e) = p /\ Key(e) = k /\ e.reg = reg
  BY <1>0 DEF Pattern, Key, NodeOf
<1>5. <<>> \in nodes'
  BY <1>1 DEF Registered
<1>6. CASE Walked(p) = Len(p) /\ ~Taken(NodeAt(p, Len(p)), reg.method)
  <2>1. Planted(e)'
    <3>2. ASSUME NEW i \in 0 .. Len(p) PROVE NodeAt(p, i) \in nodes'
      <4>1. CASE i = 0
        <5>1. 0 \in 0 .. Len(p)
          BY <1>2 DEF Texts
        <5>2. NodeAt(p, 0) \in Seq(Edge) /\ Len(NodeAt(p, 0)) = 0
          BY <1>2, <5>1, NodesAre
        <5> QED BY <1>5, <4>1, <5>2, EmptySeq
      <4>2. CASE i # 0
        <5>1. i \in 1 .. Walked(p)
          BY <1>6, <4>2
        <5> QED BY <1>1, <5>1
      <4> QED BY <4>1, <4>2
    <3>3. ASSUME NEW i \in 1 .. Len(p), IsParam(p[i]) PROVE paramName'[NodeAt(p, i)] = Param[p[i]]
      <4>1. i \in 0 .. Len(p)
        BY <1>2 DEF Texts
      <4>2. ~Refused(p, i)
        BY <1>2, <1>6, WalkedThrough
      <4>3. NodeAt(p, i) \in nodes => paramName[NodeAt(p, i)] = Param[p[i]]
        BY <3>3, <4>2 DEF Refused
      <4> QED BY <1>2, <3>2, <3>3, <4>1, <4>3, NamesStay
    <3> HIDE DEF p
    <3> QED BY <1>1, <1>4, <3>2, <3>3 DEF Planted
  <2>2. k \notin DOMAIN handlers
    BY <1>6 DEF Taken
  <2>3. /\ DOMAIN handlers' = DOMAIN handlers \cup {k} /\ handlers'[k] = e
        /\ \A q \in DOMAIN handlers : handlers'[q] = handlers[q]
    BY <1>1, <1>6, <2>2
  <2>4. accepted' = accepted \cup {e}
    BY <1>1, <1>6
  <2> HIDE DEF k
  <2>5. \A entry : Key(entry)' = Key(entry)
    BY DEF Key
  <2>6. \A entry \in accepted' : /\ Planted(entry)'
                                 /\ Key(entry) \in DOMAIN handlers' /\ handlers'[Key(entry)] = entry
    BY <1>3, <1>4, <2>1, <2>3, <2>4 DEF Registered
  <2>7. \A q \in DOMAIN handlers' : handlers'[q] \in accepted' /\ q = Key(handlers'[q])
    BY <1>4, <2>3, <2>4 DEF Registered
  <2> QED BY <1>5, <2>6, <2>7 DEF Registered
<1>7. CASE ~(Walked(p) = Len(p) /\ ~Taken(NodeAt(p, Len(p)), reg.method))
  <2>1. UNCHANGED <<handlers, accepted>>
    BY <1>1, <1>7
  <2> QED BY <1>3, <1>5, <2>1 DEF Registered
<1> QED BY <1>6, <1>7

LEMMA NextRoutes ==
  [Next]_vars => UNCHANGED routes \/ \E reg \in Registrations : RegisterNothing(reg) \/ Register(reg)
BY DEF Next, vars, routes, RegisterRoute, RouterNext, Use, Run, Dispatch, ChangeRequest, Abandon,
       TooManyRequests, Begin, CallNext, CallNextAgain, ChangeResponse, Throw, Catch, Leave,
       Reply, InternalError, OutOfMemory, Push, Middleware

LEMMA RegisteredStep == Registered /\ [Next]_vars => Registered'
<1> SUFFICES ASSUME Registered, [Next]_vars PROVE Registered'
  OBVIOUS
<1>1. ASSUME UNCHANGED <<nodes, paramName, handlers, accepted>> PROVE Registered'
  BY <1>1 DEF Registered, Planted
<1>2. CASE UNCHANGED routes
  BY <1>1, <1>2 DEF routes
<1>3. ASSUME NEW reg \in Registrations, RegisterNothing(reg) PROVE Registered'
  BY <1>1, <1>3 DEF RegisterNothing
<1> QED BY <1>2, <1>3, NextRoutes, RegisterKeeps

LEMMA RegisteredAlways == Spec => []Registered
<1>1. Registered /\ [Next]_vars => Registered'
  BY RegisteredStep
<1> QED BY InitRegistered, <1>1, PTL DEF Spec

(* match() finds the route that the registrations promise.                 *)
THEOREM MatchesArePromised == Spec => []MatchIsMostLiteral
<1>1. Registered => MatchIsMostLiteral
  BY MatchIsBest DEF MatchIsMostLiteral
<1> QED BY <1>1, RegisteredAlways, PTL

LEMMA MatchesAreBest == Registered => \A r \in Requests : Match(r) = BestMatch(r)
BY MatchIsBest

LEMMA MatchesAreBestNext == (Registered => \A r \in Requests : Match(r) = BestMatch(r))'
BY MatchesAreBest, PTL

(* A registration does not redirect the requests of another route.         *)
LEMMA RouteStays ==
  ASSUME Registered, Registered', nodes \subseteq nodes', accepted \subseteq accepted', NEW r \in Requests,
         NEW before \in Match(r), NEW after \in Match(r)'
  PROVE  \/ after = before
         \/ after.entry \notin accepted
            /\ NodeOf(Pattern(after.entry)) # NodeOf(Pattern(before.entry))
<1>1. before \in BestMatch(r) /\ after \in BestMatch(r)'
  BY MatchesAreBest, MatchesAreBestNext
<1>2. PICK b \in accepted : /\ before = [entry |-> b, params |-> ParamsOf(b, r)]
                            /\ b.reg.method = r.method /\ SplitOK(r.path)
                            /\ Fits(Segments(b.reg.path), Segments(r.path))
  BY <1>1 DEF BestMatch
<1>3. PICK a \in accepted' : /\ after = [entry |-> a, params |-> ParamsOf(a, r)]
                             /\ a.reg.method = r.method
                             /\ Fits(Segments(a.reg.path), Segments(r.path))'
  BY <1>1 DEF BestMatch
<1>4. Planted(b) /\ handlers[Key(b)] = b
  BY DEF Registered
<1>5. CASE a \in accepted
  <2>1. Planted(a) /\ handlers[Key(a)] = a
    BY <1>5 DEF Registered
  <2>2. Fits(Pattern(a), Segments(r.path)) /\ Fits(Pattern(b), Segments(r.path))
    BY <1>2, <1>3 DEF Fits, Pattern
  <2>3. NodeOf(Pattern(a)) = NodeOf(Pattern(b))
    BY <1>2, <1>4, <2>1, <2>2, FitsIsReached
  <2>4. Key(a) = Key(b)
    BY <1>2, <1>3, <2>3 DEF Key
  <2> QED BY <1>2, <1>3, <1>4, <2>1, <2>4
<1>6. CASE a \notin accepted
  <2>1. a # b /\ after.entry = a /\ before.entry = b
    BY <1>2, <1>3, <1>6
  <2>2. ASSUME NodeOf(Pattern(a)) = NodeOf(Pattern(b)) PROVE FALSE
    <3>1. Key(a) = Key(b) /\ Key(a)' = Key(a) /\ Key(b)' = Key(b)
      BY <1>2, <1>3, <2>2 DEF Key
    <3>2. handlers'[Key(a)'] = a /\ handlers'[Key(b)'] = b
      BY DEF Registered
    <3> QED BY <2>1, <3>1, <3>2
  <2> QED BY <1>6, <2>1, <2>2
<1> QED BY <1>5, <1>6

(* No registration hands the requests of a route to another.               *)
THEOREM RoutesStay == Spec => RoutesAreNotRedirected
<1>1. Registered /\ Registered' /\ [Next]_vars =>
        [attempts' # attempts =>
           \A r \in Requests : \A before \in Match(r), after \in Match(r)' :
             \/ after = before
             \/ after.entry \notin accepted /\ Place(after.entry) # Place(before.entry)]_routes
  <2> SUFFICES ASSUME Registered, Registered', [Next]_vars, ~UNCHANGED routes,
                      NEW r \in Requests, NEW before \in Match(r), NEW after \in Match(r)'
               PROVE  \/ after = before
                      \/ after.entry \notin accepted /\ Place(after.entry) # Place(before.entry)
    OBVIOUS
  <2>1. PICK reg \in Registrations : RegisterNothing(reg) \/ Register(reg)
    BY NextRoutes
  <2>2. nodes \subseteq nodes' /\ accepted \subseteq accepted'
    BY <2>1 DEF RegisterNothing, Register
  <2> QED BY <2>2, RouteStays DEF NodeOf, Pattern, Place
<1> QED BY <1>1, RegisteredAlways, PTL DEF Spec, RoutesAreNotRedirected
=============================================================================
