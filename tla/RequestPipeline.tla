--------------------------- MODULE RequestPipeline ---------------------------
(***************************************************************************)
(* What a worker does with one request (the task of dispatchToThreadPool): *)
(* the rate limit, the middleware chain of Middleware.cpp, the terminal    *)
(* step routeRequest over the trie of Router, and the completion.  The     *)
(* program first registers routes and middleware, then runs.  Middleware   *)
(* and handlers are user code: they may change what they are given, call   *)
(* next() more than once, throw, and catch what the rest of the chain      *)
(* throws.  Tasks share nothing they write, so one request is enough.      *)
(***************************************************************************)
EXTENDS Router

CONSTANT kMaxMiddleware  \* the longest chain MiddlewarePipeline::add accepts

ASSUME PipelineConstants == kMaxMiddleware \in Nat

VARIABLES
  running,   \* ApiGateway::running_
  chain,     \* the number of middleware; they are 1 .. chain
  step,      \* of the task: "none", "queued", "called", "finished", "dropped"
  frames,    \* middleware whose call has not returned, and their `advanced'
  request,   \* as middleware has left it
  response,  \* who wrote its status line and who its body
  proxied,   \* proxiedBytes: the match whose upstream answered, if any
  raised,    \* an exception is on its way up
  ran,       \* history: what was invoked, chain + 1 being the terminal step
  routed,    \* history: the request the terminal step was given
  answers    \* history: what the task pushed on the completion queue

task == <<step, frames, request, response, proxied, raised, ran, routed, answers>>
vars == <<routes, running, chain, task>>

(* Who may have written something.                                         *)
Nobody        == <<"nobody">>
NotFound      == <<"not found">>
ByRoute(match) == <<"route", match>>
ByMiddleware(i, advanced) == <<"middleware", i, advanced>>  \* after its next() or before

Terminal == chain + 1

-----------------------------------------------------------------------------
(* Registration; use() throws once the reactor runs and past the limit.    *)
Use ==
  /\ ~running /\ chain < kMaxMiddleware
  /\ chain' = chain + 1
  /\ UNCHANGED <<routes, running, task>>

RegisterRoute == ~running /\ RouterNext /\ UNCHANGED <<running, chain, task>>

Run == ~running /\ running' = TRUE /\ UNCHANGED <<routes, chain, task>>

Dispatch(r) ==
  /\ running /\ step = "none"
  /\ step' = "queued" /\ request' = r
  /\ UNCHANGED <<routes, running, chain, frames, response, proxied, raised, ran, routed, answers>>

-----------------------------------------------------------------------------
Filled(author) == [status |-> author, body |-> author]

(* The response after code that writes its status, its body, both or none. *)
Written(author) ==
  [status : {response.status, author}, body : {response.body, author}]

Untouched == UNCHANGED <<proxied, response>>

(* A handler writes what it likes, and may throw before or after that.     *)
RunHandler(match) ==
  /\ proxied' = proxied
  /\ raised' \in BOOLEAN
  /\ response' \in Written(ByRoute(match))

(* A typed handler sees the parameters only; the echo is written after it. *)
RunEcho(match) ==
  \/ raised' = FALSE /\ response' = Filled(ByRoute(match)) /\ proxied' = proxied
  \/ raised' = TRUE /\ Untouched

(* forward() has an answer even when the upstream has none; only running   *)
(* out of memory makes it throw.  A status that can be read is copied.     *)
RunProxy(match) ==
  \/ /\ raised' = FALSE /\ proxied' = {match}
     /\ response' \in {response, [response EXCEPT !.status = ByRoute(match)]}
  \/ raised' = TRUE /\ Untouched

RouteRequest ==
  \/ /\ Match(request) = {}
     /\ response' = Filled(NotFound)
     /\ UNCHANGED <<proxied, raised>>
  \/ \E match \in Match(request) :
       \/ match.entry.reg.kind = "handler" /\ RunHandler(match)
       \/ match.entry.reg.kind = "echo"    /\ RunEcho(match)
       \/ match.entry.reg.kind = "proxy"   /\ RunProxy(match)

(* MiddlewarePipeline::invoke, below the frames that are on the stack.     *)
Invoke(stack) ==
  /\ ran' = Append(ran, Len(stack) + 1)
  /\ IF Len(stack) = chain
     THEN frames' = stack /\ routed' = request /\ RouteRequest
     ELSE frames' = Append(stack, FALSE) /\ UNCHANGED <<routed, response, proxied, raised>>

-----------------------------------------------------------------------------
Push(answer) ==
  /\ step' = "finished"
  /\ answers' = Append(answers, answer)
  /\ UNCHANGED <<routes, running, chain, frames, request, response, proxied, ran, routed>>

(* abandoningWork_: the reactor has left its loop.                         *)
Abandon ==
  /\ step = "queued" /\ step' = "dropped"
  /\ UNCHANGED <<routes, running, chain, frames, request, response, proxied, raised, ran, routed, answers>>

TooManyRequests == step = "queued" /\ Push([kind |-> "limited"]) /\ raised' = raised

Begin ==
  /\ step = "queued" /\ step' = "called"
  /\ Invoke(<<>>)
  /\ UNCHANGED <<routes, running, chain, request, answers>>

Top == Len(frames)
InMiddleware == step = "called" /\ Top > 0

\* Seeded fault: `advanced' is not looked at.
CallNextUnchecked ==
  /\ InMiddleware /\ ~raised
  /\ Invoke([frames EXCEPT ![Top] = TRUE])
  /\ UNCHANGED <<routes, running, chain, step, request, answers>>

(* Next::operator(): a second call throws into the middleware that made it *)
CallNext ==
  /\ InMiddleware /\ ~raised /\ ~frames[Top]
  /\ Invoke([frames EXCEPT ![Top] = TRUE])
  /\ UNCHANGED <<routes, running, chain, step, request, answers>>

CallNextAgain ==
  /\ InMiddleware /\ ~raised /\ frames[Top]
  /\ raised' = TRUE
  /\ UNCHANGED <<routes, running, chain, step, frames, request, response, proxied, ran, routed, answers>>

Middleware(isRaised) ==  \* the middleware's own code, its call going on
  /\ InMiddleware /\ raised' = isRaised
  /\ UNCHANGED <<routes, running, chain, step, frames, proxied, ran, routed, answers>>

ChangeRequest(r) == ~raised /\ Middleware(FALSE) /\ request' = r /\ UNCHANGED response

ChangeResponse ==
  /\ ~raised /\ Middleware(FALSE) /\ UNCHANGED request
  /\ response' \in Written(ByMiddleware(Top, frames[Top]))

Throw == ~raised /\ Middleware(TRUE) /\ UNCHANGED <<request, response>>

Catch == raised /\ Middleware(FALSE) /\ UNCHANGED <<request, response>>

(* The call returns, or the exception leaves it.                           *)
Leave ==
  /\ InMiddleware
  /\ frames' = SubSeq(frames, 1, Top - 1)
  /\ UNCHANGED <<routes, running, chain, step, request, response, proxied, raised, ran, routed, answers>>

-----------------------------------------------------------------------------
Finished == step = "called" /\ Top = 0

\* Seeded fault: the response is sent, whatever the upstream replied.
ReplyFromResponse ==
  Finished /\ ~raised /\ raised' = raised /\ Push([kind |-> "response", of |-> response])

(* An upstream's reply goes out as it came, whatever response holds.       *)
Reply ==
  /\ Finished /\ ~raised /\ raised' = raised
  /\ Push(IF proxied # {} THEN [kind |-> "upstream", of |-> proxied]
                          ELSE [kind |-> "response", of |-> response])

(* The last resort; empty if not even the 500 can be built.                *)
InternalError ==
  /\ raised /\ raised' = raised
  /\ Finished
  /\ \E text \in {"500", ""} : Push([kind |-> "error", of |-> text])

(* No memory to build the request or to serialise the response.            *)
OutOfMemory ==
  /\ step = "queued" \/ (Finished /\ ~raised)
  /\ raised' = TRUE /\ step' = "called"
  /\ UNCHANGED <<routes, running, chain, frames, request, response, proxied, ran, routed, answers>>

-----------------------------------------------------------------------------
Init ==
  /\ RouterInit
  /\ running = FALSE /\ chain = 0
  /\ step = "none"
  /\ frames = <<>>
  /\ request = Nobody
  /\ response = [status |-> Nobody, body |-> Nobody]
  /\ proxied = {}
  /\ raised = FALSE
  /\ ran = <<>>
  /\ routed = request
  /\ answers = <<>>

Next ==
  \/ RegisterRoute \/ Use \/ Run
  \/ \E r \in Requests : Dispatch(r) \/ ChangeRequest(r)
  \/ Abandon \/ TooManyRequests \/ Begin
  \/ CallNext \/ CallNextAgain \/ ChangeResponse \/ Throw \/ Catch \/ Leave
  \/ Reply \/ InternalError \/ OutOfMemory

Spec == Init /\ [][Next]_vars

-----------------------------------------------------------------------------
(* Router.cpp:225-267 and 97-167: match() finds exactly that route, with    *)
(* the values its own pattern gives to its own parameter names, whatever   *)
(* was registered before and after it and whichever registrations threw    *)
(* half way through their path.                                            *)
MatchIsMostLiteral == running \/ \A r \in Requests : Match(r) = BestMatch(r)

(* Middleware.hpp:22-27, Middleware.cpp:19-50: every middleware and the     *)
(* terminal step run at most once per request, in the order of             *)
(* registration, whatever the middleware do with next() and with what the  *)
(* rest of the chain throws at them.                                       *)
NothingRunsTwice == Len(ran) <= Terminal /\ \A i \in DOMAIN ran : ran[i] = i

(* Once the terminal step has run, the route that is due is the one match() *)
(* finds for the request as the chain passed it on (the one promised: see  *)
(* MatchIsMostLiteral); what a response may be made of until then and      *)
(* afterwards; and which answers are right.                                *)
Arrived == Len(ran) = Terminal
Due     == IF Arrived THEN Match(routed) ELSE {}
Proxies == {match \in Due : match.entry.reg.kind = "proxy"}
Authors ==
  {ByMiddleware(i, FALSE) : i \in DOMAIN ran \cap 1 .. chain}
    \cup {ByMiddleware(i, TRUE) : i \in DOMAIN ran \cap 1 .. chain}
    \cup {ByRoute(match) : match \in Due}
    \cup {IF Arrived /\ Due = {} THEN NotFound ELSE Nobody}
Allowed(answer) ==
  CASE answer.kind = "limited"  -> ran = <<>>
    [] answer.kind = "error"    -> raised
    [] answer.kind = "upstream" -> answer.of = Proxies /\ Proxies # {}
    [] answer.kind = "response" -> proxied = {} /\ {answer.of.status, answer.of.body} \subseteq Authors

(* ApiGateway.cpp:661-713 and 754-784: a request that is not dropped is     *)
(* answered once.  Refused by the rate limit, nothing has run.  Otherwise  *)
(* it gets the reply of the upstream of the route that is due, which goes  *)
(* out whatever the response has become (ApiGateway.hpp:103-105: the       *)
(* response only mirrors it; but see LaterChangesAreSent), or a response   *)
(* written by what has run: middleware, the route that is due, the 404 if  *)
(* there is none.  A reply that came is never lost but to an exception,    *)
(* and only an exception makes a 500.                                      *)
AnswerIsDue ==
  /\ Len(answers) = (IF step = "finished" THEN 1 ELSE 0)
  /\ \A i \in DOMAIN answers : Allowed(answers[i])

(* Middleware.hpp:42-45, "A middleware may inspect or change the request,   *)
(* call next() to continue, and inspect or change the response             *)
(* afterwards": what a middleware has written after next() is in the       *)
(* response that is sent, if one is sent and nothing was thrown.           *)
LaterChangesAreSent ==
  \A i \in DOMAIN answers, j \in 1 .. chain, part \in {"status", "body"} :
    (answers[i].kind \in {"upstream", "response"} /\ response[part] = ByMiddleware(j, TRUE))
      => answers[i] = [kind |-> "response", of |-> response]
=============================================================================
