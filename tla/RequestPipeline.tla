--------------------------- MODULE RequestPipeline ---------------------------
(***************************************************************************)
(* One request on its way through packages/server: the kernel reads the    *)
(* body and runs the chain of middlewares (http-kernel.ts), the adapter's  *)
(* handler validates, asks the guards, runs the security middlewares of    *)
(* packages/security and calls the controller (http-adapter.ts), and the   *)
(* error chain answers for whoever failed.  Requests share nothing here.   *)
(*                                                                         *)
(* A middleware's next() returns before the handler is done, and nothing   *)
(* stops a middleware from going on after it, calling it again, or failing *)
(* beside the handler it started.                                          *)
(*                                                                         *)
(* An answer is a call of res.end.  An error is typed (ValidationException *)
(* and HttpError, which the adapter's error middleware answers at once),   *)
(* plain (given to onError, by default answered unless headersSent), or    *)
(* falsy: a promise rejected with undefined.                               *)
(***************************************************************************)
EXTENDS Naturals

CONSTANTS
    MaxMiddlewares,   \* bound: middlewares of the kernel
    MaxGuards,        \* bound: guards of the route
    MaxSecurities,    \* bound: security middlewares of the route
    MaxDispatches,    \* bound: how often the chain reaches the route
    MaxActs,          \* bound: how often a middleware answers, passes on or fails
    Detaches          \* whether security middlewares await their next(): TRUE
                      \* for one that does not

ASSUME RequestPipelineAssumption ==
    /\ {MaxMiddlewares, MaxGuards, MaxSecurities, MaxDispatches, MaxActs} \subseteq Nat
    /\ Detaches \subseteq BOOLEAN

VARIABLES
    request,      \* what it meets: the kind of its route and the numbers of
                  \* middlewares, guards and security middlewares
    phase,        \* of the kernel's app function
    position,     \* idx of runNext: how many middlewares were called
    acts,         \* per middleware: how often it answered, passed on or failed
    handling,     \* per dispatch of the route: the progress of handleRequest,
                  \* with two histories: the controller has answered, a security
                  \* middleware has not awaited its next()
    answers       \* how often res.end was called

vars == <<request, phase, position, acts, handling, answers>>

Errors == {"typed", "plain", "falsy"}

Handlings ==
    [at : {"unused", "guard", "security", "controller", "rejected", "ended"},
     guard : 0..MaxGuards,
     security : [1..MaxSecurities ->
                    {"unused", "running", "awaiting", "detached",
                     "passed", "refused", "failed"}],
     blocked : BOOLEAN,
     error : Errors,
     answered : BOOLEAN,
     loose : BOOLEAN]

Unused ==
    [at |-> "unused", guard |-> 0, security |-> [i \in 1..MaxSecurities |-> "unused"],
     blocked |-> FALSE, error |-> "plain", answered |-> FALSE, loose |-> FALSE]

TypeOK ==
    /\ request \in [route : {"missing", "invalid", "valid"},
                    middlewares : 0..MaxMiddlewares,
                    guards : 0..MaxGuards,
                    securities : 0..MaxSecurities]
    /\ phase \in {"body", "running", "refused", "crashed"}
    /\ position \in 0..request.middlewares
    /\ acts \in [1..MaxMiddlewares -> 0..MaxActs]
    /\ handling \in [1..MaxDispatches -> Handlings]
    /\ answers \in Nat

Init ==
    /\ request \in [route : {"missing", "invalid", "valid"},
                    middlewares : 0..MaxMiddlewares,
                    guards : 0..MaxGuards,
                    securities : 0..MaxSecurities]
    /\ phase = "body"
    /\ position = 0
    /\ acts = [i \in 1..MaxMiddlewares |-> 0]
    /\ handling = [d \in 1..MaxDispatches |-> Unused]
    /\ answers = 0

-----------------------------------------------------------------------------
\* The answers there are when runErrorChain has dealt with error e.  The
\* kernel's last resort answers, like onError, only if nobody has.
AnswersTo(e) == IF e = "typed" \/ answers = 0 THEN answers + 1 ELSE answers

\* Mutant: the loop over the guards makes one turn too many.
PastGuardsOneMore(h, n) ==
    CASE n <= request.guards -> [h EXCEPT !.at = "guard", !.guard = n]
      [] n > request.guards /\ request.securities > 0 ->
             [h EXCEPT !.at = "security", !.guard = n, !.security[1] = "running"]
      [] OTHER -> [h EXCEPT !.at = "controller", !.guard = n]

\* handleRequest once n guards have allowed the request.
PastGuards(h, n) ==
    CASE n < request.guards -> [h EXCEPT !.at = "guard", !.guard = n]
      [] n = request.guards /\ request.securities > 0 ->
             [h EXCEPT !.at = "security", !.guard = n, !.security[1] = "running"]
      [] OTHER -> [h EXCEPT !.at = "controller", !.guard = n]

\* A handling that is over: only security middlewares that nobody awaits may
\* still be running.
Over(h, at, e) == [(IF h.loose THEN h ELSE Unused) EXCEPT !.at = at, !.error = e, !.answered = h.answered]

Rejected(h, e) == Over(h, "rejected", e)

\* The chain has come to its end.
Dispatch ==
    \E d \in 1..MaxDispatches :
        /\ handling[d].at = "unused"
        /\ \A e \in 1..(d - 1) : handling[e].at # "unused"
        /\ handling' = [handling EXCEPT ![d] =
                           IF request.route = "invalid"
                           THEN Rejected(@, "typed")
                           ELSE PastGuards(@, 0)]

\* runNext() without an error, called by the kernel or a middleware.  A path has
\* no parameters to decode: toPathRegex makes none of a pattern that has them,
\* as it escapes the colon before it looks for it.
RunNext ==
    \/ /\ position < request.middlewares
       /\ position' = position + 1
       /\ UNCHANGED <<handling, answers>>
    \/ /\ position = request.middlewares
       /\ request.route = "missing"
       /\ answers' = answers + 1
       /\ UNCHANGED <<position, handling>>
    \/ /\ position = request.middlewares
       /\ request.route \in {"invalid", "valid"}
       /\ Dispatch
       /\ UNCHANGED <<position, answers>>

-----------------------------------------------------------------------------
(* The kernel and its middlewares.                                         *)

\* The body is too large or not JSON, or the URL is none.
BodyRefused ==
    /\ phase = "body"
    /\ phase' = "refused"
    /\ answers' = answers + 1
    /\ UNCHANGED <<request, position, acts, handling>>

BodyRead ==
    /\ phase = "body"
    /\ phase' = "running"
    /\ RunNext
    /\ UNCHANGED <<request, acts>>

\* A middleware may act from when it is called, before and after it returns.
Act(i) ==
    /\ phase = "running"
    /\ i <= position
    /\ acts[i] < MaxActs
    /\ acts' = [acts EXCEPT ![i] = @ + 1]
    /\ UNCHANGED <<request, phase>>

MiddlewareAnswers(i) ==
    /\ Act(i)
    /\ answers' = answers + 1
    /\ UNCHANGED <<position, handling>>

MiddlewarePasses(i) == Act(i) /\ RunNext

\* next(error), or the middleware throws.
MiddlewareFails(i, e) ==
    /\ Act(i)
    /\ answers' = AnswersTo(e)
    /\ UNCHANGED <<position, handling>>

-----------------------------------------------------------------------------
(* handleRequest.  Its guards are asked one after another.                 *)

At(d, at) == phase = "running" /\ handling[d].at = at

\* What a step inside handling d leaves alone.
Inside == UNCHANGED <<request, phase, position, acts>>

GuardAllows(d) ==
    /\ At(d, "guard")
    /\ handling' = [handling EXCEPT ![d] = PastGuards(@, @.guard + 1)]
    /\ Inside
    /\ UNCHANGED answers

\* A guard that returns false is an HttpError; it may also throw.
GuardRefuses(d, e) ==
    /\ At(d, "guard")
    /\ handling' = [handling EXCEPT ![d] = Rejected(@, e)]
    /\ Inside
    /\ UNCHANGED answers

-----------------------------------------------------------------------------
(* applySecurityMiddlewares: each is called by the next() of the one       *)
(* before it.                                                              *)

Active(d, i) ==
    /\ phase = "running"
    /\ \/ handling[d].security[i] \in {"running", "detached"}
       \/ /\ handling[d].security[i] = "awaiting"
          /\ i < request.securities => handling[d].security[i + 1] \in {"passed", "refused"}

SecurityProceeds(d, i, status) ==
    /\ phase = "running"
    /\ handling[d].security[i] = "running"
    /\ handling' = [handling EXCEPT
                       ![d].security = [k \in 1..MaxSecurities |->
                                           CASE k = i -> status
                                             [] k = i + 1 /\ k <= request.securities -> "running"
                                             [] OTHER -> @[k]],
                       ![d].loose = @ \/ status = "detached"]
    /\ Inside
    /\ UNCHANGED answers

\* Security middleware i returns.  One that has not called next() refuses.
Returned(h, i, blocked) ==
    [h EXCEPT !.security[i] = IF @ = "running" THEN "refused" ELSE "passed",
              !.blocked = blocked]

\* Mutant: only the first one's own next() counts.
SecurityReturnsOutermost(d, i) ==
    LET blocked == i = 1 /\ handling[d].security[i] = "running"
        h == Returned(handling[d], i, blocked)
    IN
    /\ Active(d, i)
    /\ handling' = [handling EXCEPT ![d] =
                       CASE i > 1 -> h
                         [] i = 1 /\ blocked -> Rejected(h, "typed")
                         [] i = 1 /\ ~blocked -> [h EXCEPT !.at = "controller"]]
    /\ Inside
    /\ UNCHANGED answers

\* Mutant: a blocked request is not an error.
SecurityReturnsQuietly(d, i) ==
    LET blocked == handling[d].blocked \/ handling[d].security[i] = "running"
        h == Returned(handling[d], i, blocked)
    IN
    /\ Active(d, i)
    /\ handling' = [handling EXCEPT ![d] =
                       CASE i > 1 -> h
                         [] i = 1 /\ blocked -> Over(h, "ended", "plain")
                         [] i = 1 /\ ~blocked -> [h EXCEPT !.at = "controller"]]
    /\ Inside
    /\ UNCHANGED answers

\* When the first returns the outcome is looked at: an HttpError if any has
\* refused by then, or the controller is called.
SecurityReturns(d, i) ==
    LET blocked == handling[d].blocked \/ handling[d].security[i] = "running"
        h == Returned(handling[d], i, blocked)
    IN
    /\ Active(d, i)
    /\ handling' = [handling EXCEPT ![d] =
                       CASE i > 1 -> h
                         [] i = 1 /\ blocked -> Rejected(h, "typed")
                         [] i = 1 /\ ~blocked -> [h EXCEPT !.at = "controller"]]
    /\ Inside
    /\ UNCHANGED answers

\* One throws.  The rejection reaches the handler through those that await
\* it; where one does not, nobody handles it and the process ends.
SecurityThrows(d, i, e) ==
    LET heard == \A k \in 1..(i - 1) : handling[d].security[k] = "awaiting"
        failed == [handling[d] EXCEPT !.security[i] = "failed"]
    IN
    /\ Active(d, i)
    /\ handling' = [handling EXCEPT ![d] = IF heard THEN Rejected(failed, e) ELSE failed]
    /\ phase' = IF heard THEN phase ELSE "crashed"
    /\ UNCHANGED <<request, position, acts, answers>>

-----------------------------------------------------------------------------
(* The controller, and what the adapter makes of its outcome.              *)

ControllerAnswers(d) ==
    /\ At(d, "controller")
    /\ ~handling[d].answered
    /\ handling' = [handling EXCEPT ![d].answered = TRUE]
    /\ answers' = answers + 1
    /\ Inside

\* Mutant: the result is sent whether or not headersSent.
ControllerReturnsUnchecked(d) ==
    /\ At(d, "controller")
    /\ handling' = [handling EXCEPT ![d] = Over(@, "ended", "plain")]
    /\ answers' = answers + 1
    /\ Inside

ControllerReturns(d) ==
    /\ At(d, "controller")
    /\ handling' = [handling EXCEPT ![d] = Over(@, "ended", "plain")]
    /\ answers' = IF answers = 0 THEN 1 ELSE answers
    /\ Inside

\* It throws, or what it returns cannot be serialised.
ControllerThrows(d, e) ==
    /\ At(d, "controller")
    /\ handling' = [handling EXCEPT ![d] = Rejected(@, e)]
    /\ Inside
    /\ UNCHANGED answers

\* handleRequest(...).catch(next): next ignores an error that is falsy.
HandlingRejects(d) ==
    /\ At(d, "rejected")
    /\ handling' = [handling EXCEPT ![d].at = "ended"]
    /\ answers' = IF handling[d].error = "falsy" THEN answers ELSE AnswersTo(handling[d].error)
    /\ Inside

-----------------------------------------------------------------------------
SecuritySettles(d, i) ==
    \/ SecurityProceeds(d, i, "awaiting")
    \/ TRUE \in Detaches /\ SecurityProceeds(d, i, "detached")
    \/ SecurityReturns(d, i)
    \/ \E e \in Errors : SecurityThrows(d, i, e)

HandlingSettles(d) ==
    \/ GuardAllows(d) \/ (\E e \in Errors : GuardRefuses(d, e))
    \/ ControllerReturns(d) \/ (\E e \in Errors : ControllerThrows(d, e))
    \/ HandlingRejects(d)

MiddlewareActs(i) ==
    MiddlewareAnswers(i) \/ MiddlewarePasses(i) \/ (\E e \in Errors : MiddlewareFails(i, e))

Next ==
    \/ BodyRefused \/ BodyRead
    \/ \E i \in 1..MaxMiddlewares : MiddlewareActs(i)
    \/ \E d \in 1..MaxDispatches :
           \/ HandlingSettles(d) \/ ControllerAnswers(d)
           \/ \E i \in 1..MaxSecurities : SecuritySettles(d, i)

Spec == Init /\ [][Next]_vars

\* The body of a request ends or fails; a middleware does something with the
\* request; guards, security middlewares and controllers settle.
FairSpec ==
    /\ Spec
    /\ WF_vars(BodyRefused \/ BodyRead)
    /\ \A i \in 1..MaxMiddlewares : WF_vars(acts[i] = 0 /\ MiddlewareActs(i))
    /\ \A d \in 1..MaxDispatches :
          /\ WF_vars(HandlingSettles(d))
          /\ \A i \in 1..MaxSecurities : WF_vars(SecuritySettles(d, i))

-----------------------------------------------------------------------------
\* A request is answered at most once when each middleware does one thing
\* with it -- answers, passes on, or fails -- whatever guards and security
\* middlewares throw or leave running, and also if the controller answers
\* through the response and returns or throws afterwards; only not if what it
\* throws then is a ValidationException, which is answered unchecked.
AnsweredOnce ==
    (\A i \in 1..MaxMiddlewares : acts[i] <= 1)
        /\ (\A d \in 1..MaxDispatches : handling[d].answered => handling[d].error # "typed")
        => answers <= 1

\* The controller of a route is called only for a request that is valid, that
\* every guard has allowed and that no security middleware has refused,
\* however deep in the chain -- as far as they await one another.
ControllerAfterChecks ==
    \A d \in 1..MaxDispatches :
        LET h == handling[d] IN
        h.at = "controller" =>
            /\ request.route = "valid"
            /\ h.guard = request.guards
            /\ h.loose \/ \A i \in 1..request.securities : h.security[i] = "passed"

\* "All middleware run before the controller handler" (USAGE.md 4.2): when it
\* is called each security middleware of the route has run to its end.
SecurityBeforeController ==
    \A d \in 1..MaxDispatches :
        handling[d].at = "controller" =>
            \A i \in 1..request.securities : handling[d].security[i] = "passed"

\* Every request is answered, whoever refuses it or throws, unless its
\* handler was rejected with a falsy reason or the process has ended.
EveryRequestAnswered ==
    <>(\/ answers > 0
       \/ phase = "crashed"
       \/ \E d \in 1..MaxDispatches : handling[d].at = "ended" /\ handling[d].error = "falsy")

=============================================================================
