------------------------------ MODULE Offload ------------------------------
(***************************************************************************)
(* A method decorated with @Offload: each call starts a worker thread and  *)
(* settles with the first message or error of it, until a timer terminates *)
(* it (performance/src/pipeline/offload.ts).                               *)
(***************************************************************************)
EXTENDS Naturals

CONSTANTS OffloadCalls

VARIABLES worker,  \* per call: "none", "refused", "running", "terminated", "ended"
          timer,   \* per call: "none", "set", "cleared", "fired"
          events,  \* per call: what the worker has emitted and the main thread not seen
          promise, \* per call: "pending", "resolved", "rejected"
          emitted  \* history: whether the worker of a call has emitted anything

offloadVars == <<worker, timer, events, promise, emitted>>

Emissions == {"message", "error"}

\* timeoutMs is optional.
CallOffloaded(c) ==
    /\ worker[c] = "none"
    /\ worker' = [worker EXCEPT ![c] = "running"]
    /\ \E t \in {"none", "set"} : timer' = [timer EXCEPT ![c] = t]
    /\ UNCHANGED <<events, promise, emitted>>

\* new Worker throws, for the path or for an argument that cannot be cloned.
CallRefused(c) ==
    /\ worker[c] = "none"
    /\ worker' = [worker EXCEPT ![c] = "refused"]
    /\ promise' = [promise EXCEPT ![c] = "rejected"]
    /\ UNCHANGED <<timer, events, emitted>>

Emit(c, event) ==
    /\ events' = [events EXCEPT ![c] = @ \cup {event}]
    /\ emitted' = [emitted EXCEPT ![c] = TRUE]

\* The worker posts, once or more often, and goes on: nobody terminates it.
WorkerPosts(c) ==
    /\ worker[c] = "running"
    /\ Emit(c, "message")
    /\ UNCHANGED <<worker, timer, promise>>

\* The worker throws, which may be after it has posted.
WorkerThrows(c) ==
    /\ worker[c] = "running"
    /\ worker' = [worker EXCEPT ![c] = "ended"]
    /\ Emit(c, "error")
    /\ UNCHANGED <<timer, promise>>

\* The worker returns or calls exit: there is no listener for its exit.
WorkerExits(c) ==
    /\ worker[c] = "running"
    /\ worker' = [worker EXCEPT ![c] = "ended"]
    /\ UNCHANGED <<timer, events, promise, emitted>>

\* What there are listeners for.  Mutant: none for errors.
HeardMessages == {"message"}

Heard == {"message", "error"}

\* Mutant: the timer is left alone.
TimerKept(c) == timer[c]

TimerCleared(c) == IF timer[c] = "set" THEN "cleared" ELSE timer[c]

Settled(c, event) == CASE promise[c] # "pending" -> promise[c]
                       [] event = "message" -> "resolved"
                       [] OTHER -> "rejected"

\* Messages and errors come through ports of their own, in either order.
Deliver(c, event) ==
    /\ event \in events[c]
    /\ IF event \in Heard
       THEN /\ promise' = [promise EXCEPT ![c] = Settled(c, event)]
            /\ timer' = [timer EXCEPT ![c] = TimerCleared(c)]
       ELSE UNCHANGED <<promise, timer>>
    /\ events' = [events EXCEPT ![c] = @ \ {event}]
    /\ UNCHANGED <<worker, emitted>>

\* terminate may drop what the worker has emitted and the main thread not seen.
TimerFires(c) ==
    /\ timer[c] = "set"
    /\ timer' = [timer EXCEPT ![c] = "fired"]
    /\ worker' = [worker EXCEPT ![c] = IF @ = "running" THEN "terminated" ELSE @]
    /\ \E left \in SUBSET events[c] : events' = [events EXCEPT ![c] = left]
    /\ UNCHANGED <<promise, emitted>>

OffloadInit ==
    /\ worker = [c \in OffloadCalls |-> "none"] /\ timer = worker
    /\ events = [c \in OffloadCalls |-> {}] /\ promise = [c \in OffloadCalls |-> "pending"]
    /\ emitted = [c \in OffloadCalls |-> FALSE]

OffloadNext ==
    \E c \in OffloadCalls :
        \/ CallOffloaded(c) \/ CallRefused(c)
        \/ WorkerPosts(c) \/ WorkerThrows(c) \/ WorkerExits(c)
        \/ \E event \in Emissions : Deliver(c, event)
        \/ TimerFires(c)

OffloadSpec == OffloadInit /\ [][OffloadNext]_offloadVars

\* Every variable holds a value of its kind.
TypeOK ==
    \A c \in OffloadCalls :
        /\ worker[c] \in {"none", "refused", "running", "terminated", "ended"}
        /\ timer[c] \in {"none", "set", "cleared", "fired"}
        /\ events[c] \subseteq Emissions
        /\ promise[c] \in {"pending", "resolved", "rejected"}
        /\ emitted[c] \in BOOLEAN

\* No timer outlives its call, so that none keeps the process alive or
\* terminates a thread late; and what a worker has emitted settles the call,
\* unless it was emitted or on its way when the timer fired.  So a call is left
\* pending for ever only by its timer or by a worker that says nothing, in
\* whatever order messages, errors and the timer come.
OffloadSettles ==
    \A c \in OffloadCalls :
        /\ promise[c] # "pending" => timer[c] # "set"
        /\ emitted[c] /\ events[c] = {} /\ timer[c] # "fired" => promise[c] # "pending"
=============================================================================
