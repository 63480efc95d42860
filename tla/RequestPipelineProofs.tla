----------------------- MODULE RequestPipelineProofs -----------------------
(***************************************************************************)
(* ControllerAfterChecks and AnsweredOnce of RequestPipeline, for any      *)
(* numbers of middlewares, guards, security middlewares and dispatches.    *)
(***************************************************************************)
EXTENDS RequestPipeline, TLAPS

-----------------------------------------------------------------------------
(* What the operators on a handling return.                                *)

NoSecurity == [i \in 1..MaxSecurities |-> "unused"]

\* The handling a route starts from.
LEMMA UnusedType == Unused \in Handlings
BY RequestPipelineAssumption DEF Unused, Handlings, Errors

\* A handling that is over keeps its security middlewares only if one is loose.
LEMMA OverFields ==
  ASSUME NEW h \in Handlings, NEW at \in {"rejected", "ended"}, NEW e \in Errors
  PROVE  /\ Over(h, at, e) \in Handlings
         /\ Over(h, at, e).at = at
         /\ Over(h, at, e).error = e
         /\ Over(h, at, e).answered = h.answered
         /\ Over(h, at, e).loose = h.loose
         /\ h.loose => Over(h, at, e).security = h.security
         /\ ~h.loose => Over(h, at, e).security = NoSecurity
<1>1. Over(h, at, e) = IF h.loose
                       THEN [h EXCEPT !.at = at, !.error = e, !.answered = h.answered]
                       ELSE [Unused EXCEPT !.at = at, !.error = e, !.answered = h.answered]
  BY DEF Over
<1>2. CASE h.loose
  <2>1. Over(h, at, e) = [h EXCEPT !.at = at, !.error = e, !.answered = h.answered]
    BY <1>1, <1>2
  <2>2. h.answered \in BOOLEAN
    BY DEF Handlings
  <2>3. Over(h, at, e) \in Handlings
    BY <2>1, <2>2 DEF Handlings
  <2>4. /\ Over(h, at, e).at = at /\ Over(h, at, e).error = e
        /\ Over(h, at, e).answered = h.answered /\ Over(h, at, e).loose = h.loose
        /\ Over(h, at, e).security = h.security
    BY <2>1 DEF Handlings
  <2> QED
    BY <1>2, <2>3, <2>4
<1>3. CASE ~h.loose
  <2>1. Unused \in Handlings /\ Unused.security = NoSecurity /\ Unused.loose = FALSE
    BY UnusedType DEF Unused, NoSecurity
  <2>2. h.answered \in BOOLEAN /\ h.loose = FALSE
    BY <1>3 DEF Handlings
  <2>3. Over(h, at, e) = [Unused EXCEPT !.at = at, !.error = e, !.answered = h.answered]
    BY <1>1, <1>3
  <2> QED
    BY <1>3, <2>1, <2>2, <2>3 DEF Handlings
<1> QED
  BY <1>2, <1>3

\* handleRequest past n of the guards.
LEMMA PastGuardsFields ==
  ASSUME TypeOK, NEW h \in Handlings, NEW n \in Nat, n <= request.guards
  PROVE  LET r == PastGuards(h, n) IN
         /\ r \in Handlings
         /\ r.at \in {"guard", "security", "controller"}
         /\ r.guard = n
         /\ r.at = "guard" => n < request.guards
         /\ r.at # "guard" => n = request.guards
         /\ r.at = "controller" => request.securities = 0
         /\ r.at = "security" => request.securities > 0
         /\ r.at # "security" => r.security = h.security
         /\ r.at = "security" => r.security = [h.security EXCEPT ![1] = "running"]
         /\ r.blocked = h.blocked /\ r.error = h.error
         /\ r.answered = h.answered /\ r.loose = h.loose
<1>1. /\ request.guards \in 0..MaxGuards /\ request.securities \in 0..MaxSecurities
      /\ MaxGuards \in Nat /\ MaxSecurities \in Nat
  BY RequestPipelineAssumption DEF TypeOK
<1>2. n \in 0..MaxGuards
  BY <1>1
<1>3. CASE n < request.guards
  <2>1. PastGuards(h, n) = [h EXCEPT !.at = "guard", !.guard = n]
    BY <1>1, <1>3 DEF PastGuards
  <2> QED
    BY <1>2, <1>3, <2>1 DEF Handlings
<1>4. CASE n = request.guards /\ request.securities > 0
  <2>1. PastGuards(h, n)
          = [h EXCEPT !.at = "security", !.guard = n, !.security[1] = "running"]
    BY <1>1, <1>4 DEF PastGuards
  <2>2. 1 \in 1..MaxSecurities
    BY <1>1, <1>4
  <2>3. [h.security EXCEPT ![1] = "running"]
            \in [1..MaxSecurities -> {"unused", "running", "awaiting", "detached",
                                      "passed", "refused", "failed"}]
    BY <2>2 DEF Handlings
  <2>4. PastGuards(h, n).security = [h.security EXCEPT ![1] = "running"]
    BY <2>1 DEF Handlings
  <2>5. PastGuards(h, n) \in Handlings
    BY <1>2, <2>1, <2>3 DEF Handlings
  <2>6. /\ PastGuards(h, n).at = "security" /\ PastGuards(h, n).guard = n
        /\ PastGuards(h, n).blocked = h.blocked /\ PastGuards(h, n).error = h.error
        /\ PastGuards(h, n).answered = h.answered /\ PastGuards(h, n).loose = h.loose
    BY <2>1 DEF Handlings
  <2> QED
    BY <1>4, <2>4, <2>5, <2>6
<1>5. CASE n = request.guards /\ ~(request.securities > 0)
  <2>1. PastGuards(h, n) = [h EXCEPT !.at = "controller", !.guard = n]
    BY <1>1, <1>5 DEF PastGuards
  <2>2. request.securities = 0
    BY <1>1, <1>5
  <2> QED
    BY <1>2, <1>5, <2>1, <2>2 DEF Handlings
<1> QED
  BY <1>1, <1>3, <1>4, <1>5

-----------------------------------------------------------------------------
(* What is true of a handling, wherever it is.                             *)

\* Security middleware f has thrown, and all before it awaited it: they will
\* never return.
Dead(h) ==
    \E f \in 1..request.securities :
        h.security[f] = "failed" /\ \A k \in 1..(f - 1) : h.security[k] = "awaiting"

\* The first security middleware will not return or throw any more.
FirstIsDone(h) ==
    request.securities > 0 =>
        h.security[1] \in {"unused", "passed", "refused"} \/ Dead(h)

\* As far as they await one another, a security middleware has passed only if
\* all it called have, unless one has refused.
Chained(h) ==
    \A i \in 1..request.securities :
        /\ h.security[i] = "passed" =>
               h.blocked \/ \A j \in i..request.securities : h.security[j] = "passed"
        /\ h.security[i] = "refused" => h.blocked
        /\ h.security[i] # "detached"

Sound(h) ==
    /\ h.at \in {"unused", "guard"} =>
           ~h.loose /\ ~h.blocked /\ ~h.answered /\ h.security = NoSecurity
    /\ h.at \in {"guard", "security", "controller"} => request.route = "valid"
    /\ h.at = "guard" => h.guard < request.guards
    /\ h.at \in {"security", "controller"} => h.guard = request.guards
    /\ h.at = "security" => ~h.answered
    /\ h.at # "security" => FirstIsDone(h)
    /\ h.at \in {"unused", "guard", "security", "controller"} => h.error = "plain"
    /\ \A i \in 1..MaxSecurities : i > request.securities => h.security[i] = "unused"
    /\ ~h.loose => Chained(h)
    /\ h.at = "controller" =>
           h.loose \/ \A i \in 1..request.securities : h.security[i] = "passed"
    /\ h.at \in {"rejected", "ended"} => h.loose \/ h.security = NoSecurity

AllSound == \A d \in 1..MaxDispatches : Sound(handling[d])

\* The bounds as numbers.
LEMMA Bounds ==
  ASSUME TypeOK
  PROVE  /\ request.guards \in 0..MaxGuards /\ request.securities \in 0..MaxSecurities
         /\ request.middlewares \in 0..MaxMiddlewares
         /\ MaxGuards \in Nat /\ MaxSecurities \in Nat /\ MaxMiddlewares \in Nat
         /\ MaxDispatches \in Nat /\ MaxActs \in Nat
BY RequestPipelineAssumption DEF TypeOK

\* A handling none of whose security middlewares was called.
LEMMA NoSecuritySound ==
  ASSUME TypeOK, NEW h, h.security = NoSecurity
  PROVE  /\ FirstIsDone(h) /\ Chained(h)
         /\ \A i \in 1..MaxSecurities : h.security[i] = "unused"
<1>1. \A i \in 1..MaxSecurities : h.security[i] = "unused"
  BY DEF NoSecurity
<1>2. \A i \in 1..request.securities : i \in 1..MaxSecurities
  BY Bounds
<1> QED
  BY <1>1, <1>2, Bounds DEF FirstIsDone, Chained

\* A handling that comes to its end.
LEMMA OverSound ==
  ASSUME TypeOK, NEW h \in Handlings, NEW at \in {"rejected", "ended"}, NEW e \in Errors,
         h.loose => /\ FirstIsDone(h)
                    /\ \A i \in 1..MaxSecurities :
                           i > request.securities => h.security[i] = "unused"
  PROVE  Over(h, at, e) \in Handlings /\ Sound(Over(h, at, e))
<1> DEFINE r == Over(h, at, e)
<1>1. /\ r \in Handlings /\ r.at = at
      /\ r.loose = h.loose
      /\ h.loose => r.security = h.security
      /\ ~h.loose => r.security = NoSecurity
  BY OverFields
<1> HIDE DEF r
<1>2. CASE h.loose
  <2>1. FirstIsDone(r)
    BY <1>1, <1>2 DEF FirstIsDone, Dead
  <2> QED
    BY <1>1, <1>2, <2>1 DEF Sound, r
<1>3. CASE ~h.loose
  BY <1>1, <1>3, NoSecuritySound DEF Sound, r
<1> QED
  BY <1>2, <1>3

\* A security middleware that acts while the handling is not in security: it
\* is not the first, and nobody who could hear it awaits it.
LEMMA LooseActs ==
  ASSUME TypeOK, NEW d \in 1..MaxDispatches, Sound(handling[d]),
         NEW i \in 1..MaxSecurities, handling[d].at # "security",
         handling[d].security[i] = "running" \/ Active(d, i)
  PROVE  /\ i > 1 /\ i <= request.securities
         /\ handling[d].loose
         /\ \E k \in 1..(i - 1) : handling[d].security[k] # "awaiting"
         /\ handling[d].security[1] \in {"unused", "passed", "refused"}
               \/ \E f \in 1..(i - 1) :
                      /\ handling[d].security[f] = "failed"
                      /\ \A k \in 1..(f - 1) : handling[d].security[k] = "awaiting"
<1> DEFINE h == handling[d]
<1>b. request.securities \in Nat /\ request.securities <= MaxSecurities /\ i \in Nat
  BY Bounds
<1>1. h.security[i] \in {"running", "detached", "awaiting"}
  BY DEF Active
<1>2. i <= request.securities
  BY <1>b, <1>1 DEF Sound
<1>3. h.security[i] = "awaiting" /\ i < request.securities
          => h.security[i + 1] \in {"passed", "refused"}
  BY <1>1 DEF Active
<1>l. h.loose
  <2>1. h.at \in {"unused", "guard"} => h.security[i] = "unused"
    BY DEF Sound, NoSecurity
  <2>2. h.at \in {"rejected", "ended"} => h.loose \/ h.security[i] = "unused"
    BY DEF Sound, NoSecurity
  <2>3. h.at = "controller" => h.loose \/ h.security[i] = "passed"
    BY <1>b, <1>2 DEF Sound
  <2>4. h.at \in {"unused", "guard", "controller", "rejected", "ended"}
    BY DEF TypeOK, Handlings
  <2> QED
    BY <1>1, <2>1, <2>2, <2>3, <2>4
<1>4. FirstIsDone(h) /\ request.securities > 0
  BY <1>b, <1>2 DEF Sound
<1>5. CASE h.security[1] \in {"unused", "passed", "refused"}
  <2>1. i # 1
    BY <1>1, <1>5
  <2>2. 1 \in 1..(i - 1)
    BY <1>b, <2>1
  <2> QED
    BY <1>b, <1>l, <1>2, <1>5, <2>1, <2>2
<1>6. CASE Dead(h)
  <2>1. PICK f \in 1..request.securities :
            h.security[f] = "failed" /\ \A k \in 1..(f - 1) : h.security[k] = "awaiting"
    BY <1>6 DEF Dead
  <2>2. i # f
    BY <1>1, <2>1
  <2>3. ~(i < f)
    <3>1. SUFFICES ASSUME i < f PROVE FALSE
      OBVIOUS
    <3>2. h.security[i] = "awaiting" /\ i < request.securities
      BY <1>b, <2>1, <3>1
    <3>3. i + 1 = f \/ i + 1 \in 1..(f - 1)
      BY <1>b, <2>1, <3>1
    <3> QED
      BY <1>3, <2>1, <3>2, <3>3
  <2>4. f \in 1..(i - 1)
    BY <1>b, <2>1, <2>2, <2>3
  <2> QED
    BY <1>b, <1>l, <1>2, <2>1, <2>4
<1> QED
  BY <1>4, <1>5, <1>6 DEF FirstIsDone

-----------------------------------------------------------------------------
(* Every step of a handling keeps it sound.                                *)

\* A step replaces one handling and leaves the request alone.
LEMMA OneHandling ==
  ASSUME TypeOK, AllSound, NEW d \in 1..MaxDispatches, NEW r \in Handlings, Sound(r),
         handling' = [handling EXCEPT ![d] = r], request' = request
  PROVE  handling' \in [1..MaxDispatches -> Handlings] /\ AllSound'
<1>1. \A e \in 1..MaxDispatches : handling'[e] = IF e = d THEN r ELSE handling[e]
  BY DEF TypeOK
<1>2. \A e \in 1..MaxDispatches : Sound(handling'[e])
  BY <1>1 DEF AllSound
<1>3. \A e \in 1..MaxDispatches : Sound(handling[e])'
  BY <1>2 DEF Sound, FirstIsDone, Dead, Chained
<1> QED
  BY <1>3 DEF AllSound, TypeOK

\* Past the guards of a request that is valid.
LEMMA PastGuardsSound ==
  ASSUME TypeOK, NEW h \in Handlings, NEW n \in Nat, n <= request.guards,
         ~h.loose, ~h.blocked, ~h.answered, h.security = NoSecurity,
         h.error = "plain", request.route = "valid"
  PROVE  PastGuards(h, n) \in Handlings /\ Sound(PastGuards(h, n))
<1> DEFINE r == PastGuards(h, n)
<1>1. /\ r \in Handlings
      /\ r.at \in {"guard", "security", "controller"}
      /\ r.guard = n
      /\ r.at = "guard" => n < request.guards
      /\ r.at # "guard" => n = request.guards
      /\ r.at = "controller" => request.securities = 0
      /\ r.at # "security" => r.security = h.security
      /\ r.at = "security" => r.security = [h.security EXCEPT ![1] = "running"]
      /\ r.at = "security" => request.securities > 0
      /\ r.blocked = h.blocked /\ r.error = h.error
      /\ r.answered = h.answered /\ r.loose = h.loose
  BY PastGuardsFields
<1> HIDE DEF r
<1>2. CASE r.at # "security"
  <2>1. /\ FirstIsDone(r) /\ Chained(r)
        /\ \A i \in 1..MaxSecurities : r.security[i] = "unused"
    BY <1>1, <1>2, NoSecuritySound
  <2>2. r.at = "controller" => \A i \in 1..request.securities : r.security[i] = "passed"
    BY <1>1
  <2> QED
    BY <1>1, <1>2, <2>1, <2>2 DEF Sound, r
<1>3. CASE r.at = "security"
  <2>1. \A i \in 1..MaxSecurities : r.security[i] = IF i = 1 THEN "running" ELSE "unused"
    BY <1>1, <1>3 DEF NoSecurity
  <2>2. \A i \in 1..request.securities : i \in 1..MaxSecurities
    BY Bounds
  <2>3. Chained(r)
    BY <2>1, <2>2 DEF Chained
  <2>4. \A i \in 1..MaxSecurities : i > request.securities => r.security[i] = "unused"
    BY <1>1, <1>3, <2>1, Bounds
  <2> QED
    BY <1>1, <1>3, <2>3, <2>4 DEF Sound, r
<1> QED
  BY <1>2, <1>3

\* The chain comes to its end: validation, and the guards.
LEMMA DispatchSound ==
  ASSUME TypeOK, AllSound, Dispatch, request' = request,
         request.route \in {"invalid", "valid"}
  PROVE  handling' \in [1..MaxDispatches -> Handlings] /\ AllSound'
<1>1. PICK d \in 1..MaxDispatches :
         /\ handling[d].at = "unused"
         /\ handling' = [handling EXCEPT ![d] =
                            IF request.route = "invalid"
                            THEN Rejected(@, "typed")
                            ELSE PastGuards(@, 0)]
  BY DEF Dispatch
<1>2. handling[d] \in Handlings /\ Sound(handling[d])
  BY DEF TypeOK, AllSound
<1>3. ~handling[d].loose
  BY <1>1, <1>2 DEF Sound
<1>4. CASE request.route = "invalid"
  <2>1. /\ Rejected(handling[d], "typed") \in Handlings
        /\ Sound(Rejected(handling[d], "typed"))
    BY <1>2, <1>3, OverSound DEF Rejected, Errors
  <2>2. handling' = [handling EXCEPT ![d] = Rejected(handling[d], "typed")]
    BY <1>1, <1>4
  <2> QED
    BY <2>1, <2>2, OneHandling
<1>5. CASE request.route = "valid"
  <2>1. PastGuards(handling[d], 0) \in Handlings /\ Sound(PastGuards(handling[d], 0))
    BY <1>1, <1>2, <1>5, PastGuardsSound, Bounds DEF Sound
  <2>2. handling' = [handling EXCEPT ![d] = PastGuards(handling[d], 0)]
    BY <1>1, <1>5
  <2> QED
    BY <2>1, <2>2, OneHandling
<1> QED
  BY <1>4, <1>5

\* Guards, and what the adapter makes of the controller's outcome.
LEMMA SettlesSound ==
  ASSUME TypeOK, AllSound, NEW d \in 1..MaxDispatches,
         HandlingSettles(d) \/ ControllerAnswers(d)
  PROVE  handling' \in [1..MaxDispatches -> Handlings] /\ AllSound'
<1> DEFINE h == handling[d]
<1>1. h \in Handlings /\ Sound(h)
  BY DEF TypeOK, AllSound
<1>2. request' = request
  BY DEF HandlingSettles, ControllerAnswers, GuardAllows, GuardRefuses, ControllerReturns,
         ControllerThrows, HandlingRejects, Inside
<1>3. CASE GuardAllows(d)
  <2>1. /\ h.at = "guard" /\ h.guard + 1 \in Nat /\ h.guard + 1 <= request.guards
        /\ handling' = [handling EXCEPT ![d] = PastGuards(h, h.guard + 1)]
    BY <1>1, <1>3, Bounds DEF GuardAllows, At, Sound, Handlings
  <2>2. PastGuards(h, h.guard + 1) \in Handlings /\ Sound(PastGuards(h, h.guard + 1))
    BY <1>1, <2>1, PastGuardsSound DEF Sound
  <2> QED
    BY <1>2, <2>1, <2>2, OneHandling
<1>4. ASSUME NEW at \in {"rejected", "ended"}, NEW e \in Errors,
             h.at \in {"guard", "controller"},
             handling' = [handling EXCEPT ![d] = Over(h, at, e)]
      PROVE  handling' \in [1..MaxDispatches -> Handlings] /\ AllSound'
  <2>1. Over(h, at, e) \in Handlings /\ Sound(Over(h, at, e))
    BY <1>1, <1>4, OverSound DEF Sound
  <2> QED
    BY <1>2, <1>4, <2>1, OneHandling
<1>5. CASE \E e \in Errors : GuardRefuses(d, e)
  BY <1>4, <1>5 DEF GuardRefuses, Rejected, At
<1>6. CASE ControllerReturns(d)
  BY <1>4, <1>6 DEF ControllerReturns, At, Errors
<1>7. CASE \E e \in Errors : ControllerThrows(d, e)
  BY <1>4, <1>7 DEF ControllerThrows, Rejected, At
<1>8. CASE HandlingRejects(d)
  <2>1. /\ h.at = "rejected"
        /\ handling' = [handling EXCEPT ![d] = [h EXCEPT !.at = "ended"]]
    BY <1>8 DEF HandlingRejects, At
  <2>2. [h EXCEPT !.at = "ended"] \in Handlings
    BY <1>1 DEF Handlings
  <2>3. Sound([h EXCEPT !.at = "ended"])
    <3>1. /\ [h EXCEPT !.at = "ended"].at = "ended"
          /\ [h EXCEPT !.at = "ended"].security = h.security
          /\ [h EXCEPT !.at = "ended"].blocked = h.blocked
          /\ [h EXCEPT !.at = "ended"].loose = h.loose
      BY <1>1 DEF Handlings
    <3>2. FirstIsDone([h EXCEPT !.at = "ended"])
      BY <1>1, <2>1, <3>1 DEF Sound, FirstIsDone, Dead
    <3>3. h.loose \/ Chained([h EXCEPT !.at = "ended"])
      BY <1>1, <3>1 DEF Sound, Chained
    <3> QED
      BY <1>1, <2>1, <3>1, <3>2, <3>3 DEF Sound
  <2> QED
    BY <1>2, <2>1, <2>2, <2>3, OneHandling
<1>9. CASE ControllerAnswers(d)
  <2>1. /\ h.at = "controller"
        /\ handling' = [handling EXCEPT ![d] = [h EXCEPT !.answered = TRUE]]
    BY <1>9 DEF ControllerAnswers, At
  <2>2. [h EXCEPT !.answered = TRUE] \in Handlings
    BY <1>1 DEF Handlings
  <2>3. Sound([h EXCEPT !.answered = TRUE])
    <3>1. /\ [h EXCEPT !.answered = TRUE].at = "controller"
          /\ [h EXCEPT !.answered = TRUE].guard = h.guard
          /\ [h EXCEPT !.answered = TRUE].error = h.error
          /\ [h EXCEPT !.answered = TRUE].security = h.security
          /\ [h EXCEPT !.answered = TRUE].blocked = h.blocked
          /\ [h EXCEPT !.answered = TRUE].loose = h.loose
      BY <1>1, <2>1 DEF Handlings
    <3>2. FirstIsDone([h EXCEPT !.answered = TRUE])
      BY <1>1, <2>1, <3>1 DEF Sound, FirstIsDone, Dead
    <3>3. h.loose \/ Chained([h EXCEPT !.answered = TRUE])
      BY <1>1, <3>1 DEF Sound, Chained
    <3> QED
      BY <1>1, <2>1, <3>1, <3>2, <3>3 DEF Sound
  <2> QED
    BY <1>2, <2>1, <2>2, <2>3, OneHandling
<1> QED
  BY <1>3, <1>5, <1>6, <1>7, <1>8, <1>9 DEF HandlingSettles

-----------------------------------------------------------------------------
(* The security middlewares.                                               *)

\* What FirstIsDone rests on is not touched by one that acts meanwhile.
LEMMA FirstStaysDone ==
  ASSUME TypeOK, NEW d \in 1..MaxDispatches, Sound(handling[d]),
         NEW i \in 1..MaxSecurities, handling[d].at # "security",
         handling[d].security[i] = "running" \/ Active(d, i),
         NEW r, \A k \in 1..(i - 1) : r.security[k] = handling[d].security[k]
  PROVE  FirstIsDone(r)
<1> DEFINE h == handling[d]
<1>1. /\ i > 1 /\ i <= request.securities
      /\ h.security[1] \in {"unused", "passed", "refused"}
               \/ \E f \in 1..(i - 1) :
                      /\ h.security[f] = "failed"
                      /\ \A k \in 1..(f - 1) : h.security[k] = "awaiting"
  BY LooseActs
<1>2. request.securities \in Nat /\ i \in Nat
  BY Bounds
<1>3. CASE h.security[1] \in {"unused", "passed", "refused"}
  <2>1. 1 \in 1..(i - 1)
    BY <1>1, <1>2
  <2> QED
    BY <1>3, <2>1 DEF FirstIsDone
<1>4. ASSUME NEW f \in 1..(i - 1), h.security[f] = "failed",
             \A k \in 1..(f - 1) : h.security[k] = "awaiting"
      PROVE  FirstIsDone(r)
  <2>1. f \in 1..request.securities /\ r.security[f] = "failed"
    BY <1>1, <1>2, <1>4
  <2>2. \A k \in 1..(f - 1) : k \in 1..(i - 1)
    BY <1>2
  <2>3. \A k \in 1..(f - 1) : r.security[k] = "awaiting"
    BY <1>4, <2>2
  <2> QED
    BY <2>1, <2>3 DEF FirstIsDone, Dead
<1> QED
  BY <1>1, <1>3, <1>4

\* A middleware that acts is one of the route's.
LEMMA ActingIsOfRoute ==
  ASSUME TypeOK, NEW h, Sound(h), NEW i \in 1..MaxSecurities, h.security[i] # "unused"
  PROVE  i \in 1..request.securities
BY Bounds DEF Sound

\* next() of a security middleware.
LEMMA ProceedsSound ==
  ASSUME TypeOK, AllSound, NEW d \in 1..MaxDispatches, NEW i \in 1..MaxSecurities,
         NEW status \in {"awaiting", "detached"}, SecurityProceeds(d, i, status)
  PROVE  handling' \in [1..MaxDispatches -> Handlings] /\ AllSound'
<1> DEFINE h == handling[d]
           sec == [k \in 1..MaxSecurities |->
                      CASE k = i -> status
                        [] k = i + 1 /\ k <= request.securities -> "running"
                        [] OTHER -> h.security[k]]
           r == [h EXCEPT !.security = sec, !.loose = h.loose \/ status = "detached"]
<1>1. h \in Handlings /\ Sound(h)
  BY DEF TypeOK, AllSound
<1>2. h.security[i] = "running" /\ request' = request
  BY DEF SecurityProceeds, Inside
<1>3. i \in 1..request.securities
  BY <1>1, <1>2, ActingIsOfRoute
<1>4. handling' = [handling EXCEPT ![d] = r]
  BY DEF SecurityProceeds, TypeOK
<1>5. \A k \in 1..MaxSecurities :
         sec[k] = IF k = i THEN status
                  ELSE IF k = i + 1 /\ k <= request.securities THEN "running"
                  ELSE h.security[k]
  BY Bounds
<1>6. sec \in [1..MaxSecurities -> {"unused", "running", "awaiting", "detached",
                                    "passed", "refused", "failed"}]
  BY <1>1, <1>5 DEF Handlings
<1> HIDE DEF sec
<1>7. /\ r \in Handlings
      /\ r.at = h.at /\ r.guard = h.guard /\ r.error = h.error /\ r.answered = h.answered
      /\ r.blocked = h.blocked /\ r.security = sec
      /\ r.loose = (h.loose \/ status = "detached")
  <2>1. (h.loose \/ status = "detached") \in BOOLEAN
    BY <1>1 DEF Handlings
  <2> QED
    BY <1>1, <1>6, <2>1 DEF Handlings
<1> HIDE DEF r
<1>8. h.at \notin {"unused", "guard"}
  BY <1>1, <1>2 DEF Sound, NoSecurity
<1>9. \A k \in 1..MaxSecurities : k > request.securities => r.security[k] = "unused"
  BY <1>1, <1>3, <1>5, <1>7, Bounds DEF Sound
<1>10. ASSUME h.at # "security"
       PROVE  FirstIsDone(r) /\ h.loose
  <2>1. \A k \in 1..(i - 1) : k \in 1..MaxSecurities /\ k # i /\ k # i + 1
    BY Bounds
  <2>2. \A k \in 1..(i - 1) : r.security[k] = h.security[k]
    BY <1>5, <1>7, <2>1
  <2> QED
    BY <1>1, <1>2, <1>10, <2>2, FirstStaysDone, LooseActs
<1>11. ASSUME ~r.loose
       PROVE  Chained(r)
  <2>1. ~h.loose /\ status = "awaiting" /\ Chained(h)
    BY <1>1, <1>7, <1>11 DEF Sound
  <2>2. \A k \in 1..request.securities : k \in 1..MaxSecurities
    BY Bounds
  <2>3. ASSUME NEW k \in 1..request.securities, r.security[k] = "passed"
        PROVE  r.blocked \/ \A j \in k..request.securities : r.security[j] = "passed"
    <3>1. k # i /\ k # i + 1 /\ h.security[k] = "passed"
      BY <1>5, <1>7, <2>1, <2>2, <2>3
    <3>2. CASE k < i
      <4>1. i \in k..request.securities
        BY <1>3, <3>2, Bounds
      <4> QED
        BY <1>2, <1>7, <2>1, <3>1, <4>1 DEF Chained
    <3>3. CASE k > i
      <4>1. \A j \in k..request.securities :
               j \in 1..MaxSecurities /\ j # i /\ j # i + 1
        BY <1>3, <3>1, <3>3, Bounds
      <4>2. \A j \in k..request.securities : r.security[j] = h.security[j]
        BY <1>5, <1>7, <4>1
      <4> QED
        BY <1>7, <2>1, <3>1, <4>2 DEF Chained
    <3> QED
      BY <3>1, <3>2, <3>3, Bounds
  <2> QED
    BY <1>5, <1>7, <2>1, <2>2, <2>3 DEF Chained
<1>12. Sound(r)
  <2>1. r.loose \/ h.at = "security"
    BY <1>7, <1>10
  <2> QED
    BY <1>1, <1>7, <1>8, <1>9, <1>10, <1>11, <2>1 DEF Sound
<1> QED
  BY <1>2, <1>4, <1>7, <1>12, OneHandling

\* What Returned leaves.
LEMMA ReturnedFields ==
  ASSUME NEW h \in Handlings, NEW i \in 1..MaxSecurities, NEW blocked \in BOOLEAN
  PROVE  LET r == Returned(h, i, blocked) IN
         /\ r \in Handlings
         /\ r.at = h.at /\ r.guard = h.guard /\ r.error = h.error
         /\ r.answered = h.answered /\ r.loose = h.loose /\ r.blocked = blocked
         /\ \A k \in 1..MaxSecurities :
               r.security[k] = IF k = i
                               THEN IF h.security[i] = "running" THEN "refused" ELSE "passed"
                               ELSE h.security[k]
<1> DEFINE sec == [h.security EXCEPT ![i] = IF h.security[i] = "running"
                                           THEN "refused" ELSE "passed"]
<1>1. Returned(h, i, blocked) = [h EXCEPT !.security = sec, !.blocked = blocked]
  BY DEF Returned, Handlings
<1>2. /\ sec \in [1..MaxSecurities -> {"unused", "running", "awaiting", "detached",
                                        "passed", "refused", "failed"}]
      /\ \A k \in 1..MaxSecurities :
            sec[k] = IF k = i THEN IF h.security[i] = "running" THEN "refused" ELSE "passed"
                              ELSE h.security[k]
  BY DEF Handlings
<1> HIDE DEF sec
<1>3. /\ Returned(h, i, blocked).security = sec
      /\ Returned(h, i, blocked) \in Handlings
  BY <1>1, <1>2 DEF Handlings
<1>4. LET r == Returned(h, i, blocked) IN
      /\ r.at = h.at /\ r.guard = h.guard /\ r.error = h.error
      /\ r.answered = h.answered /\ r.loose = h.loose /\ r.blocked = blocked
  BY <1>1 DEF Handlings
<1> QED
  BY <1>2, <1>3, <1>4

\* A security middleware returns, and the first one's return is looked at.
LEMMA ReturnsSound ==
  ASSUME TypeOK, AllSound, NEW d \in 1..MaxDispatches, NEW i \in 1..MaxSecurities,
         SecurityReturns(d, i)
  PROVE  handling' \in [1..MaxDispatches -> Handlings] /\ AllSound'
<1> DEFINE h == handling[d]
           blocked == h.blocked \/ h.security[i] = "running"
           r == Returned(h, i, blocked)
           outcome == CASE i > 1 -> r
                        [] i = 1 /\ blocked -> Rejected(r, "typed")
                        [] i = 1 /\ ~blocked -> [r EXCEPT !.at = "controller"]
<1>1. h \in Handlings /\ Sound(h)
  BY DEF TypeOK, AllSound
<1>2. Active(d, i) /\ request' = request
  BY DEF SecurityReturns, Inside
<1>3. h.security[i] \in {"running", "detached", "awaiting"}
  BY <1>2 DEF Active
<1>4. i \in 1..request.securities
  BY <1>1, <1>3, ActingIsOfRoute
<1>5. blocked \in BOOLEAN
  BY <1>1 DEF Handlings
<1>6. /\ r \in Handlings
      /\ r.at = h.at /\ r.guard = h.guard /\ r.error = h.error
      /\ r.answered = h.answered /\ r.loose = h.loose /\ r.blocked = blocked
      /\ \A k \in 1..MaxSecurities :
            r.security[k] = IF k = i
                            THEN IF h.security[i] = "running" THEN "refused" ELSE "passed"
                            ELSE h.security[k]
  <2> HIDE DEF blocked
  <2> QED
    BY <1>1, <1>5, ReturnedFields
<1>7. handling' = [handling EXCEPT ![d] = outcome]
  BY DEF SecurityReturns
<1> HIDE DEF r
<1>8. \A k \in 1..MaxSecurities : k > request.securities => r.security[k] = "unused"
  BY <1>1, <1>4, <1>6, Bounds DEF Sound
<1>9. ASSUME ~r.loose
      PROVE  Chained(r)
  <2>1. Chained(h) /\ \A k \in 1..request.securities : k \in 1..MaxSecurities
    BY <1>1, <1>6, <1>9, Bounds DEF Sound
  <2>2. ASSUME NEW k \in 1..request.securities, r.security[k] = "passed"
        PROVE  r.blocked \/ \A j \in k..request.securities : r.security[j] = "passed"
    <3>1. CASE k = i
      <4>1. h.security[i] = "awaiting"
        BY <1>3, <1>4, <1>6, <2>1, <2>2, <3>1 DEF Chained
      <4>2. i < request.securities => h.security[i + 1] \in {"passed", "refused"}
        BY <1>2, <4>1 DEF Active
      <4>3. i < request.securities =>
               h.blocked \/ \A j \in (i + 1)..request.securities : h.security[j] = "passed"
        <5>1. i < request.securities => i + 1 \in 1..request.securities
          BY <1>4, Bounds
        <5> QED
          BY <2>1, <4>2, <5>1 DEF Chained
      <4>4. \A j \in k..request.securities :
               j = i \/ (j \in (i + 1)..request.securities /\ i < request.securities
                          /\ j \in 1..MaxSecurities /\ j # i)
        BY <1>4, <3>1, Bounds
      <4>5. r.security[i] = "passed"
        BY <2>2, <3>1
      <4> QED
        BY <1>6, <4>3, <4>4, <4>5
    <3>2. CASE k # i
      <4>1. h.security[k] = "passed"
        BY <1>6, <2>1, <2>2, <3>2
      <4>2. h.blocked \/ \A j \in k..request.securities : h.security[j] = "passed"
        BY <2>1, <4>1 DEF Chained
      <4>3. CASE h.blocked
        BY <1>6, <4>3
      <4>4. CASE \A j \in k..request.securities : h.security[j] = "passed"
        <5>1. i \notin k..request.securities
          BY <1>3, <4>4
        <5>2. \A j \in k..request.securities : j \in 1..MaxSecurities /\ j # i
          BY <5>1, Bounds
        <5> QED
          BY <1>6, <4>4, <5>2
      <4> QED
        BY <4>2, <4>3, <4>4
    <3> QED
      BY <3>1, <3>2
  <2>3. ASSUME NEW k \in 1..request.securities
        PROVE  /\ r.security[k] = "refused" => r.blocked
               /\ r.security[k] # "detached"
    BY <1>6, <2>1 DEF Chained
  <2> QED
    BY <2>2, <2>3 DEF Chained
<1>10. CASE i > 1
  <2>1. h.at \notin {"unused", "guard"}
    BY <1>1, <1>3 DEF Sound, NoSecurity
  <2>2. ASSUME h.at # "security"
        PROVE  FirstIsDone(r) /\ h.loose
    <3>1. \A k \in 1..(i - 1) : k \in 1..MaxSecurities /\ k # i
      BY Bounds
    <3>2. \A k \in 1..(i - 1) : r.security[k] = h.security[k]
      BY <1>6, <3>1
    <3> QED
      BY <1>1, <1>2, <2>2, <3>2, FirstStaysDone, LooseActs
  <2>3. Sound(r)
    <3>1. r.loose \/ h.at = "security"
      BY <1>6, <2>2
    <3> QED
      BY <1>1, <1>6, <1>8, <1>9, <2>1, <2>2, <3>1 DEF Sound
  <2>4. outcome = r
    BY <1>10
  <2> HIDE DEF outcome
  <2> QED
    BY <1>2, <1>6, <1>7, <2>3, <2>4, OneHandling
<1>11. CASE i = 1
  <2>1. h.at = "security"
    <3>1. h.at # "security" => i > 1
      BY <1>1, <1>2, LooseActs
    <3> QED
      BY <1>11, <3>1
  <2>2. FirstIsDone(r)
    <3>1. r.security[1] \in {"passed", "refused"}
      BY <1>6, <1>11
    <3> QED
      BY <3>1 DEF FirstIsDone
  <2>3. CASE blocked
    <3>1. Rejected(r, "typed") \in Handlings /\ Sound(Rejected(r, "typed"))
      BY <1>6, <1>8, <2>2, OverSound DEF Rejected, Errors
    <3>2. outcome = Rejected(r, "typed")
      BY <1>11, <2>3
    <3> HIDE DEF outcome
    <3> QED
      BY <1>2, <1>7, <3>1, <3>2, OneHandling
  <2>4. CASE ~blocked
    <3> DEFINE c == [r EXCEPT !.at = "controller"]
    <3>1. /\ c \in Handlings
          /\ c.at = "controller" /\ c.guard = h.guard /\ c.error = h.error
          /\ c.security = r.security /\ c.blocked = r.blocked /\ c.loose = r.loose
      BY <1>6 DEF Handlings
    <3> HIDE DEF c
    <3>2. FirstIsDone(c) /\ (~c.loose => Chained(c))
      BY <1>9, <2>2, <3>1 DEF FirstIsDone, Dead, Chained
    <3>3. ASSUME ~c.loose
          PROVE  \A k \in 1..request.securities : c.security[k] = "passed"
      <4>1. ~h.loose /\ Chained(h) /\ Chained(r)
        BY <1>1, <1>6, <1>9, <3>1, <3>3 DEF Sound
      <4>2. h.security[1] = "awaiting"
        BY <1>3, <1>4, <1>11, <2>4, <4>1 DEF Chained
      <4>3. r.security[1] = "passed" /\ ~r.blocked /\ 1 \in 1..request.securities
        BY <1>4, <1>6, <1>11, <2>4, <4>2
      <4>4. \A k \in 1..request.securities : r.security[k] = "passed"
        BY <4>1, <4>3 DEF Chained
      <4> QED
        BY <3>1, <4>4
    <3>4. Sound(c)
      BY <1>1, <1>8, <2>1, <3>1, <3>2, <3>3 DEF Sound
    <3>5. outcome = c
      BY <1>11, <2>4 DEF c
    <3> HIDE DEF outcome
    <3> QED
      BY <1>2, <1>7, <3>1, <3>4, <3>5, OneHandling
  <2> QED
    BY <2>3, <2>4
<1> QED
  BY <1>10, <1>11

\* A security middleware throws, heard by the handler or by nobody.
LEMMA ThrowsSound ==
  ASSUME TypeOK, AllSound, NEW d \in 1..MaxDispatches, NEW i \in 1..MaxSecurities,
         NEW e \in Errors, SecurityThrows(d, i, e)
  PROVE  handling' \in [1..MaxDispatches -> Handlings] /\ AllSound'
<1> DEFINE h == handling[d]
           heard == \A k \in 1..(i - 1) : h.security[k] = "awaiting"
           r == [h EXCEPT !.security[i] = "failed"]
<1>1. h \in Handlings /\ Sound(h)
  BY DEF TypeOK, AllSound
<1>2. Active(d, i) /\ request' = request
  BY DEF SecurityThrows
<1>3. h.security[i] \in {"running", "detached", "awaiting"}
  BY <1>2 DEF Active
<1>4. i \in 1..request.securities
  BY <1>1, <1>3, ActingIsOfRoute
<1>5. handling' = [handling EXCEPT ![d] = IF heard THEN Rejected(r, e) ELSE r]
  BY DEF SecurityThrows
<1>6. /\ r \in Handlings
      /\ r.at = h.at /\ r.guard = h.guard /\ r.error = h.error
      /\ r.answered = h.answered /\ r.loose = h.loose /\ r.blocked = h.blocked
      /\ \A k \in 1..MaxSecurities :
            r.security[k] = IF k = i THEN "failed" ELSE h.security[k]
  <2>1. [h.security EXCEPT ![i] = "failed"]
            \in [1..MaxSecurities -> {"unused", "running", "awaiting", "detached",
                                      "passed", "refused", "failed"}]
    BY <1>1 DEF Handlings
  <2>2. r.security = [h.security EXCEPT ![i] = "failed"]
    BY <1>1 DEF Handlings
  <2> QED
    BY <1>1, <2>1, <2>2 DEF Handlings
<1> HIDE DEF r
<1>7. \A k \in 1..MaxSecurities : k > request.securities => r.security[k] = "unused"
  BY <1>1, <1>4, <1>6, Bounds DEF Sound
<1>8. CASE heard
  <2>1. FirstIsDone(r)
    <3>1. \A k \in 1..(i - 1) : k \in 1..MaxSecurities /\ k # i
      BY Bounds
    <3>2. r.security[i] = "failed" /\ \A k \in 1..(i - 1) : r.security[k] = "awaiting"
      BY <1>6, <1>8, <3>1
    <3> QED
      BY <1>4, <3>2 DEF FirstIsDone, Dead
  <2>2. Rejected(r, e) \in Handlings /\ Sound(Rejected(r, e))
    BY <1>6, <1>7, <2>1, OverSound DEF Rejected
  <2>3. handling' = [handling EXCEPT ![d] = Rejected(r, e)]
    BY <1>5, <1>8
  <2> QED
    BY <1>2, <2>2, <2>3, OneHandling
<1>9. CASE ~heard
  <2>1. h.at \notin {"unused", "guard"}
    BY <1>1, <1>3 DEF Sound, NoSecurity
  <2>2. ASSUME h.at # "security"
        PROVE  FirstIsDone(r) /\ h.loose
    <3>1. \A k \in 1..(i - 1) : k \in 1..MaxSecurities /\ k # i
      BY Bounds
    <3>2. \A k \in 1..(i - 1) : r.security[k] = h.security[k]
      BY <1>6, <3>1
    <3> QED
      BY <1>1, <1>2, <2>2, <3>2, FirstStaysDone, LooseActs
  <2>3. ASSUME ~r.loose
        PROVE  Chained(r)
    <3>1. Chained(h) /\ \A k \in 1..request.securities : k \in 1..MaxSecurities
      BY <1>1, <1>6, <2>3, Bounds DEF Sound
    <3>2. ASSUME NEW k \in 1..request.securities, r.security[k] = "passed"
          PROVE  r.blocked \/ \A j \in k..request.securities : r.security[j] = "passed"
      <4>1. k # i /\ h.security[k] = "passed"
        BY <1>6, <3>1, <3>2
      <4>2. CASE h.blocked
        BY <1>6, <4>2
      <4>3. CASE \A j \in k..request.securities : h.security[j] = "passed"
        <5>1. i \notin k..request.securities
          BY <1>3, <4>3
        <5>2. \A j \in k..request.securities : j \in 1..MaxSecurities /\ j # i
          BY <5>1, Bounds
        <5> QED
          BY <1>6, <4>3, <5>2
      <4> QED
        BY <3>1, <4>1, <4>2, <4>3 DEF Chained
    <3>3. ASSUME NEW k \in 1..request.securities
          PROVE  /\ r.security[k] = "refused" => r.blocked
                 /\ r.security[k] # "detached"
      BY <1>6, <3>1 DEF Chained
    <3> QED
      BY <3>2, <3>3 DEF Chained
  <2>4. Sound(r)
    <3>1. r.loose \/ h.at = "security"
      BY <1>6, <2>2
    <3> QED
      BY <1>1, <1>6, <1>7, <2>1, <2>2, <2>3, <3>1 DEF Sound
  <2>5. handling' = [handling EXCEPT ![d] = r]
    BY <1>5, <1>9
  <2> QED
    BY <1>2, <1>6, <2>4, <2>5, OneHandling
<1> QED
  BY <1>8, <1>9

-----------------------------------------------------------------------------
(* The type of the state, and ControllerAfterChecks.                       *)

\* runNext keeps the types and the handlings sound.
LEMMA RunNextSound ==
  ASSUME TypeOK, AllSound, RunNext, request' = request
  PROVE  /\ handling' \in [1..MaxDispatches -> Handlings] /\ AllSound'
         /\ position' \in 0..request.middlewares
         /\ answers' \in Nat
<1>1. ASSUME handling' = handling
      PROVE  handling' \in [1..MaxDispatches -> Handlings] /\ AllSound'
  BY <1>1 DEF TypeOK, AllSound, Sound, FirstIsDone, Dead, Chained
<1>2. position + 1 \in Nat /\ position \in 0..request.middlewares /\ answers \in Nat
  BY Bounds DEF TypeOK
<1>3. position < request.middlewares => position + 1 \in 0..request.middlewares
  BY <1>2, Bounds
<1> QED
  BY <1>1, <1>2, <1>3, DispatchSound DEF RunNext, AnswersTo

\* The types, and that every handling is sound.
LEMMA SoundInvariant == Spec => [](TypeOK /\ AllSound)
<1>1. Init => TypeOK /\ AllSound
  <2> SUFFICES ASSUME Init PROVE TypeOK /\ AllSound
    OBVIOUS
  <2>1. TypeOK
    BY RequestPipelineAssumption, UnusedType DEF Init, TypeOK
  <2>2. Unused.security = NoSecurity /\ Unused.at = "unused" /\ ~Unused.loose
        /\ ~Unused.blocked /\ ~Unused.answered /\ Unused.error = "plain"
    BY DEF Unused, NoSecurity
  <2>3. Sound(Unused)
    BY <2>1, <2>2, NoSecuritySound DEF Sound
  <2> QED
    BY <2>1, <2>3 DEF Init, AllSound
<1>2. TypeOK /\ AllSound /\ [Next]_vars => TypeOK' /\ AllSound'
  <2> SUFFICES ASSUME TypeOK, AllSound, [Next]_vars PROVE TypeOK' /\ AllSound'
    OBVIOUS
  <2>0. answers \in Nat /\ answers + 1 \in Nat
    BY DEF TypeOK
  <2>1. CASE BodyRefused
    BY <2>0, <2>1
    DEF BodyRefused, TypeOK, AllSound, Sound, FirstIsDone, Dead, Chained
  <2>2. CASE BodyRead
    BY <2>2, RunNextSound DEF BodyRead, TypeOK
  <2>3. ASSUME NEW i \in 1..MaxMiddlewares, MiddlewareActs(i)
        PROVE  TypeOK' /\ AllSound'
    <3>1. Act(i)
      BY <2>3 DEF MiddlewareActs, MiddlewareAnswers, MiddlewarePasses, MiddlewareFails
    <3>2. acts' \in [1..MaxMiddlewares -> 0..MaxActs] /\ UNCHANGED <<request, phase>>
      <4>0. acts[i] \in 0..MaxActs /\ acts[i] < MaxActs /\ MaxActs \in Nat
        BY <3>1, Bounds DEF Act, TypeOK
      <4>1. acts[i] + 1 \in 0..MaxActs
        BY <4>0
      <4> QED
        BY <3>1, <4>1 DEF Act, TypeOK
    <3>3. CASE MiddlewarePasses(i)
      BY <3>2, <3>3, RunNextSound DEF MiddlewarePasses, TypeOK
    <3>4. CASE MiddlewareAnswers(i) \/ \E e \in Errors : MiddlewareFails(i, e)
      <4>1. UNCHANGED <<position, handling>> /\ answers' \in Nat
        BY <2>0, <3>4 DEF MiddlewareAnswers, MiddlewareFails, AnswersTo
      <4> QED
        BY <3>2, <4>1 DEF TypeOK, AllSound, Sound, FirstIsDone, Dead, Chained
    <3> QED
      BY <2>3, <3>3, <3>4 DEF MiddlewareActs
  <2>4. ASSUME NEW d \in 1..MaxDispatches, HandlingSettles(d) \/ ControllerAnswers(d)
        PROVE  TypeOK' /\ AllSound'
    <3>1. handling' \in [1..MaxDispatches -> Handlings] /\ AllSound'
      BY <2>4, SettlesSound
    <3>2. UNCHANGED <<request, phase, position, acts>>
      BY <2>4
      DEF HandlingSettles, ControllerAnswers, GuardAllows, GuardRefuses, ControllerReturns,
          ControllerThrows, HandlingRejects, Inside
    <3>3. answers' \in Nat
      BY <2>0, <2>4
      DEF HandlingSettles, ControllerAnswers, GuardAllows, GuardRefuses, ControllerReturns,
          ControllerThrows, HandlingRejects, AnswersTo
    <3> QED
      BY <3>1, <3>2, <3>3 DEF TypeOK
  <2>5. ASSUME NEW d \in 1..MaxDispatches, NEW i \in 1..MaxSecurities, SecuritySettles(d, i)
        PROVE  TypeOK' /\ AllSound'
    <3>1. handling' \in [1..MaxDispatches -> Handlings] /\ AllSound'
      BY <2>5, ProceedsSound, ReturnsSound, ThrowsSound DEF SecuritySettles
    <3>2. /\ UNCHANGED <<request, position, acts, answers>>
          /\ phase' \in {phase, "crashed"}
      BY <2>5
      DEF SecuritySettles, SecurityProceeds, SecurityReturns, SecurityThrows, Inside
    <3> QED
      BY <3>1, <3>2 DEF TypeOK
  <2>6. CASE UNCHANGED vars
    BY <2>6 DEF vars, TypeOK, AllSound, Sound, FirstIsDone, Dead, Chained
  <2> QED
    BY <2>1, <2>2, <2>3, <2>4, <2>5, <2>6 DEF Next
<1> QED
  BY <1>1, <1>2, PTL DEF Spec

\* The variables of the request keep their types.
THEOREM RequestPipelineTypeOK == Spec => []TypeOK
BY SoundInvariant, PTL

\* However many guards and security middlewares a route has and whatever they do
\* after they have returned, its controller is called only for a valid request
\* they have let pass (handleRequest of http-adapter.ts,
\* applySecurityMiddlewares).
THEOREM RequestPipelineControllerAfterChecks == Spec => []ControllerAfterChecks
<1>1. AllSound => ControllerAfterChecks
  BY DEF AllSound, Sound, ControllerAfterChecks
<1> QED
  BY <1>1, SoundInvariant, PTL

-----------------------------------------------------------------------------
(* AnsweredOnce.                                                           *)

\* What AnsweredOnce assumes of the middlewares and the controller.
OneActEach == \A i \in 1..MaxMiddlewares : acts[i] <= 1

NoTypedAfterAnswer ==
    \A d \in 1..MaxDispatches : handling[d].answered => handling[d].error # "typed"

NothingYet == answers = 0 /\ \A d \in 1..MaxDispatches : handling[d].at = "unused"

\* The request is in one place: with the last middleware called, which has not
\* acted, or with one dispatch of the route, which answers if nobody has.
OnePlace ==
    /\ \A i \in 1..MaxMiddlewares :
          /\ i < position => acts[i] = 1
          /\ i = position /\ acts[i] = 0 => NothingYet
    /\ \A d, e \in 1..MaxDispatches :
          handling[d].at # "unused" /\ handling[e].at # "unused" => d = e
    /\ \A d \in 1..MaxDispatches :
          handling[d].at \notin {"unused", "ended"} /\ ~handling[d].answered => answers = 0
    /\ answers <= 1

Tally ==
    /\ \A i \in 1..MaxMiddlewares : i > position => acts[i] = 0
    /\ phase = "body" => NothingYet /\ position = 0
    /\ OneActEach /\ NoTypedAfterAnswer => OnePlace

\* An answered handling whose error is typed is past its controller.
LEMMA TypedIsPast ==
  ASSUME TypeOK, AllSound, NEW d \in 1..MaxDispatches,
         handling[d].answered, handling[d].error = "typed"
  PROVE  handling[d].at \in {"rejected", "ended"}
BY DEF TypeOK, Handlings, AllSound, Sound

\* What a security middleware's step leaves of where the handling is.
LEMMA SecurityOutcome ==
  ASSUME TypeOK, AllSound, NEW d \in 1..MaxDispatches, NEW i \in 1..MaxSecurities,
         SecuritySettles(d, i)
  PROVE  /\ UNCHANGED <<position, acts, answers>> /\ phase = "running" /\ phase' # "body"
         /\ \A e \in 1..MaxDispatches \ {d} : handling'[e] = handling[e]
         /\ \/ /\ handling'[d].at = handling[d].at
               /\ handling'[d].error = handling[d].error
               /\ handling'[d].answered = handling[d].answered
            \/ /\ handling[d].at = "security" /\ ~handling[d].answered
               /\ handling'[d].at \in {"controller", "rejected"}
               /\ ~handling'[d].answered
<1> DEFINE h == handling[d]
<1>1. h \in Handlings /\ Sound(h)
  BY DEF TypeOK, AllSound
<1>2. UNCHANGED <<position, acts, answers>> /\ phase = "running" /\ phase' # "body"
  BY DEF SecuritySettles, SecurityProceeds, SecurityReturns, SecurityThrows, Inside, Active
<1>3. ASSUME NEW r, handling' = [handling EXCEPT ![d] = r]
      PROVE  handling'[d] = r /\ \A e \in 1..MaxDispatches \ {d} : handling'[e] = handling[e]
  BY <1>3 DEF TypeOK
<1>4. ASSUME NEW status, SecurityProceeds(d, i, status)
      PROVE  /\ \A e \in 1..MaxDispatches \ {d} : handling'[e] = handling[e]
             /\ handling'[d].at = h.at /\ handling'[d].error = h.error
             /\ handling'[d].answered = h.answered
  BY <1>1, <1>4 DEF SecurityProceeds, TypeOK, Handlings
<1>5. CASE SecurityReturns(d, i)
  <2> DEFINE blocked == h.blocked \/ h.security[i] = "running"
             r == Returned(h, i, blocked)
             outcome == CASE i > 1 -> r
                          [] i = 1 /\ blocked -> Rejected(r, "typed")
                          [] i = 1 /\ ~blocked -> [r EXCEPT !.at = "controller"]
  <2>1. blocked \in BOOLEAN
    BY <1>1 DEF Handlings
  <2>2. r \in Handlings /\ r.at = h.at /\ r.error = h.error /\ r.answered = h.answered
    <3> HIDE DEF blocked
    <3> QED
      BY <1>1, <2>1, ReturnedFields
  <2>3. handling' = [handling EXCEPT ![d] = outcome]
    BY <1>5 DEF SecurityReturns
  <2>4. h.at # "security" => i > 1
    BY <1>1, <1>5, LooseActs DEF SecurityReturns
  <2>5. i > 1 \/ (i = 1 /\ h.at = "security" /\ ~h.answered)
    BY <1>1, <2>4, Bounds DEF Sound
  <2>6. Rejected(r, "typed").at = "rejected" /\ Rejected(r, "typed").answered = r.answered
    BY <2>2, OverFields DEF Rejected, Errors
  <2>7. [r EXCEPT !.at = "controller"].at = "controller"
        /\ [r EXCEPT !.at = "controller"].answered = r.answered
    BY <2>2 DEF Handlings
  <2> HIDE DEF r
  <2>8. CASE i > 1
    <3>1. outcome = r
      BY <2>8, Bounds
    <3> HIDE DEF outcome
    <3> QED
      BY <1>2, <1>3, <2>2, <2>3, <3>1
  <2>9. CASE i = 1 /\ h.at = "security" /\ ~h.answered
    <3>1. outcome = IF blocked THEN Rejected(r, "typed") ELSE [r EXCEPT !.at = "controller"]
      BY <2>9
    <3>2. outcome.at \in {"controller", "rejected"} /\ ~outcome.answered
      <4> HIDE DEF blocked, outcome
      <4> QED
        BY <2>2, <2>6, <2>7, <2>9, <3>1
    <3> HIDE DEF outcome
    <3> QED
      BY <1>2, <1>3, <2>3, <2>9, <3>2
  <2> QED
    BY <2>5, <2>8, <2>9
<1>6. ASSUME NEW e \in Errors, SecurityThrows(d, i, e)
      PROVE  /\ \A f \in 1..MaxDispatches \ {d} : handling'[f] = handling[f]
             /\ \/ /\ handling'[d].at = h.at /\ handling'[d].error = h.error
                   /\ handling'[d].answered = h.answered
                \/ /\ h.at = "security" /\ ~h.answered
                   /\ handling'[d].at \in {"controller", "rejected"}
                   /\ ~handling'[d].answered
  <2> DEFINE heard == \A k \in 1..(i - 1) : h.security[k] = "awaiting"
             r == [h EXCEPT !.security[i] = "failed"]
  <2>1. handling' = [handling EXCEPT ![d] = IF heard THEN Rejected(r, e) ELSE r]
    BY <1>6 DEF SecurityThrows
  <2>2. r \in Handlings /\ r.at = h.at /\ r.error = h.error /\ r.answered = h.answered
    BY <1>1 DEF Handlings
  <2>3. h.at # "security" => ~heard
    BY <1>1, <1>6, LooseActs DEF SecurityThrows
  <2>4. Rejected(r, e).at = "rejected" /\ Rejected(r, e).answered = r.answered
    BY <2>2, OverFields DEF Rejected
  <2> HIDE DEF r
  <2>5. CASE heard
    BY <1>1, <1>3, <2>1, <2>2, <2>3, <2>4, <2>5 DEF Sound
  <2>6. CASE ~heard
    BY <1>3, <2>1, <2>2, <2>6
  <2> QED
    BY <2>5, <2>6
<1> QED
  BY <1>2, <1>4, <1>5, <1>6 DEF SecuritySettles

\* What a step of handleRequest itself leaves of where the handling is.
LEMMA HandlingOutcome ==
  ASSUME TypeOK, AllSound, NEW d \in 1..MaxDispatches,
         HandlingSettles(d) \/ ControllerAnswers(d)
  PROVE  LET h == handling[d]
             r == handling'[d]
         IN
         /\ UNCHANGED <<position, acts>> /\ phase' # "body"
         /\ \A e \in 1..MaxDispatches \ {d} : handling'[e] = handling[e]
         /\ h.at \notin {"unused", "ended"} /\ r.at # "unused"
         /\ \/ /\ h.at = "controller" /\ ~h.answered
               /\ r.answered /\ answers' = answers + 1
            \/ /\ h.at # "rejected" /\ r.answered = h.answered /\ answers' = answers
            \/ /\ h.at # "rejected" /\ r.at = "ended"
               /\ answers' = IF answers = 0 THEN 1 ELSE answers
            \/ /\ h.at = "rejected" /\ r.at = "ended"
               /\ r.error = h.error /\ r.answered = h.answered
               /\ answers' = IF h.error = "falsy" THEN answers ELSE AnswersTo(h.error)
<1> DEFINE h == handling[d]
<1>1. h \in Handlings /\ Sound(h)
  BY DEF TypeOK, AllSound
<1>2. UNCHANGED <<position, acts>> /\ phase' # "body"
  BY DEF HandlingSettles, ControllerAnswers, GuardAllows, GuardRefuses, ControllerReturns,
         ControllerThrows, HandlingRejects, Inside, At
<1>3. ASSUME NEW r, handling' = [handling EXCEPT ![d] = r]
      PROVE  handling'[d] = r /\ \A e \in 1..MaxDispatches \ {d} : handling'[e] = handling[e]
  BY <1>3 DEF TypeOK
<1>4. CASE GuardAllows(d)
  <2>1. h.at = "guard" /\ h.guard + 1 <= request.guards /\ h.guard + 1 \in Nat
    BY <1>1, <1>4, Bounds DEF GuardAllows, At, Sound, Handlings
  <2>2. handling' = [handling EXCEPT ![d] = PastGuards(h, h.guard + 1)] /\ answers' = answers
    BY <1>4 DEF GuardAllows
  <2>3. /\ PastGuards(h, h.guard + 1).at # "unused"
        /\ PastGuards(h, h.guard + 1).answered = h.answered
    <3> DEFINE n == h.guard + 1
    <3>1. n \in Nat /\ n <= request.guards
      BY <2>1
    <3> HIDE DEF n
    <3>2. PastGuards(h, n).at # "unused" /\ PastGuards(h, n).answered = h.answered
      BY <1>1, <3>1, PastGuardsFields
    <3> QED
      BY <3>2 DEF n
  <2> QED
    BY <1>2, <1>3, <2>1, <2>2, <2>3
<1>5. ASSUME NEW e \in Errors, GuardRefuses(d, e) \/ ControllerThrows(d, e)
      PROVE  /\ \A f \in 1..MaxDispatches \ {d} : handling'[f] = handling[f]
             /\ h.at \notin {"unused", "ended", "rejected"} /\ handling'[d].at # "unused"
             /\ handling'[d].answered = h.answered /\ answers' = answers
  <2>1. handling' = [handling EXCEPT ![d] = Rejected(h, e)] /\ answers' = answers
    BY <1>5 DEF GuardRefuses, ControllerThrows
  <2>2. Rejected(h, e).at = "rejected" /\ Rejected(h, e).answered = h.answered
    BY <1>1, OverFields DEF Rejected
  <2>3. h.at \in {"guard", "controller"}
    BY <1>5 DEF GuardRefuses, ControllerThrows, At
  <2> QED
    BY <1>3, <2>1, <2>2, <2>3
<1>6. CASE ControllerReturns(d)
  <2>1. /\ handling' = [handling EXCEPT ![d] = Over(h, "ended", "plain")]
        /\ answers' = IF answers = 0 THEN 1 ELSE answers
        /\ h.at = "controller"
    BY <1>6 DEF ControllerReturns, At
  <2>2. Over(h, "ended", "plain").at = "ended"
    BY <1>1, OverFields DEF Errors
  <2> QED
    BY <1>2, <1>3, <2>1, <2>2
<1>7. CASE HandlingRejects(d)
  <2> DEFINE r == [h EXCEPT !.at = "ended"]
  <2>1. handling' = [handling EXCEPT ![d] = r]
    BY <1>7 DEF HandlingRejects, TypeOK
  <2>2. h.at = "rejected"
    BY <1>7 DEF HandlingRejects, At
  <2>3. answers' = IF h.error = "falsy" THEN answers ELSE AnswersTo(h.error)
    BY <1>7 DEF HandlingRejects
  <2>4. r.at = "ended" /\ r.error = h.error /\ r.answered = h.answered
    BY <1>1 DEF Handlings
  <2> HIDE DEF r
  <2> QED
    BY <1>2, <1>3, <2>1, <2>2, <2>3, <2>4
<1>8. CASE ControllerAnswers(d)
  <2> DEFINE r == [h EXCEPT !.answered = TRUE]
  <2>1. handling' = [handling EXCEPT ![d] = r] /\ answers' = answers + 1
    BY <1>8 DEF ControllerAnswers, TypeOK
  <2>2. h.at = "controller" /\ ~h.answered
    BY <1>8 DEF ControllerAnswers, At
  <2>3. r.at = h.at /\ r.answered
    BY <1>1 DEF Handlings
  <2> HIDE DEF r
  <2> QED
    BY <1>2, <1>3, <2>1, <2>2, <2>3
<1> QED
  BY <1>2, <1>4, <1>5, <1>6, <1>7, <1>8 DEF HandlingSettles

\* The step of one handling that is not over keeps the request in one place.
LEMMA HandlingTallied ==
  ASSUME TypeOK, AllSound, Tally, NEW d \in 1..MaxDispatches,
         HandlingSettles(d) \/ ControllerAnswers(d)
  PROVE  Tally'
<1> DEFINE h == handling[d]
           r == handling'[d]
<1>1. /\ UNCHANGED <<position, acts>> /\ phase' # "body"
      /\ \A e \in 1..MaxDispatches \ {d} : handling'[e] = handling[e]
      /\ h.at \notin {"unused", "ended"} /\ r.at # "unused"
  BY HandlingOutcome
<1>2. \/ /\ h.at = "controller" /\ ~h.answered
         /\ r.answered /\ answers' = answers + 1
      \/ /\ h.at # "rejected" /\ r.answered = h.answered /\ answers' = answers
      \/ /\ h.at # "rejected" /\ r.at = "ended"
         /\ answers' = IF answers = 0 THEN 1 ELSE answers
      \/ /\ h.at = "rejected" /\ r.at = "ended"
         /\ r.error = h.error /\ r.answered = h.answered
         /\ answers' = IF h.error = "falsy" THEN answers ELSE AnswersTo(h.error)
  BY HandlingOutcome
<1>3. ASSUME OneActEach', NoTypedAfterAnswer'
      PROVE  OnePlace'
  <2>1. OneActEach
    BY <1>1, <1>3 DEF OneActEach
  <2>2. NoTypedAfterAnswer
    <3>1. ASSUME NEW e \in 1..MaxDispatches, handling[e].answered, handling[e].error = "typed"
          PROVE  FALSE
      <4>1. handling[e].at \in {"rejected", "ended"}
        BY <3>1, TypedIsPast
      <4>2. CASE e = d
        BY <1>1, <1>2, <1>3, <3>1, <4>1, <4>2 DEF NoTypedAfterAnswer
      <4>3. CASE e # d
        BY <1>1, <1>3, <3>1, <4>3 DEF NoTypedAfterAnswer
      <4> QED
        BY <4>2, <4>3
    <3> QED
      BY <3>1 DEF NoTypedAfterAnswer
  <2>3. OnePlace
    BY <2>1, <2>2 DEF Tally
  <2>4. /\ \A e \in 1..MaxDispatches : handling[e].at # "unused" => e = d
        /\ answers <= 1 /\ answers \in Nat
        /\ ~h.answered => answers = 0
    BY <1>1, <2>3 DEF OnePlace, TypeOK
  <2>5. \A e \in 1..MaxDispatches : e = d \/ handling'[e].at = "unused"
    BY <1>1, <2>4
  <2>6. \A i \in 1..MaxMiddlewares :
           /\ i < position => acts[i] = 1
           /\ ~(i = position /\ acts[i] = 0)
    BY <1>1, <2>3 DEF OnePlace, NothingYet
  <2>7. h.answered => h.error # "typed"
    BY <2>2 DEF NoTypedAfterAnswer
  <2>8. answers' <= 1 /\ (r.at # "ended" /\ ~r.answered => answers' = 0)
    BY <1>2, <2>4, <2>7 DEF AnswersTo
  <2> QED
    BY <1>1, <2>5, <2>6, <2>8 DEF OnePlace
<1> QED
  BY <1>1, <1>3 DEF Tally

\* The step of a security middleware, in its turn or left running, does not
\* answer.
LEMMA SecurityTallied ==
  ASSUME TypeOK, AllSound, Tally, NEW d \in 1..MaxDispatches, NEW i \in 1..MaxSecurities,
         SecuritySettles(d, i)
  PROVE  Tally'
<1> DEFINE h == handling[d]
           r == handling'[d]
<1>1. /\ UNCHANGED <<position, acts, answers>> /\ phase' # "body"
      /\ \A e \in 1..MaxDispatches \ {d} : handling'[e] = handling[e]
  BY SecurityOutcome
<1>2. \/ r.at = h.at /\ r.error = h.error /\ r.answered = h.answered
      \/ /\ h.at = "security" /\ ~h.answered
         /\ r.at \in {"controller", "rejected"} /\ ~r.answered
  BY SecurityOutcome
<1>3. ASSUME OneActEach', NoTypedAfterAnswer'
      PROVE  OnePlace'
  <2>1. OneActEach /\ NoTypedAfterAnswer
    BY <1>1, <1>2, <1>3 DEF OneActEach, NoTypedAfterAnswer
  <2>2. OnePlace
    BY <2>1 DEF Tally
  <2>3. \A e \in 1..MaxDispatches :
           /\ handling'[e].at = "unused" <=> handling[e].at = "unused"
           /\ handling'[e].at \notin {"unused", "ended"} /\ ~handling'[e].answered
                 => handling[e].at \notin {"unused", "ended"} /\ ~handling[e].answered
    BY <1>1, <1>2
  <2>4. NothingYet => NothingYet'
    BY <1>1, <2>3 DEF NothingYet
  <2> QED
    BY <1>1, <2>2, <2>3, <2>4 DEF OnePlace
<1> QED
  BY <1>1, <1>3 DEF Tally

\* Where the request is when runNext was called for the first time by the last
\* middleware.
LEMMA PassedOn ==
  ASSUME TypeOK, NothingYet, RunNext,
         \A i \in 1..MaxMiddlewares :
            acts'[i] = IF i <= position THEN 1 ELSE 0
  PROVE  OnePlace'
<1>1. position \in Nat /\ position' \in Nat
  BY Bounds DEF RunNext, TypeOK
<1>2. \A d \in 1..MaxDispatches : handling[d].at = "unused"
  BY DEF NothingYet
<1>3. CASE position' = position + 1 /\ UNCHANGED <<handling, answers>>
  <2>1. NothingYet'
    BY <1>3 DEF NothingYet
  <2>2. \A i \in 1..MaxMiddlewares : i < position' => i <= position
    BY <1>1, <1>3
  <2> QED
    BY <2>1, <2>2 DEF OnePlace, NothingYet
<1>4. CASE position' = position /\ handling' = handling /\ answers' = 1
  <2>1. \A i \in 1..MaxMiddlewares : i <= position' => acts'[i] = 1
    BY <1>4
  <2>2. \A i \in 1..MaxMiddlewares : i < position' \/ i = position' => i <= position'
    BY <1>1
  <2> QED
    BY <1>2, <1>4, <2>1, <2>2 DEF OnePlace
<1>5. CASE position' = position /\ Dispatch /\ answers' = answers
  <2>1. PICK d \in 1..MaxDispatches : \A e \in 1..MaxDispatches \ {d} : handling'[e] = handling[e]
    BY <1>5 DEF Dispatch, TypeOK
  <2>2. \A e \in 1..MaxDispatches : handling'[e].at # "unused" => e = d
    BY <1>2, <2>1
  <2>3. answers' = 0
    BY <1>5 DEF NothingYet
  <2>4. \A i \in 1..MaxMiddlewares : i < position' \/ i = position' => acts'[i] = 1
    BY <1>1, <1>5
  <2> QED
    BY <2>2, <2>3, <2>4 DEF OnePlace
<1> QED
  BY <1>3, <1>4, <1>5 DEF RunNext, AnswersTo, NothingYet

\* A middleware that has not acted yet has the request.
LEMMA MiddlewareTallied ==
  ASSUME TypeOK, AllSound, Tally, NEW i \in 1..MaxMiddlewares, MiddlewareActs(i)
  PROVE  Tally'
<1>1. Act(i)
  BY DEF MiddlewareActs, MiddlewareAnswers, MiddlewarePasses, MiddlewareFails
<1>2. /\ \A k \in 1..MaxMiddlewares : acts'[k] = IF k = i THEN acts[i] + 1 ELSE acts[k]
      /\ i <= position /\ phase' = "running"
      /\ \A k \in 1..MaxMiddlewares : acts[k] \in Nat
  BY <1>1, Bounds DEF Act, TypeOK
<1>3. position \in Nat /\ position' \in Nat /\ position' >= position
  BY Bounds
  DEF MiddlewareActs, MiddlewareAnswers, MiddlewarePasses, MiddlewareFails, RunNext, TypeOK
<1>4. \A k \in 1..MaxMiddlewares : k > position' => acts'[k] = 0
  <2>1. \A k \in 1..MaxMiddlewares : k > position' => k > position /\ k # i
    BY <1>2, <1>3
  <2> QED
    BY <1>2, <2>1 DEF Tally
<1>5. ASSUME OneActEach', NoTypedAfterAnswer'
      PROVE  OnePlace'
  <2>1. OneActEach /\ acts[i] = 0
    BY <1>2, <1>5 DEF OneActEach
  <2>2. NoTypedAfterAnswer
    <3>1. ASSUME NEW e \in 1..MaxDispatches, handling[e].answered, handling[e].error = "typed"
          PROVE  handling'[e] = handling[e]
      <4>1. handling[e].at # "unused"
        BY <3>1, TypedIsPast
      <4>2. handling' = handling \/ Dispatch
        BY DEF MiddlewareActs, MiddlewareAnswers, MiddlewarePasses, MiddlewareFails, RunNext
      <4> QED
        BY <4>1, <4>2 DEF Dispatch, TypeOK
    <3> QED
      BY <1>5, <3>1 DEF NoTypedAfterAnswer
  <2>3. OnePlace
    BY <2>1, <2>2 DEF Tally
  <2>4. i = position /\ NothingYet
    BY <1>2, <1>3, <2>1, <2>3 DEF OnePlace
  <2>5. \A k \in 1..MaxMiddlewares : acts'[k] = IF k <= position THEN 1 ELSE 0
    <3>1. \A k \in 1..MaxMiddlewares : k < position \/ k = i \/ k > position
      BY <1>3, <2>4
    <3>2. \A k \in 1..MaxMiddlewares : k < position => acts[k] = 1 /\ k # i
      BY <1>3, <2>3, <2>4 DEF OnePlace
    <3>3. \A k \in 1..MaxMiddlewares : k > position => acts[k] = 0 /\ k # i
      BY <1>3, <2>4 DEF Tally
    <3> QED
      BY <1>2, <1>3, <2>1, <2>4, <3>1, <3>2, <3>3
  <2>6. CASE MiddlewarePasses(i)
    BY <2>4, <2>5, <2>6, PassedOn DEF MiddlewarePasses
  <2>7. CASE MiddlewareAnswers(i) \/ \E e \in Errors : MiddlewareFails(i, e)
    <3>1. UNCHANGED <<position, handling>> /\ answers' = 1
      BY <2>4, <2>7 DEF MiddlewareAnswers, MiddlewareFails, AnswersTo, NothingYet
    <3>2. \A k \in 1..MaxMiddlewares : k < position \/ k = position => k <= position
      BY <1>3
    <3> QED
      BY <2>4, <2>5, <3>1, <3>2 DEF OnePlace, NothingYet
  <2> QED
    BY <2>6, <2>7 DEF MiddlewareActs
<1> QED
  BY <1>2, <1>4, <1>5 DEF Tally

\* The request is answered at most once (runNext and runErrorChain of
\* http-kernel.ts, handleRequest and its error middleware in http-adapter.ts).
THEOREM RequestPipelineAnsweredOnce == Spec => []AnsweredOnce
<1>1. Init => Tally
  <2> SUFFICES ASSUME Init PROVE Tally
    OBVIOUS
  <2>1. NothingYet /\ position = 0 /\ \A i \in 1..MaxMiddlewares : acts[i] = 0
    BY DEF Init, NothingYet, Unused
  <2> QED
    BY <2>1 DEF Tally, OnePlace, NothingYet
<1>2. TypeOK /\ AllSound /\ Tally /\ [Next]_vars => Tally'
  <2> SUFFICES ASSUME TypeOK, AllSound, Tally, [Next]_vars PROVE Tally'
    OBVIOUS
  <2>1. CASE BodyRefused
    <3>1. NothingYet /\ position = 0
      BY <2>1 DEF BodyRefused, Tally
    <3>2. OnePlace'
      BY <2>1, <3>1 DEF BodyRefused, OnePlace, NothingYet
    <3> QED
      BY <2>1, <3>2 DEF BodyRefused, Tally
  <2>2. CASE BodyRead
    <3>1. NothingYet /\ position = 0 /\ acts' = acts /\ RunNext /\ phase' = "running"
      BY <2>2 DEF BodyRead, Tally
    <3>2. \A k \in 1..MaxMiddlewares : k > position /\ ~(k <= position)
      BY <3>1
    <3>3. \A k \in 1..MaxMiddlewares : acts'[k] = 0
      BY <3>1, <3>2 DEF Tally
    <3>4. OnePlace'
      BY <3>1, <3>2, <3>3, PassedOn
    <3> QED
      BY <3>1, <3>3, <3>4 DEF Tally
  <2>3. CASE \E i \in 1..MaxMiddlewares : MiddlewareActs(i)
    BY <2>3, MiddlewareTallied
  <2>4. CASE \E d \in 1..MaxDispatches : HandlingSettles(d) \/ ControllerAnswers(d)
    BY <2>4, HandlingTallied
  <2>5. CASE \E d \in 1..MaxDispatches : \E i \in 1..MaxSecurities : SecuritySettles(d, i)
    BY <2>5, SecurityTallied
  <2>6. CASE UNCHANGED vars
    BY <2>6 DEF vars, Tally, OnePlace, NothingYet, OneActEach, NoTypedAfterAnswer
  <2> QED
    BY <2>1, <2>2, <2>3, <2>4, <2>5, <2>6 DEF Next
<1>3. Tally => AnsweredOnce
  BY DEF Tally, OnePlace, OneActEach, NoTypedAfterAnswer, AnsweredOnce
<1> QED
  BY <1>1, <1>2, <1>3, SoundInvariant, PTL DEF Spec

=============================================================================
