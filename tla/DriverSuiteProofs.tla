--------------------------- MODULE DriverSuiteProofs ---------------------------
(***************************************************************************)
(* What the SQL drivers and what works on them promise, for any number of  *)
(* callers, transactions, scopes and runners.  The components take turns   *)
(* in the suite, so a behaviour of the suite is one of each component, and *)
(* what is proved of a component's specification holds of the suite's.     *)
(***************************************************************************)
EXTENDS DriverSuite, SchemaSuiteProofs, Sequences, FiniteSetTheorems, WellFoundedInduction, TLAPS

-----------------------------------------------------------------------------
(* UnitOfWork: who is where, and who may have closed the transaction.      *)

\* Whoever calls the driver's commit or rollback first closes the transaction;
\* what becomes of it is decided by the owner, unless the helper was asked to.
ScopeAccounted(s) ==
    LET owner  == step[s]["owner"]
        helper == step[s]["helper"]
        t      == scopeTransaction[s]
    IN
    /\ owner = "idle" <=> t = "none"
    /\ owner = "idle" => helper = "idle"
    /\ helper = "idle" <=> asked[s] = "nothing"
    /\ helper \in {"commit", "committing", "onCommit"} => asked[s] = "commit"
    /\ helper \in {"rollback", "onRollback"} => asked[s] = "rollback"
    /\ helper # "handler"
    /\ t = "closing" <=> owner = "committing" \/ helper = "committing"
    /\ ~(owner = "committing" /\ helper = "committing")
    /\ owner = "onCommit" \/ helper = "onCommit" => t = "committed"
    /\ owner = "onRollback" \/ helper = "onRollback" => t = "rolledBack"
    /\ completed[s] => t \in {"committed", "rolledBack"}
    /\ owner \in {"handler", "commit"} /\ t \in {"closing", "committed"} =>
         asked[s] = "commit"
    /\ owner \in {"handler", "commit"} /\ t = "rolledBack" => asked[s] = "rollback"
    /\ (owner = "rollback" \/ outcome[s] = "rejected") /\ t \in {"closing", "committed"}
          => hooks[s].failed \/ asked[s] = "commit"
    /\ owner # "end" => outcome[s] = "none"
    /\ outcome[s] = "resolved" =>
          t = "committed" \/ (t = "rolledBack" /\ asked[s] = "rollback")
    /\ hooks[s].onCommit = (IF t = "committed" THEN 1 ELSE 0)
    /\ hooks[s].onRollback = (IF t = "rolledBack" THEN 1 ELSE 0)
    /\ s \in adopted => t = "committed"

ScopesAccounted == \A s \in Scopes : ScopeAccounted(s)

\* What a move of one caller leaves of the steps.
LEMMA MoveSteps ==
  ASSUME Uow!TypeOK, NEW s \in Scopes, NEW c \in Uow!Callers,
         NEW to \in Uow!Steps, Uow!Move(s, c, to)
  PROVE  /\ step' \in [Scopes -> [Uow!Callers -> Uow!Steps]]
         /\ step'[s][c] = to
         /\ \A d \in Uow!Callers \ {c} : step'[s][d] = step[s][d]
         /\ \A r \in Scopes \ {s} : step'[r] = step[r]
<1>1. step' = [step EXCEPT ![s] = [step[s] EXCEPT ![c] = to]]
  BY DEF Uow!Move, Uow!TypeOK
<1>2. [step[s] EXCEPT ![c] = to] \in [Uow!Callers -> Uow!Steps]
  BY DEF Uow!TypeOK
<1> QED
  BY <1>1, <1>2 DEF Uow!TypeOK

\* What a call that ends or throws leaves of the steps and of the outcome.
LEMMA ThrowSteps ==
  ASSUME Uow!TypeOK, NEW s \in Scopes, NEW c \in Uow!Callers,
         NEW told \in {"resolved", "rejected"}, Uow!End(s, c, told) \/ Uow!Throw(s, c)
  PROVE  /\ step' \in [Scopes -> [Uow!Callers -> Uow!Steps]]
         /\ outcome' \in [Scopes -> {"none", "resolved", "rejected"}]
         /\ \A d \in Uow!Callers \ {c} : step'[s][d] = step[s][d]
         /\ \A r \in Scopes \ {s} : step'[r] = step[r] /\ outcome'[r] = outcome[r]
         /\ \/ /\ step'[s][c] = "end"
               /\ outcome'[s] \in IF c = "helper" THEN {outcome[s]}
                                  ELSE IF Uow!End(s, c, told) THEN {told} ELSE {"rejected"}
               /\ ~Uow!End(s, c, told) /\ c = "owner" =>
                    step[s][c] \in {"rollback", "onRollback"}
            \/ /\ c = "owner" /\ step[s][c] \notin {"rollback", "onRollback"}
               /\ ~Uow!End(s, c, told)
               /\ step'[s][c] = "rollback" /\ outcome' = outcome
<1>c. c \in {"owner", "helper"} /\ {"end", "rollback"} \subseteq Uow!Steps
  BY DEF Uow!Callers, Uow!Steps, Uow!Calls
<1>1. ASSUME NEW what \in {"resolved", "rejected"}, Uow!End(s, c, what)
      PROVE  /\ step' \in [Scopes -> [Uow!Callers -> Uow!Steps]]
             /\ outcome' \in [Scopes -> {"none", "resolved", "rejected"}]
             /\ \A d \in Uow!Callers \ {c} : step'[s][d] = step[s][d]
             /\ \A r \in Scopes \ {s} : step'[r] = step[r] /\ outcome'[r] = outcome[r]
             /\ step'[s][c] = "end"
             /\ outcome'[s] = IF c = "helper" THEN outcome[s] ELSE what
  <2>1. Uow!Move(s, c, "end")
    BY <1>1 DEF Uow!End
  <2>2. outcome' = IF c = "owner" THEN [outcome EXCEPT ![s] = what] ELSE outcome
    BY <1>1 DEF Uow!End
  <2> QED
    BY <1>c, <2>1, <2>2, MoveSteps DEF Uow!TypeOK
<1>2. CASE Uow!End(s, c, told)
  BY <1>c, <1>1, <1>2
<1>3. CASE ~Uow!End(s, c, told)
  <2>1. CASE c = "owner" /\ step[s][c] \notin {"rollback", "onRollback"}
    <3>1. Uow!Move(s, c, "rollback") /\ outcome' = outcome
      BY <1>3, <2>1 DEF Uow!Throw
    <3> QED
      BY <1>c, <1>3, <2>1, <3>1, MoveSteps DEF Uow!TypeOK
  <2>2. CASE ~(c = "owner" /\ step[s][c] \notin {"rollback", "onRollback"})
    <3>1. Uow!End(s, c, "rejected")
      BY <1>3, <2>2 DEF Uow!Throw
    <3> QED
      BY <1>c, <1>1, <1>3, <2>2, <3>1
  <2> QED
    BY <2>1, <2>2
<1> QED
  BY <1>2, <1>3

\* A scope of which a step changes nothing stays accounted for.
LEMMA OthersAccounted ==
  ASSUME NEW s \in Scopes, ScopeAccounted(s),
         step'[s] = step[s], scopeTransaction'[s] = scopeTransaction[s],
           asked'[s] = asked[s],
         completed'[s] = completed[s], outcome'[s] = outcome[s], hooks'[s] = hooks[s],
         (s \in adopted') = (s \in adopted)
  PROVE  ScopeAccounted(s)'
BY DEF ScopeAccounted

\* The transaction of a scope begins.
LEMMA BeginAccounted ==
  ASSUME Uow!TypeOK, ScopesAccounted, NEW s \in Scopes, Uow!Begin(s)
  PROVE  Uow!TypeOK' /\ ScopesAccounted'
<1>1. /\ step' \in [Scopes -> [Uow!Callers -> Uow!Steps]]
      /\ step'[s]["owner"] = "handler" /\ step'[s]["helper"] = step[s]["helper"]
      /\ \A r \in Scopes \ {s} : step'[r] = step[r]
  BY MoveSteps DEF Uow!Begin, Uow!Callers, Uow!Steps
<1>2. Uow!TypeOK'
  BY <1>1 DEF Uow!TypeOK, Uow!Begin
<1>3. ScopeAccounted(s) /\ step[s]["owner"] = "idle" /\ scopeTransaction'[s] = "active"
  BY DEF ScopesAccounted, Uow!Begin, Uow!TypeOK
<1>4. ScopeAccounted(s)'
  BY <1>1, <1>3 DEF ScopeAccounted, Uow!Begin
<1>5. \A r \in Scopes \ {s} : ScopeAccounted(r)'
  BY <1>1, OthersAccounted DEF ScopesAccounted, Uow!Begin, Uow!TypeOK
<1> QED
  BY <1>2, <1>4, <1>5 DEF ScopesAccounted

\* The handler returns.
LEMMA HandlerReturnsAccounted ==
  ASSUME Uow!TypeOK, ScopesAccounted, NEW s \in Scopes, Uow!HandlerReturns(s)
  PROVE  Uow!TypeOK' /\ ScopesAccounted'
<1>1. /\ step' \in [Scopes -> [Uow!Callers -> Uow!Steps]]
      /\ step'[s]["owner"] = "commit" /\ step'[s]["helper"] = step[s]["helper"]
      /\ \A r \in Scopes \ {s} : step'[r] = step[r]
  BY MoveSteps DEF Uow!HandlerReturns, Uow!Callers, Uow!Steps, Uow!Calls
<1>2. Uow!TypeOK'
  BY <1>1 DEF Uow!TypeOK, Uow!HandlerReturns
<1>3. ScopeAccounted(s) /\ step[s]["owner"] = "handler"
  BY DEF ScopesAccounted, Uow!HandlerReturns
<1>4. ScopeAccounted(s)'
  BY <1>1, <1>3 DEF ScopeAccounted, Uow!HandlerReturns
<1>5. \A r \in Scopes \ {s} : ScopeAccounted(r)'
  BY <1>1, OthersAccounted DEF ScopesAccounted, Uow!HandlerReturns
<1> QED
  BY <1>2, <1>4, <1>5 DEF ScopesAccounted

\* The handler throws.
LEMMA HandlerThrowsAccounted ==
  ASSUME Uow!TypeOK, ScopesAccounted, NEW s \in Scopes, Uow!HandlerThrows(s)
  PROVE  Uow!TypeOK' /\ ScopesAccounted'
<1>1. ScopeAccounted(s) /\ step[s]["owner"] = "handler"
  BY DEF ScopesAccounted, Uow!HandlerThrows
<1>2. Uow!Move(s, "owner", "rollback") /\ UNCHANGED outcome
  BY <1>1 DEF Uow!HandlerThrows, Uow!Throw
<1>3. /\ step' \in [Scopes -> [Uow!Callers -> Uow!Steps]]
      /\ step'[s]["owner"] = "rollback" /\ step'[s]["helper"] = step[s]["helper"]
      /\ \A r \in Scopes \ {s} : step'[r] = step[r]
  BY <1>2, MoveSteps DEF Uow!Callers, Uow!Steps, Uow!Calls
<1>4. Uow!TypeOK'
  BY <1>2, <1>3 DEF Uow!TypeOK, Uow!HandlerThrows
<1>5. ScopeAccounted(s)'
  BY <1>1, <1>2, <1>3 DEF ScopeAccounted, Uow!HandlerThrows
<1>6. \A r \in Scopes \ {s} : ScopeAccounted(r)'
  BY <1>2, <1>3, OthersAccounted DEF ScopesAccounted, Uow!HandlerThrows
<1> QED
  BY <1>4, <1>5, <1>6 DEF ScopesAccounted

\* The helper asks for a commit or for a rollback.
LEMMA HelperCallsAccounted ==
  ASSUME Uow!TypeOK, ScopesAccounted, NEW s \in Scopes, Uow!HelperCalls(s)
  PROVE  Uow!TypeOK' /\ ScopesAccounted'
<1>1. PICK call \in Uow!Calls : Uow!Move(s, "helper", call)
        /\ asked' = [asked EXCEPT ![s] = call]
  BY DEF Uow!HelperCalls
<1>2. /\ step' \in [Scopes -> [Uow!Callers -> Uow!Steps]]
      /\ step'[s]["helper"] = call /\ step'[s]["owner"] = step[s]["owner"]
      /\ \A r \in Scopes \ {s} : step'[r] = step[r]
  BY <1>1, MoveSteps DEF Uow!Callers, Uow!Steps
<1>3. /\ asked' \in [Scopes -> Uow!Calls \cup {"nothing"}]
      /\ asked'[s] = call /\ \A r \in Scopes \ {s} : asked'[r] = asked[r]
  BY <1>1 DEF Uow!TypeOK
<1>4. Uow!TypeOK'
  BY <1>2, <1>3 DEF Uow!TypeOK, Uow!HelperCalls
<1>5. ScopeAccounted(s) /\ step[s]["helper"] = "idle" /\ step[s]["owner"] # "idle"
  BY DEF ScopesAccounted, Uow!HelperCalls
<1>6. call \in {"commit", "rollback"} /\ asked[s] = "nothing"
  BY <1>5 DEF Uow!Calls, ScopeAccounted
<1>7. ScopeAccounted(s)'
  BY <1>2, <1>3, <1>5, <1>6 DEF ScopeAccounted, Uow!HelperCalls
<1>8. \A r \in Scopes \ {s} : ScopeAccounted(r)'
  BY <1>2, <1>3, OthersAccounted DEF ScopesAccounted, Uow!HelperCalls
<1> QED
  BY <1>4, <1>7, <1>8 DEF ScopesAccounted

\* commit is called: it answers at once, is refused, or closes the transaction.
LEMMA EnterCommitAccounted ==
  ASSUME Uow!TypeOK, ScopesAccounted, NEW s \in Scopes,
         NEW c \in Uow!Callers, Uow!EnterCommit(s, c)
  PROVE  Uow!TypeOK' /\ ScopesAccounted'
<1>c. c \in {"owner", "helper"} /\ Uow!Callers = {"owner", "helper"}
        /\ "committing" \in Uow!Steps
  BY DEF Uow!Callers, Uow!Steps
<1>1. ScopeAccounted(s) /\ step[s][c] = "commit"
  BY DEF ScopesAccounted, Uow!EnterCommit
<1>2. CASE completed[s]
  <2>1. Uow!End(s, c, "resolved") /\ UNCHANGED scopeTransaction
    BY <1>2 DEF Uow!EnterCommit, Uow!Settled
  <2>2. /\ step' \in [Scopes -> [Uow!Callers -> Uow!Steps]]
        /\ outcome' \in [Scopes -> {"none", "resolved", "rejected"}]
        /\ step'[s][c] = "end" /\ \A d \in Uow!Callers \ {c} : step'[s][d] = step[s][d]
        /\ outcome'[s] = IF c = "helper" THEN outcome[s] ELSE "resolved"
        /\ \A r \in Scopes \ {s} : step'[r] = step[r] /\ outcome'[r] = outcome[r]
    BY <1>c, <2>1, ThrowSteps DEF Uow!TypeOK
  <2>3. Uow!TypeOK'
    BY <2>1, <2>2 DEF Uow!TypeOK, Uow!EnterCommit
  <2>4. ScopeAccounted(s)'
    BY <1>c, <1>1, <1>2, <2>1, <2>2 DEF ScopeAccounted, Uow!EnterCommit
  <2>5. \A r \in Scopes \ {s} : ScopeAccounted(r)'
    BY <2>1, <2>2, OthersAccounted DEF ScopesAccounted, Uow!EnterCommit
  <2> QED
    BY <2>3, <2>4, <2>5 DEF ScopesAccounted
<1>3. CASE ~completed[s] /\ scopeTransaction[s] # "active"
  <2>1. Uow!Throw(s, c) /\ UNCHANGED scopeTransaction
    BY <1>3 DEF Uow!EnterCommit, Uow!Settled
  <2>2. /\ step' \in [Scopes -> [Uow!Callers -> Uow!Steps]]
        /\ outcome' = outcome
        /\ step'[s][c] = IF c = "owner" THEN "rollback" ELSE "end"
        /\ \A d \in Uow!Callers \ {c} : step'[s][d] = step[s][d]
        /\ \A r \in Scopes \ {s} : step'[r] = step[r]
    <3>1. CASE c = "owner"
      <4>1. Uow!Move(s, c, "rollback") /\ UNCHANGED outcome
        BY <1>1, <2>1, <3>1 DEF Uow!Throw
      <4> QED
        BY <3>1, <4>1, MoveSteps DEF Uow!Steps, Uow!Calls
    <3>2. CASE c = "helper"
      <4>1. Uow!Move(s, c, "end") /\ UNCHANGED outcome
        BY <2>1, <3>2 DEF Uow!Throw, Uow!End
      <4> QED
        BY <3>2, <4>1, MoveSteps DEF Uow!Steps
    <3> QED
      BY <1>c, <3>1, <3>2
  <2>3. Uow!TypeOK'
    BY <2>1, <2>2 DEF Uow!TypeOK, Uow!EnterCommit
  <2>4. ScopeAccounted(s)'
    BY <1>c, <1>1, <1>3, <2>1, <2>2 DEF ScopeAccounted, Uow!EnterCommit
  <2>5. \A r \in Scopes \ {s} : ScopeAccounted(r)'
    BY <2>1, <2>2, OthersAccounted DEF ScopesAccounted, Uow!EnterCommit
  <2> QED
    BY <2>3, <2>4, <2>5 DEF ScopesAccounted
<1>4. CASE ~completed[s] /\ scopeTransaction[s] = "active"
  <2>1. /\ Uow!Move(s, c, "committing") /\ UNCHANGED outcome
        /\ scopeTransaction' = [scopeTransaction EXCEPT ![s] = "closing"]
    BY <1>4 DEF Uow!EnterCommit, Uow!Settled
  <2>2. /\ step' \in [Scopes -> [Uow!Callers -> Uow!Steps]]
        /\ step'[s][c] = "committing"
             /\ \A d \in Uow!Callers \ {c} : step'[s][d] = step[s][d]
        /\ \A r \in Scopes \ {s} : step'[r] = step[r]
    BY <1>c, <2>1, MoveSteps
  <2>3. scopeTransaction'[s] = "closing"
          /\ \A r \in Scopes \ {s} : scopeTransaction'[r] = scopeTransaction[r]
    BY <2>1 DEF Uow!TypeOK
  <2>4. Uow!TypeOK'
    BY <2>1, <2>2 DEF Uow!TypeOK, Uow!EnterCommit
  <2>5. ScopeAccounted(s)'
    BY <1>c, <1>1, <1>4, <2>1, <2>2, <2>3 DEF ScopeAccounted, Uow!EnterCommit
  <2>6. \A r \in Scopes \ {s} : ScopeAccounted(r)'
    BY <2>1, <2>2, <2>3, OthersAccounted DEF ScopesAccounted, Uow!EnterCommit
  <2> QED
    BY <2>4, <2>5, <2>6 DEF ScopesAccounted
<1> QED
  BY <1>2, <1>3, <1>4

\* The driver's commit has taken effect and the hook starts.
LEMMA DriverCommitsAccounted ==
  ASSUME Uow!TypeOK, ScopesAccounted, NEW s \in Scopes,
         NEW c \in Uow!Callers, Uow!DriverCommits(s, c)
  PROVE  Uow!TypeOK' /\ ScopesAccounted'
<1>c. c \in {"owner", "helper"} /\ Uow!Callers = {"owner", "helper"}
        /\ "onCommit" \in Uow!Steps
  BY DEF Uow!Callers, Uow!Steps
<1>1. ScopeAccounted(s) /\ step[s][c] = "committing"
  BY DEF ScopesAccounted, Uow!DriverCommits
<1>2. scopeTransaction[s] = "closing" /\ hooks[s].onCommit = 0
  BY <1>c, <1>1 DEF ScopeAccounted
<1>3. /\ step' \in [Scopes -> [Uow!Callers -> Uow!Steps]]
      /\ step'[s][c] = "onCommit" /\ \A d \in Uow!Callers \ {c} : step'[s][d] = step[s][d]
      /\ \A r \in Scopes \ {s} : step'[r] = step[r]
  BY <1>c, MoveSteps DEF Uow!DriverCommits
<1>4. scopeTransaction'[s] = "committed"
        /\ \A r \in Scopes \ {s} : scopeTransaction'[r] = scopeTransaction[r]
  BY DEF Uow!TypeOK, Uow!DriverCommits
<1>5. /\ hooks' \in [Scopes -> [onCommit : 0..2, onRollback : 0..2, failed : BOOLEAN]]
      /\ hooks'[s] = [hooks[s] EXCEPT !.onCommit = 1]
      /\ \A r \in Scopes \ {s} : hooks'[r] = hooks[r]
  <2>1. hooks' = [hooks EXCEPT ![s] = [hooks[s] EXCEPT !.onCommit = hooks[s].onCommit + 1]]
    BY DEF Uow!DriverCommits, Uow!StartOnCommit
  <2>2. [hooks[s] EXCEPT !.onCommit = 1] \in [onCommit : 0..2, onRollback : 0..2,
          failed : BOOLEAN]
    <3>1. PICK h : h = hooks[s]
      OBVIOUS
    <3>2. h \in [onCommit : 0..2, onRollback : 0..2, failed : BOOLEAN]
      BY <3>1 DEF Uow!TypeOK
    <3>3. [h EXCEPT !.onCommit = 1] \in [onCommit : 0..2, onRollback : 0..2,
            failed : BOOLEAN]
      BY <3>2
    <3> QED
      BY <3>1, <3>3
  <2> QED
    BY <1>2, <2>1, <2>2 DEF Uow!TypeOK
<1>6. hooks'[s].onCommit = 1 /\ hooks'[s].onRollback = hooks[s].onRollback
      /\ hooks'[s].failed = hooks[s].failed
  BY <1>5 DEF Uow!TypeOK
<1>7. adopted' \subseteq adopted \cup {s} /\ adopted \subseteq adopted'
  BY DEF Uow!DriverCommits, Uow!StartOnCommit
<1>8. Uow!TypeOK'
  BY <1>3, <1>5, <1>7 DEF Uow!TypeOK, Uow!DriverCommits
<1>9. ScopeAccounted(s)'
  BY <1>c, <1>1, <1>2, <1>3, <1>4, <1>6 DEF ScopeAccounted, Uow!DriverCommits
<1>10. \A r \in Scopes \ {s} : ScopeAccounted(r)'
  BY <1>3, <1>4, <1>5, <1>7, OthersAccounted DEF ScopesAccounted, Uow!DriverCommits
<1> QED
  BY <1>8, <1>9, <1>10 DEF ScopesAccounted

\* The driver's commit fails: what the scope wrote is lost.
LEMMA DriverCommitFailsAccounted ==
  ASSUME Uow!UnitOfWorkAssumption, Uow!TypeOK, ScopesAccounted,
         NEW s \in Scopes, NEW c \in Uow!Callers, Uow!DriverCommitFails(s, c)
  PROVE  Uow!TypeOK' /\ ScopesAccounted'
<1>c. c \in {"owner", "helper"} /\ Uow!Callers = {"owner", "helper"}
      /\ {"end", "rollback"} \subseteq Uow!Steps
  BY DEF Uow!Callers, Uow!Steps, Uow!Calls
<1>1. ScopeAccounted(s) /\ step[s][c] = "committing"
  BY DEF ScopesAccounted, Uow!DriverCommitFails
<1>2. scopeTransaction[s] = "closing"
  BY <1>c, <1>1 DEF ScopeAccounted
<1>3. /\ step' \in [Scopes -> [Uow!Callers -> Uow!Steps]] /\ outcome' = outcome
      /\ step'[s][c] = IF c = "owner" THEN "rollback" ELSE "end"
      /\ \A d \in Uow!Callers \ {c} : step'[s][d] = step[s][d]
      /\ \A r \in Scopes \ {s} : step'[r] = step[r]
  <2>1. CASE c = "owner"
    <3>1. Uow!Move(s, c, "rollback") /\ UNCHANGED outcome
      BY <1>1, <2>1 DEF Uow!Throw, Uow!DriverCommitFails
    <3> QED
      BY <1>c, <2>1, <3>1, MoveSteps
  <2>2. CASE c = "helper"
    <3>1. Uow!Move(s, c, "end") /\ UNCHANGED outcome
      BY <2>2 DEF Uow!Throw, Uow!End, Uow!DriverCommitFails
    <3> QED
      BY <1>c, <2>2, <3>1, MoveSteps
  <2> QED
    BY <1>c, <2>1, <2>2
<1>4. scopeTransaction'[s] = "lost"
        /\ \A r \in Scopes \ {s} : scopeTransaction'[r] = scopeTransaction[r]
  BY DEF Uow!TypeOK, Uow!DriverCommitFails
<1>5. commitFaults' \in 0..MaxCommitFaults
  BY DEF Uow!TypeOK, Uow!DriverCommitFails, Uow!UnitOfWorkAssumption
<1>6. Uow!TypeOK'
  BY <1>3, <1>5 DEF Uow!TypeOK, Uow!DriverCommitFails
<1>7. ScopeAccounted(s)'
  BY <1>c, <1>1, <1>2, <1>3, <1>4 DEF ScopeAccounted, Uow!DriverCommitFails
<1>8. \A r \in Scopes \ {s} : ScopeAccounted(r)'
  BY <1>3, <1>4, OthersAccounted DEF ScopesAccounted, Uow!DriverCommitFails
<1> QED
  BY <1>6, <1>7, <1>8 DEF ScopesAccounted

\* A hook has ended; what it did is the caller's answer.
LEMMA HookEndsAccounted ==
  ASSUME Uow!TypeOK, ScopesAccounted, NEW s \in Scopes,
         NEW c \in Uow!Callers, Uow!HookEnds(s, c)
  PROVE  Uow!TypeOK' /\ ScopesAccounted'
<1> DEFINE told == IF step[s][c] = "onCommit" THEN "resolved" ELSE "rejected"
<1>c. c \in {"owner", "helper"} /\ Uow!Callers = {"owner", "helper"}
  BY DEF Uow!Callers
<1>1. ScopeAccounted(s) /\ step[s][c] \in {"onCommit", "onRollback"}
  BY DEF ScopesAccounted, Uow!HookEnds
<1>2. Uow!End(s, c, told)
  BY DEF Uow!HookEnds
<1>3. /\ step' \in [Scopes -> [Uow!Callers -> Uow!Steps]]
      /\ outcome' \in [Scopes -> {"none", "resolved", "rejected"}]
      /\ step'[s][c] = "end" /\ \A d \in Uow!Callers \ {c} : step'[s][d] = step[s][d]
      /\ outcome'[s] = IF c = "helper" THEN outcome[s] ELSE told
      /\ \A r \in Scopes \ {s} : step'[r] = step[r] /\ outcome'[r] = outcome[r]
  BY <1>c, <1>2, ThrowSteps DEF Uow!TypeOK
<1>4. /\ completed' \in [Scopes -> BOOLEAN]
      /\ completed'[s] \in {completed[s], TRUE}
      /\ \A r \in Scopes \ {s} : completed'[r] = completed[r]
  BY DEF Uow!TypeOK, Uow!HookEnds
<1>5. Uow!TypeOK'
  BY <1>3, <1>4 DEF Uow!TypeOK, Uow!HookEnds
<1>6. ScopeAccounted(s)'
  <2>1. CASE step[s][c] = "onCommit"
    <3>1. scopeTransaction[s] = "committed" /\ told = "resolved"
      BY <1>c, <1>1, <2>1 DEF ScopeAccounted
    <3> QED
      BY <1>c, <1>1, <1>3, <1>4, <2>1, <3>1 DEF ScopeAccounted, Uow!HookEnds
  <2>2. CASE step[s][c] = "onRollback"
    <3>1. scopeTransaction[s] = "rolledBack" /\ told = "rejected"
      BY <1>c, <1>1, <2>2 DEF ScopeAccounted
    <3> QED
      BY <1>c, <1>1, <1>3, <1>4, <2>2, <3>1 DEF ScopeAccounted, Uow!HookEnds
  <2> QED
    BY <1>1, <2>1, <2>2
<1>7. \A r \in Scopes \ {s} : ScopeAccounted(r)'
  BY <1>3, <1>4, OthersAccounted DEF ScopesAccounted, Uow!HookEnds
<1> QED
  BY <1>5, <1>6, <1>7 DEF ScopesAccounted

\* A hook given by hand throws.
LEMMA HookThrowsAccounted ==
  ASSUME Uow!TypeOK, ScopesAccounted, NEW s \in Scopes,
         NEW c \in Uow!Callers, Uow!HookThrows(s, c)
  PROVE  Uow!TypeOK' /\ ScopesAccounted'
<1>c. c \in {"owner", "helper"} /\ Uow!Callers = {"owner", "helper"}
      /\ {"end", "rollback"} \subseteq Uow!Steps
  BY DEF Uow!Callers, Uow!Steps, Uow!Calls
<1>1. ScopeAccounted(s) /\ step[s][c] \in {"onCommit", "onRollback"} /\ Uow!Throw(s, c)
  BY DEF ScopesAccounted, Uow!HookThrows
<1>2. /\ step' \in [Scopes -> [Uow!Callers -> Uow!Steps]]
      /\ outcome' \in [Scopes -> {"none", "resolved", "rejected"}]
      /\ \A d \in Uow!Callers \ {c} : step'[s][d] = step[s][d]
      /\ \A r \in Scopes \ {s} : step'[r] = step[r] /\ outcome'[r] = outcome[r]
      /\ \/ c = "owner" /\ step[s][c] = "onCommit"
            /\ step'[s][c] = "rollback" /\ outcome'[s] = outcome[s]
         \/ c = "owner" /\ step[s][c] = "onRollback"
            /\ step'[s][c] = "end" /\ outcome'[s] = "rejected"
         \/ c = "helper" /\ step'[s][c] = "end" /\ outcome'[s] = outcome[s]
  <2>1. CASE c = "owner" /\ step[s][c] = "onCommit"
    <3>1. Uow!Move(s, c, "rollback") /\ UNCHANGED outcome
      BY <1>1, <2>1 DEF Uow!Throw
    <3> QED
      BY <1>c, <2>1, <3>1, MoveSteps DEF Uow!TypeOK
  <2>2. CASE c = "owner" /\ step[s][c] = "onRollback"
    <3>1. Uow!Move(s, c, "end") /\ outcome' = [outcome EXCEPT ![s] = "rejected"]
      BY <1>1, <2>2 DEF Uow!Throw, Uow!End
    <3> QED
      BY <1>c, <2>2, <3>1, MoveSteps DEF Uow!TypeOK
  <2>3. CASE c = "helper"
    <3>1. Uow!Move(s, c, "end") /\ UNCHANGED outcome
      BY <1>1, <2>3 DEF Uow!Throw, Uow!End
    <3> QED
      BY <1>c, <2>3, <3>1, MoveSteps DEF Uow!TypeOK
  <2> QED
    BY <1>c, <1>1, <2>1, <2>2, <2>3
<1>3. /\ hooks' \in [Scopes -> [onCommit : 0..2, onRollback : 0..2, failed : BOOLEAN]]
      /\ hooks'[s].onCommit = hooks[s].onCommit
           /\ hooks'[s].onRollback = hooks[s].onRollback
      /\ hooks'[s].failed /\ \A r \in Scopes \ {s} : hooks'[r] = hooks[r]
  <2>1. hooks' = [hooks EXCEPT ![s] = [hooks[s] EXCEPT !.failed = TRUE]]
    BY DEF Uow!HookThrows
  <2>2. [hooks[s] EXCEPT !.failed = TRUE] \in [onCommit : 0..2, onRollback : 0..2,
          failed : BOOLEAN]
    BY ZenonT(40) DEF Uow!TypeOK
  <2> QED
    BY <2>1, <2>2 DEF Uow!TypeOK
<1>4. Uow!TypeOK'
  BY <1>2, <1>3 DEF Uow!TypeOK, Uow!HookThrows
<1>5. ScopeAccounted(s)'
  BY <1>c, <1>1, <1>2, <1>3 DEF ScopeAccounted, Uow!HookThrows
<1>6. \A r \in Scopes \ {s} : ScopeAccounted(r)'
  BY <1>2, <1>3, OthersAccounted DEF ScopesAccounted, Uow!HookThrows
<1> QED
  BY <1>4, <1>5, <1>6 DEF ScopesAccounted

\* rollback is called: it finds the unit settled, or it takes effect at once.
LEMMA RollbackAccounted ==
  ASSUME Uow!TypeOK, ScopesAccounted, NEW s \in Scopes,
         NEW c \in Uow!Callers, Uow!Rollback(s, c)
  PROVE  Uow!TypeOK' /\ ScopesAccounted'
<1>c. c \in {"owner", "helper"} /\ Uow!Callers = {"owner", "helper"}
        /\ "onRollback" \in Uow!Steps
  BY DEF Uow!Callers, Uow!Steps
<1>1. ScopeAccounted(s) /\ step[s][c] = "rollback"
  BY DEF ScopesAccounted, Uow!Rollback
<1>2. CASE completed[s] \/ scopeTransaction[s] # "active"
  <2>1. Uow!End(s, c, "rejected") /\ UNCHANGED <<scopeTransaction, hooks>>
    BY <1>2 DEF Uow!Rollback, Uow!Settled
  <2>2. /\ step' \in [Scopes -> [Uow!Callers -> Uow!Steps]]
        /\ outcome' \in [Scopes -> {"none", "resolved", "rejected"}]
        /\ step'[s][c] = "end" /\ \A d \in Uow!Callers \ {c} : step'[s][d] = step[s][d]
        /\ outcome'[s] = IF c = "helper" THEN outcome[s] ELSE "rejected"
        /\ \A r \in Scopes \ {s} : step'[r] = step[r] /\ outcome'[r] = outcome[r]
    BY <1>c, <2>1, ThrowSteps DEF Uow!TypeOK
  <2>3. Uow!TypeOK'
    BY <2>1, <2>2 DEF Uow!TypeOK, Uow!Rollback
  <2>4. ScopeAccounted(s)'
    BY <1>c, <1>1, <1>2, <2>1, <2>2 DEF ScopeAccounted, Uow!Rollback
  <2>5. \A r \in Scopes \ {s} : ScopeAccounted(r)'
    BY <2>1, <2>2, OthersAccounted DEF ScopesAccounted, Uow!Rollback
  <2> QED
    BY <2>3, <2>4, <2>5 DEF ScopesAccounted
<1>3. CASE ~(completed[s] \/ scopeTransaction[s] # "active")
  <2>1. /\ scopeTransaction' = [scopeTransaction EXCEPT ![s] = "rolledBack"]
        /\ Uow!Move(s, c, "onRollback") /\ UNCHANGED outcome
        /\ hooks' = [hooks EXCEPT ![s] = [hooks[s] EXCEPT !.onRollback = hooks[s].onRollback + 1]]
    BY <1>3 DEF Uow!Rollback, Uow!Settled
  <2>2. /\ step' \in [Scopes -> [Uow!Callers -> Uow!Steps]]
        /\ step'[s][c] = "onRollback"
             /\ \A d \in Uow!Callers \ {c} : step'[s][d] = step[s][d]
        /\ \A r \in Scopes \ {s} : step'[r] = step[r]
    BY <1>c, <2>1, MoveSteps
  <2>3. scopeTransaction'[s] = "rolledBack"
          /\ \A r \in Scopes \ {s} : scopeTransaction'[r] = scopeTransaction[r]
    BY <2>1 DEF Uow!TypeOK
  <2>4. /\ hooks' \in [Scopes -> [onCommit : 0..2, onRollback : 0..2, failed : BOOLEAN]]
        /\ hooks'[s].onCommit = hooks[s].onCommit /\ hooks'[s].onRollback = 1
        /\ hooks'[s].failed = hooks[s].failed
             /\ \A r \in Scopes \ {s} : hooks'[r] = hooks[r]
    <3>1. hooks[s].onRollback = 0
      BY <1>1, <1>3 DEF ScopeAccounted
    <3>2. hooks[s] \in [onCommit : 0..2, onRollback : 0..2, failed : BOOLEAN] /\ 1 \in 0..2
      BY DEF Uow!TypeOK
    <3>3. [hooks[s] EXCEPT !.onRollback = 1] \in
            [onCommit : 0..2, onRollback : 0..2, failed : BOOLEAN]
      BY <3>2
    <3> QED
      BY <2>1, <3>1, <3>3 DEF Uow!TypeOK
  <2>5. Uow!TypeOK'
    BY <2>1, <2>2, <2>4 DEF Uow!TypeOK, Uow!Rollback
  <2>6. ScopeAccounted(s)'
    BY <1>c, <1>1, <1>3, <2>1, <2>2, <2>3, <2>4 DEF ScopeAccounted, Uow!Rollback
  <2>7. \A r \in Scopes \ {s} : ScopeAccounted(r)'
    BY <2>1, <2>2, <2>3, <2>4, OthersAccounted DEF ScopesAccounted, Uow!Rollback
  <2> QED
    BY <2>5, <2>6, <2>7 DEF ScopesAccounted
<1> QED
  BY <1>2, <1>3

\* No step leaves a scope unaccounted for.
LEMMA ScopesStep ==
  ASSUME Uow!UnitOfWorkAssumption, Uow!TypeOK, ScopesAccounted, [Uow!UowNext]_Uow!uowVars
  PROVE  Uow!TypeOK' /\ ScopesAccounted'
<1>1. CASE UNCHANGED Uow!uowVars
  BY <1>1 DEF Uow!uowVars, Uow!TypeOK, ScopesAccounted, ScopeAccounted
<1>2. ASSUME Uow!UowNext
      PROVE  Uow!TypeOK' /\ ScopesAccounted'
  <2>1. PICK s \in Scopes :
           \/ Uow!Begin(s) \/ Uow!HandlerReturns(s) \/ Uow!HandlerThrows(s)
                \/ Uow!HelperCalls(s)
           \/ \E c \in Uow!Callers :
                 \/ Uow!EnterCommit(s, c) \/ Uow!DriverCommits(s, c)
                      \/ Uow!DriverCommitFails(s, c)
                 \/ Uow!HookEnds(s, c) \/ Uow!HookThrows(s, c) \/ Uow!Rollback(s, c)
    BY <1>2 DEF Uow!UowNext
  <2>2. CASE Uow!Begin(s) \/ Uow!HandlerReturns(s) \/ Uow!HandlerThrows(s)
          \/ Uow!HelperCalls(s)
    BY <2>2, BeginAccounted, HandlerReturnsAccounted, HandlerThrowsAccounted,
       HelperCallsAccounted
  <2>3. ASSUME NEW c \in Uow!Callers,
               \/ Uow!EnterCommit(s, c) \/ Uow!DriverCommits(s, c)
                    \/ Uow!DriverCommitFails(s, c)
               \/ Uow!HookEnds(s, c) \/ Uow!HookThrows(s, c) \/ Uow!Rollback(s, c)
        PROVE  Uow!TypeOK' /\ ScopesAccounted'
    BY <2>3, EnterCommitAccounted, DriverCommitsAccounted, DriverCommitFailsAccounted,
       HookEndsAccounted, HookThrowsAccounted, RollbackAccounted
  <2> QED
    BY <2>1, <2>2, <2>3
<1> QED
  BY <1>1, <1>2

\* Nothing has happened yet.
LEMMA ScopesInit ==
  ASSUME Uow!UnitOfWorkAssumption, Uow!UowInit
  PROVE  Uow!TypeOK /\ ScopesAccounted
<1>1. \A s \in Scopes : step[s]["owner"] = "idle" /\ step[s]["helper"] = "idle"
                        /\ scopeTransaction[s] = "none" /\ asked[s] = "nothing"
                        /\ completed[s] = FALSE /\ outcome[s] = "none"
                        /\ hooks[s].onCommit = 0 /\ hooks[s].onRollback = 0
  BY DEF Uow!UowInit, Uow!NoHooks, Uow!Callers
<1>2. Uow!TypeOK
  BY DEF Uow!UowInit, Uow!TypeOK, Uow!NoHooks, Uow!Steps, Uow!UnitOfWorkAssumption
<1>3. ScopesAccounted
  BY <1>1 DEF Uow!UowInit, ScopesAccounted, ScopeAccounted
<1> QED
  BY <1>2, <1>3

\* What is accounted for is what the owner is told.
LEMMA AccountedIsTold ==
  ASSUME ScopesAccounted
  PROVE  Uow!OutcomeTold
<1> SUFFICES ASSUME NEW s \in Scopes
             PROVE  /\ outcome[s] = "resolved" =>
                         \/ scopeTransaction[s] = "committed" /\ hooks[s].onCommit = 1
                         \/ scopeTransaction[s] = "rolledBack" /\ asked[s] = "rollback"
                    /\ outcome[s] = "rejected" /\ scopeTransaction[s] = "committed" =>
                         hooks[s].failed \/ asked[s] = "commit"
                    /\ hooks[s].onCommit = (IF scopeTransaction[s] = "committed" THEN 1 ELSE 0)
                    /\ hooks[s].onRollback = (IF scopeTransaction[s] = "rolledBack" THEN 1 ELSE 0)
                    /\ s \in adopted => scopeTransaction[s] = "committed"
  BY DEF Uow!OutcomeTold
<1> QED
  BY DEF ScopesAccounted, ScopeAccounted

\* The owner of a scope is told what became of it, in every behaviour.
THEOREM UnitOfWorkOutcome ==
  ASSUME Uow!UnitOfWorkAssumption
  PROVE  Uow!UowSpec => [](Uow!TypeOK /\ Uow!OutcomeTold)
<1>1. Uow!UowInit => Uow!TypeOK /\ ScopesAccounted
  BY ScopesInit
<1>2. Uow!TypeOK /\ ScopesAccounted /\ [Uow!UowNext]_Uow!uowVars => Uow!TypeOK'
        /\ ScopesAccounted'
  BY ScopesStep
<1>3. Uow!TypeOK /\ ScopesAccounted => Uow!TypeOK /\ Uow!OutcomeTold
  BY AccountedIsTold
<1> QED
  BY <1>1, <1>2, <1>3, PTL DEF Uow!UowSpec

\* A behaviour of the suite is one of the unit of work.
LEMMA ScopesOfTheSuite == SuiteSpec => Uow!UowSpec
<1>1. SuiteInit => Uow!UowInit
  BY DEF SuiteInit, Starts
<1>2. [SuiteNext]_SuiteVars => [Uow!UowNext]_(Uow!uowVars)
  BY DEF SuiteNext, SuiteVars, scopeVars, Uow!uowVars, Turn, PoolSteps, SqliteSteps,
         TableSteps, ToolsSteps, ScopeSteps, MigrationSteps, SeedSteps
<1> QED
  BY <1>1, <1>2, PTL DEF SuiteSpec, Uow!UowSpec

\* The owner of a unit of work is told what became of it: run, the boundary
\* decorator, transaction and hooks given by hand, with a helper that commits
\* or rolls back beside the owner, whatever the number of scopes.
THEOREM ScopesTellTheirOutcome == SuiteSpec => []OutcomeTold
<1>1. Uow!UowSpec => [](Uow!TypeOK /\ Uow!OutcomeTold)
  BY UnitOfWorkOutcome, DriversAssumption DEF DriversAssumption
<1>2. Uow!OutcomeTold => OutcomeTold
  BY DEF OutcomeTold
<1> QED
  BY <1>1, <1>2, ScopesOfTheSuite, PTL

-----------------------------------------------------------------------------
(* Migrations: the history a runner holds, and what the database has.      *)

\* The list of a run is sorted, so it has a first migration: a finite set of
\* numbers has a least and a greatest one.
LEMMA ForemostIsThere ==
  ASSUME Mig!MigrationsAssumption, NEW ids \in SUBSET MigrationIds, ids # {}, NEW direction
  PROVE  Mig!Foremost(ids, direction) \in ids
<1> DEFINE Precedes(a, b) == IF direction = "up" THEN a <= b ELSE a >= b
           Ahead(b) == {a \in ids : Precedes(a, b)}
           Aheads == {Ahead(b) : b \in ids}
<1>1. ids \subseteq Int /\ IsFiniteSet(ids)
  <2>1. MigrationIds \subseteq Int /\ IsFiniteSet(MigrationIds)
    BY SMTT(20) DEF Mig!MigrationsAssumption, Mig!IsFiniteSet, IsFiniteSet
  <2> QED
    BY <2>1, FS_Subset
<1>2. Aheads \subseteq FiniteSubsetsOf(ids) /\ Aheads # {}
  <2>1. \A b \in ids : Ahead(b) \in SUBSET ids /\ IsFiniteSet(Ahead(b))
    BY <1>1, FS_Subset
  <2> HIDE DEF Ahead
  <2> QED
    BY <2>1 DEF FiniteSubsetsOf
<1>3. PICK A \in Aheads : \A B \in Aheads : ~(<<B, A>> \in StrictSubsetOrdering(ids))
  <2> HIDE DEF Aheads
  <2> QED
    BY <1>2, FS_StrictSubsetOrderingWellFounded, WFMin
<1>4. PICK first \in ids : A = Ahead(first)
  BY <1>3
<1>5. ASSUME NEW other \in ids
      PROVE  Precedes(first, other)
  <2>1. SUFFICES ASSUME ~Precedes(first, other)
                 PROVE  FALSE
    OBVIOUS
  <2>2. first \in Ahead(first) /\ first \notin Ahead(other)
    BY <1>1, <2>1
  <2>3. Ahead(other) \subseteq Ahead(first)
    <3>1. ASSUME NEW a \in ids, Precedes(a, other)
          PROVE  Precedes(a, first)
      <4>1. a \in Int /\ other \in Int /\ first \in Int
        BY <1>1
      <4> QED
        BY <2>1, <3>1, <4>1
    <3> QED
      BY <3>1
  <2>4. Ahead(other) \in SUBSET ids /\ Ahead(first) \in SUBSET ids
          /\ Ahead(other) \in Aheads
    OBVIOUS
  <2>5. <<Ahead(other), Ahead(first)>> \in StrictSubsetOrdering(ids)
    <3> HIDE DEF Ahead
    <3> QED
      BY <2>2, <2>3, <2>4 DEF StrictSubsetOrdering
  <2> QED
    BY <1>3, <1>4, <2>4, <2>5
<1>6. \E id \in ids : \A other \in ids : Precedes(id, other)
  BY <1>5
<1> QED
  BY <1>6 DEF Mig!Foremost

\* A run under way.
Run == [at : {"next", "queued", "record"}, direction : {"up", "down"},
        history : SUBSET MigrationIds, todo : SUBSET MigrationIds]

MigTypes ==
    /\ registered \subseteq MigrationIds /\ history \subseteq registered
    /\ torn \subseteq registered /\ kept \subseteq registered \cap Irreversible
    /\ effect \in [MigrationIds -> Int]
    /\ runner \in [Runners -> Run \cup {Mig!Idle}]
    /\ \A r \in Runners : runner[r] # Mig!Idle =>
          /\ runner[r].history \subseteq registered /\ runner[r].todo \subseteq registered
          /\ runner[r].at # "next" => runner[r].todo # {}
    /\ overlapped \in BOOLEAN

\* A run alone holds the history as it is stored and has to do what is due by
\* it.  A migration it was not cut short at has taken effect if it is stored,
\* and more often if it was ever taken out and not undone; the one that has been
\* run and is still to be recorded has that of the row to come.
Rows(id) == IF id \in history THEN 1 ELSE 0
RowsToCome(id) == IF id \in history /\ id \notin Irreversible THEN 0 ELSE 1
Applied(id, times) == IF id \in kept THEN effect[id] > times ELSE effect[id] = times
Taken(id) ==
    Applied(id, IF \E r \in Runners : runner[r].at = "record" /\ id = Mig!Coming(r)
                THEN RowsToCome(id) ELSE Rows(id))

RunsAlone ==
    /\ \A r, o \in Runners : runner[r] # Mig!Idle /\ runner[o] # Mig!Idle => r = o
    /\ \A r \in Runners : runner[r] # Mig!Idle =>
          /\ runner[r].history = history
          /\ runner[r].todo = Mig!Due(history, runner[r].direction)
    /\ \A id \in MigrationIds \ torn : Taken(id)

MigIInv == MigTypes /\ (~overlapped => RunsAlone)

\* What is under way is not idle, and has its fields.
LEMMA RunFields ==
  ASSUME MigTypes, NEW r \in Runners
  PROVE  /\ Mig!Idle.at = "idle"
         /\ runner[r] # Mig!Idle => runner[r] \in Run
         /\ runner[r].at \in {"next", "queued", "record", "idle"}
         /\ runner[r].at # "idle" <=> runner[r] # Mig!Idle
<1>1. Mig!Idle.at = "idle" /\ runner[r] \in Run \cup {Mig!Idle}
  BY DEF Mig!Idle, MigTypes
<1> QED
  BY <1>1 DEF Run

\* The migration that has been begun is one of those to do.
LEMMA ComingIsDue ==
  ASSUME Mig!MigrationsAssumption, MigTypes, NEW r \in Runners, runner[r] # Mig!Idle,
         runner[r].todo # {}
  PROVE  Mig!Coming(r) \in runner[r].todo /\ Mig!Coming(r) \in MigrationIds
<1>1. runner[r].todo \in SUBSET MigrationIds
  BY RunFields DEF Run
<1> QED
  BY <1>1, ForemostIsThere DEF Mig!Coming

\* What stays as it is of a runner and of a migration.
LEMMA OthersRun ==
  ASSUME MigTypes, NEW r \in Runners, NEW run \in Run \cup {Mig!Idle},
         runner' = [runner EXCEPT ![r] = run]
  PROVE  /\ runner' \in [Runners -> Run \cup {Mig!Idle}]
         /\ runner'[r] = run
         /\ \A o \in Runners \ {r} : runner'[o] = runner[o]
BY DEF MigTypes

\* A migration is registered while nobody runs any.
LEMMA RegisterKeeps ==
  ASSUME Mig!MigrationsAssumption, MigIInv, NEW id \in MigrationIds, Mig!Register(id)
  PROVE  MigIInv'
<1>1. \A r \in Runners : runner[r] = Mig!Idle
  BY DEF Mig!Register
<1>2. MigTypes'
  BY <1>1 DEF MigIInv, MigTypes, Mig!Register
<1>3. ASSUME RunsAlone
      PROVE  RunsAlone'
  BY <1>1, <1>3 DEF RunsAlone, Mig!Register, Taken, Applied, Rows, RowsToCome, Mig!Coming
<1> QED
  BY <1>2, <1>3 DEF MigIInv, Mig!Register

\* A run starts: it reads the history.
LEMMA StartRunKeeps ==
  ASSUME Mig!MigrationsAssumption, MigIInv, NEW r \in Runners,
         NEW direction \in {"up", "down"},
         Mig!StartRun(r, direction)
  PROVE  MigIInv'
<1> DEFINE run == [at |-> "next", direction |-> direction, history |-> history,
                   todo |-> Mig!Due(history, direction)]
<1>0. MigTypes
  BY DEF MigIInv
<1>1. history \subseteq MigrationIds /\ Mig!Due(history, direction) \subseteq registered
      /\ registered \subseteq MigrationIds
  BY <1>0 DEF MigTypes, Mig!Due
<1>2. run \in Run
  BY <1>1 DEF Run
<1>3. runner' = [runner EXCEPT ![r] = run] /\ runner[r] = Mig!Idle
  BY DEF Mig!StartRun
<1>4. run.at = "next" /\ run.direction = direction /\ run.history = history
      /\ run.todo = Mig!Due(history, direction) /\ run # Mig!Idle
  BY DEF Mig!Idle
<1> HIDE DEF run
<1>5. /\ runner' \in [Runners -> Run \cup {Mig!Idle}] /\ runner'[r] = run
      /\ \A o \in Runners \ {r} : runner'[o] = runner[o]
  BY <1>0, <1>2, <1>3, OthersRun
<1>6. overlapped' = (overlapped \/ \E o \in Runners : runner[o] # Mig!Idle)
  BY DEF Mig!StartRun
<1>7. MigTypes'
  <2>1. overlapped' \in BOOLEAN
    BY <1>6
  <2> QED
    BY <1>0, <1>1, <1>4, <1>5, <2>1 DEF MigTypes, Mig!StartRun
<1>8. ASSUME ~overlapped'
      PROVE  RunsAlone'
  <2>1. RunsAlone /\ \A o \in Runners : runner[o] = Mig!Idle
    BY <1>6, <1>8 DEF MigIInv
  <2>2. /\ \A o \in Runners : runner'[o] = IF o = r THEN run ELSE Mig!Idle
        /\ \A o \in Runners : runner[o].at # "record" /\ runner'[o].at # "record"
    BY <1>4, <1>5, <2>1 DEF Mig!Idle
  <2>3. \A id \in MigrationIds \ torn : Taken(id)'
    BY <2>1, <2>2 DEF RunsAlone, Taken, Applied, Rows, Mig!StartRun
  <2>4. \A o \in Runners : runner'[o] # Mig!Idle =>
           /\ runner'[o].history = history
           /\ runner'[o].todo = Mig!Due(history, runner'[o].direction)
    BY <1>4, <2>2
  <2>5. history' = history /\ torn' = torn
          /\ Mig!Due(history, "up")' = Mig!Due(history, "up")
        /\ Mig!Due(history, "down")' = Mig!Due(history, "down")
    BY DEF Mig!StartRun, Mig!Due
  <2>6. \A o \in Runners : runner'[o] # Mig!Idle =>
           /\ runner'[o].history = history'
           /\ runner'[o].todo = Mig!Due(history, runner[o].direction)'
    BY <1>4, <2>2, <2>4, <2>5 DEF Mig!Due, Mig!StartRun
  <2> QED
    BY <2>2, <2>3, <2>5, <2>6 DEF RunsAlone
<1> QED
  BY <1>7, <1>8 DEF MigIInv

\* up or down is called.
LEMMA MigrateKeeps ==
  ASSUME Mig!MigrationsAssumption, MigIInv, NEW r \in Runners, Mig!Migrate(r)
  PROVE  MigIInv'
<1> DEFINE run == [runner[r] EXCEPT !.at = "queued"]
<1>0. MigTypes /\ runner[r].at = "next" /\ runner[r].todo # {}
  BY DEF MigIInv, Mig!Migrate
<1>1. runner[r] \in Run /\ runner[r] # Mig!Idle
  BY <1>0, RunFields
<1>2. run \in Run /\ run.at = "queued" /\ run.direction = runner[r].direction
      /\ run.history = runner[r].history /\ run.todo = runner[r].todo /\ run # Mig!Idle
  BY <1>1 DEF Run, Mig!Idle
<1>3. runner' = [runner EXCEPT ![r] = run]
  BY DEF Mig!Migrate
<1> HIDE DEF run
<1>4. /\ runner' \in [Runners -> Run \cup {Mig!Idle}] /\ runner'[r] = run
      /\ \A o \in Runners \ {r} : runner'[o] = runner[o]
  BY <1>0, <1>2, <1>3, OthersRun
<1>5. MigTypes'
  BY <1>0, <1>1, <1>2, <1>4 DEF MigTypes, Mig!Migrate
<1>6. ASSUME RunsAlone
      PROVE  RunsAlone'
  <2>1. \A id \in MigrationIds \ torn : Taken(id)'
    <3>1. \A o \in Runners : (runner'[o].at = "record") = (runner[o].at = "record")
      BY <1>0, <1>2, <1>4
    <3>2. \A o \in Runners : Mig!Coming(o)' = Mig!Coming(o)
      BY <1>2, <1>4 DEF Mig!Coming
    <3> QED
      BY <1>6, <3>1, <3>2 DEF RunsAlone, Taken, Applied, Rows, RowsToCome, Mig!Migrate
  <2>2. \A o \in Runners : runner'[o] # Mig!Idle =>
           /\ runner'[o].history = history'
           /\ runner'[o].todo = Mig!Due(history, runner[o].direction)'
    BY ZenonT(40), <1>1, <1>2, <1>4, <1>6 DEF RunsAlone, Mig!Due, Mig!Migrate
  <2> QED
    BY <1>1, <1>4, <1>6, <2>1, <2>2 DEF RunsAlone, Mig!Migrate
<1> QED
  BY <1>5, <1>6 DEF MigIInv, Mig!Migrate

\* The queue of the migration's schema builder is executed.
LEMMA ExecuteQueueKeeps ==
  ASSUME Mig!MigrationsAssumption, MigIInv, NEW r \in Runners, Mig!ExecuteQueue(r)
  PROVE  MigIInv'
<1> DEFINE run == [runner[r] EXCEPT !.at = "record"]
           id  == Mig!Coming(r)
<1>0. MigTypes /\ runner[r].at = "queued"
  BY DEF MigIInv, Mig!ExecuteQueue
<1>1. runner[r] \in Run /\ runner[r] # Mig!Idle /\ runner[r].todo # {}
  BY <1>0, RunFields DEF MigTypes
<1>2. run \in Run /\ run.at = "record" /\ run.direction = runner[r].direction
      /\ run.history = runner[r].history /\ run.todo = runner[r].todo /\ run # Mig!Idle
  BY <1>1 DEF Run, Mig!Idle
<1>3. runner' = [runner EXCEPT ![r] = run]
  BY DEF Mig!ExecuteQueue
<1> HIDE DEF run
<1>4. /\ runner' \in [Runners -> Run \cup {Mig!Idle}] /\ runner'[r] = run
      /\ \A o \in Runners \ {r} : runner'[o] = runner[o]
  BY <1>0, <1>2, <1>3, OthersRun
<1>5. id \in runner[r].todo /\ id \in MigrationIds
  BY <1>0, <1>1, ComingIsDue
<1>6. /\ effect' \in [MigrationIds -> Int]
      /\ effect'[id] = IF runner[r].direction = "up" THEN effect[id] + 1
                       ELSE IF id \in Irreversible THEN effect[id] ELSE effect[id] - 1
      /\ \A other \in MigrationIds \ {id} : effect'[other] = effect[other]
  <2> HIDE DEF id
  <2>0. runner[r].direction \in {"up", "down"}
    BY <1>1 DEF Run
  <2>1. effect' = [effect EXCEPT ![id] =
                       IF runner[r].direction = "up" THEN effect[id] + 1
                       ELSE IF id \in Irreversible THEN effect[id] ELSE effect[id] - 1]
    BY <2>0 DEF Mig!ExecuteQueue, Mig!Undoes, id
  <2>2. effect[id] + 1 \in Int /\ effect[id] - 1 \in Int
    BY <1>0, <1>5 DEF MigTypes
  <2> QED
    BY <1>0, <1>5, <2>1, <2>2 DEF MigTypes
<1>7. MigTypes'
  BY <1>0, <1>1, <1>2, <1>4, <1>6 DEF MigTypes, Mig!ExecuteQueue
<1>8. ASSUME RunsAlone
      PROVE  RunsAlone'
  <2>1. \A o \in Runners \ {r} : runner[o] = Mig!Idle /\ runner'[o] = Mig!Idle
          /\ runner'[o].at # "record"
    BY <1>1, <1>4, <1>8 DEF RunsAlone, Mig!Idle
  <2>2. Mig!Coming(r)' = id /\ runner'[r].at = "record"
    BY <1>2, <1>4 DEF Mig!Coming
  <2>3. ASSUME NEW other \in MigrationIds \ torn
        PROVE  Taken(other)'
    <3>1. Taken(other) /\ \A o \in Runners : runner[o].at # "record"
      BY <1>0, <1>8, <2>1 DEF RunsAlone, Mig!Idle
    <3>2. Applied(other, Rows(other))
      BY <3>1 DEF Taken
    <3>3. CASE other = id
      <4>1. (id \in history) = (runner[r].direction = "down")
        BY <1>1, <1>5, <1>8 DEF RunsAlone, Mig!Due, Run
      <4>2. kept' = kept /\ history' = history /\ effect[id] \in Int
        BY <1>0, <1>5 DEF Mig!ExecuteQueue, MigTypes
      <4>3. effect'[other] = IF runner[r].direction = "up" THEN effect[other] + 1
                             ELSE IF other \in Irreversible THEN effect[other] ELSE effect[other] - 1
        BY <1>6, <3>3
      <4>4. Applied(other, RowsToCome(other))'
        BY <1>1, <3>2, <3>3, <4>1, <4>2, <4>3 DEF Run, Applied, Rows, RowsToCome
      <4> QED
        BY <2>2, <3>3, <4>4 DEF Taken
    <3>4. CASE other # id
      BY <1>6, <2>1, <2>2, <3>2, <3>4 DEF Taken, Applied, Rows, Mig!ExecuteQueue
    <3> QED
      BY <3>3, <3>4
  <2>4. \A o \in Runners : runner'[o] # Mig!Idle =>
           /\ runner'[o].history = history'
           /\ runner'[o].todo = Mig!Due(history, runner[o].direction)'
    BY ZenonT(40), <1>1, <1>2, <1>4, <1>8 DEF RunsAlone, Mig!Due, Mig!ExecuteQueue
  <2> QED
    BY <1>1, <1>4, <1>8, <2>3, <2>4 DEF RunsAlone, Mig!ExecuteQueue
<1> QED
  BY <1>7, <1>8 DEF MigIInv, Mig!ExecuteQueue

\* The run's history replaces the stored one.
LEMMA RecordKeeps ==
  ASSUME Mig!MigrationsAssumption, MigIInv, NEW r \in Runners, Mig!Record(r)
  PROVE  MigIInv'
<1> DEFINE id   == Mig!Coming(r)
           rest == runner[r].todo \ {id}
           next == [runner[r] EXCEPT !.at = "next"]
           told == [next EXCEPT !.history = Mig!Recorded(r)]
           run  == [told EXCEPT !.todo = rest]
<1>0. MigTypes /\ runner[r].at = "record"
  BY DEF MigIInv, Mig!Record
<1>1. runner[r] \in Run /\ runner[r] # Mig!Idle /\ runner[r].todo # {}
  BY <1>0, RunFields DEF MigTypes
<1>2. id \in runner[r].todo /\ id \in MigrationIds
  BY <1>0, <1>1, ComingIsDue
<1>3. Mig!Recorded(r) = IF runner[r].direction = "up"
                    THEN runner[r].history \cup {id} ELSE runner[r].history \ {id}
  BY DEF Mig!Recorded
<1>4. Mig!Recorded(r) \subseteq registered /\ rest \subseteq registered
        /\ registered \subseteq MigrationIds
  BY <1>0, <1>1, <1>2, <1>3 DEF MigTypes
<1> HIDE DEF id
<1>5. run \in Run /\ run.at = "next" /\ run.direction = runner[r].direction
      /\ run.history = Mig!Recorded(r) /\ run.todo = rest /\ run # Mig!Idle
  <2> HIDE DEF rest
  <2>1. next \in Run /\ next.at = "next" /\ next.direction = runner[r].direction
    BY <1>1 DEF Run
  <2>2. told \in Run /\ told.at = "next" /\ told.direction = runner[r].direction
        /\ told.history = Mig!Recorded(r)
    <3> HIDE DEF next
    <3> QED
      BY <1>4, <2>1 DEF Run
  <2>3. run \in Run /\ run.at = "next" /\ run.direction = runner[r].direction
        /\ run.history = Mig!Recorded(r) /\ run.todo = rest
    <3> HIDE DEF told
    <3> QED
      BY <1>4, <2>2 DEF Run
  <2> HIDE DEF run
  <2> QED
    BY <2>3 DEF Mig!Idle
<1>6. runner' = [runner EXCEPT ![r] = run]
  BY DEF Mig!Record, id
<1> HIDE DEF run, rest
<1>7. /\ runner' \in [Runners -> Run \cup {Mig!Idle}] /\ runner'[r] = run
      /\ \A o \in Runners \ {r} : runner'[o] = runner[o]
  BY <1>0, <1>5, <1>6, OthersRun
<1>8. history' = Mig!Recorded(r)
  BY DEF Mig!Record
<1>11. kept' \subseteq registered' \cap Irreversible
  <2>1. kept' = (IF runner[r].direction = "down" /\ ~Mig!Undoes(r) THEN kept \cup {id} ELSE kept)
          /\ registered' = registered
    BY DEF Mig!Record, id
  <2>2. id \in registered
    BY <1>0, <1>1, <1>2 DEF MigTypes
  <2>3. ~Mig!Undoes(r) /\ runner[r].direction = "down" => id \in Irreversible
    BY DEF Mig!Undoes, id
  <2> QED
    BY <1>0, <2>1, <2>2, <2>3 DEF MigTypes
<1>9. MigTypes'
  <2>1. /\ history' = Mig!Recorded(r) /\ registered' = registered /\ effect' = effect
        /\ torn' = torn /\ overlapped' = overlapped
    BY <1>8 DEF Mig!Record
  <2> QED
    BY <1>0, <1>1, <1>4, <1>5, <1>7, <1>11, <2>1 DEF MigTypes
<1>10. ASSUME RunsAlone
       PROVE  RunsAlone'
  <2>1. \A o \in Runners \ {r} : runner[o] = Mig!Idle /\ runner'[o] = Mig!Idle
    BY <1>1, <1>7, <1>10 DEF RunsAlone
  <2>2. \A o \in Runners : runner'[o].at # "record"
    BY <1>5, <1>7, <2>1 DEF Mig!Idle
  <2>3. runner[r].history = history
          /\ runner[r].todo = Mig!Due(history, runner[r].direction)
    BY <1>1, <1>10 DEF RunsAlone
  <2>4. (id \in history) = (runner[r].direction = "down")
          /\ runner[r].direction \in {"up", "down"}
    BY <1>1, <1>2, <2>3 DEF Mig!Due, Run
  <2>5. ASSUME NEW other \in MigrationIds \ torn
        PROVE  Taken(other)'
    <3>1. Taken(other)
      BY <1>10 DEF RunsAlone
    <3>2. Applied(other, IF other = id THEN RowsToCome(other) ELSE Rows(other))
      BY <1>0, <2>1, <3>1 DEF Taken, Mig!Idle, id
    <3>3. /\ effect' = effect /\ effect[other] \in Int
          /\ kept' = IF runner[r].direction = "down" /\ id \in Irreversible
                     THEN kept \cup {id} ELSE kept
      BY <1>0, <2>4 DEF Mig!Record, Mig!Undoes, MigTypes, id
    <3>4. Applied(other, Rows(other))'
      BY <1>3, <1>8, <2>3, <2>4, <3>2, <3>3 DEF Applied, Rows, RowsToCome
    <3> QED
      BY <2>2, <3>4 DEF Taken
  <2>6. rest = Mig!Due(history, runner[r].direction)'
    <3>1. CASE runner[r].direction = "up"
      <4>1. runner'[r].direction = "up" /\ history' = history \cup {id}
        BY <1>3, <1>5, <1>7, <1>8, <2>3, <3>1
      <4>2. rest = registered \ (history \cup {id})
        BY <2>3, <3>1 DEF Mig!Due, rest
      <4> QED
        BY <4>1, <4>2 DEF Mig!Due, Mig!Record
    <3>2. CASE runner[r].direction = "down"
      <4>1. runner'[r].direction = "down" /\ history' = history \ {id}
        BY <1>3, <1>5, <1>7, <1>8, <2>3, <3>2
      <4>2. rest = registered \cap (history \ {id})
        BY <2>3, <3>2 DEF Mig!Due, rest
      <4> QED
        BY <4>1, <4>2 DEF Mig!Due, Mig!Record
    <3> QED
      BY <2>4, <3>1, <3>2
  <2>7. torn' = torn
    BY DEF Mig!Record
  <2>8. runner'[r].history = history'
          /\ runner'[r].todo = Mig!Due(history, runner[r].direction)'
    BY <1>5, <1>7, <1>8, <2>6
  <2>9. \A o \in Runners : runner'[o] # Mig!Idle => o = r
    BY <2>1
  <2> QED
    BY <2>5, <2>7, <2>8, <2>9 DEF RunsAlone
<1> QED
  BY <1>9, <1>10 DEF MigIInv, Mig!Record

\* A run ends, well or not: what it has begun and not recorded is torn.
LEMMA EndKeeps ==
  ASSUME Mig!MigrationsAssumption, MigIInv, NEW r \in Runners, Mig!EndRun(r)
           \/ Mig!BreakRun(r)
  PROVE  MigIInv'
<1>0. MigTypes /\ runner' = [runner EXCEPT ![r] = Mig!Idle]
      /\ UNCHANGED <<registered, history, effect, kept, overlapped>>
  BY DEF MigIInv, Mig!EndRun, Mig!BreakRun
<1>1. /\ runner' \in [Runners -> Run \cup {Mig!Idle}] /\ runner'[r] = Mig!Idle
      /\ \A o \in Runners \ {r} : runner'[o] = runner[o]
  BY <1>0, OthersRun
<1>2. runner[r] # Mig!Idle
  BY RunFields, <1>0 DEF Mig!EndRun, Mig!BreakRun
<1>3. Mig!Current(r) \subseteq registered
  <2>1. runner[r].at \in {"queued", "record"} => runner[r].todo # {}
          /\ runner[r].todo \subseteq registered
    BY <1>0, <1>2 DEF MigTypes
  <2> QED
    BY <1>0, <1>2, <2>1, ComingIsDue DEF Mig!Current
<1>4. torn' \subseteq registered /\ torn \subseteq torn' /\ Mig!Current(r) \subseteq torn'
  BY <1>0, <1>3 DEF MigTypes, Mig!EndRun, Mig!BreakRun, Mig!Current
<1>5. MigTypes'
  BY <1>0, <1>1, <1>4 DEF MigTypes
<1>6. ASSUME RunsAlone
      PROVE  RunsAlone'
  <2>1. \A o \in Runners : runner'[o] = Mig!Idle /\ runner'[o].at # "record"
    BY <1>1, <1>2, <1>6 DEF RunsAlone, Mig!Idle
  <2>2. ASSUME NEW id \in MigrationIds \ torn'
        PROVE  Taken(id)'
    <3>1. Taken(id) /\ id \notin Mig!Current(r)
      BY <1>4, <1>6 DEF RunsAlone
    <3>2. \A o \in Runners : ~(runner[o].at = "record" /\ id = Mig!Coming(o))
      BY <1>2, <1>6, <3>1 DEF RunsAlone, Mig!Current, Mig!Idle
    <3> QED
      BY <1>0, <2>1, <3>1, <3>2 DEF Taken, Applied, Rows
  <2> QED
    BY <2>1, <2>2 DEF RunsAlone
<1> QED
  BY <1>0, <1>5, <1>6 DEF MigIInv

\* The invariant of the runners.
LEMMA MigrationsStep ==
  ASSUME Mig!MigrationsAssumption, MigIInv, [Mig!MigrationsNext]_Mig!migrationVars
  PROVE  MigIInv'
<1>1. CASE UNCHANGED Mig!migrationVars
  BY <1>1 DEF Mig!migrationVars, MigIInv, MigTypes, RunsAlone, Taken, Applied, Rows,
                 RowsToCome, Mig!Coming, Mig!Due
<1>2. CASE Mig!MigrationsNext
  BY <1>2, RegisterKeeps, StartRunKeeps, MigrateKeeps, ExecuteQueueKeeps, RecordKeeps,
     EndKeeps
     DEF Mig!MigrationsNext
<1> QED
  BY <1>1, <1>2

\* Nothing has run yet.
LEMMA MigrationsStart ==
  ASSUME Mig!MigrationsInit
  PROVE  MigIInv
<1>1. \A r \in Runners : runner[r] = Mig!Idle /\ runner[r].at = "idle"
  BY DEF Mig!MigrationsInit, Mig!Idle
<1>2. MigTypes
  <2>1. overlapped \in BOOLEAN
    BY DEF Mig!MigrationsInit
  <2>2. registered \subseteq MigrationIds
    BY DEF Mig!MigrationsInit
  <2> QED
    BY <1>1, <2>1, <2>2 DEF Mig!MigrationsInit, MigTypes
<1>3. RunsAlone
  BY <1>1 DEF Mig!MigrationsInit, RunsAlone, Taken, Applied, Rows
<1> QED
  BY <1>2, <1>3 DEF MigIInv

\* What the runners keep is what the history tells.
LEMMA HistoryIsTold ==
  ASSUME MigIInv
  PROVE  Mig!HistoryTells
<1> SUFFICES ASSUME ~overlapped
             PROVE  /\ \A id \in MigrationIds \ (torn \cup UNION {Mig!Current(r) : r \in Runners}) :
                          Applied(id, Rows(id))
                    /\ \A r \in Runners :
                          runner[r].at = "next" /\ runner[r].todo = {} =>
                             history = (IF runner[r].direction = "up" THEN registered ELSE {})
  BY DEF Mig!HistoryTells, Applied, Rows
<1>1. RunsAlone /\ MigTypes
  BY DEF MigIInv
<1>2. ASSUME NEW id \in MigrationIds \ (torn \cup UNION {Mig!Current(r) : r \in Runners})
      PROVE  Applied(id, Rows(id))
  <2>1. Taken(id) /\ \A r \in Runners : id \notin Mig!Current(r)
    BY <1>1 DEF RunsAlone
  <2>2. \A r \in Runners : ~(runner[r].at = "record" /\ id = Mig!Coming(r))
    BY <2>1 DEF Mig!Current
  <2> QED
    BY <2>1, <2>2 DEF Taken
<1>3. ASSUME NEW r \in Runners, runner[r].at = "next", runner[r].todo = {}
      PROVE  history = (IF runner[r].direction = "up" THEN registered ELSE {})
  <2>1. runner[r] # Mig!Idle /\ history \subseteq registered
    BY <1>1, <1>3, RunFields DEF MigTypes
  <2>2. Mig!Due(history, runner[r].direction) = {}
    BY <1>1, <1>3, <2>1 DEF RunsAlone
  <2> QED
    BY <2>1, <2>2 DEF Mig!Due
<1> QED
  BY <1>2, <1>3


-----------------------------------------------------------------------------
(* Seeders: the visit, and the order it leaves.                            *)

\* A set of natural numbers that is not empty has a least one.
LEMMA LeastNatural ==
  ASSUME NEW T \in SUBSET Nat, T # {}
  PROVE  \E x \in T : \A y \in T : x <= y
<1> DEFINE Below == {0..k : k \in T}
<1>1. Below \subseteq FiniteSubsetsOf(Nat) /\ Below # {}
  <2>1. \A k \in T : 0..k \in SUBSET Nat /\ IsFiniteSet(0..k)
    BY FS_Interval
  <2> QED
    BY <2>1 DEF FiniteSubsetsOf
<1>2. PICK B \in Below : \A C \in Below : ~(<<C, B>> \in StrictSubsetOrdering(Nat))
  <2> HIDE DEF Below
  <2> QED
    BY <1>1, FS_StrictSubsetOrderingWellFounded, WFMin
<1>3. PICK x \in T : B = 0..x
  BY <1>2
<1>4. ASSUME NEW y \in T
      PROVE  x <= y
  <2>1. SUFFICES ASSUME y < x
                 PROVE  FALSE
    BY <1>3
  <2>2. 0..y \in Below /\ 0..y \in SUBSET Nat /\ 0..x \in SUBSET Nat
    OBVIOUS
  <2>3. 0..y \subseteq 0..x /\ 0..y # 0..x
    BY <2>1
  <2>4. <<0..y, 0..x>> \in StrictSubsetOrdering(Nat)
    BY <2>2, <2>3 DEF StrictSubsetOrdering
  <2> QED
    BY <1>2, <1>3, <2>2, <2>4
<1> QED
  BY <1>4

\* What a seeder waits for, and those that have run.
Needs(s) == seeders[s] \cap selected
Whole == {s \in selected : planted[s] = "whole"}

\* Those before the place i of an order.
Earlier(q, i) == {q[j] : j \in 1..(i - 1)}

SeedTypes ==
    /\ selected \subseteq DOMAIN seeders
    /\ visit \in [stack : Seq(selected), visited : SUBSET selected, ordered : Seq(selected),
                  at : {"visit", "circular", "plant", "threw"}]
    /\ planted \in [DOMAIN seeders -> {"none", "failed", "whole"}]

\* While it visits, each seeder on the stack depends on the next, and those that
\* are ordered come after all they depend on.
Visits ==
    /\ \A s \in DOMAIN seeders : planted[s] = "none"
    /\ \A i \in DOMAIN visit.stack :
          /\ visit.stack[i] \notin visit.visited
          /\ i + 1 \in DOMAIN visit.stack => visit.stack[i + 1] \in Needs(visit.stack[i])
    /\ Mig!IsInjective(visit.stack) /\ Mig!IsInjective(visit.ordered)
    /\ Mig!Range(visit.ordered) = visit.visited
    /\ \A i \in DOMAIN visit.ordered :
          Needs(visit.ordered[i]) \subseteq Earlier(visit.ordered, i)

\* While it plants, those still to come wait for one another in their order and
\* for those that have run.
Plants ==
    /\ ~\E s \in SUBSET selected : Mig!Circular(s)
    /\ Mig!Range(visit.ordered) \cup Whole = selected
    /\ Mig!IsInjective(visit.ordered)
    /\ \A i \in DOMAIN visit.ordered :
          /\ planted[visit.ordered[i]] # "whole"
          /\ Needs(visit.ordered[i]) \subseteq Whole \cup Earlier(visit.ordered, i)
    /\ \A s \in DOMAIN seeders :
          planted[s] # "none" => Needs(s) \subseteq Whole

SeedIInv ==
    /\ SeedTypes
    /\ visit.at \in {"visit", "circular"} => Visits
    /\ visit.at = "circular" => \E s \in SUBSET selected : Mig!Circular(s)
    /\ visit.at \in {"plant", "threw"} => Plants

\* What a sequence holds when one seeder is put on it or taken off it.
LEMMA SequenceSteps ==
  ASSUME NEW S, NEW q \in Seq(S), NEW s \in S
  PROVE  /\ Append(q, s) \in Seq(S) /\ DOMAIN Append(q, s) = 1..(Len(q) + 1)
         /\ DOMAIN q = 1..Len(q) /\ Len(q) \in Nat
         /\ \A i \in DOMAIN q : Append(q, s)[i] = q[i] /\ q[i] \in S
         /\ Append(q, s)[Len(q) + 1] = s
         /\ q # <<>> => /\ Len(q) > 0
                        /\ Head(q) = q[1] /\ Mig!Last(q) = q[Len(q)]
                        /\ Mig!Front(q) \in Seq(S) /\ DOMAIN Mig!Front(q) = 1..(Len(q) - 1)
                        /\ \A i \in 1..(Len(q) - 1) : Mig!Front(q)[i] = q[i]
                        /\ Tail(q) \in Seq(S) /\ DOMAIN Tail(q) = 1..(Len(q) - 1)
                        /\ \A i \in 1..(Len(q) - 1) : Tail(q)[i] = q[i + 1]
<1>1. Append(q, s) \in Seq(S) /\ DOMAIN Append(q, s) = 1..(Len(q) + 1)
      /\ DOMAIN q = 1..Len(q) /\ Len(q) \in Nat
      /\ \A i \in DOMAIN q : Append(q, s)[i] = q[i] /\ q[i] \in S
      /\ Append(q, s)[Len(q) + 1] = s
  OBVIOUS
<1>2. ASSUME q # <<>>
      PROVE  /\ Len(q) > 0 /\ Head(q) = q[1] /\ Mig!Last(q) = q[Len(q)]
             /\ Tail(q) \in Seq(S) /\ DOMAIN Tail(q) = 1..(Len(q) - 1)
             /\ \A i \in 1..(Len(q) - 1) : Tail(q)[i] = q[i + 1]
  BY <1>2 DEF Mig!Last
<1>3. ASSUME q # <<>>
      PROVE  /\ Mig!Front(q) \in Seq(S) /\ DOMAIN Mig!Front(q) = 1..(Len(q) - 1)
             /\ \A i \in 1..(Len(q) - 1) : Mig!Front(q)[i] = q[i]
  BY <1>2, <1>3 DEF Mig!Front
<1> QED
  BY <1>1, <1>2, <1>3

\* The next seeder is visited, or is found on the stack.
LEMMA VisitKeeps ==
  ASSUME SeedIInv, NEW s \in DOMAIN seeders, Mig!Visit(s)
  PROVE  SeedIInv'
<1> DEFINE q == visit.stack
<1>1. SeedTypes /\ Visits /\ visit.at = "visit"
  BY DEF SeedIInv, Mig!Visit
<1>2. q \in Seq(selected) /\ Len(q) \in Nat /\ DOMAIN q = 1..Len(q)
      /\ visit.visited \subseteq selected /\ visit.ordered \in Seq(selected)
  BY <1>1 DEF SeedTypes
<1>3. /\ s \in selected \ visit.visited
      /\ q # <<>> => Len(q) \in DOMAIN q /\ s \in Needs(q[Len(q)])
  <2>1. q # <<>> => s \in Mig!Unvisited(Mig!Last(q))
    BY DEF Mig!Visit
  <2>2. q # <<>> => Len(q) \in DOMAIN q
    BY <1>2
  <2> QED
    BY <2>1, <2>2 DEF Mig!Visit, Mig!Unvisited, Needs, Mig!Last
<1>4. CASE s \in Mig!Visiting
  <2>1. visit' = [visit EXCEPT !.at = "circular"]
    BY <1>4 DEF Mig!Visit
  <2>2. /\ visit'.stack = q /\ visit'.visited = visit.visited
             /\ visit'.ordered = visit.ordered
        /\ visit'.at = "circular"
        /\ visit' \in [stack : Seq(selected), visited : SUBSET selected,
             ordered : Seq(selected),
                       at : {"visit", "circular", "plant", "threw"}]
    BY <1>1, <2>1 DEF SeedTypes
  <2>3. SeedTypes'
    BY <1>1, <2>2 DEF SeedTypes, Mig!Visit
  <2>4. Visits'
    BY <1>1, <2>2 DEF Visits, Mig!Visit, Needs
  <2>5. Mig!Circular(Mig!Range(q)) /\ Mig!Range(q) \in SUBSET selected
    <3>1. Mig!Range(q) = {q[i] : i \in 1..Len(q)} /\ s \in Mig!Range(q)
      BY <1>2, <1>4 DEF Mig!Range, Mig!Visiting
    <3>2. q # <<>> /\ Mig!Range(q) \subseteq selected /\ Len(q) \in 1..Len(q)
      BY <1>2, <3>1
    <3>3. ASSUME NEW i \in 1..Len(q)
          PROVE  seeders[q[i]] \cap Mig!Range(q) # {}
      <4>1. CASE i = Len(q)
        BY <1>3, <3>1, <3>2, <4>1 DEF Needs
      <4>2. CASE i # Len(q)
        <5>1. i + 1 \in 1..Len(q)
          BY <1>2, <4>2
        <5>2. q[i + 1] \in Needs(q[i]) /\ q[i + 1] \in Mig!Range(q)
          BY <1>1, <1>2, <3>1, <5>1 DEF Visits
        <5> QED
          BY <5>2 DEF Needs
      <4> QED
        BY <4>1, <4>2
    <3> QED
      BY <3>1, <3>2, <3>3 DEF Mig!Circular
  <2>6. (\E c \in SUBSET selected : Mig!Circular(c))'
    BY <2>5 DEF Mig!Circular, Mig!Visit
  <2> QED
    BY <2>2, <2>3, <2>4, <2>6 DEF SeedIInv
<1>5. CASE s \notin Mig!Visiting
  <2>1. visit' = [visit EXCEPT !.stack = Append(visit.stack, s)]
    BY <1>5 DEF Mig!Visit
  <2>2. /\ visit'.stack = Append(q, s) /\ visit'.visited = visit.visited
        /\ visit'.ordered = visit.ordered /\ visit'.at = "visit"
        /\ visit' \in [stack : Seq(selected), visited : SUBSET selected,
             ordered : Seq(selected),
                       at : {"visit", "circular", "plant", "threw"}]
    <3>1. Append(q, s) \in Seq(selected)
      BY <1>2, <1>3
    <3> QED
      BY <1>1, <2>1, <3>1 DEF SeedTypes
  <2>3. SeedTypes'
    BY <1>1, <2>2 DEF SeedTypes, Mig!Visit
  <2>4. /\ DOMAIN visit'.stack = 1..(Len(q) + 1) /\ visit'.stack[Len(q) + 1] = s
        /\ \A i \in 1..Len(q) : visit'.stack[i] = q[i]
    BY <1>2, <1>3, <2>2, SequenceSteps
  <2>5. \A i \in 1..Len(q) : q[i] # s
    BY <1>2, <1>5 DEF Mig!Visiting, Mig!Range
  <2>6. ASSUME NEW i \in DOMAIN visit'.stack
        PROVE  /\ visit'.stack[i] \notin visit'.visited
               /\ i + 1 \in DOMAIN visit'.stack =>
                    visit'.stack[i + 1] \in Needs(visit.stack[i])'
    <3>1. CASE i = Len(q) + 1
      BY <1>2, <1>3, <2>2, <2>4, <3>1
    <3>2. CASE i \in 1..Len(q)
      <4>1. visit'.stack[i] = q[i] /\ q[i] \notin visit.visited
        BY <1>1, <1>2, <2>4, <3>2 DEF Visits
      <4>2. visit'.stack[i + 1] \in Needs(q[i])
        <5>1. CASE i = Len(q)
          <6>1. q # <<>>
            BY <1>2, <5>1, <3>2
          <6> QED
            BY <1>3, <2>4, <5>1, <6>1
        <5>2. CASE i # Len(q)
          <6>1. i + 1 \in 1..Len(q)
            BY <1>2, <3>2, <5>2
          <6> QED
            BY <1>1, <1>2, <2>4, <6>1 DEF Visits
        <5> QED
          BY <5>1, <5>2
      <4> QED
        BY <2>2, <4>1, <4>2 DEF Needs, Mig!Visit
    <3> QED
      BY <1>2, <2>4, <3>1, <3>2
  <2>7. Mig!IsInjective(visit'.stack)
    BY SMTT(20), <1>1, <1>2, <2>4, <2>5 DEF Visits, Mig!IsInjective
  <2>8. Visits'
    <3>1. /\ Mig!IsInjective(visit'.ordered) /\ Mig!Range(visit'.ordered) = visit'.visited
          /\ \A other \in DOMAIN seeders : planted[other] = "none"
          /\ \A i \in DOMAIN visit'.ordered :
                Needs(visit'.ordered[i]) \subseteq Earlier(visit'.ordered, i)
      BY <1>1, <2>2 DEF Visits
    <3>2. UNCHANGED <<seeders, selected, planted>>
      BY DEF Mig!Visit
    <3> QED
      BY <2>6, <2>7, <3>1, <3>2 DEF Visits, Needs
  <2> QED
    BY <2>2, <2>3, <2>8 DEF SeedIInv
<1> QED
  BY <1>4, <1>5

\* The seeder on top has nothing left to wait for and is ordered.
LEMMA LeaveKeeps ==
  ASSUME SeedIInv, Mig!Leave
  PROVE  SeedIInv'
<1> DEFINE q   == visit.stack
           o   == visit.ordered
           top == q[Len(q)]
<1>1. SeedTypes /\ Visits /\ visit.at = "visit" /\ q # <<>>
  BY DEF SeedIInv, Mig!Leave
<1>2. q \in Seq(selected) /\ Len(q) \in Nat /\ DOMAIN q = 1..Len(q) /\ Len(q) > 0
      /\ o \in Seq(selected) /\ Len(o) \in Nat /\ DOMAIN o = 1..Len(o)
      /\ visit.visited \subseteq selected
  BY <1>1 DEF SeedTypes
<1>3. top \in selected /\ top \notin visit.visited /\ Mig!Last(q) = top
  <2>1. Len(q) \in 1..Len(q) /\ Mig!Last(q) = top
    BY <1>2 DEF Mig!Last
  <2>2. top \in selected
    BY <1>2, <2>1
  <2> QED
    BY <1>1, <1>2, <2>1, <2>2 DEF Visits
<1>4. /\ Append(o, top) \in Seq(selected) /\ DOMAIN Append(o, top) = 1..(Len(o) + 1)
      /\ \A i \in 1..Len(o) : Append(o, top)[i] = o[i]
      /\ Append(o, top)[Len(o) + 1] = top
      /\ Mig!Front(q) \in Seq(selected) /\ DOMAIN Mig!Front(q) = 1..(Len(q) - 1)
      /\ \A i \in 1..(Len(q) - 1) : Mig!Front(q)[i] = q[i]
  BY <1>1, <1>2, <1>3, SequenceSteps
<1>5. visit'.stack = Mig!Front(q) /\ visit'.visited = visit.visited \cup {top}
      /\ visit'.ordered = Append(o, top) /\ visit'.at = "visit"
      /\ visit' \in [stack : Seq(selected), visited : SUBSET selected,
           ordered : Seq(selected),
                     at : {"visit", "circular", "plant", "threw"}]
  <2> DEFINE a == [visit EXCEPT !.stack = Mig!Front(q)]
             b == [a EXCEPT !.visited = visit.visited \cup {top}]
             R == [stack : Seq(selected), visited : SUBSET selected,
               ordered : Seq(selected),
                   at : {"visit", "circular", "plant", "threw"}]
  <2>1. visit' = [b EXCEPT !.ordered = Append(o, top)]
    BY <1>3 DEF Mig!Leave
  <2> HIDE DEF top
  <2>2. a \in R /\ a.stack = Mig!Front(q) /\ a.visited = visit.visited
          /\ a.ordered = o /\ a.at = "visit"
    BY <1>1, <1>4 DEF SeedTypes
  <2> HIDE DEF a
  <2>3. b \in R /\ b.stack = Mig!Front(q) /\ b.visited = visit.visited \cup {top}
          /\ b.ordered = o
        /\ b.at = "visit"
    BY <1>2, <1>3, <2>2
  <2> HIDE DEF b
  <2> QED
    BY <1>4, <2>1, <2>3
<1> HIDE DEF top
<1>6. UNCHANGED <<seeders, selected, planted>>
  BY DEF Mig!Leave
<1>7. SeedTypes'
  BY <1>1, <1>5, <1>6 DEF SeedTypes
<1>8. Needs(top) \subseteq Mig!Range(o)
  <2>1. Mig!Unvisited(top) = {} /\ Mig!Range(o) = visit.visited
    BY <1>1, <1>3 DEF Mig!Leave, Visits
  <2> QED
    BY <2>1 DEF Mig!Unvisited, Needs
<1>9. \A i \in DOMAIN visit'.stack :
         /\ visit'.stack[i] \notin visit'.visited
         /\ i + 1 \in DOMAIN visit'.stack => visit'.stack[i + 1] \in Needs(visit'.stack[i])
  <2> SUFFICES ASSUME NEW i \in 1..(Len(q) - 1)
               PROVE  /\ q[i] \notin visit.visited \cup {top}
                      /\ i + 1 \in 1..(Len(q) - 1) => q[i + 1] \in Needs(q[i])
    BY <1>2, <1>4, <1>5
  <2>1. i \in 1..Len(q) /\ Len(q) \in 1..Len(q) /\ i # Len(q)
    BY <1>2
  <2>2. q[i] # q[Len(q)]
    BY <1>1, <1>2, <2>1 DEF Visits, Mig!IsInjective
  <2>3. q[i] \notin visit.visited /\ (i + 1 \in 1..(Len(q) - 1) => q[i + 1] \in Needs(q[i]))
    BY <1>1, <1>2, <2>1 DEF Visits
  <2> QED
    BY <2>2, <2>3 DEF top
<1>10. Mig!IsInjective(visit'.stack)
  <2>1. \A i, j \in 1..Len(q) : q[i] = q[j] => i = j
    BY <1>1, <1>2 DEF Visits, Mig!IsInjective
  <2>2. \A i \in 1..(Len(q) - 1) : i \in 1..Len(q)
    BY <1>2
  <2> HIDE DEF q
  <2> QED
    BY SMTT(20), <1>4, <1>5, <2>1, <2>2 DEF Mig!IsInjective
<1>11. \A i \in 1..Len(o) : o[i] # top
  BY <1>1, <1>2, <1>3 DEF Visits, Mig!Range
<1>12. Mig!IsInjective(visit'.ordered)
  BY <1>1, <1>2, <1>4, <1>5, <1>11 DEF Visits, Mig!IsInjective
<1>13. Mig!Range(visit'.ordered) = visit'.visited
  <2>1. Mig!Range(o) = visit.visited
    BY <1>1 DEF Visits
  <2>2. Mig!Range(Append(o, top)) = Mig!Range(o) \cup {top}
    BY SMTT(20), <1>2, <1>4 DEF Mig!Range
  <2> QED
    BY <1>5, <2>1, <2>2
<1>14. \A i \in DOMAIN visit'.ordered :
          Needs(visit'.ordered[i]) \subseteq Earlier(visit'.ordered, i)
  <2> SUFFICES ASSUME NEW i \in 1..(Len(o) + 1)
               PROVE  Needs(Append(o, top)[i]) \subseteq Earlier(Append(o, top), i)
    BY <1>4, <1>5
  <2>1. CASE i = Len(o) + 1
    <3>1. Earlier(Append(o, top), i) = Mig!Range(o)
      BY <1>2, <1>4, <2>1 DEF Earlier, Mig!Range
    <3> QED
      BY <1>4, <1>8, <2>1, <3>1
  <2>2. CASE i \in 1..Len(o)
    <3>1. Earlier(Append(o, top), i) = Earlier(o, i)
      BY <1>2, <1>4, <2>2 DEF Earlier
    <3>2. Needs(o[i]) \subseteq Earlier(o, i)
      BY <1>1, <1>2, <2>2 DEF Visits
    <3> QED
      BY <1>4, <2>2, <3>1, <3>2
  <2> QED
    BY <1>2, <2>1, <2>2
<1>15. Visits'
  <2>1. \A s \in DOMAIN seeders : planted[s] = "none"
    BY <1>1 DEF Visits
  <2> QED
    BY <1>6, <1>9, <1>10, <1>12, <1>13, <1>14, <2>1 DEF Visits, Needs
<1> QED
  BY <1>5, <1>7, <1>15 DEF SeedIInv

\* An order in which each comes after all it needs leaves no circle.
LEMMA OrderedIsNotCircular ==
  ASSUME NEW o \in Seq(selected), Mig!Range(o) = selected,
         \A i \in DOMAIN o : Needs(o[i]) \subseteq Earlier(o, i),
         NEW c \in SUBSET selected
  PROVE  ~Mig!Circular(c)
<1> SUFFICES ASSUME Mig!Circular(c)
             PROVE  FALSE
  OBVIOUS
<1> DEFINE T == {i \in 1..Len(o) : o[i] \in c}
<1>1. Len(o) \in Nat /\ DOMAIN o = 1..Len(o)
  OBVIOUS
<1>2. T \in SUBSET Nat /\ T # {}
  BY <1>1 DEF Mig!Circular, Mig!Range
<1>3. PICK x \in T : \A y \in T : x <= y
  <2> HIDE DEF T
  <2> QED
    BY <1>2, LeastNatural
<1>4. PICK d \in seeders[o[x]] \cap c : TRUE
  BY <1>3 DEF Mig!Circular
<1>5. d \in Earlier(o, x)
  BY <1>1, <1>3, <1>4 DEF Needs
<1>6. PICK j \in 1..(x - 1) : d = o[j]
  BY <1>5 DEF Earlier
<1>7. j \in T /\ j < x
  BY <1>1, <1>3, <1>4, <1>6
<1> QED
  BY <1>1, <1>3, <1>7

\* Everything that is selected has been visited.
LEMMA OrderedKeeps ==
  ASSUME SeedIInv, Mig!Ordered
  PROVE  SeedIInv'
<1>1. SeedTypes /\ Visits /\ visit.at = "visit" /\ selected \subseteq visit.visited
  BY DEF SeedIInv, Mig!Ordered
<1>2. UNCHANGED <<seeders, selected, planted>> /\ visit' = [visit EXCEPT !.at = "plant"]
  BY DEF Mig!Ordered
<1>3. visit'.at = "plant" /\ visit'.ordered = visit.ordered
      /\ visit' \in [stack : Seq(selected), visited : SUBSET selected,
           ordered : Seq(selected),
                     at : {"visit", "circular", "plant", "threw"}]
  BY <1>1, <1>2 DEF SeedTypes
<1>4. SeedTypes'
  BY <1>1, <1>2, <1>3 DEF SeedTypes
<1>5. visit.ordered \in Seq(selected) /\ Mig!Range(visit.ordered) = selected
  <2>1. visit.ordered \in Seq(selected) /\ visit.visited \subseteq selected
    BY <1>1 DEF SeedTypes
  <2> QED
    BY <1>1, <2>1 DEF Visits
<1>6. \A i \in DOMAIN visit.ordered : Needs(visit.ordered[i]) \subseteq Earlier(visit.ordered, i)
  BY <1>1 DEF Visits
<1>7. ~\E s \in SUBSET selected : Mig!Circular(s)
  BY <1>5, <1>6, OrderedIsNotCircular
<1>8. \A s \in selected : planted[s] = "none"
  BY <1>1 DEF Visits, SeedTypes
<1>9. Plants
  <2>1. Whole = {}
    BY <1>8 DEF Whole
  <2>2. \A i \in DOMAIN visit.ordered : visit.ordered[i] \in selected
    BY <1>5
  <2> QED
    BY <1>1, <1>5, <1>6, <1>7, <1>8, <2>1, <2>2 DEF Plants, Visits
<1>10. Plants'
  BY <1>2, <1>3, <1>9 DEF Plants, Whole, Needs, Mig!Circular
<1> QED
  BY <1>3, <1>4, <1>10 DEF SeedIInv

\* The first that is left runs, well or not.
LEMMA PlantKeeps ==
  ASSUME SeedIInv, NEW well \in BOOLEAN, Mig!Plant(well)
  PROVE  SeedIInv'
<1> DEFINE o == visit.ordered
           s == o[1]
           end == IF well THEN "whole" ELSE "failed"
<1>1. SeedTypes /\ Plants /\ visit.at = "plant" /\ o # <<>>
  BY DEF SeedIInv, Mig!Plant
<1>2. o \in Seq(selected) /\ Len(o) \in Nat /\ Len(o) > 0 /\ DOMAIN o = 1..Len(o)
        /\ Head(o) = s
  BY <1>1 DEF SeedTypes
<1>3. s \in selected /\ s \in DOMAIN seeders /\ 1 \in DOMAIN o
  BY <1>1, <1>2 DEF SeedTypes
<1>4. UNCHANGED <<seeders, selected>> /\ planted' = [planted EXCEPT ![s] = end]
  BY <1>2 DEF Mig!Plant
<1>5. end \in {"none", "failed", "whole"} /\ (end = "whole" <=> well)
  OBVIOUS
<1> HIDE DEF end
<1>6. /\ planted' \in [DOMAIN seeders -> {"none", "failed", "whole"}]
      /\ planted'[s] = end /\ \A r \in DOMAIN seeders \ {s} : planted'[r] = planted[r]
  BY <1>1, <1>3, <1>4, <1>5 DEF SeedTypes
<1>7. Needs(s) \subseteq Whole /\ planted[s] # "whole"
  BY <1>1, <1>3 DEF Plants, Earlier
<1>8. ~\E c \in SUBSET selected : Mig!Circular(c)
  BY <1>1 DEF Plants
<1>9. Whole' = IF well THEN Whole \cup {s} ELSE Whole
  BY <1>1, <1>3, <1>4, <1>5, <1>6, <1>7 DEF Whole, SeedTypes
<1>10. \A r \in DOMAIN seeders :
          planted'[r] # "none" => Needs(r) \subseteq Whole'
  BY <1>1, <1>5, <1>6, <1>7, <1>9 DEF Plants
<1>11. CASE well
  <2>1. visit' = [visit EXCEPT !.ordered = Tail(o)]
    BY <1>11 DEF Mig!Plant
  <2>2. /\ Tail(o) \in Seq(selected) /\ DOMAIN Tail(o) = 1..(Len(o) - 1)
        /\ \A i \in 1..(Len(o) - 1) : Tail(o)[i] = o[i + 1]
    BY <1>1, <1>2, <1>3, SequenceSteps
  <2>3. visit'.at = "plant" /\ visit'.ordered = Tail(o)
        /\ visit' \in [stack : Seq(selected), visited : SUBSET selected,
             ordered : Seq(selected),
                       at : {"visit", "circular", "plant", "threw"}]
    BY <1>1, <2>1, <2>2 DEF SeedTypes
  <2>4. SeedTypes'
    BY <1>1, <1>4, <1>6, <2>3 DEF SeedTypes
  <2>5. Mig!Range(Tail(o)) \cup Whole' = selected
    <3>1. Mig!Range(o) = Mig!Range(Tail(o)) \cup {s}
      <4>1. \A i \in 1..Len(o) : i = 1 \/ (i - 1 \in 1..(Len(o) - 1)
              /\ o[i] = Tail(o)[i - 1])
        BY <1>2, <2>2
      <4>2. \A i \in 1..(Len(o) - 1) : i + 1 \in 1..Len(o)
        BY <1>2
      <4> DEFINE rest == Tail(o)
      <4>3. \A i \in 1..(Len(o) - 1) : rest[i] = o[i + 1]
        BY <2>2
      <4>4. DOMAIN rest = 1..(Len(o) - 1) /\ \A i \in 1..Len(o) : i = 1
              \/ \E j \in DOMAIN rest : o[i] = rest[j]
        BY <2>2, <4>1
      <4> HIDE DEF rest
      <4>5. \A x \in Mig!Range(o) : x = s \/ x \in Mig!Range(rest)
        BY <1>2, <4>4 DEF Mig!Range
      <4>6. ASSUME NEW x \in Mig!Range(rest)
            PROVE  x \in Mig!Range(o)
        <5>1. PICK i \in 1..(Len(o) - 1) : x = rest[i]
          BY <4>4 DEF Mig!Range
        <5>2. i + 1 \in 1..Len(o) /\ x = o[i + 1]
          BY <4>2, <4>3, <5>1
        <5>3. DOMAIN o = 1..Len(o)
          BY <1>2
        <5> QED
          BY <5>2, <5>3 DEF Mig!Range
      <4>7. s \in Mig!Range(o)
        BY <1>3 DEF Mig!Range
      <4>8. Mig!Range(o) = Mig!Range(rest) \cup {s}
        BY <4>5, <4>6, <4>7
      <4> QED
        BY <4>8 DEF rest
    <3>2. Mig!Range(o) \cup Whole = selected
      BY <1>1 DEF Plants
    <3> QED
      BY <1>9, <1>11, <3>1, <3>2
  <2>6. Mig!IsInjective(Tail(o))
    <3>1. \A i, j \in 1..Len(o) : o[i] = o[j] => i = j
      BY <1>1, <1>2 DEF Plants, Mig!IsInjective
    <3>2. ASSUME NEW i \in 1..(Len(o) - 1),
                 NEW j \in 1..(Len(o) - 1), Tail(o)[i] = Tail(o)[j]
          PROVE  i = j
      <4>1. i + 1 \in 1..Len(o) /\ j + 1 \in 1..Len(o) /\ o[i + 1] = o[j + 1]
        BY <1>2, <2>2, <3>2
      <4>2. i + 1 = j + 1
        BY <3>1, <4>1
      <4> QED
        BY <1>2, <4>2
    <3> QED
      BY <2>2, <3>2 DEF Mig!IsInjective
  <2>7. ASSUME NEW i \in DOMAIN Tail(o)
        PROVE  planted'[Tail(o)[i]] # "whole"
                 /\ Needs(Tail(o)[i]) \subseteq Whole' \cup Earlier(Tail(o), i)
    <3>1. i \in 1..(Len(o) - 1) /\ i + 1 \in 1..Len(o) /\ Tail(o)[i] = o[i + 1] /\ i + 1 # 1
      BY <1>2, <2>2
    <3>2. o[i + 1] # s /\ o[i + 1] \in DOMAIN seeders
      BY SMTT(20), <1>1, <1>2, <1>3, <3>1 DEF Plants, Mig!IsInjective, SeedTypes
    <3>3. planted[o[i + 1]] # "whole"
            /\ Needs(o[i + 1]) \subseteq Whole \cup Earlier(o, i + 1)
      BY <1>1, <1>2, <3>1 DEF Plants
    <3>4. Earlier(o, i + 1) \subseteq {s} \cup Earlier(Tail(o), i)
      <4>1. SUFFICES ASSUME NEW j \in 1..i, j # 1
                     PROVE  o[j] \in Earlier(Tail(o), i)
        <5>1. i \in Nat /\ 1..(i + 1 - 1) = 1..i
          BY <1>2, <3>1
        <5>2. \A x \in Earlier(o, i + 1) : \E j \in 1..i : x = o[j]
          BY <5>1 DEF Earlier
        <5> QED
          BY <5>2
      <4>2. j - 1 \in 1..(i - 1) /\ j - 1 \in 1..(Len(o) - 1) /\ o[j] = Tail(o)[j - 1]
        BY <1>2, <2>2, <3>1, <4>1
      <4> QED
        BY <4>2 DEF Earlier
    <3> QED
      BY <1>6, <1>9, <1>11, <3>1, <3>2, <3>3, <3>4
  <2>8. Plants'
    BY <1>4, <1>8, <1>10, <2>3, <2>5, <2>6, <2>7 DEF Plants, Needs, Mig!Circular
  <2> QED
    BY <2>3, <2>4, <2>8 DEF SeedIInv
<1>12. CASE ~well
  <2>1. visit' = [visit EXCEPT !.at = "threw"]
    BY <1>12 DEF Mig!Plant
  <2>2. visit'.at = "threw" /\ visit'.ordered = o
        /\ visit' \in [stack : Seq(selected), visited : SUBSET selected,
             ordered : Seq(selected),
                       at : {"visit", "circular", "plant", "threw"}]
    BY <1>1, <2>1 DEF SeedTypes
  <2>3. SeedTypes'
    BY <1>1, <1>4, <1>6, <2>2 DEF SeedTypes
  <2>4. /\ Mig!Range(o) \cup Whole' = selected /\ Mig!IsInjective(o)
        /\ \A i \in DOMAIN o : Needs(o[i]) \subseteq Whole' \cup Earlier(o, i)
    BY <1>1, <1>9, <1>12 DEF Plants
  <2>5. \A i \in DOMAIN o : planted'[o[i]] # "whole"
    <3>1. \A i \in DOMAIN o : planted[o[i]] # "whole" /\ o[i] \in DOMAIN seeders
      BY <1>1, <1>2 DEF Plants, SeedTypes
    <3> QED
      BY <1>5, <1>6, <1>12, <3>1
  <2>6. Plants'
    BY <1>4, <1>8, <1>10, <2>2, <2>4, <2>5 DEF Plants, Needs, Mig!Circular
  <2> QED
    BY <2>2, <2>3, <2>6 DEF SeedIInv
<1> QED
  BY <1>11, <1>12

\* The invariant of the seeders.
LEMMA SeedsStep ==
  ASSUME SeedIInv, [Mig!SeedsNext]_Mig!seedVars
  PROVE  SeedIInv'
<1>1. CASE UNCHANGED Mig!seedVars
  BY <1>1 DEF Mig!seedVars, SeedIInv, SeedTypes, Visits, Plants, Needs, Whole, Mig!Circular
<1>2. CASE Mig!SeedsNext
  BY <1>2, VisitKeeps, LeaveKeeps, OrderedKeeps, PlantKeeps DEF Mig!SeedsNext
<1> QED
  BY <1>1, <1>2

\* No seeder has been visited yet.
LEMMA SeedsStart ==
  ASSUME Mig!SeedsInit
  PROVE  SeedIInv
<1>1. visit = [stack |-> <<>>, visited |-> {}, ordered |-> <<>>, at |-> "visit"]
  BY DEF Mig!SeedsInit, Mig!NoVisit
<1>2. SeedTypes
  BY <1>1 DEF Mig!SeedsInit, SeedTypes
<1>3. Visits
  BY <1>1 DEF Mig!SeedsInit, Visits, Mig!IsInjective, Mig!Range
<1> QED
  BY <1>1, <1>2, <1>3 DEF SeedIInv

\* Seeders run in order.
LEMMA SeedsAreInOrder ==
  ASSUME SeedIInv
  PROVE  Mig!SeedsInOrder
<1>1. SeedTypes /\ visit.at \in {"visit", "circular", "plant", "threw"}
  BY DEF SeedIInv, SeedTypes
<1>2. CASE visit.at \in {"visit", "circular"}
  BY <1>1, <1>2 DEF SeedIInv, Visits, Mig!SeedsInOrder
<1>3. CASE visit.at \in {"plant", "threw"}
  <2>1. Plants
    BY <1>3 DEF SeedIInv
  <2>2. \A s \in DOMAIN seeders :
           planted[s] # "none" => \A d \in seeders[s] \cap selected : planted[d] = "whole"
    BY <2>1 DEF Plants, Needs, Whole
  <2>3. /\ ~\E s \in SUBSET selected : Mig!Circular(s)
        /\ Mig!Range(visit.ordered) \cup {s \in selected : planted[s] = "whole"} = selected
        /\ \A i \in DOMAIN visit.ordered : planted[visit.ordered[i]] # "whole"
    BY <2>1 DEF Plants, Whole
  <2> QED
    BY <1>3, <2>2, <2>3 DEF Mig!SeedsInOrder
<1> QED
  BY <1>1, <1>2, <1>3

\* A behaviour of the suite keeps the invariants of the runners and the seeders.
LEMMA RunsAndSeedsOfTheSuite ==
  SuiteSpec => []MigIInv /\ []SeedIInv
<1> USE DriversAssumption DEF DriversAssumption
<1>1. SuiteInit => MigIInv /\ SeedIInv
  BY MigrationsStart, SeedsStart DEF SuiteInit, Starts
<1>2. [SuiteNext]_SuiteVars =>
         [Mig!MigrationsNext]_(Mig!migrationVars) /\ [Mig!SeedsNext]_(Mig!seedVars)
  <2>2. SeedSteps => UNCHANGED Mig!migrationVars
    BY DEF SeedSteps, Mig!SeedsNext, Mig!Visit, Mig!Leave, Mig!Ordered, Mig!Plant
  <2>3. MigrationSteps => UNCHANGED Mig!seedVars
    BY DEF MigrationSteps, Mig!MigrationsNext, Mig!Register, Mig!StartRun, Mig!Migrate,
           Mig!ExecuteQueue, Mig!Record, Mig!EndRun, Mig!BreakRun
  <2> QED
    BY <2>2, <2>3 DEF SuiteNext, SuiteVars, migrationVars, Mig!migrationVars, Mig!seedVars, Turn,
       PoolSteps, SqliteSteps, TableSteps, ToolsSteps, ScopeSteps, MigrationSteps, SeedSteps
<1>3. MigIInv /\ [Mig!MigrationsNext]_(Mig!migrationVars) => MigIInv'
  BY MigrationsStep
<1>4. SeedIInv /\ [Mig!SeedsNext]_(Mig!seedVars) => SeedIInv'
  BY SeedsStep
<1> QED
  BY <1>1, <1>2, <1>3, <1>4, PTL DEF SuiteSpec

\* The history table tells which migrations have been run, for any number of
\* migrations and runners and any that have no down: one that is in it has run
\* once more than it was undone, one that was ever taken out without a down has
\* run oftener than it has a row, and a run that comes to its end has run all
\* there are, unless two runs overlapped or one was cut short.
THEOREM HistoryTellsWhatRan == SuiteSpec => []HistoryTells
<1>1. MigIInv => HistoryTells
  BY HistoryIsTold DEF HistoryTells
<1> QED
  BY <1>1, RunsAndSeedsOfTheSuite, PTL

\* Seeders run after those they depend on, each once, and a circle is found
\* exactly when there is one, for every graph of seeders and every selection.
THEOREM SeedersRunInOrder == SuiteSpec => []SeedsInOrder
<1>1. SeedIInv => SeedsInOrder
  BY SeedsAreInOrder DEF SeedsInOrder
<1> QED
  BY <1>1, RunsAndSeedsOfTheSuite, PTL

-----------------------------------------------------------------------------
(* The pooled drivers: who has a client, and what it holds.                *)

ClientRecords ==
    [owner : Sql!Parties \cup {Nobody}, work : Sql!Works, saved : SUBSET Sql!Works,
      aborted : BOOLEAN]
JobRecords ==
    [method : {"none", "writeTable", "beginTransaction"},
     at : {"idle", "waiting", "begin", "delete", "schema", "insert", "commit"},
     table : SqlTables \cup {Seed}, on : Clients \cup {Nobody},
       attempt : 0..(MaxRetries + 1)]
TxRecords ==
    [status : {"unused", "open", "unsure", "committed", "rolledback", "leaked"},
     on : Clients \cup {Nobody}, acted : BOOLEAN, mark : {"none", "made", "undone"}]

PoolTypes ==
    /\ database \in [dialect : Dialects, onDelete : {"cascade", "restrict"}]
    /\ cached \subseteq SqlTables /\ cascaded \subseteq SqlTables
    /\ committed \in [SqlTables -> Sql!Rows]
    /\ client \in [Clients -> ClientRecords]
    /\ job \in [Sql!Parties -> JobRecords]
    /\ transaction \in [Txs -> TxRecords]
    /\ faults \in 0..MaxFaults /\ writes \in [Sql!Parties -> 0..MaxWrites]

\* A write of a transaction on the transaction's own client.
OwnWrite(p) == Sql!OwnClient(p) /\ job[p].method = "writeTable"

JobOK(p) ==
    /\ job[p].at = "idle" <=> job[p].method = "none"
    /\ job[p].at \in {"idle", "waiting"} <=> job[p].on = Nobody
    /\ job[p].on # Nobody => client[job[p].on].owner = p
    /\ job[p].method = "beginTransaction" =>
          p \in Txs /\ job[p].at \in {"waiting", "begin"}
            /\ transaction[p].status = "unused"
    /\ job[p].method = "writeTable" =>
          job[p].table \in SqlTables /\ (p \in Txs => transaction[p].status = "open")
    /\ OwnWrite(p) => job[p].on = transaction[p].on /\ job[p].at \in {"delete", "insert"}
    /\ ~OwnWrite(p) /\ p \in Txs /\ job[p].on # Nobody => job[p].on # transaction[p].on
    /\ job[p].at = "commit" => ~client[job[p].on].aborted

TxOK(x) ==
    /\ transaction[x].status = "unused" => transaction[x].on = Nobody
    /\ transaction[x].status \in {"open", "unsure", "leaked"} =>
          transaction[x].on \in Clients /\ client[transaction[x].on].owner = x
    /\ transaction[x].status \in {"unused", "open"} => ~transaction[x].acted

\* Each table without rows is one that was emptied with another that was written.
Justified(w) ==
    \A t \in SqlTables : w[t] = Empty => \E s \in SqlTables : w[s] \in Sql!Parties
      /\ t \in Sql!Emptied(s)

\* Each but those that have just been emptied with u.
NearlyJustified(w, u) ==
    \A t \in SqlTables : w[t] = Empty =>
       t \in Sql!Emptied(u) \/ \E s \in SqlTables : w[s] \in Sql!Parties
         /\ t \in Sql!Emptied(s)

\* Rows of nobody else.
RowsOf(w, p) == \A t \in SqlTables : w[t] \in {Untouched, Empty, p}

ClientOK(c) ==
    LET p == client[c].owner IN
    /\ p = Nobody => client[c] = Sql!Unowned
    /\ p # Nobody =>
          /\ \/ job[p].on = c
             \/ /\ p \in Txs /\ transaction[p].on = c
                /\ transaction[p].status \in {"open", "unsure", "leaked"}
          /\ \A w \in client[c].saved \cup {client[c].work} : RowsOf(w, p)
          /\ \A w \in client[c].saved : Justified(w)
          /\ ~client[c].aborted =>
                IF job[p].on = c /\ job[p].at \in {"schema", "insert"}
                THEN NearlyJustified(client[c].work, job[p].table)
                ELSE Justified(client[c].work)

PoolIInv ==
    /\ PoolTypes
    /\ \A p \in Sql!Parties : JobOK(p)
    /\ \A x \in Txs : TxOK(x)
    /\ \A c \in Clients : ClientOK(c)
    /\ Sql!WholeOrNothing

\* Untouched and Empty are different, and nobody is named like them.
LEMMA PoolNames ==
  ASSUME Sql!PooledSqlAssumption
  PROVE  /\ Untouched # Empty /\ Untouched # Seed /\ Seed # Empty
         /\ Untouched \notin Sql!Parties /\ Empty \notin Sql!Parties
              /\ Nobody \notin Sql!Parties
         /\ Nobody \notin Clients
         /\ Txs \subseteq Sql!Parties
         /\ Sql!Clean \in Sql!Works /\ Sql!Clean \in [SqlTables -> {Untouched}]
         /\ Sql!Unowned \in ClientRecords
         /\ Sql!Idle \in JobRecords
<1>1. Sql!Clean \in Sql!Works /\ Sql!Clean \in [SqlTables -> {Untouched}]
  BY DEF Sql!Clean, Sql!Works
<1>2. Sql!Unowned \in ClientRecords
  BY <1>1 DEF Sql!Unowned, ClientRecords
<1>3. Sql!Idle \in JobRecords
  BY DEF Sql!Idle, JobRecords, Sql!PooledSqlAssumption
<1> QED
  BY <1>1, <1>2, <1>3 DEF Sql!PooledSqlAssumption, Sql!Rows, Sql!Parties

\* What tells the four drivers apart, as far as it matters here.
LEMMA PoolDialects ==
  ASSUME Sql!PooledSqlAssumption, PoolTypes
  PROVE  /\ Sql!Dialect \in {"postgres", "mysql", "mssql", "oracle"}
         /\ Sql!Transacting.own <=> Sql!Dialect = "postgres"
         /\ Sql!Dialect = "postgres" => ~Sql!Writing.asks
         /\ {Sql!Writing.asks, Sql!Writing.begins, Sql!Writing.truncates,
              Sql!Writing.retried} \subseteq BOOLEAN
         /\ {Sql!Transacting.begins, Sql!Transacting.returns} \subseteq BOOLEAN
<1>1. Sql!Dialect \in {"postgres", "mysql", "mssql", "oracle"}
  BY DEF Sql!PooledSqlAssumption, PoolTypes, Sql!Dialect
<1>2. CASE Sql!Dialect = "postgres"
  <2>1. Sql!Writing = Sql!PostgresWriteTable /\ Sql!Transacting = Sql!PostgresTransaction
    BY <1>2 DEF Sql!Writing, Sql!Transacting
  <2> QED
    BY <1>2, <2>1 DEF Sql!PostgresWriteTable, Sql!PostgresTransaction
<1>3. CASE Sql!Dialect = "mysql"
  <2>1. Sql!Writing = Sql!MySqlWriteTable /\ Sql!Transacting = Sql!MySqlTransaction
    BY <1>3 DEF Sql!Writing, Sql!Transacting
  <2> QED
    BY <1>3, <2>1 DEF Sql!MySqlWriteTable, Sql!MySqlTransaction
<1>4. CASE Sql!Dialect = "mssql"
  <2>1. Sql!Writing = Sql!MssqlWriteTable /\ Sql!Transacting = Sql!MssqlTransaction
    BY <1>4 DEF Sql!Writing, Sql!Transacting
  <2> QED
    BY <1>4, <2>1 DEF Sql!MssqlWriteTable, Sql!MssqlTransaction
<1>5. CASE Sql!Dialect = "oracle"
  <2>1. Sql!Writing = Sql!OracleWriteTable /\ Sql!Transacting = Sql!OracleTransaction
    BY <1>5 DEF Sql!Writing, Sql!Transacting
  <2> QED
    BY <1>5, <2>1 DEF Sql!OracleWriteTable, Sql!OracleTransaction
<1> QED
  BY <1>1, <1>2, <1>3, <1>4, <1>5

\* The types of one client, one job and one transaction.
LEMMA PoolFields ==
  ASSUME PoolTypes
  PROVE  /\ \A c \in Clients :
               /\ client[c] \in ClientRecords
               /\ client[c].owner \in Sql!Parties \cup {Nobody}
               /\ client[c].work \in Sql!Works /\ client[c].saved \subseteq Sql!Works
               /\ client[c].aborted \in BOOLEAN
         /\ \A p \in Sql!Parties :
               /\ job[p] \in JobRecords
               /\ job[p].method \in {"none", "writeTable", "beginTransaction"}
               /\ job[p].at \in {"idle", "waiting", "begin", "delete", "schema",
                    "insert", "commit"}
               /\ job[p].on \in Clients \cup {Nobody}
               /\ job[p].table \in SqlTables \cup {Seed}
               /\ job[p].attempt \in 0..(MaxRetries + 1)
         /\ \A x \in Txs :
               /\ transaction[x] \in TxRecords
               /\ transaction[x].on \in Clients \cup {Nobody}
               /\ transaction[x].acted \in BOOLEAN
               /\ transaction[x].status \in
                     {"unused", "open", "unsure", "committed", "rolledback", "leaked"}
<1>1. \A c \in Clients : client[c] \in ClientRecords
  BY DEF PoolTypes
<1>2. \A p \in Sql!Parties : job[p] \in JobRecords
  BY DEF PoolTypes
<1>3. \A x \in Txs : transaction[x] \in TxRecords
  BY DEF PoolTypes
<1> QED
  BY <1>1, <1>2, <1>3 DEF ClientRecords, JobRecords, TxRecords

\* What a step of p leaves alone: the jobs, transactions and clients of others.
LEMMA PoolOthers ==
  ASSUME Sql!PooledSqlAssumption, PoolIInv, NEW p \in Sql!Parties,
         NEW c \in Clients \cup {Nobody},
         c \in Clients => client[c].owner \in {p, Nobody},
         \A d \in Clients : d # c => client'[d] = client[d],
         \A q \in Sql!Parties : q # p => job'[q] = job[q],
         \A x \in Txs : x # p => transaction'[x] = transaction[x],
         UNCHANGED database
  PROVE  /\ \A q \in Sql!Parties : q # p => JobOK(q)'
         /\ \A x \in Txs : x # p => TxOK(x)'
         /\ \A d \in Clients : d # c /\ client[d].owner # p => ClientOK(d)'
<1> USE PoolNames
<1>f. PoolTypes
  BY DEF PoolIInv
<1>1. ASSUME NEW q \in Sql!Parties, q # p
      PROVE  JobOK(q)'
  <2>1. JobOK(q) /\ job'[q] = job[q] /\ (q \in Txs => transaction'[q] = transaction[q])
    BY <1>1 DEF PoolIInv
  <2>2. job[q].on # Nobody => client'[job[q].on] = client[job[q].on]
    BY <1>1, <1>f, <2>1, PoolFields DEF JobOK
  <2>3. job[q].at = "commit" => job[q].on # Nobody
    BY <2>1 DEF JobOK
  <2>4. OwnWrite(q)' = OwnWrite(q)
    BY <2>1 DEF OwnWrite, Sql!OwnClient, Sql!Transacting, Sql!Dialect
  <2>5. job[q].on # Nobody => job[q].on \in Clients
    BY <1>f, PoolFields
  <2>6. OwnWrite(q) => q \in Txs
    BY DEF OwnWrite, Sql!OwnClient
  <2>7. CASE job[q].on = Nobody
    BY <2>1, <2>3, <2>4, <2>6, <2>7 DEF JobOK
  <2>8. CASE job[q].on # Nobody
    BY <2>1, <2>2, <2>4, <2>6, <2>8 DEF JobOK
  <2> QED
    BY <2>7, <2>8
<1>2. ASSUME NEW x \in Txs, x # p
      PROVE  TxOK(x)'
  <2>1. TxOK(x) /\ transaction'[x] = transaction[x]
    BY <1>2 DEF PoolIInv
  <2>2. transaction[x].status \in {"open", "unsure", "leaked"} =>
           client'[transaction[x].on] = client[transaction[x].on]
    BY <1>2, <2>1 DEF TxOK
  <2> QED
    BY <2>1, <2>2 DEF TxOK
<1>3. ASSUME NEW d \in Clients, d # c, client[d].owner # p
      PROVE  ClientOK(d)'
  <2>1. ClientOK(d) /\ client'[d] = client[d]
    BY <1>3 DEF PoolIInv
  <2>2. CASE client[d].owner = Nobody
    BY <2>1, <2>2 DEF ClientOK
  <2>3. CASE client[d].owner # Nobody
    <3> DEFINE q == client[d].owner
    <3>1. q \in Sql!Parties /\ q # p
      BY <1>3, <1>f, <2>3, PoolFields
    <3>2. job'[q] = job[q] /\ (q \in Txs => transaction'[q] = transaction[q])
      BY <3>1
    <3>3. \A s : Sql!Emptied(s)' = Sql!Emptied(s)
      BY DEF Sql!Emptied, Sql!Writing, Sql!Dialect
    <3>4. client'[d].owner = q
      BY <2>1
    <3> HIDE DEF q
    <3>5. /\ job'[q].on = d \/ (q \in Txs /\ transaction'[q].on = d
                                /\ transaction'[q].status \in {"open", "unsure", "leaked"})
          /\ \A w \in client'[d].saved \cup {client'[d].work} : RowsOf(w, q)
          /\ \A w \in client'[d].saved : Justified(w)
          /\ ~client'[d].aborted =>
                IF job'[q].on = d /\ job'[q].at \in {"schema", "insert"}
                THEN NearlyJustified(client'[d].work, job'[q].table)
                ELSE Justified(client'[d].work)
      BY <2>1, <3>1, <3>2, <3>4 DEF ClientOK
    <3>6. ClientOK(d)' <=>
            /\ job'[q].on = d \/ (q \in Txs /\ transaction'[q].on = d
                                  /\ transaction'[q].status \in {"open", "unsure",
                                       "leaked"})
            /\ \A w \in client'[d].saved \cup {client'[d].work} : RowsOf(w, q)
            /\ \A w \in client'[d].saved : Justified(w)
            /\ ~client'[d].aborted =>
                  IF job'[q].on = d /\ job'[q].at \in {"schema", "insert"}
                  THEN NearlyJustified(client'[d].work, job'[q].table)
                  ELSE Justified(client'[d].work)
      BY <3>1, <3>3, <3>4 DEF ClientOK, RowsOf, Justified, NearlyJustified
    <3> QED
      BY <3>5, <3>6
  <2> QED
    BY <2>2, <2>3
<1> QED
  BY <1>1, <1>2, <1>3

\* What empties a table empties those that refer to it as well.
LEMMA PoolEmptied ==
  ASSUME Sql!PooledSqlAssumption, NEW t \in SqlTables
  PROVE  /\ t \in Sql!Emptied(t) /\ Sql!Emptied(t) \subseteq SqlTables
         /\ \A s \in Sql!Emptied(t) : Sql!Emptied(s) \subseteq Sql!Emptied(t)
         /\ \A s \in Sql!Emptied(t) : s # t => s \in References[t]
<1>1. CASE Sql!Writing.truncates \/ database.onDelete = "cascade"
  <2>1. \A s \in SqlTables : Sql!Emptied(s) = {s} \cup References[s]
    BY <1>1 DEF Sql!Emptied
  <2>2. References[t] \subseteq SqlTables
          /\ \A s \in References[t] : References[s] \subseteq References[t]
    BY DEF Sql!PooledSqlAssumption
  <2> QED
    BY <2>1, <2>2
<1>2. CASE ~(Sql!Writing.truncates \/ database.onDelete = "cascade")
  <2>1. \A s \in SqlTables : Sql!Emptied(s) = {s}
    BY <1>2 DEF Sql!Emptied
  <2> QED
    BY <2>1
<1> QED
  BY <1>1, <1>2

\* The database stays the same one, and with it what empties what.
LEMMA PoolJustified ==
  ASSUME UNCHANGED database
  PROVE  /\ \A s : Sql!Emptied(s)' = Sql!Emptied(s)
         /\ Sql!Dialect' = Sql!Dialect /\ Sql!Writing' = Sql!Writing
              /\ Sql!Transacting' = Sql!Transacting
<1>1. Sql!Dialect' = Sql!Dialect
  BY DEF Sql!Dialect
<1>2. Sql!Writing' = Sql!Writing /\ Sql!Transacting' = Sql!Transacting
  BY <1>1 DEF Sql!Writing, Sql!Transacting
<1> QED
  BY <1>1, <1>2 DEF Sql!Emptied

\* Rows that are published are whole, and in postgres of one who commits.
LEMMA PoolPublish ==
  ASSUME Sql!PooledSqlAssumption, PoolIInv, NEW p \in Sql!Parties, NEW w \in Sql!Works,
         Justified(w), RowsOf(w, p), UNCHANGED database,
         committed' = Sql!Published(w), cascaded' = cascaded \cup Sql!SideEffect(w),
         \A x \in Txs : x # p => transaction'[x] = transaction[x],
         Sql!Dialect = "postgres" /\ p \in Txs =>
            /\ transaction[p].acted => transaction'[p].acted
            /\ (\E t \in SqlTables : w[t] = p) => transaction'[p].acted
  PROVE  Sql!WholeOrNothing' /\ committed' \in [SqlTables -> Sql!Rows]
           /\ cascaded' \subseteq SqlTables
<1> USE PoolNames
<1>f. PoolTypes /\ Sql!WholeOrNothing
  BY DEF PoolIInv
<1>1. /\ committed' = [t \in SqlTables |-> IF w[t] = Untouched THEN committed[t] ELSE w[t]]
      /\ \A t \in SqlTables : w[t] \in Sql!Rows \cup {Untouched}
  BY DEF Sql!Published, Sql!Works
<1>2. committed' \in [SqlTables -> Sql!Rows]
  BY <1>f, <1>1 DEF PoolTypes
<1>3. cascaded' \subseteq SqlTables
  BY <1>f DEF PoolTypes, Sql!SideEffect
<1>4. ASSUME NEW t \in SqlTables, committed'[t] = Empty
      PROVE  t \in cascaded'
  <2>1. CASE w[t] = Untouched
    BY <1>f, <1>1, <1>4, <2>1 DEF Sql!WholeOrNothing
  <2>2. CASE w[t] # Untouched
    <3>1. w[t] = Empty
      BY <1>1, <1>4, <2>2
    <3>2. PICK s \in SqlTables : w[s] \in Sql!Parties /\ t \in Sql!Emptied(s)
      BY <3>1 DEF Justified
    <3>3. t # s
      BY <3>1, <3>2
    <3>4. t \in References[s]
      BY <3>2, <3>3, PoolEmptied
    <3> QED
      BY <3>1, <3>2, <3>4 DEF Sql!SideEffect
  <2> QED
    BY <2>1, <2>2
<1>5. ASSUME Sql!Dialect = "postgres", NEW t \in SqlTables, committed'[t] \in Txs
      PROVE  transaction'[committed'[t]].acted
  <2>1. CASE w[t] = Untouched
    <3>1. committed'[t] = committed[t] /\ transaction[committed[t]].acted
      BY <1>f, <1>1, <1>5, <2>1 DEF Sql!WholeOrNothing
    <3> QED
      BY <1>5, <3>1
  <2>2. CASE w[t] # Untouched
    <3>1. committed'[t] = w[t] /\ w[t] \in {Empty, p}
      BY <1>1, <2>2 DEF RowsOf
    <3>2. w[t] = p /\ p \in Txs
      BY <1>5, <3>1
    <3> QED
      BY <1>5, <3>1, <3>2
  <2> QED
    BY <2>1, <2>2
<1>6. Sql!Dialect' = Sql!Dialect
  BY PoolJustified
<1> QED
  BY <1>2, <1>3, <1>4, <1>5, <1>6 DEF Sql!WholeOrNothing

\* Nothing is published.
LEMMA PoolUnpublished ==
  ASSUME Sql!PooledSqlAssumption, PoolIInv, UNCHANGED <<database, committed, cascaded>>,
         \A x \in Txs : transaction[x].acted => transaction'[x].acted
  PROVE  Sql!WholeOrNothing' /\ committed' \in [SqlTables -> Sql!Rows]
           /\ cascaded' \subseteq SqlTables
<1>1. Sql!Dialect' = Sql!Dialect
  BY PoolJustified
<1> QED
  BY <1>1 DEF PoolIInv, PoolTypes, Sql!WholeOrNothing

\* A client of p that the step is not about, that of its transaction.
LEMMA PoolMine ==
  ASSUME Sql!PooledSqlAssumption, PoolIInv, NEW p \in Sql!Parties, NEW c, NEW d \in Clients,
         client[d].owner = p, d # c, client'[d] = client[d], UNCHANGED database,
         job[p].on \in {c, Nobody}, job'[p].on \in {c, Nobody},
         p \in Txs => /\ transaction'[p].on = transaction[p].on
                      /\ transaction'[p].status = transaction[p].status
  PROVE  ClientOK(d)'
<1> USE PoolNames
<1>1. d # Nobody /\ job[p].on # d /\ job'[p].on # d /\ ClientOK(d)
  BY DEF PoolIInv
<1>2. /\ p \in Txs /\ transaction[p].on = d
      /\ transaction[p].status \in {"open", "unsure", "leaked"}
      /\ \A w \in client[d].saved \cup {client[d].work} : RowsOf(w, p)
      /\ \A w \in client[d].saved : Justified(w)
      /\ ~client[d].aborted => Justified(client[d].work)
  BY <1>1 DEF ClientOK
<1>3. \A s : Sql!Emptied(s)' = Sql!Emptied(s)
  BY PoolJustified
<1>5. /\ p \in Txs /\ transaction'[p].on = d
      /\ transaction'[p].status \in {"open", "unsure", "leaked"}
      /\ \A w \in client'[d].saved \cup {client'[d].work} : RowsOf(w, p)
  BY <1>2
<1>6. (\A w \in client[d].saved : Justified(w))'
  BY <1>2, <1>3 DEF Justified
<1>7. (~client[d].aborted => Justified(client[d].work))'
  BY <1>2, <1>3 DEF Justified
<1>8. client'[d].owner = p
  OBVIOUS
<1> QED
  BY <1>1, <1>5, <1>6, <1>7, <1>8 DEF ClientOK, RowsOf

\* The parts of the invariant, together again.
LEMMA PoolGather ==
  ASSUME Sql!PooledSqlAssumption, PoolTypes', Sql!WholeOrNothing',
         NEW p \in Sql!Parties, NEW c,
         \A q \in Sql!Parties : q # p => JobOK(q)', JobOK(p)',
         \A x \in Txs : x # p => TxOK(x)', p \in Txs => TxOK(p)',
         \A d \in Clients : d # c => ClientOK(d)', c \in Clients => ClientOK(c)'
  PROVE  PoolIInv'
<1>1. \A q \in Sql!Parties : JobOK(q)'
  OBVIOUS
<1>2. \A x \in Txs : TxOK(x)'
  OBVIOUS
<1>3. \A d \in Clients : ClientOK(d)'
  OBVIOUS
<1> QED
  BY <1>1, <1>2, <1>3 DEF PoolIInv

\* A method gives its client back, and its call ends or starts over.
LEMMA PoolLetGo ==
  ASSUME Sql!PooledSqlAssumption, PoolIInv,
         NEW p \in Sql!Parties, ~OwnWrite(p), job[p].at # "idle",
         NEW j, j = Sql!Idle \/ \E retryable \in BOOLEAN : j = Sql!Caught(job[p],
           retryable),
         client' = Sql!GivenBack(p), job' = [job EXCEPT ![p] = j], UNCHANGED <<database,
           transaction>>
  PROVE  /\ client' \in [Clients -> ClientRecords] /\ job' \in [Sql!Parties -> JobRecords]
         /\ transaction' \in [Txs -> TxRecords]
         /\ \A q \in Sql!Parties : JobOK(q)'
         /\ \A x \in Txs : TxOK(x)'
         /\ \A d \in Clients : ClientOK(d)'
<1> USE PoolNames
<1>f. PoolTypes /\ JobOK(p) /\ (p \in Txs => TxOK(p))
  BY DEF PoolIInv
<1>0. PICK c \in Clients \cup {Nobody} : c = job[p].on
  BY <1>f, PoolFields
<1>1. /\ c \in Clients => client[c].owner = p
      /\ client' = IF c = Nobody THEN client ELSE [client EXCEPT ![c] = Sql!Unowned]
  BY <1>f, <1>0 DEF Sql!GivenBack, JobOK
<1>2. /\ j \in JobRecords /\ j.on = Nobody
      /\ \/ j.at = "idle" /\ j.method = "none"
         \/ j.at = "waiting" /\ j.method = job[p].method /\ j.table = job[p].table
  <2>1. CASE j = Sql!Idle
    BY <2>1 DEF Sql!Idle
  <2>2. ASSUME j # Sql!Idle
        PROVE  /\ job[p].attempt <= MaxRetries
               /\ j = [job[p] EXCEPT !.at = "waiting", !.on = Nobody, !.attempt = @ + 1]
    BY <2>2 DEF Sql!Caught
  <2>3. CASE j # Sql!Idle
    <3>1. /\ job[p] \in JobRecords
          /\ job[p].attempt \in 0..(MaxRetries + 1) /\ job[p].attempt <= MaxRetries
          /\ MaxRetries \in Nat
      BY <1>f, <2>2, <2>3, PoolFields DEF Sql!PooledSqlAssumption
    <3>2. job[p].attempt + 1 \in 0..(MaxRetries + 1)
      BY <3>1
    <3> DEFINE a == [job[p] EXCEPT !.at = "waiting"]
               b == [a EXCEPT !.on = Nobody]
    <3>3. a \in JobRecords /\ a.at = "waiting" /\ a.method = job[p].method
          /\ a.table = job[p].table /\ a.attempt = job[p].attempt
      BY <3>1 DEF JobRecords
    <3> HIDE DEF a
    <3>4. b \in JobRecords /\ b.at = "waiting" /\ b.method = job[p].method
          /\ b.table = job[p].table /\ b.on = Nobody /\ b.attempt = job[p].attempt
      BY <3>3 DEF JobRecords
    <3>5. j = [b EXCEPT !.attempt = job[p].attempt + 1]
      BY <2>2, <2>3, <3>1 DEF a, JobRecords
    <3> HIDE DEF b
    <3> QED
      BY <3>2, <3>4, <3>5 DEF JobRecords
  <2> QED
    BY <2>1, <2>3
<1>3. /\ client' \in [Clients -> ClientRecords]
      /\ \A d \in Clients : d # c => client'[d] = client[d]
      /\ c \in Clients => client'[c] = Sql!Unowned
  BY <1>f, <1>1 DEF PoolTypes
<1>4. job' \in [Sql!Parties -> JobRecords] /\ job'[p] = j
        /\ \A q \in Sql!Parties : q # p => job'[q] = job[q]
  BY <1>f, <1>2 DEF PoolTypes
<1>5. /\ \A q \in Sql!Parties : q # p => JobOK(q)'
      /\ \A x \in Txs : x # p => TxOK(x)'
      /\ \A d \in Clients : d # c /\ client[d].owner # p => ClientOK(d)'
  BY <1>1, <1>3, <1>4, PoolOthers
<1>6. JobOK(p)'
  <2>1. Sql!OwnClient(p)' = Sql!OwnClient(p)
    BY PoolJustified DEF Sql!OwnClient
  <2>2. ~OwnWrite(p)'
    BY <1>2, <1>4, <2>1 DEF OwnWrite
  <2>3. transaction'[p] = transaction[p]
    OBVIOUS
  <2> QED
    BY <1>f, <1>2, <1>4, <2>2, <2>3 DEF JobOK
<1>7. p \in Txs => TxOK(p)'
  <2>1. p \in Txs /\ c \in Clients => transaction[p].on # c
    BY <1>f, <1>0 DEF JobOK
  <2> QED
    BY <1>f, <1>1, <1>3, <2>1 DEF TxOK
<1>8. ASSUME NEW d \in Clients, d # c, client[d].owner = p
      PROVE  ClientOK(d)'
  BY <1>0, <1>2, <1>3, <1>4, <1>8, PoolMine
<1>9. ASSUME c \in Clients
      PROVE  ClientOK(c)'
  BY <1>3, <1>9 DEF ClientOK, Sql!Unowned
<1>10. \A d \in Clients : ClientOK(d)'
  BY <1>5, <1>8, <1>9
<1>11. transaction' \in [Txs -> TxRecords]
  BY <1>f DEF PoolTypes
<1> QED
  BY <1>3, <1>4, <1>5, <1>6, <1>7, <1>10, <1>11

\* A call or a transaction asks for a client, or begins to write on its own.
LEMMA PoolAsks ==
  ASSUME Sql!PooledSqlAssumption, PoolIInv, NEW p \in Sql!Parties,
         \/ \E t \in SqlTables : Sql!WriteTable(p, t)
         \/ p \in Txs /\ Sql!BeginTransaction(p)
  PROVE  PoolIInv'
<1> USE PoolNames
<1>f. PoolTypes /\ JobOK(p) /\ (p \in Txs => TxOK(p))
  BY DEF PoolIInv
<1>0. /\ job[p].at = "idle" /\ job[p].on = Nobody /\ client' = client
      /\ UNCHANGED <<database, cached, committed, faults, cascaded>>
  BY <1>f DEF Sql!WriteTable, Sql!BeginTransaction, JobOK
<1>1. /\ transaction' \in [Txs -> TxRecords]
      /\ \A x \in Txs : /\ transaction'[x].on = transaction[x].on
                        /\ transaction'[x].status = transaction[x].status
                        /\ transaction'[x].acted = transaction[x].acted
      /\ \A x \in Txs : x # p => transaction'[x] = transaction[x]
  <2>1. CASE p \in Txs /\ transaction' = [transaction EXCEPT ![p].mark = "none"]
    <3>1. transaction[p] \in TxRecords
            /\ transaction'[p] = [transaction[p] EXCEPT !.mark = "none"]
      BY <1>f, <2>1 DEF PoolTypes
    <3>2. transaction'[p] \in TxRecords
      BY <3>1 DEF TxRecords
    <3>3. /\ transaction'[p].on = transaction[p].on
          /\ transaction'[p].status = transaction[p].status
          /\ transaction'[p].acted = transaction[p].acted
      BY <3>1 DEF TxRecords
    <3> QED
      BY <1>f, <2>1, <3>2, <3>3 DEF PoolTypes
  <2>2. CASE transaction' = transaction
    BY <1>f, <2>2 DEF PoolTypes
  <2> QED
    BY <2>1, <2>2 DEF Sql!WriteTable, Sql!BeginTransaction
<1>2. /\ job' \in [Sql!Parties -> JobRecords] /\ \A q \in Sql!Parties : q # p =>
           job'[q] = job[q]
      /\ writes' \in [Sql!Parties -> 0..MaxWrites]
      /\ job'[p].on = Nobody \/ (p \in Txs /\ job'[p].on = transaction[p].on)
      /\ job'[p].at \in {"waiting", "delete"}
      /\ JobOK(p)'
  <2>0. Sql!OwnClient(p)' = Sql!OwnClient(p)
    BY <1>0, PoolJustified DEF Sql!OwnClient
  <2>1. ASSUME NEW t \in SqlTables, Sql!WriteTable(p, t)
        PROVE  <1>2!:
    <3>1. p \in Txs => /\ transaction[p].status = "open" /\ transaction[p].on \in Clients
                       /\ client[transaction[p].on].owner = p
      BY <1>f, <2>1 DEF Sql!WriteTable, TxOK
    <3>2. writes' \in [Sql!Parties -> 0..MaxWrites]
      <4>1. writes[p] \in 0..MaxWrites /\ writes[p] < MaxWrites /\ MaxWrites \in Nat
        BY <1>f, <2>1 DEF PoolTypes, Sql!WriteTable, Sql!PooledSqlAssumption
      <4>2. writes[p] + 1 \in 0..MaxWrites
        BY <4>1
      <4> QED
        BY <1>f, <2>1, <4>2 DEF PoolTypes, Sql!WriteTable
    <3>3. CASE Sql!OwnClient(p)
      <4>1. job' = [job EXCEPT ![p] = [method |-> "writeTable", table |-> t, attempt |-> 1,
                                       at |-> "delete", on |-> transaction[p].on]]
        BY <2>1, <3>3 DEF Sql!WriteTable
      <4>2. [method |-> "writeTable", table |-> t, attempt |-> 1,
             at |-> "delete", on |-> transaction[p].on] \in JobRecords
        BY <3>1, <3>3 DEF JobRecords, Sql!OwnClient, Sql!PooledSqlAssumption
      <4>3. /\ job' \in [Sql!Parties -> JobRecords] /\ \A q \in Sql!Parties : q # p =>
                 job'[q] = job[q]
            /\ job'[p].method = "writeTable" /\ job'[p].table = t
            /\ job'[p].at = "delete" /\ job'[p].on = transaction[p].on
        BY <1>f, <4>1, <4>2 DEF PoolTypes
      <4>4. p \in Txs /\ OwnWrite(p)'
        BY <2>0, <3>3, <4>3 DEF OwnWrite, Sql!OwnClient
      <4>5. JobOK(p)'
        BY <1>0, <1>1, <3>1, <4>3, <4>4 DEF JobOK
      <4> QED
        BY <3>2, <4>3, <4>4, <4>5
    <3>4. CASE ~Sql!OwnClient(p)
      <4>1. job' = [job EXCEPT ![p] = [method |-> "writeTable", table |-> t, attempt |-> 1,
                                       at |-> "waiting", on |-> Nobody]]
        BY <2>1, <3>4 DEF Sql!WriteTable
      <4>2. [method |-> "writeTable", table |-> t, attempt |-> 1,
             at |-> "waiting", on |-> Nobody] \in JobRecords
        BY DEF JobRecords, Sql!PooledSqlAssumption
      <4>3. /\ job' \in [Sql!Parties -> JobRecords] /\ \A q \in Sql!Parties : q # p =>
                 job'[q] = job[q]
            /\ job'[p].method = "writeTable" /\ job'[p].table = t
            /\ job'[p].at = "waiting" /\ job'[p].on = Nobody
        BY <1>f, <4>1, <4>2 DEF PoolTypes
      <4>4. ~OwnWrite(p)'
        BY <2>0, <3>4 DEF OwnWrite
      <4>5. JobOK(p)'
        BY <1>1, <3>1, <4>3, <4>4 DEF JobOK
      <4> QED
        BY <3>2, <4>3, <4>5
    <3> QED
      BY <3>3, <3>4
  <2>2. ASSUME p \in Txs, Sql!BeginTransaction(p)
        PROVE  <1>2!:
    <3> DEFINE a == [Sql!Idle EXCEPT !.method = "beginTransaction"]
               b == [a EXCEPT !.at = "waiting"]
    <3>1. job' = [job EXCEPT ![p] = [b EXCEPT !.attempt = 1]]
      BY <2>2 DEF Sql!BeginTransaction, Sql!Idle
    <3>2. a \in JobRecords /\ a.method = "beginTransaction" /\ a.on = Nobody
      BY DEF Sql!Idle, JobRecords, Sql!PooledSqlAssumption
    <3> HIDE DEF a
    <3>3. b \in JobRecords /\ b.method = "beginTransaction" /\ b.on = Nobody
            /\ b.at = "waiting"
      BY <3>2 DEF JobRecords
    <3> HIDE DEF b
    <3>4. 1 \in 0..(MaxRetries + 1)
      BY DEF Sql!PooledSqlAssumption
    <3>5. /\ [b EXCEPT !.attempt = 1] \in JobRecords
          /\ [b EXCEPT !.attempt = 1].method = "beginTransaction"
          /\ [b EXCEPT !.attempt = 1].on = Nobody /\ [b EXCEPT !.attempt = 1].at = "waiting"
      BY <3>3, <3>4 DEF JobRecords
    <3>6. /\ job' \in [Sql!Parties -> JobRecords] /\ \A q \in Sql!Parties : q # p =>
               job'[q] = job[q]
          /\ job'[p].method = "beginTransaction"
          /\ job'[p].at = "waiting" /\ job'[p].on = Nobody
      BY <1>f, <3>1, <3>5 DEF PoolTypes
    <3>7. ~OwnWrite(p)'
      BY <3>6 DEF OwnWrite
    <3>8. transaction[p].status = "unused"
      BY <2>2 DEF Sql!BeginTransaction
    <3>9. JobOK(p)'
      BY <1>1, <2>2, <3>6, <3>7, <3>8 DEF JobOK
    <3> QED
      BY <1>f, <2>2, <3>6, <3>9 DEF PoolTypes, Sql!BeginTransaction
  <2> QED
    BY <2>1, <2>2
<1>3. /\ \A q \in Sql!Parties : q # p => JobOK(q)'
      /\ \A x \in Txs : x # p => TxOK(x)'
      /\ \A d \in Clients : d # Nobody /\ client[d].owner # p => ClientOK(d)'
  BY <1>0, <1>1, <1>2, PoolOthers
<1>4. p \in Txs => TxOK(p)'
  BY <1>f, <1>0, <1>1 DEF TxOK
<1>5. ASSUME NEW d \in Clients, client[d].owner = p
      PROVE  ClientOK(d)'
  <2>1. ClientOK(d) /\ job[p].on # d
    BY <1>0 DEF PoolIInv
  <2>2. /\ p \in Txs /\ transaction[p].on = d
        /\ transaction[p].status \in {"open", "unsure", "leaked"}
        /\ \A w \in client[d].saved \cup {client[d].work} : RowsOf(w, p)
        /\ \A w \in client[d].saved : Justified(w)
        /\ ~client[d].aborted => Justified(client[d].work)
    BY <1>5, <2>1 DEF ClientOK
  <2>3. \A s : Sql!Emptied(s)' = Sql!Emptied(s)
    BY <1>0, PoolJustified
  <2>4. (\A w \in client[d].saved : Justified(w))'
    BY <1>0, <2>2, <2>3 DEF Justified
  <2>5. (~client[d].aborted => Justified(client[d].work))'
    BY <1>0, <2>2, <2>3 DEF Justified
  <2>6. job'[p].at \notin {"schema", "insert"} /\ client' = client
    BY <1>0, <1>2
  <2> QED
    BY <1>1, <1>5, <2>2, <2>4, <2>5, <2>6 DEF ClientOK, RowsOf
<1>6. Sql!WholeOrNothing' /\ committed' \in [SqlTables -> Sql!Rows]
        /\ cascaded' \subseteq SqlTables
  BY <1>0, <1>1, PoolUnpublished
<1>7. PoolTypes'
  BY <1>f, <1>0, <1>1, <1>2, <1>6 DEF PoolTypes
<1>8. \A d \in Clients : d # Nobody => ClientOK(d)'
  BY <1>3, <1>5
<1> QED
  BY <1>2, <1>3, <1>4, <1>6, <1>7, <1>8, PoolGather

\* A step with a client that p keeps.
LEMMA PoolAtWork ==
  ASSUME Sql!PooledSqlAssumption, PoolIInv, NEW p \in Sql!Parties,
         NEW c \in Clients, job[p].on = c,
         client' \in [Clients -> ClientRecords], client'[c].owner = p,
         \A d \in Clients : d # c => client'[d] = client[d],
         job' \in [Sql!Parties -> JobRecords], job'[p].on \in {c, Nobody},
         \A q \in Sql!Parties : q # p => job'[q] = job[q],
         UNCHANGED <<database, committed, transaction, writes, cascaded>>,
         cached' \subseteq SqlTables, faults' \in 0..MaxFaults,
         JobOK(p)', ClientOK(c)'
  PROVE  PoolIInv'
<1> USE PoolNames
<1>f. PoolTypes /\ JobOK(p) /\ (p \in Txs => TxOK(p))
  BY DEF PoolIInv
<1>0. client[c].owner = p
  BY <1>f DEF JobOK
<1>1. /\ \A q \in Sql!Parties : q # p => JobOK(q)'
      /\ \A x \in Txs : x # p => TxOK(x)'
      /\ \A d \in Clients : d # c /\ client[d].owner # p => ClientOK(d)'
  BY <1>0, PoolOthers
<1>2. p \in Txs => TxOK(p)'
  BY <1>f, <1>0 DEF TxOK
<1>3. ASSUME NEW d \in Clients, d # c, client[d].owner = p
      PROVE  ClientOK(d)'
  BY <1>3, PoolMine
<1>4. Sql!WholeOrNothing' /\ committed' \in [SqlTables -> Sql!Rows]
        /\ cascaded' \subseteq SqlTables
  BY PoolUnpublished
<1>5. PoolTypes'
  BY <1>f, <1>4 DEF PoolTypes
<1> QED
  BY <1>1, <1>2, <1>3, <1>4, <1>5, PoolGather

\* Where a call that has a client is, and what the client holds.
LEMMA PoolHolds ==
  ASSUME Sql!PooledSqlAssumption, PoolIInv,
         NEW p \in Sql!Parties, job[p].at \notin {"idle", "waiting"}
  PROVE  /\ job[p].on \in Clients /\ client[job[p].on].owner = p
         /\ job[p] \in JobRecords /\ client[job[p].on] \in ClientRecords
         /\ job[p].at # "begin" => job[p].method = "writeTable"
              /\ job[p].table \in SqlTables
         /\ job[p].method = "writeTable" => job[p].table \in SqlTables
         /\ OwnWrite(p) => /\ p \in Txs /\ job[p].on = transaction[p].on
                           /\ transaction[p].status = "open"
                           /\ job[p].at \in {"delete", "insert"}
         /\ \A w \in client[job[p].on].saved \cup {client[job[p].on].work} :
               RowsOf(w, p) /\ w \in Sql!Works
         /\ \A w \in client[job[p].on].saved : Justified(w)
         /\ ~client[job[p].on].aborted =>
               IF job[p].at \in {"schema", "insert"}
               THEN NearlyJustified(client[job[p].on].work, job[p].table)
               ELSE Justified(client[job[p].on].work)
<1> USE PoolNames
<1>f. PoolTypes /\ JobOK(p)
  BY DEF PoolIInv
<1>1. job[p].on \in Clients /\ client[job[p].on].owner = p
  BY <1>f, PoolFields DEF JobOK
<1>2. ClientOK(job[p].on)
  BY <1>1 DEF PoolIInv
<1>3. /\ job[p] \in JobRecords /\ client[job[p].on] \in ClientRecords
      /\ \A w \in client[job[p].on].saved \cup {client[job[p].on].work} : w \in Sql!Works
      /\ job[p].method \in {"none", "writeTable", "beginTransaction"}
  BY <1>f, <1>1, PoolFields
<1>4. /\ job[p].at # "begin" => job[p].method = "writeTable" /\ job[p].table \in SqlTables
      /\ job[p].method = "writeTable" => job[p].table \in SqlTables
  BY <1>f, <1>3 DEF JobOK
<1>5. OwnWrite(p) => /\ p \in Txs /\ job[p].on = transaction[p].on
                     /\ transaction[p].status = "open" /\ job[p].at \in {"delete", "insert"}
  BY <1>f DEF JobOK, OwnWrite, Sql!OwnClient
<1> QED
  BY <1>1, <1>2, <1>3, <1>4, <1>5 DEF ClientOK

\* A write of a postgres transaction fails: the database transaction is aborted.
LEMMA PoolAborts ==
  ASSUME Sql!PooledSqlAssumption, PoolIInv, NEW p \in Sql!Parties, OwnWrite(p),
         client' = [client EXCEPT ![job[p].on].aborted = TRUE],
         job' = [job EXCEPT ![p] = Sql!Idle], faults' \in 0..MaxFaults,
         UNCHANGED <<database, cached, committed, transaction, writes, cascaded>>
  PROVE  PoolIInv'
<1> USE PoolNames
<1>f. PoolTypes /\ JobOK(p)
  BY DEF PoolIInv
<1>0. job[p].at \notin {"idle", "waiting"}
  BY <1>f DEF JobOK, OwnWrite
<1>1. PICK c \in Clients : c = job[p].on
  BY <1>0, PoolHolds
<1>2. /\ client[c] \in ClientRecords /\ client[c].owner = p
      /\ p \in Txs /\ transaction[p].on = c /\ transaction[p].status = "open"
      /\ \A w \in client[c].saved \cup {client[c].work} : RowsOf(w, p)
      /\ \A w \in client[c].saved : Justified(w)
  BY <1>0, <1>1, PoolHolds
<1> DEFINE n == [client[c] EXCEPT !.aborted = TRUE]
<1>3. n \in ClientRecords /\ n.owner = p /\ n.saved = client[c].saved
      /\ n.work = client[c].work /\ n.aborted
  BY <1>2 DEF ClientRecords
<1>4. client' = [client EXCEPT ![c] = n]
  BY <1>1
<1> HIDE DEF n
<1>5. /\ client' \in [Clients -> ClientRecords] /\ client'[c] = n
      /\ \A d \in Clients : d # c => client'[d] = client[d]
  BY <1>f, <1>1, <1>3, <1>4 DEF PoolTypes
<1>6. /\ job' \in [Sql!Parties -> JobRecords] /\ job'[p] = Sql!Idle
      /\ \A q \in Sql!Parties : q # p => job'[q] = job[q]
  BY <1>f DEF PoolTypes
<1>7. /\ Sql!Idle.on = Nobody /\ Sql!Idle.at = "idle" /\ Sql!Idle.method = "none"
  BY DEF Sql!Idle
<1>8. JobOK(p)'
  <2>1. ~OwnWrite(p)'
    BY <1>6, <1>7 DEF OwnWrite
  <2> QED
    BY <1>6, <1>7, <2>1 DEF JobOK
<1>9. ClientOK(c)'
  <2>1. \A s : Sql!Emptied(s)' = Sql!Emptied(s)
    BY PoolJustified
  <2>2. (\A w \in client[c].saved : Justified(w))'
    BY <1>2, <1>3, <1>5, <2>1 DEF Justified
  <2> QED
    BY <1>2, <1>3, <1>5, <2>2 DEF ClientOK, RowsOf
<1>10. cached' \subseteq SqlTables
  BY <1>f DEF PoolTypes
<1> QED
  BY <1>1, <1>3, <1>5, <1>6, <1>7, <1>8, <1>9, <1>10, PoolAtWork

\* COMMIT publishes what is justified; a statement that fails, is refused or waits
\* too long publishes nothing.  Either way the client goes back.
LEMMA PoolEnds ==
  ASSUME Sql!PooledSqlAssumption, PoolIInv, NEW p \in Sql!Parties,
         \/ Sql!Commit(p) \/ Sql!CommitAnswerLost(p)
         \/ \E retryable \in BOOLEAN : Sql!Fail(p, retryable)
         \/ Sql!Refuse(p) \/ Sql!WaitTimesOut(p)
  PROVE  PoolIInv'
<1> USE PoolNames
<1>f. PoolTypes /\ JobOK(p) /\ MaxFaults \in Nat
  BY DEF PoolIInv, Sql!PooledSqlAssumption
<1>n. faults < MaxFaults => faults + 1 \in 0..MaxFaults
  BY <1>f DEF PoolTypes
<1>1. ASSUME NEW j, j = Sql!Idle
               \/ \E retryable \in BOOLEAN : j = Sql!Caught(job[p], retryable),
             ~OwnWrite(p), job[p].at # "idle",
             client' = Sql!GivenBack(p), job' = [job EXCEPT ![p] = j],
             UNCHANGED <<database, cached, transaction, writes>>, faults' \in 0..MaxFaults,
             Sql!WholeOrNothing' /\ committed' \in [SqlTables -> Sql!Rows]
               /\ cascaded' \subseteq SqlTables
      PROVE  PoolIInv'
  <2>1. /\ client' \in [Clients -> ClientRecords] /\ job' \in [Sql!Parties -> JobRecords]
        /\ transaction' \in [Txs -> TxRecords]
        /\ \A q \in Sql!Parties : JobOK(q)'
        /\ \A x \in Txs : TxOK(x)'
        /\ \A d \in Clients : ClientOK(d)'
    BY <1>1, PoolLetGo
  <2>2. PoolTypes'
    BY <1>f, <1>1, <2>1 DEF PoolTypes
  <2> QED
    BY <1>1, <2>1, <2>2 DEF PoolIInv
<1>2. ASSUME job[p].at = "commit", UNCHANGED <<database, transaction>>,
             committed' = Sql!Published(client[job[p].on].work),
             cascaded' = cascaded \cup Sql!SideEffect(client[job[p].on].work)
      PROVE  /\ Sql!WholeOrNothing' /\ committed' \in [SqlTables -> Sql!Rows]
                  /\ cascaded' \subseteq SqlTables
             /\ ~OwnWrite(p)
  <2> DEFINE w == client[job[p].on].work
  <2>1. ~client[job[p].on].aborted
    BY <1>f, <1>2 DEF JobOK
  <2>2. w \in Sql!Works /\ RowsOf(w, p) /\ Justified(w) /\ ~OwnWrite(p)
          /\ job[p].method = "writeTable"
    BY <1>2, <2>1, PoolHolds
  <2>3. Sql!Dialect = "postgres" => p \notin Txs
    BY <1>f, <2>2, PoolDialects DEF OwnWrite, Sql!OwnClient
  <2> HIDE DEF w
  <2>4. committed' = Sql!Published(w) /\ cascaded' = cascaded \cup Sql!SideEffect(w)
    BY <1>2 DEF w
  <2> QED
    BY <1>2, <2>2, <2>3, <2>4, PoolPublish
<1>3. CASE Sql!Commit(p)
  <2>1. /\ job[p].at = "commit" /\ job' = [job EXCEPT ![p] = Sql!Idle]
        /\ UNCHANGED <<database, cached, transaction, faults, writes>>
        /\ committed' = Sql!Published(client[job[p].on].work)
        /\ cascaded' = cascaded \cup Sql!SideEffect(client[job[p].on].work)
    BY <1>3 DEF Sql!Commit
  <2>2. client' = Sql!GivenBack(p)
    BY SMTT(20), <1>3, <2>1, PoolHolds DEF Sql!Commit, Sql!GivenBack
  <2>3. faults' \in 0..MaxFaults
    BY <1>f, <2>1 DEF PoolTypes
  <2> QED
    BY <1>1, <1>2, <2>1, <2>2, <2>3
<1>4. CASE Sql!CommitAnswerLost(p)
  <2>1. /\ job[p].at = "commit" /\ job' = [job EXCEPT ![p] = Sql!Caught(job[p], TRUE)]
        /\ UNCHANGED <<database, cached, transaction, writes>>
        /\ committed' = Sql!Published(client[job[p].on].work)
        /\ cascaded' = cascaded \cup Sql!SideEffect(client[job[p].on].work)
        /\ client' = Sql!GivenBack(p) /\ faults' \in 0..MaxFaults
    BY <1>f, <1>n, <1>4 DEF Sql!CommitAnswerLost, PoolTypes
  <2> QED
    BY <1>1, <1>2, <2>1
<1>5. ASSUME UNCHANGED <<database, committed, transaction, cascaded>>
      PROVE  Sql!WholeOrNothing' /\ committed' \in [SqlTables -> Sql!Rows]
               /\ cascaded' \subseteq SqlTables
  BY <1>5, PoolUnpublished
<1>6. ASSUME NEW retryable \in BOOLEAN, Sql!Fail(p, retryable)
      PROVE  PoolIInv'
  <2>1. /\ job[p].at \notin {"idle", "waiting"} /\ faults' \in 0..MaxFaults
        /\ UNCHANGED <<database, cached, committed, transaction, writes, cascaded>>
    BY <1>n, <1>6 DEF Sql!Fail
  <2>2. CASE OwnWrite(p)
    BY <1>6, <2>1, <2>2, PoolAborts DEF Sql!Fail, OwnWrite
  <2>3. CASE ~OwnWrite(p)
    <3>1. client' = Sql!GivenBack(p)
            /\ job' = [job EXCEPT ![p] = Sql!Caught(job[p], retryable)]
      BY <1>f, <1>6, <2>3 DEF Sql!Fail, OwnWrite, PoolTypes
    <3> QED
      BY <1>1, <1>5, <2>1, <2>3, <3>1
  <2> QED
    BY <2>2, <2>3
<1>7. CASE Sql!Refuse(p)
  <2>1. /\ job[p].at \in {"delete", "insert"} /\ job' = [job EXCEPT ![p] = Sql!Idle]
        /\ UNCHANGED <<database, cached, committed, transaction, faults, writes, cascaded>>
    BY <1>7 DEF Sql!Refuse
  <2>2. job[p].method = "writeTable" /\ faults' \in 0..MaxFaults
    BY <1>f, <2>1, PoolHolds DEF PoolTypes
  <2>3. CASE OwnWrite(p)
    BY <1>7, <2>1, <2>2, <2>3, PoolAborts DEF Sql!Refuse, OwnWrite
  <2>4. CASE ~OwnWrite(p)
    <3>1. client' = Sql!GivenBack(p)
      BY <1>7, <2>2, <2>4 DEF Sql!Refuse, OwnWrite
    <3> QED
      BY <1>1, <1>5, <2>1, <2>2, <2>4, <3>1
  <2> QED
    BY <2>3, <2>4
<1>8. CASE Sql!WaitTimesOut(p)
  <2>1. /\ job[p].at \in {"waiting", "schema"} /\ job' = [job EXCEPT ![p] = Sql!Idle]
        /\ client' = Sql!GivenBack(p)
        /\ UNCHANGED <<database, cached, committed, transaction, faults, writes, cascaded>>
    BY <1>8 DEF Sql!WaitTimesOut
  <2>2. ~OwnWrite(p) /\ faults' \in 0..MaxFaults
    BY <1>f, <2>1 DEF JobOK, PoolTypes
  <2> QED
    BY <1>1, <1>5, <2>1, <2>2
<1> QED
  BY <1>3, <1>4, <1>6, <1>7, <1>8

\* A client the pool has just given out, or of a transaction that has just begun.
LEMMA PoolConnects ==
  ASSUME Sql!PooledSqlAssumption, PoolIInv, NEW p \in Sql!Parties,
         NEW c \in Clients, Sql!Connect(p, c)
  PROVE  PoolIInv'
<1> USE PoolNames
<1>f. PoolTypes /\ JobOK(p) /\ (p \in Txs => TxOK(p))
  BY DEF PoolIInv
<1>0. /\ job[p].at = "waiting" /\ job[p].on = Nobody /\ client[c].owner = Nobody
      /\ client[c] = Sql!Unowned /\ job[p] \in JobRecords /\ ~OwnWrite(p)
      /\ client' = [client EXCEPT ![c].owner = p]
      /\ UNCHANGED <<database, cached, committed, faults, writes, cascaded>>
  <2>1. job[p].at = "waiting" /\ client[c].owner = Nobody
        /\ client' = [client EXCEPT ![c].owner = p]
        /\ UNCHANGED <<database, cached, committed, faults, writes, cascaded>>
    BY DEF Sql!Connect, Sql!Free
  <2>2. ClientOK(c)
    BY DEF PoolIInv
  <2> QED
    BY <1>f, <2>1, <2>2, PoolFields DEF ClientOK, JobOK
<1> DEFINE n == [Sql!Unowned EXCEPT !.owner = p]
<1>1. n \in ClientRecords /\ n.owner = p /\ n.saved = {} /\ n.work = Sql!Clean
        /\ n.aborted = FALSE
  BY DEF Sql!Unowned, ClientRecords
<1>2. /\ client' \in [Clients -> ClientRecords] /\ client'[c] = n
      /\ \A d \in Clients : d # c => client'[d] = client[d]
  BY <1>f, <1>0, <1>1 DEF PoolTypes
<1> HIDE DEF n
<1>3. /\ RowsOf(Sql!Clean, p) /\ (Justified(Sql!Clean))'
  BY DEF RowsOf, Justified, Sql!Clean
<1>4. \A d \in Clients : client[d].owner = p =>
         /\ d # c /\ p \in Txs /\ transaction[p].on = d
         /\ transaction[p].status \in {"open", "unsure", "leaked"}
  <2> SUFFICES ASSUME NEW d \in Clients, client[d].owner = p
               PROVE  /\ d # c /\ p \in Txs /\ transaction[p].on = d
                      /\ transaction[p].status \in {"open", "unsure", "leaked"}
    OBVIOUS
  <2>1. ClientOK(d)
    BY DEF PoolIInv
  <2> QED
    BY <1>0, <2>1 DEF ClientOK
<1>5. CASE job[p].method = "beginTransaction" /\ ~Sql!Transacting.begins
  <2>1. /\ job' = [job EXCEPT ![p] = Sql!Idle]
        /\ transaction' = [transaction EXCEPT ![p] = [@ EXCEPT !.status = "open", !.on = c]]
    BY <1>0, <1>5 DEF Sql!Connect, Sql!Opened
  <2>2. p \in Txs /\ transaction[p].status = "unused" /\ ~transaction[p].acted
        /\ transaction[p] \in TxRecords
    BY <1>f, <1>5, PoolFields DEF JobOK, TxOK
  <2> DEFINE a == [transaction[p] EXCEPT !.status = "open"]
             b == [a EXCEPT !.on = c]
  <2>3. a \in TxRecords /\ a.status = "open" /\ a.acted = transaction[p].acted
    BY <2>2 DEF TxRecords
  <2>4. transaction' = [transaction EXCEPT ![p] = b]
    BY <2>1, <2>2
  <2> HIDE DEF a
  <2>5. b \in TxRecords /\ b.status = "open" /\ b.on = c /\ b.acted = transaction[p].acted
    BY <2>3 DEF TxRecords
  <2> HIDE DEF b
  <2>6. /\ transaction' \in [Txs -> TxRecords] /\ transaction'[p] = b
        /\ \A x \in Txs : x # p => transaction'[x] = transaction[x]
    BY <1>f, <2>2, <2>4, <2>5 DEF PoolTypes
  <2>7. /\ job' \in [Sql!Parties -> JobRecords] /\ job'[p] = Sql!Idle
        /\ \A q \in Sql!Parties : q # p => job'[q] = job[q]
        /\ Sql!Idle.at = "idle" /\ Sql!Idle.method = "none" /\ Sql!Idle.on = Nobody
    BY <1>f, <2>1 DEF PoolTypes, Sql!Idle
  <2>8. /\ \A q \in Sql!Parties : q # p => JobOK(q)'
        /\ \A x \in Txs : x # p => TxOK(x)'
        /\ \A d \in Clients : d # c /\ client[d].owner # p => ClientOK(d)'
    BY <1>0, <1>2, <2>6, <2>7, PoolOthers
  <2>9. \A d \in Clients : client[d].owner # p
    BY <1>4, <2>2
  <2>10. TxOK(p)'
    BY <1>1, <1>2, <2>2, <2>5, <2>6 DEF TxOK
  <2>11. JobOK(p)'
    <3>1. ~OwnWrite(p)'
      BY <2>7 DEF OwnWrite
    <3> QED
      BY <2>7, <3>1 DEF JobOK
  <2>12. ClientOK(c)'
    BY <1>1, <1>2, <1>3, <2>2, <2>5, <2>6, <2>7 DEF ClientOK, RowsOf, Justified
  <2>13. Sql!WholeOrNothing' /\ committed' \in [SqlTables -> Sql!Rows]
           /\ cascaded' \subseteq SqlTables
    BY <1>0, <2>2, <2>5, <2>6, PoolUnpublished
  <2>14. PoolTypes'
    BY <1>f, <1>0, <1>2, <2>6, <2>7, <2>13 DEF PoolTypes
  <2> QED
    BY <2>8, <2>9, <2>10, <2>11, <2>12, <2>13, <2>14, PoolGather
<1>6. CASE ~(job[p].method = "beginTransaction" /\ ~Sql!Transacting.begins)
  <2>1. PICK at \in {"begin", "delete"} :
           /\ job' = [job EXCEPT ![p].on = c, ![p].at = at]
           /\ at = "delete" => job[p].method = "writeTable"
           /\ transaction' = transaction
    BY <1>6 DEF Sql!Connect
  <2> DEFINE a == [job[p] EXCEPT !.on = c]
             b == [a EXCEPT !.at = at]
  <2>2. a \in JobRecords /\ a.on = c /\ a.method = job[p].method /\ a.table = job[p].table
    BY <1>0 DEF JobRecords
  <2>3. job' = [job EXCEPT ![p] = b]
    BY <1>f, <2>1 DEF PoolTypes
  <2> HIDE DEF a
  <2>4. b \in JobRecords /\ b.on = c /\ b.at = at /\ b.method = job[p].method
        /\ b.table = job[p].table
    BY <2>1, <2>2 DEF JobRecords
  <2> HIDE DEF b
  <2>5. /\ job' \in [Sql!Parties -> JobRecords] /\ job'[p] = b
        /\ \A q \in Sql!Parties : q # p => job'[q] = job[q]
    BY <1>f, <2>3, <2>4 DEF PoolTypes
  <2>6. transaction' \in [Txs -> TxRecords]
          /\ \A x \in Txs : transaction'[x] = transaction[x]
    BY <1>f, <2>1 DEF PoolTypes
  <2>7. /\ \A q \in Sql!Parties : q # p => JobOK(q)'
        /\ \A x \in Txs : x # p => TxOK(x)'
        /\ \A d \in Clients : d # c /\ client[d].owner # p => ClientOK(d)'
    BY <1>0, <1>2, <2>5, <2>6, PoolOthers
  <2>8. p \in Txs => TxOK(p)'
    BY <1>f, <1>0, <1>2, <2>6 DEF TxOK
  <2>9. p \in Txs => transaction[p].on # c
    <3>1. job[p].method \in {"none", "writeTable", "beginTransaction"}
      BY <1>f, PoolFields
    <3>2. p \in Txs => transaction[p].status \in {"open", "unused"}
      BY <1>f, <1>0, <3>1 DEF JobOK
    <3> QED
      BY <1>f, <1>0, <3>2 DEF TxOK
  <2>10. JobOK(p)'
    <3>1. ~OwnWrite(p)'
      BY <1>0, <2>4, <2>5, PoolJustified DEF OwnWrite, Sql!OwnClient
    <3>2. job[p].method # "none"
      BY <1>f, <1>0 DEF JobOK
    <3> QED
      BY <1>f, <1>1, <1>2, <2>1, <2>4, <2>5, <2>6, <2>9, <3>1, <3>2 DEF JobOK
  <2>11. ClientOK(c)'
    BY <1>1, <1>2, <1>3, <2>1, <2>4, <2>5 DEF ClientOK, RowsOf, Justified
  <2>12. ASSUME NEW d \in Clients, d # c, client[d].owner = p
         PROVE  ClientOK(d)'
    BY <1>0, <1>2, <2>4, <2>5, <2>6, <2>12, PoolMine
  <2>13. Sql!WholeOrNothing' /\ committed' \in [SqlTables -> Sql!Rows]
           /\ cascaded' \subseteq SqlTables
    BY <1>0, <2>6, PoolUnpublished
  <2>14. PoolTypes'
    BY <1>f, <1>0, <1>2, <2>5, <2>6, <2>13 DEF PoolTypes
  <2> QED
    BY <2>7, <2>8, <2>10, <2>11, <2>12, <2>13, <2>14, PoolGather
<1> QED
  BY <1>5, <1>6

\* The call is at another statement; what its client holds is not touched.
LEMMA PoolProceeds ==
  ASSUME Sql!PooledSqlAssumption, PoolIInv, NEW p \in Sql!Parties, Sql!GetSchema(p)
           \/ Sql!Begin(p)
  PROVE  PoolIInv'
<1> USE PoolNames
<1>f. PoolTypes /\ JobOK(p) /\ (p \in Txs => TxOK(p))
  BY DEF PoolIInv
<1>0. /\ job[p].at \in {"schema", "begin"} /\ client' = client
      /\ UNCHANGED <<database, committed, faults, writes, cascaded>>
  BY DEF Sql!GetSchema, Sql!Begin
<1>1. PICK c \in Clients : c = job[p].on
  BY <1>0, PoolHolds
<1>2. /\ client[c].owner = p /\ job[p] \in JobRecords /\ ~OwnWrite(p)
      /\ client' \in [Clients -> ClientRecords] /\ faults' \in 0..MaxFaults
      /\ \A w \in client[c].saved \cup {client[c].work} : RowsOf(w, p)
      /\ \A w \in client[c].saved : Justified(w)
      /\ ~client[c].aborted =>
            IF job[p].at \in {"schema", "insert"}
            THEN NearlyJustified(client[c].work, job[p].table)
            ELSE Justified(client[c].work)
  BY <1>f, <1>0, <1>1, PoolHolds DEF PoolTypes
<1>3. \A s : Sql!Emptied(s)' = Sql!Emptied(s)
  BY <1>0, PoolJustified
<1>4. (\A w \in client[c].saved : Justified(w))'
  BY <1>0, <1>2, <1>3 DEF Justified
<1>5. CASE Sql!Begin(p) /\ job[p].method = "beginTransaction"
  <2>1. /\ job[p].at = "begin" /\ job' = [job EXCEPT ![p] = Sql!Idle] /\ cached' = cached
        /\ transaction' = [transaction EXCEPT ![p] = [@ EXCEPT !.status = "open", !.on = c]]
    BY <1>1, <1>5 DEF Sql!Begin, Sql!Opened
  <2>2. p \in Txs /\ transaction[p].status = "unused" /\ ~transaction[p].acted
        /\ transaction[p] \in TxRecords
    BY <1>f, <1>5, PoolFields DEF JobOK, TxOK
  <2> DEFINE a == [transaction[p] EXCEPT !.status = "open"]
             b == [a EXCEPT !.on = c]
  <2>3. a \in TxRecords /\ a.status = "open" /\ a.acted = transaction[p].acted
    BY <2>2 DEF TxRecords
  <2>4. transaction' = [transaction EXCEPT ![p] = b]
    BY <2>1, <2>2
  <2> HIDE DEF a
  <2>5. b \in TxRecords /\ b.status = "open" /\ b.on = c /\ b.acted = transaction[p].acted
    BY <1>1, <2>3 DEF TxRecords
  <2> HIDE DEF b
  <2>6. /\ transaction' \in [Txs -> TxRecords] /\ transaction'[p] = b
        /\ \A x \in Txs : x # p => transaction'[x] = transaction[x]
    BY <1>f, <2>2, <2>4, <2>5 DEF PoolTypes
  <2>7. /\ job' \in [Sql!Parties -> JobRecords] /\ job'[p] = Sql!Idle
        /\ \A q \in Sql!Parties : q # p => job'[q] = job[q]
        /\ Sql!Idle.at = "idle" /\ Sql!Idle.method = "none" /\ Sql!Idle.on = Nobody
    BY <1>f, <2>1 DEF PoolTypes, Sql!Idle
  <2>8. /\ \A q \in Sql!Parties : q # p => JobOK(q)'
        /\ \A x \in Txs : x # p => TxOK(x)'
        /\ \A d \in Clients : d # c /\ client[d].owner # p => ClientOK(d)'
    BY <1>0, <1>2, <2>6, <2>7, PoolOthers
  <2>9. \A d \in Clients : d # c => client[d].owner # p
    <3> SUFFICES ASSUME NEW d \in Clients, d # c, client[d].owner = p
                 PROVE  FALSE
      OBVIOUS
    <3>1. ClientOK(d)
      BY DEF PoolIInv
    <3> QED
      BY <1>1, <2>2, <3>1 DEF ClientOK
  <2>10. TxOK(p)'
    BY <1>0, <1>1, <1>2, <2>2, <2>5, <2>6 DEF TxOK
  <2>11. JobOK(p)'
    <3>1. ~OwnWrite(p)'
      BY <2>7 DEF OwnWrite
    <3> QED
      BY <2>7, <3>1 DEF JobOK
  <2>12. (~client[c].aborted => Justified(client[c].work))'
    BY <1>0, <1>2, <1>3, <2>1 DEF Justified
  <2>13. ClientOK(c)'
    BY <1>0, <1>1, <1>2, <1>4, <2>2, <2>5, <2>6, <2>7, <2>12 DEF ClientOK, RowsOf
  <2>14. Sql!WholeOrNothing' /\ committed' \in [SqlTables -> Sql!Rows]
           /\ cascaded' \subseteq SqlTables
    BY <1>0, <2>2, <2>5, <2>6, PoolUnpublished
  <2>15. PoolTypes'
    BY <1>f, <1>0, <1>2, <2>1, <2>6, <2>7, <2>14 DEF PoolTypes
  <2> QED
    BY <2>8, <2>9, <2>10, <2>11, <2>13, <2>14, <2>15, PoolGather
<1>6. CASE ~(Sql!Begin(p) /\ job[p].method = "beginTransaction")
  <2>1. PICK at \in {"delete", "insert"} :
           /\ job' = [job EXCEPT ![p].at = at] /\ transaction' = transaction
           /\ at = "insert" <=> job[p].at = "schema"
    BY <1>6 DEF Sql!GetSchema, Sql!Begin
  <2>2. job[p].method = "writeTable" /\ job[p].table \in SqlTables
    <3>1. CASE job[p].at = "schema"
      BY <3>1, PoolHolds
    <3>2. CASE job[p].at # "schema"
      <4>1. job[p].at = "begin" /\ Sql!Begin(p)
        BY <1>0, <3>2 DEF Sql!GetSchema
      <4>2. job[p].method # "none"
              /\ job[p].method \in {"none", "writeTable", "beginTransaction"}
        BY <1>f, <4>1, PoolFields DEF JobOK
      <4> QED
        BY <1>6, <4>1, <4>2, PoolHolds
    <3> QED
      BY <3>1, <3>2
  <2> DEFINE b == [job[p] EXCEPT !.at = at]
  <2>3. b \in JobRecords /\ b.on = c /\ b.at = at /\ b.method = job[p].method
        /\ b.table = job[p].table
    BY <1>1, <1>2, <2>1 DEF JobRecords
  <2>4. job' = [job EXCEPT ![p] = b]
    BY <2>1
  <2> HIDE DEF b
  <2>5. /\ job' \in [Sql!Parties -> JobRecords] /\ job'[p] = b
        /\ \A q \in Sql!Parties : q # p => job'[q] = job[q]
    BY <1>f, <2>3, <2>4 DEF PoolTypes
  <2>6. JobOK(p)'
    <3>1. ~OwnWrite(p)'
      BY <1>0, <1>2, <2>3, <2>5, PoolJustified DEF OwnWrite, Sql!OwnClient
    <3> QED
      BY <1>f, <1>0, <1>1, <1>2, <2>1, <2>2, <2>3, <2>5, <3>1 DEF JobOK
  <2>7. ASSUME at = "insert"
        PROVE  ClientOK(c)'
    <3>1. (~client[c].aborted => NearlyJustified(client[c].work, job[p].table))'
      BY <1>0, <1>2, <1>3, <2>1, <2>3, <2>5, <2>7 DEF NearlyJustified
    <3> QED
      BY <1>0, <1>2, <1>4, <2>3, <2>5, <2>7, <3>1 DEF ClientOK, RowsOf
  <2>8. ASSUME at = "delete"
        PROVE  ClientOK(c)'
    <3>1. (~client[c].aborted => Justified(client[c].work))'
      BY <1>0, <1>2, <1>3, <2>1, <2>8 DEF Justified
    <3> QED
      BY <1>0, <1>2, <1>4, <2>3, <2>5, <2>8, <3>1 DEF ClientOK, RowsOf
  <2>9. ClientOK(c)' /\ cached' \subseteq SqlTables
    BY <1>f, <2>1, <2>2, <2>7, <2>8 DEF Sql!GetSchema, Sql!Begin, PoolTypes
  <2> QED
    BY <1>0, <1>1, <1>2, <2>1, <2>3, <2>5, <2>6, <2>9, PoolAtWork
<1> QED
  BY <1>5, <1>6

\* Rows are deleted, and are inserted again.
LEMMA PoolWrites ==
  ASSUME Sql!PooledSqlAssumption, PoolIInv, NEW p \in Sql!Parties, Sql!Delete(p)
           \/ Sql!Insert(p)
  PROVE  PoolIInv'
<1> USE PoolNames
<1>f. PoolTypes /\ JobOK(p) /\ (p \in Txs => TxOK(p))
  BY DEF PoolIInv
<1>0. /\ job[p].at \in {"delete", "insert"}
      /\ UNCHANGED <<database, cached, committed, transaction, faults, writes, cascaded>>
  BY DEF Sql!Delete, Sql!Insert
<1>1. PICK c \in Clients : c = job[p].on
  BY <1>0, PoolHolds
<1>2. PICK t \in SqlTables : t = job[p].table
  BY <1>0, PoolHolds
<1>3. /\ client[c] \in ClientRecords /\ client[c].owner = p /\ job[p] \in JobRecords
      /\ job[p].method = "writeTable"
      /\ OwnWrite(p) => /\ p \in Txs /\ transaction[p].on = c
           /\ transaction[p].status = "open"
      /\ \A w \in client[c].saved \cup {client[c].work} : RowsOf(w, p) /\ w \in Sql!Works
      /\ \A w \in client[c].saved : Justified(w)
      /\ ~client[c].aborted =>
            IF job[p].at \in {"schema", "insert"}
            THEN NearlyJustified(client[c].work, t)
            ELSE Justified(client[c].work)
  BY <1>0, <1>1, <1>2, PoolHolds
<1>4. cached' \subseteq SqlTables /\ faults' \in 0..MaxFaults
        /\ Sql!OwnClient(p)' = Sql!OwnClient(p)
  BY <1>f, <1>0, PoolJustified DEF PoolTypes, Sql!OwnClient
<1>5. \A s : Sql!Emptied(s)' = Sql!Emptied(s)
  BY <1>0, PoolJustified
<1>6. (\A w \in client[c].saved : Justified(w))'
      <=> \A w \in client'[c].saved : \A s \in SqlTables : w[s] = Empty =>
             \E u \in SqlTables : w[u] \in Sql!Parties /\ s \in Sql!Emptied(u)
  BY <1>5 DEF Justified
<1>7. ASSUME NEW work \in Sql!Works, client' = [client EXCEPT ![c].work = work],
               RowsOf(work, p)
      PROVE  /\ client' \in [Clients -> ClientRecords] /\ client'[c].owner = p
             /\ client'[c].work = work /\ client'[c].aborted = client[c].aborted
             /\ client'[c].saved = client[c].saved
             /\ \A d \in Clients : d # c => client'[d] = client[d]
             /\ \A w \in client'[c].saved \cup {client'[c].work} : RowsOf(w, p)
             /\ (\A w \in client[c].saved : Justified(w))'
  <2> DEFINE n == [client[c] EXCEPT !.work = work]
  <2>1. n \in ClientRecords /\ n.owner = p /\ n.saved = client[c].saved
        /\ n.work = work /\ n.aborted = client[c].aborted
    BY <1>3 DEF ClientRecords
  <2>2. client' = [client EXCEPT ![c] = n]
    BY <1>7
  <2> HIDE DEF n
  <2>3. /\ client' \in [Clients -> ClientRecords] /\ client'[c] = n
        /\ \A d \in Clients : d # c => client'[d] = client[d]
    BY <1>f, <1>1, <2>1, <2>2 DEF PoolTypes
  <2>4. \A w \in client'[c].saved \cup {client'[c].work} : RowsOf(w, p)
    BY <1>3, <1>7, <2>1, <2>3
  <2>5. (\A w \in client[c].saved : Justified(w))'
    BY <1>3, <1>6, <2>1, <2>3 DEF Justified
  <2> QED
    BY <2>1, <2>3, <2>4, <2>5
<1>8. ASSUME NEW at \in {"schema", "insert", "commit"}, job' = [job EXCEPT ![p].at = at]
      PROVE  /\ job' \in [Sql!Parties -> JobRecords] /\ job'[p].on = c /\ job'[p].at = at
             /\ job'[p].method = "writeTable" /\ job'[p].table = t
             /\ \A q \in Sql!Parties : q # p => job'[q] = job[q]
  <2> DEFINE b == [job[p] EXCEPT !.at = at]
  <2>1. b \in JobRecords /\ b.on = c /\ b.at = at /\ b.method = "writeTable" /\ b.table = t
    BY <1>1, <1>2, <1>3 DEF JobRecords
  <2>2. job' = [job EXCEPT ![p] = b]
    BY <1>8
  <2> HIDE DEF b
  <2> QED
    BY <1>f, <2>1, <2>2 DEF PoolTypes
<1>9. CASE Sql!Delete(p)
  <2>1. /\ job[p].at = "delete" /\ ~client[c].aborted /\ Justified(client[c].work)
        /\ job' = [job EXCEPT ![p].at = IF Sql!Writing.asks THEN "schema" ELSE "insert"]
        /\ client' = [client EXCEPT ![c].work =
                         [s \in SqlTables |-> IF s \in Sql!Emptied(t) THEN Empty ELSE @[s]]]
    BY <1>1, <1>2, <1>3, <1>9 DEF Sql!Delete
  <2> DEFINE work == [s \in SqlTables |-> IF s \in Sql!Emptied(t) THEN Empty ELSE client[c].work[s]]
             at == IF Sql!Writing.asks THEN "schema" ELSE "insert"
  <2>2. work \in Sql!Works /\ RowsOf(work, p)
    BY <1>3 DEF Sql!Works, RowsOf, Sql!Rows
  <2>3. client' = [client EXCEPT ![c].work = work]
    BY <2>1
  <2>4. NearlyJustified(work, t)
    <3> SUFFICES ASSUME NEW s \in SqlTables, work[s] = Empty, s \notin Sql!Emptied(t)
                 PROVE  \E u \in SqlTables : work[u] \in Sql!Parties /\ s \in Sql!Emptied(u)
      BY DEF NearlyJustified
    <3>1. client[c].work[s] = Empty
      OBVIOUS
    <3>2. PICK u \in SqlTables : client[c].work[u] \in Sql!Parties /\ s \in Sql!Emptied(u)
      BY <2>1, <3>1 DEF Justified
    <3>3. u \notin Sql!Emptied(t)
      BY <3>2, PoolEmptied
    <3> QED
      BY <3>2, <3>3
  <2> HIDE DEF work
  <2>5. /\ client' \in [Clients -> ClientRecords] /\ client'[c].owner = p
        /\ client'[c].work = work
        /\ \A d \in Clients : d # c => client'[d] = client[d]
        /\ \A w \in client'[c].saved \cup {client'[c].work} : RowsOf(w, p)
        /\ (\A w \in client[c].saved : Justified(w))'
    BY <1>7, <2>2, <2>3
  <2>6. at \in {"schema", "insert", "commit"} /\ job' = [job EXCEPT ![p].at = at]
    BY <2>1
  <2>7. at # "insert" => Sql!Writing.asks
    OBVIOUS
  <2> HIDE DEF at
  <2>8. /\ job' \in [Sql!Parties -> JobRecords] /\ job'[p].on = c /\ job'[p].at = at
        /\ job'[p].method = "writeTable" /\ job'[p].table = t
        /\ \A q \in Sql!Parties : q # p => job'[q] = job[q]
    BY <1>8, <2>6
  <2>9. OwnWrite(p)' => OwnWrite(p) /\ at = "insert"
    <3>1. OwnWrite(p)' => OwnWrite(p) /\ Sql!Transacting.own
      BY <1>3, <1>4 DEF OwnWrite, Sql!OwnClient
    <3>2. Sql!Transacting.own => ~Sql!Writing.asks
      BY <1>f, PoolDialects
    <3> QED
      BY <2>7, <3>1, <3>2
  <2>10. ~OwnWrite(p)' => ~OwnWrite(p)
    BY <1>4, <2>8 DEF OwnWrite
  <2>11. at # "commit"
    BY <2>7 DEF at
  <2>12. JobOK(p)'
    BY <1>f, <1>0, <1>1, <1>3, <2>5, <2>6, <2>8, <2>9, <2>10, <2>11 DEF JobOK
  <2>13. (NearlyJustified(client[c].work, job[p].table))'
    BY <1>5, <2>4, <2>5, <2>8 DEF NearlyJustified
  <2>14. ClientOK(c)'
    BY <2>5, <2>6, <2>8, <2>11, <2>13 DEF ClientOK
  <2> QED
    BY <1>0, <1>1, <1>4, <2>5, <2>8, <2>12, <2>14, PoolAtWork
<1>10. CASE Sql!Insert(p)
  <2>1. /\ job[p].at = "insert" /\ ~client[c].aborted /\ NearlyJustified(client[c].work, t)
        /\ job' = [job EXCEPT ![p] = IF Sql!OwnClient(p) THEN Sql!Idle ELSE [@ EXCEPT !.at = "commit"]]
        /\ client' = [client EXCEPT ![c].work[t] = p]
    BY <1>1, <1>2, <1>3, <1>10 DEF Sql!Insert
  <2> DEFINE work == [client[c].work EXCEPT ![t] = p]
  <2>2. client[c].work \in [SqlTables -> Sql!Rows \cup {Untouched}]
          /\ RowsOf(client[c].work, p)
    BY <1>3 DEF Sql!Works
  <2>3. work \in Sql!Works /\ RowsOf(work, p)
    BY <2>2 DEF Sql!Works, RowsOf, Sql!Rows
  <2>4. client' = [client EXCEPT ![c].work = work]
    BY <2>1
  <2>5. ASSUME NEW s \in SqlTables, work[s] = Empty
        PROVE  \E u \in SqlTables : work[u] \in Sql!Parties /\ s \in Sql!Emptied(u)
    <3>1. s # t /\ client[c].work[s] = Empty
      BY <2>2, <2>5
    <3>2. work[t] = p
      BY <2>2
    <3>3. CASE s \in Sql!Emptied(t)
      BY <3>2, <3>3
    <3>4. CASE s \notin Sql!Emptied(t)
      <4>1. PICK u \in SqlTables : client[c].work[u] \in Sql!Parties /\ s \in Sql!Emptied(u)
        BY <2>1, <3>1, <3>4 DEF NearlyJustified
      <4>2. work[u] \in Sql!Parties
        BY <2>2, <4>1
      <4> QED
        BY <4>1, <4>2
    <3> QED
      BY <3>3, <3>4
  <2> HIDE DEF work
  <2>6. /\ client' \in [Clients -> ClientRecords] /\ client'[c].owner = p
        /\ client'[c].work = work /\ client'[c].aborted = client[c].aborted
        /\ \A d \in Clients : d # c => client'[d] = client[d]
        /\ \A w \in client'[c].saved \cup {client'[c].work} : RowsOf(w, p)
        /\ (\A w \in client[c].saved : Justified(w))'
    BY <1>7, <2>3, <2>4
  <2>7. (Justified(client[c].work))'
    BY <1>5, <2>5, <2>6 DEF Justified
  <2>8. CASE Sql!OwnClient(p)
    <3>1. OwnWrite(p)
      BY <1>3, <2>8 DEF OwnWrite
    <3>2. /\ job' \in [Sql!Parties -> JobRecords] /\ job'[p] = Sql!Idle
          /\ \A q \in Sql!Parties : q # p => job'[q] = job[q]
          /\ Sql!Idle.at = "idle" /\ Sql!Idle.method = "none" /\ Sql!Idle.on = Nobody
      BY <1>f, <2>1, <2>8 DEF PoolTypes, Sql!Idle
    <3>3. ~OwnWrite(p)'
      BY <3>2 DEF OwnWrite
    <3>4. JobOK(p)'
      BY <3>2, <3>3 DEF JobOK
    <3>5. ClientOK(c)'
      BY <1>0, <1>3, <2>6, <2>7, <3>1, <3>2 DEF ClientOK
    <3> QED
      BY <1>0, <1>1, <1>4, <2>6, <3>2, <3>4, <3>5, PoolAtWork
  <2>9. CASE ~Sql!OwnClient(p)
    <3>1. job' = [job EXCEPT ![p].at = "commit"]
      BY <2>1, <2>9
    <3>2. /\ job' \in [Sql!Parties -> JobRecords] /\ job'[p].on = c /\ job'[p].at = "commit"
          /\ job'[p].method = "writeTable" /\ job'[p].table = t
          /\ \A q \in Sql!Parties : q # p => job'[q] = job[q]
      BY <1>8, <3>1
    <3>3. ~OwnWrite(p)' /\ ~OwnWrite(p)
      BY <1>4, <2>9 DEF OwnWrite
    <3>4. JobOK(p)'
      BY <1>f, <1>0, <1>1, <1>3, <2>1, <2>6, <3>2, <3>3 DEF JobOK
    <3>5. ClientOK(c)'
      BY <2>6, <2>7, <3>2 DEF ClientOK
    <3> QED
      BY <1>0, <1>1, <1>4, <2>6, <3>2, <3>4, <3>5, PoolAtWork
  <2> QED
    BY <2>8, <2>9
<1> QED
  BY <1>9, <1>10

\* A step of a transaction driver, about the one client of its transaction.
LEMMA PoolInTransaction ==
  ASSUME Sql!PooledSqlAssumption, PoolIInv, NEW x \in Txs, NEW c \in Clients,
         job[x].at = "idle", transaction[x].on = c, client[c].owner = x,
         client' \in [Clients -> ClientRecords],
         \A d \in Clients : d # c => client'[d] = client[d],
         transaction' \in [Txs -> TxRecords],
         \A y \in Txs : y # x => transaction'[y] = transaction[y],
         UNCHANGED <<database, cached, job, writes>>, faults' \in 0..MaxFaults,
         Sql!WholeOrNothing' /\ committed' \in [SqlTables -> Sql!Rows]
           /\ cascaded' \subseteq SqlTables,
         TxOK(x)', ClientOK(c)'
  PROVE  PoolIInv'
<1> USE PoolNames
<1>f. PoolTypes /\ x \in Sql!Parties /\ JobOK(x)
  BY DEF PoolIInv
<1>1. /\ \A q \in Sql!Parties : q # x => JobOK(q)'
      /\ \A y \in Txs : y # x => TxOK(y)'
      /\ \A d \in Clients : d # c /\ client[d].owner # x => ClientOK(d)'
  BY <1>f, PoolOthers
<1>2. JobOK(x)'
  <2>1. ~OwnWrite(x) /\ ~OwnWrite(x)'
    BY <1>f DEF OwnWrite, JobOK
  <2> QED
    BY <1>f, <2>1 DEF JobOK
<1>3. \A d \in Clients : d # c => client[d].owner # x
  <2> SUFFICES ASSUME NEW d \in Clients, d # c, client[d].owner = x
               PROVE  FALSE
    OBVIOUS
  <2>1. ClientOK(d)
    BY DEF PoolIInv
  <2>2. job[x].on = Nobody
    BY <1>f DEF JobOK
  <2> QED
    BY <1>f, <2>1, <2>2 DEF ClientOK
<1>4. PoolTypes'
  BY <1>f DEF PoolTypes
<1> QED
  BY <1>f, <1>1, <1>2, <1>3, <1>4, PoolGather

\* What a transaction driver that is ready has.
LEMMA PoolReady ==
  ASSUME Sql!PooledSqlAssumption, PoolIInv, NEW x \in Txs, Sql!Ready(x, "open")
           \/ Sql!Ready(x, "unsure")
  PROVE  /\ x \in Sql!Parties /\ job[x].at = "idle" /\ transaction[x] \in TxRecords
         /\ transaction[x].on \in Clients /\ client[transaction[x].on].owner = x
         /\ client[transaction[x].on] \in ClientRecords
         /\ \A w \in client[transaction[x].on].saved \cup {client[transaction[x].on].work} :
               RowsOf(w, x) /\ w \in Sql!Works
         /\ \A w \in client[transaction[x].on].saved : Justified(w)
         /\ ~client[transaction[x].on].aborted => Justified(client[transaction[x].on].work)
         /\ Sql!Ready(x, "open") => ~transaction[x].acted
<1> USE PoolNames
<1>1. PoolTypes /\ TxOK(x) /\ JobOK(x) /\ x \in Sql!Parties
  BY DEF PoolIInv
<1>2. /\ job[x].at = "idle" /\ job[x].on = Nobody
      /\ transaction[x].on \in Clients /\ client[transaction[x].on].owner = x
      /\ Sql!Ready(x, "open") => ~transaction[x].acted
  BY <1>1 DEF Sql!Ready, TxOK, JobOK
<1>3. ClientOK(transaction[x].on)
  BY <1>2 DEF PoolIInv
<1> QED
  BY <1>1, <1>2, <1>3, PoolFields DEF ClientOK

\* A transaction ends, and its client goes back or is kept, empty.
LEMMA PoolTxOver ==
  ASSUME Sql!PooledSqlAssumption, PoolIInv, NEW x \in Txs, Sql!Ready(x, "open")
           \/ Sql!Ready(x, "unsure"),
         NEW status \in {"unsure", "committed", "rolledback", "leaked"},
         NEW acted \in BOOLEAN,
         NEW n, client' = [client EXCEPT ![transaction[x].on] = n],
         n = Sql!Unowned \/ (n = [Sql!Unowned EXCEPT !.owner = x]
           /\ status \in {"unsure", "leaked"}),
         n = Sql!Unowned => status \in {"committed", "rolledback"},
         Sql!Ended(x, status, acted),
         UNCHANGED <<database, cached, job, writes>>, faults' \in 0..MaxFaults,
         transaction'[x].acted = acted =>
            Sql!WholeOrNothing' /\ committed' \in [SqlTables -> Sql!Rows]
              /\ cascaded' \subseteq SqlTables
  PROVE  PoolIInv'
<1> USE PoolNames
<1>f. PoolTypes /\ x \in Sql!Parties
  BY DEF PoolIInv
<1>1. PICK c \in Clients : c = transaction[x].on
  BY PoolReady
<1>2. client[c].owner = x /\ job[x].at = "idle" /\ transaction[x] \in TxRecords
  BY <1>1, PoolReady
<1> DEFINE a == [transaction[x] EXCEPT !.status = status]
           b == [a EXCEPT !.acted = acted]
           m == IF transaction[x].mark = "undone" THEN transaction[x].mark ELSE "none"
<1>3. a \in TxRecords /\ a.status = status /\ a.on = c /\ a.mark = transaction[x].mark
  BY <1>1, <1>2 DEF TxRecords
<1>4. transaction' = [transaction EXCEPT ![x] = [b EXCEPT !.mark = m]]
  <2>1. transaction' = [transaction EXCEPT ![x].status = status, ![x].acted = acted,
                                           ![x].mark = m]
    BY DEF Sql!Ended
  <2>2. transaction \in [Txs -> TxRecords]
    BY <1>f DEF PoolTypes
  <2> QED
    BY <1>2, <2>1, <2>2 DEF TxRecords
<1>m. m \in {"none", "made", "undone"}
  OBVIOUS
<1> HIDE DEF a, m
<1>5. b \in TxRecords /\ b.status = status /\ b.on = c /\ b.acted = acted
  BY <1>3 DEF TxRecords
<1> HIDE DEF b
<1>6. /\ [b EXCEPT !.mark = m] \in TxRecords /\ [b EXCEPT !.mark = m].status = status
      /\ [b EXCEPT !.mark = m].on = c /\ [b EXCEPT !.mark = m].acted = acted
  BY <1>5, <1>m DEF TxRecords
<1>7. /\ transaction' \in [Txs -> TxRecords]
      /\ transaction'[x].status = status /\ transaction'[x].on = c
      /\ transaction'[x].acted = acted
      /\ \A y \in Txs : y # x => transaction'[y] = transaction[y]
  BY <1>f, <1>4, <1>6 DEF PoolTypes
<1>8. /\ n \in ClientRecords /\ n.work = Sql!Clean /\ n.saved = {}
      /\ n.owner = x \/ n = Sql!Unowned
      /\ status \in {"unsure", "leaked"} => n.owner = x
      /\ n.owner = x => status \in {"unsure", "leaked"}
  <2>1. CASE n = Sql!Unowned
    BY <1>f, <2>1 DEF Sql!Unowned, ClientRecords
  <2>2. CASE n # Sql!Unowned
    BY <1>f, <2>2 DEF Sql!Unowned, ClientRecords
  <2> QED
    BY <2>1, <2>2
<1>9. /\ client' \in [Clients -> ClientRecords] /\ client'[c] = n
      /\ \A d \in Clients : d # c => client'[d] = client[d]
  BY <1>f, <1>1, <1>8 DEF PoolTypes
<1>10. RowsOf(Sql!Clean, x) /\ (Justified(Sql!Clean))'
  BY DEF RowsOf, Justified, Sql!Clean
<1>11. TxOK(x)'
  BY <1>1, <1>7, <1>8, <1>9 DEF TxOK
<1>12. job'[x].on = Nobody
  BY <1>2 DEF PoolIInv, JobOK
<1>13. ClientOK(c)'
  <2>1. CASE n = Sql!Unowned
    BY <1>9, <2>1 DEF ClientOK, Sql!Unowned
  <2>2. CASE n # Sql!Unowned
    <3>1. n.owner = x /\ status \in {"unsure", "leaked"}
      BY <1>8, <2>2
    <3> QED
      BY <1>f, <1>7, <1>8, <1>9, <1>10, <1>12, <3>1 DEF ClientOK, RowsOf, Justified
  <2> QED
    BY <2>1, <2>2
<1> QED
  BY <1>1, <1>2, <1>7, <1>9, <1>11, <1>13, PoolInTransaction

\* Commit and rollback, that succeed or reject.
LEMMA PoolTxEnds ==
  ASSUME Sql!PooledSqlAssumption, PoolIInv, NEW x \in Txs,
         \/ Sql!TxCommit(x) \/ Sql!TxRollback(x) \/ Sql!TxRollbackRejects(x)
         \/ \E effective \in BOOLEAN : Sql!TxCommitRejects(x, effective)
  PROVE  PoolIInv'
<1> USE PoolNames
<1>f. PoolTypes /\ MaxFaults \in Nat
  BY DEF PoolIInv, Sql!PooledSqlAssumption
<1>n. faults' \in 0..MaxFaults /\ UNCHANGED <<database, cached, job, writes>>
  <2>1. faults \in 0..MaxFaults /\ (faults < MaxFaults => faults + 1 \in 0..MaxFaults)
    BY <1>f DEF PoolTypes
  <2>2. faults' = faults \/ (faults < MaxFaults /\ faults' = faults + 1)
    BY DEF Sql!TxCommit, Sql!TxRollback, Sql!TxRollbackRejects, Sql!TxCommitRejects
  <2>3. UNCHANGED <<database, cached, job, writes>>
    BY DEF Sql!TxCommit, Sql!TxRollback, Sql!TxRollbackRejects, Sql!TxCommitRejects
  <2> QED
    BY <2>1, <2>2, <2>3
<1>o. \A status, acted : Sql!Ended(x, status, acted) =>
         \A y \in Txs : y # x => transaction'[y] = transaction[y]
  BY <1>f DEF Sql!Ended, PoolTypes
<1>r. Sql!Transacting.returns \in BOOLEAN
  BY <1>f, PoolDialects
<1>1. ASSUME NEW w \in Sql!Works, NEW acted \in BOOLEAN, Sql!Ready(x, "open"),
             RowsOf(w, x), Justified(w), (\E t \in SqlTables : w[t] = x) => acted,
             committed' = Sql!Published(w), cascaded' = cascaded \cup Sql!SideEffect(w),
             \A y \in Txs : y # x => transaction'[y] = transaction[y],
             transaction'[x].acted = acted
      PROVE  Sql!WholeOrNothing' /\ committed' \in [SqlTables -> Sql!Rows]
               /\ cascaded' \subseteq SqlTables
  <2>1. ~transaction[x].acted /\ x \in Sql!Parties
    BY <1>1, PoolReady
  <2> QED
    BY <1>n, <1>1, <2>1, PoolPublish
<1>2. RowsOf(Sql!Clean, x) /\ Justified(Sql!Clean) /\ Sql!Clean \in Sql!Works
        /\ ~\E t \in SqlTables : Sql!Clean[t] = x
  BY DEF RowsOf, Justified, Sql!Clean, Sql!Works
<1>3. ASSUME Sql!Ready(x, "open")
      PROVE  /\ Sql!Effect(transaction[x].on) \in Sql!Works
             /\ RowsOf(Sql!Effect(transaction[x].on), x)
                  /\ Justified(Sql!Effect(transaction[x].on))
  BY <1>2, <1>3, PoolReady DEF Sql!Effect
<1>4. CASE Sql!TxCommit(x)
  <2> DEFINE w == Sql!Effect(transaction[x].on)
  <2>1. /\ Sql!Ready(x, "open") /\ Sql!Ended(x, "committed", TRUE)
        /\ committed' = Sql!Published(w) /\ cascaded' = cascaded \cup Sql!SideEffect(w)
        /\ client' = [client EXCEPT ![transaction[x].on] = Sql!Unowned]
    BY <1>4 DEF Sql!TxCommit
  <2>2. w \in Sql!Works /\ RowsOf(w, x) /\ Justified(w)
    BY <1>3, <2>1
  <2> HIDE DEF w
  <2>3. transaction'[x].acted = TRUE =>
           Sql!WholeOrNothing' /\ committed' \in [SqlTables -> Sql!Rows]
             /\ cascaded' \subseteq SqlTables
    BY <1>1, <1>o, <2>1, <2>2
  <2> QED
    BY <1>n, <2>1, <2>3, PoolTxOver
<1>5. ASSUME NEW effective \in BOOLEAN, Sql!TxCommitRejects(x, effective)
      PROVE  PoolIInv'
  <2> DEFINE w == IF effective THEN Sql!Effect(transaction[x].on) ELSE Sql!Clean
             status == IF Sql!Transacting.returns THEN "rolledback" ELSE "unsure"
             n == IF Sql!Transacting.returns THEN Sql!Unowned ELSE [Sql!Unowned EXCEPT !.owner = x]
  <2>1. /\ Sql!Ready(x, "open") /\ Sql!Ended(x, status, effective)
        /\ committed' = Sql!Published(w) /\ cascaded' = cascaded \cup Sql!SideEffect(w)
        /\ client' = [client EXCEPT ![transaction[x].on] = n]
    BY <1>5 DEF Sql!TxCommitRejects
  <2>2. /\ w \in Sql!Works /\ RowsOf(w, x) /\ Justified(w)
        /\ (\E t \in SqlTables : w[t] = x) => effective
    BY <1>2, <1>3, <2>1
  <2>3. /\ n = Sql!Unowned \/ (n = [Sql!Unowned EXCEPT !.owner = x]
             /\ status \in {"unsure", "leaked"})
        /\ status \in {"unsure", "committed", "rolledback", "leaked"}
    OBVIOUS
  <2>4. n = Sql!Unowned => status \in {"committed", "rolledback"}
    BY DEF Sql!Unowned
  <2> HIDE DEF w, status, n
  <2>5. transaction'[x].acted = effective =>
           Sql!WholeOrNothing' /\ committed' \in [SqlTables -> Sql!Rows]
             /\ cascaded' \subseteq SqlTables
    BY <1>1, <1>o, <2>1, <2>2
  <2> QED
    BY ZenonT(40), <1>n, <2>1, <2>3, <2>4, <2>5, PoolTxOver
<1>6. ASSUME UNCHANGED <<committed, cascaded>>, NEW acted, acted = transaction[x].acted,
             \A y \in Txs : y # x => transaction'[y] = transaction[y],
             transaction'[x].acted = acted
      PROVE  Sql!WholeOrNothing' /\ committed' \in [SqlTables -> Sql!Rows]
               /\ cascaded' \subseteq SqlTables
  BY <1>n, <1>6, PoolUnpublished
<1>7. CASE Sql!TxRollback(x)
  <2>1. PICK acted \in BOOLEAN : acted = transaction[x].acted
    BY <1>f, PoolFields
  <2>2. /\ Sql!Ready(x, "open") \/ Sql!Ready(x, "unsure")
        /\ Sql!Ended(x, "rolledback", acted) /\ UNCHANGED <<committed, cascaded>>
        /\ client' = [client EXCEPT ![transaction[x].on] = Sql!Unowned]
    BY <1>7, <2>1 DEF Sql!TxRollback
  <2>3. transaction'[x].acted = acted =>
           Sql!WholeOrNothing' /\ committed' \in [SqlTables -> Sql!Rows]
             /\ cascaded' \subseteq SqlTables
    BY <1>6, <1>o, <2>1, <2>2
  <2> QED
    BY <1>n, <2>2, <2>3, PoolTxOver
<1>8. CASE Sql!TxRollbackRejects(x)
  <2> DEFINE status == IF Sql!Transacting.returns THEN "rolledback" ELSE "leaked"
             n == IF Sql!Transacting.returns THEN Sql!Unowned ELSE [Sql!Unowned EXCEPT !.owner = x]
  <2>1. PICK acted \in BOOLEAN : acted = transaction[x].acted
    BY <1>f, PoolFields
  <2>2. /\ Sql!Ready(x, "open") \/ Sql!Ready(x, "unsure")
        /\ Sql!Ended(x, status, acted) /\ UNCHANGED <<committed, cascaded>>
        /\ client' = [client EXCEPT ![transaction[x].on] = n]
    BY <1>8, <2>1 DEF Sql!TxRollbackRejects
  <2>3. /\ n = Sql!Unowned \/ (n = [Sql!Unowned EXCEPT !.owner = x]
             /\ status \in {"unsure", "leaked"})
        /\ status \in {"unsure", "committed", "rolledback", "leaked"}
    OBVIOUS
  <2>4. n = Sql!Unowned => status \in {"committed", "rolledback"}
    BY DEF Sql!Unowned
  <2> HIDE DEF status, n
  <2>5. transaction'[x].acted = acted =>
           Sql!WholeOrNothing' /\ committed' \in [SqlTables -> Sql!Rows]
             /\ cascaded' \subseteq SqlTables
    BY <1>6, <1>o, <2>1, <2>2
  <2> QED
    BY ZenonT(40), <1>n, <2>2, <2>3, <2>4, <2>5, PoolTxOver
<1> QED
  BY <1>4, <1>5, <1>7, <1>8

\* Savepoints: what is saved is justified, and what is gone back to was saved.
LEMMA PoolSavepoints ==
  ASSUME Sql!PooledSqlAssumption, PoolIInv, NEW x \in Txs,
         Sql!CreateSavepoint(x) \/ Sql!ReleaseSavepoint(x) \/ Sql!RollbackToSavepoint(x)
  PROVE  PoolIInv'
<1> USE PoolNames
<1>f. PoolTypes /\ x \in Sql!Parties /\ TxOK(x)
  BY DEF PoolIInv
<1>0. /\ Sql!Ready(x, "open") /\ transaction[x].status = "open"
      /\ UNCHANGED <<database, cached, committed, job, faults, writes, cascaded>>
  BY DEF Sql!CreateSavepoint, Sql!ReleaseSavepoint, Sql!RollbackToSavepoint, Sql!Ready
<1>1. PICK c \in Clients : c = transaction[x].on
  BY <1>0, PoolReady
<1>2. /\ client[c].owner = x /\ job[x].at = "idle" /\ transaction[x] \in TxRecords
      /\ client[c] \in ClientRecords
      /\ \A w \in client[c].saved \cup {client[c].work} : RowsOf(w, x) /\ w \in Sql!Works
      /\ \A w \in client[c].saved : Justified(w)
      /\ ~client[c].aborted => Justified(client[c].work)
  BY <1>0, <1>1, PoolReady
<1>3. /\ transaction' \in [Txs -> TxRecords]
      /\ transaction'[x].on = c /\ transaction'[x].status = "open"
      /\ transaction'[x].acted = transaction[x].acted
      /\ \A y \in Txs : y # x => transaction'[y] = transaction[y]
  <2>1. ASSUME NEW m \in {"none", "made", "undone"},
               transaction' = [transaction EXCEPT ![x].mark = m]
        PROVE  <1>3!:
    <3> DEFINE b == [transaction[x] EXCEPT !.mark = m]
    <3>1. b \in TxRecords /\ b.on = c /\ b.status = "open" /\ b.acted = transaction[x].acted
      BY <1>0, <1>1, <1>2 DEF TxRecords
    <3>2. transaction' = [transaction EXCEPT ![x] = b]
      BY <2>1
    <3> HIDE DEF b
    <3> QED
      BY <1>f, <3>1, <3>2 DEF PoolTypes
  <2>2. CASE transaction' = transaction
    BY <1>f, <1>0, <1>1, <2>2 DEF PoolTypes
  <2>3. CASE Sql!CreateSavepoint(x)
    <3>1. transaction' = [transaction EXCEPT ![x].mark = IF writes[x] = 0 THEN "made" ELSE "none"]
      BY <2>3 DEF Sql!CreateSavepoint
    <3> QED
      BY <2>1, <3>1
  <2>4. CASE Sql!RollbackToSavepoint(x)
    <3> DEFINE m == IF transaction[x].mark = "made" THEN "undone" ELSE transaction[x].mark
    <3>1. m \in {"none", "made", "undone"}
      BY <1>2 DEF TxRecords
    <3>2. transaction' = [transaction EXCEPT ![x].mark = m]
      BY <2>4 DEF Sql!RollbackToSavepoint
    <3> HIDE DEF m
    <3> QED
      BY <2>1, <3>1, <3>2
  <2> QED
    BY <2>2, <2>3, <2>4 DEF Sql!ReleaseSavepoint
<1>4. PICK n \in ClientRecords :
         /\ client' = [client EXCEPT ![c] = n] /\ n.owner = x
         /\ \A w \in n.saved \cup {n.work} : RowsOf(w, x)
         /\ \A w \in n.saved : Justified(w)
         /\ ~n.aborted => Justified(n.work)
  <2>1. CASE Sql!CreateSavepoint(x)
    <3> DEFINE n == [client[c] EXCEPT !.saved = {client[c].work}]
    <3>1. /\ n \in ClientRecords /\ n.owner = x /\ n.work = client[c].work
          /\ n.saved = {client[c].work} /\ n.aborted = client[c].aborted
      BY <1>2 DEF ClientRecords
    <3>2. client' = [client EXCEPT ![c] = n] /\ ~client[c].aborted
      BY <1>1, <2>1 DEF Sql!CreateSavepoint
    <3> HIDE DEF n
    <3> QED
      BY <1>2, <3>1, <3>2
  <2>2. CASE Sql!ReleaseSavepoint(x)
    <3> DEFINE n == [client[c] EXCEPT !.saved = {}]
    <3>1. /\ n \in ClientRecords /\ n.owner = x /\ n.work = client[c].work
          /\ n.saved = {} /\ n.aborted = client[c].aborted
      BY <1>2 DEF ClientRecords
    <3>2. client' = [client EXCEPT ![c] = n]
      BY <1>1, <2>2 DEF Sql!ReleaseSavepoint
    <3> HIDE DEF n
    <3> QED
      BY <1>2, <3>1, <3>2
  <2>3. CASE Sql!RollbackToSavepoint(x)
    <3>1. PICK w \in client[c].saved :
             client' = [client EXCEPT ![c].work = w, ![c].aborted = FALSE]
      BY <1>1, <2>3 DEF Sql!RollbackToSavepoint
    <3> DEFINE a == [client[c] EXCEPT !.work = w]
               n == [a EXCEPT !.aborted = FALSE]
    <3>2. /\ a \in ClientRecords /\ a.owner = x /\ a.work = w /\ a.saved = client[c].saved
      BY <1>2, <3>1 DEF ClientRecords
    <3>3. client' = [client EXCEPT ![c] = n]
      BY <1>f, <1>1, <3>1 DEF PoolTypes
    <3> HIDE DEF a
    <3>4. /\ n \in ClientRecords /\ n.owner = x /\ n.work = w /\ n.saved = client[c].saved
      BY <3>2 DEF ClientRecords
    <3> HIDE DEF n
    <3> QED
      BY <1>2, <3>1, <3>3, <3>4
  <2> QED
    BY <2>1, <2>2, <2>3
<1>5. /\ client' \in [Clients -> ClientRecords] /\ client'[c] = n
      /\ \A d \in Clients : d # c => client'[d] = client[d]
  BY <1>f, <1>1, <1>4 DEF PoolTypes
<1>6. TxOK(x)'
  BY <1>f, <1>0, <1>1, <1>3, <1>4, <1>5 DEF TxOK
<1>7. ClientOK(c)'
  <2>1. \A s : Sql!Emptied(s)' = Sql!Emptied(s)
    BY <1>0, PoolJustified
  <2>2. (\A w \in client[c].saved : Justified(w))'
    BY <1>4, <1>5, <2>1 DEF Justified
  <2>3. (~client[c].aborted => Justified(client[c].work))'
    BY <1>4, <1>5, <2>1 DEF Justified
  <2>4. job'[x].on = Nobody
    BY <1>f, <1>0, <1>2 DEF PoolIInv, JobOK
  <2> QED
    BY <1>0, <1>3, <1>4, <1>5, <2>2, <2>3, <2>4 DEF ClientOK, RowsOf
<1>8. Sql!WholeOrNothing' /\ committed' \in [SqlTables -> Sql!Rows]
        /\ cascaded' \subseteq SqlTables
  BY <1>0, <1>3, PoolUnpublished
<1>9. faults' \in 0..MaxFaults
  BY <1>f, <1>0 DEF PoolTypes
<1> QED
  BY <1>0, <1>1, <1>2, <1>3, <1>5, <1>6, <1>7, <1>8, <1>9, PoolInTransaction

\* The invariant of the pool.
LEMMA PoolStep ==
  ASSUME Sql!PooledSqlAssumption, PoolIInv, [Sql!Next]_Sql!vars
  PROVE  PoolIInv'
<1>1. CASE UNCHANGED Sql!vars
  BY SMTT(20), <1>1
  DEF Sql!vars, PoolIInv, PoolTypes, JobOK, TxOK, ClientOK, OwnWrite, Sql!OwnClient,
      Sql!Transacting,
     Sql!Dialect, Justified, NearlyJustified, RowsOf, Sql!Emptied, Sql!Writing,
       Sql!WholeOrNothing
<1>2. CASE Sql!Next
  <2>1. Txs \subseteq Sql!Parties
    BY DEF Sql!Parties
  <2> QED
    BY <1>2, <2>1, PoolAsks, PoolConnects, PoolProceeds, PoolWrites, PoolEnds, PoolTxEnds,
       PoolSavepoints DEF Sql!Next
<1> QED
  BY <1>1, <1>2

\* The pool is whole and the tables hold their first rows.
LEMMA PoolStart ==
  ASSUME Sql!PooledSqlAssumption, Sql!Init
  PROVE  PoolIInv
<1> USE PoolNames
<1>1. /\ job = [p \in Sql!Parties |-> Sql!Idle] /\ client = [c \in Clients |-> Sql!Unowned]
      /\ transaction = [x \in Txs |-> Sql!NoTx] /\ committed = [t \in SqlTables |-> Seed]
      /\ cached \subseteq SqlTables /\ cascaded = {} /\ faults = 0
      /\ writes = [p \in Sql!Parties |-> 0]
      /\ database \in [dialect : Dialects, onDelete : {"cascade", "restrict"}]
  BY DEF Sql!Init
<1>2. Sql!NoTx \in TxRecords /\ Sql!NoTx.status = "unused" /\ Sql!NoTx.on = Nobody
        /\ ~Sql!NoTx.acted
  BY DEF Sql!NoTx, TxRecords
<1>3. PoolTypes
  BY <1>1, <1>2 DEF PoolTypes, Sql!PooledSqlAssumption, Sql!Rows
<1>4. Sql!Idle.at = "idle" /\ Sql!Idle.method = "none" /\ Sql!Idle.on = Nobody
  BY DEF Sql!Idle
<1>5. \A p \in Sql!Parties : JobOK(p)
  BY <1>1, <1>4 DEF JobOK, OwnWrite
<1>6. \A x \in Txs : TxOK(x)
  BY <1>1, <1>2 DEF TxOK
<1>7. \A c \in Clients : ClientOK(c)
  BY <1>1 DEF ClientOK, Sql!Unowned
<1>8. Sql!WholeOrNothing
  BY <1>1 DEF Sql!WholeOrNothing, Sql!PooledSqlAssumption
<1> QED
  BY <1>3, <1>5, <1>6, <1>7, <1>8 DEF PoolIInv

\* Where every client is held without one being lost, as many transactions of
\* mysql are open as there are clients.
LEMMA PoolIsStuck ==
  ASSUME Sql!PooledSqlAssumption, PoolIInv
  PROVE  Sql!ClientsReturn /\ Sql!NeverStuck
<1> USE PoolNames
<1>f. PoolTypes
  BY DEF PoolIInv
<1>0. \A S : Sql!Cardinality(S) = Cardinality(S)
  BY DEF Sql!Cardinality, Cardinality, Sql!IsFiniteSet, IsFiniteSet
<1>1. Sql!ClientsReturn
  BY DEF PoolIInv, Sql!ClientsReturn, ClientOK, Sql!Free, Sql!Unowned
<1>2. ASSUME \A c \in Clients : Sql!Held(c),
               ~\E x \in Txs : transaction[x].status = "leaked"
      PROVE  /\ Sql!Dialect = "mysql"
             /\ Cardinality({x \in Txs : transaction[x].status = "open"}) >= Cardinality(Clients)
  <2> DEFINE Open == {x \in Txs : transaction[x].status = "open"}
             on == [x \in Open |-> transaction[x].on]
  <2>1. ASSUME NEW c \in Clients
        PROVE  /\ client[c].owner \in Open /\ on[client[c].owner] = c
               /\ ~Sql!Transacting.own /\ ~Sql!HasTimeout
    <3>1. PICK p \in Sql!Parties : p = client[c].owner
      BY <1>f, <1>2, PoolFields DEF Sql!Held
    <3>2. job[p].at = "waiting" /\ ~Sql!HasTimeout
      BY <1>2, <3>1 DEF Sql!Held
    <3>3. JobOK(p) /\ ClientOK(c)
            /\ job[p].method \in {"none", "writeTable", "beginTransaction"}
      BY <1>f, PoolFields DEF PoolIInv
    <3>4. job[p].on # c
      BY <3>2, <3>3 DEF JobOK
    <3>5. /\ p \in Txs /\ transaction[p].on = c
          /\ transaction[p].status \in {"open", "unsure", "leaked"}
      BY <3>1, <3>3, <3>4 DEF ClientOK
    <3>6. job[p].method = "writeTable" /\ transaction[p].status = "open" /\ ~OwnWrite(p)
      BY <3>2, <3>3, <3>5 DEF JobOK
    <3> QED
      BY <3>1, <3>2, <3>5, <3>6 DEF OwnWrite, Sql!OwnClient
  <2>2. Sql!Dialect = "mysql"
    BY <1>f, <2>1, PoolDialects DEF Sql!HasTimeout, Sql!PooledSqlAssumption
  <2>3. IsFiniteSet(Open) /\ IsFiniteSet(Clients)
    <3>1. IsFiniteSet(Txs) /\ IsFiniteSet(Clients)
      BY DEF Sql!PooledSqlAssumption, Sql!IsFiniteSet, IsFiniteSet
    <3> QED
      BY <3>1, FS_Subset
  <2> DEFINE taken == {on[x] : x \in Open}
  <2>4. Clients \subseteq taken
    BY <2>1
  <2>5. on \in Surjection(Open, taken)
    BY DEF Surjection
  <2> HIDE DEF Open, on, taken
  <2>6. IsFiniteSet(taken) /\ Cardinality(taken) <= Cardinality(Open)
    BY <2>3, <2>5, FS_Surjection
  <2>7. Cardinality(Clients) <= Cardinality(taken)
    BY <2>4, <2>6, FS_Subset
  <2>8. Cardinality(Clients) \in Nat /\ Cardinality(taken) \in Nat
          /\ Cardinality(Open) \in Nat
    BY <2>3, <2>6, FS_CardinalityType
  <2>9. Cardinality(Open) >= Cardinality(Clients)
    BY <2>6, <2>7, <2>8
  <2> QED
    BY <2>2, <2>9 DEF Open
<1> QED
  BY <1>0, <1>1, <1>2 DEF Sql!NeverStuck

\* A behaviour of the suite keeps the invariant of the pool.
LEMMA PoolOfTheSuite == SuiteSpec => []PoolIInv
<1> USE DriversAssumption DEF DriversAssumption
<1>1. SuiteInit => PoolIInv
  BY PoolStart DEF SuiteInit, Starts
<1>2. [SuiteNext]_SuiteVars => [Sql!Next]_(Sql!vars)
  BY DEF SuiteNext, SuiteVars, poolVars, Sql!vars, Turn, PoolSteps, SqliteSteps,
         TableSteps, ToolsSteps, ScopeSteps, MigrationSteps, SeedSteps
<1>3. PoolIInv /\ [Sql!Next]_(Sql!vars) => PoolIInv'
  BY PoolStep
<1> QED
  BY <1>1, <1>2, <1>3, PTL DEF SuiteSpec

\* Nobody sees a table between its DELETE and its INSERT, and in postgres nobody
\* sees rows of a transaction whose COMMIT had no effect, for any number of
\* callers, transactions, tables and clients, and whatever fails and is retried.
THEOREM TablesAreWholeOrUntouched == SuiteSpec => []WholeOrNothing
<1>1. PoolIInv => WholeOrNothing
  BY DEF PoolIInv, WholeOrNothing
<1> QED
  BY <1>1, PoolOfTheSuite, PTL

\* A client is free, in use, or lost because a ROLLBACK rejected; and the pool
\* stops only for lost clients, or in mysql with as many open transactions as it
\* has clients, for every size of the pool.
THEOREM ClientsGoBackToThePool == SuiteSpec => []PoolReturns
<1>1. PoolIInv => PoolReturns
  BY PoolIsStuck, DriversAssumption DEF DriversAssumption, PoolReturns
<1> QED
  BY <1>1, PoolOfTheSuite, PTL

-----------------------------------------------------------------------------
(* The sqlite driver: what each table is waiting for.                      *)

Parties == Sqlite!Owners \ {"seed"}
Lists == {<<>>, <<"parent">>, <<"child">>, <<"parent", "child">>, <<"child", "parent">>}
Phases == {"idle", "dump", "open", "ensure", "ensuring", "delete", "insert",
  "persisting", "closed"}

Acts == [at : Phases, todo : Lists, image : Sqlite!Contents \cup {Torn}]

SqliteTypes ==
    /\ setting \in [file : BOOLEAN, order : {<<"parent", "child">>, <<"child", "parent">>}]
    /\ rows \in Sqlite!Contents /\ foreignKeys \in BOOLEAN
    /\ file \in Sqlite!Contents \cup {Torn}
    /\ action \in [Parties -> Acts]
    /\ copy \in [SqliteTxs -> Sqlite!Contents]
    /\ sqliteFaults \in 0..MaxSqliteFaults
    /\ calls \in [Parties -> 0..MaxSqliteCalls]
    /\ up \in BOOLEAN
    /\ serial \in Sqlite!Contents /\ blurred \in SUBSET Sqlite!Both
    /\ \A p \in Parties : action[p].at \notin {"idle", "open", "closed"} =>
         action[p].todo # <<>>
    /\ ~up => setting.file /\ \A p \in Parties : action[p].at \in {"idle", "closed"}

\* The rows p writes into t, and the tables p has yet to write.
Brings(p, t) == IF p \in SqliteTxs THEN copy[p][t] ELSE {p}
Ahead(p) == IF action[p].at = "persisting" THEN Sqlite!Range(Tail(action[p].todo)) ELSE Sqlite!Range(action[p].todo)

\* What t holds while p, and p alone, is inside of a method: it waits for the
\* rows p brings, or it has them, and the file has them or is about to.
Placed(p, t) ==
    /\ t \in Sqlite!Range(action[p].todo) => serial[t] = Brings(p, t)
    /\ action[p].at = "insert" /\ t = action[p].todo[1] => rows[t] = {}
    /\ t \notin Ahead(p) => rows[t] = serial[t]
    /\ setting.file /\ t \notin Ahead(p) /\ action[p].at # "persisting" =>
         file # Torn /\ file[t] = serial[t]
    /\ setting.file /\ action[p].at \in {"ensuring", "persisting"} =>
          action[p].image # Torn /\ (t \notin Ahead(p) => action[p].image[t] = serial[t])

\* What t holds while nobody is.
Rests(t) ==
    /\ up => rows[t] = serial[t]
    /\ setting.file => file # Torn /\ file[t] = serial[t]

Sharp(t) ==
    /\ \A p, q \in Parties : Sqlite!Inside(p) /\ Sqlite!Inside(q) => p = q
    /\ \A p \in Parties : Sqlite!Inside(p) => Placed(p, t)
    /\ (\A p \in Parties : ~Sqlite!Inside(p)) => Rests(t)

SqliteIInv == SqliteTypes /\ \A t \in Sqlite!Both \ blurred : Sharp(t)

\* A list of tables and its head.
LEMMA ListShape ==
  ASSUME NEW l \in Lists, l # <<>>
  PROVE  /\ l[1] \in Sqlite!Both /\ Tail(l) \in Lists
         /\ Sqlite!Range(l) = {l[1]} \cup Sqlite!Range(Tail(l))
              /\ l[1] \notin Sqlite!Range(Tail(l))
<1>0. Sqlite!Range(<<>>) = {}
  BY DEF Sqlite!Range
<1>1. ASSUME NEW a \in Sqlite!Both, l = <<a>>
      PROVE  l[1] = a /\ Tail(l) = <<>> /\ Sqlite!Range(l) = {a}
  BY <1>1 DEF Sqlite!Range
<1>2. ASSUME NEW a \in Sqlite!Both, NEW b \in Sqlite!Both, l = <<a, b>>
      PROVE  l[1] = a /\ Tail(l) = <<b>> /\ Sqlite!Range(l) = {a, b}
  BY <1>2 DEF Sqlite!Range
<1>3. \A b \in Sqlite!Both : Sqlite!Range(<<b>>) = {b}
  BY DEF Sqlite!Range
<1>4. CASE l = <<"parent">> \/ l = <<"child">>
  BY <1>0, <1>1, <1>4 DEF Lists, Sqlite!Both
<1>5. CASE l = <<"parent", "child">> \/ l = <<"child", "parent">>
  BY <1>2, <1>3, <1>5 DEF Lists, Sqlite!Both
<1> QED
  BY <1>4, <1>5 DEF Lists

\* The parties, and what the assumption says of them.
LEMMA PartiesShape ==
  ASSUME Sqlite!SqliteAssumption
  PROVE  /\ SqliteWriters \subseteq Parties /\ SqliteTxs \subseteq Parties
         /\ SqliteWriters \cap SqliteTxs = {} /\ Parties = SqliteWriters \cup SqliteTxs
         /\ Torn \notin Sqlite!Contents /\ MaxSqliteFaults \in Nat /\ MaxSqliteCalls \in Nat
         /\ \A p \in Parties : p \in Sqlite!Owners
BY DEF Sqlite!SqliteAssumption, Parties, Sqlite!Owners, Sqlite!Contents

\* A step of p, after which it is at, with todo and image.
Becomes(p, at, todo, image) ==
    /\ action' = [action EXCEPT ![p] = [at |-> at, todo |-> todo, image |-> image]]
    /\ at \in Phases /\ todo \in Lists /\ image \in Sqlite!Contents \cup {Torn}
    /\ at \notin {"idle", "open", "closed"} => todo # <<>>

\* A party whose action becomes another leaves the others' as they were.
LEMMA BecomesShape ==
  ASSUME SqliteTypes, NEW p \in Parties, NEW at, NEW todo,
         NEW image, Becomes(p, at, todo, image)
  PROVE  /\ action' \in [Parties -> Acts]
         /\ \A q \in Parties \ {p} : action'[q] = action[q]
         /\ action'[p].at = at /\ action'[p].todo = todo /\ action'[p].image = image
         /\ \A q \in Parties : action'[q].at \notin {"idle", "open", "closed"} =>
              action'[q].todo # <<>>
<1> DEFINE a == [at |-> at, todo |-> todo, image |-> image]
<1>1. a \in Acts /\ a.at = at /\ a.todo = todo /\ a.image = image
  BY DEF Becomes, Acts
<1>2. action' = [action EXCEPT ![p] = a] /\ (at \notin {"idle", "open", "closed"} =>
        todo # <<>>)
  BY DEF Becomes
<1>3. action \in [Parties -> Acts]
  BY DEF SqliteTypes
<1>4. \A q \in Parties : action[q].at \notin {"idle", "open", "closed"} =>
        action[q].todo # <<>>
  BY DEF SqliteTypes
<1> HIDE DEF a
<1>5. action' \in [Parties -> Acts] /\ action'[p] = a
        /\ \A q \in Parties \ {p} : action'[q] = action[q]
  BY <1>1, <1>2, <1>3
<1> QED
  BY <1>1, <1>2, <1>4, <1>5

\* A step of the only party inside of a method.
LEMMA InsideMoves ==
  ASSUME SqliteIInv, NEW p \in Parties, Sqlite!Inside(p),
         NEW at, NEW todo, NEW image, Becomes(p, at, todo, image),
         NEW t \in Sqlite!Both \ blurred', blurred \subseteq blurred',
         at \notin {"idle", "dump", "open", "closed"} => Placed(p, t)',
         at \in {"idle", "dump", "open", "closed"} => Rests(t)'
  PROVE  Sharp(t)'
<1>1. Sharp(t) /\ SqliteTypes
  BY DEF SqliteIInv
<1>2. \A q \in Parties : Sqlite!Inside(q) => q = p
  BY <1>1 DEF Sharp
<1>3. /\ \A q \in Parties \ {p} : action'[q] = action[q]
      /\ action'[p].at = at
  BY <1>1, BecomesShape
<1>4. \A q \in Parties : Sqlite!Inside(q)' => q = p
  BY <1>2, <1>3 DEF Sqlite!Inside
<1>5. Sqlite!Inside(p)' <=> at \notin {"idle", "dump", "open", "closed"}
  BY <1>3 DEF Sqlite!Inside
<1> QED
  BY <1>4, <1>5 DEF Sharp

\* A step of a party that is outside of a method and stays there.
LEMMA OutsideMoves ==
  ASSUME SqliteIInv, NEW p \in Parties, ~Sqlite!Inside(p), ~Sqlite!Inside(p)',
         NEW t \in Sqlite!Both \ blurred',
         \A q \in Parties \ {p} : action'[q] = action[q] /\ (q \in SqliteTxs =>
           copy'[q] = copy[q]),
         setting' = setting, rows' = rows, file' = file, up' = up, serial' = serial,
           blurred' = blurred
  PROVE  Sharp(t)'
<1>1. Sharp(t)
  BY DEF SqliteIInv
<1>2. \A q \in Parties : Sqlite!Inside(q)' <=> Sqlite!Inside(q)
  BY DEF Sqlite!Inside
<1>3. ASSUME NEW q \in Parties, Sqlite!Inside(q) PROVE Placed(q, t)'
  <2>1. Placed(q, t) /\ action'[q] = action[q] /\ (q \in SqliteTxs => copy'[q] = copy[q])
    BY <1>1, <1>3 DEF Sharp
  <2> QED
    BY <2>1 DEF Placed, Ahead, Brings
<1>4. Rests(t) => Rests(t)'
  BY DEF Rests
<1> QED
  BY <1>1, <1>2, <1>3, <1>4 DEF Sharp

\* A method of p begins.
LEMMA MethodBegins ==
  ASSUME SqliteIInv, NEW p \in Parties, ~Sqlite!Inside(p),
         NEW at, NEW todo, NEW image, Becomes(p, at, todo, image),
         at \notin {"idle", "dump", "open", "closed"},
         NEW before, blurred' = before \cup Sqlite!Meets(p),
         NEW t \in Sqlite!Both \ blurred',
         t \in blurred \/ Rests(t) => Placed(p, t)'
  PROVE  Sharp(t)'
<1>1. SqliteTypes /\ (t \notin blurred => Sharp(t))
  BY DEF SqliteIInv
<1>2. /\ \A q \in Parties \ {p} : action'[q] = action[q]
      /\ action'[p].at = at
  BY <1>1, BecomesShape
<1>3. \A q \in Parties \ {p} : ~Sqlite!Inside(q)
  BY DEF Sqlite!Meets, Parties
<1>4. \A q \in Parties : Sqlite!Inside(q)' <=> q = p
  BY <1>2, <1>3 DEF Sqlite!Inside
<1>5. t \notin blurred => Rests(t)
  BY <1>1, <1>3 DEF Sharp
<1> QED
  BY <1>4, <1>5 DEF Sharp

\* The records that the steps make of an action's.
LEMMA ActChange ==
  ASSUME NEW r \in Acts, NEW at \in Phases, NEW todo \in Lists
  PROVE  /\ [r EXCEPT !.at = at, !.todo = todo] = [at |-> at, todo |-> todo,
              image |-> r.image]
         /\ [r EXCEPT !.todo = todo, !.at = at] = [at |-> at, todo |-> todo,
              image |-> r.image]
         /\ [r EXCEPT !.at = at] = [at |-> at, todo |-> r.todo, image |-> r.image]
<1>1. [r EXCEPT !.at = at, !.todo = todo] = [at |-> at, todo |-> todo, image |-> r.image]
  <2> DEFINE a == [r EXCEPT !.at = at]
  <2>1. a \in Acts /\ a.at = at /\ a.todo = r.todo /\ a.image = r.image
    BY DEF Acts
  <2> HIDE DEF a
  <2> DEFINE b == [a EXCEPT !.todo = todo]
  <2>2. b \in Acts /\ b.at = at /\ b.todo = todo /\ b.image = r.image
    BY <2>1 DEF Acts
  <2>3. [r EXCEPT !.at = at, !.todo = todo] = b
    BY DEF a
  <2> HIDE DEF b
  <2> QED
    BY <2>2, <2>3 DEF Acts
<1>2. [r EXCEPT !.todo = todo, !.at = at] = [at |-> at, todo |-> todo, image |-> r.image]
  <2> DEFINE a == [r EXCEPT !.todo = todo]
  <2>1. a \in Acts /\ a.at = r.at /\ a.todo = todo /\ a.image = r.image
    BY DEF Acts
  <2> HIDE DEF a
  <2> DEFINE b == [a EXCEPT !.at = at]
  <2>2. b \in Acts /\ b.at = at /\ b.todo = todo /\ b.image = r.image
    BY <2>1 DEF Acts
  <2>3. [r EXCEPT !.todo = todo, !.at = at] = b
    BY DEF a
  <2> HIDE DEF b
  <2> QED
    BY <2>2, <2>3 DEF Acts
<1>4. [r EXCEPT !.at = at] = [at |-> at, todo |-> r.todo, image |-> r.image]
  BY DEF Acts
<1> QED
  BY <1>1, <1>2, <1>4

\* A step of p that leaves the process up.
LEMMA TypesMove ==
  ASSUME SqliteTypes, up, up' = up, setting' = setting, NEW p \in Parties,
         NEW at, NEW todo, NEW image, Becomes(p, at, todo, image),
         rows' \in Sqlite!Contents, foreignKeys' \in BOOLEAN,
           file' \in Sqlite!Contents \cup {Torn},
         copy' \in [SqliteTxs -> Sqlite!Contents], sqliteFaults' \in 0..MaxSqliteFaults,
         calls' \in [Parties -> 0..MaxSqliteCalls], serial' \in Sqlite!Contents,
           blurred' \in SUBSET Sqlite!Both
  PROVE  SqliteTypes'
<1>1. /\ action' \in [Parties -> Acts]
      /\ \A q \in Parties : action'[q].at \notin {"idle", "open", "closed"} =>
           action'[q].todo # <<>>
  BY BecomesShape
<1> QED
  BY <1>1 DEF SqliteTypes, Acts, Sqlite!Contents

\* Whoever is not idle nor closed is in a process that is up.
LEMMA Upright ==
  ASSUME SqliteTypes, NEW p \in Parties, action[p].at \notin {"idle", "closed"}
  PROVE  up
BY DEF SqliteTypes

\* A call that begins keeps what always holds.
LEMMA WriteKeeps ==
  ASSUME Sqlite!SqliteAssumption, SqliteIInv, NEW p \in SqliteWriters,
         NEW t \in Sqlite!Both, Sqlite!WriteTable(p, t)
  PROVE  SqliteIInv'
<1>1. SqliteTypes /\ p \in Parties /\ p \in Sqlite!Owners /\ p \notin SqliteTxs
  BY PartiesShape DEF SqliteIInv
<1>2. /\ up /\ action[p].at = "idle" /\ calls[p] < MaxSqliteCalls
      /\ action' = [action EXCEPT ![p] = [action[p] EXCEPT !.at = "delete", !.todo = <<t>>]]
      /\ serial' = [serial EXCEPT ![t] = {p}]
           /\ blurred' = (blurred \ {t}) \cup Sqlite!Meets(p)
      /\ calls' = [calls EXCEPT ![p] = calls[p] + 1]
      /\ UNCHANGED <<setting, rows, foreignKeys, file, copy, sqliteFaults, up>>
  BY DEF Sqlite!WriteTable
<1>3. Becomes(p, "delete", <<t>>, action[p].image)
  <2>1. action[p] \in Acts
    BY <1>1 DEF SqliteTypes
  <2>3. <<t>> \in Lists /\ <<t>> # <<>> /\ "delete" \in Phases
    BY DEF Sqlite!Both, Lists, Phases
  <2>2. [action[p] EXCEPT !.at = "delete", !.todo = <<t>>]
          = [at |-> "delete", todo |-> <<t>>, image |-> action[p].image]
    BY <2>1, <2>3, ActChange, Zenon
  <2> QED
    BY <1>2, <2>1, <2>2, <2>3 DEF Becomes, Acts
<1>4. /\ action'[p].at = "delete" /\ action'[p].todo = <<t>>
  BY <1>1, <1>3, BecomesShape
<1>5. /\ serial' \in Sqlite!Contents /\ serial'[t] = {p}
           /\ \A s \in Sqlite!Both \ {t} : serial'[s] = serial[s]
  <2>1. serial \in Sqlite!Contents /\ {p} \subseteq Sqlite!Owners
    BY <1>1 DEF SqliteTypes
  <2> QED
    BY <1>2, <2>1 DEF Sqlite!Contents
<1>6. SqliteTypes'
  <2>1. calls' \in [Parties -> 0..MaxSqliteCalls]
    BY <1>1, <1>2, PartiesShape DEF SqliteTypes
  <2>2. blurred' \in SUBSET Sqlite!Both
    BY <1>1, <1>2 DEF SqliteTypes, Sqlite!Meets
  <2> QED
    BY <1>1, <1>2, <1>3, <1>5, <2>1, <2>2, TypesMove DEF SqliteTypes
<1>7. ASSUME NEW s \in Sqlite!Both \ blurred' PROVE Sharp(s)'
  <2>1. ~Sqlite!Inside(p)
    BY <1>2 DEF Sqlite!Inside
  <2>2. Sqlite!Range(<<t>>) = {t}
    BY DEF Sqlite!Range
  <2>3. s = t \/ s \notin blurred
    BY <1>2
  <2>4. ASSUME s \in blurred \/ Rests(s) PROVE Placed(p, s)'
    <3>1. CASE s = t
      <4>1. s \in Ahead(p)' /\ serial'[s] = Brings(p, s)'
        BY <1>1, <1>4, <1>5, <2>2, <3>1 DEF Ahead, Brings
      <4> QED
        BY <1>4, <4>1 DEF Placed
    <3>2. CASE s # t
      <4>1. Rests(s) /\ serial'[s] = serial[s]
        BY <1>5, <2>3, <2>4, <3>2
      <4>2. s \notin Sqlite!Range(action[p].todo)'
        BY <1>4, <2>2, <3>2
      <4> QED
        BY <1>2, <1>4, <4>1, <4>2 DEF Placed, Rests
    <3> QED
      BY <3>1, <3>2
  <2> QED
    BY <1>1, <1>2, <1>3, <2>1, <2>4, MethodBegins
<1> QED
  BY <1>6, <1>7 DEF SqliteIInv

\* A DELETE keeps what always holds.
LEMMA DeleteKeeps ==
  ASSUME Sqlite!SqliteAssumption, SqliteIInv, NEW p \in Parties, Sqlite!Delete(p)
  PROVE  SqliteIInv'
<1> DEFINE l == action[p].todo
<1> DEFINE t == l[1]
<1>1. SqliteTypes
  BY DEF SqliteIInv
<1>2. /\ action[p].at = "delete" /\ rows' = Sqlite!Deleted(t)
      /\ blurred' = blurred \cup {s \in Sqlite!Both \ Sqlite!Range(l) : rows'[s] # rows[s]}
      /\ action' = [action EXCEPT ![p].at = "insert"]
      /\ UNCHANGED <<setting, foreignKeys, file, copy, sqliteFaults, calls, up, serial>>
  BY DEF Sqlite!Delete
<1>3. action[p] \in Acts /\ l \in Lists /\ l # <<>> /\ t \in Sqlite!Both
        /\ t \in Sqlite!Range(l)
  BY <1>1, <1>2, ListShape DEF SqliteTypes, Acts
<1>4. Becomes(p, "insert", l, action[p].image)
  <2>1. [action[p] EXCEPT !.at = "insert"] = [at |-> "insert", todo |-> l,
          image |-> action[p].image]
    BY <1>3 DEF Acts
  <2>2. action' = [action EXCEPT ![p] = [action[p] EXCEPT !.at = "insert"]]
    BY <1>1, <1>2 DEF SqliteTypes
  <2> QED
    BY <1>3, <2>1, <2>2 DEF Becomes, Acts, Phases
<1>5. /\ action'[p].at = "insert" /\ action'[p].todo = l
           /\ action'[p].image = action[p].image
  BY <1>1, <1>4, BecomesShape
<1>6. rows' \in Sqlite!Contents /\ rows'[t] = {}
  <2>1. [s \in Sqlite!Both |-> {}] \in Sqlite!Contents /\ [s \in Sqlite!Both |-> {}][t] = {}
    BY <1>3 DEF Sqlite!Contents
  <2> HIDE DEF t
  <2>2. [rows EXCEPT ![t] = {}] \in Sqlite!Contents /\ [rows EXCEPT ![t] = {}][t] = {}
    <3>1. rows \in Sqlite!Contents /\ {} \subseteq Sqlite!Owners
      BY <1>1 DEF SqliteTypes
    <3> HIDE DEF t
    <3> QED
      BY <1>3, <3>1 DEF Sqlite!Contents
  <2> QED
    BY <1>2, <2>1, <2>2 DEF Sqlite!Deleted
<1>7. SqliteTypes'
  <2>1. up
    BY <1>1, <1>2, Upright
  <2>2. blurred' \in SUBSET Sqlite!Both
    BY <1>1, <1>2 DEF SqliteTypes
  <2> QED
    BY <1>1, <1>2, <1>4, <1>6, <2>1, <2>2, TypesMove DEF SqliteTypes
<1>8. ASSUME NEW s \in Sqlite!Both \ blurred' PROVE Sharp(s)'
  <2>1. Sqlite!Inside(p) /\ s \notin blurred
    BY <1>2 DEF Sqlite!Inside
  <2>2. Placed(p, s)
    BY <2>1 DEF SqliteIInv, Sharp
  <2>3. s \notin Sqlite!Range(l) => rows'[s] = rows[s]
    BY <1>2
  <2>4. Placed(p, s)'
    <3>1. Ahead(p)' = Sqlite!Range(l) /\ Ahead(p) = Sqlite!Range(l)
            /\ Brings(p, s)' = Brings(p, s)
      BY <1>2, <1>5 DEF Ahead, Brings
    <3> HIDE DEF l, t
    <3> QED
      BY <1>2, <1>5, <1>6, <2>2, <2>3, <3>1 DEF Placed, t
  <2> QED
    BY <1>2, <1>4, <2>1, <2>4, InsideMoves
<1> QED
  BY <1>7, <1>8 DEF SqliteIInv

\* What an export does.
LEMMA PersistShape ==
  ASSUME SqliteTypes, NEW p \in Parties, NEW now \in Sqlite!Contents,
         NEW next \in {"ensuring", "persisting"},
         Sqlite!Persist(p, now, next), action[p].todo # <<>>
  PROVE  \E image : /\ Becomes(p, next, action[p].todo, image)
                    /\ (setting.file => image = now) /\ file' = file
                         /\ foreignKeys' \in BOOLEAN
<1>1. action[p] \in Acts /\ action \in [Parties -> Acts] /\ foreignKeys \in BOOLEAN
  BY DEF SqliteTypes
<1>2. CASE setting.file
  <2>1. action' = [action EXCEPT ![p].at = next, ![p].image = now]
          /\ foreignKeys' = FALSE /\ file' = file
    BY <1>2 DEF Sqlite!Persist
  <2>2. action' = [action EXCEPT ![p] = [at |-> next, todo |-> action[p].todo,
          image |-> now]]
    <3> DEFINE a == [action EXCEPT ![p].at = next]
    <3> DEFINE b == [action[p] EXCEPT !.at = next]
    <3>1. b \in Acts /\ b.at = next /\ b.todo = action[p].todo
      BY <1>1 DEF Acts, Phases
    <3>2. [b EXCEPT !.image = now] = [at |-> next, todo |-> action[p].todo, image |-> now]
      <4> HIDE DEF b
      <4>1. [b EXCEPT !.image = now] \in Acts /\ [b EXCEPT !.image = now].at = b.at
            /\ [b EXCEPT !.image = now].todo = b.todo
                 /\ [b EXCEPT !.image = now].image = now
        BY <3>1 DEF Acts
      <4> QED
        BY <3>1, <4>1 DEF Acts
    <3>3. a = [action EXCEPT ![p] = b] /\ a[p] = b
      BY <1>1
    <3>4. action' = [a EXCEPT ![p] = [b EXCEPT !.image = now]]
      BY <2>1, <3>3
    <3> HIDE DEF b
    <3>5. action' = [action EXCEPT ![p] = [b EXCEPT !.image = now]]
      BY <1>1, <3>3, <3>4
    <3> QED
      BY <3>2, <3>5
  <2>3. Becomes(p, next, action[p].todo, now)
    BY <1>1, <2>2 DEF Becomes, Acts, Phases
  <2> QED
    BY <2>1, <2>3
<1>3. CASE ~setting.file
  <2>1. action' = [action EXCEPT ![p].at = next] /\ foreignKeys' = foreignKeys
          /\ file' = file
    BY <1>3 DEF Sqlite!Persist
  <2>2. action' = [action EXCEPT ![p] = [at |-> next, todo |-> action[p].todo,
          image |-> action[p].image]]
    <3>1. action' = [action EXCEPT ![p] = [action[p] EXCEPT !.at = next]]
      BY <2>1
    <3>2. [action[p] EXCEPT !.at = next] = [at |-> next, todo |-> action[p].todo,
            image |-> action[p].image]
      BY <1>1 DEF Acts
    <3> QED
      BY <3>1, <3>2
  <2>3. Becomes(p, next, action[p].todo, action[p].image)
    BY <1>1, <2>2 DEF Becomes, Acts, Phases
  <2> QED
    BY <1>1, <1>3, <2>1, <2>3
<1> QED
  BY <1>2, <1>3

\* The rows that are inserted are those the table waited for, and the export
\* that follows has them.
LEMMA InsertKeeps ==
  ASSUME Sqlite!SqliteAssumption, SqliteIInv, NEW p \in Parties, Sqlite!Insert(p)
  PROVE  SqliteIInv'
<1> DEFINE l == action[p].todo
<1> DEFINE t == l[1]
<1>a. PICK now : now = rows'
  OBVIOUS
<1>1. SqliteTypes
  BY DEF SqliteIInv
<1>2. /\ action[p].at = "insert" /\ rows' = [rows EXCEPT ![t] = Sqlite!Inserted(p, t)]
      /\ Sqlite!Persist(p, now, "persisting")
      /\ UNCHANGED <<setting, copy, sqliteFaults, calls, up, serial, blurred>>
  BY <1>a DEF Sqlite!Insert, Sqlite!Persist
<1>3. action[p] \in Acts /\ l \in Lists /\ l # <<>> /\ t \in Sqlite!Both
  BY <1>1, <1>2, ListShape DEF SqliteTypes, Acts
<1>4. t \in Sqlite!Range(l) /\ Sqlite!Range(l) = {t} \cup Sqlite!Range(Tail(l))
  BY <1>3, ListShape
<1>5. Sqlite!Inserted(p, t) \subseteq Sqlite!Owners
        /\ Sqlite!Inserted(p, t) = rows[t] \cup Brings(p, t)
  <2>1. rows[t] \subseteq Sqlite!Owners /\ (p \in SqliteTxs =>
          copy[p][t] \subseteq Sqlite!Owners) /\ p \in Sqlite!Owners
    BY <1>1, <1>3, PartiesShape DEF SqliteTypes, Sqlite!Contents
  <2> QED
    BY <2>1 DEF Sqlite!Inserted, Brings
<1>6. rows' \in Sqlite!Contents /\ rows'[t] = Sqlite!Inserted(p, t)
        /\ \A s \in Sqlite!Both \ {t} : rows'[s] = rows[s]
  <2>1. rows \in Sqlite!Contents
    BY <1>1 DEF SqliteTypes
  <2> HIDE DEF t
  <2> QED
    BY <1>2, <1>3, <1>5, <2>1 DEF Sqlite!Contents
<1>7. PICK image : /\ Becomes(p, "persisting", l, image)
                   /\ (setting.file => image = now) /\ file' = file
                        /\ foreignKeys' \in BOOLEAN
  <2>1. now \in Sqlite!Contents
    BY <1>a, <1>6
  <2> QED
    BY <1>1, <1>2, <1>3, <2>1, PersistShape
<1>8. /\ action'[p].at = "persisting" /\ action'[p].todo = l /\ action'[p].image = image
  BY <1>1, <1>7, BecomesShape
<1>9. SqliteTypes'
  <2>1. up
    BY <1>1, <1>2, Upright
  <2> QED
    BY <1>1, <1>2, <1>6, <1>7, <2>1, TypesMove DEF SqliteTypes
<1>10. ASSUME NEW s \in Sqlite!Both \ blurred' PROVE Sharp(s)'
  <2>1. Sqlite!Inside(p) /\ s \notin blurred
    BY <1>2 DEF Sqlite!Inside
  <2>2. Placed(p, s)
    BY <1>2, <2>1 DEF SqliteIInv, Sharp
  <2>3. Ahead(p) = Sqlite!Range(l) /\ Ahead(p)' = Sqlite!Range(Tail(l))
          /\ Brings(p, s)' = Brings(p, s)
    BY <1>2, <1>8 DEF Ahead, Brings
  <2>4. s \notin Sqlite!Range(Tail(l)) => rows'[s] = serial[s]
    <3>1. CASE s = t
      <4>1. rows[s] = {} /\ serial[s] = Brings(p, s)
        BY <1>2, <1>4, <2>2, <3>1 DEF Placed
      <4> QED
        BY <1>5, <1>6, <3>1, <4>1
    <3>2. CASE s # t
      BY <1>4, <1>6, <2>2, <2>3, <3>2 DEF Placed
    <3> QED
      BY <3>1, <3>2
  <2>5. Placed(p, s)'
    <3>1. s \in Sqlite!Range(l) => serial'[s] = Brings(p, s)'
      BY <1>2, <2>2, <2>3 DEF Placed
    <3>2. setting.file => image # Torn /\ image = rows'
      BY <1>a, <1>6, <1>7, PartiesShape
    <3> HIDE DEF l, t
    <3> QED
      BY <1>2, <1>8, <2>3, <2>4, <3>1, <3>2 DEF Placed, l
  <2> QED
    BY <1>2, <1>7, <2>1, <2>5, InsideMoves
<1> QED
  BY <1>9, <1>10 DEF SqliteIInv

\* A call that fails leaves every table in doubt.
LEMMA InsertFailsKeeps ==
  ASSUME Sqlite!SqliteAssumption, SqliteIInv, NEW p \in Parties, Sqlite!InsertFails(p)
  PROVE  SqliteIInv'
<1> DEFINE t == action[p].todo[1]
<1> DEFINE at == IF p \in SqliteTxs THEN "closed" ELSE "idle"
<1>1. SqliteTypes
  BY DEF SqliteIInv
<1>2. /\ action[p].at = "insert" /\ sqliteFaults < MaxSqliteFaults
           /\ sqliteFaults' = sqliteFaults + 1
      /\ rows' \in {rows, [rows EXCEPT ![t] = Sqlite!Inserted(p, t)]}
      /\ action' = [action EXCEPT ![p] = [Sqlite!NoAction EXCEPT !.at = at]]
           /\ blurred' = Sqlite!Both
      /\ UNCHANGED <<setting, foreignKeys, file, copy, calls, up, serial>>
  BY DEF Sqlite!InsertFails
<1>3. t \in Sqlite!Both
  BY <1>1, <1>2, ListShape DEF SqliteTypes, Acts
<1>4. rows' \in Sqlite!Contents
  <2>1. rows \in Sqlite!Contents /\ Sqlite!Inserted(p, t) \subseteq Sqlite!Owners
    <3>1. rows[t] \subseteq Sqlite!Owners /\ (p \in SqliteTxs =>
            copy[p][t] \subseteq Sqlite!Owners) /\ p \in Sqlite!Owners
      BY <1>1, <1>3, PartiesShape DEF SqliteTypes, Sqlite!Contents
    <3> QED
      BY <1>1, <3>1 DEF Sqlite!Inserted, SqliteTypes
  <2> HIDE DEF t
  <2>2. [rows EXCEPT ![t] = Sqlite!Inserted(p, t)] \in Sqlite!Contents
    BY <1>3, <2>1 DEF Sqlite!Contents
  <2> QED
    BY <1>2, <2>1, <2>2
<1>5. Becomes(p, at, <<>>, Torn)
  <2>1. [Sqlite!NoAction EXCEPT !.at = at] = [at |-> at, todo |-> <<>>, image |-> Torn]
    BY DEF Sqlite!NoAction
  <2> QED
    BY <1>2, <2>1 DEF Becomes, Phases, Lists
<1>6. SqliteTypes'
  <2>1. up
    BY <1>1, <1>2, Upright
  <2>2. sqliteFaults' \in 0..MaxSqliteFaults
    BY <1>1, <1>2, PartiesShape DEF SqliteTypes
  <2> HIDE DEF at
  <2> QED
    BY <1>1, <1>2, <1>4, <1>5, <2>1, <2>2, TypesMove DEF SqliteTypes
<1> QED
  BY <1>2, <1>6 DEF SqliteIInv

\* The file is written, or cut short.
LEMMA PersistedKeeps ==
  ASSUME Sqlite!SqliteAssumption, SqliteIInv, NEW p \in Parties,
         NEW ok \in BOOLEAN, Sqlite!Persisted(p, ok)
  PROVE  SqliteIInv'
<1> DEFINE l == action[p].todo
<1> DEFINE rest == Tail(l)
<1> DEFINE next == IF rest # <<>> THEN "ensure" ELSE IF p \in SqliteTxs THEN "closed" ELSE "idle"
<1>1. SqliteTypes
  BY DEF SqliteIInv
<1>2. /\ action[p].at \in {"ensuring", "persisting"}
      /\ sqliteFaults' = IF ok THEN sqliteFaults ELSE sqliteFaults + 1
      /\ ok \/ sqliteFaults < MaxSqliteFaults
      /\ file' = IF ~setting.file THEN file ELSE IF ok THEN action[p].image ELSE Torn
      /\ action' = [action EXCEPT ![p] =
           CASE ~ok -> [Sqlite!NoAction EXCEPT !.at = IF p \in SqliteTxs THEN "closed" ELSE "idle"]
             [] ok /\ action[p].at = "ensuring" -> [action[p] EXCEPT !.at = "delete"]
             [] OTHER -> [Sqlite!NoAction EXCEPT !.todo = rest, !.at = next]]
      /\ blurred' = IF ok THEN blurred ELSE Sqlite!Both
      /\ UNCHANGED <<setting, rows, foreignKeys, copy, calls, up, serial>>
  BY DEF Sqlite!Persisted
<1>3. /\ action[p] \in Acts /\ l \in Lists /\ l # <<>> /\ rest \in Lists
      /\ action[p].image \in Sqlite!Contents \cup {Torn}
  BY <1>1, <1>2, ListShape DEF SqliteTypes, Acts
<1>4. Sqlite!NoAction \in Acts /\ Sqlite!NoAction.image = Torn
        /\ Sqlite!NoAction.todo = <<>>
  BY DEF Sqlite!NoAction, Acts, Phases, Lists
<1>5. up /\ file' \in Sqlite!Contents \cup {Torn}
  BY <1>1, <1>2, <1>3, Upright DEF SqliteTypes
<1>6. sqliteFaults' \in 0..MaxSqliteFaults
  BY <1>1, <1>2, PartiesShape DEF SqliteTypes
<1>7. ASSUME NEW at, NEW todo, NEW image, Becomes(p, at, todo, image)
      PROVE  SqliteTypes'
  <2>1. blurred' \in SUBSET Sqlite!Both
    BY <1>1, <1>2 DEF SqliteTypes
  <2> HIDE DEF l, rest, next
  <2> QED
    BY <1>1, <1>2, <1>5, <1>6, <1>7, <2>1, TypesMove DEF SqliteTypes
<1>8. CASE ~ok
  <2> DEFINE at == IF p \in SqliteTxs THEN "closed" ELSE "idle"
  <2>1. Becomes(p, at, <<>>, Torn)
    <3>1. [Sqlite!NoAction EXCEPT !.at = at] = [at |-> at, todo |-> <<>>, image |-> Torn]
      BY DEF Sqlite!NoAction
    <3>2. action' = [action EXCEPT ![p] = [Sqlite!NoAction EXCEPT !.at = at]]
      BY <1>2, <1>8
    <3> QED
      BY <3>1, <3>2 DEF Becomes, Phases, Lists
  <2> HIDE DEF at
  <2>2. SqliteTypes'
    BY <1>7, <2>1
  <2> QED
    BY <1>2, <1>8, <2>2 DEF SqliteIInv
<1>9. CASE ok /\ action[p].at = "ensuring"
  <2>1. Becomes(p, "delete", l, action[p].image)
    <3>1. [action[p] EXCEPT !.at = "delete"] = [at |-> "delete", todo |-> l,
            image |-> action[p].image]
      BY <1>3 DEF Acts
    <3>2. action' = [action EXCEPT ![p] = [action[p] EXCEPT !.at = "delete"]]
      BY <1>2, <1>9
    <3> QED
      BY <1>3, <3>1, <3>2 DEF Becomes, Phases
  <2>2. SqliteTypes'
    BY <1>7, <2>1
  <2>3. /\ action'[p].at = "delete" /\ action'[p].todo = l
             /\ action'[p].image = action[p].image
    BY <1>1, <2>1, BecomesShape
  <2>4. ASSUME NEW s \in Sqlite!Both \ blurred' PROVE Sharp(s)'
    <3>1. Sqlite!Inside(p) /\ s \notin blurred /\ blurred' = blurred
      BY <1>2, <1>9, <2>4 DEF Sqlite!Inside
    <3>2. Placed(p, s)
      BY <3>1 DEF SqliteIInv, Sharp
    <3>3. Ahead(p) = Sqlite!Range(l) /\ Ahead(p)' = Sqlite!Range(l)
            /\ Brings(p, s)' = Brings(p, s)
      BY <1>2, <1>9, <2>3 DEF Ahead, Brings
    <3>4. setting.file => file' = action[p].image
      BY <1>2, <1>9
    <3>5. Placed(p, s)'
      <4> HIDE DEF l, rest, next
      <4> QED
        BY <1>2, <1>9, <2>3, <3>2, <3>3, <3>4 DEF Placed, l
    <3> QED
      BY <2>1, <3>1, <3>5, InsideMoves
  <2> QED
    BY <2>2, <2>4 DEF SqliteIInv
<1>10. CASE ok /\ action[p].at = "persisting"
  <2>0. next \in {"ensure", "closed", "idle"} /\ (next = "ensure" <=> rest # <<>>)
    OBVIOUS
  <2>1. Becomes(p, next, rest, Torn)
    <3>1. action' = [action EXCEPT ![p] = [Sqlite!NoAction EXCEPT !.todo = rest,
            !.at = next]]
      BY <1>2, <1>10
    <3> HIDE DEF next, rest
    <3>2. next \in Phases
      BY <2>0 DEF Phases
    <3>3. [Sqlite!NoAction EXCEPT !.todo = rest, !.at = next] = [at |-> next,
            todo |-> rest, image |-> Sqlite!NoAction.image]
      BY <1>3, <1>4, <3>2, ActChange, Zenon
    <3> QED
      BY <1>3, <1>4, <2>0, <3>1, <3>2, <3>3 DEF Becomes
  <2> HIDE DEF next, rest
  <2>2. SqliteTypes'
    BY <1>7, <2>1
  <2>3. /\ action'[p].at = next /\ action'[p].todo = rest /\ action'[p].image = Torn
    BY <1>1, <2>1, BecomesShape
  <2>4. ASSUME NEW s \in Sqlite!Both \ blurred' PROVE Sharp(s)'
    <3>1. Sqlite!Inside(p) /\ s \notin blurred /\ blurred' = blurred
      BY <1>2, <1>10, <2>4 DEF Sqlite!Inside
    <3>2. Placed(p, s)
      BY <3>1 DEF SqliteIInv, Sharp
    <3>3. Ahead(p) = Sqlite!Range(rest) /\ Sqlite!Range(rest) \subseteq Sqlite!Range(l)
      BY <1>3, <1>10, ListShape DEF Ahead, rest
    <3>4. /\ s \notin Sqlite!Range(rest) => rows'[s] = serial'[s]
          /\ setting'.file => file' # Torn /\ (s \notin Sqlite!Range(rest) =>
               file'[s] = serial'[s])
      BY <1>2, <1>10, <3>2, <3>3 DEF Placed
    <3>5. CASE next = "ensure"
      <4>1. Ahead(p)' = Sqlite!Range(rest) /\ Brings(p, s)' = Brings(p, s)
        BY <1>2, <2>3, <3>5 DEF Ahead, Brings
      <4>2. s \in Sqlite!Range(rest) => serial'[s] = Brings(p, s)'
        BY <1>2, <3>2, <3>3, <4>1 DEF Placed, l
      <4>3. Placed(p, s)'
        <5> HIDE DEF l
        <5> QED
          BY <2>3, <3>4, <3>5, <4>1, <4>2 DEF Placed
      <4> QED
        BY <2>1, <3>1, <3>5, <4>3, InsideMoves
    <3>6. CASE next # "ensure"
      <4>1. Sqlite!Range(<<>>) = {}
        BY DEF Sqlite!Range
      <4>2. rest = <<>> /\ next \in {"closed", "idle"}
        BY <2>0, <3>6
      <4>3. Rests(s)'
        BY <3>4, <4>1, <4>2 DEF Rests
      <4> QED
        BY <2>1, <3>1, <4>2, <4>3, InsideMoves
    <3> QED
      BY <3>5, <3>6
  <2> QED
    BY <2>2, <2>4 DEF SqliteIInv
<1> QED
  BY <1>2, <1>8, <1>9, <1>10

-----------------------------------------------------------------------------
(* Transactions, crashes and the beginning.                                *)

\* A transaction begins, copies a table, writes to its copy or is given up:
\* the database is as it was.
LEMMA OutsideKeeps ==
  ASSUME Sqlite!SqliteAssumption, SqliteIInv, NEW x \in SqliteTxs,
         Sqlite!BeginTransaction(x) \/ Sqlite!Dump(x) \/ Sqlite!Rollback(x)
           \/ \E t \in Sqlite!Both : Sqlite!TxWriteTable(x, t)
  PROVE  SqliteIInv'
<1>1. SqliteTypes /\ x \in Parties /\ action[x] \in Acts
  BY PartiesShape DEF SqliteIInv, SqliteTypes
<1>2. Sqlite!NoAction \in Acts /\ Sqlite!NoAction.image = Torn
        /\ Sqlite!NoAction.todo = <<>>
  BY DEF Sqlite!NoAction, Acts, Phases, Lists
<1>3. UNCHANGED <<setting, rows, foreignKeys, file, sqliteFaults, up, serial, blurred>>
  BY DEF Sqlite!BeginTransaction, Sqlite!Dump, Sqlite!Rollback, Sqlite!TxWriteTable
<1>4. ASSUME NEW t \in Sqlite!Both,
             NEW new, new \subseteq Sqlite!Owners, copy' = [copy EXCEPT ![x][t] = new]
      PROVE  /\ copy' \in [SqliteTxs -> Sqlite!Contents]
             /\ \A q \in Parties \ {x} : q \in SqliteTxs => copy'[q] = copy[q]
  <2>1. copy \in [SqliteTxs -> [Sqlite!Both -> SUBSET Sqlite!Owners]]
    BY <1>1 DEF SqliteTypes, Sqlite!Contents
  <2> QED
    BY <1>4, <2>1 DEF Sqlite!Contents
<1>5. SUFFICES ASSUME /\ ~Sqlite!Inside(x) /\ up
                      /\ copy' \in [SqliteTxs -> Sqlite!Contents]
                      /\ \A q \in Parties \ {x} : q \in SqliteTxs => copy'[q] = copy[q]
                      /\ calls' \in [Parties -> 0..MaxSqliteCalls],
                      \/ action' = action
                      \/ \E at \in {"dump", "open", "closed"},
                           todo \in Lists : Becomes(x, at, todo, Torn)
                      \/ \E at \in {"dump", "open", "closed"},
                           todo \in Lists : Becomes(x, at, todo, action[x].image)
               PROVE  SqliteIInv'
  <2>1. CASE Sqlite!BeginTransaction(x)
    <3>1. /\ up /\ action[x].at = "idle" /\ copy' = copy /\ calls' = calls
          /\ action' = [action EXCEPT ![x] = [Sqlite!NoAction EXCEPT !.at = "dump",
               !.todo = setting.order]]
      BY <2>1 DEF Sqlite!BeginTransaction
    <3>2. setting.order \in Lists /\ setting.order # <<>>
      BY <1>1 DEF SqliteTypes, Lists
    <3>3. [Sqlite!NoAction EXCEPT !.at = "dump", !.todo = setting.order]
            = [at |-> "dump", todo |-> setting.order, image |-> Sqlite!NoAction.image]
      <4>1. "dump" \in Phases
        BY DEF Phases
      <4>2. Sqlite!NoAction \in Acts /\ setting.order \in Lists
        BY <1>2, <3>2
      <4> QED
        BY <4>1, <4>2, ActChange, Zenon
    <3>4. Becomes(x, "dump", setting.order, Torn)
      BY <1>2, <3>1, <3>2, <3>3 DEF Becomes, Phases
    <3> QED
      BY <1>1, <1>5, <3>1, <3>2, <3>4 DEF Sqlite!Inside, SqliteTypes
  <2>2. CASE Sqlite!Dump(x)
    <3> DEFINE l == action[x].todo
    <3> DEFINE at == IF Tail(l) = <<>> THEN "open" ELSE "dump"
    <3>1. /\ action[x].at = "dump" /\ copy' = [copy EXCEPT ![x][l[1]] = rows[l[1]]]
               /\ calls' = calls
          /\ action' = [action EXCEPT ![x].todo = Tail(l), ![x].at = at]
      BY <2>2 DEF Sqlite!Dump
    <3>2. l \in Lists /\ l # <<>> /\ l[1] \in Sqlite!Both /\ Tail(l) \in Lists /\ up
      BY <1>1, <3>1, ListShape, Upright DEF SqliteTypes, Acts
    <3>3. rows[l[1]] \subseteq Sqlite!Owners
      BY <1>1, <3>2 DEF SqliteTypes, Sqlite!Contents
    <3>4. /\ copy' \in [SqliteTxs -> Sqlite!Contents]
          /\ \A q \in Parties \ {x} : q \in SqliteTxs => copy'[q] = copy[q]
      <4> HIDE DEF l
      <4> QED
        BY <1>4, <3>1, <3>2, <3>3
    <3>5. at \in {"dump", "open"} /\ at \in Phases /\ (at = "dump" => Tail(l) # <<>>)
      BY DEF Phases
    <3>6. Becomes(x, at, Tail(l), action[x].image)
      <4>1. action' = [action EXCEPT ![x] = [action[x] EXCEPT !.todo = Tail(l), !.at = at]]
        <5> DEFINE a == [action EXCEPT ![x].todo = Tail(l)]
        <5> DEFINE b == [action[x] EXCEPT !.todo = Tail(l)]
        <5> HIDE DEF at
        <5>1. a = [action EXCEPT ![x] = b]
          OBVIOUS
        <5>2. action \in [Parties -> Acts]
          BY <1>1 DEF SqliteTypes
        <5>3. a[x] = b
          BY <1>1, <5>1, <5>2
        <5>4. action' = [a EXCEPT ![x] = [b EXCEPT !.at = at]]
          BY <3>1, <5>3
        <5>5. action' = [action EXCEPT ![x] = [b EXCEPT !.at = at]]
          <6> HIDE DEF b
          <6> QED
            BY <5>1, <5>2, <5>4
        <5> QED
          BY <5>5
      <4> HIDE DEF at
      <4>2. [action[x] EXCEPT !.todo = Tail(l), !.at = at] = [at |-> at,
              todo |-> Tail(l), image |-> action[x].image]
        BY <1>1, <3>2, <3>5, ActChange, Zenon
      <4> HIDE DEF l
      <4> QED
        BY <1>1, <3>2, <3>5, <4>1, <4>2 DEF Becomes, Acts
    <3>7. ~Sqlite!Inside(x) /\ calls' \in [Parties -> 0..MaxSqliteCalls]
      BY <1>1, <3>1 DEF Sqlite!Inside, SqliteTypes
    <3> HIDE DEF at, l
    <3>8. \E h \in {"dump", "open", "closed"}, todo \in Lists : Becomes(x, h, todo,
            action[x].image)
      BY <3>2, <3>5, <3>6
    <3> QED
      BY <1>5, <3>2, <3>4, <3>7, <3>8
  <2>3. CASE Sqlite!Rollback(x)
    <3>1. /\ action[x].at = "open" /\ copy' = copy /\ calls' = calls
          /\ action' = [action EXCEPT ![x] = [Sqlite!NoAction EXCEPT !.at = "closed"]]
      BY <2>3 DEF Sqlite!Rollback
    <3>2. [Sqlite!NoAction EXCEPT !.at = "closed"] = [at |-> "closed", todo |-> <<>>,
            image |-> Torn]
      BY DEF Sqlite!NoAction
    <3>3. Becomes(x, "closed", <<>>, Torn) /\ <<>> \in Lists
      BY <3>1, <3>2 DEF Becomes, Phases, Lists
    <3>4. up
      BY <1>1, <3>1, Upright
    <3> QED
      BY <1>1, <1>5, <3>1, <3>3, <3>4 DEF Sqlite!Inside, SqliteTypes
  <2>4. ASSUME NEW t \in Sqlite!Both, Sqlite!TxWriteTable(x, t) PROVE SqliteIInv'
    <3>1. /\ action[x].at = "open" /\ calls[x] < MaxSqliteCalls
               /\ calls' = [calls EXCEPT ![x] = calls[x] + 1]
          /\ copy' = [copy EXCEPT ![x][t] = {x}] /\ action' = action
      BY <2>4 DEF Sqlite!TxWriteTable
    <3>2. {x} \subseteq Sqlite!Owners
      BY <1>1, PartiesShape
    <3>3. calls' \in [Parties -> 0..MaxSqliteCalls]
      BY <1>1, <3>1, PartiesShape DEF SqliteTypes
    <3>4. up
      BY <1>1, <3>1, Upright
    <3>5. /\ copy' \in [SqliteTxs -> Sqlite!Contents]
          /\ \A q \in Parties \ {x} : q \in SqliteTxs => copy'[q] = copy[q]
      BY <1>4, <3>1, <3>2
    <3> QED
      BY <1>5, <3>1, <3>3, <3>4, <3>5 DEF Sqlite!Inside
  <2> QED
    BY <2>1, <2>2, <2>3, <2>4
<1>6. ASSUME NEW at \in {"dump", "open", "closed"}, NEW todo,
             NEW image, Becomes(x, at, todo, image)
      PROVE  SqliteTypes' /\ ~Sqlite!Inside(x)'
               /\ \A q \in Parties \ {x} : action'[q] = action[q]
  <2>1. SqliteTypes'
    BY <1>1, <1>3, <1>5, <1>6, TypesMove DEF SqliteTypes
  <2>2. action'[x].at = at /\ \A q \in Parties \ {x} : action'[q] = action[q]
    BY <1>1, <1>6, BecomesShape
  <2> QED
    BY <2>1, <2>2 DEF Sqlite!Inside
<1>7. SqliteTypes' /\ ~Sqlite!Inside(x)' /\ \A q \in Parties \ {x} : action'[q] = action[q]
  <2>1. CASE action' = action
    <3>1. SqliteTypes'
      BY <1>1, <1>3, <1>5, <2>1 DEF SqliteTypes
    <3> QED
      BY <1>5, <2>1, <3>1 DEF Sqlite!Inside
  <2> QED
    BY <1>5, <1>6, <2>1
<1>8. \A t \in Sqlite!Both \ blurred' : Sharp(t)'
  BY <1>1, <1>3, <1>5, <1>7, OutsideMoves
<1> QED
  BY <1>7, <1>8 DEF SqliteIInv

\* A commit is to write what its copy holds.
LEMMA CommitKeeps ==
  ASSUME Sqlite!SqliteAssumption, SqliteIInv, NEW x \in SqliteTxs, Sqlite!Commit(x)
  PROVE  SqliteIInv'
<1>1. SqliteTypes /\ x \in Parties
  BY PartiesShape DEF SqliteIInv
<1>2. /\ action[x].at = "open" /\ serial' = copy[x] /\ blurred' = Sqlite!Meets(x)
      /\ action' = [action EXCEPT ![x] = [Sqlite!NoAction EXCEPT !.at = "ensure",
           !.todo = setting.order]]
      /\ UNCHANGED <<setting, rows, foreignKeys, file, copy, sqliteFaults, calls, up>>
  BY DEF Sqlite!Commit
<1>3. setting.order \in Lists /\ setting.order # <<>>
        /\ Sqlite!Range(setting.order) = Sqlite!Both
  <2>1. setting.order = <<"parent", "child">> \/ setting.order = <<"child", "parent">>
    BY <1>1 DEF SqliteTypes
  <2>2. \A a, b : Sqlite!Range(<<a, b>>) = {a, b}
    BY DEF Sqlite!Range
  <2> QED
    <3>1. setting.order \in Lists
      BY <2>1 DEF Lists
    <3>2. setting.order # <<>>
      BY <2>1
    <3>3. Sqlite!Range(setting.order) = {"parent", "child"}
      BY <2>1, <2>2
    <3> QED
      BY <3>1, <3>2, <3>3 DEF Sqlite!Both
<1>4. Becomes(x, "ensure", setting.order, Torn)
  <2>1. Sqlite!NoAction \in Acts /\ Sqlite!NoAction.image = Torn /\ "ensure" \in Phases
    BY DEF Sqlite!NoAction, Acts, Phases, Lists
  <2>2. [Sqlite!NoAction EXCEPT !.at = "ensure", !.todo = setting.order]
          = [at |-> "ensure", todo |-> setting.order, image |-> Sqlite!NoAction.image]
    BY <1>3, <2>1, ActChange, Zenon
  <2> QED
    BY <1>2, <1>3, <2>1, <2>2 DEF Becomes
<1>5. action'[x].at = "ensure" /\ action'[x].todo = setting.order
  BY <1>1, <1>4, BecomesShape
<1>6. SqliteTypes'
  <2>1. up
    BY <1>1, <1>2, Upright
  <2>2. serial' \in Sqlite!Contents /\ blurred' \in SUBSET Sqlite!Both
    BY <1>1, <1>2 DEF SqliteTypes, Sqlite!Meets
  <2> QED
    BY <1>1, <1>2, <1>4, <2>1, <2>2, TypesMove DEF SqliteTypes
<1>7. ASSUME NEW t \in Sqlite!Both \ blurred' PROVE Sharp(t)'
  <2>1. ~Sqlite!Inside(x)
    BY <1>2 DEF Sqlite!Inside
  <2>2. Placed(x, t)'
    <3>1. t \in Ahead(x)' /\ serial'[t] = Brings(x, t)'
      BY <1>2, <1>3, <1>5 DEF Ahead, Brings
    <3> QED
      BY <1>5, <3>1 DEF Placed
  <2>3. blurred' = {} \cup Sqlite!Meets(x)
    BY <1>2
  <2> QED
    BY <1>1, <1>4, <2>1, <2>2, <2>3, MethodBegins
<1> QED
  BY <1>6, <1>7 DEF SqliteIInv

\* A table that is ensured in a transaction keeps what always holds.
LEMMA EnsureKeeps ==
  ASSUME Sqlite!SqliteAssumption, SqliteIInv, NEW x \in SqliteTxs, Sqlite!EnsureTable(x)
  PROVE  SqliteIInv'
<1> DEFINE l == action[x].todo
<1>1. SqliteTypes /\ x \in Parties
  BY PartiesShape DEF SqliteIInv
<1>2. /\ action[x].at = "ensure" /\ Sqlite!Persist(x, rows, "ensuring")
      /\ UNCHANGED <<setting, rows, copy, sqliteFaults, calls, up, serial, blurred>>
  BY DEF Sqlite!EnsureTable
<1>3. rows \in Sqlite!Contents /\ l # <<>> /\ up
  BY <1>1, <1>2, Upright DEF SqliteTypes
<1>4. PICK image : /\ Becomes(x, "ensuring", l, image)
                   /\ (setting.file => image = rows) /\ file' = file
                        /\ foreignKeys' \in BOOLEAN
  BY <1>1, <1>2, <1>3, PersistShape
<1>5. /\ action'[x].at = "ensuring" /\ action'[x].todo = l /\ action'[x].image = image
  BY <1>1, <1>4, BecomesShape
<1>6. SqliteTypes'
  BY <1>1, <1>2, <1>3, <1>4, TypesMove DEF SqliteTypes
<1>7. ASSUME NEW t \in Sqlite!Both \ blurred' PROVE Sharp(t)'
  <2>1. Sqlite!Inside(x) /\ t \notin blurred
    BY <1>2 DEF Sqlite!Inside
  <2>2. Placed(x, t)
    BY <1>1, <1>2, <2>1 DEF SqliteIInv, Sharp
  <2>3. Ahead(x) = Sqlite!Range(l) /\ Ahead(x)' = Sqlite!Range(l)
          /\ Brings(x, t)' = Brings(x, t)
    BY <1>2, <1>5 DEF Ahead, Brings
  <2>4. setting.file => image # Torn /\ image = rows
    BY <1>3, <1>4, PartiesShape
  <2>5. Placed(x, t)'
    <3> HIDE DEF l
    <3> QED
      BY <1>2, <1>4, <1>5, <2>2, <2>3, <2>4 DEF Placed, l
  <2> QED
    BY <1>1, <1>2, <1>4, <2>1, <2>5, InsideMoves
<1> QED
  BY <1>6, <1>7 DEF SqliteIInv

\* A crash keeps what always holds.
LEMMA CrashKeeps ==
  ASSUME Sqlite!SqliteAssumption, SqliteIInv, Sqlite!Crash
  PROVE  SqliteIInv'
<1>1. SqliteTypes /\ DOMAIN action = Parties
  BY DEF SqliteIInv, SqliteTypes
<1>2. /\ up /\ setting.file /\ sqliteFaults < MaxSqliteFaults
           /\ sqliteFaults' = sqliteFaults + 1 /\ up' = FALSE
      /\ file' \in {file} \cup (IF \E p \in Parties : action[p].at \in {"ensuring",
           "persisting"}
                                THEN {Torn} ELSE {})
      /\ action' = [p \in Parties |-> IF action[p].at = "idle" THEN Sqlite!NoAction
                      ELSE [Sqlite!NoAction EXCEPT !.at = IF p \in SqliteTxs THEN "closed" ELSE "idle"]]
      /\ blurred' = IF \E p \in Parties : Sqlite!Inside(p) THEN Sqlite!Both ELSE blurred
      /\ UNCHANGED <<setting, rows, foreignKeys, copy, calls, serial>>
  BY <1>1 DEF Sqlite!Crash
<1>3. /\ action' \in [Parties -> Acts]
           /\ \A p \in Parties : action'[p].at \in {"idle", "closed"}
  <2>1. Sqlite!NoAction \in Acts /\ Sqlite!NoAction.at = "idle"
    BY DEF Sqlite!NoAction, Acts, Phases, Lists
  <2>2. \A h \in {"closed", "idle"} : [Sqlite!NoAction EXCEPT !.at = h] \in Acts
          /\ [Sqlite!NoAction EXCEPT !.at = h].at = h
    BY DEF Sqlite!NoAction, Acts, Phases, Lists
  <2> QED
    BY <1>2, <2>1, <2>2
<1>4. \A p \in Parties : ~Sqlite!Inside(p)'
  BY <1>3 DEF Sqlite!Inside
<1>5. SqliteTypes'
  <2>1. /\ setting' = setting /\ rows' = rows /\ foreignKeys' = foreignKeys /\ copy' = copy
        /\ calls' = calls /\ serial' = serial /\ ~up' /\ up' \in BOOLEAN
    BY <1>2
  <2>2. file' \in Sqlite!Contents \cup {Torn} /\ blurred' \in SUBSET Sqlite!Both
    BY <1>1, <1>2 DEF SqliteTypes
  <2>3. sqliteFaults' \in 0..MaxSqliteFaults
    BY <1>1, <1>2, PartiesShape DEF SqliteTypes
  <2>4. setting.file
    BY <1>2
  <2> QED
    BY <1>1, <1>3, <2>1, <2>2, <2>3, <2>4 DEF SqliteTypes, Sqlite!Contents
<1>6. ASSUME NEW t \in Sqlite!Both \ blurred' PROVE Sharp(t)'
  <2>1. (\A p \in Parties : ~Sqlite!Inside(p)) /\ t \notin blurred
    BY <1>2
  <2>2. Rests(t)
    BY <2>1 DEF SqliteIInv, Sharp
  <2>3. file' = file
    BY <1>2, <2>1 DEF Sqlite!Inside
  <2>4. Rests(t)'
    BY <1>2, <2>2, <2>3 DEF Rests
  <2> QED
    BY <1>4, <2>4 DEF Sharp
<1> QED
  BY <1>5, <1>6 DEF SqliteIInv

\* A driver that starts on its file again keeps what always holds.
LEMMA InitAgainKeeps ==
  ASSUME Sqlite!SqliteAssumption, SqliteIInv, Sqlite!InitAgain
  PROVE  SqliteIInv'
<1>1. /\ SqliteTypes /\ ~up /\ file # Torn /\ up' = TRUE /\ rows' = file
           /\ foreignKeys' = TRUE
      /\ UNCHANGED <<setting, file, action, copy, sqliteFaults, calls, serial, blurred>>
  BY DEF SqliteIInv, Sqlite!InitAgain
<1>2. SqliteTypes'
  <2>1. rows' \in Sqlite!Contents /\ foreignKeys' \in BOOLEAN /\ up' \in BOOLEAN
    BY <1>1 DEF SqliteTypes
  <2> QED
    BY <1>1, <2>1 DEF SqliteTypes
<1>3. (\A p \in Parties : ~Sqlite!Inside(p)) /\ setting.file
  BY <1>1 DEF SqliteTypes, Sqlite!Inside
<1>4. ASSUME NEW t \in Sqlite!Both \ blurred' PROVE Sharp(t)'
  <2>1. Rests(t)
    BY <1>1, <1>3 DEF SqliteIInv, Sharp
  <2>2. Rests(t)' /\ \A p \in Parties : ~Sqlite!Inside(p)'
    BY <1>1, <1>3, <2>1 DEF Rests, Sqlite!Inside
  <2> QED
    BY <2>2 DEF Sharp
<1> QED
  BY <1>2, <1>4 DEF SqliteIInv

\* What always holds does so at first.
LEMMA SqliteStarts ==
  ASSUME Sqlite!SqliteAssumption, Sqlite!Init
  PROVE  SqliteIInv
<1>1. [t \in Sqlite!Both |-> {"seed"}] \in Sqlite!Contents
  BY DEF Sqlite!Contents, Sqlite!Owners
<1>2. /\ rows = [t \in Sqlite!Both |-> {"seed"}] /\ file = rows /\ serial = rows
           /\ up = TRUE /\ blurred = {}
      /\ action = [p \in Parties |-> Sqlite!NoAction]
           /\ foreignKeys \in {TRUE, ~setting.file}
      /\ setting \in [file : BOOLEAN, order : {<<"parent", "child">>, <<"child",
           "parent">>}]
  BY DEF Sqlite!Init, Parties
<1>3. SqliteTypes
  <2>1. Sqlite!NoAction \in Acts /\ Sqlite!NoAction.at = "idle"
    BY DEF Sqlite!NoAction, Acts, Phases, Lists
  <2>2. action \in [Parties -> Acts] /\ \A p \in Parties : action[p].at = "idle"
    BY <1>2, <2>1
  <2>3. copy \in [SqliteTxs -> Sqlite!Contents]
    BY DEF Sqlite!Init, Sqlite!Contents
  <2>4. sqliteFaults \in 0..MaxSqliteFaults /\ calls \in [Parties -> 0..MaxSqliteCalls]
    BY PartiesShape DEF Sqlite!Init, Parties
  <2>5. setting.file \in BOOLEAN
    BY <1>2
  <2>6. foreignKeys \in BOOLEAN /\ up \in BOOLEAN /\ up
    BY <1>2, <2>5
  <2> QED
    BY <1>1, <1>2, <2>2, <2>3, <2>4, <2>6 DEF SqliteTypes
<1>4. ASSUME NEW t \in Sqlite!Both \ blurred PROVE Sharp(t)
  <2>1. \A p \in Parties : ~Sqlite!Inside(p)
    BY <1>2 DEF Sqlite!Inside, Sqlite!NoAction
  <2>2. Rests(t)
    BY <1>1, <1>2, PartiesShape DEF Rests
  <2> QED
    BY <2>1, <2>2 DEF Sharp
<1> QED
  BY <1>3, <1>4 DEF SqliteIInv

\* Every step keeps what always holds.
LEMMA SqliteKeeps ==
  ASSUME Sqlite!SqliteAssumption, SqliteIInv, [Sqlite!Next]_Sqlite!vars
  PROVE  SqliteIInv'
<1>1. CASE UNCHANGED Sqlite!vars
  <2>1. SqliteTypes'
    BY <1>1 DEF SqliteIInv, SqliteTypes, Sqlite!vars
  <2>2. ASSUME NEW t \in Sqlite!Both \ blurred' PROVE Sharp(t)'
    <3>1. Sharp(t)
      BY <1>1 DEF SqliteIInv, Sqlite!vars
    <3> QED
      BY <1>1, <3>1 DEF Sharp, Rests, Placed, Sqlite!Inside, Ahead, Brings, Sqlite!vars
  <2> QED
    BY <2>1, <2>2 DEF SqliteIInv
<1>2. ASSUME NEW p \in SqliteWriters,
             NEW t \in Sqlite!Both, Sqlite!WriteTable(p, t) PROVE SqliteIInv'
  BY <1>2, WriteKeeps
<1>3. ASSUME NEW p \in Parties, Sqlite!Delete(p) \/ Sqlite!Insert(p)
               \/ Sqlite!InsertFails(p) \/ \E ok \in BOOLEAN : Sqlite!Persisted(p, ok)
      PROVE  SqliteIInv'
  BY <1>3, DeleteKeeps, InsertKeeps, InsertFailsKeeps, PersistedKeeps
<1>4. ASSUME NEW x \in SqliteTxs,
             \/ Sqlite!BeginTransaction(x) \/ Sqlite!Dump(x) \/ Sqlite!Rollback(x)
                  \/ Sqlite!Commit(x) \/ Sqlite!EnsureTable(x)
             \/ \E t \in Sqlite!Both : Sqlite!TxWriteTable(x, t)
      PROVE  SqliteIInv'
  BY <1>4, OutsideKeeps, CommitKeeps, EnsureKeeps
<1> QED
  BY <1>1, <1>2, <1>3, <1>4, CrashKeeps, InitAgainKeeps DEF Sqlite!Next, Parties

\* Sqlite: between calls a table and its file hold what the last call left, for
\* any number of callers and transactions, but for what blurred lists.
LEMMA SqliteLife ==
  ASSUME Sqlite!SqliteAssumption
  PROVE  Sqlite!Spec => [](Sqlite!TypeOK /\ Sqlite!SqliteSerial)
<1>1. Sqlite!Init => SqliteIInv
  BY SqliteStarts
<1>2. SqliteIInv /\ [Sqlite!Next]_Sqlite!vars => SqliteIInv'
  BY SqliteKeeps
<1>3. ASSUME SqliteIInv PROVE Sqlite!TypeOK
  <2>1. SqliteTypes
    BY <1>3 DEF SqliteIInv
  <2>2. ASSUME NEW p \in Sqlite!Owners \ {"seed"}
        PROVE  /\ action[p].at \in Phases /\ Len(action[p].todo) <= 2
                    /\ action[p].image \in Sqlite!Contents \cup {Torn}
    <3>1. action[p] \in Acts
      BY <2>1 DEF SqliteTypes, Parties
    <3>2. \A l \in Lists : Len(l) <= 2
      <4>1. Len(<<>>) <= 2
        OBVIOUS
      <4>2. \A a : Len(<<a>>) <= 2
        OBVIOUS
      <4>3. \A a, b : Len(<<a, b>>) <= 2
        OBVIOUS
      <4> QED
        BY <4>1, <4>2, <4>3, Zenon DEF Lists
    <3> QED
      BY <3>1, <3>2 DEF Acts
  <2> QED
    BY <2>1, <2>2 DEF Sqlite!TypeOK, SqliteTypes, Phases, Parties
<1>4. ASSUME SqliteIInv PROVE Sqlite!SqliteSerial
  BY <1>4 DEF SqliteIInv, Sqlite!SqliteSerial, Sharp, Rests, Parties
<1> QED
  BY <1>1, <1>2, <1>3, <1>4, PTL DEF Sqlite!Spec

\* A behaviour of the suite is one of the sqlite driver.
LEMMA SqliteOfTheSuite == SuiteSpec => Sqlite!Spec
<1>1. SuiteInit => Sqlite!Init
  BY DEF SuiteInit, Starts
<1>2. [SuiteNext]_SuiteVars => [Sqlite!Next]_(Sqlite!vars)
  BY DEF SuiteNext, SuiteVars, sqliteVars, Sqlite!vars, Turn, PoolSteps, SqliteSteps,
         TableSteps, ToolsSteps, ScopeSteps, MigrationSteps, SeedSteps
<1> QED
  BY <1>1, <1>2, PTL DEF SuiteSpec, Sqlite!Spec

\* The tables of sqlite and its file hold what the calls, one by one, would have
\* left, for any number of callers and transactions, but where calls overlapped or
\* a step of one failed.
THEOREM SqliteKeepsWhatWasWritten == SuiteSpec => []SqliteSerial
<1>1. Sqlite!Spec => [](Sqlite!TypeOK /\ Sqlite!SqliteSerial)
  BY SqliteLife, DriversAssumption DEF DriversAssumption
<1>2. Sqlite!SqliteSerial => SqliteSerial
  BY DEF SqliteSerial
<1> QED
  BY <1>1, <1>2, SqliteOfTheSuite, PTL

-----------------------------------------------------------------------------
(* What is proved of ensureTable and of the schema tools in                *)
(* SchemaSuiteProofs, and the types of all.                                *)

\* A behaviour of the suite is one of ensureTable.
LEMMA TablesOfTheSuite == SuiteSpec => Sync!SyncSpec
<1>1. SuiteInit => Sync!SyncInit
  BY DEF SuiteInit, Starts
<1>2. [SuiteNext]_SuiteVars => [Sync!SyncNext]_(Sync!syncVars)
  BY DEF SuiteNext, SuiteVars, tableVars, Sync!syncVars, Turn, PoolSteps, SqliteSteps,
         TableSteps, ToolsSteps, ScopeSteps, MigrationSteps, SeedSteps
<1> QED
  BY <1>1, <1>2, PTL DEF SuiteSpec, Sync!SyncSpec

\* A behaviour of the suite is one of the schema tools.
LEMMA ToolsOfTheSuite == SuiteSpec => Tools!ToolsSpec
<1>1. SuiteInit => Tools!ToolsInit
  BY DEF SuiteInit, Starts
<1>2. [SuiteNext]_SuiteVars => [Tools!ToolsNext]_(Tools!toolVars)
  BY DEF SuiteNext, SuiteVars, toolVars, Tools!toolVars, Turn, PoolSteps, SqliteSteps,
         TableSteps, ToolsSteps, ScopeSteps, MigrationSteps, SeedSteps
<1> QED
  BY <1>1, <1>2, PTL DEF SuiteSpec, Tools!ToolsSpec

\* An ensureTable that returned has brought the table to the entity's schema, the
\* table has its rows, and getSchema reads its columns back, for every driver,
\* any versions of the entity and any number of processes, whichever version was
\* there before, and however often a connection was lost or a statement refused.
THEOREM TableReachesTheEntity == SuiteSpec => []TableKept
<1>1. Sync!SyncSpec => [](Sync!TypeOK /\ Sync!SyncReached /\ Sync!RowsKept /\ Sync!ReadsBack)
  BY SyncLife, DriversAssumption DEF DriversAssumption
<1>2. Sync!SyncReached /\ Sync!RowsKept /\ Sync!ReadsBack => TableKept
  BY DEF TableKept
<1> QED
  BY <1>1, <1>2, TablesOfTheSuite, PTL

\* A script, run to its end on the schema it was made for, leaves the schema of
\* the entity, and what is queued on a builder is in effect once when execute has
\* returned, for any schemas, any changes and any faults; but where an operation
\* altered a table whose constraints were not known, or mysql, mssql or oracle were
\* to do more to it than add columns.
THEOREM SchemaToolsReach == SuiteSpec => []ToolsReach
<1>1. Tools!ToolsSpec => [](Tools!TypeOK /\ Tools!ScriptReaches /\ Tools!QueuedOnce)
  BY ToolsLife, DriversAssumption DEF DriversAssumption
<1>2. Tools!ScriptReaches /\ Tools!QueuedOnce => ToolsReach
  BY DEF ToolsReach
<1> QED
  BY <1>1, <1>2, ToolsOfTheSuite, PTL

\* The invariant of the pool has its variables hold values of their kinds.
LEMMA PoolTyped == PoolIInv => Sql!TypeOK
<1> SUFFICES ASSUME PoolTypes
             PROVE  Sql!TypeOK
  BY DEF PoolIInv
<1>1. \A c \in Clients :
        /\ client[c].owner \in Sql!Parties \cup {Nobody}
        /\ client[c].work \in Sql!Works
        /\ client[c].saved \subseteq Sql!Works
        /\ client[c].aborted \in BOOLEAN
  BY DEF PoolTypes, ClientRecords
<1> QED
  BY <1>1 DEF PoolTypes, JobRecords, TxRecords, Sql!TypeOK

\* So do those of the runners and the seeders.
LEMMA RunsTyped == MigIInv /\ SeedIInv => Mig!TypeOK
<1> SUFFICES ASSUME MigTypes, SeedIInv
             PROVE  Mig!TypeOK
  BY DEF MigIInv
<1>1. \A r \in Runners : runner[r].at \in {"idle", "next", "queued", "record"}
  BY RunFields
<1>2. /\ visit.at \in {"visit", "circular", "plant", "threw"}
      /\ Mig!Range(visit.stack) \cup visit.visited \subseteq selected
  <2>1. SeedTypes
    BY DEF SeedIInv
  <2>2. /\ visit.stack \in Seq(selected) /\ visit.visited \in SUBSET selected
        /\ visit.at \in {"visit", "circular", "plant", "threw"}
    BY <2>1 DEF SeedTypes
  <2> QED
    BY <2>2 DEF Mig!Range
<1> QED
  BY <1>1, <1>2 DEF SeedIInv, SeedTypes, MigTypes, Mig!TypeOK

\* The variables of every component hold values of their kinds.
THEOREM SuiteIsTyped == SuiteSpec => []TypesOK
<1> USE DriversAssumption DEF DriversAssumption
<1>1. Uow!UowSpec => [](Uow!TypeOK /\ Uow!OutcomeTold)
  BY UnitOfWorkOutcome
<1>2. Sqlite!Spec => [](Sqlite!TypeOK /\ Sqlite!SqliteSerial)
  BY SqliteLife
<1>3. Sync!SyncSpec => [](Sync!TypeOK /\ Sync!SyncReached /\ Sync!RowsKept /\ Sync!ReadsBack)
  BY SyncLife
<1>4. Tools!ToolsSpec => [](Tools!TypeOK /\ Tools!ScriptReaches /\ Tools!QueuedOnce)
  BY ToolsLife
<1>5. PoolIInv => Sql!TypeOK
  BY PoolTyped
<1>6. MigIInv /\ SeedIInv => Mig!TypeOK
  BY RunsTyped
<1>7. Uow!TypeOK /\ Sqlite!TypeOK /\ Sync!TypeOK /\ Tools!TypeOK /\ Sql!TypeOK /\ Mig!TypeOK
        => TypesOK
  BY DEF TypesOK
<1> QED
  BY <1>1, <1>2, <1>3, <1>4, <1>5, <1>6, <1>7, ScopesOfTheSuite, SqliteOfTheSuite,
     TablesOfTheSuite, ToolsOfTheSuite, PoolOfTheSuite, RunsAndSeedsOfTheSuite, PTL

=================================================================================
