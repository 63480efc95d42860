----------------------------- MODULE UnitOfWork -----------------------------
(***************************************************************************)
(* How a caller learns what became of its transaction.  A scope is made by *)
(* Connection.beginUnitOfWork and run, by the @UnitOfWorkBoundary          *)
(* decorator, by Connection.transaction (which @Transactional calls), or   *)
(* by hand with hooks of the caller's own (new UnitOfWork).  The handler   *)
(* of a scope may share it with a second caller that commits or rolls back *)
(* beside it.  The driver is an in-process one: its transaction closes     *)
(* when commit or rollback is called, before either has an effect, and     *)
(* refuses every later call.                                               *)
(***************************************************************************)
EXTENDS Naturals, FiniteSets

CONSTANTS Scopes,         \* units of work
          MaxCommitFaults \* commits of the driver that fail (a file that cannot be written)

UnitOfWorkAssumption == MaxCommitFaults \in Nat

Forms    == {"run", "boundary", "transaction", "byHand"}
Callers  == {"owner", "helper"}
Calls    == {"commit", "rollback"}
Steps    == {"idle", "handler", "end"} \cup Calls
            \cup {"committing", "onCommit", "onRollback"}

VARIABLES form,        \* how each scope was made
          transaction, \* the driver's transaction of each scope
          completed,   \* UnitOfWork.completed
          step,        \* where each caller of a scope is
          hooks,       \* per scope: onCommit and onRollback started, one of them failed
          asked,       \* per scope: the calls the helper made
          outcome,     \* what the owner was told
          adopted,     \* scopes whose identity map the connection's took over
          commitFaults

uowVars == <<form, transaction, completed, step, hooks, asked, outcome, adopted, commitFaults>>

NoHooks == [onCommit |-> 0, onRollback |-> 0, failed |-> FALSE]

Move(s, c, to) == step' = [step EXCEPT ![s][c] = to]

\* A call of c ends; the owner's caller is told what became of it.
End(s, c, told) ==
    /\ Move(s, c, "end")
    /\ outcome' = IF c = "owner" THEN [outcome EXCEPT ![s] = told] ELSE outcome

\* An error at c: the catch of the owner's run, boundary or transaction rolls
\* back and throws on; an error of that rollback goes straight to the caller,
\* as does one in a call of the helper's.
Throw(s, c) ==
    IF c = "owner" /\ step[s][c] \notin {"rollback", "onRollback"}
    THEN Move(s, c, "rollback") /\ UNCHANGED outcome
    ELSE End(s, c, "rejected")

-----------------------------------------------------------------------------

\* beginTransaction of the driver, then the handler is called.
Begin(s) ==
    /\ step[s]["owner"] = "idle"
    /\ Move(s, "owner", "handler")
    /\ transaction' = [transaction EXCEPT ![s] = "active"]
    /\ UNCHANGED <<form, completed, hooks, asked, outcome, adopted, commitFaults>>

HandlerReturns(s) ==
    /\ step[s]["owner"] = "handler"
    /\ Move(s, "owner", "commit")
    /\ UNCHANGED <<form, transaction, completed, hooks, asked, outcome, adopted, commitFaults>>

HandlerThrows(s) ==
    /\ step[s]["owner"] = "handler"
    /\ Throw(s, "owner")
    /\ UNCHANGED <<form, transaction, completed, hooks, asked, adopted, commitFaults>>

\* Whoever the handler passed the unit to calls commit or rollback on it,
\* wherever the owner is by then.
HelperCalls(s) ==
    /\ form[s] # "transaction"
    /\ step[s]["helper"] = "idle" /\ step[s]["owner"] # "idle"
    /\ \E call \in Calls :
          /\ Move(s, "helper", call)
          /\ asked' = [asked EXCEPT ![s] = call]
    /\ UNCHANGED <<form, transaction, completed, hooks, outcome, adopted, commitFaults>>

\* The guard of commit and rollback: completed is set when the hook has ended;
\* set before the first await, it would answer for a commit still under way.
SettledOnEntry(s) == transaction[s] # "active"
Settled(s) == completed[s]

\* commit: a completed unit returns at once, a closed transaction refuses;
\* otherwise the driver closes it and starts to write.
EnterCommit(s, c) ==
    /\ step[s][c] = "commit"
    /\ CASE Settled(s) -> End(s, c, "resolved") /\ UNCHANGED transaction
         [] ~Settled(s) /\ transaction[s] # "active" -> Throw(s, c) /\ UNCHANGED transaction
         [] OTHER -> /\ Move(s, c, "committing")
                     /\ transaction' = [transaction EXCEPT ![s] = "closing"]
                     /\ UNCHANGED outcome
    /\ UNCHANGED <<form, completed, hooks, asked, adopted, commitFaults>>

\* onCommit starts: the connection's own takes over the identity map and emits
\* afterCommit, whose listeners' errors are caught and logged.
StartOnCommit(s) ==
    /\ hooks' = [hooks EXCEPT ![s].onCommit = @ + 1]
    /\ adopted' = IF form[s] = "byHand" THEN adopted ELSE adopted \cup {s}

DriverCommits(s, c) ==
    /\ step[s][c] = "committing"
    /\ transaction' = [transaction EXCEPT ![s] = "committed"]
    /\ Move(s, c, "onCommit")
    /\ StartOnCommit(s)
    /\ UNCHANGED <<form, completed, asked, outcome, commitFaults>>

DriverCommitFails(s, c) ==
    /\ step[s][c] = "committing"
    /\ commitFaults < MaxCommitFaults
    /\ commitFaults' = commitFaults + 1
    /\ transaction' = [transaction EXCEPT ![s] = "lost"]
    /\ Throw(s, c)
    /\ UNCHANGED <<form, completed, hooks, asked, adopted>>

\* The hook has ended.  The await that follows it is over before completed is
\* set, so another call of commit or rollback still finds it FALSE meanwhile.
HookEnds(s, c) ==
    /\ step[s][c] \in {"onCommit", "onRollback"}
    /\ completed' = IF form[s] = "transaction" THEN completed ELSE [completed EXCEPT ![s] = TRUE]
    /\ End(s, c, IF step[s][c] = "onCommit" THEN "resolved" ELSE "rejected")
    /\ UNCHANGED <<form, transaction, hooks, asked, adopted, commitFaults>>

\* Only a hook given by hand can throw.
HookThrows(s, c) ==
    /\ form[s] = "byHand"
    /\ step[s][c] \in {"onCommit", "onRollback"}
    /\ hooks' = [hooks EXCEPT ![s].failed = TRUE]
    /\ Throw(s, c)
    /\ UNCHANGED <<form, transaction, completed, asked, adopted, commitFaults>>

\* rollback: as commit, but the driver's part has no effect to wait for.
Rollback(s, c) ==
    /\ step[s][c] = "rollback"
    /\ IF Settled(s) \/ transaction[s] # "active"
       THEN End(s, c, "rejected") /\ UNCHANGED <<transaction, hooks>>
       ELSE /\ transaction' = [transaction EXCEPT ![s] = "rolledBack"]
            /\ Move(s, c, "onRollback")
            /\ hooks' = [hooks EXCEPT ![s].onRollback = @ + 1]
            /\ UNCHANGED outcome
    /\ UNCHANGED <<form, completed, asked, adopted, commitFaults>>

-----------------------------------------------------------------------------

UowInit ==
    /\ form \in [Scopes -> Forms]
    /\ transaction = [s \in Scopes |-> "none"]
    /\ completed = [s \in Scopes |-> FALSE]
    /\ step = [s \in Scopes |-> [c \in Callers |-> "idle"]]
    /\ hooks = [s \in Scopes |-> NoHooks]
    /\ asked = [s \in Scopes |-> "nothing"]
    /\ outcome = [s \in Scopes |-> "none"]
    /\ adopted = {}
    /\ commitFaults = 0

UowNext ==
    \E s \in Scopes :
       \/ Begin(s) \/ HandlerReturns(s) \/ HandlerThrows(s) \/ HelperCalls(s)
       \/ \E c \in Callers :
             \/ EnterCommit(s, c) \/ DriverCommits(s, c) \/ DriverCommitFails(s, c)
             \/ HookEnds(s, c) \/ HookThrows(s, c) \/ Rollback(s, c)

UowSpec == UowInit /\ [][UowNext]_uowVars

-----------------------------------------------------------------------------
(* Properties.                                                             *)

\* Every variable holds a value of its kind.
TypeOK ==
    /\ form \in [Scopes -> Forms]
    /\ transaction \in [Scopes -> {"none", "active", "closing", "committed", "lost", "rolledBack"}]
    /\ completed \in [Scopes -> BOOLEAN]
    /\ step \in [Scopes -> [Callers -> Steps]]
    /\ hooks \in [Scopes -> [onCommit : 0..2, onRollback : 0..2, failed : BOOLEAN]]
    /\ asked \in [Scopes -> Calls \cup {"nothing"}]
    /\ outcome \in [Scopes -> {"none", "resolved", "rejected"}]
    /\ adopted \subseteq Scopes
    /\ commitFaults \in 0..MaxCommitFaults

\* A caller that is told its scope succeeded has its work committed, unless
\* the helper rolled the unit back; one that is told it failed has nothing
\* committed, unless a hook threw after the commit or the helper committed.
\* The hook of a commit ran once and only over a commit, the hook of a
\* rollback only over a rollback, and the connection's identity map holds
\* nothing of a scope that did not commit (commit and rollback of
\* unit-of-work.ts, which set completed only after their awaits, run, the
\* boundary decorator and runRootTransaction).
OutcomeTold ==
    \A s \in Scopes :
       /\ outcome[s] = "resolved" =>
             \/ transaction[s] = "committed" /\ hooks[s].onCommit = 1
             \/ transaction[s] = "rolledBack" /\ asked[s] = "rollback"
       /\ outcome[s] = "rejected" /\ transaction[s] = "committed" =>
             hooks[s].failed \/ asked[s] = "commit"
       /\ hooks[s].onCommit = (IF transaction[s] = "committed" THEN 1 ELSE 0)
       /\ hooks[s].onRollback = (IF transaction[s] = "rolledBack" THEN 1 ELSE 0)
       /\ s \in adopted => transaction[s] = "committed"
=============================================================================
