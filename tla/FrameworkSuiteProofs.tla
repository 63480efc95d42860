------------------------ MODULE FrameworkSuiteProofs ------------------------
(***************************************************************************)
(* The properties of SecondLevelCache and of the components of             *)
(* FrameworkSuite, for every value of their constants.                     *)
(***************************************************************************)
EXTENDS FrameworkSuite, Naturals, FiniteSetTheorems, SequenceTheorems,
  WellFoundedInduction, TLAPS

-----------------------------------------------------------------------------
(* The type of the state.                                                  *)

\* The tables exposed to the known races are tables.
LEMMA TrackType ==
  ASSUME TypeOK, NEW causes, causes \subseteq Tables, Track(causes)
  PROVE  exposed' \subseteq Tables
BY DEF TypeOK, Track

\* Storing and invalidating keep the cache a map of tables.
LEMMA StoreType ==
  ASSUME TypeOK, NEW n \in Tables, NEW rows \in Rows, NEW ns
  PROVE  /\ Store(n, rows) \in [Tables -> Rows \cup {NoEntry}]
         /\ Invalidate(ns) \in [Tables -> Rows \cup {NoEntry}]
BY DEF TypeOK, Store, Invalidate

\* Tables, cache, calls and transactions hold rows or nothing
\* (second-level-cache.ts).
THEOREM SecondLevelCacheTypeOK == Spec => []TypeOK
<1>1. Init => TypeOK
  <2> SUFFICES ASSUME Init PROVE TypeOK
    OBVIOUS
  <2>1. Empty \in Rows
    BY DEF Rows
  <2>2. [status |-> "unused", working |-> [n \in Tables |-> Empty],
          pending |-> {}, mutated |-> {}] \in TxRecords
    BY <2>1 DEF TxRecords
  <2> QED
    BY <2>1, <2>2 DEF Init, TypeOK
<1>2. TypeOK /\ [Next]_vars => TypeOK'
  <2> SUFFICES ASSUME TypeOK, [Next]_vars PROVE TypeOK'
    OBVIOUS
  <2>a. Empty \in Rows /\ Handles \subseteq Rows /\ Mutators \subseteq Rows
    BY DEF Rows
  <2>b. \A a : Racing(a) \subseteq Tables
    BY DEF Racing
  <2>c. backend' = backend
    BY DEF Next, vars
  <2>1. ASSUME NEW c \in Callers, NEW request \in Calls, Make(c, request)
        PROVE  TypeOK'
    BY <2>1, <2>c, TrackType DEF Make, TypeOK
  <2>2. ASSUME NEW c \in Readers, NEW n \in Tables, ReadMiss(c, n)
        PROVE  TypeOK'
    <3>1. c \in Callers
      BY DEF Callers
    <3>2. [kind |-> "read", table |-> n, acted |-> FALSE, rows |-> Empty] \in Calls
      BY <2>a DEF Calls
    <3> QED
      BY <2>1, <2>2, <3>1, <3>2 DEF ReadMiss
  <2>3. ASSUME NEW c \in Mutators, NEW n \in Tables, NEW kind \in MutatingKinds,
               Mutate(c, kind, n)
        PROVE  TypeOK'
    <3>1. c \in Callers
      BY DEF Callers
    <3>2. [kind |-> kind, table |-> n, acted |-> FALSE,
           rows |-> IF kind = "write" THEN c ELSE Empty] \in Calls
      BY <2>a DEF Calls
    <3> QED
      BY <2>1, <2>3, <3>1, <3>2 DEF Mutate
  <2>4. ASSUME NEW c \in Mutators, CallInit(c)
        PROVE  TypeOK'
    <3>1. c \in Callers
      BY DEF Callers
    <3>2. [kind |-> "init", acted |-> FALSE] \in Calls
      BY DEF Calls
    <3> QED
      BY <2>1, <2>4, <3>1, <3>2 DEF CallInit
  <2>5. ASSUME NEW c \in Callers, ActRead(c)
        PROVE  TypeOK'
    <3>1. call[c] \in [kind : {"read"}, table : Tables, acted : BOOLEAN, rows : Rows]
      BY <2>5 DEF ActRead, TypeOK, Calls, MutatingKinds
    <3>2. [call[c] EXCEPT !.acted = TRUE, !.rows = db[call[c].table]] \in Calls
      BY <3>1 DEF TypeOK, Calls
    <3> QED
      BY <2>5, <2>c, <3>2, TrackType DEF ActRead, TypeOK
  <2>6. ASSUME NEW c \in Callers, ActMutation(c)
        PROVE  TypeOK'
    <3>1. [call[c] EXCEPT !.acted = TRUE] \in Calls
      BY <2>6 DEF ActMutation, TypeOK, Calls
    <3>2. db' \in [Tables -> Rows]
      BY <2>6 DEF ActMutation, TypeOK, Calls
    <3>3. exposed' \subseteq Tables
      BY <2>6, <2>b, TrackType DEF ActMutation
    <3> QED
      BY <2>6, <2>c, <3>1, <3>2, <3>3 DEF ActMutation, TypeOK
  <2>7. ASSUME NEW c \in Callers, Return(c)
        PROVE  TypeOK'
    <3>1. call[c].kind # "init" => call[c].table \in Tables /\ call[c].rows \in Rows
      BY <2>7 DEF Return, TypeOK, Calls
    <3>2. call[c].kind \in {"read", "write", "drop", "ensure", "init"}
      BY <2>7 DEF Return, TypeOK, Calls, MutatingKinds
    <3>3. cache' \in [Tables -> Rows \cup {NoEntry}]
      <4>1. CASE call[c].kind \in {"read", "write"}
        <5>1. cache' = Store(call[c].table, call[c].rows)
          BY <2>7, <4>1 DEF Return
        <5> QED
          BY <3>1, <4>1, <5>1, StoreType
      <4>2. CASE call[c].kind \in {"drop", "ensure"}
        <5>1. cache' = Invalidate({call[c].table})
          BY <2>7, <4>2 DEF Return
        <5> QED
          BY <5>1 DEF Invalidate, TypeOK
      <4>3. CASE call[c].kind = "init"
        <5>1. cache' = Invalidate(Tables)
          BY <2>7, <4>3 DEF Return
        <5> QED
          BY <5>1 DEF Invalidate, TypeOK
      <4> QED
        BY <3>2, <4>1, <4>2, <4>3
    <3> QED
      BY <2>7, <2>c, <3>3, TrackType DEF Return, TypeOK
  <2>8. ASSUME NEW c \in Callers, Reject(c)
        PROVE  TypeOK'
    <3>1. call[c].kind # "init" => call[c].table \in Tables
      BY <2>8 DEF Reject, TypeOK, Calls
    <3>2. exposed' \subseteq Tables
      BY <2>8, <3>1, TrackType DEF Reject
    <3> QED
      BY <2>8, <2>c, <3>2 DEF Reject, TypeOK
  <2>9. ASSUME NEW n \in Tables, Expire(n)
        PROVE  TypeOK'
    BY <2>9, <2>c, TrackType DEF Expire, Invalidate, TypeOK
  <2>10. ASSUME NEW h \in Handles, BeginTransaction(h)
         PROVE  TypeOK'
    <3>1. [tx[h] EXCEPT !.status = "active", !.working = db] \in TxRecords
      BY DEF TypeOK, TxRecords
    <3> QED
      BY <2>10, <2>c, <3>1, TrackType DEF BeginTransaction, TypeOK
  <2>11. ASSUME NEW h \in Handles, NEW n \in Tables, TxMutate(h, n)
         PROVE  TypeOK'
    <3>1. PICK rows \in {h, Empty, tx[h].working[n]} :
             tx' = [tx EXCEPT ![h].working[n] = rows, ![h].mutated = @ \cup {n}]
      BY <2>11 DEF TxMutate
    <3>2. rows \in Rows
      BY <2>a, <3>1 DEF TypeOK, TxRecords
    <3>3. [tx[h] EXCEPT !.working[n] = rows, !.mutated = @ \cup {n}] \in TxRecords
      BY <3>2 DEF TypeOK, TxRecords
    <3> QED
      BY <2>11, <2>c, <3>1, <3>3, TrackType DEF TxMutate, TypeOK
  <2>18. ASSUME NEW h \in Handles, NEW n \in Tables, TxMutateActs(h, n)
         PROVE  TypeOK'
    <3>1. [tx[h] EXCEPT !.pending = @ \cup {n}] \in TxRecords
      BY DEF TypeOK, TxRecords
    <3>2. db' \in [Tables -> Rows]
      BY <2>18, <2>a DEF TxMutateActs, TypeOK
    <3>3. exposed' \subseteq Tables
      BY <2>18, <2>b, TrackType DEF TxMutateActs
    <3> QED
      BY <2>18, <2>c, <3>1, <3>2, <3>3 DEF TxMutateActs, TypeOK
  <2>19. ASSUME NEW h \in Handles, NEW n \in Tables,
                TxMutateReturns(h, n) \/ TxMutateRejects(h, n)
         PROVE  TypeOK'
    <3>1. /\ [tx[h] EXCEPT !.pending = @ \ {n}, !.mutated = @ \cup {n}] \in TxRecords
          /\ [tx[h] EXCEPT !.pending = @ \ {n}] \in TxRecords
      BY DEF TypeOK, TxRecords
    <3>2. exposed' \subseteq Tables
      BY <2>19, TrackType DEF TxMutateReturns, TxMutateRejects
    <3> QED
      BY <2>19, <2>c, <3>1, <3>2 DEF TxMutateReturns, TxMutateRejects, TypeOK
  <2>12. ASSUME NEW h \in Handles, CommitActs(h)
         PROVE  TypeOK'
    <3>1. db' \in [Tables -> Rows]
      BY <2>12 DEF CommitActs, CommitOf, TypeOK, TxRecords
    <3>2. [tx[h] EXCEPT !.status = "acted"] \in TxRecords
      BY DEF TypeOK, TxRecords
    <3>3. exposed' \subseteq Tables
      BY <2>12, <2>b, TrackType DEF CommitActs
    <3> QED
      BY <2>12, <2>c, <3>1, <3>2, <3>3 DEF CommitActs, TypeOK
  <2>13. ASSUME NEW h \in Handles, NEW status \in {"committed", "rejected", "undone"},
                Close(h, status)
         PROVE  tx' \in [Handles -> TxRecords]
    <3>1. [tx[h] EXCEPT !.status = status, !.pending = {}, !.mutated = {}] \in TxRecords
      BY DEF TypeOK, TxRecords
    <3> QED
      BY <2>13, <3>1 DEF Close, TypeOK
  <2>14. ASSUME NEW h \in Handles, CommitReturns(h)
         PROVE  TypeOK'
    <3>1. tx' \in [Handles -> TxRecords]
      BY <2>13, <2>14 DEF CommitReturns
    <3>2. exposed' \subseteq Tables
      BY <2>14, TrackType DEF CommitReturns, TypeOK, TxRecords
    <3> QED
      BY <2>14, <2>c, <3>1, <3>2 DEF CommitReturns, Invalidate, TypeOK
  <2>15. ASSUME NEW h \in Handles, CommitRejects(h)
         PROVE  TypeOK'
    <3>1. tx' \in [Handles -> TxRecords]
      BY <2>13, <2>15 DEF CommitRejects
    <3>2. Untold(h) \subseteq Tables
      BY DEF Untold, TypeOK, TxRecords
    <3>3. exposed' \subseteq Tables
      BY <2>15, <3>2, TrackType DEF CommitRejects
    <3> QED
      BY <2>15, <2>c, <3>1, <3>3 DEF CommitRejects, TypeOK
  <2>16. ASSUME NEW h \in Handles, Rollback(h)
         PROVE  TypeOK'
    <3>1. tx' \in [Handles -> TxRecords]
      BY <2>13, <2>16 DEF Rollback
    <3>2. exposed' \subseteq Tables
      BY <2>16, TrackType DEF Rollback, Untold, TypeOK, TxRecords
    <3> QED
      BY <2>16, <2>c, <3>1, <3>2 DEF Rollback, TypeOK
  <2>17. CASE UNCHANGED vars
    BY <2>17 DEF vars, TypeOK
  <2> QED
    BY <2>2, <2>3, <2>4, <2>5, <2>6, <2>7, <2>8, <2>9, <2>10, <2>11, <2>12, <2>14,
       <2>15, <2>16, <2>17, <2>18, <2>19 DEF Next, Step
<1> QED
  BY <1>1, <1>2, PTL DEF Spec

-----------------------------------------------------------------------------
(* Uncommitted rows.                                                       *)

Uncommitted(h) == tx[h].status \in {"unused", "active", "undone"}

\* The rows of a transaction are in its own copy and nowhere else.
Private(h) ==
    /\ \A n \in Tables : db[n] # h /\ cache[n] # h
    /\ \A c \in Callers : call[c] # Idle /\ call[c].kind # "init" => call[c].rows # h
    /\ \A g \in Handles \ {h}, n \in Tables : tx[g].working[n] # h

AllPrivate == backend # "autocommit" => \A h \in Handles : Uncommitted(h) => Private(h)

\* Over a driver that keeps the writes of a transaction to itself, nothing of one
\* that has not committed is cached, or in the hands of a call that will cache it
\* (the transaction driver of second-level-cache.ts, which only invalidates).
THEOREM SecondLevelCacheNeverServesUncommitted == Spec => []NeverServesUncommitted
<1>1. Init => AllPrivate
  BY SecondLevelCacheAssumption DEF Init, AllPrivate, Private, Rows
<1>2. TypeOK /\ AllPrivate /\ [Next]_vars => AllPrivate'
  <2> SUFFICES ASSUME TypeOK, AllPrivate, [Next]_vars, (backend # "autocommit")',
                      NEW h \in Handles, Uncommitted(h)'
               PROVE  Private(h)'
    BY DEF AllPrivate
  <2>0. backend # "autocommit"
    BY DEF Next, vars
  <2>a. /\ h # Empty /\ h # NoEntry
        /\ \A c \in Callers : c # h
    BY SecondLevelCacheAssumption DEF Rows
  <2>b. Uncommitted(h) => Private(h)
    BY <2>0 DEF AllPrivate
  <2>1. ASSUME NEW c \in Callers, NEW request, Make(c, request),
               request.kind # "init" => request.rows # h
        PROVE  Private(h)'
    BY <2>1, <2>b DEF Make, Private, Uncommitted, TypeOK
  <2>2. ASSUME NEW c \in Readers, NEW n \in Tables, ReadMiss(c, n)
        PROVE  Private(h)'
    <3>1. c \in Callers
      BY DEF Callers
    <3> QED
      BY <2>1, <2>2, <2>a, <3>1 DEF ReadMiss
  <2>3. ASSUME NEW c \in Mutators, NEW n \in Tables, NEW kind \in MutatingKinds,
               Mutate(c, kind, n)
        PROVE  Private(h)'
    <3>1. c \in Callers
      BY DEF Callers
    <3> QED
      BY <2>1, <2>3, <2>a, <3>1 DEF Mutate
  <2>4. ASSUME NEW c \in Mutators, CallInit(c)
        PROVE  Private(h)'
    <3>1. c \in Callers
      BY DEF Callers
    <3> QED
      BY <2>1, <2>4, <3>1 DEF CallInit
  <2>5. ASSUME NEW c \in Callers, ActRead(c)
        PROVE  Private(h)'
    <3>1. call[c].table \in Tables
      BY <2>5 DEF ActRead, TypeOK, Calls
    <3>2. Private(h)
      BY <2>5, <2>b DEF ActRead, Uncommitted
    <3>3. call'[c].rows = db[call[c].table]
      BY <2>5 DEF ActRead, TypeOK, Calls, MutatingKinds
    <3>4. \A d \in Callers \ {c} : call'[d] = call[d]
      BY <2>5 DEF ActRead, TypeOK
    <3> QED
      BY <2>5, <3>1, <3>2, <3>3, <3>4 DEF ActRead, Private
  <2>6. ASSUME NEW c \in Callers, ActMutation(c)
        PROVE  Private(h)'
    <3>1. Private(h)
      BY <2>6, <2>b DEF ActMutation, Uncommitted
    <3>2. call'[c].kind # "init" => call[c].kind # "init" /\ call'[c].rows = call[c].rows
      BY <2>6 DEF ActMutation, TypeOK, Calls
    <3>3. \A d \in Callers \ {c} : call'[d] = call[d]
      BY <2>6 DEF ActMutation, TypeOK
    <3>4. \A n \in Tables : db'[n] # h
      BY <2>6, <3>1 DEF ActMutation, Private, TypeOK
    <3> QED
      BY <2>6, <3>1, <3>2, <3>3, <3>4 DEF ActMutation, Private
  <2>7. ASSUME NEW c \in Callers, Return(c)
        PROVE  Private(h)'
    <3>1. Private(h)
      BY <2>7, <2>b DEF Return, Uncommitted
    <3>2. call[c].kind \in {"read", "write", "drop", "ensure", "init"}
      BY <2>7 DEF Return, TypeOK, Calls, MutatingKinds
    <3>3. \A n \in Tables : cache'[n] # h
      <4>1. CASE call[c].kind \in {"read", "write"}
        <5>1. cache' = Store(call[c].table, call[c].rows)
          BY <2>7, <4>1 DEF Return
        <5> QED
          BY <2>7, <2>a, <3>1, <4>1, <5>1 DEF Return, Store, Private, TypeOK
      <4>2. CASE call[c].kind \in {"drop", "ensure"}
        <5>1. cache' = Invalidate({call[c].table})
          BY <2>7, <4>2 DEF Return
        <5> QED
          BY <2>a, <3>1, <5>1 DEF Invalidate, Private
      <4>3. CASE call[c].kind = "init"
        <5>1. cache' = Invalidate(Tables)
          BY <2>7, <4>3 DEF Return
        <5> QED
          BY <2>a, <3>1, <5>1 DEF Invalidate, Private
      <4> QED
        BY <3>2, <4>1, <4>2, <4>3
    <3>4. \A d \in Callers : call'[d] # Idle => call'[d] = call[d]
      BY <2>7 DEF Return, TypeOK
    <3> QED
      BY <2>7, <3>1, <3>3, <3>4 DEF Return, Private
  <2>8. ASSUME NEW c \in Callers, Reject(c)
        PROVE  Private(h)'
    BY <2>8, <2>b DEF Reject, Private, Uncommitted, TypeOK
  <2>9. ASSUME NEW n \in Tables, Expire(n)
        PROVE  Private(h)'
    BY <2>9, <2>a, <2>b DEF Expire, Invalidate, Private, Uncommitted
  <2>10. ASSUME NEW g \in Handles, BeginTransaction(g)
         PROVE  Private(h)'
    <3>1. Uncommitted(h)
      BY <2>10 DEF BeginTransaction, Uncommitted, TypeOK
    <3>2. tx'[g].working = db
      BY <2>10 DEF BeginTransaction, TypeOK, TxRecords
    <3>3. \A f \in Handles \ {g} : tx'[f] = tx[f]
      BY <2>10 DEF BeginTransaction, TypeOK
    <3> QED
      BY <2>10, <2>b, <3>1, <3>2, <3>3 DEF BeginTransaction, Private
  <2>11. ASSUME NEW g \in Handles, NEW n \in Tables, TxMutate(g, n)
         PROVE  Private(h)'
    <3>1. PICK rows \in {g, Empty, tx[g].working[n]} :
             tx' = [tx EXCEPT ![g].working[n] = rows, ![g].mutated = @ \cup {n}]
      BY <2>11 DEF TxMutate
    <3>2. tx'[g].status = tx[g].status
            /\ tx'[g].working = [tx[g].working EXCEPT ![n] = rows]
      BY <3>1 DEF TypeOK, TxRecords
    <3>3. \A f \in Handles \ {g} : tx'[f] = tx[f]
      BY <3>1 DEF TypeOK
    <3>4. Private(h)
      BY <2>b, <3>2, <3>3 DEF Uncommitted
    <3>5. g # h => rows # h
      BY <2>a, <3>1, <3>4 DEF Private
    <3>6. \A f \in Handles \ {h}, m \in Tables : tx'[f].working[m] # h
      BY <3>2, <3>3, <3>4, <3>5 DEF Private, TypeOK, TxRecords
    <3> QED
      BY <2>11, <3>4, <3>6 DEF TxMutate, Private
  <2>18. ASSUME NEW g \in Handles, NEW n \in Tables,
                TxMutateActs(g, n) \/ TxMutateReturns(g, n) \/ TxMutateRejects(g, n)
         PROVE  Private(h)'
    <3>1. TxMutateReturns(g, n) \/ TxMutateRejects(g, n)
      BY <2>0, <2>18 DEF TxMutateActs
    <3>2. UNCHANGED <<db, cache, call>>
      BY <3>1 DEF TxMutateReturns, TxMutateRejects
    <3>3. \A f \in Handles \ {g} : tx'[f] = tx[f]
      BY <3>1 DEF TxMutateReturns, TxMutateRejects, TypeOK
    <3>4. tx[g] \in TxRecords
      BY DEF TypeOK
    <3>5. tx'[g] \in {[tx[g] EXCEPT !.pending = @ \ {n}, !.mutated = @ \cup {n}],
                      [tx[g] EXCEPT !.pending = @ \ {n}]}
      BY <3>1 DEF TxMutateReturns, TxMutateRejects, TypeOK
    <3>6. tx'[g].working = tx[g].working /\ tx'[g].status = tx[g].status
      BY <3>4, <3>5 DEF TxRecords
    <3> QED
      BY <2>b, <3>2, <3>3, <3>6 DEF Private, Uncommitted
  <2>12. ASSUME NEW g \in Handles, CommitActs(g)
         PROVE  Private(h)'
    <3>1. tx'[g].status = "acted" /\ tx'[g].working = tx[g].working
      BY <2>12 DEF CommitActs, TypeOK, TxRecords
    <3>2. \A f \in Handles \ {g} : tx'[f] = tx[f]
      BY <2>12 DEF CommitActs, TypeOK
    <3>3. h # g
      BY <3>1 DEF Uncommitted
    <3>4. Private(h)
      BY <2>b, <3>2, <3>3 DEF Uncommitted
    <3>5. \A n \in Tables : db'[n] # h
      BY <2>12, <3>3, <3>4 DEF CommitActs, CommitOf, Private
    <3> QED
      BY <2>12, <3>1, <3>2, <3>4, <3>5 DEF CommitActs, Private
  <2>13. ASSUME NEW g \in Handles, NEW status, Close(g, status), Uncommitted(h),
                UNCHANGED <<db, call>>,
                \A n \in Tables : cache'[n] \in {cache[n], NoEntry}
         PROVE  Private(h)'
    <3>1. \A f \in Handles : tx'[f].working = tx[f].working
      BY <2>13 DEF Close, TypeOK, TxRecords
    <3> QED
      BY <2>13, <2>a, <2>b, <3>1 DEF Private
  <2>14. ASSUME NEW g \in Handles, CommitReturns(g)
         PROVE  Private(h)'
    <3>1. Uncommitted(h)
      BY <2>14 DEF CommitReturns, Close, Uncommitted, TypeOK, TxRecords
    <3> QED
      BY <2>13, <2>14, <3>1 DEF CommitReturns, Invalidate
  <2>15. ASSUME NEW g \in Handles, CommitRejects(g)
         PROVE  Private(h)'
    <3>1. Uncommitted(h)
      BY <2>15 DEF CommitRejects, Close, Uncommitted, TypeOK, TxRecords
    <3> QED
      BY <2>13, <2>15, <3>1 DEF CommitRejects
  <2>16. ASSUME NEW g \in Handles, Rollback(g)
         PROVE  Private(h)'
    <3>1. Uncommitted(h)
      BY <2>16 DEF Rollback, Close, Uncommitted, TypeOK, TxRecords
    <3> QED
      BY <2>13, <2>16, <3>1 DEF Rollback
  <2>17. CASE UNCHANGED vars
    BY <2>17, <2>b DEF vars, Private, Uncommitted
  <2> QED
    BY <2>2, <2>3, <2>4, <2>5, <2>6, <2>7, <2>8, <2>9, <2>10, <2>11, <2>12, <2>14,
       <2>15, <2>16, <2>17, <2>18 DEF Next, Step
<1>3. TypeOK /\ AllPrivate => NeverServesUncommitted
  BY DEF AllPrivate, Private, Uncommitted, NeverServesUncommitted, Holds
<1> QED
  BY <1>1, <1>2, <1>3, SecondLevelCacheTypeOK, PTL DEF Spec

-----------------------------------------------------------------------------
(* Coherence.                                                              *)

\* A call or a commit that has changed the table and will bring the cache up to
\* date when it returns.
Fixer(n) ==
    \/ \E c \in Callers : /\ call[c] # Idle /\ call[c].kind \in {"write", "drop"}
                         /\ call[c].table = n /\ call[c].acted
    \/ \E h \in Handles : Unsettled(h, n)

\* What is cached, or held by a call that will cache it, is what the driver has.
InStep(n) ==
    /\ \A c \in Callers : Holds(c, n) => call[c].rows = db[n]
    /\ cache[n] \in {NoEntry, db[n]} \/ Fixer(n)

AllInStep == \A n \in Tables \ exposed : InStep(n)

\* Whoever is about to put an entry right is in the middle of a call.
LEMMA FixerBusy ==
  ASSUME NEW n
  PROVE  Fixer(n) => Busy(n)
BY DEF Fixer, Busy

\* A table that stops being exposed has no entry, and nobody holds its rows.
LEMMA NoLongerExposed ==
  ASSUME NEW causes, Track(causes), NEW n \in exposed \cup causes, n \notin exposed'
  PROVE  InStep(n)'
<1>1. cache'[n] = NoEntry /\ ~Busy(n)'
  BY DEF Track
<1>2. \A c \in Callers : Holds(c, n)' => Busy(n)'
  BY DEF Holds, Busy
<1> QED
  BY <1>1, <1>2 DEF InStep

\* What is unsettled stays so while its record and the driver's kind do.
LEMMA UnsettledKept ==
  ASSUME backend' = backend, NEW h \in Handles, tx'[h] = tx[h], NEW n
  PROVE  Unsettled(h, n)' = Unsettled(h, n)
BY DEF Unsettled

\* A call that is made holds nothing yet.
LEMMA MakeInStep ==
  ASSUME TypeOK, AllInStep, NEW c \in Callers, NEW request, Make(c, request),
         request.acted = FALSE, backend' = backend
  PROVE  AllInStep'
<1> SUFFICES ASSUME NEW n \in Tables, n \notin exposed' PROVE InStep(n)'
  BY DEF AllInStep
<1>1. CASE n \in exposed
  BY <1>1, NoLongerExposed DEF Make
<1>2. CASE n \notin exposed
  <2>1. InStep(n)
    BY <1>2 DEF AllInStep
  <2>2. call'[c].acted = FALSE /\ call[c] = Idle
    BY DEF Make, TypeOK
  <2>3. \A d \in Callers \ {c} : call'[d] = call[d]
    BY DEF Make, TypeOK
  <2>4. \A d \in Callers : Holds(d, n)' => call'[d] = call[d] /\ Holds(d, n)
    BY <2>2, <2>3 DEF Holds
  <2>5. Fixer(n) => Fixer(n)'
    BY <2>2, <2>3, UnsettledKept DEF Make, Fixer
  <2> QED
    BY <2>1, <2>4, <2>5 DEF Make, InStep
<1> QED
  BY <1>1, <1>2

\* A step of a transaction that leaves the driver and the calls alone, and of
\* the cache at most drops entries.
LEMMA QuietInStep ==
  ASSUME TypeOK, AllInStep, NEW causes, Track(causes), UNCHANGED <<db, call>>,
         \A n \in Tables \ causes :
             cache'[n] = NoEntry \/ (cache'[n] = cache[n] /\ (Fixer(n) => Fixer(n)'))
  PROVE  AllInStep'
<1> SUFFICES ASSUME NEW n \in Tables, n \notin exposed' PROVE InStep(n)'
  BY DEF AllInStep
<1>1. CASE n \in exposed \cup causes
  BY <1>1, NoLongerExposed
<1>2. CASE n \notin exposed \cup causes
  <2>1. InStep(n)
    BY <1>2 DEF AllInStep
  <2> QED
    BY <1>2, <2>1 DEF InStep, Holds
<1> QED
  BY <1>1, <1>2

\* An idle table's entry is the driver's rows, unless one of the races that the
\* code leaves open has reached it (second-level-cache.ts).
THEOREM SecondLevelCacheCoherent == Spec => []CoherentUnlessExposed
<1>1. Init => AllInStep
  BY DEF Init, AllInStep, InStep, Holds
<1>2. TypeOK /\ AllInStep /\ [Next]_vars => AllInStep'
  <2> SUFFICES ASSUME TypeOK, AllInStep, [Next]_vars PROVE AllInStep'
    OBVIOUS
  <2>0. backend' = backend
    BY DEF Next, vars
  <2>1. ASSUME NEW c \in Readers, NEW n \in Tables, ReadMiss(c, n)
        PROVE  AllInStep'
    BY <2>1, <2>0, MakeInStep DEF ReadMiss, Callers
  <2>2. ASSUME NEW c \in Mutators, NEW n \in Tables, NEW kind \in MutatingKinds,
               Mutate(c, kind, n)
        PROVE  AllInStep'
    BY <2>2, <2>0, MakeInStep DEF Mutate, Callers
  <2>3. ASSUME NEW c \in Mutators, CallInit(c)
        PROVE  AllInStep'
    BY <2>3, <2>0, MakeInStep DEF CallInit, Callers
  <2>4. ASSUME NEW c \in Callers, ActRead(c)
        PROVE  AllInStep'
    <3> SUFFICES ASSUME NEW n \in Tables, n \notin exposed' PROVE InStep(n)'
      BY DEF AllInStep
    <3>1. CASE n \in exposed
      BY <2>4, <3>1, NoLongerExposed DEF ActRead
    <3>2. CASE n \notin exposed
      <4>1. InStep(n)
        BY <3>2 DEF AllInStep
      <4>2. call'[c] = [call[c] EXCEPT !.acted = TRUE, !.rows = db[call[c].table]]
        BY <2>4 DEF ActRead, TypeOK
      <4>3. /\ call'[c].rows = db[call[c].table] /\ call'[c].table = call[c].table
            /\ call[c].kind = "read"
        BY <2>4, <4>2 DEF ActRead, TypeOK, Calls, MutatingKinds
      <4>4. \A d \in Callers \ {c} : call'[d] = call[d]
        BY <2>4 DEF ActRead, TypeOK
      <4>5. \A d \in Callers : Holds(d, n)' => call'[d].rows = db[n]
        BY <4>1, <4>3, <4>4 DEF Holds, InStep
      <4>6. Fixer(n) => Fixer(n)'
        BY <2>4, <2>0, <4>3, <4>4, UnsettledKept DEF ActRead, Fixer
      <4> QED
        BY <2>4, <4>1, <4>5, <4>6 DEF ActRead, InStep
    <3> QED
      BY <3>1, <3>2
  <2>5. ASSUME NEW c \in Callers, ActMutation(c)
        PROVE  AllInStep'
    <3> SUFFICES ASSUME NEW n \in Tables, n \notin exposed' PROVE InStep(n)'
      BY DEF AllInStep
    <3>1. CASE n \in exposed \cup Racing(c)
      BY <2>5, <3>1, NoLongerExposed DEF ActMutation
    <3>2. CASE n \notin exposed \cup Racing(c)
      <4>1. InStep(n)
        BY <3>2 DEF AllInStep
      <4>2. /\ call'[c] # Idle /\ call'[c].acted
            /\ call'[c].kind = call[c].kind /\ call[c].kind # "read"
            /\ call[c].kind # "init" =>
                  call'[c].table = call[c].table /\ call'[c].rows = call[c].rows
        <5>1. call'[c] = [call[c] EXCEPT !.acted = TRUE] /\ call[c] \in Calls
          BY <2>5 DEF ActMutation, TypeOK
        <5>2. [call[c] EXCEPT !.acted = TRUE] \in Calls
          BY <5>1 DEF Calls
        <5>3. call[c].kind # "read"
          BY <2>5 DEF ActMutation
        <5>4. call'[c].acted /\ call'[c].kind = call[c].kind
          BY <5>1 DEF Calls
        <5>5. call[c].kind # "init" =>
                  call'[c].table = call[c].table /\ call'[c].rows = call[c].rows
          BY <5>1 DEF Calls
        <5>6. call'[c] # Idle
          BY <5>1, <5>2, SecondLevelCacheAssumption
        <5> QED
          BY <5>3, <5>4, <5>5, <5>6
      <4>3. \A d \in Callers \ {c} : call'[d] = call[d]
        BY <2>5 DEF ActMutation, TypeOK
      <4>4. \A d \in Callers \ {c} : Holds(d, n)' => call'[d].rows = db'[n]
        BY <3>2, <4>1, <4>3 DEF InStep, Holds, Racing
      <4>5. Holds(c, n)' => call'[c].rows = db'[n]
        BY <2>5, <4>2 DEF ActMutation, Holds, TypeOK
      <4>6. Fixer(n) => Fixer(n)'
        BY <2>5, <2>0, <4>2, <4>3, UnsettledKept DEF ActMutation, Fixer
      <4>7. db'[n] = db[n] \/ Fixer(n)'
        BY <2>5, <4>2 DEF ActMutation, Fixer, TypeOK
      <4>8. cache'[n] \in {NoEntry, db'[n]} \/ Fixer(n)'
        BY <2>5, <4>1, <4>6, <4>7 DEF ActMutation, InStep
      <4> QED
        BY <4>4, <4>5, <4>8 DEF InStep
    <3> QED
      BY <3>1, <3>2
  <2>6. ASSUME NEW c \in Callers, Return(c)
        PROVE  AllInStep'
    <3> SUFFICES ASSUME NEW n \in Tables, n \notin exposed' PROVE InStep(n)'
      BY DEF AllInStep
    <3>1. CASE n \in exposed
      BY <2>6, <3>1, NoLongerExposed DEF Return
    <3>2. CASE n \notin exposed
      <4>1. InStep(n)
        BY <3>2 DEF AllInStep
      <4>2. /\ call'[c] = Idle
            /\ \A d \in Callers \ {c} : call'[d] = call[d]
        BY <2>6 DEF Return, TypeOK
      <4>3. \A d \in Callers : Holds(d, n)' => call'[d].rows = db'[n]
        BY <2>6, <4>1, <4>2 DEF Return, InStep, Holds
      <4>4. ASSUME call[c].kind # "init", call[c].table # n
            PROVE  cache'[n] = cache[n] /\ (Fixer(n) => Fixer(n)')
        <5>1. call[c].kind \in {"read", "write", "drop", "ensure"}
          BY <2>6, <4>4 DEF Return, TypeOK, Calls, MutatingKinds
        <5>2. cache'[n] = cache[n]
          BY <2>6, <4>4, <5>1 DEF Return, Store, Invalidate, TypeOK
        <5>3. Fixer(n) => Fixer(n)'
          BY <2>6, <2>0, <4>2, <4>4, UnsettledKept DEF Return, Fixer
        <5> QED
          BY <5>2, <5>3
      <4>5. ASSUME call[c].kind = "init" \/ call[c].table = n
            PROVE  cache'[n] \in {NoEntry, db[n]}
        <5>1. call[c].kind \in {"read", "write", "drop", "ensure", "init"}
          BY <2>6 DEF Return, TypeOK, Calls, MutatingKinds
        <5>2. CASE call[c].kind \in {"read", "write"}
          <6>1. call[c].rows = db[n] /\ call[c].table = n
            BY <2>6, <4>1, <4>5, <5>2 DEF Return, InStep, Holds
          <6>2. cache' = Store(call[c].table, call[c].rows)
            BY <2>6, <5>2 DEF Return
          <6> QED
            BY <6>1, <6>2 DEF Store, TypeOK
        <5>3. CASE call[c].kind \in {"drop", "ensure"}
          BY <2>6, <4>5, <5>3 DEF Return, Invalidate
        <5>4. CASE call[c].kind = "init"
          BY <2>6, <5>4 DEF Return, Invalidate
        <5> QED
          BY <5>1, <5>2, <5>3, <5>4
      <4> QED
        BY <2>6, <4>1, <4>3, <4>4, <4>5 DEF Return, InStep
    <3> QED
      BY <3>1, <3>2
  <2>7. ASSUME NEW c \in Callers, Reject(c)
        PROVE  AllInStep'
    <3> DEFINE causes == IF call[c].acted /\ call[c].kind \in {"write", "drop"}
                         THEN {call[c].table} ELSE {}
    <3> SUFFICES ASSUME NEW n \in Tables, n \notin exposed' PROVE InStep(n)'
      BY DEF AllInStep
    <3>1. CASE n \in exposed \cup causes
      <4>1. Track(causes)
        BY <2>7 DEF Reject
      <4> QED
        BY <3>1, <4>1, NoLongerExposed
    <3>2. CASE n \notin exposed \cup causes
      <4>1. InStep(n)
        BY <3>2 DEF AllInStep
      <4>2. /\ call'[c] = Idle
            /\ \A d \in Callers \ {c} : call'[d] = call[d]
        BY <2>7 DEF Reject, TypeOK
      <4>3. \A d \in Callers : Holds(d, n)' => call'[d].rows = db'[n]
        BY <2>7, <4>1, <4>2 DEF Reject, InStep, Holds
      <4>4. Fixer(n) => Fixer(n)'
        BY <2>7, <2>0, <3>2, <4>2, UnsettledKept DEF Reject, Fixer
      <4> QED
        BY <2>7, <4>1, <4>3, <4>4 DEF Reject, InStep
    <3> QED
      BY <3>1, <3>2
  <2>8. ASSUME NEW n \in Tables, Expire(n)
        PROVE  AllInStep'
    <3>1. \A m \in Tables : cache'[m] = NoEntry \/ cache'[m] = cache[m]
      BY <2>8 DEF Expire, Invalidate
    <3>2. \A m \in Tables : Fixer(m) => Fixer(m)'
      BY <2>8, <2>0, UnsettledKept DEF Expire, Fixer
    <3> QED
      BY <2>8, <3>1, <3>2, QuietInStep DEF Expire
  <2>9. ASSUME NEW h \in Handles, BeginTransaction(h)
        PROVE  AllInStep'
    <3>1. \A m \in Tables : Fixer(m) => Fixer(m)'
      BY <2>9, <2>0 DEF BeginTransaction, Fixer, Unsettled, TypeOK, TxRecords
    <3> QED
      BY <2>9, <3>1, QuietInStep DEF BeginTransaction
  <2>10. ASSUME NEW h \in Handles, NEW n \in Tables, TxMutate(h, n)
         PROVE  AllInStep'
    <3>1. \A m \in Tables : Fixer(m) => Fixer(m)'
      BY <2>10, <2>0 DEF TxMutate, Fixer, Unsettled, TypeOK, TxRecords
    <3> QED
      BY <2>10, <3>1, QuietInStep DEF TxMutate
  <2>11. ASSUME NEW h \in Handles, CommitActs(h)
         PROVE  AllInStep'
    <3> DEFINE causes == Racing(h) \cup {n \in Tables \ tx[h].mutated : db'[n] # db[n]}
    <3> SUFFICES ASSUME NEW n \in Tables, n \notin exposed' PROVE InStep(n)'
      BY DEF AllInStep
    <3>1. CASE n \in exposed \cup causes
      <4>1. Track(causes)
        BY <2>11 DEF CommitActs
      <4> QED
        BY <3>1, <4>1, NoLongerExposed
    <3>2. CASE n \notin exposed \cup causes
      <4>1. InStep(n)
        BY <3>2 DEF AllInStep
      <4>2. h \notin Callers
        BY SecondLevelCacheAssumption
      <4>3. \A d \in Callers : Holds(d, n)' => call'[d].rows = db'[n]
        BY <2>11, <3>2, <4>1, <4>2 DEF CommitActs, InStep, Holds, Racing
      <4>4. /\ tx'[h].status = "acted"
            /\ tx'[h].mutated = tx[h].mutated /\ tx'[h].pending = tx[h].pending
        BY <2>11 DEF CommitActs, TypeOK, TxRecords
      <4>5. \A g \in Handles \ {h} : tx'[g] = tx[g]
        BY <2>11 DEF CommitActs, TypeOK
      <4>6. Fixer(n) => Fixer(n)'
        BY <2>11, <2>0, <4>4, <4>5 DEF CommitActs, Fixer, Unsettled
      <4>7. db'[n] = db[n] \/ Fixer(n)'
        BY <3>2, <4>4 DEF Fixer, Unsettled
      <4>8. cache'[n] \in {NoEntry, db'[n]} \/ Fixer(n)'
        BY <2>11, <4>1, <4>6, <4>7 DEF CommitActs, InStep
      <4> QED
        BY <4>3, <4>8 DEF InStep
    <3> QED
      BY <3>1, <3>2
  <2>12. ASSUME NEW h \in Handles, CommitReturns(h)
         PROVE  AllInStep'
    <3>1. \A g \in Handles \ {h} : tx'[g] = tx[g]
      BY <2>12 DEF CommitReturns, Close, TypeOK
    <3> DEFINE causes == tx[h].pending
    <3>2. ASSUME NEW m \in Tables, m \notin tx[h].mutated, m \notin causes, Fixer(m)
          PROVE  Fixer(m)'
      <4>1. ~Unsettled(h, m)
        BY <3>2 DEF Unsettled
      <4> QED
        BY <2>12, <2>0, <3>1, <3>2, <4>1, UnsettledKept DEF CommitReturns, Fixer
    <3>3. \A m \in Tables : cache'[m] = IF m \in tx[h].mutated THEN NoEntry ELSE cache[m]
      BY <2>12 DEF CommitReturns, Invalidate
    <3>4. Track(causes)
      BY <2>12 DEF CommitReturns
    <3>5. UNCHANGED <<db, call>>
      BY <2>12 DEF CommitReturns
    <3>6. \A m \in Tables \ causes :
             cache'[m] = NoEntry \/ (cache'[m] = cache[m] /\ (Fixer(m) => Fixer(m)'))
      BY <3>2, <3>3
    <3> HIDE DEF causes
    <3> QED
      BY <3>4, <3>5, <3>6, QuietInStep
  <2>13. ASSUME NEW h \in Handles, CommitRejects(h) \/ Rollback(h)
         PROVE  AllInStep'
    <3> DEFINE causes == Untold(h)
    <3>1. \A g \in Handles \ {h} : tx'[g] = tx[g]
      BY <2>13 DEF CommitRejects, Rollback, Close, TypeOK
    <3>2. ASSUME NEW m \in Tables \ causes, Fixer(m) PROVE Fixer(m)'
      <4>1. ~Unsettled(h, m)
        BY <3>2 DEF Unsettled, Untold
      <4> QED
        BY <2>13, <2>0, <3>1, <3>2, <4>1, UnsettledKept DEF CommitRejects, Rollback, Fixer
    <3>3. Track(causes)
      BY <2>13 DEF CommitRejects, Rollback
    <3>4. UNCHANGED <<db, call, cache>>
      BY <2>13 DEF CommitRejects, Rollback
    <3>5. \A m \in Tables \ causes :
             cache'[m] = NoEntry \/ (cache'[m] = cache[m] /\ (Fixer(m) => Fixer(m)'))
      BY <3>2, <3>4
    <3> HIDE DEF causes
    <3> QED
      BY <3>3, <3>4, <3>5, QuietInStep
  <2>15. ASSUME NEW h \in Handles, NEW n \in Tables, TxMutateActs(h, n)
         PROVE  AllInStep'
    <3> SUFFICES ASSUME NEW m \in Tables, m \notin exposed' PROVE InStep(m)'
      BY DEF AllInStep
    <3>1. CASE m \in exposed \cup Racing(h)
      BY <2>15, <3>1, NoLongerExposed DEF TxMutateActs
    <3>2. CASE m \notin exposed \cup Racing(h)
      <4>1. InStep(m)
        BY <3>2 DEF AllInStep
      <4>2. h \notin Callers
        BY SecondLevelCacheAssumption
      <4>3. \A d \in Callers : Holds(d, m)' => call'[d].rows = db'[m]
        BY <2>15, <3>2, <4>1, <4>2 DEF TxMutateActs, InStep, Holds, Racing
      <4>4. /\ tx'[h].status = "active" /\ tx'[h].mutated = tx[h].mutated
            /\ tx'[h].pending = tx[h].pending \cup {n}
        BY <2>15 DEF TxMutateActs, TypeOK, TxRecords
      <4>5. \A g \in Handles \ {h} : tx'[g] = tx[g]
        BY <2>15 DEF TxMutateActs, TypeOK
      <4>6. Fixer(m) => Fixer(m)'
        BY <2>15, <2>0, <4>4, <4>5 DEF TxMutateActs, Fixer, Unsettled
      <4>7. db'[m] = db[m] \/ Fixer(m)'
        BY <2>15, <2>0, <4>4 DEF TxMutateActs, Fixer, Unsettled, TypeOK
      <4>8. cache'[m] \in {NoEntry, db'[m]} \/ Fixer(m)'
        BY <2>15, <4>1, <4>6, <4>7 DEF TxMutateActs, InStep
      <4> QED
        BY <4>3, <4>8 DEF InStep
    <3> QED
      BY <3>1, <3>2
  <2>16. ASSUME NEW h \in Handles, NEW n \in Tables, TxMutateReturns(h, n)
         PROVE  AllInStep'
    <3>1. \A m \in Tables : Fixer(m) => Fixer(m)'
      BY <2>16, <2>0 DEF TxMutateReturns, Fixer, Unsettled, TypeOK, TxRecords
    <3> QED
      BY <2>16, <3>1, QuietInStep DEF TxMutateReturns
  <2>17. ASSUME NEW h \in Handles, NEW n \in Tables, TxMutateRejects(h, n)
         PROVE  AllInStep'
    <3> DEFINE causes == {n} \ tx[h].mutated
    <3>1. \A m \in Tables \ causes : Fixer(m) => Fixer(m)'
      BY <2>17, <2>0 DEF TxMutateRejects, Fixer, Unsettled, TypeOK, TxRecords
    <3>2. Track(causes)
      BY <2>17 DEF TxMutateRejects
    <3>3. UNCHANGED <<db, call, cache>>
      BY <2>17 DEF TxMutateRejects
    <3> HIDE DEF causes
    <3> QED
      BY <3>1, <3>2, <3>3, QuietInStep
  <2>14. CASE UNCHANGED vars
    BY <2>14 DEF vars, AllInStep, InStep, Holds, Fixer, Unsettled
  <2> QED
    BY <2>1, <2>2, <2>3, <2>4, <2>5, <2>6, <2>7, <2>8, <2>9, <2>10, <2>11, <2>12,
       <2>13, <2>14, <2>15, <2>16, <2>17 DEF Next, Step
<1>3. AllInStep => CoherentUnlessExposed
  BY FixerBusy DEF AllInStep, InStep, CoherentUnlessExposed
<1> QED
  BY <1>1, <1>2, <1>3, SecondLevelCacheTypeOK, PTL DEF Spec

-----------------------------------------------------------------------------
(* The type of the state.                                                  *)

\* The keys Track names are keys.
LEMMA TaggedTrackType ==
  ASSUME Tagging!TypeOK, NEW more, more \subseteq CacheKeys, Tagging!Track(more)
  PROVE  raced' \subseteq CacheKeys
BY DEF Tagging!TypeOK, Tagging!Track

\* A call that holds a value has computed it for one of the keys.
LEMMA LookupType ==
  ASSUME Tagging!TypeOK, NEW c \in CacheCallers, lookup[c] # Idle
  PROVE  lookup[c] \in Tagging!Calls /\ lookup[c].key \in CacheKeys
           /\ lookup[c].value \in Tagging!Versions
BY DEF Tagging!TypeOK, Tagging!Calls

\* Data, entries and calls hold versions (cache-manager.ts, memory-store.ts).
THEOREM TaggedCacheTypeOK == ASSUME Tagging!TaggedCacheAssumption
  PROVE Tagging!Spec => []Tagging!TypeOK
<1>1. Tagging!Init => Tagging!TypeOK
  BY DEF Tagging!TaggedCacheAssumption, Tagging!Init, Tagging!TypeOK, Tagging!Versions
<1>2. Tagging!TypeOK /\ [Tagging!Next]_Tagging!vars => Tagging!TypeOK'
  <2> SUFFICES ASSUME Tagging!TypeOK, [Tagging!Next]_Tagging!vars PROVE Tagging!TypeOK'
    OBVIOUS
  <2>1. ASSUME NEW c \in CacheCallers, NEW k \in CacheKeys, NEW decorated \in Decorated,
               Tagging!Miss(c, k, decorated)
        PROVE  Tagging!TypeOK'
    <3>1. [at |-> "resolving", decorated |-> decorated, key |-> k,
            value |-> 0] \in Tagging!Calls
      BY DEF Tagging!TaggedCacheAssumption, Tagging!Calls, Tagging!Versions
    <3>2. raced' \subseteq CacheKeys
      BY <2>1, TaggedTrackType DEF Tagging!Miss
    <3> QED
      BY <2>1, <3>1, <3>2 DEF Tagging!Miss, Tagging!TypeOK
  <2>2. ASSUME NEW c \in CacheCallers,
               Tagging!Resolve(c) \/ Tagging!ResolverThrows(c)
                 \/ Tagging!SetInResolver(c) \/ Tagging!SetByGetOrSet(c)
        PROVE  Tagging!TypeOK'
    <3>1. lookup[c] \in Tagging!Calls /\ lookup[c].key \in CacheKeys
            /\ lookup[c].value \in Tagging!Versions
      BY <2>2, LookupType
      DEF Tagging!Resolve, Tagging!ResolverThrows, Tagging!SetInResolver,
          Tagging!SetByGetOrSet, Tagging!At
    <3>2. raced' \subseteq CacheKeys
      BY <2>2, TaggedTrackType
      DEF Tagging!Resolve, Tagging!ResolverThrows, Tagging!SetInResolver,
          Tagging!SetByGetOrSet
    <3>3. Tagged[lookup[c].key] \subseteq Tags
            /\ (lookup[c].key \in KeysWithTtl) \in BOOLEAN
      BY <3>1 DEF Tagging!TaggedCacheAssumption
    <3>4. /\ Tagging!EntryOf(c, lookup[c].key \in KeysWithTtl,
               Tagged[lookup[c].key]) \in Tagging!Entries
          /\ Tagging!EntryOf(c, FALSE, {}) \in Tagging!Entries
      BY <3>1, <3>3 DEF Tagging!EntryOf, Tagging!Entries
    <3>5. CASE Tagging!Resolve(c)
      <4>1. [lookup[c] EXCEPT !.at = "resolved", !.value = version] \in Tagging!Calls
        BY <3>1 DEF Tagging!Calls, Tagging!TypeOK
      <4>2. lookup' = [lookup EXCEPT ![c] = [lookup[c] EXCEPT !.at = "resolved",
              !.value = version]]
        BY <3>5 DEF Tagging!Resolve, Tagging!TypeOK
      <4>3. lookup' \in [CacheCallers -> Tagging!Calls \cup {Idle}]
        BY <4>1, <4>2 DEF Tagging!TypeOK
      <4> QED
        BY <3>2, <3>5, <4>3 DEF Tagging!Resolve, Tagging!TypeOK
    <3>6. CASE Tagging!ResolverThrows(c)
      <4>1. lookup' \in [CacheCallers -> Tagging!Calls \cup {Idle}]
        BY <3>6 DEF Tagging!ResolverThrows, Tagging!TypeOK
      <4> QED
        BY <3>2, <3>6, <4>1 DEF Tagging!ResolverThrows, Tagging!TypeOK
    <3>7. CASE Tagging!SetInResolver(c)
      <4>1. [lookup[c] EXCEPT !.at = "stored"] \in Tagging!Calls
        BY <3>1 DEF Tagging!Calls
      <4>2. lookup' \in [CacheCallers -> Tagging!Calls \cup {Idle}]
        BY <3>7, <4>1 DEF Tagging!SetInResolver, Tagging!TypeOK
      <4>3. entries' \in [CacheKeys -> Tagging!Entries \cup {NoEntry}]
        BY <3>1, <3>4, <3>7 DEF Tagging!SetInResolver, Tagging!TypeOK
      <4> QED
        BY <3>2, <3>7, <4>2, <4>3 DEF Tagging!SetInResolver, Tagging!TypeOK
    <3>8. CASE Tagging!SetByGetOrSet(c)
      <4>1. lookup' \in [CacheCallers -> Tagging!Calls \cup {Idle}]
        BY <3>8 DEF Tagging!SetByGetOrSet, Tagging!TypeOK
      <4>2. entries' \in [CacheKeys -> Tagging!Entries \cup {NoEntry}]
        BY <3>1, <3>4, <3>8 DEF Tagging!SetByGetOrSet, Tagging!TypeOK
      <4> QED
        BY <3>2, <3>8, <4>1, <4>2 DEF Tagging!SetByGetOrSet, Tagging!TypeOK
    <3> QED
      BY <2>2, <3>5, <3>6, <3>7, <3>8
  <2>3. ASSUME NEW k \in CacheKeys, Tagging!Expire(k) \/ Tagging!Delete(k)
        PROVE  Tagging!TypeOK'
    <3>1. raced' \subseteq CacheKeys
      BY <2>3, TaggedTrackType DEF Tagging!Expire, Tagging!Delete
    <3> QED
      BY <2>3, <3>1 DEF Tagging!Expire, Tagging!Delete, Tagging!TypeOK
  <2>4. CASE Tagging!ChangeData
    BY <2>4
    DEF Tagging!TaggedCacheAssumption, Tagging!ChangeData, Tagging!TypeOK,
        Tagging!Versions
  <2>5. ASSUME NEW tags \in SUBSET Tags, Tagging!Invalidate(tags)
        PROVE  Tagging!TypeOK'
    <3>1. {k \in {k \in CacheKeys : Tagged[k] \cap tags # {}} : Tagging!Held(k)} \subseteq CacheKeys
      OBVIOUS
    <3>2. raced' \subseteq CacheKeys
      BY <2>5, <3>1, TaggedTrackType DEF Tagging!Invalidate
    <3> QED
      BY <2>5, <3>2 DEF Tagging!Invalidate, Tagging!TypeOK
  <2>6. CASE UNCHANGED Tagging!vars
    BY <2>6 DEF Tagging!vars, Tagging!TypeOK
  <2> QED
    BY <2>1, <2>2, <2>3, <2>4, <2>5, <2>6 DEF Tagging!Next
<1> QED
  BY <1>1, <1>2, PTL DEF Tagging!Spec

-----------------------------------------------------------------------------
(* TaggedIsFresh.                                                          *)

EntryFresh(k) ==
    entries[k] # NoEntry /\ entries[k].tags = Tagged[k] => entries[k].value >= required[k]

HeldFresh(k) == \A c \in CacheCallers : Tagging!Holds(c, k) =>
  lookup[c].value >= required[k]

\* A key that no invalidation has raced has a fresh entry, and so has every
\* call that will store it: the latter is what keeps the former when it does.
AllFresh ==
    /\ \A k \in CacheKeys : required[k] <= version
    /\ \A k \in CacheKeys \ raced : EntryFresh(k) /\ HeldFresh(k)

\* A key that stops being raced has no entry, and nobody holds its value.
LEMMA NoLongerRaced ==
  ASSUME NEW more, Tagging!Track(more), NEW k \in raced \cup more, k \notin raced'
  PROVE  EntryFresh(k)' /\ HeldFresh(k)'
BY DEF Tagging!Track, EntryFresh, HeldFresh, Tagging!Held

\* A step that invalidates nothing and stores only what was held.
LEMMA StoreFresh ==
  ASSUME Tagging!TypeOK, AllFresh, Tagging!Track({}), UNCHANGED <<version, required>>,
         \A k \in CacheKeys \ raced :
             EntryFresh(k) /\ HeldFresh(k) => EntryFresh(k)' /\ HeldFresh(k)'
  PROVE  AllFresh'
BY NoLongerRaced DEF AllFresh

\* A step leaves what the calls hold, but for a call that lets its value go.
LEMMA LetGo ==
  ASSUME Tagging!TypeOK, NEW c \in CacheCallers, NEW k, HeldFresh(k), required' = required,
         \A d \in CacheCallers \ {c} : lookup'[d] = lookup[d],
         Tagging!Holds(c, k)' => Tagging!Holds(c, k) /\ lookup'[c].value = lookup[c].value
  PROVE  HeldFresh(k)'
BY DEF HeldFresh, Tagging!Holds

\* Every step keeps what is cached and what will be cached fresh.
LEMMA AllFreshStep ==
  ASSUME Tagging!TaggedCacheAssumption, Tagging!TypeOK, AllFresh,
           [Tagging!Next]_Tagging!vars
  PROVE  AllFresh'
<1>v. \A k \in CacheKeys : required[k] \in Nat /\ required[k] <= version /\ version \in Nat
  BY DEF Tagging!TypeOK, AllFresh, Tagging!Versions
<1>1. ASSUME NEW c \in CacheCallers, NEW k \in CacheKeys, NEW decorated \in Decorated,
             Tagging!Miss(c, k, decorated)
      PROVE  AllFresh'
  <2>1. /\ lookup'[c].at = "resolving"
        /\ \A d \in CacheCallers \ {c} : lookup'[d] = lookup[d]
    BY <1>1 DEF Tagging!Miss, Tagging!TypeOK
  <2>2. \A m \in CacheKeys : EntryFresh(m) => EntryFresh(m)'
    BY <1>1 DEF Tagging!Miss, EntryFresh
  <2>3. \A m \in CacheKeys : HeldFresh(m) => HeldFresh(m)'
    BY <1>1, <2>1 DEF Tagging!Miss, Tagging!Holds, HeldFresh
  <2> QED
    BY <1>1, <2>2, <2>3, StoreFresh DEF Tagging!Miss
<1>2. ASSUME NEW c \in CacheCallers, Tagging!Resolve(c)
      PROVE  AllFresh'
  <2>1. /\ lookup'[c].value = version
        /\ \A d \in CacheCallers \ {c} : lookup'[d] = lookup[d]
    BY <1>2, LookupType DEF Tagging!Resolve, Tagging!TypeOK, Tagging!At, Tagging!Calls
  <2>2. \A m \in CacheKeys : EntryFresh(m) => EntryFresh(m)'
    BY <1>2 DEF Tagging!Resolve, EntryFresh
  <2>3. \A m \in CacheKeys : HeldFresh(m) => HeldFresh(m)'
    BY <1>2, <1>v, <2>1 DEF Tagging!Resolve, Tagging!Holds, HeldFresh
  <2> QED
    BY <1>2, <2>2, <2>3, StoreFresh DEF Tagging!Resolve
<1>3. ASSUME NEW c \in CacheCallers, Tagging!ResolverThrows(c)
      PROVE  AllFresh'
  <2>1. lookup'[c] = Idle /\ \A d \in CacheCallers \ {c} : lookup'[d] = lookup[d]
    BY <1>3 DEF Tagging!ResolverThrows, Tagging!TypeOK
  <2>2. \A m \in CacheKeys : EntryFresh(m) => EntryFresh(m)'
    BY <1>3 DEF Tagging!ResolverThrows, EntryFresh
  <2>3. \A m \in CacheKeys : HeldFresh(m) => HeldFresh(m)'
    BY <1>3, <2>1 DEF Tagging!ResolverThrows, Tagging!Holds, HeldFresh
  <2> QED
    BY <1>3, <2>2, <2>3, StoreFresh DEF Tagging!ResolverThrows
<1>4. ASSUME NEW c \in CacheCallers, Tagging!SetInResolver(c) \/ Tagging!SetByGetOrSet(c)
      PROVE  AllFresh'
  <2>1. lookup[c] \in Tagging!Calls /\ lookup[c].key \in CacheKeys
    BY <1>4, LookupType DEF Tagging!SetInResolver, Tagging!SetByGetOrSet, Tagging!At
  <2>2. Tagging!Holds(c, lookup[c].key)
    BY <1>4 DEF Tagging!SetInResolver, Tagging!SetByGetOrSet, Tagging!At, Tagging!Holds
  <2>3. \A m \in CacheKeys \ {lookup[c].key} : entries'[m] = entries[m]
    BY <1>4 DEF Tagging!SetInResolver, Tagging!SetByGetOrSet, Tagging!TypeOK
  <2>4. entries'[lookup[c].key].value = lookup[c].value
    BY <1>4, <2>1
    DEF Tagging!SetInResolver, Tagging!SetByGetOrSet, Tagging!EntryOf, Tagging!TypeOK
  <2>5. required' = required
    BY <1>4 DEF Tagging!SetInResolver, Tagging!SetByGetOrSet
  <2>6. ASSUME NEW m \in CacheKeys, EntryFresh(m), HeldFresh(m)
        PROVE  EntryFresh(m)'
    <3>1. CASE m = lookup[c].key
      BY <2>2, <2>4, <2>5, <2>6, <3>1 DEF EntryFresh, HeldFresh
    <3>2. CASE m # lookup[c].key
      BY <2>3, <2>5, <2>6, <3>2 DEF EntryFresh
    <3> QED
      BY <3>1, <3>2
  <2>7. \A d \in CacheCallers \ {c} : lookup'[d] = lookup[d]
    BY <1>4 DEF Tagging!SetInResolver, Tagging!SetByGetOrSet, Tagging!TypeOK
  <2>8. lookup'[c] = Idle \/ (lookup'[c].key = lookup[c].key
          /\ lookup'[c].value = lookup[c].value)
    <3>1. CASE Tagging!SetInResolver(c)
      <4>1. lookup'[c] = [lookup[c] EXCEPT !.at = "stored"]
        BY <3>1 DEF Tagging!SetInResolver, Tagging!TypeOK
      <4> QED
        BY <2>1, <4>1 DEF Tagging!Calls
    <3>2. CASE Tagging!SetByGetOrSet(c)
      BY <3>2 DEF Tagging!SetByGetOrSet, Tagging!TypeOK
    <3> QED
      BY <1>4, <3>1, <3>2
  <2>9. \A m \in CacheKeys : Tagging!Holds(c, m)' => Tagging!Holds(c, m)
          /\ lookup'[c].value = lookup[c].value
    BY <2>2, <2>8 DEF Tagging!Holds
  <2>10. \A m \in CacheKeys : HeldFresh(m) => HeldFresh(m)'
    BY <2>5, <2>7, <2>9, LetGo
  <2> QED
    BY <1>4, <2>5, <2>6, <2>10, StoreFresh
    DEF Tagging!SetInResolver, Tagging!SetByGetOrSet
<1>5. ASSUME NEW k \in CacheKeys, Tagging!Expire(k) \/ Tagging!Delete(k)
      PROVE  AllFresh'
  <2>1. \A m \in CacheKeys : entries'[m] \in {entries[m], NoEntry}
    BY <1>5 DEF Tagging!Expire, Tagging!Delete, Tagging!TypeOK
  <2>2. UNCHANGED <<lookup, version, required>> /\ Tagging!Track({})
    BY <1>5 DEF Tagging!Expire, Tagging!Delete
  <2>3. \A m \in CacheKeys : EntryFresh(m) => EntryFresh(m)'
    BY <2>1, <2>2 DEF EntryFresh
  <2>4. \A m \in CacheKeys : HeldFresh(m) => HeldFresh(m)'
    BY <2>2 DEF HeldFresh, Tagging!Holds
  <2> QED
    BY <2>2, <2>3, <2>4, StoreFresh
<1>6. CASE Tagging!ChangeData
  <2>1. UNCHANGED <<entries, lookup, required, raced>> /\ version' = version + 1
    BY <1>6 DEF Tagging!ChangeData
  <2>2. \A k \in CacheKeys : required'[k] <= version'
    BY <1>v, <2>1
  <2>3. \A m \in CacheKeys : EntryFresh(m) /\ HeldFresh(m) => EntryFresh(m)'
          /\ HeldFresh(m)'
    BY <2>1 DEF EntryFresh, HeldFresh, Tagging!Holds
  <2> QED
    BY <2>1, <2>2, <2>3 DEF AllFresh
<1>7. ASSUME NEW tags \in SUBSET Tags, Tagging!Invalidate(tags)
      PROVE  AllFresh'
  <2> DEFINE hit == {k \in CacheKeys : Tagged[k] \cap tags # {}}
             more == {k \in hit : Tagging!Held(k)}
  <2>1. /\ version' = version /\ lookup' = lookup /\ Tagging!Track(more)
        /\ \A k \in CacheKeys :
              /\ required'[k] = IF k \in hit THEN version ELSE required[k]
              /\ entries'[k] = IF entries[k] # NoEntry /\ entries[k].tags \cap tags # {}
                               THEN NoEntry ELSE entries[k]
    BY <1>7 DEF Tagging!Invalidate
  <2>2. \A k \in CacheKeys : required'[k] <= version'
    BY <1>v, <2>1
  <2>3. ASSUME NEW k \in CacheKeys \ raced'
        PROVE  EntryFresh(k)' /\ HeldFresh(k)'
    <3>1. CASE k \in raced \cup more
      BY <2>1, <2>3, <3>1, NoLongerRaced
    <3>2. CASE k \notin raced \cup more /\ k \in hit
      <4>1. ~Tagging!Held(k)
        BY <3>2
      <4>2. HeldFresh(k)'
        BY <2>1, <4>1 DEF Tagging!Held, HeldFresh, Tagging!Holds
      <4>3. entries'[k] # NoEntry => entries'[k].tags # Tagged[k]
        BY <2>1, <3>2
      <4> QED
        BY <4>2, <4>3 DEF EntryFresh
    <3>3. CASE k \notin raced \cup more /\ k \notin hit
      <4>1. EntryFresh(k) /\ HeldFresh(k)
        BY <3>3 DEF AllFresh
      <4>2. required'[k] = required[k] /\ entries'[k] \in {entries[k], NoEntry}
        BY <2>1, <3>3
      <4> QED
        BY <2>1, <4>1, <4>2 DEF EntryFresh, HeldFresh, Tagging!Holds
    <3> QED
      BY <3>1, <3>2, <3>3
  <2> QED
    BY <2>2, <2>3 DEF AllFresh
<1>8. CASE UNCHANGED Tagging!vars
  BY <1>8 DEF Tagging!vars, AllFresh, EntryFresh, HeldFresh, Tagging!Holds
<1> QED
  BY <1>1, <1>2, <1>3, <1>4, <1>5, <1>6, <1>7, <1>8 DEF Tagging!Next

\* Whatever misses, failures, expiries and invalidations interleave, a tagged
\* entry is no older than the last invalidation of its tags, unless a call held
\* its value then (invalidateTags of memory-store.ts, getOrSet).
THEOREM TaggedCacheTaggedIsFresh ==
  ASSUME Tagging!TaggedCacheAssumption PROVE Tagging!Spec => []Tagging!TaggedIsFresh
<1>1. Tagging!Init => AllFresh
  BY DEF Tagging!Init, AllFresh, EntryFresh, HeldFresh, Tagging!Holds
<1>2. Tagging!TypeOK /\ AllFresh /\ [Tagging!Next]_Tagging!vars => AllFresh'
  BY AllFreshStep
<1>3. AllFresh => Tagging!TaggedIsFresh
  BY DEF AllFresh, EntryFresh, Tagging!TaggedIsFresh
<1> QED
  BY <1>1, <1>2, <1>3, TaggedCacheTypeOK, PTL DEF Tagging!Spec

-----------------------------------------------------------------------------
(* Offload: the life of a call's worker and timer.                         *)

\* A call that is not started has nothing; once it has settled its timer is not
\* set; what was emitted is on its way or has settled it, unless the timer fired.
OffloadIInv ==
    /\ worker \in [OffloadCalls -> {"none", "refused", "running", "terminated", "ended"}]
    /\ timer \in [OffloadCalls -> {"none", "set", "cleared", "fired"}]
    /\ events \in [OffloadCalls -> SUBSET Workers!Emissions]
    /\ promise \in [OffloadCalls -> {"pending", "resolved", "rejected"}]
    /\ emitted \in [OffloadCalls -> BOOLEAN]
    /\ \A c \in OffloadCalls :
          /\ worker[c] = "none" => promise[c] = "pending"
          /\ worker[c] \in {"none", "refused"} => timer[c] = "none" /\ ~emitted[c]
          /\ promise[c] # "pending" => timer[c] # "set"
          /\ events[c] # {} => emitted[c]
          /\ emitted[c] /\ events[c] = {} /\ timer[c] # "fired" => promise[c] # "pending"

\* A call that settles clears its timer, no call is started twice, and nothing
\* that was emitted is lost but by the timer.
LEMMA OffloadStep ==
  ASSUME OffloadIInv, [Workers!OffloadNext]_Workers!offloadVars
  PROVE  OffloadIInv'
<1>1. CASE UNCHANGED Workers!offloadVars
  BY <1>1 DEF Workers!offloadVars, OffloadIInv
<1>2. ASSUME NEW c \in OffloadCalls, Workers!CallOffloaded(c)
      PROVE  OffloadIInv'
  <2>1. PICK t \in {"none", "set"} : timer' = [timer EXCEPT ![c] = t]
    BY <1>2 DEF Workers!CallOffloaded
  <2>2. worker[c] = "none" /\ worker' = [worker EXCEPT ![c] = "running"]
        /\ UNCHANGED <<events, promise, emitted>>
    BY <1>2 DEF Workers!CallOffloaded
  <2>3. promise[c] = "pending"
    BY <2>2 DEF OffloadIInv
  <2> QED
    BY <2>1, <2>2, <2>3 DEF OffloadIInv
<1>3. ASSUME NEW c \in OffloadCalls, Workers!CallRefused(c)
      PROVE  OffloadIInv'
  BY <1>3 DEF Workers!CallRefused, OffloadIInv
<1>4. ASSUME NEW c \in OffloadCalls, Workers!WorkerPosts(c)
      PROVE  OffloadIInv'
  BY <1>4 DEF Workers!WorkerPosts, Workers!Emit, OffloadIInv, Workers!Emissions
<1>5. ASSUME NEW c \in OffloadCalls, Workers!WorkerThrows(c)
      PROVE  OffloadIInv'
  BY <1>5 DEF Workers!WorkerThrows, Workers!Emit, OffloadIInv, Workers!Emissions
<1>6. ASSUME NEW c \in OffloadCalls, Workers!WorkerExits(c)
      PROVE  OffloadIInv'
  BY <1>6 DEF Workers!WorkerExits, OffloadIInv
<1>7. ASSUME NEW c \in OffloadCalls, NEW event \in Workers!Emissions, Workers!Deliver(c, event)
      PROVE  OffloadIInv'
  <2>1. Workers!TimerCleared(c) \in {"none", "cleared", "fired"}
        /\ (timer[c] = "fired" => Workers!TimerCleared(c) = "fired")
        /\ (timer[c] = "none" => Workers!TimerCleared(c) = "none")
    BY <1>7 DEF OffloadIInv, Workers!TimerCleared
  <2>2. Workers!Settled(c, event) \in {"resolved", "rejected"}
    BY DEF OffloadIInv, Workers!Settled
  <2>3. /\ promise' = [promise EXCEPT ![c] = Workers!Settled(c, event)]
        /\ timer' = [timer EXCEPT ![c] = Workers!TimerCleared(c)]
        /\ events' = [events EXCEPT ![c] = @ \ {event}]
        /\ event \in events[c] /\ UNCHANGED <<worker, emitted>>
    BY <1>7 DEF Workers!Deliver, Workers!Heard, Workers!Emissions
  <2> QED
    BY <2>1, <2>2, <2>3 DEF OffloadIInv
<1>8. ASSUME NEW c \in OffloadCalls, Workers!TimerFires(c)
      PROVE  OffloadIInv'
  <2>1. PICK left \in SUBSET events[c] : events' = [events EXCEPT ![c] = left]
    BY <1>8 DEF Workers!TimerFires
  <2>2. /\ timer[c] = "set" /\ timer' = [timer EXCEPT ![c] = "fired"]
        /\ worker' = [worker EXCEPT ![c] = IF @ = "running" THEN "terminated" ELSE @]
        /\ UNCHANGED <<promise, emitted>>
    BY <1>8 DEF Workers!TimerFires
  <2> QED
    BY <2>1, <2>2 DEF OffloadIInv
<1> QED
  BY <1>1, <1>2, <1>3, <1>4, <1>5, <1>6, <1>7, <1>8 DEF Workers!OffloadNext

\* A settled call has no timer set and an answered one is settled, always.
THEOREM OffloadLife == Workers!OffloadSpec => [](Workers!TypeOK /\ Workers!OffloadSettles)
<1>1. Workers!OffloadInit => OffloadIInv
  BY DEF Workers!OffloadInit, OffloadIInv
<1>2. OffloadIInv /\ [Workers!OffloadNext]_Workers!offloadVars => OffloadIInv'
  BY OffloadStep
<1>3. OffloadIInv => Workers!TypeOK /\ Workers!OffloadSettles
  BY DEF OffloadIInv, Workers!TypeOK, Workers!OffloadSettles
<1> QED
  BY <1>1, <1>2, <1>3, PTL DEF Workers!OffloadSpec

-----------------------------------------------------------------------------
(* DevServer: where a change is remembered.                                *)

\* A change the build has not read is with the watcher, or queued, or about to
\* be built; and what was built is spawned before the server is idle again.
DevIInv ==
    /\ source \in 1..MaxSaves /\ built \in 0..source /\ server.version \in 0..built
    /\ server \in [version : Nat, runs : BOOLEAN]
    /\ loop \in {"idle", "build", "lint", "stop", "spawn", "crashed"}
    /\ changeQueued \in BOOLEAN /\ exits \in 0..MaxExits /\ notices \in 0..(source - 1)
    /\ loop = "idle" => ~changeQueued /\ server.version = built
    /\ built # source => changeQueued \/ notices > 0 \/ loop \in {"build", "crashed"}

\* No step loses a change.
LEMMA DevStep ==
  ASSUME Dev!DevServerAssumption, DevIInv, [Dev!DevNext]_Dev!devVars
  PROVE  DevIInv'
<1> USE DEF DevIInv, Dev!DevServerAssumption
<1>1. CASE UNCHANGED Dev!devVars
  BY <1>1 DEF Dev!devVars
<1>2. CASE Dev!Save
  BY <1>2 DEF Dev!Save
<1>3. CASE Dev!Notice
  <2>1. CASE loop = "idle"
    <3>1. loop' = "build" /\ changeQueued' = changeQueued
      BY <1>3, <2>1 DEF Dev!Notice
    <3> QED
      BY <1>3, <2>1, <3>1 DEF Dev!Notice
  <2>2. CASE loop # "idle"
    <3>1. changeQueued' /\ changeQueued' \in BOOLEAN /\ loop' = loop
      BY <1>3, <2>2 DEF Dev!Notice, Dev!Queued
    <3> QED
      BY <1>3, <2>2, <3>1 DEF Dev!Notice
  <2> QED
    BY <2>1, <2>2
<1>4. CASE Dev!Build
  BY <1>4 DEF Dev!Build
<1>5. CASE Dev!Lint
  BY <1>5 DEF Dev!Lint
<1>6. CASE Dev!CommandFails
  BY <1>6 DEF Dev!CommandFails
<1>7. CASE Dev!StopServer
  <2>1. server' \in [version : Nat, runs : BOOLEAN] /\ server'.version = server.version
    BY <1>7 DEF Dev!StopServer
  <2> QED
    BY <1>7, <2>1 DEF Dev!StopServer
<1>8. CASE Dev!SpawnServer
  <2>1. server' \in [version : Nat, runs : BOOLEAN] /\ server'.version = built
    BY <1>8 DEF Dev!SpawnServer
  <2>2. ~changeQueued' /\ changeQueued' \in BOOLEAN
    BY <1>8 DEF Dev!SpawnServer
  <2>3. (changeQueued /\ loop' = "build") \/ (~changeQueued /\ loop' = "idle")
    BY <1>8 DEF Dev!SpawnServer
  <2> QED
    BY <1>8, <2>1, <2>2, <2>3 DEF Dev!SpawnServer
<1>9. CASE Dev!ServerExits
  <2>1. server' \in [version : Nat, runs : BOOLEAN] /\ server'.version = server.version
    BY <1>9 DEF Dev!ServerExits
  <2> QED
    BY <1>9, <2>1 DEF Dev!ServerExits
<1> QED
  BY <1>1, <1>2, <1>3, <1>4, <1>5, <1>6, <1>7, <1>8, <1>9 DEF Dev!DevNext

\* No change is forgotten, in every behaviour.
THEOREM DevServerServes ==
  ASSUME Dev!DevServerAssumption
  PROVE  Dev!DevSpec => [](Dev!TypeOK /\ Dev!ChangesAreServed)
<1>1. Dev!DevInit => DevIInv
  <2>1. Dev!DevInit => server \in [version : Nat, runs : BOOLEAN] /\ server.version = 0
    BY DEF Dev!DevInit
  <2>2. Dev!DevInit => ~changeQueued /\ changeQueued \in BOOLEAN
    BY DEF Dev!DevInit
  <2> QED
    BY <2>1, <2>2 DEF Dev!DevInit, DevIInv, Dev!DevServerAssumption
<1>2. DevIInv /\ [Dev!DevNext]_Dev!devVars => DevIInv'
  BY DevStep
<1>3. DevIInv => Dev!TypeOK /\ Dev!ChangesAreServed
  BY DEF DevIInv, Dev!TypeOK, Dev!ChangesAreServed, Dev!DevServerAssumption
<1> QED
  BY <1>1, <1>2, <1>3, PTL DEF Dev!DevSpec

-----------------------------------------------------------------------------
\* The hooks an instance has run by the end of each stage of its life.
Registered == <<"register">>
Readying == <<"register", "init">>
Living == <<"register", "init", "ready">>

Hook == {"register", "init", "ready", "shutdown"}
Entry == [name : Plugins, id : Nat]
Place == {"none", "register", "init", "ready", "shutdown"}

NoneRuns == \A c \in PluginCallers : task[c].at = "none"

PlugTypes ==
    /\ registrations \in Seq(Plugins)
    /\ instances \in Seq(Entry)
    /\ hooks \in Seq(Seq(Hook))
    /\ task \in [PluginCallers -> [at : Place, i : Nat, id : Nat, entries : Seq(Entry)]]
    /\ {initialized, overlapped, failed} \subseteq BOOLEAN
    /\ Len(registrations) <= MaxRegistered /\ pluginCalls \in 0..MaxPluginCalls

\* A task is at a plugin that is registered, or past the first entry of its
\* list; what it holds has its hooks counted.
Sited(c) ==
    /\ task[c].at \in {"register", "init"} => task[c].i \in 1..Len(registrations)
    /\ task[c].at # "none" => task[c].i >= 1
    /\ task[c].at = "init" => task[c].id \in 1..Len(hooks)
    /\ \A j \in 1..Len(task[c].entries) : task[c].entries[j].id \in 1..Len(hooks)

PlugPlaces ==
    /\ \A j \in 1..Len(instances) : instances[j].id \in 1..Len(hooks)
    /\ \A c \in PluginCallers : Sited(c)

\* The call that runs is the only one, and the map is as it left it.
Ruled(c) ==
    /\ task[c].at \in {"register", "init", "ready"} => ~initialized
    /\ task[c].at = "shutdown" => task[c].entries = instances
    /\ task[c].at = "init" => \A j \in 1..Len(instances) : instances[j].id # task[c].id
    /\ task[c].at = "ready" =>
          \A j \in 1..Len(instances) : j < task[c].i =>
            "ready" \in Manager!Range(hooks[instances[j].id])

Distinct == \A j, k \in 1..Len(instances) : instances[j].id = instances[k].id => j = k

PlugAlone ==
    /\ \A c, d \in PluginCallers : task[c].at # "none" /\ task[d].at # "none" => c = d
    /\ Distinct
    /\ \A c \in PluginCallers : Ruled(c)
    /\ initialized => \A j \in 1..Len(instances) : "ready" \in Manager!Range(hooks[instances[j].id])

\* How far each instance is, by the call that runs and by its place in the map;
\* one the map does not hold waits for its onInit, was replaced before its
\* onReady, or has lived.
Staged(c) ==
    /\ task[c].at \in {"register", "init"} =>
          \A j \in 1..Len(instances) : hooks[instances[j].id] = Readying
    /\ task[c].at = "init" => hooks[task[c].id] = Registered
    /\ task[c].at = "ready" =>
          \A j \in 1..Len(instances) :
              hooks[instances[j].id] = IF j < task[c].i THEN Living ELSE Readying
    /\ task[c].at = "shutdown" =>
          \A j \in 1..Len(instances) :
              hooks[instances[j].id] = IF j < task[c].i THEN Manager!Life ELSE Living

Settled(id) ==
    \/ hooks[id] \in {Readying, Manager!Life}
    \/ \E j \in 1..Len(instances) : instances[j].id = id
    \/ \E c \in PluginCallers : task[c].at = "init" /\ task[c].id = id

PlugStages ==
    /\ \A c \in PluginCallers : Staged(c)
    /\ NoneRuns /\ initialized => \A j \in 1..Len(instances) : hooks[instances[j].id] = Living
    /\ NoneRuns /\ ~initialized => instances = <<>>
    /\ \A id \in 1..Len(hooks) : Settled(id)

PlugIInv ==
    /\ PlugTypes /\ PlugPlaces
    /\ ~overlapped => PlugAlone
    /\ ~overlapped /\ ~failed => PlugStages

-----------------------------------------------------------------------------
\* One hook more, and one stage before another.
LEMMA PlugAppend ==
  ASSUME NEW s \in Seq(Hook), NEW t \in Seq(Hook), NEW h \in Hook,
         Len(t) = Len(s) + 1, t[Len(s) + 1] = h, \A i \in 1..Len(s) : t[i] = s[i]
  PROVE  Append(s, h) = t
<1> DEFINE u == Append(s, h)
<1>1. /\ u \in Seq(Hook) /\ Len(u) = Len(s) + 1 /\ Len(s) \in Nat
      /\ u[Len(s) + 1] = h /\ \A i \in 1..Len(s) : u[i] = s[i]
  OBVIOUS
<1> HIDE DEF u
<1>2. \A i \in 1..Len(u) : u[i] = t[i]
  <2> SUFFICES ASSUME NEW i \in 1..Len(u) PROVE u[i] = t[i]
    OBVIOUS
  <2>1. i \in 1..Len(s) \/ i = Len(s) + 1
    BY <1>1
  <2> QED
    BY <1>1, <2>1
<1>3. u = t
  BY <1>1, <1>2
<1> QED
  BY <1>3 DEF u

\* A list that agrees with the beginning of another is a prefix of it.
LEMMA PlugPrefix ==
  ASSUME NEW s \in Seq(Hook), NEW t \in Seq(Hook),
         Len(s) <= Len(t), \A i \in 1..Len(s) : s[i] = t[i]
  PROVE  Manager!IsPrefix(s, t)
<1>1. SubSeq(s, 1, Len(s)) = SubSeq(t, 1, Len(s))
  OBVIOUS
<1> QED
  BY <1>1 DEF Manager!IsPrefix

\* Each hook takes an instance from one stage of its life to the next.
LEMMA PlugLife ==
  /\ {Registered, Readying, Living, Manager!Life} \subseteq Seq(Hook)
  /\ Append(Registered, "init") = Readying
  /\ Append(Readying, "ready") = Living
  /\ Append(Living, "shutdown") = Manager!Life
  /\ \A s \in {Registered, Readying, Living, Manager!Life} : Manager!IsPrefix(s, Manager!Life)
  /\ Len(Readying) = 2
  /\ "ready" \in Manager!Range(Living) /\ "ready" \in Manager!Range(Manager!Life)
<1>1. /\ Registered \in Seq(Hook) /\ Readying \in Seq(Hook)
      /\ Living \in Seq(Hook) /\ Manager!Life \in Seq(Hook)
      /\ {"register", "init", "ready", "shutdown"} \subseteq Hook
  BY DEF Registered, Readying, Living, Manager!Life, Hook
<1>2. Len(Registered) = 1 /\ Len(Readying) = 2 /\ Len(Living) = 3 /\ Len(Manager!Life) = 4
  BY DEF Registered, Readying, Living, Manager!Life
<1>3. Append(Registered, "init") = Readying
  <2>1. Len(Readying) = Len(Registered) + 1
    BY DEF Registered, Readying
  <2>2. Readying[Len(Registered) + 1] = "init"
    BY DEF Registered, Readying
  <2>3. \A i \in 1..Len(Registered) : Readying[i] = Registered[i]
    BY DEF Registered, Readying
  <2> QED
    BY <1>1, <2>1, <2>2, <2>3, PlugAppend
<1>4. Append(Readying, "ready") = Living
  <2>1. Len(Living) = Len(Readying) + 1
    BY DEF Readying, Living
  <2>2. Living[Len(Readying) + 1] = "ready"
    BY DEF Readying, Living
  <2>3. \A i \in 1..Len(Readying) : Living[i] = Readying[i]
    BY DEF Readying, Living
  <2> QED
    BY <1>1, <2>1, <2>2, <2>3, PlugAppend
<1>5. Append(Living, "shutdown") = Manager!Life
  <2>1. Len(Manager!Life) = Len(Living) + 1
    BY DEF Living, Manager!Life
  <2>2. Manager!Life[Len(Living) + 1] = "shutdown"
    BY DEF Living, Manager!Life
  <2>3. \A i \in 1..Len(Living) : Manager!Life[i] = Living[i]
    BY DEF Living, Manager!Life
  <2> QED
    BY <1>1, <2>1, <2>2, <2>3, PlugAppend
<1>6. ASSUME NEW s \in {Registered, Readying, Living, Manager!Life}
               PROVE Manager!IsPrefix(s, Manager!Life)
  <2>1. s = Registered \/ s = Readying \/ s = Living \/ s = Manager!Life
    OBVIOUS
  <2>2. Len(s) <= Len(Manager!Life)
    <3>1. CASE s = Registered
      BY <3>1 DEF Registered, Manager!Life
    <3>2. CASE s = Readying
      BY <3>2 DEF Readying, Manager!Life
    <3>3. CASE s = Living
      BY <3>3 DEF Living, Manager!Life
    <3> QED
      BY <2>1, <3>1, <3>2, <3>3, <1>1
  <2>3. \A i \in 1..Len(s) : s[i] = Manager!Life[i]
    BY <2>1 DEF Registered, Readying, Living, Manager!Life
  <2> QED
    BY <1>1, <2>1, <2>2, <2>3, PlugPrefix
<1>7. "ready" \in Manager!Range(Living) /\ "ready" \in Manager!Range(Manager!Life)
  <2>1. 3 \in DOMAIN Living /\ Living[3] = "ready" /\ 3 \in DOMAIN Manager!Life
          /\ Manager!Life[3] = "ready"
    BY DEF Living, Manager!Life
  <2> QED
    BY <2>1 DEF Manager!Range
<1> QED
  BY <1>1, <1>2, <1>3, <1>4, <1>5, <1>6, <1>7

\* A list with one hook more.
LEMMA PlugRange ==
  ASSUME NEW s \in Seq(Hook), NEW h \in Hook
  PROVE  Append(s, h) \in Seq(Hook) /\ Manager!Range(Append(s, h)) = Manager!Range(s) \cup {h}
<1> DEFINE t == Append(s, h)
<1>1. /\ t \in Seq(Hook) /\ Len(t) = Len(s) + 1 /\ Len(s) \in Nat
      /\ DOMAIN s = 1..Len(s) /\ DOMAIN t = 1..Len(t)
      /\ t[Len(t)] = h /\ \A i \in 1..Len(s) : t[i] = s[i]
  OBVIOUS
<1> HIDE DEF t
<1>2. Manager!Range(t) \subseteq Manager!Range(s) \cup {h}
  <2> SUFFICES ASSUME NEW i \in DOMAIN t PROVE t[i] \in Manager!Range(s) \cup {h}
    BY DEF Manager!Range
  <2>1. i \in 1..Len(s) \/ i = Len(t)
    BY <1>1
  <2> QED
    BY <1>1, <2>1 DEF Manager!Range
<1>3. h \in Manager!Range(t)
  <2>1. Len(t) \in DOMAIN t
    BY <1>1
  <2> QED
    BY <2>1, <1>1 DEF Manager!Range
<1>4. Manager!Range(s) \subseteq Manager!Range(t)
  <2> SUFFICES ASSUME NEW i \in DOMAIN s PROVE s[i] \in Manager!Range(t)
    BY DEF Manager!Range
  <2>1. i \in DOMAIN t /\ t[i] = s[i]
    BY <1>1
  <2> QED
    BY <2>1 DEF Manager!Range
<1> QED
  BY <1>1, <1>2, <1>3, <1>4 DEF t

-----------------------------------------------------------------------------
\* In a step of one caller the others are idle, and stay so.
LEMMA PlugOthers ==
  ASSUME PlugTypes, NEW c \in PluginCallers,
         \A d \in PluginCallers \ {c} : task[d].at = "none" /\ task'[d] = task[d]
  PROVE  /\ \A d \in PluginCallers \ {c} : Ruled(d)' /\ Staged(d)' /\ task'[d].at = "none"
         /\ \A a, d \in PluginCallers : task'[a].at # "none" /\ task'[d].at # "none" => a = d
         /\ NoneRuns <=> task[c].at = "none"
         /\ NoneRuns' <=> task'[c].at = "none"
BY DEF Ruled, Staged, NoneRuns

\* What one caller does leaves the others where they were.
LEMMA PlugOtherSites ==
  ASSUME PlugTypes, PlugPlaces, NEW c \in PluginCallers,
         \A d \in PluginCallers \ {c} : task'[d] = task[d],
         registrations' = registrations,
         Len(hooks') \in Nat, Len(hooks') >= Len(hooks)
  PROVE  /\ \A d \in PluginCallers \ {c} : Sited(d)'
         /\ \A j \in 1..Len(instances) : instances[j].id \in 1..Len(hooks')
         /\ \A j \in 1..Len(task[c].entries) : task[c].entries[j].id \in 1..Len(hooks')
<1>1. Len(hooks) \in Nat /\ 1..Len(hooks) \subseteq 1..Len(hooks')
  BY DEF PlugTypes
<1>2. \A d \in PluginCallers : Sited(d)
  BY DEF PlugPlaces
<1> QED
  BY <1>1, <1>2 DEF PlugPlaces, Sited

\* What always holds does so at first.
LEMMA PlugStarts ==
  ASSUME Manager!PluginAssumption, Manager!PluginInit
  PROVE  PlugIInv
<1>0. /\ registrations = <<>> /\ instances = <<>> /\ hooks = <<>>
      /\ initialized = FALSE /\ overlapped = FALSE /\ failed = FALSE /\ pluginCalls = 0
      /\ task = [c \in PluginCallers |-> Manager!NoTask]
      /\ MaxRegistered \in Nat /\ MaxPluginCalls \in Nat
  BY DEF Manager!PluginInit, Manager!PluginAssumption
<1>1. PlugTypes
  <2>1. registrations \in Seq(Plugins) /\ Len(registrations) = 0
    BY <1>0
  <2>2. instances \in Seq(Entry)
    BY <1>0
  <2>3. hooks \in Seq(Seq(Hook))
    BY <1>0
  <2>4. Manager!NoTask \in [at : Place, i : Nat, id : Nat, entries : Seq(Entry)]
    <3>1. <<>> \in Seq(Entry)
      OBVIOUS
    <3> QED
      BY <3>1 DEF Manager!NoTask, Place
  <2>5. task \in [PluginCallers -> [at : Place, i : Nat, id : Nat, entries : Seq(Entry)]]
    BY <1>0, <2>4
  <2>6. {initialized, overlapped, failed} \subseteq BOOLEAN
    BY <1>0
  <2>7. Len(registrations) <= MaxRegistered /\ pluginCalls \in 0..MaxPluginCalls
    BY <1>0, <2>1
  <2> QED
    BY <2>1, <2>2, <2>3, <2>5, <2>6, <2>7 DEF PlugTypes
<1>2. /\ \A c \in PluginCallers : task[c].at = "none" /\ task[c].entries = <<>>
      /\ Len(instances) = 0 /\ Len(hooks) = 0 /\ ~initialized
  BY <1>0 DEF Manager!NoTask
<1>3. PlugPlaces
  BY <1>2 DEF PlugPlaces, Sited
<1>4. PlugAlone
  BY <1>2 DEF PlugAlone, Ruled, Distinct
<1>5. PlugStages
  BY <1>0, <1>2 DEF PlugStages, Staged
<1> QED
  BY <1>1, <1>3, <1>4, <1>5 DEF PlugIInv

\* registerPlugin keeps what always holds.
LEMMA PlugRegistered ==
  ASSUME Manager!PluginAssumption, PlugIInv, NEW p \in Plugins, Manager!RegisterPlugin(p)
  PROVE  PlugIInv'
<1>0. /\ PlugTypes /\ PlugPlaces /\ Len(registrations) < MaxRegistered
      /\ registrations' = Append(registrations, p) /\ instances' = instances
      /\ initialized' = initialized /\ task' = task /\ hooks' = hooks /\ pluginCalls' = pluginCalls
      /\ overlapped' = overlapped /\ failed' = failed
  BY DEF PlugIInv, Manager!RegisterPlugin
<1>1. /\ registrations' \in Seq(Plugins) /\ Len(registrations') = Len(registrations) + 1
      /\ Len(registrations) \in Nat
  BY <1>0 DEF PlugTypes
<1>2. PlugTypes'
  BY <1>0, <1>1 DEF PlugTypes, Manager!PluginAssumption
<1>3. PlugPlaces'
  <2>1. ASSUME NEW c \in PluginCallers PROVE Sited(c)'
    <3>1. Sited(c) /\ task[c].i \in Nat
      BY <1>0 DEF PlugPlaces, PlugTypes
    <3> QED
      BY <3>1, <1>0, <1>1 DEF Sited
  <2> QED
    BY <2>1, <1>0 DEF PlugPlaces
<1>4. PlugAlone => PlugAlone'
  BY <1>0 DEF PlugAlone, Ruled, Distinct
<1>5. PlugStages => PlugStages'
  BY <1>0 DEF PlugStages, Staged, Settled, NoneRuns
<1> QED
  BY <1>0, <1>2, <1>3, <1>4, <1>5 DEF PlugIInv

\* A call that starts is alone unless the history says otherwise.
LEMMA PlugStarted ==
  ASSUME PlugTypes, NEW c \in PluginCallers, Manager!StartCall(c), ~overlapped'
  PROVE  /\ ~overlapped /\ NoneRuns
         /\ registrations' = registrations /\ instances' = instances
         /\ initialized' = initialized /\ hooks' = hooks /\ failed' = failed
<1>1. /\ overlapped' = (overlapped \/ \E d \in PluginCallers : task[d].at # "none")
      /\ registrations' = registrations /\ instances' = instances
      /\ initialized' = initialized /\ hooks' = hooks /\ failed' = failed
  BY DEF Manager!StartCall
<1>2. ~overlapped /\ \A d \in PluginCallers : task[d].at = "none"
  BY <1>1
<1> QED
  BY <1>1, <1>2 DEF NoneRuns

\* A call that starts is a call of its kind.
LEMMA PlugStartTypes ==
  ASSUME Manager!PluginAssumption, PlugTypes, NEW c \in PluginCallers, Manager!StartCall(c),
         task' \in [PluginCallers -> [at : Place, i : Nat, id : Nat, entries : Seq(Entry)]]
  PROVE  PlugTypes'
<1>1. pluginCalls' \in 0..MaxPluginCalls
  BY DEF Manager!StartCall, PlugTypes, Manager!PluginAssumption
<1>2. overlapped' \in BOOLEAN
  BY DEF Manager!StartCall, PlugTypes
<1> QED
  BY <1>1, <1>2 DEF Manager!StartCall, PlugTypes

\* bootstrap keeps what always holds.
LEMMA PlugBootstrap ==
  ASSUME Manager!PluginAssumption, PlugIInv, NEW c \in PluginCallers, Manager!Bootstrap(c)
  PROVE  PlugIInv'
<1> DEFINE at == Manager!Looping(1)
<1>1. /\ PlugTypes /\ PlugPlaces /\ Manager!StartCall(c) /\ ~initialized
      /\ task[c].at = "none" /\ Len(registrations) \in Nat
  BY DEF PlugIInv, Manager!Bootstrap, Manager!Needed, Manager!StartCall, PlugTypes
<1>2. at \in {"register", "ready"} /\ (at = "register" => 1 \in 1..Len(registrations))
  BY <1>1 DEF Manager!Looping
<1>3. task' = Manager!At(c, at, 1)
  BY DEF Manager!Bootstrap
<1> HIDE DEF at
<1>4. /\ task' \in [PluginCallers -> [at : Place, i : Nat, id : Nat, entries : Seq(Entry)]]
      /\ \A d \in PluginCallers \ {c} : task'[d] = task[d]
      /\ task'[c].at = at /\ task'[c].i = 1
      /\ task'[c].id = task[c].id /\ task'[c].entries = task[c].entries
  BY <1>1, <1>2, <1>3 DEF Manager!At, PlugTypes, Place
<1>5. PlugTypes'
  BY <1>1, <1>4, PlugStartTypes
<1>6. PlugPlaces'
  <2>1. /\ registrations' = registrations /\ instances' = instances /\ hooks' = hooks
        /\ Len(hooks) \in Nat
    BY <1>1 DEF Manager!StartCall, PlugTypes
  <2>2. /\ \A d \in PluginCallers \ {c} : Sited(d)'
        /\ \A j \in 1..Len(task[c].entries) : task[c].entries[j].id \in 1..Len(hooks')
    BY <2>1, <1>1, <1>4, PlugOtherSites
  <2>3. Sited(c)'
    BY <1>2, <1>4, <2>1, <2>2 DEF Sited
  <2> QED
    BY <1>1, <2>1, <2>2, <2>3 DEF PlugPlaces
<1>7. ASSUME ~overlapped' PROVE PlugAlone' /\ (~failed' => PlugStages')
  <2>1. /\ ~overlapped /\ NoneRuns /\ instances' = instances /\ initialized' = initialized
        /\ hooks' = hooks /\ failed' = failed
    BY <1>1, <1>7, PlugStarted
  <2>2. /\ \A d \in PluginCallers \ {c} : Ruled(d)' /\ Staged(d)' /\ task'[d].at = "none"
        /\ \A a, d \in PluginCallers : task'[a].at # "none" /\ task'[d].at # "none" => a = d
        /\ ~NoneRuns'
    BY <1>1, <1>2, <1>4, <2>1, PlugOthers DEF NoneRuns
  <2>3. Ruled(c)'
    <3>1. ~initialized' /\ task'[c].at # "init" /\ task'[c].at # "shutdown"
      BY <1>1, <1>2, <1>4, <2>1
    <3>2. \A j \in 1..Len(instances) : ~(j < task'[c].i)
      BY <1>4
    <3> QED
      BY <2>1, <3>1, <3>2 DEF Ruled
  <2>4. Distinct' /\ ~initialized'
    BY <1>1, <2>1 DEF Distinct, PlugAlone, PlugIInv
  <2>5. PlugAlone'
    BY <2>2, <2>3, <2>4 DEF PlugAlone
  <2>6. ASSUME ~failed' PROVE PlugStages'
    <3>1. PlugStages /\ instances = <<>>
      BY <1>1, <2>1, <2>6 DEF PlugIInv, PlugStages
    <3>2. Staged(c)'
      BY <1>2, <1>4, <2>1, <3>1 DEF Staged
    <3>3. \A id \in 1..Len(hooks) : Settled(id)'
      <4>1. \A d \in PluginCallers : task[d].at # "init"
        BY <2>1 DEF NoneRuns
      <4> QED
        BY <3>1, <4>1, <2>1 DEF PlugStages, Settled
    <3> QED
      BY <2>1, <2>2, <3>2, <3>3 DEF PlugStages
  <2> QED
    BY <2>5, <2>6
<1> QED
  BY <1>5, <1>6, <1>7 DEF PlugIInv

\* shutdown keeps what always holds.
LEMMA PlugShutdown ==
  ASSUME Manager!PluginAssumption, PlugIInv, NEW c \in PluginCallers, Manager!Shutdown(c)
  PROVE  PlugIInv'
<1>1. /\ PlugTypes /\ PlugPlaces /\ Manager!StartCall(c) /\ task[c].at = "none"
  BY DEF PlugIInv, Manager!Shutdown, Manager!StartCall
<1>2. /\ task' \in [PluginCallers -> [at : Place, i : Nat, id : Nat, entries : Seq(Entry)]]
      /\ \A d \in PluginCallers \ {c} : task'[d] = task[d]
      /\ task'[c] = [at |-> "shutdown", i |-> 1, id |-> 0, entries |-> instances]
  BY <1>1 DEF Manager!Shutdown, Manager!NoTask, PlugTypes, Place
<1>3. PlugTypes'
  BY <1>1, <1>2, PlugStartTypes
<1>4. PlugPlaces'
  <2>1. /\ registrations' = registrations /\ instances' = instances /\ hooks' = hooks
        /\ Len(hooks) \in Nat
    BY <1>1 DEF Manager!StartCall, PlugTypes
  <2>2. \A d \in PluginCallers \ {c} : Sited(d)'
    BY <2>1, <1>1, <1>2, PlugOtherSites
  <2>3. Sited(c)'
    BY <1>1, <1>2, <2>1 DEF Sited, PlugPlaces
  <2> QED
    BY <1>1, <2>1, <2>2, <2>3 DEF PlugPlaces
<1>5. ASSUME ~overlapped' PROVE PlugAlone' /\ (~failed' => PlugStages')
  <2>1. /\ ~overlapped /\ NoneRuns /\ instances' = instances /\ initialized' = initialized
        /\ hooks' = hooks /\ failed' = failed
    BY <1>1, <1>5, PlugStarted
  <2>2. /\ \A d \in PluginCallers \ {c} : Ruled(d)' /\ Staged(d)' /\ task'[d].at = "none"
        /\ \A a, d \in PluginCallers : task'[a].at # "none" /\ task'[d].at # "none" => a = d
        /\ ~NoneRuns'
    <3>1. task'[c].at # "none"
      BY <1>2
    <3>2. \A d \in PluginCallers \ {c} : task[d].at = "none" /\ task'[d] = task[d]
      BY <1>2, <2>1 DEF NoneRuns
    <3> QED
      BY <1>1, <3>1, <3>2, PlugOthers
  <2>3. Ruled(c)'
    BY <1>2, <2>1 DEF Ruled
  <2>4. PlugAlone
    BY <2>1 DEF PlugIInv
  <2>5. PlugAlone'
    BY <2>1, <2>2, <2>3, <2>4 DEF PlugAlone, Distinct
  <2>6. ASSUME ~failed' PROVE PlugStages'
    <3>1. PlugStages
      BY <2>1, <2>6 DEF PlugIInv
    <3>2. \A j \in 1..Len(instances) : hooks[instances[j].id] = Living
      <4>1. CASE initialized
        BY <4>1, <2>1, <3>1 DEF PlugStages
      <4>2. CASE ~initialized
        BY <4>2, <2>1, <3>1 DEF PlugStages
      <4> QED
        BY <4>1, <4>2
    <3>3. Staged(c)'
      <4>1. \A j \in 1..Len(instances) : ~(j < task'[c].i)
        BY <1>2
      <4> QED
        BY <1>2, <2>1, <3>2, <4>1 DEF Staged
    <3>4. \A id \in 1..Len(hooks) : Settled(id)'
      <4>1. \A d \in PluginCallers : task[d].at # "init"
        BY <2>1 DEF NoneRuns
      <4> QED
        BY <3>1, <4>1, <2>1 DEF PlugStages, Settled
    <3> QED
      BY <2>1, <2>2, <3>3, <3>4 DEF PlugStages
  <2> QED
    BY <2>5, <2>6
<1> QED
  BY <1>3, <1>4, <1>5 DEF PlugIInv

-----------------------------------------------------------------------------
\* A task that moves on keeps what it holds.
LEMMA PlugMoves ==
  ASSUME PlugTypes, NEW c \in PluginCallers, NEW at \in Place, NEW i \in Nat
  PROVE  /\ Manager!At(c, at, i) \in [PluginCallers -> [at : Place, i : Nat, id : Nat,
              entries : Seq(Entry)]]
         /\ \A d \in PluginCallers \ {c} : Manager!At(c, at, i)[d] = task[d]
         /\ Manager!At(c, at, i)[c].at = at /\ Manager!At(c, at, i)[c].i = i
         /\ Manager!At(c, at, i)[c].id = task[c].id
              /\ Manager!At(c, at, i)[c].entries = task[c].entries
BY DEF PlugTypes, Manager!At

\* One more hook of one instance: the others' are as they were, and what has
\* run has run.
LEMMA PlugHook ==
  ASSUME PlugTypes, NEW id \in 1..Len(hooks), NEW h \in Hook,
         hooks' = [hooks EXCEPT ![id] = Append(@, h)]
  PROVE  /\ hooks' \in Seq(Seq(Hook)) /\ Len(hooks') = Len(hooks) /\ Len(hooks) \in Nat
         /\ hooks'[id] = Append(hooks[id], h)
         /\ \A k \in 1..Len(hooks) \ {id} : hooks'[k] = hooks[k]
         /\ \A k \in 1..Len(hooks) : Manager!Range(hooks[k]) \subseteq Manager!Range(hooks'[k])
         /\ h \in Manager!Range(hooks'[id])
<1>1. hooks[id] \in Seq(Hook) /\ Len(hooks) \in Nat
  BY DEF PlugTypes
<1>2. Append(hooks[id], h) \in Seq(Hook)
        /\ Manager!Range(Append(hooks[id], h)) = Manager!Range(hooks[id]) \cup {h}
  BY <1>1, PlugRange
<1>3. /\ hooks' \in Seq(Seq(Hook)) /\ Len(hooks') = Len(hooks)
      /\ hooks'[id] = Append(hooks[id], h)
      /\ \A k \in 1..Len(hooks) \ {id} : hooks'[k] = hooks[k]
  BY <1>2 DEF PlugTypes
<1>4. ASSUME NEW k \in 1..Len(hooks)
               PROVE Manager!Range(hooks[k]) \subseteq Manager!Range(hooks'[k])
  BY <1>2, <1>3
<1> QED
  BY <1>1, <1>2, <1>3, <1>4

\* A plugin's onRegister keeps what always holds.
LEMMA PlugOnRegister ==
  ASSUME PlugIInv, NEW c \in PluginCallers, Manager!OnRegister(c)
  PROVE  PlugIInv'
<1> DEFINE n == Len(hooks) + 1
<1>1. /\ PlugTypes /\ PlugPlaces /\ task[c].at = "register"
      /\ hooks' = Append(hooks, Registered)
      /\ task' = [task EXCEPT ![c].at = "init", ![c].id = Len(hooks')]
      /\ registrations' = registrations /\ instances' = instances /\ initialized' = initialized
      /\ pluginCalls' = pluginCalls /\ overlapped' = overlapped /\ failed' = failed
  BY DEF PlugIInv, Manager!OnRegister, Registered
<1>2. /\ hooks' \in Seq(Seq(Hook)) /\ Len(hooks) \in Nat /\ Len(hooks') = n
      /\ hooks'[n] = Registered /\ \A k \in 1..Len(hooks) : hooks'[k] = hooks[k]
  BY <1>1, PlugLife DEF PlugTypes
<1>3. /\ n \in Nat /\ n \in 1..Len(hooks') /\ \A k \in 1..Len(hooks') : k \in 1..Len(hooks) \/ k = n
      /\ n \notin 1..Len(hooks)
  BY <1>2
<1> HIDE DEF n
<1>4. /\ task' \in [PluginCallers -> [at : Place, i : Nat, id : Nat, entries : Seq(Entry)]]
      /\ \A d \in PluginCallers \ {c} : task'[d] = task[d]
      /\ task'[c].at = "init" /\ task'[c].id = n
      /\ task'[c].i = task[c].i /\ task'[c].entries = task[c].entries
  BY <1>1, <1>2, <1>3 DEF PlugTypes, Place
<1>5. PlugTypes'
  BY <1>1, <1>2, <1>4 DEF PlugTypes
<1>6. /\ \A d \in PluginCallers \ {c} : Sited(d)'
      /\ \A j \in 1..Len(instances) : instances[j].id \in 1..Len(hooks')
      /\ \A j \in 1..Len(task[c].entries) : task[c].entries[j].id \in 1..Len(hooks')
  <2>1. Len(hooks') \in Nat /\ Len(hooks') >= Len(hooks)
    BY <1>2 DEF n
  <2> QED
    BY <1>1, <1>4, <2>1, PlugOtherSites
<1>7. PlugPlaces'
  <2>1. task[c].i \in 1..Len(registrations)
    BY <1>1 DEF PlugPlaces, Sited
  <2>2. Sited(c)'
    BY <1>1, <1>3, <1>4, <1>6, <2>1 DEF Sited
  <2> QED
    BY <1>1, <1>6, <2>2 DEF PlugPlaces
<1>8. ASSUME ~overlapped' PROVE PlugAlone' /\ (~failed' => PlugStages')
  <2>1. PlugAlone /\ \A d \in PluginCallers \ {c} : task[d].at = "none"
    BY <1>1, <1>8 DEF PlugIInv, PlugAlone
  <2>2. /\ \A d \in PluginCallers \ {c} : Ruled(d)' /\ Staged(d)' /\ task'[d].at = "none"
        /\ \A a, d \in PluginCallers : task'[a].at # "none" /\ task'[d].at # "none" => a = d
        /\ ~NoneRuns'
    BY <1>1, <1>4, <2>1, PlugOthers
  <2>3. \A j \in 1..Len(instances) : instances[j].id \in 1..Len(hooks) /\ instances[j].id # n
    BY <1>1, <1>3 DEF PlugPlaces
  <2>4. ~initialized'
    BY <1>1, <2>1 DEF PlugAlone, Ruled
  <2>5. Ruled(c)'
    BY <1>1, <1>4, <2>3, <2>4 DEF Ruled
  <2>6. PlugAlone'
    BY <1>1, <2>1, <2>2, <2>4, <2>5 DEF PlugAlone, Distinct
  <2>7. ASSUME ~failed' PROVE PlugStages'
    <3>1. PlugStages
      BY <1>1, <1>8, <2>7 DEF PlugIInv
    <3>2. Staged(c)'
      BY <1>1, <1>2, <1>4, <2>3, <3>1 DEF PlugStages, Staged
    <3>3. ASSUME NEW id \in 1..Len(hooks') PROVE Settled(id)'
      <4>1. CASE id = n
        BY <1>4, <4>1 DEF Settled
      <4>2. CASE id \in 1..Len(hooks)
        BY <1>1, <1>2, <2>1, <3>1, <4>2 DEF PlugStages, Settled
      <4> QED
        BY <1>3, <4>1, <4>2
    <3> QED
      BY <2>2, <3>2, <3>3 DEF PlugStages
  <2> QED
    BY <2>6, <2>7
<1> QED
  BY <1>5, <1>7, <1>8 DEF PlugIInv

\* A plugin's onReady keeps what always holds.
LEMMA PlugOnReady ==
  ASSUME PlugIInv, NEW c \in PluginCallers, Manager!OnReady(c)
  PROVE  PlugIInv'
<1> DEFINE i == task[c].i
<1> DEFINE own == instances[i].id
<1>1. /\ PlugTypes /\ PlugPlaces /\ task[c].at = "ready" /\ i <= Len(instances)
      /\ hooks' = [hooks EXCEPT ![own] = Append(@, "ready")]
      /\ task' = Manager!At(c, "ready", i + 1)
      /\ registrations' = registrations /\ instances' = instances /\ initialized' = initialized
      /\ pluginCalls' = pluginCalls /\ overlapped' = overlapped /\ failed' = failed
  BY DEF PlugIInv, Manager!OnReady
<1>2. i \in Nat /\ Len(instances) \in Nat /\ i \in 1..Len(instances) /\ own \in 1..Len(hooks)
  <2>1. i \in Nat /\ Len(instances) \in Nat
    BY <1>1 DEF PlugTypes
  <2>2. i >= 1
    BY <1>1 DEF PlugPlaces, Sited
  <2>3. i \in 1..Len(instances)
    BY <1>1, <2>1, <2>2
  <2> QED
    BY <1>1, <2>1, <2>3 DEF PlugPlaces
<1> HIDE DEF i, own
<1>3. /\ task' \in [PluginCallers -> [at : Place, i : Nat, id : Nat, entries : Seq(Entry)]]
      /\ \A d \in PluginCallers \ {c} : task'[d] = task[d]
      /\ task'[c].at = "ready" /\ task'[c].i = i + 1
      /\ task'[c].id = task[c].id /\ task'[c].entries = task[c].entries
  <2>1. "ready" \in Place /\ i + 1 \in Nat
    BY <1>2 DEF Place
  <2> QED
    BY <1>1, <2>1, PlugMoves
<1>4. /\ hooks' \in Seq(Seq(Hook)) /\ Len(hooks') = Len(hooks) /\ Len(hooks) \in Nat
      /\ hooks'[own] = Append(hooks[own], "ready")
      /\ \A k \in 1..Len(hooks) \ {own} : hooks'[k] = hooks[k]
      /\ \A k \in 1..Len(hooks) : Manager!Range(hooks[k]) \subseteq Manager!Range(hooks'[k])
      /\ "ready" \in Manager!Range(hooks'[own])
  <2>1. "ready" \in Hook
    BY DEF Hook
  <2> QED
    BY <1>1, <1>2, <2>1, PlugHook
<1>5. PlugTypes'
  BY <1>1, <1>3, <1>4 DEF PlugTypes
<1>6. PlugPlaces'
  <2>1. /\ \A d \in PluginCallers \ {c} : Sited(d)'
        /\ \A j \in 1..Len(instances) : instances[j].id \in 1..Len(hooks')
        /\ \A j \in 1..Len(task[c].entries) : task[c].entries[j].id \in 1..Len(hooks')
    <3>1. Len(hooks') \in Nat /\ Len(hooks') >= Len(hooks)
      BY <1>4
    <3> QED
      BY <1>1, <1>3, <3>1, PlugOtherSites
  <2>2. Sited(c)'
    BY <1>2, <1>3, <2>1 DEF Sited
  <2> QED
    BY <1>1, <2>1, <2>2 DEF PlugPlaces
<1>7. ASSUME ~overlapped' PROVE PlugAlone' /\ (~failed' => PlugStages')
  <2>1. PlugAlone /\ \A d \in PluginCallers \ {c} : task[d].at = "none"
    BY <1>1, <1>7 DEF PlugIInv, PlugAlone
  <2>2. /\ \A d \in PluginCallers \ {c} : Ruled(d)' /\ Staged(d)' /\ task'[d].at = "none"
        /\ \A a, d \in PluginCallers : task'[a].at # "none" /\ task'[d].at # "none" => a = d
        /\ ~NoneRuns'
    BY SMTT(20), <1>1, <1>3, <2>1, PlugOthers
  <2>3. /\ ~initialized /\ Ruled(c)
        /\ \A j \in 1..Len(instances) : instances[j].id \in 1..Len(hooks)
        /\ \A j \in 1..Len(instances) \ {i} : instances[j].id # own
    BY <1>1, <1>2, <2>1 DEF PlugAlone, PlugPlaces, Ruled, Distinct, own
  <2>4. \A j \in 1..Len(instances) : j < i + 1 => j < i \/ j = i
    BY <1>2
  <2>5. Ruled(c)'
    <3>1. ASSUME NEW j \in 1..Len(instances), j < i + 1
          PROVE  "ready" \in Manager!Range(hooks'[instances[j].id])
      <4>1. CASE j = i
        BY <1>4, <4>1 DEF own
      <4>2. CASE j < i
        <5>1. "ready" \in Manager!Range(hooks[instances[j].id])
          BY <4>2, <1>1, <2>3 DEF Ruled, i
        <5> QED
          BY <5>1, <1>4, <2>3
      <4> QED
        BY <2>4, <3>1, <4>1, <4>2
    <3> QED
      BY <1>1, <1>3, <2>3, <3>1 DEF Ruled
  <2>6. PlugAlone'
    BY <1>1, <2>1, <2>2, <2>3, <2>5 DEF PlugAlone, Distinct
  <2>7. ASSUME ~failed' PROVE PlugStages'
    <3>1. PlugStages
      BY <1>1, <1>7, <2>7 DEF PlugIInv
    <3>2. \A j \in 1..Len(instances) : hooks[instances[j].id] = IF j < i THEN Living ELSE Readying
      BY <1>1, <3>1 DEF PlugStages, Staged, i
    <3>3. ASSUME NEW j \in 1..Len(instances)
          PROVE  hooks'[instances[j].id] = IF j < i + 1 THEN Living ELSE Readying
      <4>1. CASE j = i
        <5>1. ~(i < i) /\ i < i + 1
          BY <1>2
        <5>2. hooks[own] = Readying
          BY <3>2, <1>2, <5>1 DEF own
        <5> QED
          BY <4>1, <1>4, <5>1, <5>2, PlugLife DEF own
      <4>2. CASE j # i
        <5>1. j < i <=> j < i + 1
          BY <4>2, <1>2
        <5>2. hooks'[instances[j].id] = hooks[instances[j].id]
          BY <4>2, <1>4, <2>3
        <5> QED
          BY <3>2, <5>1, <5>2
      <4> QED
        BY <4>1, <4>2
    <3>4. Staged(c)'
      BY <1>1, <1>3, <3>3 DEF Staged
    <3>5. ASSUME NEW id \in 1..Len(hooks') PROVE Settled(id)'
      <4>1. CASE id = own
        BY <1>1, <1>2, <4>1 DEF Settled, own
      <4>2. CASE id # own
        <5>1. Settled(id) /\ hooks'[id] = hooks[id]
          BY <4>2, <1>4, <3>1 DEF PlugStages
        <5>2. \A d \in PluginCallers : task[d].at # "init"
          BY <1>1, <2>1
        <5> QED
          BY <1>1, <5>1, <5>2 DEF Settled
      <4> QED
        BY <4>1, <4>2
    <3> QED
      BY <2>2, <3>4, <3>5 DEF PlugStages
  <2> QED
    BY <2>6, <2>7
<1> QED
  BY <1>5, <1>6, <1>7 DEF PlugIInv

\* A plugin's onShutdown keeps what always holds.
LEMMA PlugOnShutdown ==
  ASSUME PlugIInv, NEW c \in PluginCallers, Manager!OnShutdown(c)
  PROVE  PlugIInv'
<1> DEFINE i == task[c].i
<1> DEFINE own == task[c].entries[i].id
<1>1. /\ PlugTypes /\ PlugPlaces /\ task[c].at = "shutdown" /\ i <= Len(task[c].entries)
      /\ hooks' = [hooks EXCEPT ![own] = Append(@, "shutdown")]
      /\ task' = Manager!At(c, "shutdown", i + 1)
      /\ registrations' = registrations /\ instances' = instances /\ initialized' = initialized
      /\ pluginCalls' = pluginCalls /\ overlapped' = overlapped /\ failed' = failed
  BY DEF PlugIInv, Manager!OnShutdown
<1>2. i \in Nat /\ i \in 1..Len(task[c].entries) /\ own \in 1..Len(hooks)
  <2>1. i \in Nat /\ Len(task[c].entries) \in Nat
    BY SMTT(20), <1>1 DEF PlugTypes
  <2>2. i >= 1
    BY <1>1 DEF PlugPlaces, Sited
  <2>3. i \in 1..Len(task[c].entries)
    BY SMTT(20), <1>1, <2>1, <2>2
  <2> QED
    BY <1>1, <2>1, <2>3 DEF PlugPlaces, Sited
<1> HIDE DEF i, own
<1>3. /\ task' \in [PluginCallers -> [at : Place, i : Nat, id : Nat, entries : Seq(Entry)]]
      /\ \A d \in PluginCallers \ {c} : task'[d] = task[d]
      /\ task'[c].at = "shutdown" /\ task'[c].i = i + 1
      /\ task'[c].id = task[c].id /\ task'[c].entries = task[c].entries
  <2>1. "shutdown" \in Place /\ i + 1 \in Nat
    BY <1>2 DEF Place
  <2> QED
    BY <1>1, <2>1, PlugMoves
<1>4. /\ hooks' \in Seq(Seq(Hook)) /\ Len(hooks') = Len(hooks) /\ Len(hooks) \in Nat
      /\ hooks'[own] = Append(hooks[own], "shutdown")
      /\ \A k \in 1..Len(hooks) \ {own} : hooks'[k] = hooks[k]
      /\ \A k \in 1..Len(hooks) : Manager!Range(hooks[k]) \subseteq Manager!Range(hooks'[k])
  <2>1. "shutdown" \in Hook
    BY DEF Hook
  <2> QED
    BY <1>1, <1>2, <2>1, PlugHook
<1>5. PlugTypes'
  BY <1>1, <1>3, <1>4 DEF PlugTypes
<1>6. PlugPlaces'
  <2>1. /\ \A d \in PluginCallers \ {c} : Sited(d)'
        /\ \A j \in 1..Len(instances) : instances[j].id \in 1..Len(hooks')
        /\ \A j \in 1..Len(task[c].entries) : task[c].entries[j].id \in 1..Len(hooks')
    <3>1. Len(hooks') \in Nat /\ Len(hooks') >= Len(hooks)
      BY <1>4
    <3> QED
      BY <1>1, <1>3, <3>1, PlugOtherSites
  <2>2. Sited(c)'
    BY <1>2, <1>3, <2>1 DEF Sited
  <2> QED
    BY <1>1, <2>1, <2>2 DEF PlugPlaces
<1>7. ASSUME ~overlapped' PROVE PlugAlone' /\ (~failed' => PlugStages')
  <2>1. PlugAlone /\ \A d \in PluginCallers \ {c} : task[d].at = "none"
    BY <1>1, <1>7 DEF PlugIInv, PlugAlone
  <2>2. /\ \A d \in PluginCallers \ {c} : Ruled(d)' /\ Staged(d)' /\ task'[d].at = "none"
        /\ \A a, d \in PluginCallers : task'[a].at # "none" /\ task'[d].at # "none" => a = d
        /\ ~NoneRuns'
    BY SMTT(20), <1>1, <1>3, <2>1, PlugOthers
  <2>3. task[c].entries = instances
    BY <1>1, <2>1 DEF PlugAlone, Ruled
  <2>4. /\ i \in 1..Len(instances) /\ Len(instances) \in Nat /\ own = instances[i].id
        /\ \A j \in 1..Len(instances) : instances[j].id \in 1..Len(hooks)
        /\ \A j \in 1..Len(instances) \ {i} : instances[j].id # own
    BY SMTT(20), <1>1, <1>2, <2>1, <2>3 DEF PlugAlone, PlugPlaces, PlugTypes, Distinct, own
  <2>5. Ruled(c)'
    BY <1>1, <1>3, <2>3 DEF Ruled
  <2>6. initialized => \A j \in 1..Len(instances) : "ready" \in Manager!Range(hooks'[instances[j].id])
    BY <1>4, <2>1, <2>4 DEF PlugAlone
  <2>7. PlugAlone'
    BY <1>1, <2>1, <2>2, <2>5, <2>6 DEF PlugAlone, Distinct
  <2>8. ASSUME ~failed' PROVE PlugStages'
    <3>1. PlugStages
      BY <1>1, <1>7, <2>8 DEF PlugIInv
    <3>2. \A j \in 1..Len(instances) : hooks[instances[j].id] = IF j < i THEN Manager!Life ELSE Living
      BY <1>1, <3>1 DEF PlugStages, Staged, i
    <3>3. ASSUME NEW j \in 1..Len(instances)
          PROVE  hooks'[instances[j].id] = IF j < i + 1 THEN Manager!Life ELSE Living
      <4>1. CASE j = i
        <5>1. ~(i < i) /\ i < i + 1
          BY <1>2
        <5>2. hooks[own] = Living
          BY <3>2, <2>4, <5>1
        <5> QED
          BY <4>1, <1>4, <2>4, <5>1, <5>2, PlugLife
      <4>2. CASE j # i
        <5>1. j < i <=> j < i + 1
          BY <4>2, <1>2
        <5>2. hooks'[instances[j].id] = hooks[instances[j].id]
          BY <4>2, <1>4, <2>4
        <5> QED
          BY <3>2, <5>1, <5>2
      <4> QED
        BY <4>1, <4>2
    <3>4. Staged(c)'
      BY <1>1, <1>3, <3>3 DEF Staged
    <3>5. ASSUME NEW id \in 1..Len(hooks') PROVE Settled(id)'
      <4>1. CASE id = own
        BY <1>1, <2>4, <4>1 DEF Settled
      <4>2. CASE id # own
        <5>1. Settled(id) /\ hooks'[id] = hooks[id]
          BY <4>2, <1>4, <3>1 DEF PlugStages
        <5>2. \A d \in PluginCallers : task[d].at # "init"
          BY <1>1, <2>1
        <5> QED
          BY <1>1, <5>1, <5>2 DEF Settled
      <4> QED
        BY <4>1, <4>2
    <3> QED
      BY <2>2, <3>4, <3>5 DEF PlugStages
  <2> QED
    BY <2>7, <2>8
<1> QED
  BY <1>5, <1>6, <1>7 DEF PlugIInv

-----------------------------------------------------------------------------
\* A call that ends leaves no task, whether it resolves or rejects.
LEMMA PlugLeaves ==
  ASSUME PlugTypes, PlugPlaces,
         NEW c \in PluginCallers, task' = [task EXCEPT ![c] = Manager!NoTask],
         registrations' = registrations, hooks' = hooks
  PROVE  /\ task' \in [PluginCallers -> [at : Place, i : Nat, id : Nat, entries : Seq(Entry)]]
         /\ \A d \in PluginCallers \ {c} : task'[d] = task[d]
         /\ task'[c].at = "none"
         /\ \A d \in PluginCallers : Sited(d)'
         /\ \A j \in 1..Len(instances) : instances[j].id \in 1..Len(hooks)
<1>1. Manager!NoTask \in [at : Place, i : Nat, id : Nat, entries : Seq(Entry)]
  <2>1. <<>> \in Seq(Entry)
    OBVIOUS
  <2> QED
    BY <2>1 DEF Manager!NoTask, Place
<1>2. /\ task' \in [PluginCallers -> [at : Place, i : Nat, id : Nat, entries : Seq(Entry)]]
      /\ \A d \in PluginCallers \ {c} : task'[d] = task[d]
      /\ task'[c] = Manager!NoTask
  BY <1>1 DEF PlugTypes
<1>3. Sited(c)'
  BY <1>2 DEF Manager!NoTask, Sited
<1>4. \A d \in PluginCallers \ {c} : Sited(d)'
  BY <1>2 DEF PlugPlaces, Sited
<1> QED
  BY <1>2, <1>3, <1>4 DEF Manager!NoTask, PlugPlaces

\* The end of bootstrap keeps what always holds.
LEMMA PlugBootstrapEnds ==
  ASSUME PlugIInv, NEW c \in PluginCallers, Manager!BootstrapEnds(c)
  PROVE  PlugIInv'
<1>1. /\ PlugTypes /\ PlugPlaces /\ task[c].at = "ready" /\ task[c].i > Len(instances)
      /\ task' = [task EXCEPT ![c] = Manager!NoTask] /\ initialized' = TRUE
      /\ registrations' = registrations /\ instances' = instances /\ hooks' = hooks
      /\ pluginCalls' = pluginCalls /\ overlapped' = overlapped /\ failed' = failed
  BY DEF PlugIInv, Manager!BootstrapEnds
<1>2. /\ task' \in [PluginCallers -> [at : Place, i : Nat, id : Nat, entries : Seq(Entry)]]
      /\ \A d \in PluginCallers \ {c} : task'[d] = task[d]
      /\ task'[c].at = "none"
      /\ \A d \in PluginCallers : Sited(d)'
      /\ \A j \in 1..Len(instances) : instances[j].id \in 1..Len(hooks)
  BY <1>1, PlugLeaves
<1>3. \A j \in 1..Len(instances) : j < task[c].i
  BY <1>1 DEF PlugTypes
<1>4. PlugTypes'
  <2>1. initialized' \in BOOLEAN
    BY <1>1
  <2> QED
    BY <1>1, <1>2, <2>1 DEF PlugTypes
<1>5. PlugPlaces'
  BY <1>1, <1>2 DEF PlugPlaces
<1>6. ASSUME ~overlapped' PROVE PlugAlone' /\ (~failed' => PlugStages')
  <2>1. PlugAlone /\ \A d \in PluginCallers \ {c} : task[d].at = "none"
    BY <1>1, <1>6 DEF PlugIInv, PlugAlone
  <2>2. /\ \A d \in PluginCallers \ {c} : Ruled(d)' /\ Staged(d)' /\ task'[d].at = "none"
        /\ \A a, d \in PluginCallers : task'[a].at # "none" /\ task'[d].at # "none" => a = d
        /\ NoneRuns'
    BY <1>1, <1>2, <2>1, PlugOthers
  <2>3. Ruled(c)' /\ Staged(c)'
    BY <1>2 DEF Ruled, Staged
  <2>4. \A j \in 1..Len(instances) : "ready" \in Manager!Range(hooks[instances[j].id])
    BY <1>1, <1>3, <2>1 DEF PlugAlone, Ruled
  <2>5. PlugAlone'
    BY <1>1, <2>1, <2>2, <2>3, <2>4 DEF PlugAlone, Distinct
  <2>6. ASSUME ~failed' PROVE PlugStages'
    <3>1. PlugStages
      BY <1>1, <1>6, <2>6 DEF PlugIInv
    <3>2. \A j \in 1..Len(instances) : hooks[instances[j].id] = Living
      BY <1>1, <1>3, <3>1 DEF PlugStages, Staged
    <3>3. \A id \in 1..Len(hooks) : Settled(id)'
      <4>1. \A d \in PluginCallers : task[d].at # "init"
        BY <1>1, <2>1
      <4> QED
        BY <1>1, <3>1, <4>1 DEF PlugStages, Settled
    <3> QED
      BY <1>1, <2>2, <2>3, <3>2, <3>3 DEF PlugStages
  <2> QED
    BY <2>5, <2>6
<1> QED
  BY <1>4, <1>5, <1>6 DEF PlugIInv

\* The end of shutdown keeps what always holds.
LEMMA PlugShutdownEnds ==
  ASSUME PlugIInv, NEW c \in PluginCallers, Manager!ShutdownEnds(c)
  PROVE  PlugIInv'
<1>1. /\ PlugTypes /\ PlugPlaces /\ task[c].at = "shutdown" /\ task[c].i > Len(task[c].entries)
      /\ task' = [task EXCEPT ![c] = Manager!NoTask] /\ initialized' = FALSE /\ instances' = <<>>
      /\ registrations' = registrations /\ hooks' = hooks
      /\ pluginCalls' = pluginCalls /\ overlapped' = overlapped /\ failed' = failed
  BY DEF PlugIInv, Manager!ShutdownEnds
<1>2. /\ task' \in [PluginCallers -> [at : Place, i : Nat, id : Nat, entries : Seq(Entry)]]
      /\ \A d \in PluginCallers \ {c} : task'[d] = task[d]
      /\ task'[c].at = "none"
      /\ \A d \in PluginCallers : Sited(d)'
  BY <1>1, PlugLeaves
<1>3. instances' \in Seq(Entry) /\ Len(instances') = 0 /\ initialized' \in BOOLEAN /\ ~initialized'
  <2>1. instances' \in Seq(Entry) /\ Len(instances') = 0
    BY <1>1
  <2>2. initialized' \in BOOLEAN /\ ~initialized'
    BY <1>1
  <2> QED
    BY <2>1, <2>2
<1>4. PlugTypes'
  BY <1>1, <1>2, <1>3 DEF PlugTypes
<1>5. PlugPlaces'
  BY <1>2, <1>3 DEF PlugPlaces
<1>6. ASSUME ~overlapped' PROVE PlugAlone' /\ (~failed' => PlugStages')
  <2>1. PlugAlone /\ \A d \in PluginCallers \ {c} : task[d].at = "none"
    BY <1>1, <1>6 DEF PlugIInv, PlugAlone
  <2>2. /\ \A d \in PluginCallers \ {c} : Ruled(d)' /\ Staged(d)' /\ task'[d].at = "none"
        /\ \A a, d \in PluginCallers : task'[a].at # "none" /\ task'[d].at # "none" => a = d
        /\ NoneRuns'
    BY <1>1, <1>2, <2>1, PlugOthers
  <2>3. Ruled(c)' /\ Staged(c)'
    BY <1>2 DEF Ruled, Staged
  <2>4. PlugAlone'
    BY <1>3, <2>2, <2>3 DEF PlugAlone, Distinct
  <2>5. ASSUME ~failed' PROVE PlugStages'
    <3>1. PlugStages
      BY <1>1, <1>6, <2>5 DEF PlugIInv
    <3>2. task[c].entries = instances
      BY <1>1, <2>1 DEF PlugAlone, Ruled
    <3>3. \A j \in 1..Len(instances) : j < task[c].i
      BY <1>1, <3>2 DEF PlugTypes
    <3>4. \A j \in 1..Len(instances) : hooks[instances[j].id] = Manager!Life
      BY <1>1, <3>1, <3>3 DEF PlugStages, Staged
    <3>5. \A id \in 1..Len(hooks) : Settled(id)'
      <4>1. \A d \in PluginCallers : task[d].at # "init"
        BY <1>1, <2>1
      <4> QED
        BY <1>1, <3>1, <3>4, <4>1 DEF PlugStages, Settled
    <3> QED
      BY <1>1, <1>3, <2>2, <2>3, <3>5 DEF PlugStages
  <2> QED
    BY <2>4, <2>5
<1> QED
  BY <1>4, <1>5, <1>6 DEF PlugIInv

\* A hook that throws keeps what always holds.
LEMMA PlugHookThrows ==
  ASSUME PlugIInv, NEW c \in PluginCallers, Manager!HookThrows(c)
  PROVE  PlugIInv'
<1>1. /\ PlugTypes /\ PlugPlaces /\ task[c].at # "none"
      /\ task' = [task EXCEPT ![c] = Manager!NoTask] /\ failed' = TRUE
      /\ initialized' = initialized /\ instances' = instances
      /\ registrations' = registrations /\ hooks' = hooks
      /\ pluginCalls' = pluginCalls /\ overlapped' = overlapped
  BY DEF PlugIInv, Manager!HookThrows
<1>2. /\ task' \in [PluginCallers -> [at : Place, i : Nat, id : Nat, entries : Seq(Entry)]]
      /\ \A d \in PluginCallers \ {c} : task'[d] = task[d]
      /\ task'[c].at = "none"
      /\ \A d \in PluginCallers : Sited(d)'
      /\ \A j \in 1..Len(instances) : instances[j].id \in 1..Len(hooks)
  BY <1>1, PlugLeaves
<1>3. failed' \in BOOLEAN
  BY <1>1
<1>4. PlugTypes'
  BY <1>1, <1>2, <1>3 DEF PlugTypes
<1>5. PlugPlaces'
  BY <1>1, <1>2 DEF PlugPlaces
<1>6. ASSUME ~overlapped' PROVE PlugAlone'
  <2>1. PlugAlone /\ \A d \in PluginCallers \ {c} : task[d].at = "none"
    BY <1>1, <1>6 DEF PlugIInv, PlugAlone
  <2>2. /\ \A d \in PluginCallers \ {c} : Ruled(d)'
        /\ \A a, d \in PluginCallers : task'[a].at # "none" /\ task'[d].at # "none" => a = d
    BY <1>1, <1>2, <2>1, PlugOthers
  <2>3. Ruled(c)'
    BY <1>2 DEF Ruled
  <2> QED
    BY <1>1, <2>1, <2>2, <2>3 DEF PlugAlone, Distinct
<1> QED
  BY <1>1, <1>4, <1>5, <1>6 DEF PlugIInv

\* A list of entries with one more, or with another at a place.
LEMMA PlugAdded ==
  ASSUME NEW s \in Seq(Entry), NEW e \in Entry
  PROVE  /\ Append(s, e) \in Seq(Entry) /\ Len(Append(s, e)) = Len(s) + 1
         /\ Append(s, e)[Len(s) + 1] = e
         /\ \A j \in 1..Len(s) : Append(s, e)[j] = s[j]
OBVIOUS

\* A list with another element at one place.
LEMMA PlugPlaced ==
  ASSUME NEW s \in Seq(Entry), NEW e \in Entry, NEW p \in 1..Len(s)
  PROVE  /\ [s EXCEPT ![p] = e] \in Seq(Entry) /\ Len([s EXCEPT ![p] = e]) = Len(s)
         /\ [s EXCEPT ![p] = e][p] = e
         /\ \A j \in 1..Len(s) \ {p} : [s EXCEPT ![p] = e][j] = s[j]
OBVIOUS

\* The map after an onInit: the new instance is at one place, the others are
\* where they were.
LEMMA PlugPut ==
  ASSUME PlugTypes, NEW e \in Entry,
         instances' = IF Manager!Places(e.name) = {} THEN Append(instances, e)
                      ELSE [instances EXCEPT ![CHOOSE place \in Manager!Places(e.name) : TRUE] = e]
  PROVE  /\ instances' \in Seq(Entry)
         /\ \E p \in 1..Len(instances') :
               /\ instances'[p] = e
               /\ \A j \in 1..Len(instances') \ {p} :
                     j \in 1..Len(instances) /\ instances'[j] = instances[j]
               /\ \A j \in 1..Len(instances) \ {p} : j \in 1..Len(instances')
<1>0. instances \in Seq(Entry) /\ Len(instances) \in Nat /\ DOMAIN instances = 1..Len(instances)
  BY DEF PlugTypes
<1>1. CASE Manager!Places(e.name) = {}
  <2>1. instances' = Append(instances, e)
    BY <1>1
  <2>2. /\ instances' \in Seq(Entry) /\ Len(instances') = Len(instances) + 1
        /\ instances'[Len(instances) + 1] = e
        /\ \A j \in 1..Len(instances) : instances'[j] = instances[j]
    <3> DEFINE t == Append(instances, e)
    <3>1. /\ t \in Seq(Entry) /\ Len(t) = Len(instances) + 1 /\ t[Len(instances) + 1] = e
          /\ \A j \in 1..Len(instances) : t[j] = instances[j]
      BY <1>0, PlugAdded
    <3>2. instances' = t
      BY <2>1
    <3> HIDE DEF t
    <3> QED
      BY <3>1, <3>2
  <2>3. Len(instances) + 1 \in 1..Len(instances')
    BY <1>0, <2>2
  <2>4. \A j \in 1..Len(instances') \ {Len(instances) + 1} :
           j \in 1..Len(instances) /\ instances'[j] = instances[j]
    BY <1>0, <2>2
  <2>5. \A j \in 1..Len(instances) : j \in 1..Len(instances')
    BY <1>0, <2>2
  <2> QED
    BY <2>2, <2>3, <2>4, <2>5
<1>2. CASE Manager!Places(e.name) # {}
  <2>1. PICK p : p = CHOOSE place \in Manager!Places(e.name) : TRUE
    OBVIOUS
  <2>2. p \in 1..Len(instances)
    <3>1. p \in Manager!Places(e.name)
      BY <1>2, <2>1
    <3> QED
      BY <1>0, <3>1 DEF Manager!Places
  <2>3. instances' = [instances EXCEPT ![p] = e]
    BY <1>2, <2>1
  <2>4. /\ instances' \in Seq(Entry) /\ Len(instances') = Len(instances) /\ instances'[p] = e
        /\ \A j \in 1..Len(instances) \ {p} : instances'[j] = instances[j]
    <3> DEFINE t == [instances EXCEPT ![p] = e]
    <3>1. /\ t \in Seq(Entry) /\ Len(t) = Len(instances) /\ t[p] = e
          /\ \A j \in 1..Len(instances) \ {p} : t[j] = instances[j]
      BY <1>0, <2>2, PlugPlaced
    <3>2. instances' = t
      BY <2>3
    <3> HIDE DEF t
    <3> QED
      BY <3>1, <3>2
  <2> QED
    BY <2>2, <2>4
<1> QED
  BY <1>1, <1>2

\* A plugin's onInit keeps what always holds.
LEMMA PlugOnInit ==
  ASSUME PlugIInv, NEW c \in PluginCallers, Manager!OnInit(c)
  PROVE  PlugIInv'
<1> DEFINE i == task[c].i
<1> DEFINE own == task[c].id
<1> DEFINE e == [name |-> registrations[i], id |-> own]
<1> DEFINE at == Manager!Looping(i + 1)
<1> DEFINE k == IF i < Len(registrations) THEN i + 1 ELSE 1
<1>1. /\ PlugTypes /\ PlugPlaces /\ task[c].at = "init"
      /\ hooks' = [hooks EXCEPT ![own] = Append(@, "init")]
      /\ task' = Manager!At(c, at, k)
      /\ registrations' = registrations /\ initialized' = initialized
      /\ pluginCalls' = pluginCalls /\ overlapped' = overlapped /\ failed' = failed
  BY DEF PlugIInv, Manager!OnInit
<1>2. /\ i \in Nat /\ Len(registrations) \in Nat /\ i \in 1..Len(registrations)
      /\ own \in 1..Len(hooks) /\ own \in Nat /\ e \in Entry /\ e.id = own
  <2>1. Sited(c)
    BY <1>1 DEF PlugPlaces
  <2>2. i \in 1..Len(registrations) /\ own \in 1..Len(hooks) /\ i \in Nat /\ own \in Nat
    BY <1>1, <2>1 DEF Sited, PlugTypes
  <2>3. registrations[i] \in Plugins /\ Len(registrations) \in Nat
    BY <1>1, <2>2 DEF PlugTypes
  <2> QED
    BY <2>2, <2>3 DEF Entry
<1>3. instances' = IF Manager!Places(e.name) = {} THEN Append(instances, e)
                   ELSE [instances EXCEPT ![CHOOSE place \in Manager!Places(e.name) : TRUE] = e]
  BY DEF Manager!OnInit
<1>4. /\ at \in {"register", "ready"} /\ (at = "ready" => k = 1) /\ k \in Nat /\ k >= 1
      /\ (at = "register" => k \in 1..Len(registrations))
  <2>1. i + 1 <= Len(registrations) <=> i < Len(registrations)
    BY <1>2
  <2> QED
    BY <1>2, <2>1 DEF Manager!Looping
<1> HIDE DEF i, own, e, at, k
<1>5. /\ instances' \in Seq(Entry)
      /\ \E p \in 1..Len(instances') :
            /\ instances'[p] = e
            /\ \A j \in 1..Len(instances') \ {p} :
                  j \in 1..Len(instances) /\ instances'[j] = instances[j]
            /\ \A j \in 1..Len(instances) \ {p} : j \in 1..Len(instances')
  BY <1>1, <1>2, <1>3, PlugPut
<1>6. PICK p \in 1..Len(instances') :
         /\ instances'[p] = e
         /\ \A j \in 1..Len(instances') \ {p} :
               j \in 1..Len(instances) /\ instances'[j] = instances[j]
         /\ \A j \in 1..Len(instances) \ {p} : j \in 1..Len(instances')
  BY <1>5
<1>7. /\ task' \in [PluginCallers -> [at : Place, i : Nat, id : Nat, entries : Seq(Entry)]]
      /\ \A d \in PluginCallers \ {c} : task'[d] = task[d]
      /\ task'[c].at = at /\ task'[c].i = k
      /\ task'[c].id = task[c].id /\ task'[c].entries = task[c].entries
  <2>1. at \in Place
    BY <1>4 DEF Place
  <2> QED
    BY <1>1, <1>4, <2>1, PlugMoves
<1>8. /\ hooks' \in Seq(Seq(Hook)) /\ Len(hooks') = Len(hooks) /\ Len(hooks) \in Nat
      /\ hooks'[own] = Append(hooks[own], "init")
      /\ \A id \in 1..Len(hooks) \ {own} : hooks'[id] = hooks[id]
  <2>1. "init" \in Hook
    BY DEF Hook
  <2> QED
    BY <1>1, <1>2, <2>1, PlugHook
<1>9. PlugTypes'
  BY <1>1, <1>5, <1>7, <1>8 DEF PlugTypes
<1>10. PlugPlaces'
  <2>1. /\ \A d \in PluginCallers \ {c} : Sited(d)'
        /\ \A j \in 1..Len(instances) : instances[j].id \in 1..Len(hooks')
        /\ \A j \in 1..Len(task[c].entries) : task[c].entries[j].id \in 1..Len(hooks')
    <3>1. Len(hooks') \in Nat /\ Len(hooks') >= Len(hooks)
      BY <1>8
    <3> QED
      BY <1>1, <1>7, <3>1, PlugOtherSites
  <2>2. Sited(c)'
    BY <1>1, <1>4, <1>7, <2>1 DEF Sited
  <2>3. \A j \in 1..Len(instances') : instances'[j].id \in 1..Len(hooks')
    BY <1>2, <1>6, <1>8, <2>1
  <2> QED
    BY <2>1, <2>2, <2>3 DEF PlugPlaces
<1>11. ASSUME ~overlapped' PROVE PlugAlone' /\ (~failed' => PlugStages')
  <2>1. PlugAlone /\ \A d \in PluginCallers \ {c} : task[d].at = "none"
    BY <1>1, <1>11 DEF PlugIInv, PlugAlone
  <2>2. /\ \A d \in PluginCallers \ {c} : Ruled(d)' /\ Staged(d)' /\ task'[d].at = "none"
        /\ \A a, d \in PluginCallers : task'[a].at # "none" /\ task'[d].at # "none" => a = d
        /\ NoneRuns' <=> task'[c].at = "none"
    BY <1>1, <1>7, <2>1, PlugOthers
  <2>3. /\ ~initialized' /\ ~NoneRuns'
        /\ \A j \in 1..Len(instances) : instances[j].id # own
    <3>1. Ruled(c)
      BY <2>1 DEF PlugAlone
    <3> QED
      BY <1>1, <1>4, <1>7, <2>2, <3>1 DEF Ruled, own
  <2>4. \A j \in 1..Len(instances') : ~(j < 1)
    OBVIOUS
  <2>5. Ruled(c)'
    BY <1>4, <1>7, <2>3, <2>4 DEF Ruled
  <2>6. Distinct'
    BY <1>2, <1>6, <2>1, <2>3 DEF PlugAlone, Distinct
  <2>7. PlugAlone'
    BY <2>2, <2>3, <2>5, <2>6 DEF PlugAlone
  <2>8. ASSUME ~failed' PROVE PlugStages'
    <3>1. PlugStages /\ Staged(c)
      BY <1>1, <1>11, <2>8 DEF PlugIInv, PlugStages
    <3>2. hooks'[own] = Readying
      BY <1>1, <1>8, <3>1, PlugLife DEF Staged, own
    <3>3. \A j \in 1..Len(instances) :
             /\ hooks[instances[j].id] = Readying
             /\ hooks'[instances[j].id] = Readying
      BY <1>1, <1>8, <2>3, <3>1 DEF Staged, PlugPlaces
    <3>4. \A j \in 1..Len(instances') : hooks'[instances'[j].id] = Readying
      BY <1>2, <1>6, <3>2, <3>3
    <3>5. Staged(c)'
      BY <1>4, <1>7, <2>4, <3>4 DEF Staged
    <3>6. ASSUME NEW id \in 1..Len(hooks') PROVE Settled(id)'
      <4>1. CASE id = own
        BY <1>2, <1>6, <4>1 DEF Settled
      <4>2. CASE \E j \in 1..Len(instances) : instances[j].id = id
        BY <3>3, <4>2 DEF Settled
      <4>3. CASE id # own /\ hooks[id] \in {Readying, Manager!Life}
        BY <1>8, <4>3 DEF Settled
      <4>4. Settled(id)
        BY <1>8, <3>1 DEF PlugStages
      <4>5. \A d \in PluginCallers : task[d].at = "init" => d = c
        BY <1>1, <2>1
      <4> QED
        BY <4>1, <4>2, <4>3, <4>4, <4>5 DEF Settled, own
    <3> QED
      BY <2>2, <2>3, <3>5, <3>6 DEF PlugStages
  <2> QED
    BY <2>7, <2>8
<1> QED
  BY <1>9, <1>10, <1>11 DEF PlugIInv

-----------------------------------------------------------------------------

\* Every step of the plugins keeps what always holds.
LEMMA PlugKeeps ==
  ASSUME Manager!PluginAssumption, PlugIInv, [Manager!PluginNext]_Manager!pluginVars
  PROVE  PlugIInv'
<1>1. CASE UNCHANGED Manager!pluginVars
  BY <1>1
  DEF Manager!pluginVars, PlugIInv, PlugTypes, PlugPlaces, PlugAlone, PlugStages, Sited, Ruled,
              Distinct, Staged, Settled, NoneRuns
<1>2. CASE Manager!PluginNext
  <2>1. ASSUME NEW p \in Plugins, Manager!RegisterPlugin(p) PROVE PlugIInv'
    BY <2>1, PlugRegistered
  <2>2. ASSUME NEW c \in PluginCallers,
               \/ Manager!Bootstrap(c) \/ Manager!Shutdown(c) \/ Manager!HookThrows(c)
               \/ Manager!OnRegister(c) \/ Manager!OnInit(c) \/ Manager!OnReady(c)
                    \/ Manager!OnShutdown(c)
               \/ Manager!BootstrapEnds(c) \/ Manager!ShutdownEnds(c)
        PROVE  PlugIInv'
    BY <2>2, PlugBootstrap, PlugShutdown, PlugHookThrows, PlugOnRegister, PlugOnInit, PlugOnReady,
       PlugOnShutdown, PlugBootstrapEnds, PlugShutdownEnds
  <2> QED
    BY <1>2, <2>1, <2>2 DEF Manager!PluginNext
<1> QED
  BY <1>1, <1>2

\* What the stages say of an instance's life, in the words of PluginsLive.
LEMMA PlugLives ==
  ASSUME PlugIInv
  PROVE  Manager!PluginsLive
<1>0. /\ PlugTypes /\ PlugPlaces
      /\ Len(hooks) \in Nat /\ DOMAIN hooks = 1..Len(hooks) /\ DOMAIN instances = 1..Len(instances)
  BY DEF PlugIInv, PlugTypes
<1>1. \A e \in Manager!Range(instances) : \E j \in 1..Len(instances) : e = instances[j]
  BY <1>0 DEF Manager!Range
<1>2. ASSUME ~overlapped, initialized, NEW e \in Manager!Range(instances)
               PROVE "ready" \in Manager!Range(hooks[e.id])
  BY <1>1, <1>2 DEF PlugIInv, PlugAlone
<1>3. ASSUME ~overlapped, ~failed, NEW id \in DOMAIN hooks
               PROVE Manager!IsPrefix(hooks[id], Manager!Life)
  <2>1. PlugStages /\ Settled(id)
    BY <1>0, <1>3 DEF PlugIInv, PlugStages
  <2>2. CASE hooks[id] \in {Readying, Manager!Life}
    BY <2>2, PlugLife
  <2>3. ASSUME NEW c \in PluginCallers, task[c].at = "init", task[c].id = id
        PROVE  Manager!IsPrefix(hooks[id], Manager!Life)
    BY <2>1, <2>3, PlugLife DEF PlugStages, Staged
  <2>4. ASSUME NEW j \in 1..Len(instances), instances[j].id = id
        PROVE  Manager!IsPrefix(hooks[id], Manager!Life)
    <3>1. CASE NoneRuns
      <4>1. initialized
        BY <2>1, <2>4, <3>1 DEF PlugStages
      <4> QED
        BY <2>1, <2>4, <3>1, <4>1, PlugLife DEF PlugStages
    <3>2. CASE ~NoneRuns
      <4>1. PICK c \in PluginCallers : task[c].at # "none"
        BY <3>2 DEF NoneRuns
      <4>2. task[c].at \in {"register", "init", "ready", "shutdown"}
        BY <1>0, <4>1 DEF PlugTypes, Place
      <4>3. Staged(c)
        BY <2>1 DEF PlugStages
      <4>4. hooks[id] \in {Readying, Living, Manager!Life}
        BY <2>4, <4>2, <4>3 DEF Staged
      <4> QED
        BY <4>4, PlugLife
    <3> QED
      BY <3>1, <3>2
  <2> QED
    BY <2>1, <2>2, <2>3, <2>4 DEF Settled
<1>4. ASSUME ~overlapped, ~failed, \A c \in PluginCallers : task[c].at = "none",
             NEW id \in DOMAIN hooks, Manager!Replaced(id)
      PROVE  hooks[id] = Manager!Life \/ Len(hooks[id]) = 2
  <2>1. Settled(id)
    BY <1>0, <1>4 DEF PlugIInv, PlugStages
  <2>2. \A j \in 1..Len(instances) : instances[j].id # id
    BY <1>0, <1>4 DEF Manager!Replaced, Manager!Range
  <2>3. hooks[id] \in {Readying, Manager!Life}
    BY <1>4, <2>1, <2>2 DEF Settled
  <2> QED
    BY <2>3, PlugLife
<1> QED
  BY <1>2, <1>3, <1>4 DEF Manager!PluginsLive

\* Each instance of a plugin runs its hooks once and in order, where the calls
\* of bootstrap and shutdown do not overlap and none of its hooks threw, for
\* any number of plugins, names registered twice among them, and of calls.
LEMMA PluginLife ==
  ASSUME Manager!PluginAssumption
  PROVE  Manager!PluginSpec => []Manager!PluginsLive
<1>1. Manager!PluginInit => PlugIInv
  BY PlugStarts
<1>2. PlugIInv /\ [Manager!PluginNext]_Manager!pluginVars => PlugIInv'
  BY PlugKeeps
<1>3. PlugIInv => Manager!PluginsLive
  BY PlugLives
<1> QED
  BY <1>1, <1>2, <1>3, PTL DEF Manager!PluginSpec

\* The plugin manager's variables hold values of their kinds.
LEMMA PluginTypes ==
  ASSUME Manager!PluginAssumption
  PROVE  Manager!PluginSpec => []Manager!TypeOK
<1>1. Manager!PluginInit => PlugIInv
  BY PlugStarts
<1>2. PlugIInv /\ [Manager!PluginNext]_Manager!pluginVars => PlugIInv'
  BY PlugKeeps
<1>3. ASSUME PlugIInv PROVE Manager!TypeOK
  <2>1. /\ PlugTypes /\ PlugPlaces
        /\ DOMAIN hooks = 1..Len(hooks) /\ DOMAIN instances = 1..Len(instances)
        /\ registrations \in [1..Len(registrations) -> Plugins] /\ Len(registrations) \in Nat
    BY <1>3 DEF PlugIInv, PlugTypes
  <2>2. registrations \in Manager!BoundedSeq(Plugins, MaxRegistered)
    <3>1. Len(registrations) \in 0..MaxRegistered
      BY <2>1 DEF PlugTypes, Manager!PluginAssumption
    <3> QED
      BY <2>1, <3>1 DEF Manager!BoundedSeq, Manager!SeqOf
  <2>3. ASSUME NEW e \in Manager!Range(instances) PROVE e.name \in Plugins /\ e.id \in DOMAIN hooks
    <3>1. PICK j \in 1..Len(instances) : e = instances[j]
      BY <2>1 DEF Manager!Range
    <3>2. instances[j] \in Entry
      BY <2>1 DEF PlugTypes
    <3> QED
      BY <2>1, <3>1, <3>2 DEF PlugPlaces, Entry
  <2>4. \A c \in PluginCallers : task[c].at \in {"none", "register", "init", "ready", "shutdown"}
    BY <2>1 DEF PlugTypes, Place
  <2>5. {initialized, overlapped, failed} \subseteq BOOLEAN /\ pluginCalls \in 0..MaxPluginCalls
    BY <2>1 DEF PlugTypes
  <2> QED
    BY <2>2, <2>3, <2>4, <2>5 DEF Manager!TypeOK
<1> QED
  BY <1>1, <1>2, <1>3, PTL DEF Manager!PluginSpec

-----------------------------------------------------------------------------
(* Least and greatest places of a list.                                    *)

\* A set of natural numbers that is not empty has a least one.
LEMMA LeastNatural ==
  ASSUME NEW T \in SUBSET Nat, T # {}
  PROVE  \E x \in T : \A y \in T : x <= y
<1> DEFINE Below == {0..k : k \in T}
<1>1. Below \subseteq FiniteSubsetsOf(Nat) /\ Below # {}
  <2>1. \A k \in T : 0..k \in SUBSET Nat /\ IsFiniteSet(0..k)
    BY FS_Interval
  <2> QED
    BY <2>1 DEF FiniteSubsetsOf
<1>2. PICK B \in Below : \A C \in Below : ~(<<C, B>> \in StrictSubsetOrdering(Nat))
  <2> HIDE DEF Below
  <2> QED
    BY <1>1, FS_StrictSubsetOrderingWellFounded, WFMin
<1>3. PICK x \in T : B = 0..x
  BY <1>2
<1>4. ASSUME NEW y \in T
      PROVE  x <= y
  <2>1. SUFFICES ASSUME y < x
                 PROVE  FALSE
    BY <1>3
  <2>2. 0..y \in Below /\ 0..y \in SUBSET Nat /\ 0..x \in SUBSET Nat
    OBVIOUS
  <2>3. 0..y \subseteq 0..x /\ 0..y # 0..x
    BY <2>1
  <2>4. <<0..y, 0..x>> \in StrictSubsetOrdering(Nat)
    BY <2>2, <2>3 DEF StrictSubsetOrdering
  <2> QED
    BY <1>2, <1>3, <2>2, <2>4
<1> QED
  BY <1>4

\* So Min is one of them, and so is Max where they are bounded.
LEMMA MinThere ==
  ASSUME NEW T \in SUBSET Nat, T # {}
  PROVE  App!Min(T) \in T
<1>1. \E x \in T : \A y \in T : x <= y
  BY LeastNatural
<1> QED
  BY <1>1 DEF App!Min

\* A set of numbers up to n has a greatest.
LEMMA MaxThere ==
  ASSUME NEW n \in Nat, NEW T \in SUBSET (1..n), T # {}
  PROVE  App!Max(T) \in T
<1> DEFINE U == {n - y : y \in T}
<1>1. U \in SUBSET Nat /\ U # {}
  <2>1. \A y \in T : n - y \in Nat
    OBVIOUS
  <2>2. U \subseteq Nat
    BY <2>1
  <2>3. PICK y \in T : TRUE
    OBVIOUS
  <2>4. n - y \in U
    OBVIOUS
  <2> QED
    BY ONLY <2>2, <2>4
<1>2. PICK u \in U : \A v \in U : u <= v
  BY <1>1, LeastNatural
<1>3. PICK x \in T : u = n - x
  BY <1>2
<1>4. \A y \in T : y <= x
  <2> SUFFICES ASSUME NEW y \in T PROVE y <= x
    OBVIOUS
  <2>1. n - y \in U
    OBVIOUS
  <2>2. n - x <= n - y
    BY <1>2, <1>3, <2>1
  <2> QED
    BY <2>2
<1>5. \E m \in T : \A y \in T : m >= y
  BY <1>4
<1> QED
  BY <1>5 DEF App!Max

-----------------------------------------------------------------------------
(* The invariant.                                                          *)

Modules == DOMAIN program.providers
Given == program.overrides \cup UNION {App!Range(program.providers[m]) : m \in Modules}
Tokens == {p.token : p \in Given}
Values == UNION {App!Range(p.deps) : p \in Given}
Containers == Requests \cup {Root}
Reached == [request : Requests, by : SUBSET Tokens]
Made == [token : Tokens, scope : {"singleton", "request"}, home : Containers,
  holds : SUBSET Reached]
Frames == [provider : Given, container : Containers, left : Seq(Values), holds : SUBSET Reached]

AppTypes ==
    /\ program \in Programs
    /\ collecting \in [todo : Seq(Modules), order : Seq(Modules), on : BOOLEAN]
    /\ stack \in Seq(Frames)
    /\ collecting.on => stack = <<>>
    /\ extras \in [Requests -> SUBSET program.overrides]
    /\ \A r \in Requests : \A p, q \in extras[r] : p = q
    /\ \A t \in DOMAIN providers : providers[t] \in Given /\ providers[t].token = t
    /\ caches \in [Containers -> SUBSET Made]

\* The contexts, and what the registry still has.
AppRoutes ==
    /\ contexts \in Seq(App!Range(contexts)) /\ Len(contexts) <= MaxContexts
    /\ collecting.on => Len(contexts) < MaxContexts
    /\ DOMAIN enhancers = DOMAIN program.declared
    /\ \A r \in DOMAIN enhancers : enhancers[r] \in {{}, program.declared[r]}

\* What a call of resolve makes is found in its container by its token, is not
\* there yet and is being made once; it holds another request's only by a
\* singleton made there.
Resolves(f) ==
    /\ f.provider \in App!Found(f.container, f.provider.token)
    /\ f.provider.scope = "request" => f.container # Root
    /\ App!Owned(f.holds, f.container)
    /\ App!Cached(f.provider, f.container) = {}

AppStack ==
    \A i \in 1..Len(stack) :
       /\ Resolves(stack[i])
       /\ i < Len(stack) => stack[i].left # <<>>
       /\ \A j \in 1..Len(stack) :
             /\ stack[i].container = stack[j].container
             /\ stack[i].provider = stack[j].provider => i = j

AppIInv == AppTypes /\ AppRoutes /\ App!EnhancersTakenOnce /\ AppStack /\ App!ScopesHold

-----------------------------------------------------------------------------
\* What the assumption says of the program that was chosen.
LEMMA ProgramShape ==
  ASSUME App!AppAssumption, program \in Programs
  PROVE  /\ Root \notin Requests /\ MaxContexts \in Nat
         /\ program.root \in Modules
         /\ program.imports \in [Modules -> Seq(Modules)]
         /\ program.providers \in [Modules -> Seq(Given)]
         /\ \A x \in Given : /\ x.scope \in {"singleton", "request", "transient"}
                             /\ x.deps \in Seq(Values)
         /\ \A r \in DOMAIN program.declared :
               /\ r = <<r[1], r[2]>>
               /\ program.handlers[r[1]] \in Seq(App!Range(program.handlers[r[1]]))
<1>1. /\ Root \notin Requests /\ MaxContexts \in Nat
      /\ program.root \in Modules
      /\ program.imports \in [Modules -> Seq(Modules)]
      /\ program.providers \in [Modules -> Seq(Given)]
      /\ \A x \in Given : /\ x.scope \in {"singleton", "request", "transient"}
                          /\ x.deps \in Seq(App!Range(x.deps))
      /\ \A r \in DOMAIN program.declared :
            /\ r = <<r[1], r[2]>>
            /\ program.handlers[r[1]] \in Seq(App!Range(program.handlers[r[1]]))
  BY DEF App!AppAssumption, Modules, Given
<1>2. ASSUME NEW x \in Given PROVE x.deps \in Seq(Values)
  <2>1. x.deps \in Seq(App!Range(x.deps)) /\ App!Range(x.deps) \subseteq Values
    BY <1>1 DEF Values
  <2> QED
    BY <2>1
<1> QED
  BY <1>1, <1>2

\* At most one provider is found for a token, and it is of that token.
LEMMA FoundOne ==
  ASSUME AppTypes, NEW c \in Containers, NEW t
  PROVE  /\ \A p, q \in App!Found(c, t) : p = q
         /\ \A p \in App!Found(c, t) : p \in Given /\ p.token = t
<1>1. CASE c # Root /\ {p \in extras[c] : p.token = t} # {}
  <2>1. App!Found(c, t) = {p \in extras[c] : p.token = t} /\ c \in Requests
    BY <1>1 DEF App!Found, Containers
  <2>2. extras[c] \subseteq Given /\ \A p, q \in extras[c] : p = q
    BY <2>1 DEF AppTypes, Given
  <2> QED
    BY <2>1, <2>2
<1>2. CASE c = Root \/ {p \in extras[c] : p.token = t} = {}
  <2>1. App!Found(c, t) = IF t \in DOMAIN providers THEN {providers[t]} ELSE {}
    BY <1>2 DEF App!Found
  <2> QED
    BY <2>1 DEF AppTypes
<1> QED
  BY <1>1, <1>2

-----------------------------------------------------------------------------

\* What always holds does so at first.
LEMMA AppStarts ==
  ASSUME App!AppAssumption, App!AppInit
  PROVE  AppIInv
<1>1. /\ program \in Programs /\ enhancers = program.declared
      /\ collecting = App!NotCollecting /\ contexts = <<>> /\ stack = <<>> /\ providers = <<>>
      /\ extras = [r \in Requests |-> {}] /\ caches = App!NoInstances
      /\ MaxContexts \in Nat
  BY DEF App!AppInit, App!AppAssumption
<1>2. AppTypes
  <2>1. collecting \in [todo : Seq(Modules), order : Seq(Modules), on : BOOLEAN] /\ ~collecting.on
    <3>1. <<>> \in Seq(Modules) /\ FALSE \in BOOLEAN
      OBVIOUS
    <3> QED
      BY <1>1, <3>1 DEF App!NotCollecting
  <2>2. stack \in Seq(Frames)
    BY <1>1
  <2>3. extras \in [Requests -> SUBSET program.overrides] /\ \A r \in Requests : extras[r] = {}
    BY <1>1
  <2>4. \A t \in DOMAIN providers : providers[t] \in Given /\ providers[t].token = t
    BY <1>1
  <2>5. caches \in [Containers -> SUBSET Made]
    BY <1>1 DEF App!NoInstances, Containers
  <2> QED
    BY <1>1, <2>1, <2>2, <2>3, <2>4, <2>5 DEF AppTypes
<1>3. AppRoutes
  <2>1. contexts \in Seq(App!Range(contexts)) /\ Len(contexts) = 0
    BY <1>1
  <2>2. ~collecting.on
    BY <1>1 DEF App!NotCollecting
  <2> QED
    BY <1>1, <2>1, <2>2 DEF AppRoutes
<1>4. App!EnhancersTakenOnce
  <2>1. \A r : App!Taken(r) = {}
    BY <1>1 DEF App!Taken
  <2> QED
    BY <1>1, <2>1 DEF App!EnhancersTakenOnce
<1>5. AppStack
  BY <1>1 DEF AppStack
<1>6. App!ScopesHold
  BY <1>1 DEF App!ScopesHold, App!NoInstances
<1> QED
  BY <1>2, <1>3, <1>4, <1>5, <1>6 DEF AppIInv

\* The steps that leave the container and its calls alone.
LEMMA CreateKeeps ==
  ASSUME App!AppAssumption, AppIInv, App!Create
  PROVE  AppIInv'
<1>1. /\ AppTypes /\ AppRoutes /\ stack = <<>> /\ Len(contexts) < MaxContexts
      /\ collecting' = [todo |-> <<program.root>>, order |-> <<>>, on |-> TRUE]
      /\ program' = program /\ enhancers' = enhancers /\ contexts' = contexts
      /\ providers' = providers /\ extras' = extras /\ caches' = caches /\ stack' = stack
  BY DEF AppIInv, App!Create
<1>2. collecting' \in [todo : Seq(Modules), order : Seq(Modules), on : BOOLEAN]
  <2>1. program.root \in Modules
    BY <1>1, ProgramShape DEF AppTypes
  <2>2. <<program.root>> \in Seq(Modules) /\ <<>> \in Seq(Modules) /\ TRUE \in BOOLEAN
    BY <2>1
  <2> QED
    BY <1>1, <2>2
<1>3. AppTypes'
  BY <1>1, <1>2 DEF AppTypes, Modules, Given, Tokens, Values, Reached, Made, Frames
<1>4. AppRoutes'
  BY <1>1 DEF AppRoutes
<1>5. App!EnhancersTakenOnce' /\ App!ScopesHold'
  BY SMTT(20), <1>1 DEF AppIInv, App!EnhancersTakenOnce, App!Taken, App!ScopesHold, App!Owned
<1>6. AppStack'
  BY <1>1 DEF AppStack, AppTypes
<1> QED
  BY <1>3, <1>4, <1>5, <1>6 DEF AppIInv

\* Collecting a module keeps what always holds.
LEMMA CollectKeeps ==
  ASSUME App!AppAssumption, AppIInv, App!CollectModule
  PROVE  AppIInv'
<1>1. /\ AppTypes /\ AppRoutes /\ collecting.on /\ collecting.todo # <<>>
      /\ program' = program /\ enhancers' = enhancers /\ contexts' = contexts
      /\ providers' = providers /\ extras' = extras /\ caches' = caches /\ stack' = stack
  BY DEF AppIInv, App!CollectModule
<1>2. /\ collecting' \in [todo : Seq(Modules), order : Seq(Modules), on : BOOLEAN]
      /\ collecting'.on
  <2> DEFINE m == Head(collecting.todo)
  <2>1. /\ m \in Modules /\ Tail(collecting.todo) \in Seq(Modules)
        /\ collecting.order \in Seq(Modules) /\ collecting.on
    BY <1>1 DEF AppTypes
  <2>2. program.imports[m] \in Seq(Modules)
    BY <1>1, <2>1, ProgramShape DEF AppTypes
  <2>3. program.imports[m] \o Tail(collecting.todo) \in Seq(Modules)
        /\ Append(collecting.order, m) \in Seq(Modules)
    BY <2>1, <2>2
  <2>4. collecting' = IF m \in App!Range(collecting.order)
                      THEN [collecting EXCEPT !.todo = Tail(@)]
                      ELSE [collecting EXCEPT !.todo = program.imports[m] \o Tail(@),
                                              !.order = Append(@, m)]
    BY DEF App!CollectModule
  <2> HIDE DEF m
  <2> QED
    BY <1>1, <2>1, <2>3, <2>4 DEF AppTypes
<1>3. AppTypes'
  BY <1>1, <1>2 DEF AppTypes, Modules, Given, Tokens, Values, Reached, Made, Frames
<1>4. AppRoutes'
  BY <1>1 DEF AppRoutes
<1>5. App!EnhancersTakenOnce' /\ App!ScopesHold'
  BY SMTT(20), <1>1 DEF AppIInv, App!EnhancersTakenOnce, App!Taken, App!ScopesHold, App!Owned
<1>6. AppStack'
  BY <1>1 DEF AppStack, AppTypes
<1> QED
  BY <1>3, <1>4, <1>5, <1>6 DEF AppIInv

\* A request that begins keeps what always holds.
LEMMA BeginKeeps ==
  ASSUME App!AppAssumption, AppIInv, NEW r \in Requests,
         NEW p \in program.overrides, App!BeginRequest(r, p)
  PROVE  AppIInv'
<1>1. /\ AppTypes /\ AppRoutes /\ stack = <<>> /\ ~collecting.on
      /\ extras' = [extras EXCEPT ![r] = {p}]
      /\ program' = program /\ enhancers' = enhancers /\ contexts' = contexts
      /\ collecting' = collecting /\ providers' = providers /\ caches' = caches /\ stack' = stack
  BY DEF AppIInv, App!BeginRequest
<1>2. /\ extras' \in [Requests -> SUBSET program.overrides]
      /\ \A q \in Requests : \A x, y \in extras'[q] : x = y
  BY <1>1 DEF AppTypes
<1>3. AppTypes'
  BY <1>1, <1>2 DEF AppTypes, Modules, Given, Tokens, Values, Reached, Made, Frames
<1>4. AppRoutes'
  BY <1>1 DEF AppRoutes
<1>5. App!EnhancersTakenOnce' /\ App!ScopesHold'
  BY SMTT(20), <1>1 DEF AppIInv, App!EnhancersTakenOnce, App!Taken, App!ScopesHold, App!Owned
<1>6. AppStack'
  BY <1>1 DEF AppStack
<1> QED
  BY <1>3, <1>4, <1>5, <1>6 DEF AppIInv

-----------------------------------------------------------------------------
(* resolve.                                                                *)

\* App!Owned, where the singletons are S.
OwnedBy(S, H, home) ==
    \A h \in H :
       \/ h = App!Direct(home)
       \/ \E y \in S : h.by = {y.token} /\ y.home = h.request /\ App!Direct(y.home) \in y.holds

\* What was made in a container, or is a singleton there is, is given with what
\* may be held in that container.
LEMMA HoldingOwned ==
  ASSUME NEW S, NEW x, NEW c, OwnedBy(S, x.holds, x.home),
         x.scope = "singleton" => x \in S,
         x.scope # "singleton" => x.home = c
  PROVE  OwnedBy(S, App!Holding(x), c)
<1>1. CASE x.scope = "singleton"
  <2> SUFFICES ASSUME NEW h \in x.holds
               PROVE  \E y \in S : /\ App!Through(h, x).by = {y.token}
                                   /\ y.home = App!Through(h, x).request
                                   /\ App!Direct(y.home) \in y.holds
    BY <1>1 DEF OwnedBy, App!Holding
  <2>1. CASE h = App!Direct(x.home)
    <3>1. App!Through(h, x).by = {x.token} /\ App!Through(h, x).request = h.request
      BY <2>1 DEF App!Through, App!Direct
    <3>2. h.request = x.home /\ App!Direct(x.home) \in x.holds
      BY <2>1 DEF App!Direct
    <3> QED
      BY <1>1, <3>1, <3>2
  <2>2. CASE h # App!Direct(x.home)
    <3>1. PICK y \in S : h.by = {y.token} /\ y.home = h.request /\ App!Direct(y.home) \in y.holds
      BY <2>2 DEF OwnedBy
    <3>2. App!Through(h, x).by = h.by /\ App!Through(h, x).request = h.request
      BY <3>1 DEF App!Through
    <3> QED
      BY <3>1, <3>2
  <2> QED
    BY <2>1, <2>2
<1>2. CASE x.scope # "singleton"
  BY <1>2 DEF OwnedBy, App!Holding
<1> QED
  BY <1>1, <1>2

\* It is what instances reach, if x is an instance.
LEMMA HoldingReached ==
  ASSUME NEW x, x.holds \subseteq Reached, x.token \in Tokens,
         x.scope = "request" => x.home \in Requests
  PROVE  App!Holding(x) \subseteq Reached
<1>1. ASSUME NEW h \in x.holds PROVE App!Through(h, x) \in Reached
  BY DEF App!Through, Reached
<1>2. x.scope = "request" => App!Direct(x.home) \in Reached
  BY DEF App!Direct, Reached
<1> QED
  BY <1>1, <1>2 DEF App!Holding

\* An instance that is given to a call: the innermost waits for one less, and
\* holds what the instance holds.
LEMMA GiveShape ==
  ASSUME NEW s \in Seq(Frames), s # <<>>, s[Len(s)].left # <<>>,
         NEW x, App!Holding(x) \subseteq Reached
  PROVE  /\ App!Give(s, x) \in Seq(Frames) /\ Len(App!Give(s, x)) = Len(s)
         /\ \A i \in 1..Len(s) : /\ App!Give(s, x)[i].provider = s[i].provider
                                 /\ App!Give(s, x)[i].container = s[i].container
         /\ \A i \in 1..Len(s) : i < Len(s) => App!Give(s, x)[i] = s[i]
         /\ App!Give(s, x)[Len(s)].holds = s[Len(s)].holds \cup App!Holding(x)
<1> DEFINE n == Len(s)
<1> DEFINE f == s[n]
<1>1. n \in Nat /\ n \in 1..Len(s) /\ f \in Frames /\ f.left # <<>>
  OBVIOUS
<1> DEFINE a == [s EXCEPT ![n].left = Tail(@)]
<1> DEFINE g == [f EXCEPT !.left = Tail(@)]
<1>2. f.left \in Seq(Values) /\ Tail(f.left) \in Seq(Values)
  BY <1>1 DEF Frames
<1>3. /\ g \in Frames /\ g.provider = f.provider /\ g.container = f.container /\ g.holds = f.holds
  BY <1>1, <1>2 DEF Frames
<1>4. /\ a \in Seq(Frames) /\ Len(a) = n /\ a[n] = g /\ \A i \in 1..n : i # n => a[i] = s[i]
  <2>1. a = [s EXCEPT ![n] = g]
    BY <1>1
  <2> HIDE DEF a, g
  <2> QED
    BY <1>1, <1>3, <2>1
<1> HIDE DEF a
<1> DEFINE b == [a EXCEPT ![n].holds = @ \cup App!Holding(x)]
<1> DEFINE h == [g EXCEPT !.holds = @ \cup App!Holding(x)]
<1>5. /\ h \in Frames /\ h.provider = f.provider /\ h.container = f.container
      /\ h.holds = f.holds \cup App!Holding(x)
  <2>1. g.holds \cup App!Holding(x) \in SUBSET Reached
    BY <1>3 DEF Frames
  <2> HIDE DEF g
  <2> QED
    BY <1>3, <2>1 DEF Frames
<1>6. /\ b \in Seq(Frames) /\ Len(b) = n /\ b[n] = h /\ \A i \in 1..n : i # n => b[i] = s[i]
  <2>1. b = [a EXCEPT ![n] = h]
    BY <1>1, <1>4
  <2> HIDE DEF b, h, g, f
  <2> QED
    BY <1>1, <1>4, <1>5, <2>1
<1>7. App!Give(s, x) = b
  BY DEF App!Give, a
<1> HIDE DEF b, h
<1>8. \A i \in 1..n : b[i].provider = s[i].provider /\ b[i].container = s[i].container
  <2> SUFFICES ASSUME NEW i \in 1..n PROVE b[i].provider = s[i].provider
                        /\ b[i].container = s[i].container
    OBVIOUS
  <2>1. CASE i = n
    BY <2>1, <1>5, <1>6
  <2>2. CASE i # n
    BY <2>2, <1>6
  <2> QED
    BY <2>1, <2>2
<1>9. \A i \in 1..n : i < n => b[i] = s[i]
  BY <1>1, <1>6
<1> QED
  BY <1>5, <1>6, <1>7, <1>8, <1>9

\* What a call resolves to keeps the calls under it as they should be.
LEMMA ResolveKeeps ==
  ASSUME App!AppAssumption, AppTypes, AppStack, App!ScopesHold, NEW c \in Containers,
         NEW t, App!Resolve(c, t),
         stack # <<>> => stack[Len(stack)].container = c /\ stack[Len(stack)].left # <<>>,
         program' = program, providers' = providers, extras' = extras, caches' = caches
  PROVE  stack' \in Seq(Frames) /\ AppStack'
<1> DEFINE p == CHOOSE p \in App!Found(c, t) : TRUE
<1> DEFINE n == Len(stack)
<1>0. /\ stack \in Seq(Frames) /\ n \in Nat /\ (stack # <<>> => n \in 1..n /\ n >= 1)
      /\ \A i \in 1..n : stack[i] \in Frames
  BY DEF AppTypes
<1>1. CASE stack' = <<>>
  BY <1>1 DEF AppStack
<1>2. ASSUME App!Found(c, t) # {}, ~(p.scope = "request" /\ c = Root), App!Cached(p, c) # {},
             stack' = App!Give(stack, CHOOSE x \in App!Cached(p, c) : TRUE)
      PROVE  stack' \in Seq(Frames) /\ AppStack'
  <2>1. PICK x \in App!Cached(p, c) : x = CHOOSE y \in App!Cached(p, c) : TRUE
    BY <1>2
  <2>2. CASE stack = <<>>
    BY <1>2, <2>2 DEF App!Give, AppStack
  <2>3. CASE stack # <<>>
    <3>1. p \in App!Found(c, t) /\ p \in Given
      BY <1>2, FoundOne
    <3>2. p.scope \in {"singleton", "request"} /\ x \in caches[App!CacheOf(p, c)]
            /\ App!CacheOf(p, c) \in Containers
      <4>1. p.scope # "transient" /\ p.scope \in {"singleton", "request", "transient"}
        BY <3>1, <2>1, ProgramShape DEF App!Cached, AppTypes
      <4> QED
        BY <4>1, <2>1 DEF App!Cached, App!CacheOf, Containers
    <3>3. App!Owned(App!Holding(x), c) /\ App!Holding(x) \subseteq Reached
      <4>1. x \in Made
        BY <3>2 DEF AppTypes
      <4>2. App!Owned(x.holds, x.home)
        BY <3>2 DEF App!ScopesHold, AppTypes
      <4>3. /\ x.scope = "singleton" => x \in caches[Root]
            /\ x.scope # "singleton" => x.home = c /\ c \in Requests
        <5>1. CASE p.scope = "singleton"
          <6>1. x \in caches[Root] /\ Root \in DOMAIN caches
            BY <5>1, <3>2 DEF App!CacheOf, AppTypes, Containers
          <6>2. x.scope = "singleton"
            BY <6>1 DEF App!ScopesHold
          <6> QED
            BY <6>1, <6>2
        <5>2. CASE p.scope = "request"
          <6>1. c # Root /\ x \in caches[c] /\ c \in DOMAIN caches
            BY <5>2, <3>2, <1>2 DEF App!CacheOf, AppTypes
          <6>2. x.scope = "request" /\ x.home = c
            BY <6>1 DEF App!ScopesHold
          <6> QED
            BY <6>1, <6>2 DEF Containers
        <5> QED
          BY <3>2, <5>1, <5>2
      <4>4. x.holds \subseteq Reached /\ x.token \in Tokens
        BY <4>1 DEF Made
      <4>5. App!Holding(x) \subseteq Reached
        BY <4>3, <4>4, HoldingReached
      <4>6. OwnedBy(caches[Root], x.holds, x.home)
        BY <4>2 DEF OwnedBy, App!Owned
      <4>7. OwnedBy(caches[Root], App!Holding(x), c)
        BY <4>3, <4>6, HoldingOwned
      <4>8. App!Owned(App!Holding(x), c)
        BY <4>7 DEF OwnedBy, App!Owned
      <4> QED
        BY <4>5, <4>8
    <3>4. /\ stack' \in Seq(Frames) /\ Len(stack') = n
          /\ \A i \in 1..n : /\ stack'[i].provider = stack[i].provider
                             /\ stack'[i].container = stack[i].container
          /\ \A i \in 1..n : i < n => stack'[i] = stack[i]
          /\ stack'[n].holds = stack[n].holds \cup App!Holding(x)
      <4>1. stack' = App!Give(stack, x)
        BY <1>2, <2>1
      <4>2. stack \in Seq(Frames) /\ stack # <<>> /\ stack[Len(stack)].left # <<>>
        BY <1>0, <2>3
      <4> HIDE DEF p, n
      <4>3. /\ App!Give(stack, x) \in Seq(Frames) /\ Len(App!Give(stack, x)) = Len(stack)
            /\ \A i \in 1..Len(stack) : /\ App!Give(stack, x)[i].provider = stack[i].provider
                                       /\ App!Give(stack, x)[i].container = stack[i].container
            /\ \A i \in 1..Len(stack) : i < Len(stack) => App!Give(stack, x)[i] = stack[i]
            /\ App!Give(stack, x)[Len(stack)].holds = stack[Len(stack)].holds \cup App!Holding(x)
        BY <3>3, <4>2, GiveShape
      <4> QED
        BY <4>1, <4>3 DEF n
    <3>5. ASSUME NEW i \in 1..n PROVE Resolves(stack[i])' 
      <4>1. Resolves(stack[i]) /\ stack[n].container = c
        BY <2>3 DEF AppStack
      <4>2. App!Owned(stack'[i].holds, c)
        <5>1. CASE i = n
          BY <5>1, <3>3, <3>4, <4>1 DEF Resolves, App!Owned
        <5>2. CASE i < n
          <6>1. stack[i].container = c
            BY <1>0, <2>3, <4>1 DEF AppStack
          <6> QED
            BY <5>2, <6>1, <3>4, <4>1 DEF Resolves
        <5> QED
          BY <1>0, <5>1, <5>2
      <4>3. stack'[i].container = c
        BY <1>0, <2>3, <3>4, <4>1 DEF AppStack
      <4>4. App!Owned(stack[i].holds, stack[i].container)'
        BY <4>2, <4>3 DEF App!Owned
      <4> QED
        BY <3>4, <4>1, <4>4 DEF Resolves, App!Found, App!Cached, App!CacheOf
    <3> QED
      BY <1>0, <3>4, <3>5 DEF AppStack
  <2> QED
    BY <2>2, <2>3
<1>3. ASSUME App!Found(c, t) # {}, ~(p.scope = "request" /\ c = Root), App!Cached(p, c) = {},
             \A i \in DOMAIN stack : stack[i].provider # p,
             stack' = Append(stack, App!Frame(p, c))
      PROVE  stack' \in Seq(Frames) /\ AppStack'
  <2> DEFINE f == App!Frame(p, c)
  <2>1. p \in App!Found(c, t) /\ p \in Given /\ p.token = t
    BY <1>3, FoundOne
  <2>2. f \in Frames /\ f.provider = p /\ f.container = c /\ f.holds = {}
    BY <2>1, ProgramShape DEF App!Frame, Frames, AppTypes
  <2> HIDE DEF p, f
  <2>3. /\ stack' \in Seq(Frames) /\ Len(stack') = n + 1 /\ stack'[n + 1] = f
        /\ \A i \in 1..n : stack'[i] = stack[i]
    BY <1>0, <1>3, <2>2 DEF f
  <2>4. \A i \in 1..(n + 1) : i \in 1..n \/ i = n + 1
    BY <1>0
  <2>5. ASSUME NEW i \in 1..(n + 1) PROVE Resolves(stack[i])'
    <3>1. CASE i \in 1..n
      <4>1. Resolves(stack[i]) /\ stack'[i] = stack[i]
        BY <3>1, <2>3 DEF AppStack
      <4> QED
        BY <4>1 DEF Resolves, App!Found, App!Cached, App!CacheOf, App!Owned
    <3>2. CASE i = n + 1
      <4>1. stack'[i] = f
        BY <3>2, <2>3
      <4>2. /\ f.provider \in App!Found(f.container, f.provider.token)
            /\ f.provider.scope = "request" => f.container # Root
            /\ f.holds = {}
            /\ App!Cached(f.provider, f.container) = {}
        BY <1>3, <2>1, <2>2
      <4> QED
        BY <4>1, <4>2 DEF Resolves, App!Found, App!Cached, App!CacheOf, App!Owned
    <3> QED
      BY <2>4, <3>1, <3>2
  <2>6. ASSUME NEW i \in 1..(n + 1), i < n + 1 PROVE stack'[i].left # <<>>
    <3>1. i \in 1..n /\ (i < n \/ i = n)
      BY <1>0, <2>6
    <3>2. CASE i < n
      BY <3>1, <3>2, <2>3 DEF AppStack
    <3>3. CASE i = n
      <4>1. stack # <<>>
        BY <3>1
      <4> QED
        BY <3>1, <3>3, <4>1, <2>3
    <3> QED
      BY <3>1, <3>2, <3>3
  <2>7. ASSUME NEW i \in 1..(n + 1) PROVE stack'[i].container = c
    <3>1. CASE i \in 1..n
      <4>1. stack # <<>> /\ n \in 1..n
        BY <1>0, <3>1
      <4> QED
        BY <3>1, <4>1, <2>3 DEF AppStack
    <3>2. CASE i = n + 1
      BY <3>2, <2>2, <2>3
    <3> QED
      BY <2>4, <3>1, <3>2
  <2>8. ASSUME NEW i \in 1..(n + 1), NEW j \in 1..(n + 1), stack'[i].provider = stack'[j].provider
        PROVE  i = j
    <3>1. \A k \in 1..n : stack'[k].provider # p
      BY <1>0, <1>3, <2>3
    <3>2. stack'[n + 1].provider = p
      BY <2>2, <2>3
    <3>3. CASE i \in 1..n /\ j \in 1..n
      BY <2>3, <2>8, <3>3 DEF AppStack
    <3> QED
      BY <2>4, <2>8, <3>1, <3>2, <3>3
  <2> QED
    BY <2>3, <2>5, <2>6, <2>7, <2>8 DEF AppStack
<1> QED
  BY <1>1, <1>2, <1>3 DEF App!Resolve

\* A step that changes the calls alone.
LEMMA CallsKeep ==
  ASSUME App!AppAssumption, AppIInv, stack' \in Seq(Frames), AppStack', collecting.on =>
           stack' = <<>>,
         UNCHANGED <<program, enhancers, collecting, contexts, providers, extras, caches>>
  PROVE  AppIInv'
<1>1. AppTypes'
  BY DEF AppIInv, AppTypes, Modules, Given, Tokens, Values, Reached, Made, Frames
<1>2. AppRoutes' /\ App!EnhancersTakenOnce' /\ App!ScopesHold'
  BY SMTT(20) DEF AppIInv, AppRoutes, App!EnhancersTakenOnce, App!Taken, App!ScopesHold, App!Owned
<1> QED
  BY <1>1, <1>2 DEF AppIInv

\* Asking a container for a token keeps what always holds.
LEMMA AskKeeps ==
  ASSUME App!AppAssumption, AppIInv, NEW c \in Containers, NEW t, App!Ask(c, t)
  PROVE  AppIInv'
<1>1. /\ ~collecting.on /\ stack = <<>> /\ App!Resolve(c, t)
      /\ UNCHANGED <<program, enhancers, collecting, contexts, providers, extras, caches>>
  BY DEF App!Ask
<1>2. stack' \in Seq(Frames) /\ AppStack'
  BY <1>1, ResolveKeeps DEF AppIInv
<1> QED
  BY <1>1, <1>2, CallsKeep

\* Resolving a dependency keeps what always holds.
LEMMA DependencyKeeps ==
  ASSUME App!AppAssumption, AppIInv, App!ResolveDependency
  PROVE  AppIInv'
<1> DEFINE f == stack[Len(stack)]
<1>1. /\ stack # <<>> /\ f.left # <<>> /\ App!Resolve(f.container, Head(f.left))
      /\ UNCHANGED <<program, enhancers, collecting, contexts, providers, extras, caches>>
  BY DEF App!ResolveDependency, App!Last
<1>2. f \in Frames
  BY <1>1 DEF AppIInv, AppTypes
<1>3. f.container \in Containers
  BY <1>2 DEF Frames
<1>4. stack' \in Seq(Frames) /\ AppStack'
  BY <1>1, <1>3, ResolveKeeps DEF AppIInv
<1>5. ~collecting.on
  BY <1>1 DEF AppIInv, AppTypes
<1> QED
  BY <1>1, <1>4, <1>5, CallsKeep

\* A constructor that throws keeps what always holds.
LEMMA ThrowsKeeps ==
  ASSUME App!AppAssumption, AppIInv, App!ConstructThrows
  PROVE  AppIInv'
<1>1. /\ stack' = <<>>
      /\ UNCHANGED <<program, enhancers, collecting, contexts, providers, extras, caches>>
  BY DEF App!ConstructThrows
<1>2. stack' \in Seq(Frames) /\ AppStack'
  BY <1>1 DEF AppStack
<1> QED
  BY <1>1, <1>2, CallsKeep

\* An instance is kept for its token once, where its scope says, and given to
\* the call under it.
LEMMA ConstructKeeps ==
  ASSUME App!AppAssumption, AppIInv, App!Construct
  PROVE  AppIInv'
<1>a. PICK n : n = Len(stack)
  OBVIOUS
<1>f. PICK f : f = stack[n]
  OBVIOUS
<1> DEFINE c == f.container
<1> DEFINE p == f.provider
<1> DEFINE x == [token |-> p.token, scope |-> p.scope, home |-> c, holds |-> f.holds]
<1> DEFINE under == App!Front(stack)
<1> DEFINE d == App!CacheOf(p, c)
<1>1. /\ AppTypes /\ AppStack /\ App!ScopesHold /\ stack # <<>> /\ stack' = App!Give(under, x)
      /\ caches' = IF x.scope = "transient" THEN caches ELSE [caches EXCEPT ![d] = @ \cup {x}]
      /\ program' = program /\ enhancers' = enhancers /\ contexts' = contexts
      /\ collecting' = collecting /\ providers' = providers /\ extras' = extras
  BY <1>a, <1>f DEF AppIInv, App!Construct, App!Last
<1>2. /\ stack \in Seq(Frames) /\ n \in Nat /\ n \in 1..n /\ n >= 1 /\ f \in Frames
      /\ c \in Containers /\ p \in Given /\ f.holds \in SUBSET Reached
  <2>1. stack \in Seq(Frames) /\ n \in Nat /\ n \in 1..n /\ n >= 1 /\ f \in Frames
    BY <1>1, <1>a, <1>f DEF AppTypes
  <2> QED
    BY <2>1 DEF Frames
<1>3. /\ p \in App!Found(c, p.token) /\ (p.scope = "request" => c # Root)
      /\ App!Owned(f.holds, c) /\ App!Cached(p, c) = {}
  BY <1>1, <1>2, <1>a, <1>f DEF AppStack, Resolves
<1>4. /\ x.token = p.token /\ x.scope = p.scope /\ x.home = c /\ x.holds = f.holds
      /\ p.scope \in {"singleton", "request", "transient"}
  BY <1>1, <1>2, ProgramShape DEF AppTypes
<1>5. /\ under \in Seq(Frames) /\ Len(under) = n - 1
      /\ \A i \in 1..(n - 1) : under[i] = stack[i]
  <2>1. under = SubSeq(stack, 1, n - 1)
    BY <1>a DEF App!Front
  <2>2. n - 1 \in Nat /\ Len(stack) \in Nat /\ n - 1 <= Len(stack)
    BY <1>2, <1>a
  <2>3. \A i \in 1..(n - 1) : i \in 1..Len(stack) /\ stack[i] \in Frames
    BY <1>2, <2>2
  <2> HIDE DEF under
  <2>4. under = [i \in 1..(n - 1) |-> stack[i]]
    BY <1>2, <2>1, <2>2
  <2> QED
    BY <2>2, <2>3, <2>4
<1>6. App!Holding(x) \subseteq Reached
  <2>1. x.token \in Tokens /\ x.holds \subseteq Reached
    BY <1>2, <1>4 DEF Tokens
  <2>2. x.scope = "request" => x.home \in Requests
    BY <1>2, <1>3, <1>4 DEF Containers
  <2> HIDE DEF x
  <2> QED
    BY <2>1, <2>2, HoldingReached
<1> HIDE DEF c, p, x, under, d
<1>7. /\ stack' \in Seq(Frames) /\ Len(stack') = n - 1
      /\ \A i \in 1..(n - 1) : /\ stack'[i].provider = stack[i].provider
                               /\ stack'[i].container = stack[i].container
                               /\ stack'[i].holds \subseteq stack[i].holds \cup App!Holding(x)
                               /\ i < n - 1 => stack'[i] = stack[i]
  <2>1. CASE under = <<>>
    <3>1. stack' = <<>> /\ Len(under) = 0
      BY <1>1, <2>1 DEF App!Give
    <3> QED
      BY <1>2, <1>5, <3>1
  <2>2. CASE under # <<>>
    <3>1. n - 1 \in 1..(n - 1) /\ n - 1 \in 1..n /\ n - 1 < n
      BY <1>2, <1>5, <2>2
    <3>2. under[Len(under)].left # <<>>
      BY <1>1, <1>5, <1>a, <3>1 DEF AppStack
    <3>3. /\ App!Give(under, x) \in Seq(Frames) /\ Len(App!Give(under, x)) = Len(under)
          /\ \A i \in 1..Len(under) : /\ App!Give(under, x)[i].provider = under[i].provider
                                      /\ App!Give(under, x)[i].container = under[i].container
          /\ \A i \in 1..Len(under) : i < Len(under) => App!Give(under, x)[i] = under[i]
          /\ App!Give(under, x)[Len(under)].holds = under[Len(under)].holds \cup App!Holding(x)
      BY <1>5, <1>6, <2>2, <3>2, GiveShape
    <3>4. ASSUME NEW i \in 1..(n - 1)
                   PROVE stack'[i].holds \subseteq stack[i].holds \cup App!Holding(x)
      <4>1. CASE i = n - 1
        BY <1>1, <1>5, <3>3, <4>1
      <4>2. CASE i < n - 1
        BY <1>1, <1>5, <3>3, <4>2
      <4> QED
        BY <1>2, <4>1, <4>2
    <3> QED
      BY <1>1, <1>5, <3>3, <3>4
  <2> QED
    BY <2>1, <2>2
<1>8. d = (IF p.scope = "singleton" THEN Root ELSE c) /\ d \in Containers
  BY <1>2 DEF App!CacheOf, Containers, d
<1>9. caches' \in [Containers -> SUBSET Made]
  <2>1. CASE p.scope = "transient"
    BY <1>1, <1>4, <2>1 DEF AppTypes
  <2>2. CASE p.scope # "transient"
    <3>1. x \in Made
      BY <1>2, <1>4, <2>2 DEF Made, Tokens, x
    <3> QED
      BY <1>1, <1>4, <1>8, <2>2, <3>1 DEF AppTypes
  <2> QED
    BY <2>1, <2>2
<1>10. ASSUME NEW e \in Containers
       PROVE  /\ caches'[e] \subseteq caches[e] \cup {x}
              /\ x \in caches'[e] => x \in caches[e] \/ (e = d /\ p.scope # "transient")
  BY <1>1, <1>4, <1>8 DEF AppTypes
<1>11. p.scope # "transient" => \A y \in caches[d] : y.token # p.token
  BY <1>3 DEF App!Cached, d
<1>17. /\ caches[Root] \subseteq caches'[Root]
       /\ p.scope = "singleton" => x \in caches'[Root]
  BY <1>1, <1>4, <1>8 DEF AppTypes, Containers
<1>18. OwnedBy(caches'[Root], x.holds, x.home) /\ OwnedBy(caches'[Root], App!Holding(x), c)
  <2>1. OwnedBy(caches'[Root], x.holds, x.home)
    BY <1>3, <1>4, <1>17 DEF OwnedBy, App!Owned
  <2>2. /\ x.scope = "singleton" => x \in caches'[Root]
        /\ x.scope # "singleton" => x.home = c
    BY <1>4, <1>17
  <2> QED
    BY <2>1, <2>2, HoldingOwned
<1>12. App!ScopesHold'
  <2>1. ASSUME NEW e \in Containers
        PROVE  /\ \A y, z \in caches'[e] : y.token = z.token => y = z
               /\ \A y \in caches'[e] :
                     /\ y.scope = (IF e = Root THEN "singleton" ELSE "request")
                     /\ e # Root => y.home = e
                     /\ App!Owned(y.holds, y.home)'
    <3>1. /\ \A y, z \in caches[e] : y.token = z.token => y = z
          /\ \A y \in caches[e] : /\ y.scope = (IF e = Root THEN "singleton" ELSE "request")
                                  /\ e # Root => y.home = e
                                  /\ App!Owned(y.holds, y.home)'
      BY <1>1, <1>17 DEF App!ScopesHold, App!Owned, AppTypes
    <3>2. CASE x \in caches[e] \/ x \notin caches'[e]
      <4>1. caches'[e] \subseteq caches[e]
        BY <1>10, <3>2
      <4> QED
        BY <3>1, <4>1
    <3>3. CASE x \notin caches[e] /\ x \in caches'[e]
      <4>1. e = d /\ p.scope \in {"singleton", "request"}
        BY <1>4, <1>10, <3>3
      <4>2. x.scope = (IF e = Root THEN "singleton" ELSE "request") /\ (e # Root => x.home = e)
        BY <1>3, <1>4, <1>8, <4>1
      <4>3. \A y \in caches[e] : y.token # x.token
        BY <1>4, <1>11, <4>1
      <4>4. App!Owned(x.holds, x.home)'
        BY <1>18 DEF OwnedBy, App!Owned
      <4> QED
        BY <1>4, <1>10, <3>1, <4>2, <4>3, <4>4
    <3> QED
      BY <3>2, <3>3
  <2>2. DOMAIN caches' = Containers
    BY <1>9
  <2> QED
    BY <2>1, <2>2 DEF App!ScopesHold
<1>13. AppStack'
  <2>1. ASSUME NEW i \in 1..(n - 1)
        PROVE  /\ Resolves(stack[i])'
               /\ i < n - 1 => stack'[i].left # <<>>
               /\ \A j \in 1..(n - 1) :
                     /\ stack'[i].container = stack'[j].container
                     /\ stack'[i].provider = stack'[j].provider => i = j
    <3>0. PICK g : g = stack[i]
      OBVIOUS
    <3>1. i \in 1..n /\ i # n /\ i < n
      BY <1>2
    <3>2. /\ Resolves(g) /\ g.left # <<>> /\ g.container = c /\ g.provider # p
          /\ \A j \in 1..n : /\ g.container = stack[j].container
                             /\ g.provider = stack[j].provider => i = j
      BY <1>1, <1>2, <1>a, <1>f, <3>1, <3>0 DEF AppStack, c, p
    <3>3. g \in Frames
      BY <1>2, <1>a, <3>0, <3>1
    <3>4. g.provider.token # p.token
      <4>1. g.provider \in App!Found(c, g.provider.token)
        BY <3>2 DEF Resolves
      <4> QED
        BY <1>1, <1>2, <1>3, <3>2, <4>1, FoundOne
    <3>5. App!Cached(g.provider, c)' = {}
      <4>1. App!CacheOf(g.provider, c) \in Containers
        BY <1>2 DEF App!CacheOf, Containers
      <4>2. App!Cached(g.provider, c) = {}
        BY <3>2 DEF Resolves
      <4>3. \A y \in caches'[App!CacheOf(g.provider, c)] :
               y \in caches[App!CacheOf(g.provider, c)] \/ y.token # g.provider.token
        BY <1>4, <1>10, <3>4, <4>1
      <4> QED
        BY <4>2, <4>3 DEF App!Cached, App!CacheOf
    <3>6. /\ stack'[i].provider = g.provider /\ stack'[i].container = c
          /\ OwnedBy(caches'[Root], stack'[i].holds, c)
      <4>1. /\ stack'[i].provider = g.provider /\ stack'[i].container = g.container
            /\ stack'[i].holds \subseteq g.holds \cup App!Holding(x)
        BY <1>7, <3>0
      <4>2. OwnedBy(caches'[Root], g.holds, c)
        BY <1>17, <3>2 DEF Resolves, OwnedBy, App!Owned
      <4>3. OwnedBy(caches'[Root], App!Holding(x), c)
        BY <1>18
      <4>4. OwnedBy(caches'[Root], stack'[i].holds, c)
        BY <4>1, <4>2, <4>3 DEF OwnedBy
      <4> QED
        BY <3>2, <4>1, <4>4
    <3>7. g.provider \in App!Found(c, g.provider.token)' /\ (g.provider.scope = "request" =>
            c # Root)
      BY <1>1, <3>2 DEF Resolves, App!Found
    <3>8. Resolves(stack[i])'
      <4>1. App!Owned(stack[i].holds, stack[i].container)'
        BY <3>6 DEF OwnedBy, App!Owned
      <4> QED
        BY <3>5, <3>6, <3>7, <4>1 DEF Resolves, App!Found, App!Cached, App!CacheOf
    <3>9. i < n - 1 => stack'[i].left # <<>>
      BY <1>7, <3>0, <3>2
    <3>10. \A j \in 1..(n - 1) : /\ stack'[i].container = stack'[j].container
                                 /\ stack'[i].provider = stack'[j].provider => i = j
      <4>1. \A j \in 1..(n - 1) : j \in 1..n
        BY <1>2
      <4> QED
        BY <1>7, <3>0, <3>2, <3>6, <4>1
    <3> QED
      BY <3>8, <3>9, <3>10
  <2> QED
    BY <1>7, <2>1 DEF AppStack
<1>14. ~collecting.on
  BY <1>1 DEF AppTypes
<1>15. AppTypes'
  <2>1. program' = program /\ collecting' = collecting /\ providers' = providers /\ extras' = extras
    BY <1>1
  <2>2. Modules' = Modules /\ Given' = Given
    BY <2>1 DEF Modules, Given
  <2>3. Made' = Made /\ Frames' = Frames
    BY <2>2 DEF Made, Frames, Reached, Tokens, Values, Containers
  <2> QED
    BY <1>1, <1>7, <1>9, <1>14, <2>1, <2>2, <2>3 DEF AppTypes
<1>16. AppRoutes' /\ App!EnhancersTakenOnce'
  BY SMTT(20), <1>1 DEF AppIInv, AppRoutes, App!EnhancersTakenOnce, App!Taken
<1> QED
  BY <1>12, <1>13, <1>15, <1>16 DEF AppIInv

-----------------------------------------------------------------------------
(* The end of createApplicationContext.                                    *)

\* The provider that is kept of a token is one of the program's, of that token.
LEMMA DedupedGiven ==
  ASSUME App!AppAssumption, program \in Programs, NEW order \in Seq(Modules),
         NEW t \in DOMAIN App!Deduped(order)
  PROVE  App!Deduped(order)[t] \in Given /\ App!Deduped(order)[t].token = t
<1> DEFINE T == {i \in DOMAIN order : App!With(program.providers[order[i]], t) # {}}
<1>1. \A m \in Modules : program.providers[m] \in Seq(Given)
  BY ProgramShape
<1>2. DOMAIN order = 1..Len(order) /\ Len(order) \in Nat
        /\ \A i \in DOMAIN order : order[i] \in Modules
  OBVIOUS
<1>3. T \subseteq Nat /\ T # {}
  <2>1. PICK p \in App!Provided(order) : t = p.token
    BY DEF App!Deduped
  <2>2. PICK i \in DOMAIN order : p \in App!Range(program.providers[order[i]])
    BY <2>1 DEF App!Provided
  <2>3. PICK j \in DOMAIN program.providers[order[i]] : p = program.providers[order[i]][j]
    BY <2>2 DEF App!Range
  <2>4. j \in App!With(program.providers[order[i]], t)
    BY <2>1, <2>3 DEF App!With
  <2>5. i \in T
    BY <2>4
  <2>6. T \subseteq DOMAIN order /\ DOMAIN order \subseteq Nat
    BY <1>2
  <2> HIDE DEF T
  <2> QED
    BY <2>5, <2>6
<1>4. PICK i \in T : i = App!Min(T)
  BY <1>3, MinThere
<1>5. PICK list : list = program.providers[order[i]]
  OBVIOUS
<1>6. list \in Seq(Given) /\ App!With(list, t) # {}
        /\ App!With(list, t) \subseteq 1..Len(list) /\ Len(list) \in Nat
  BY <1>1, <1>2, <1>5 DEF App!With
<1>7. App!Max(App!With(list, t)) \in App!With(list, t)
  BY <1>6, MaxThere
<1>8. list[App!Max(App!With(list, t))] \in Given /\ list[App!Max(App!With(list, t))].token = t
  BY <1>6, <1>7 DEF App!With
<1>9. App!Deduped(order)[t] = list[App!Max(App!With(list, t))]
  BY <1>4, <1>5 DEF App!Deduped
<1> QED
  BY <1>8, <1>9

\* Where a handler's enhancers are: at a route of it, in a context.
LEMMA TakenAt ==
  ASSUME NEW r, NEW at
  PROVE  at \in App!Taken(r) <=>
            \E k \in DOMAIN contexts : \E j \in DOMAIN contexts[k][r[1]] :
               /\ at = <<k, j>> /\ r[1] \in DOMAIN contexts[k]
               /\ program.handlers[r[1]][j] = r[2] /\ contexts[k][r[1]][j] = program.declared[r]
<1>1. ASSUME at \in App!Taken(r)
      PROVE  \E k \in DOMAIN contexts : \E j \in DOMAIN contexts[k][r[1]] :
                /\ at = <<k, j>> /\ r[1] \in DOMAIN contexts[k]
                /\ program.handlers[r[1]][j] = r[2] /\ contexts[k][r[1]][j] = program.declared[r]
  <2>1. PICK k \in DOMAIN contexts : r[1] \in DOMAIN contexts[k]
          /\ at \in {k} \X DOMAIN contexts[k][r[1]]
    BY <1>1 DEF App!Taken
  <2>2. /\ program.handlers[r[1]][at[2]] = r[2]
        /\ contexts[at[1]][r[1]][at[2]] = program.declared[r]
    BY <1>1 DEF App!Taken
  <2> QED
    BY <2>1, <2>2
<1>2. ASSUME NEW k \in DOMAIN contexts, NEW j \in DOMAIN contexts[k][r[1]],
             at = <<k, j>>, r[1] \in DOMAIN contexts[k],
             program.handlers[r[1]][j] = r[2], contexts[k][r[1]][j] = program.declared[r]
      PROVE  at \in App!Taken(r)
  <2>1. at \in {k} \X DOMAIN contexts[k][r[1]] /\ at[1] = k /\ at[2] = j
    BY <1>2
  <2> QED
    BY <1>2, <2>1 DEF App!Taken
<1> QED
  BY <1>1, <1>2

\* One more context.
LEMMA ContextAdded ==
  ASSUME AppRoutes, NEW made, contexts' = Append(contexts, made), program' = program,
         Len(contexts) < MaxContexts, MaxContexts \in Nat
  PROVE  /\ contexts' \in Seq(App!Range(contexts')) /\ Len(contexts') <= MaxContexts
         /\ Len(contexts) + 1 \notin DOMAIN contexts
         /\ \A r : \A at : at \in App!Taken(r)' <=>
               \/ at \in App!Taken(r)
               \/ \E j \in DOMAIN made[r[1]] :
                     /\ at = <<Len(contexts) + 1, j>> /\ r[1] \in DOMAIN made
                     /\ program.handlers[r[1]][j] = r[2] /\ made[r[1]][j] = program.declared[r]
<1> DEFINE n == Len(contexts)
<1> DEFINE S == App!Range(contexts) \cup {made}
<1>1. contexts \in Seq(S) /\ n \in Nat /\ DOMAIN contexts = 1..n
  BY DEF AppRoutes
<1>2. /\ contexts' \in Seq(S) /\ Len(contexts') = n + 1 /\ contexts'[n + 1] = made
      /\ DOMAIN contexts' = 1..(n + 1) /\ \A k \in 1..n : contexts'[k] = contexts[k]
  <2> HIDE DEF S
  <2>1. made \in S
    BY DEF S
  <2> QED
    BY <1>1, <2>1
<1>3. contexts' \in Seq(App!Range(contexts'))
  <2>1. \A k \in 1..(n + 1) : contexts'[k] \in App!Range(contexts')
    BY <1>2 DEF App!Range
  <2> HIDE DEF S
  <2> QED
    BY <1>1, <1>2, <2>1
<1>4. Len(contexts') <= MaxContexts /\ n + 1 \notin DOMAIN contexts
  <2>1. Len(contexts') = n + 1 /\ n \in Nat /\ DOMAIN contexts = 1..n
    BY <1>1, <1>2
  <2>2. n < MaxContexts
    OBVIOUS
  <2> HIDE DEF n
  <2>3. Len(contexts') <= MaxContexts
    BY <2>1, <2>2
  <2> QED
    BY <2>1, <2>3
<1> HIDE DEF S
<1>5. ASSUME NEW r, NEW at
      PROVE  at \in App!Taken(r)' <=>
                \/ at \in App!Taken(r)
                \/ \E j \in DOMAIN made[r[1]] :
                      /\ at = <<n + 1, j>> /\ r[1] \in DOMAIN made
                      /\ program.handlers[r[1]][j] = r[2] /\ made[r[1]][j] = program.declared[r]
  <2>1. at \in App!Taken(r)' <=>
            \E k \in DOMAIN contexts' : \E j \in DOMAIN contexts'[k][r[1]] :
               /\ at = <<k, j>> /\ r[1] \in DOMAIN contexts'[k]
               /\ program.handlers[r[1]][j] = r[2] /\ contexts'[k][r[1]][j] = program.declared[r]
    <3>1. ASSUME at \in App!Taken(r)'
          PROVE  \E k \in DOMAIN contexts' : \E j \in DOMAIN contexts'[k][r[1]] :
                    /\ at = <<k, j>> /\ r[1] \in DOMAIN contexts'[k]
                    /\ program.handlers[r[1]][j] = r[2]
                    /\ contexts'[k][r[1]][j] = program.declared[r]
      <4>1. PICK k \in DOMAIN contexts' : r[1] \in DOMAIN contexts'[k]
                                         /\ at \in {k} \X DOMAIN contexts'[k][r[1]]
        BY <3>1 DEF App!Taken
      <4>2. /\ program.handlers[r[1]][at[2]] = r[2]
            /\ contexts'[at[1]][r[1]][at[2]] = program.declared[r]
        BY <3>1 DEF App!Taken
      <4> QED
        BY <4>1, <4>2
    <3>2. ASSUME NEW k \in DOMAIN contexts', NEW j \in DOMAIN contexts'[k][r[1]],
                 at = <<k, j>>, r[1] \in DOMAIN contexts'[k],
                 program.handlers[r[1]][j] = r[2], contexts'[k][r[1]][j] = program.declared[r]
          PROVE  at \in App!Taken(r)'
      <4>1. at \in {k} \X DOMAIN contexts'[k][r[1]] /\ at[1] = k /\ at[2] = j
        BY <3>2
      <4> QED
        BY <3>2, <4>1 DEF App!Taken
    <3> QED
      BY <3>1, <3>2
  <2>2. \A k : k \in DOMAIN contexts' <=> k \in DOMAIN contexts \/ k = n + 1
    BY <1>1, <1>2
  <2>3. \A k \in DOMAIN contexts : contexts'[k] = contexts[k]
    BY <1>1, <1>2
  <2> HIDE DEF n
  <2> QED
    BY <1>2, <2>1, <2>2, <2>3, TakenAt
<1> QED
  BY <1>3, <1>4, <1>5

\* The enhancers of a handler are taken at the first of its routes.
LEMMA EnhancersKept ==
  ASSUME App!AppAssumption, program \in Programs, AppRoutes, App!EnhancersTakenOnce, NEW order,
         program' = program, Len(contexts) < MaxContexts,
         enhancers' = App!Consumed(order), contexts' = Append(contexts, App!Compiled(order))
  PROVE  App!EnhancersTakenOnce'
<1> DEFINE n == Len(contexts)
<1> DEFINE made == App!Compiled(order)
<1> SUFFICES ASSUME NEW r \in DOMAIN enhancers, program.declared[r] # {}
             PROVE  /\ \A k, l \in App!Taken(r)' : k = l
                    /\ enhancers'[r] = {} <=> App!Taken(r)' # {}
  BY DEF App!EnhancersTakenOnce, App!Consumed
<1> DEFINE c == r[1]
<1> DEFINE h == r[2]
<1>1. /\ r = <<c, h>> /\ program.handlers[c] \in Seq(App!Range(program.handlers[c]))
      /\ enhancers[r] \in {{}, program.declared[r]}
  BY ProgramShape DEF AppRoutes
<1>2. (\A k, l \in App!Taken(r) : k = l) /\ (enhancers[r] = {} <=> App!Taken(r) # {})
  BY DEF App!EnhancersTakenOnce
<1>3. \A at : at \in App!Taken(r)' <=>
          \/ at \in App!Taken(r)
          \/ \E j \in DOMAIN made[c] :
                /\ at = <<n + 1, j>> /\ c \in DOMAIN made
                /\ program.handlers[c][j] = h /\ made[c][j] = program.declared[r]
  <2> HIDE DEF made
  <2>1. contexts' = Append(contexts, made)
    BY DEF made
  <2> QED
    BY <2>1, ContextAdded DEF App!AppAssumption
<1>4. /\ DOMAIN made = App!Compilable(order)
      /\ c \in App!Compilable(order) =>
            /\ DOMAIN made[c] = DOMAIN program.handlers[c]
            /\ \A j \in DOMAIN program.handlers[c] :
                  program.handlers[c][j] = h =>
                     made[c][j] = IF \E i \in 1..(j - 1) : program.handlers[c][i] = h
                                  THEN {} ELSE enhancers[r]
  <2>1. DOMAIN made = App!Compilable(order)
    BY DEF App!Compiled
  <2>2. ASSUME c \in App!Compilable(order)
        PROVE  made[c] = [j \in DOMAIN program.handlers[c] |->
                             IF \E i \in 1..(j - 1) : program.handlers[c][i] = program.handlers[c][j]
                             THEN {} ELSE enhancers[<<c, program.handlers[c][j]>>]]
    BY <2>2 DEF App!Compiled
  <2> HIDE DEF made
  <2>3. ASSUME c \in App!Compilable(order),
               NEW j \in DOMAIN program.handlers[c], program.handlers[c][j] = h
        PROVE  made[c][j] = IF \E i \in 1..(j - 1) : program.handlers[c][i] = h
                            THEN {} ELSE enhancers[r]
    <3>1. r = <<c, program.handlers[c][j]>>
      BY <1>1, <2>3
    <3>2. made[c][j] = IF \E i \in 1..(j - 1) : program.handlers[c][i] = program.handlers[c][j]
                       THEN {} ELSE enhancers[<<c, program.handlers[c][j]>>]
      BY <2>2, <2>3
    <3> HIDE DEF c, h
    <3> QED
      BY <2>3, <3>1, <3>2
  <2> QED
    BY <2>1, <2>2, <2>3
<1>5. enhancers'[r] = IF c \in App!Compilable(order) /\ h \in App!Range(program.handlers[c])
                      THEN {} ELSE enhancers[r]
  BY DEF App!Consumed
<1> HIDE DEF made, n, c, h
<1>6. CASE ~(c \in App!Compilable(order) /\ h \in App!Range(program.handlers[c]))
  <2>1. \A at : at \in App!Taken(r)' <=> at \in App!Taken(r)
    BY <1>3, <1>4, <1>6 DEF App!Range
  <2> QED
    BY <1>2, <1>5, <1>6, <2>1
<1>7. CASE c \in App!Compilable(order) /\ h \in App!Range(program.handlers[c]) /\ enhancers[r] = {}
  <2>1. \A j \in DOMAIN made[c] : program.handlers[c][j] = h => made[c][j] = {}
    BY <1>4, <1>7
  <2>2. \A at : at \in App!Taken(r)' <=> at \in App!Taken(r)
    BY <1>3, <2>1
  <2> QED
    BY <1>2, <1>5, <1>7, <2>2
<1>8. CASE c \in App!Compilable(order) /\ h \in App!Range(program.handlers[c]) /\ enhancers[r] # {}
  <2> DEFINE T == {j \in DOMAIN program.handlers[c] : program.handlers[c][j] = h}
  <2>1. T \subseteq Nat /\ T # {} /\ \A j \in T : j >= 1
    BY <1>1, <1>8 DEF App!Range
  <2>2. PICK j \in T : \A i \in T : j <= i
    BY <2>1, LeastNatural
  <2>3. enhancers[r] = program.declared[r] /\ App!Taken(r) = {}
    BY <1>1, <1>2, <1>8
  <2>4. made[c][j] = program.declared[r]
    <3>1. ~\E i \in 1..(j - 1) : program.handlers[c][i] = h
      <4> SUFFICES ASSUME NEW i \in 1..(j - 1), program.handlers[c][i] = h PROVE FALSE
        OBVIOUS
      <4>1. j \in 1..Len(program.handlers[c])
              /\ DOMAIN program.handlers[c] = 1..Len(program.handlers[c])
            /\ Len(program.handlers[c]) \in Nat
        BY <1>1
      <4>2. i \in T /\ i < j
        BY <4>1
      <4> QED
        BY <2>1, <2>2, <4>2
    <3> QED
      BY <1>4, <1>8, <2>3, <3>1
  <2>5. ASSUME NEW i \in T, i # j PROVE made[c][i] = {}
    <3>1. j \in 1..(i - 1)
      BY <2>1, <2>2, <2>5
    <3> QED
      BY <1>4, <1>8, <3>1
  <2>6. \A at : at \in App!Taken(r)' <=> at = <<n + 1, j>>
    <3>1. DOMAIN made[c] = DOMAIN program.handlers[c] /\ c \in DOMAIN made
      BY <1>4, <1>8
    <3>2. \A i \in DOMAIN made[c] : program.handlers[c][i] = h
            /\ made[c][i] = program.declared[r] <=> i = j
      BY <2>4, <2>5, <3>1
    <3> QED
      BY <1>3, <2>3, <3>1, <3>2
  <2>7. enhancers'[r] = {}
    BY <1>5, <1>8
  <2>8. <<n + 1, j>> \in App!Taken(r)' /\ \A k, l \in App!Taken(r)' : k = l
    BY <2>6
  <2> QED
    BY <2>7, <2>8
<1> QED
  BY <1>6, <1>7, <1>8

\* The end of create keeps what always holds.
LEMMA EndKeeps ==
  ASSUME App!AppAssumption, AppIInv, App!EndCreate
  PROVE  AppIInv'
<1> DEFINE order == collecting.order
<1>1. /\ AppTypes /\ AppRoutes /\ App!EnhancersTakenOnce /\ App!ScopesHold
      /\ collecting.on /\ stack = <<>> /\ Len(contexts) < MaxContexts
      /\ collecting' = App!NotCollecting /\ program' = program /\ stack' = stack
  BY DEF AppIInv, AppTypes, AppRoutes, App!EndCreate
<1>2. order \in Seq(Modules) /\ program \in Programs
  BY <1>1 DEF AppTypes
<1>3. collecting' \in [todo : Seq(Modules), order : Seq(Modules), on : BOOLEAN] /\ ~collecting'.on
  <2>1. <<>> \in Seq(Modules) /\ FALSE \in BOOLEAN
    OBVIOUS
  <2> QED
    BY <1>1, <2>1 DEF App!NotCollecting
<1> HIDE DEF order
<1>4. \/ UNCHANGED <<providers, extras, caches>>
      \/ /\ providers' = App!Deduped(order) /\ extras' = [r \in Requests |-> {}]
              /\ caches' = App!NoInstances
  BY DEF App!EndCreate, order
<1>5. AppTypes' /\ App!ScopesHold'
  <2>1. CASE UNCHANGED <<providers, extras, caches>>
    <3>1. AppTypes'
      BY <1>1, <1>3, <2>1 DEF AppTypes, Modules, Given, Tokens, Values, Reached, Made, Frames
    <3> QED
      BY <1>1, <2>1, <3>1 DEF App!ScopesHold, App!Owned
  <2>2. CASE /\ providers' = App!Deduped(order) /\ extras' = [r \in Requests |-> {}]
             /\ caches' = App!NoInstances
    <3>1. \A t \in DOMAIN providers' : providers'[t] \in Given /\ providers'[t].token = t
      BY <1>2, <2>2, DedupedGiven
    <3>2. extras' \in [Requests -> SUBSET program.overrides] /\ \A r \in Requests : extras'[r] = {}
      BY <2>2
    <3>3. caches' \in [Containers -> SUBSET Made] /\ \A e \in Containers : caches'[e] = {}
      BY <2>2 DEF App!NoInstances, Containers
    <3>4. AppTypes'
      BY <1>1, <1>3, <3>1, <3>2, <3>3 DEF AppTypes, Modules, Given, Tokens, Values, Reached, Made, Frames
    <3> QED
      BY <3>3, <3>4 DEF App!ScopesHold
  <2> QED
    BY <1>4, <2>1, <2>2
<1>6. AppStack'
  BY <1>1 DEF AppStack
<1>7. CASE contexts' = Append(contexts, <<>>) /\ enhancers' = enhancers
  <2> DEFINE none == <<>>
  <2>0. DOMAIN none = {} /\ contexts' = Append(contexts, none) /\ MaxContexts \in Nat
    BY <1>7 DEF App!AppAssumption
  <2> HIDE DEF none
  <2>1. /\ contexts' \in Seq(App!Range(contexts')) /\ Len(contexts') <= MaxContexts
        /\ \A r : \A at : at \in App!Taken(r)' <=>
              \/ at \in App!Taken(r)
              \/ \E j \in DOMAIN none[r[1]] :
                    /\ at = <<Len(contexts) + 1, j>> /\ r[1] \in DOMAIN none
                    /\ program.handlers[r[1]][j] = r[2] /\ none[r[1]][j] = program.declared[r]
    BY <1>1, <2>0, ContextAdded
  <2>2. \A r : App!Taken(r)' = App!Taken(r)
    <3>1. \A r : \A at : at \in App!Taken(r)' <=> at \in App!Taken(r)
      BY <2>0, <2>1
    <3>2. ASSUME NEW r PROVE App!Taken(r)' \subseteq App!Taken(r)
                   /\ App!Taken(r) \subseteq App!Taken(r)'
      BY <3>1
    <3> QED
      BY <3>2
  <2>3. App!EnhancersTakenOnce'
    BY <1>1, <1>7, <2>2 DEF App!EnhancersTakenOnce
  <2>4. AppRoutes'
    BY <1>1, <1>3, <1>7, <2>1 DEF AppRoutes
  <2> QED
    BY <1>5, <1>6, <2>3, <2>4 DEF AppIInv
<1>8. CASE contexts' = Append(contexts, App!Compiled(order)) /\ enhancers' = App!Consumed(order)
  <2>1. contexts' \in Seq(App!Range(contexts')) /\ Len(contexts') <= MaxContexts
    BY <1>1, <1>8, ContextAdded DEF App!AppAssumption
  <2>2. App!EnhancersTakenOnce'
    BY <1>1, <1>2, <1>8, EnhancersKept
  <2>3. /\ DOMAIN enhancers' = DOMAIN enhancers
        /\ \A r \in DOMAIN enhancers : enhancers'[r] \in {{}, enhancers[r]}
    BY <1>8 DEF App!Consumed
  <2>4. AppRoutes'
    BY <1>1, <1>3, <2>1, <2>3 DEF AppRoutes
  <2> QED
    BY <1>5, <1>6, <2>2, <2>4 DEF AppIInv
<1> QED
  BY <1>7, <1>8 DEF App!EndCreate, order

-----------------------------------------------------------------------------

\* Every step of the application keeps what always holds.
LEMMA AppKeeps ==
  ASSUME App!AppAssumption, AppIInv, [App!AppNext]_App!appVars
  PROVE  AppIInv'
<1>1. CASE UNCHANGED App!appVars
  <2>1. UNCHANGED <<program, enhancers, collecting, contexts, providers, extras, caches, stack>>
    BY <1>1 DEF App!appVars
  <2>2. AppStack'
    <3>1. /\ \A c, t : App!Found(c, t)' = App!Found(c, t)
          /\ \A p, c : App!Cached(p, c)' = App!Cached(p, c)
          /\ \A H, c : App!Owned(H, c)' = App!Owned(H, c)
      BY <2>1 DEF App!Found, App!Cached, App!Owned
    <3>2. AppStack
      BY DEF AppIInv
    <3> QED
      BY <2>1, <3>1, <3>2 DEF AppStack, Resolves
  <2>3. stack \in Seq(Frames) /\ (collecting.on => stack = <<>>)
    BY DEF AppIInv, AppTypes
  <2>4. stack' \in Seq(Frames) /\ (collecting.on => stack' = <<>>)
    BY <2>1, <2>3
  <2> QED
    BY <2>1, <2>2, <2>4, CallsKeep
<1>2. CASE App!AppNext
  <2>1. ASSUME NEW r \in Requests, NEW p \in program.overrides, App!BeginRequest(r, p)
                 PROVE AppIInv'
    BY <2>1, BeginKeeps
  <2>2. ASSUME NEW c \in Requests \cup {Root}, NEW t \in program.asked, App!Ask(c, t) PROVE AppIInv'
    BY <2>2, AskKeeps DEF Containers
  <2> QED
    BY <1>2, <2>1, <2>2, CreateKeeps, CollectKeeps, EndKeeps, DependencyKeeps, ConstructKeeps,
       ThrowsKeeps DEF App!AppNext
<1> QED
  BY <1>1, <1>2

\* The container and the routes of an application, whatever the program: how
\* many modules import one another, which providers depend on which, and in
\* whatever order and from whichever request they are asked for.
LEMMA ApplicationLife ==
  ASSUME App!AppAssumption
  PROVE  App!AppSpec => [](App!TypeOK /\ App!EnhancersTakenOnce /\ App!ScopesHold)
<1>1. App!AppInit => AppIInv
  BY AppStarts
<1>2. AppIInv /\ [App!AppNext]_App!appVars => AppIInv'
  BY AppKeeps
<1>3. ASSUME AppIInv PROVE App!TypeOK
  <2>1. /\ AppTypes /\ AppRoutes /\ App!ScopesHold /\ DOMAIN caches = Containers
    BY <1>3 DEF AppIInv, AppTypes
  <2>2. \A r \in DOMAIN enhancers : enhancers[r] \in {{}, program.declared[r]}
    BY <2>1 DEF AppRoutes
  <2>3. collecting.on \in BOOLEAN /\ Len(contexts) <= MaxContexts /\ program \in Programs
    BY <2>1 DEF AppRoutes, AppTypes
  <2>4. ASSUME NEW c \in DOMAIN caches, NEW x \in caches[c]
        PROVE  /\ x.scope \in {"singleton", "request"} /\ x.home \in DOMAIN caches
               /\ \A h \in x.holds : h.request \in Requests
    BY <2>1 DEF AppTypes, Made, Reached
  <2> QED
    BY <2>2, <2>3, <2>4 DEF App!TypeOK
<1>4. AppIInv => App!EnhancersTakenOnce /\ App!ScopesHold
  BY DEF AppIInv
<1> QED
  BY <1>1, <1>2, <1>3, <1>4, PTL DEF App!AppSpec

-----------------------------------------------------------------------------
(* Scaffold: the files of a command.                                       *)

\* A file as it is on the disk.
IsContent(x) == x = [of |-> x.of, offers |-> x.offers, takes |-> x.takes, again |-> x.again,
  state |-> x.state]
\* The lists of files.
Listed(s, S) == s \in Seq(Cli!Range(s)) /\ s # <<>> /\ Cli!Range(s) = S

\* A list of one element.
LEMMA List1 ==
  ASSUME NEW a
  PROVE  Listed(<<a>>, {a})
  BY DEF Listed, Cli!Range

\* A list of two.
LEMMA List2 ==
  ASSUME NEW a, NEW b
  PROVE  Listed(<<a, b>>, {a, b})
  BY DEF Listed, Cli!Range

\* A list of three.
LEMMA List3 ==
  ASSUME NEW a, NEW b, NEW c
  PROVE  Listed(<<a, b, c>>, {a, b, c})
  BY DEF Listed, Cli!Range

\* A list of five.
LEMMA List5 ==
  ASSUME NEW a, NEW b, NEW c, NEW d, NEW e
  PROVE  Listed(<<a, b, c, d, e>>, {a, b, c, d, e})
  BY DEF Listed, Cli!Range

\* A list of ten.
LEMMA List10 ==
  ASSUME NEW a, NEW b, NEW c, NEW d, NEW e, NEW f, NEW g, NEW h, NEW i, NEW j
  PROVE  Listed(<<a, b, c, d, e, f, g, h, i, j>>, {a, b, c, d, e, f, g, h, i, j})
  BY DEF Listed, Cli!Range

\* A list of fifteen.
LEMMA List15 ==
  ASSUME NEW a, NEW b, NEW c, NEW d, NEW e, NEW f, NEW g, NEW h, NEW i, NEW j,
         NEW k, NEW l, NEW m, NEW n, NEW o
  PROVE  Listed(<<a, b, c, d, e, f, g, h, i, j, k, l, m, n, o>>, {a, b, c, d, e, f, g, h, i, j,
           k, l, m, n, o})
  BY DEF Listed, Cli!Range

\* A template as it is made.
Fresh(x, n) == IsContent(x) /\ x.of = n /\ x.state = "whole"

\* A file of a template is fresh from its name.
LEMMA ContentFresh == ASSUME NEW n, NEW o, NEW t PROVE Fresh(Cli!Content(n, o, t), n)
  BY DEF Fresh, IsContent, Cli!Content

\* So is an index of files.
LEMMA IndexFresh == ASSUME NEW n, NEW fs PROVE Fresh(Cli!Index(n, fs), n)
  BY DEF Fresh, IsContent, Cli!Content, Cli!Index

FilesFresh(c) ==
    /\ Cli!Files(c) \in Seq(Cli!Range(Cli!Files(c))) /\ Cli!Files(c) # <<>>
    /\ \A e \in Cli!Range(Cli!Files(c)) : e = <<e[1], e[2]>> /\ Fresh(e[2], c.name)

\* A list is a list of its own elements.
LEMMA ListShape == ASSUME NEW S, NEW s \in Seq(S) PROVE s \in Seq(Cli!Range(s))
  BY DEF Cli!Range

\* The files of the command new.
LEMMA NewFresh == ASSUME NEW c \in Commands, Cli!ScaffoldAssumption, c.kind = "new"
  PROVE FilesFresh(c)
<1>1. Cli!Files(c) = Cli!NewFiles /\ c.name = <<>>
  BY DEF Cli!Files, Cli!ScaffoldAssumption
<1>2. Cli!NewFiles \in Seq(Cli!Range(Cli!NewFiles)) /\ Cli!NewFiles # <<>>
  BY List15 DEF Cli!NewFiles, Listed
<1>3. \A e \in Cli!Range(Cli!NewFiles) : e = <<e[1], e[2]>> /\ Fresh(e[2], <<>>)
  BY List15, ContentFresh
  DEF Listed, Cli!NewFiles, Cli!Plain, Cli!projectMainTemplate, Cli!projectBootstrapTemplate,
     Cli!projectRootModuleTemplate, Cli!projectFeatureModuleTemplate, Cli!projectAppServiceTemplate,
     Cli!projectAppControllerTemplate, Cli!projectAppControllerSpecTemplate
<1> QED
  BY <1>1, <1>2, <1>3 DEF FilesFresh

\* The files of the command crud.
LEMMA CrudFresh == ASSUME NEW c \in Commands, Cli!ScaffoldAssumption, c.kind = "crud"
  PROVE FilesFresh(c)
<1>1. Cli!Files(c) = Cli!CrudFiles(c.name, c.fields)
  BY DEF Cli!Files
<1>2. ASSUME NEW n, NEW fields PROVE
               /\ Cli!CrudFiles(n, fields) \in Seq(Cli!Range(Cli!CrudFiles(n, fields)))
  /\ Cli!CrudFiles(n, fields) # <<>>
  /\ \A e \in Cli!Range(Cli!CrudFiles(n, fields)) : e = <<e[1], e[2]>> /\ Fresh(e[2], n)
  <2>1. Cli!CrudFiles(n, fields) \in Seq(Cli!Range(Cli!CrudFiles(n, fields)))
          /\ Cli!CrudFiles(n, fields) # <<>>
    BY List10 DEF Cli!CrudFiles, Listed
  <2>2. \A e \in Cli!Range(Cli!CrudFiles(n, fields)) : e = <<e[1], e[2]>> /\ Fresh(e[2], n)
    BY List10, ContentFresh, IndexFresh
    DEF Listed, Cli!CrudFiles, Cli!crudModuleTemplate, Cli!crudServiceTemplate,
      Cli!crudControllerTemplate, Cli!crudEntityTemplate,
        Cli!crudRepositoryTemplate, Cli!crudCreateDtoTemplate, Cli!crudUpdateDtoTemplate,
          Cli!crudQueryDtoTemplate,
        Cli!crudDtoIndexTemplate, Cli!crudSpecTemplate
  <2> QED
    BY <2>1, <2>2
<1> QED
  BY <1>1, <1>2 DEF FilesFresh

\* The files of generate are some of these.
LEMMA Generated ==
  ASSUME NEW n, NEW kind
  PROVE  LET k     == Cli!toKebabCase(n)
             d     == IF kind \in {"module", "modular", "microservice"} THEN Append(Cli!Modules,
               k) ELSE Cli!Modules
             files == Cli!GenerateFiles(kind, n)
             module     == <<Cli!File(d, k, "module"), Cli!moduleTemplate(d, n, k)>>
             service    == <<Cli!File(d, k, "service"), Cli!serviceTemplate(n)>>
             controller == <<Cli!File(d, k, "controller"), Cli!controllerTemplate(d, n, k)>>
         IN  /\ kind = "service" => files = <<service>>
             /\ kind = "controller" => files = <<controller>>
             /\ kind = "module" => files = <<module, service, controller>>
             /\ kind = "modular" => files = <<module, service, controller,
                    <<Cli!File(d, k, "types"), Cli!modularContractsTemplate(n)>>,
                    <<Cli!File(d, <<>>, "index"), Cli!modularIndexTemplate(d, n, k)>>>>
             /\ kind = "microservice" =>
                  files = <<<<Cli!File(d, k, "microservice"), Cli!microserviceTemplate(n)>>,
                    <<Cli!File(d, <<>>, "index"), Cli!microserviceIndexTemplate(d, n, k)>>>>
  BY DEF Cli!GenerateFiles

\* The files of the other commands.
LEMMA GenerateFresh ==
  ASSUME NEW c \in Commands, Cli!ScaffoldAssumption, c.kind \notin {"new", "crud"}
  PROVE  FilesFresh(c)
<1> DEFINE n == c.name
           kind == c.kind
           k == Cli!toKebabCase(n)
           d == IF kind \in {"module", "modular", "microservice"} THEN Append(Cli!Modules,
             k) ELSE Cli!Modules
           files == Cli!GenerateFiles(kind, n)
           module     == <<Cli!File(d, k, "module"), Cli!moduleTemplate(d, n, k)>>
           service    == <<Cli!File(d, k, "service"), Cli!serviceTemplate(n)>>
           controller == <<Cli!File(d, k, "controller"), Cli!controllerTemplate(d, n, k)>>
           types      == <<Cli!File(d, k, "types"), Cli!modularContractsTemplate(n)>>
           index      == <<Cli!File(d, <<>>, "index"), Cli!modularIndexTemplate(d, n, k)>>
           small     == <<Cli!File(d, k, "microservice"), Cli!microserviceTemplate(n)>>
           only       == <<Cli!File(d, <<>>, "index"), Cli!microserviceIndexTemplate(d, n, k)>>
           FilesAllFresh(s) == \A e \in Cli!Range(s) : e = <<e[1], e[2]>> /\ Fresh(e[2], n)
<1>1. Cli!Files(c) = files /\ kind \in Cli!Kinds
  BY DEF Cli!Files, Cli!ScaffoldAssumption
<1>2. \A e \in {module, service, controller, types, index, small, only} :
          e = <<e[1], e[2]>> /\ Fresh(e[2], n)
  BY ContentFresh, IndexFresh
  DEF Cli!moduleTemplate, Cli!serviceTemplate, Cli!controllerTemplate, Cli!modularContractsTemplate,
      Cli!modularIndexTemplate, Cli!microserviceTemplate, Cli!microserviceIndexTemplate
<1>3. /\ kind = "service" => files = <<service>>
      /\ kind = "controller" => files = <<controller>>
      /\ kind = "module" => files = <<module, service, controller>>
      /\ kind = "modular" => files = <<module, service, controller, types, index>>
      /\ kind = "microservice" => files = <<small, only>>
  BY Generated
<1> SUFFICES files \in Seq(Cli!Range(files)) /\ files # <<>> /\ FilesAllFresh(files)
  BY <1>1 DEF FilesFresh
<1> HIDE DEF n, kind, k, d, files, module, service, controller, types, index, small, only
<1>4. CASE kind = "service"
  <2>1. Listed(<<service>>, {service})
    BY List1
  <2>2. Listed(files, {service})
    BY <1>3, <1>4, <2>1
  <2>3. FilesAllFresh(files)
    BY <1>2, <2>2 DEF Listed
  <2> QED
    BY <2>2, <2>3 DEF Listed
<1>5. CASE kind = "controller"
  <2>1. Listed(<<controller>>, {controller})
    BY List1
  <2>2. Listed(files, {controller})
    BY <1>3, <1>5, <2>1
  <2>3. FilesAllFresh(files)
    BY <1>2, <2>2 DEF Listed
  <2> QED
    BY <2>2, <2>3 DEF Listed
<1>6. CASE kind = "module"
  <2>1. Listed(<<module, service, controller>>, {module, service, controller})
    BY List3
  <2>2. Listed(files, {module, service, controller})
    BY <1>3, <1>6, <2>1
  <2>3. FilesAllFresh(files)
    BY <1>2, <2>2 DEF Listed
  <2> QED
    BY <2>2, <2>3 DEF Listed
<1>7. CASE kind = "modular"
  <2>1. Listed(<<module, service, controller, types, index>>, {module, service, controller,
          types, index})
    BY List5
  <2>2. Listed(files, {module, service, controller, types, index})
    BY <1>3, <1>7, <2>1
  <2>3. FilesAllFresh(files)
    BY <1>2, <2>2 DEF Listed
  <2> QED
    BY <2>2, <2>3 DEF Listed
<1>8. CASE kind = "microservice"
  <2>1. Listed(<<small, only>>, {small, only})
    BY List2
  <2>2. Listed(files, {small, only})
    BY <1>3, <1>8, <2>1
  <2>3. FilesAllFresh(files)
    BY <1>2, <2>2 DEF Listed
  <2> QED
    BY <2>2, <2>3 DEF Listed
<1> QED
  BY <1>1, <1>4, <1>5, <1>6, <1>7, <1>8 DEF Cli!Kinds, kind

\* A name whose dashes all come back is the same in both ways.
LEMMA SameKebab ==
  ASSUME NEW n, n \in Seq(Cli!Range(n)), Cli!KeepsDashes(n)
  PROVE  Cli!KebabOfPascal(n) = Cli!toKebabCase(n)
<1> DEFINE words == {i \in DOMAIN n : n[i] # Blank}
           next(i, j) == i < j /\ \A w \in words : ~(i < w /\ w < j)
           starts == {j \in words : \A i \in words :
                          next(i, j) => n[i] \notin Joins /\ n[j] \notin Joined}
           segment(i) == {j \in words : i <= j /\ \A s \in starts : ~(i < s /\ s <= j)}
<1>0. DOMAIN n = 1..Len(n) /\ Len(n) \in Nat
  OBVIOUS
<1>1. words = DOMAIN n
  BY DEF Cli!KeepsDashes, Cli!Range
<1>2. starts = DOMAIN n
  <2>1. ASSUME NEW i \in DOMAIN n, NEW j \in DOMAIN n, next(i, j)
        PROVE  i + 1 = j
    <3>1. i < j /\ i + 1 \in DOMAIN n
      BY <1>0, <2>1
    <3>2. ~(i < i + 1 /\ i + 1 < j)
      BY <1>1, <2>1, <3>1
    <3> QED
      BY <1>0, <3>1, <3>2
  <2>2. ASSUME NEW i \in DOMAIN n, NEW j \in DOMAIN n, next(i, j)
        PROVE  n[i] \notin Joins /\ n[j] \notin Joined
    BY <2>1, <2>2 DEF Cli!KeepsDashes
  <2> HIDE DEF words, next
  <2> QED
    BY <1>1, <2>2
<1>3. ASSUME NEW i \in DOMAIN n PROVE segment(i) = {i}
  <2> HIDE DEF words, starts
  <2>1. \A j \in DOMAIN n : j = i <=> (i <= j /\ \A s \in DOMAIN n : ~(i < s /\ s <= j))
    BY <1>0
  <2> QED
    BY <1>1, <1>2, <2>1
<1>4. Cli!KebabOfPascal(n) = [i \in starts |-> [j \in segment(i) |-> n[j]]]
  BY DEF Cli!KebabOfPascal
<1>5. [i \in starts |-> [j \in segment(i) |-> n[j]]] = [i \in DOMAIN n |-> [j \in {i} |-> n[j]]]
  <2> HIDE DEF words, starts, segment
  <2> QED
    BY <1>2, <1>3
<1> QED
  BY <1>4, <1>5 DEF Cli!toKebabCase

\* What a file takes from another is offered by one of the same list.
Offered(files, t) ==
    \E f \in Cli!Range(files) :
        /\ f[1] = t[1]
        /\ \/ t[2] \in f[2].offers
           \/ \E g \in Cli!Range(files) : g[1] \in f[2].again /\ t[2] \in g[2].offers

\* The entity of a name that loses a dash.
Renamed(e, t) == t[1][3] = "entity" /\ ~Cli!KeepsDashes(e[2].of)

TakesMade(files) ==
    \A e \in Cli!Range(files) :
        \/ Cli!Alone(e[1])
        \/ /\ \A q \in e[2].again : \E f \in Cli!Range(files) : f[1] = q
           /\ \A t \in e[2].takes : Offered(files, t) \/ Renamed(e, t)

\* What the files of crud take from one another is there.
LEMMA CrudTakes ==
  ASSUME NEW n, NEW fields, Cli!KeepsDashes(n) => Cli!KebabOfPascal(n) = Cli!toKebabCase(n)
  PROVE  TakesMade(Cli!CrudFiles(n, fields))
<1> DEFINE k == Cli!toKebabCase(n)
           d == Append(Cli!Modules, k)
           files == Cli!CrudFiles(n, fields)
           module     == <<Cli!File(d, k, "module"), Cli!crudModuleTemplate(d, n, k)>>
           service    == <<Cli!File(d, k, "service"), Cli!crudServiceTemplate(d, n, k)>>
           controller == <<Cli!File(d, k, "controller"), Cli!crudControllerTemplate(d, n, k)>>
           entity     == <<Cli!File(Cli!Domain(d), k, "entity"), Cli!crudEntityTemplate(n, fields)>>
           repository == <<Cli!File(Cli!Domain(d), k, "repository"),
             Cli!crudRepositoryTemplate(d, n, fields)>>
           create     == <<Cli!File(Cli!Dto(d), k, "create.dto"), Cli!crudCreateDtoTemplate(n,
             fields)>>
           update     == <<Cli!File(Cli!Dto(d), k, "update.dto"), Cli!crudUpdateDtoTemplate(n,
             fields)>>
           query      == <<Cli!File(Cli!Dto(d), k, "query"), Cli!crudQueryDtoTemplate(n, fields)>>
           index      == <<Cli!DtoIndex(d), Cli!crudDtoIndexTemplate(d, n, k)>>
           spec       == <<Cli!File(d, k, "spec"), Cli!crudSpecTemplate(d, n, k)>>
<1>1. Cli!Range(files) = {module, service, controller, entity, repository, create, update, query,
        index, spec}
  BY List10 DEF Listed, Cli!CrudFiles
<1>2. module[2].again = {} /\ \A t \in module[2].takes : Offered(files, t)
  <2>1. module[2].again = {} /\ module[2].takes =
     Cli!From(controller[1], {"Controller"}) \cup Cli!From(service[1],
       {"Service"}) \cup Cli!From(repository[1], {"Repository"})
    BY DEF Cli!crudModuleTemplate, Cli!Content
  <2>2. "Controller" \in controller[2].offers /\ "Service" \in service[2].offers
          /\ "Repository" \in repository[2].offers
    BY DEF Cli!crudControllerTemplate, Cli!crudServiceTemplate, Cli!crudRepositoryTemplate,
           Cli!Content
  <2> HIDE DEF module, service, controller, entity, repository, create, update, query, index,
        spec, files
  <2> QED
    BY <1>1, <2>1, <2>2 DEF Offered, Cli!From
<1>3. service[2].again = {} /\ \A t \in service[2].takes : Offered(files, t)
  <2>1. service[2].again = {}
          /\ service[2].takes = Cli!From(repository[1], {"Repository", "findMany", "findById", "create", "update", "delete"})
            \cup Cli!From(index[1], {"CreateDto", "UpdateDto", "Query"})
    BY DEF Cli!crudServiceTemplate, Cli!Content
  <2>2. /\ {"Repository", "findMany", "findById", "create", "update",
             "delete"} \subseteq repository[2].offers
        /\ "CreateDto" \in create[2].offers /\ "UpdateDto" \in update[2].offers
             /\ "Query" \in query[2].offers
        /\ {create[1], update[1], query[1]} \subseteq index[2].again
    BY DEF Cli!crudRepositoryTemplate, Cli!crudCreateDtoTemplate, Cli!crudUpdateDtoTemplate,
           Cli!crudQueryDtoTemplate, Cli!crudDtoIndexTemplate, Cli!Content, Cli!Index
  <2> HIDE DEF module, service, controller, entity, repository, create, update, query, index,
        spec, files
  <2> QED
    BY <1>1, <2>1, <2>2 DEF Offered, Cli!From
<1>4. controller[2].again = {} /\ \A t \in controller[2].takes : Offered(files, t)
  <2>1. controller[2].again = {}
          /\ controller[2].takes = Cli!From(index[1], {"CreateDto", "UpdateDto", "Query",
               "querySchema"})
            \cup Cli!From(service[1], {"Service"} \cup Cli!Records)
    BY DEF Cli!crudControllerTemplate, Cli!Content
  <2>2. /\ {"Service"} \cup Cli!Records \subseteq service[2].offers
        /\ "CreateDto" \in create[2].offers /\ "UpdateDto" \in update[2].offers
        /\ {"Query", "querySchema"} \subseteq query[2].offers
        /\ {create[1], update[1], query[1]} \subseteq index[2].again
    BY DEF Cli!crudServiceTemplate, Cli!crudCreateDtoTemplate, Cli!crudUpdateDtoTemplate,
           Cli!crudQueryDtoTemplate, Cli!crudDtoIndexTemplate, Cli!Content, Cli!Index
  <2> HIDE DEF module, service, controller, entity, repository, create, update, query, index,
        spec, files
  <2> QED
    BY <1>1, <2>1, <2>2 DEF Offered, Cli!From
<1>5. /\ repository[2].again = {}
      /\ \A t \in repository[2].takes : Offered(files, t) \/ Renamed(repository, t)
  <2> DEFINE other == Cli!File(Cli!Domain(d), Cli!KebabOfPascal(n), "entity")
             row == {"Entity", "id"} \cup {f.property :
                      f \in {x \in Cli!Range(fields) : x.type = "string"}}
             asked == {"Query", "limit"} \cup (IF Cli!Searchable(fields) THEN {"search"} ELSE {})
  <2>1. repository[2].again = {} /\ repository[2].of = n
          /\ repository[2].takes = Cli!From(index[1], asked) \cup Cli!From(other, row)
    BY DEF Cli!crudRepositoryTemplate, Cli!Content
  <2>2. /\ asked \subseteq query[2].offers
        /\ row \subseteq entity[2].offers
        /\ {create[1], update[1], query[1]} \subseteq index[2].again
    BY DEF Cli!crudQueryDtoTemplate, Cli!crudEntityTemplate, Cli!Properties,
           Cli!crudDtoIndexTemplate, Cli!Content, Cli!Index
  <2>3. other[3] = "entity" /\ (Cli!KeepsDashes(n) => other = entity[1])
    BY DEF Cli!File
  <2> HIDE DEF module, service, controller, entity, repository, create, update, query, index,
        spec, files, other, row, asked
  <2>4. \A t \in Cli!From(index[1], asked) : Offered(files, t)
    BY <1>1, <2>2 DEF Offered, Cli!From
  <2>5. \A t \in Cli!From(other, row) : Offered(files, t) \/ Renamed(repository, t)
    BY <1>1, <2>1, <2>2, <2>3 DEF Offered, Renamed, Cli!From
  <2> QED
    BY <2>1, <2>4, <2>5
<1>6. spec[2].again = {} /\ \A t \in spec[2].takes : Offered(files, t)
  <2>1. spec[2].again = {}
          /\ spec[2].takes = Cli!From(module[1], {"Module"}) \cup Cli!From(service[1], {"Service"} \cup Cli!Records)
            \cup Cli!From(index[1], {"CreateDto", "UpdateDto"})
    BY DEF Cli!crudSpecTemplate, Cli!Content
  <2>2. /\ "Module" \in module[2].offers /\ {"Service"} \cup Cli!Records \subseteq service[2].offers
        /\ "CreateDto" \in create[2].offers /\ "UpdateDto" \in update[2].offers
        /\ {create[1], update[1], query[1]} \subseteq index[2].again
    BY DEF Cli!crudModuleTemplate, Cli!crudServiceTemplate, Cli!crudCreateDtoTemplate,
           Cli!crudUpdateDtoTemplate, Cli!crudDtoIndexTemplate, Cli!Content, Cli!Index
  <2> HIDE DEF module, service, controller, entity, repository, create, update, query, index,
        spec, files
  <2> QED
    BY <1>1, <2>1, <2>2 DEF Offered, Cli!From
<1>7. \A e \in {entity, create, update, query} : e[2].again = {} /\ e[2].takes = {}
  BY DEF Cli!crudEntityTemplate, Cli!crudCreateDtoTemplate, Cli!crudUpdateDtoTemplate,
         Cli!crudQueryDtoTemplate, Cli!Content
<1>8. index[2].again = {create[1], update[1], query[1]} /\ index[2].takes = {}
  BY DEF Cli!crudDtoIndexTemplate, Cli!Content, Cli!Index
<1> HIDE DEF module, service, controller, entity, repository, create, update, query, index, spec,
      files
<1>9. TakesMade(files)
  BY <1>1, <1>2, <1>3, <1>4, <1>5, <1>6, <1>7, <1>8 DEF TakesMade
<1> QED
  BY <1>9 DEF files

\* What the files of new take from one another is there.
LEMMA NewTakes == TakesMade(Cli!NewFiles)
<1> DEFINE main == <<Cli!Source("main"), Cli!projectMainTemplate>>
           bootstrap == <<Cli!Source("bootstrap"), Cli!projectBootstrapTemplate>>
           root == <<Cli!Source("root.module"), Cli!projectRootModuleTemplate>>
           module == <<Cli!AppFile("module"), Cli!projectFeatureModuleTemplate>>
           service == <<Cli!AppFile("service"), Cli!projectAppServiceTemplate>>
           controller == <<Cli!AppFile("controller"), Cli!projectAppControllerTemplate>>
           spec == <<Cli!AppFile("controller.spec"), Cli!projectAppControllerSpecTemplate>>
           Others == {e \in Cli!Range(Cli!NewFiles) : e[2].takes = {}}
<1>1. {main, bootstrap, root, module, service, controller, spec} \subseteq Cli!Range(Cli!NewFiles)
  BY List15 DEF Listed, Cli!NewFiles
<1>2. \A e \in Cli!Range(Cli!NewFiles) : e[2].takes = {}
        \/ e \in {main, bootstrap, root, module, controller, spec}
  BY List15 DEF Listed, Cli!NewFiles, Cli!Plain, Cli!Content, Cli!projectAppServiceTemplate
<1>3. \A e \in Cli!Range(Cli!NewFiles) : e[2].again = {}
  <2>1. \A q, f, t : Cli!Content(q, f, t).again = {}
    BY DEF Cli!Content
  <2>2. \A e \in Cli!Range(Cli!NewFiles) : \E q, f, t : e[2] = Cli!Content(q, f, t)
    BY List15
    DEF Listed, Cli!NewFiles, Cli!Plain, Cli!projectMainTemplate, Cli!projectBootstrapTemplate,
       Cli!projectRootModuleTemplate, Cli!projectFeatureModuleTemplate,
         Cli!projectAppServiceTemplate,
       Cli!projectAppControllerTemplate, Cli!projectAppControllerSpecTemplate
  <2> QED
    BY <2>1, <2>2
<1>4. /\ main[2].takes = Cli!From(bootstrap[1], {"bootstrap"})
      /\ bootstrap[2].takes = Cli!From(root[1], {"RootModule"})
      /\ root[2].takes = Cli!From(module[1], {"AppModule"})
      /\ module[2].takes = Cli!From(controller[1], {"AppController"}) \cup Cli!From(service[1],
           {"AppService"})
      /\ controller[2].takes = Cli!From(service[1], {"AppService", "getStatus"})
      /\ spec[2].takes = Cli!From(module[1], {"AppModule"}) \cup Cli!From(controller[1],
           {"AppController", "readStatus"})
  BY DEF Cli!Content, Cli!projectMainTemplate, Cli!projectBootstrapTemplate,
         Cli!projectRootModuleTemplate,
     Cli!projectFeatureModuleTemplate, Cli!projectAppControllerTemplate,
       Cli!projectAppControllerSpecTemplate
<1>5. /\ "bootstrap" \in bootstrap[2].offers /\ "RootModule" \in root[2].offers
      /\ "AppModule" \in module[2].offers /\ {"AppService", "getStatus"} \subseteq service[2].offers
      /\ {"AppController", "readStatus"} \subseteq controller[2].offers
  BY DEF Cli!Content, Cli!projectBootstrapTemplate, Cli!projectRootModuleTemplate,
         Cli!projectFeatureModuleTemplate,
     Cli!projectAppServiceTemplate, Cli!projectAppControllerTemplate
<1> HIDE DEF main, bootstrap, root, module, service, controller, spec
<1>6. ASSUME NEW e \in {main, bootstrap, root, module, controller, spec}, NEW t \in e[2].takes
      PROVE  Offered(Cli!NewFiles, t)
  BY <1>1, <1>4, <1>5, <1>6 DEF Offered, Cli!From
<1> QED
  BY <1>2, <1>3, <1>6 DEF TakesMade

\* What the files of generate take from one another is there.
LEMMA GenerateTakes ==
  ASSUME NEW n, NEW kind \in {"module", "service", "controller", "modular", "microservice"}
  PROVE  TakesMade(Cli!GenerateFiles(kind, n))
<1> DEFINE k == Cli!toKebabCase(n)
           d == IF kind \in {"module", "modular", "microservice"} THEN Append(Cli!Modules,
             k) ELSE Cli!Modules
           files == Cli!GenerateFiles(kind, n)
           module     == <<Cli!File(d, k, "module"), Cli!moduleTemplate(d, n, k)>>
           service    == <<Cli!File(d, k, "service"), Cli!serviceTemplate(n)>>
           controller == <<Cli!File(d, k, "controller"), Cli!controllerTemplate(d, n, k)>>
           types      == <<Cli!File(d, k, "types"), Cli!modularContractsTemplate(n)>>
           index      == <<Cli!File(d, <<>>, "index"), Cli!modularIndexTemplate(d, n, k)>>
           small     == <<Cli!File(d, k, "microservice"), Cli!microserviceTemplate(n)>>
           only       == <<Cli!File(d, <<>>, "index"), Cli!microserviceIndexTemplate(d, n, k)>>
<1>1. /\ module[2].again = {} /\ service[2].again = {} /\ controller[2].again = {}
      /\ types[2].again = {} /\ small[2].again = {}
      /\ index[2].again = {module[1], service[1], controller[1], types[1]}
      /\ only[2].again = {small[1]}
  BY DEF Cli!moduleTemplate, Cli!serviceTemplate, Cli!controllerTemplate,
         Cli!modularContractsTemplate, Cli!microserviceTemplate,
     Cli!modularIndexTemplate, Cli!microserviceIndexTemplate, Cli!Index, Cli!Content
<1>2. /\ module[2].takes = Cli!From(controller[1], {"Controller"}) \cup Cli!From(service[1],
           {"Service"})
      /\ controller[2].takes = Cli!From(service[1], {"Service", "findAll"})
      /\ service[2].takes = {} /\ types[2].takes = {} /\ small[2].takes = {}
      /\ index[2].takes = {} /\ only[2].takes = {}
      /\ "Controller" \in controller[2].offers /\ {"Service", "findAll"} \subseteq service[2].offers
  BY DEF Cli!moduleTemplate, Cli!serviceTemplate, Cli!controllerTemplate,
         Cli!modularContractsTemplate, Cli!microserviceTemplate,
     Cli!modularIndexTemplate, Cli!microserviceIndexTemplate, Cli!Index, Cli!Content
<1>3. kind = "controller" => Cli!Alone(controller[1])
  BY DEF Cli!Alone, Cli!File
<1>4. /\ kind = "service" => files = <<service>>
      /\ kind = "controller" => files = <<controller>>
      /\ kind = "module" => files = <<module, service, controller>>
      /\ kind = "modular" => files = <<module, service, controller, types, index>>
      /\ kind = "microservice" => files = <<small, only>>
  BY Generated
<1> SUFFICES TakesMade(files)
  OBVIOUS
<1> HIDE DEF module, service, controller, types, index, small, only, files
<1>5. CASE kind = "service"
  BY <1>1, <1>2, <1>4, <1>5, List1 DEF Listed, TakesMade
<1>6. CASE kind = "controller"
  BY <1>3, <1>4, <1>6, List1 DEF Listed, TakesMade
<1>7. CASE kind = "module"
  BY <1>1, <1>2, <1>4, <1>7, List3 DEF Listed, TakesMade, Offered, Cli!From
<1>8. CASE kind = "modular"
  <2>1. Cli!Range(files) = {module, service, controller, types, index}
    BY <1>4, <1>8, List5 DEF Listed
  <2> QED
    BY <1>1, <1>2, <2>1 DEF TakesMade, Offered, Cli!From
<1>9. CASE kind = "microservice"
  BY <1>1, <1>2, <1>4, <1>9, List2 DEF Listed, TakesMade
<1> QED
  BY <1>5, <1>6, <1>7, <1>8, <1>9

\* The files of every command.
LEMMA CommandFiles ==
  ASSUME Cli!ScaffoldAssumption, NEW c \in Commands
  PROVE  FilesFresh(c)
  BY NewFresh, CrudFresh, GenerateFresh

\* What a command's files take from others, they offer.
LEMMA CommandTakes ==
  ASSUME Cli!ScaffoldAssumption, NEW c \in Commands
  PROVE  TakesMade(Cli!Files(c))
<1>1. c.kind \in Cli!Kinds /\ c.name \in Seq(Cli!Range(c.name))
  BY DEF Cli!ScaffoldAssumption
<1>2. CASE c.kind = "new"
  BY <1>2, NewTakes DEF Cli!Files
<1>3. CASE c.kind = "crud"
  BY <1>1, <1>3, SameKebab, CrudTakes DEF Cli!Files
<1>4. CASE c.kind \notin {"new", "crud"}
  BY <1>1, <1>4, GenerateTakes DEF Cli!Files, Cli!Kinds
<1> QED
  BY <1>2, <1>3, <1>4

-----------------------------------------------------------------------------
(* Scaffold: what is on the disk of the files of each command.             *)

\* What a file is apart from whether it was edited or cut short.
Clean(content) == [content EXCEPT !.state = "whole"]

\* The file e is on the disk as a template made it, whole or cut short.
There(e) == e[1] \in DOMAIN disk /\ Clean(disk[e[1]]) = e[2]

\* Or a command that was broken off, or that runs, is still to write it.
StillToCome(e) ==
    \/ \E u \in unfinished : e \in Cli!Range(Cli!Files(u))
    \/ e \in Cli!Range(command.files)

\* A file is one of a command all of whose files are there or still to come.
Explained(p) ==
    disk[p].of \in mixed \/ \E c \in Commands :
        /\ c.name = disk[p].of
        /\ \E e \in Cli!Range(Cli!Files(c)) : e[1] = p
        /\ \A e \in Cli!Range(Cli!Files(c)) : There(e) \/ StillToCome(e)

Plainly(c) == [c EXCEPT !.force = FALSE]

DiskTyped == \A p \in DOMAIN disk : IsContent(disk[p])
  /\ disk[p].state \in {"whole", "edited", "torn"}

CommandTyped ==
    /\ command = [given |-> command.given, files |-> command.files, at |-> command.at]
    /\ command.at \in {"none", "check", "write", "last"}
    /\ command.at = "none" => command = Cli!NoCommand
    /\ command.at # "none" =>
          /\ command.given \in Commands
          /\ command.files \in Seq(Cli!Range(Cli!Files(command.given)))
    /\ command.at \in {"check", "write"} => command.files # <<>>
    /\ command.at = "last" => command.files = <<>>

\* A file that is going to be written over is another's, which is noted, or the same.
Noted ==
    command.at = "write" /\ Cli!Path \in DOMAIN disk =>
            \/ Clean(disk[Cli!Path]) = Cli!New
            \/ {command.given.name, disk[Cli!Path].of} \subseteq mixed

ScaffoldIInv ==
    /\ pinned \in Cli!Range(Packs) \cup {Nothing}
    /\ commands \in 0..MaxCommands /\ breaks \in 0..MaxBreaks /\ edits \in 0..MaxEdits
    /\ DiskTyped /\ CommandTyped /\ Noted
    /\ unfinished \subseteq {Plainly(c) : c \in Commands}
    /\ \A p \in DOMAIN disk : Explained(p)
    /\ command.at # "none" =>
          \/ command.given.name \in mixed
          \/ \A e \in Cli!Range(Cli!Files(command.given)) : There(e)
               \/ e \in Cli!Range(command.files)

\* A command has the same files with and without force.
LEMMA PlainlySame ==
  ASSUME Cli!ScaffoldAssumption, NEW c \in Commands
  PROVE  /\ Cli!Files(Plainly(c)) = Cli!Files(c) /\ Plainly(c).name = c.name
         /\ FilesFresh(c)
<1>1. c = [kind |-> c.kind, name |-> c.name, fields |-> c.fields, pack |-> c.pack,
        force |-> c.force]
  BY DEF Cli!ScaffoldAssumption
<1>2. Plainly(c).kind = c.kind /\ Plainly(c).name = c.name /\ Plainly(c).fields = c.fields
  BY <1>1 DEF Plainly
<1> QED
  BY <1>2, CommandFiles DEF Cli!Files

\* What is said of a file that stays, if what is there of its command stays.
LEMMA StaysExplained ==
  ASSUME NEW p \in DOMAIN disk, Explained(p), p \in DOMAIN disk', disk'[p].of = disk[p].of,
         mixed \subseteq mixed',
         \A c \in Commands : \A e \in Cli!Range(Cli!Files(c)) :
             c.name \in mixed' \/ (There(e) \/ StillToCome(e) => There(e)' \/ StillToCome(e)')
  PROVE  Explained(p)'
  BY DEF Explained

\* A file of a command that runs, once it is made.
LEMMA NewlyExplained ==
  ASSUME NEW p \in DOMAIN disk', NEW c \in Commands, disk'[p].of = c.name,
         \E e \in Cli!Range(Cli!Files(c)) : e[1] = p,
         c.name \in mixed' \/ \A e \in Cli!Range(Cli!Files(c)) : There(e)' \/ StillToCome(e)'
  PROVE  Explained(p)'
  BY DEF Explained

\* What always holds does so at first.
LEMMA ScaffoldStart == ASSUME Cli!ScaffoldAssumption, Cli!ScaffoldInit PROVE ScaffoldIInv
  BY DEF Cli!ScaffoldAssumption, Cli!ScaffoldInit, ScaffoldIInv, DiskTyped, CommandTyped, Noted,
         Cli!NoCommand

\* A command that begins keeps what always holds.
LEMMA RunStep ==
  ASSUME Cli!ScaffoldAssumption, ScaffoldIInv, NEW c \in Commands, Cli!Run(c)
  PROVE  ScaffoldIInv'
<1>1. /\ command = Cli!NoCommand /\ command' = [given |-> c, files |-> Cli!Files(c), at |-> "check"]
      /\ commands' = commands + 1 /\ commands < MaxCommands
      /\ UNCHANGED <<disk, pinned, breaks, edits, unfinished, mixed>>
  BY DEF Cli!Run
<1>2. FilesFresh(c)
  BY CommandFiles
<1>3. CommandTyped' /\ Noted' /\ DiskTyped'
  BY <1>1, <1>2 DEF CommandTyped, FilesFresh, Noted, DiskTyped, ScaffoldIInv
<1>4. ASSUME NEW e
      PROVE  There(e) \/ StillToCome(e) => There(e)' \/ StillToCome(e)'
  BY <1>1 DEF There, StillToCome, Cli!NoCommand, Cli!Range
<1>5. \A p \in DOMAIN disk : Explained(p)'
  BY <1>1, <1>4, StaysExplained DEF ScaffoldIInv
<1> QED
  BY <1>1, <1>3, <1>5 DEF ScaffoldIInv, Cli!ScaffoldAssumption

\* What a running command is at.
LEMMA AtFile ==
  ASSUME Cli!ScaffoldAssumption, ScaffoldIInv, command.at \in {"check", "write"}
  PROVE  /\ command.given \in Commands
         /\ command.files \in Seq(Cli!Range(Cli!Files(command.given))) /\ command.files # <<>>
         /\ Head(command.files) \in Cli!Range(Cli!Files(command.given))
         /\ Head(command.files) = <<Cli!Path, Cli!New>> /\ Fresh(Cli!New, command.given.name)
         /\ \A e \in Cli!Range(command.files) : e = <<Cli!Path, Cli!New>>
              \/ e \in Cli!Range(Tail(command.files))
         /\ Tail(command.files) \in Seq(Cli!Range(Cli!Files(command.given)))
<1> DEFINE s == command.files
           S == Cli!Range(Cli!Files(command.given))
<1>1. command.given \in Commands /\ s \in Seq(S) /\ s # <<>>
  BY DEF ScaffoldIInv, CommandTyped
<1>2. FilesFresh(command.given)
  BY <1>1, CommandFiles
<1> HIDE DEF s, S
<1>3. Head(s) \in S /\ Head(s) = s[1] /\ Tail(s) \in Seq(S)
  BY <1>1
<1>4. \A e \in Cli!Range(s) : e = Head(s) \/ e \in Cli!Range(Tail(s))
  <2>1. ASSUME NEW i \in 1..Len(s), i # 1
        PROVE  i - 1 \in DOMAIN Tail(s) /\ Tail(s)[i - 1] = s[i]
    BY <1>1, <2>1
  <2>2. DOMAIN s = 1..Len(s)
    BY <1>1
  <2> SUFFICES ASSUME NEW e \in Cli!Range(s), e # Head(s)
               PROVE  e \in Cli!Range(Tail(s))
    OBVIOUS
  <2>3. PICK i \in 1..Len(s) : e = s[i]
    BY <2>2 DEF Cli!Range
  <2>4. i - 1 \in DOMAIN Tail(s) /\ Tail(s)[i - 1] = e
    BY <1>3, <2>1, <2>3
  <2> QED
    BY <2>4 DEF Cli!Range
<1> QED
  BY <1>1, <1>2, <1>3, <1>4 DEF s, S, Cli!Path, Cli!New, FilesFresh

\* Going on to the next file leaves the command as it was but for that.
LEMMA NextFileTyped ==
  ASSUME Cli!ScaffoldAssumption, ScaffoldIInv, command.at \in {"check", "write"},
           command' = Cli!NextFile
  PROVE  /\ CommandTyped' /\ Noted'
         /\ command'.given = command.given /\ command'.files = Tail(command.files)
         /\ command'.at \in {"check", "last"}
<1>1. command = [given |-> command.given, files |-> command.files, at |-> command.at]
  BY DEF ScaffoldIInv, CommandTyped
<1>2. command' = [given |-> command.given, files |-> Tail(command.files),
                  at |-> IF Tail(command.files) = <<>> THEN "last" ELSE "check"]
  BY <1>1 DEF Cli!NextFile
<1> QED
  BY <1>2, AtFile DEF CommandTyped, Noted

\* A fresh file is clean.
LEMMA CleanFresh == ASSUME NEW x, NEW n, Fresh(x, n) PROVE Clean(x) = x
  BY DEF Fresh, IsContent, Clean

\* A cleaned file is still of its template.
LEMMA CleanOf == ASSUME NEW x, IsContent(x) PROVE Clean(x).of = x.of
  BY DEF IsContent, Clean

\* Looking whether a file is there keeps what always holds.
LEMMA CheckStep ==
  ASSUME Cli!ScaffoldAssumption, ScaffoldIInv, Cli!Check
  PROVE  ScaffoldIInv'
<1>0. PICK c, h : c = command.given /\ h = <<Cli!Path, Cli!New>>
  OBVIOUS
<1>1. /\ command.at = "check"
      /\ command' = IF Cli!MayWrite(Cli!Path \in DOMAIN disk, c.force)
                     THEN [command EXCEPT !.at = "write"] ELSE Cli!NextFile
      /\ mixed' = IF Cli!Foreign(Cli!Path) THEN mixed \cup {c.name, disk[Cli!Path].of} ELSE mixed
      /\ UNCHANGED <<disk, pinned, commands, breaks, edits, unfinished>>
  BY <1>0 DEF Cli!Check
<1>2. /\ c \in Commands /\ h \in Cli!Range(Cli!Files(c)) /\ Fresh(Cli!New, c.name)
           /\ mixed \subseteq mixed'
      /\ \A e \in Cli!Range(command.files) : e = h \/ e \in Cli!Range(Tail(command.files))
      /\ command.files # <<>> /\ command.files \in Seq(Cli!Range(Cli!Files(c)))
  BY <1>0, <1>1, AtFile
<1>3. Cli!Path \in DOMAIN disk => Clean(disk[Cli!Path]) = Cli!New
        \/ {c.name, disk[Cli!Path].of} \subseteq mixed'
  BY <1>1 DEF Cli!Foreign, Clean
<1>4. CASE Cli!MayWrite(Cli!Path \in DOMAIN disk, c.force)
  <2>1. command = [given |-> command.given, files |-> command.files, at |-> command.at]
    BY DEF ScaffoldIInv, CommandTyped
  <2>2. command' = [given |-> c, files |-> command.files, at |-> "write"]
    BY <1>0, <1>1, <1>4, <2>1
  <2>3. CommandTyped'
    BY <1>2, <2>2 DEF CommandTyped
  <2>4. Noted'
    BY <1>0, <1>1, <1>3, <2>2 DEF Noted, Cli!Path, Cli!New
  <2>5. ASSUME NEW e
        PROVE  (There(e) <=> There(e)') /\ (StillToCome(e) <=> StillToCome(e)')
    BY <1>1, <2>2 DEF There, StillToCome
  <2>6. \A p \in DOMAIN disk : Explained(p)'
    BY <1>1, <1>2, <2>5, StaysExplained DEF ScaffoldIInv
  <2> QED
    BY <1>0, <1>1, <1>2, <2>2, <2>3, <2>4, <2>5, <2>6 DEF ScaffoldIInv, DiskTyped
<1>5. CASE ~Cli!MayWrite(Cli!Path \in DOMAIN disk, c.force)
  <2>1. Cli!Path \in DOMAIN disk /\ command' = Cli!NextFile
    BY <1>1, <1>5 DEF Cli!MayWrite
  <2>2. /\ CommandTyped' /\ Noted'
        /\ command'.given = c /\ command'.files = Tail(command.files)
    BY <1>0, <1>1, <2>1, NextFileTyped
  <2>3. There(h) \/ c.name \in mixed'
    BY <1>0, <1>3, <2>1 DEF There
  <2>4. ASSUME NEW e
        PROVE  /\ There(e) <=> There(e)'
               /\ StillToCome(e) => StillToCome(e)' \/ e = h
    BY <1>1, <1>2, <2>2 DEF There, StillToCome
  <2>5. ASSUME NEW b \in Commands, NEW e \in Cli!Range(Cli!Files(b))
        PROVE  b.name \in mixed' \/ (There(e) \/ StillToCome(e) => There(e)' \/ StillToCome(e)')
    <3>1. e = h => b.name = c.name
      BY <1>0, <1>2, CommandFiles DEF FilesFresh, Fresh
    <3> QED
      BY <2>3, <2>4, <3>1
  <2>6. \A p \in DOMAIN disk : Explained(p)'
    BY <1>1, <1>2, <2>5, StaysExplained DEF ScaffoldIInv
  <2>7. c.name \in mixed' \/ \A e \in Cli!Range(Cli!Files(c)) : There(e)'
          \/ e \in Cli!Range(Tail(command.files))
    BY <1>0, <1>1, <1>2, <2>3, <2>4 DEF ScaffoldIInv
  <2> QED
    BY <1>0, <1>1, <2>2, <2>6, <2>7 DEF ScaffoldIInv, DiskTyped
<1> QED
  BY <1>4, <1>5

\* What is put where the command is leaves the files of others as they are,
\* but those whose names are noted.
LEMMA PutKeeps ==
  ASSUME Cli!ScaffoldAssumption, ScaffoldIInv, command.at = "write",
         NEW content, IsContent(content), content.of = Cli!New.of,
         disk' = [p \in DOMAIN disk \cup {Cli!Path} |-> IF p = Cli!Path THEN content ELSE disk[p]],
         mixed' = mixed, NEW b \in Commands, NEW e \in Cli!Range(Cli!Files(b)), There(e)
  PROVE  There(e)' \/ e = <<Cli!Path, Cli!New>> \/ b.name \in mixed
<1>1. CASE e[1] # Cli!Path
  BY <1>1 DEF There
<1>2. CASE e[1] = Cli!Path
  <2>1. Clean(disk[Cli!Path]) = e[2] /\ Cli!Path \in DOMAIN disk
    BY <1>2 DEF There
  <2>2. e = <<e[1], e[2]>> /\ e[2].of = b.name
    BY CommandFiles DEF FilesFresh, Fresh
  <2>3. CASE Clean(disk[Cli!Path]) = Cli!New
    BY <1>2, <2>1, <2>2, <2>3
  <2>4. CASE {command.given.name, disk[Cli!Path].of} \subseteq mixed
    BY <2>1, <2>2, <2>4, CleanOf DEF ScaffoldIInv, DiskTyped
  <2> QED
    BY <2>1, <2>3, <2>4 DEF ScaffoldIInv, Noted
<1> QED
  BY <1>1, <1>2

\* Writing a file keeps what always holds.
LEMMA WriteStep ==
  ASSUME Cli!ScaffoldAssumption, ScaffoldIInv, Cli!Write
  PROVE  ScaffoldIInv'
<1>0. PICK c, h : c = command.given /\ h = <<Cli!Path, Cli!New>>
  OBVIOUS
<1>1. /\ command.at = "write" /\ command' = Cli!NextFile
      /\ disk' = [p \in DOMAIN disk \cup {Cli!Path} |-> IF p = Cli!Path THEN Cli!New ELSE disk[p]]
      /\ pinned' \in {pinned, Nothing}
      /\ UNCHANGED <<commands, breaks, edits, unfinished, mixed>>
  BY DEF Cli!Write, Cli!Put
<1>2. /\ c \in Commands /\ h \in Cli!Range(Cli!Files(c)) /\ Fresh(Cli!New, c.name)
      /\ \A e \in Cli!Range(command.files) : e = h \/ e \in Cli!Range(Tail(command.files))
  BY <1>0, <1>1, AtFile
<1>3. /\ CommandTyped' /\ Noted'
      /\ command'.given = c /\ command'.files = Tail(command.files)
  BY <1>0, <1>1, NextFileTyped
<1>4. DiskTyped'
  BY <1>0, <1>1, <1>2 DEF ScaffoldIInv, DiskTyped, Fresh
<1>5. There(h)'
  BY <1>0, <1>1, <1>2, CleanFresh DEF There
<1>6. ASSUME NEW b \in Commands, NEW e \in Cli!Range(Cli!Files(b)), There(e)
      PROVE  There(e)' \/ b.name \in mixed
  BY <1>0, <1>1, <1>2, <1>5, <1>6, PutKeeps DEF Fresh
<1>7. ASSUME NEW e, StillToCome(e)
      PROVE  StillToCome(e)' \/ There(e)'
  BY <1>1, <1>2, <1>3, <1>5, <1>7 DEF StillToCome
<1>8. c.name \in mixed \/ \A e \in Cli!Range(Cli!Files(c)) : There(e)'
        \/ e \in Cli!Range(command'.files)
  BY <1>0, <1>1, <1>2, <1>3, <1>5, <1>6 DEF ScaffoldIInv
<1>9. ASSUME NEW p \in DOMAIN disk'
      PROVE  Explained(p)'
  <2>1. CASE p = Cli!Path
    <3>1. disk'[p].of = c.name
      BY <1>0, <1>1, <1>2, <2>1 DEF Fresh
    <3>2. \E e \in Cli!Range(Cli!Files(c)) : e[1] = p
      BY <1>0, <1>2, <2>1
    <3>3. c.name \in mixed' \/ \A e \in Cli!Range(Cli!Files(c)) : There(e)' \/ StillToCome(e)'
      BY <1>1, <1>8 DEF StillToCome
    <3> QED
      BY <1>2, <3>1, <3>2, <3>3, NewlyExplained
  <2>2. CASE p # Cli!Path
    <3>1. p \in DOMAIN disk /\ disk'[p] = disk[p] /\ Explained(p)
      BY <1>1, <2>2 DEF ScaffoldIInv
    <3> QED
      BY <1>1, <1>6, <1>7, <3>1, StaysExplained
  <2> QED
    BY <2>1, <2>2
<1> QED
  BY <1>1, <1>3, <1>4, <1>8, <1>9 DEF ScaffoldIInv

\* The last step of a command keeps what always holds.
LEMMA LastSteps ==
  ASSUME Cli!ScaffoldAssumption, ScaffoldIInv, Cli!LastStep
  PROVE  ScaffoldIInv'
<1>0. PICK c : c = command.given
  OBVIOUS
<1>1. /\ command.at = "last" /\ command' = Cli!NoCommand
      /\ unfinished' = unfinished \ {Plainly(c)}
      /\ pinned' = pinned \/ pinned' = Cli!resolveLocalPack(c.pack)
      /\ UNCHANGED <<disk, commands, breaks, edits, mixed>>
  BY <1>0 DEF Cli!LastStep, Plainly
<1>2. pinned' \in Cli!Range(Packs) \cup {Nothing}
  <2>1. Packs = <<>> \/ Packs[1] \in Cli!Range(Packs)
    BY DEF Cli!ScaffoldAssumption, Cli!Range
  <2> QED
    BY <1>1, <2>1 DEF Cli!resolveLocalPack, ScaffoldIInv
<1>3. c \in Commands /\ command.files = <<>>
  BY <1>0, <1>1 DEF ScaffoldIInv, CommandTyped
<1>4. c.name \in mixed \/ \A e \in Cli!Range(Cli!Files(c)) : There(e)
  BY <1>0, <1>1, <1>3 DEF ScaffoldIInv, Cli!Range
<1>5. ASSUME NEW b \in Commands, NEW e \in Cli!Range(Cli!Files(b)), b.name \notin mixed'
      PROVE  There(e) \/ StillToCome(e) => There(e)' \/ StillToCome(e)'
  <2>1. There(e) => There(e)'
    BY <1>1 DEF There
  <2>2. ASSUME NEW u \in unfinished, e \in Cli!Range(Cli!Files(u)), u = Plainly(c)
        PROVE  There(e)
    <3>1. e \in Cli!Range(Cli!Files(c)) /\ b.name = c.name
      BY <1>3, <2>2, PlainlySame, CommandFiles DEF FilesFresh, Fresh
    <3> QED
      BY <1>1, <1>4, <1>5, <3>1
  <2>3. StillToCome(e) => There(e) \/ \E u \in unfinished : e \in Cli!Range(Cli!Files(u))
          /\ u # Plainly(c)
    BY <1>3, <2>2 DEF StillToCome, Cli!Range
  <2>4. (\E u \in unfinished : e \in Cli!Range(Cli!Files(u)) /\ u # Plainly(c)) => StillToCome(e)'
    BY <1>1 DEF StillToCome
  <2> QED
    BY <2>1, <2>3, <2>4
<1>6. \A p \in DOMAIN disk : Explained(p)'
  BY <1>1, <1>5, StaysExplained DEF ScaffoldIInv
<1>7. CommandTyped' /\ Noted' /\ DiskTyped' /\ command'.at = "none"
  BY <1>1 DEF CommandTyped, Noted, Cli!NoCommand, DiskTyped, ScaffoldIInv
<1> QED
  BY <1>1, <1>2, <1>6, <1>7 DEF ScaffoldIInv

\* A command that is broken off leaves the rest of its files to come.
LEMMA BrokenOff ==
  ASSUME Cli!ScaffoldAssumption, ScaffoldIInv,
         NEW c \in Commands, c = command.given, command.at # "none",
         unfinished' = unfinished \cup {Plainly(c)}, NEW e, StillToCome(e)
  PROVE  StillToCome(e)'
<1>1. command.files \in Seq(Cli!Range(Cli!Files(c)))
  BY DEF ScaffoldIInv, CommandTyped
<1>2. e \in Cli!Range(command.files) => e \in Cli!Range(Cli!Files(Plainly(c)))
  <2>1. \A i \in DOMAIN command.files : command.files[i] \in Cli!Range(Cli!Files(c))
    BY <1>1
  <2> QED
    BY <2>1, PlainlySame DEF Cli!Range
<1> QED
  BY <1>2 DEF StillToCome

\* A command that breaks off keeps what always holds.
LEMMA BreakStep ==
  ASSUME Cli!ScaffoldAssumption, ScaffoldIInv, Cli!Break
  PROVE  ScaffoldIInv'
<1>0. PICK c, h, torn : /\ c = command.given /\ h = <<Cli!Path, Cli!New>>
                        /\ torn = [Cli!New EXCEPT !.state = "torn"]
  OBVIOUS
<1>1. /\ command.at # "none" /\ breaks < MaxBreaks /\ breaks' = breaks + 1
      /\ unfinished' = unfinished \cup {Plainly(c)}
      /\ \/ UNCHANGED disk
         \/ /\ command.at = "write"
            /\ disk' = [p \in DOMAIN disk \cup {Cli!Path} |-> IF p = Cli!Path THEN torn ELSE disk[p]]
      /\ command' = Cli!NoCommand
      /\ UNCHANGED <<pinned, commands, edits, mixed>>
  BY <1>0 DEF Cli!Break, Plainly, Cli!Put
<1>2. c \in Commands /\ Plainly(c) \in unfinished'
  BY <1>0, <1>1 DEF ScaffoldIInv, CommandTyped
<1>3. ASSUME NEW e
      PROVE  StillToCome(e) => StillToCome(e)'
  BY <1>0, <1>1, <1>2, BrokenOff
<1>4. \A e \in Cli!Range(Cli!Files(c)) : StillToCome(e)'
  BY <1>2, PlainlySame DEF StillToCome
<1>5. CommandTyped' /\ Noted' /\ command'.at = "none"
  BY <1>1 DEF CommandTyped, Noted, Cli!NoCommand
<1>6. breaks' \in 0..MaxBreaks
  BY <1>1 DEF ScaffoldIInv, Cli!ScaffoldAssumption
<1>7. unfinished' \subseteq {Plainly(b) : b \in Commands}
  BY <1>1, <1>2 DEF ScaffoldIInv
<1>8. CASE UNCHANGED disk
  <2>1. ASSUME NEW e
        PROVE  There(e) => There(e)'
    BY <1>8 DEF There
  <2>2. \A p \in DOMAIN disk : Explained(p)'
    BY <1>1, <1>3, <1>8, <2>1, StaysExplained DEF ScaffoldIInv
  <2> QED
    BY <1>1, <1>5, <1>6, <1>7, <1>8, <2>2 DEF ScaffoldIInv, DiskTyped
<1>9. CASE /\ command.at = "write"
           /\ disk' = [p \in DOMAIN disk \cup {Cli!Path} |-> IF p = Cli!Path THEN torn ELSE disk[p]]
  <2>1. h \in Cli!Range(Cli!Files(c)) /\ Fresh(Cli!New, c.name)
    BY <1>0, <1>9, AtFile
  <2>2. IsContent(torn) /\ torn.of = Cli!New.of /\ torn.of = c.name /\ torn.state = "torn"
    BY <1>0, <2>1 DEF Fresh, IsContent
  <2>3. DiskTyped'
    BY <1>9, <2>2 DEF ScaffoldIInv, DiskTyped
  <2>4. ASSUME NEW b \in Commands, NEW e \in Cli!Range(Cli!Files(b)), There(e)
        PROVE  There(e)' \/ StillToCome(e)' \/ b.name \in mixed
    <3>1. There(e)' \/ e = h \/ b.name \in mixed
      <4>1. command.at = "write" /\ mixed' = mixed /\ IsContent(torn) /\ torn.of = Cli!New.of
            /\ disk' = [p \in DOMAIN disk \cup {Cli!Path} |-> IF p = Cli!Path THEN torn ELSE disk[p]]
        BY <1>1, <1>9, <2>2
      <4>2. There(e)' \/ e = <<Cli!Path, Cli!New>> \/ b.name \in mixed
        BY <2>4, <4>1, PutKeeps
      <4> QED
        BY <1>0, <4>2
    <3>2. e = h => StillToCome(e)'
      <4>1. StillToCome(h)'
        BY <1>4, <2>1
      <4> QED
        BY <4>1 DEF StillToCome
    <3> QED
      BY <3>1, <3>2
  <2>5. ASSUME NEW p \in DOMAIN disk'
        PROVE  Explained(p)'
    <3>1. CASE p = Cli!Path
      <4>1. disk'[p].of = c.name /\ \E e \in Cli!Range(Cli!Files(c)) : e[1] = p
        BY <1>0, <1>9, <2>1, <2>2, <3>1
      <4> QED
        BY <1>2, <1>4, <4>1, NewlyExplained
    <3>2. CASE p # Cli!Path
      <4>1. p \in DOMAIN disk /\ disk'[p] = disk[p] /\ Explained(p)
        BY <1>9, <3>2 DEF ScaffoldIInv
      <4> QED
        BY <1>1, <1>3, <2>4, <4>1, StaysExplained
    <3> QED
      BY <3>1, <3>2
  <2> QED
    BY <1>1, <1>5, <1>6, <1>7, <2>3, <2>5 DEF ScaffoldIInv
<1> QED
  BY <1>1, <1>8, <1>9

\* A package.json that cannot be read keeps what always holds.
LEMMA PinStep ==
  ASSUME Cli!ScaffoldAssumption, ScaffoldIInv, Cli!PinFails
  PROVE  ScaffoldIInv'
<1>0. PICK c : c = command.given
  OBVIOUS
<1>1. /\ command.at = "last" /\ command' = Cli!NoCommand
      /\ unfinished' = unfinished \cup {Plainly(c)}
      /\ UNCHANGED <<disk, pinned, commands, breaks, edits, mixed>>
  BY <1>0 DEF Cli!PinFails, Plainly
<1>2. c \in Commands
  BY <1>0, <1>1 DEF ScaffoldIInv, CommandTyped
<1>3. ASSUME NEW e
      PROVE  (StillToCome(e) => StillToCome(e)') /\ (There(e) => There(e)')
  BY <1>0, <1>1, <1>2, BrokenOff DEF There
<1>4. CommandTyped' /\ Noted' /\ DiskTyped' /\ command'.at = "none"
  BY <1>1 DEF CommandTyped, Noted, Cli!NoCommand, DiskTyped, ScaffoldIInv
<1>5. \A p \in DOMAIN disk : Explained(p)'
  BY <1>1, <1>3, StaysExplained DEF ScaffoldIInv
<1> QED
  BY <1>1, <1>2, <1>4, <1>5 DEF ScaffoldIInv

\* A programmer's edit keeps what always holds.
LEMMA EditStep ==
  ASSUME Cli!ScaffoldAssumption, ScaffoldIInv, NEW q \in DOMAIN disk, Cli!Edit(q)
  PROVE  ScaffoldIInv'
<1>1. /\ edits < MaxEdits /\ edits' = edits + 1 /\ disk[q].state = "whole"
      /\ disk' = [disk EXCEPT ![q].state = "edited"]
      /\ UNCHANGED <<pinned, command, commands, breaks, unfinished, mixed>>
  BY DEF Cli!Edit
<1>2. IsContent(disk[q])
  BY DEF ScaffoldIInv, DiskTyped
<1>3. /\ DOMAIN disk' = DOMAIN disk /\ \A p \in DOMAIN disk \ {q} : disk'[p] = disk[p]
      /\ disk'[q] = [disk[q] EXCEPT !.state = "edited"]
  BY <1>1
<1>4. IsContent(disk'[q]) /\ disk'[q].state = "edited" /\ disk'[q].of = disk[q].of
      /\ Clean(disk'[q]) = Clean(disk[q])
  BY <1>1, <1>2, <1>3 DEF IsContent, Clean
<1>5. DiskTyped'
  BY <1>3, <1>4 DEF ScaffoldIInv, DiskTyped
<1>6. \A p \in DOMAIN disk : Clean(disk'[p]) = Clean(disk[p]) /\ disk'[p].of = disk[p].of
  BY <1>3, <1>4
<1>7. CommandTyped' /\ Noted'
  BY <1>1, <1>3, <1>6 DEF ScaffoldIInv, CommandTyped, Noted, Cli!Path, Cli!New
<1>8. ASSUME NEW e
      PROVE  (StillToCome(e) <=> StillToCome(e)') /\ (There(e) <=> There(e)')
  BY <1>1, <1>3, <1>6 DEF There, StillToCome
<1>9. \A p \in DOMAIN disk : Explained(p)'
  BY <1>1, <1>3, <1>6, <1>8, StaysExplained DEF ScaffoldIInv
<1>10. edits' \in 0..MaxEdits
  BY <1>1 DEF ScaffoldIInv, Cli!ScaffoldAssumption
<1> QED
  BY <1>1, <1>3, <1>5, <1>7, <1>8, <1>9, <1>10 DEF ScaffoldIInv

\* Every step of the CLI keeps what always holds.
LEMMA ScaffoldKeeps ==
  ASSUME Cli!ScaffoldAssumption, ScaffoldIInv, [Cli!ScaffoldNext]_Cli!scaffoldVars
  PROVE  ScaffoldIInv'
<1>1. CASE UNCHANGED Cli!scaffoldVars
  BY <1>1
  DEF Cli!scaffoldVars, ScaffoldIInv, DiskTyped, CommandTyped, Noted, Cli!Path, Cli!New, Explained,
      There, StillToCome
<1>2. CASE Cli!ScaffoldNext
  BY <1>2, RunStep, CheckStep, WriteStep, LastSteps, BreakStep, PinStep, EditStep
  DEF Cli!ScaffoldNext
<1> QED
  BY <1>1, <1>2

\* What every file of a command finds when all of them are there.
LEMMA FilesResolve ==
  ASSUME Cli!ScaffoldAssumption, NEW c \in Commands, TakesMade(Cli!Files(c)),
         \A e \in Cli!Range(Cli!Files(c)) : There(e),
         NEW p \in DOMAIN disk, NEW e \in Cli!Range(Cli!Files(c)), e[1] = p, DiskTyped
  PROVE  Cli!Resolves(p) \/ Cli!Alone(p)
<1>1. \A q \in DOMAIN disk : /\ Clean(disk[q]).offers = disk[q].offers
        /\ Clean(disk[q]).again = disk[q].again
                             /\ Clean(disk[q]).takes = disk[q].takes /\ Clean(disk[q]).of = disk[q].of
  BY DEF DiskTyped, IsContent, Clean
<1>2. \A f \in Cli!Range(Cli!Files(c)) : /\ f[1] \in DOMAIN disk /\ disk[f[1]].offers = f[2].offers
                                 /\ disk[f[1]].again = f[2].again /\ disk[f[1]].takes = f[2].takes
                                 /\ disk[f[1]].of = f[2].of
  BY <1>1 DEF There
<1>3. SUFFICES ASSUME ~Cli!Alone(p)
               PROVE  Cli!Resolves(p)
  OBVIOUS
<1>4. disk[p].again \subseteq DOMAIN disk
  BY <1>2, <1>3 DEF TakesMade
<1>5. ASSUME NEW t \in disk[p].takes, ~Cli!Misspelt(p, t)
      PROVE  t[1] \in DOMAIN disk /\ (t[2] \in Cli!Offers(t[1]) \/ Cli!CutShort(t[1]))
  <2>1. Offered(Cli!Files(c), t)
    BY <1>2, <1>3, <1>5 DEF TakesMade, Renamed, Cli!Misspelt
  <2>2. PICK f \in Cli!Range(Cli!Files(c)) :
             /\ f[1] = t[1]
             /\ \/ t[2] \in f[2].offers
                \/ \E g \in Cli!Range(Cli!Files(c)) : g[1] \in f[2].again /\ t[2] \in g[2].offers
    BY <2>1 DEF Offered
  <2>3. t[1] \in DOMAIN disk
    BY <1>2, <2>2
  <2>4. \A q \in Cli!Through(t[1]) : t[2] \in disk[q].offers
          => t[2] \in Cli!Offers(t[1]) \/ Cli!CutShort(t[1])
    BY DEF Cli!Offers, Cli!CutShort
  <2>5. \E q \in Cli!Through(t[1]) : t[2] \in disk[q].offers
    BY <1>2, <2>2 DEF Cli!Through
  <2> QED
    BY <2>3, <2>4, <2>5
<1> QED
  BY <1>4, <1>5 DEF Cli!Resolves

\* What always holds shows the types and that imports resolve.
LEMMA ScaffoldImports ==
  ASSUME Cli!ScaffoldAssumption, ScaffoldIInv
  PROVE  Cli!TypeOK /\ Cli!ImportsResolve
<1>1. Cli!TypeOK
  BY DEF ScaffoldIInv, DiskTyped, CommandTyped, Cli!TypeOK
<1>2. ASSUME command = Cli!NoCommand, NEW p \in DOMAIN disk,
             disk[p].of \notin mixed, \A u \in unfinished : u.name # disk[p].of
      PROVE  Cli!Resolves(p) \/ Cli!Alone(p)
  <2>1. PICK c \in Commands :
             /\ c.name = disk[p].of
             /\ \E e \in Cli!Range(Cli!Files(c)) : e[1] = p
             /\ \A e \in Cli!Range(Cli!Files(c)) : There(e) \/ StillToCome(e)
    BY <1>2 DEF ScaffoldIInv, Explained
  <2>2. PICK e \in Cli!Range(Cli!Files(c)) : e[1] = p
    BY <2>1
  <2>3. ASSUME NEW f \in Cli!Range(Cli!Files(c)), StillToCome(f)
        PROVE  FALSE
    <3>1. PICK u \in unfinished : f \in Cli!Range(Cli!Files(u))
      BY <1>2, <2>3 DEF StillToCome, Cli!NoCommand, Cli!Range
    <3>2. PICK b \in Commands : u = Plainly(b)
      BY <3>1 DEF ScaffoldIInv
    <3>3. f[2].of = b.name /\ u.name = b.name
      BY <3>1, <3>2, PlainlySame DEF FilesFresh, Fresh
    <3>4. f[2].of = c.name
      BY CommandFiles DEF FilesFresh, Fresh
    <3> QED
      BY <1>2, <2>1, <3>1, <3>3, <3>4
  <2>4. \A f \in Cli!Range(Cli!Files(c)) : There(f)
    BY <2>1, <2>3
  <2>5. TakesMade(Cli!Files(c))
    BY <1>2, <2>1, CommandTakes
  <2> QED
    BY <2>2, <2>4, <2>5, FilesResolve DEF ScaffoldIInv
<1>3. Cli!ImportsResolve
  BY <1>2 DEF Cli!ImportsResolve
<1> QED
  BY <1>1, <1>3

\* The types of the CLI, and that imports resolve, always hold.
LEMMA ScaffoldLife == ASSUME Cli!ScaffoldAssumption
  PROVE Cli!ScaffoldSpec => [](Cli!TypeOK /\ Cli!ImportsResolve)
<1>1. Cli!ScaffoldInit => ScaffoldIInv
  BY ScaffoldStart
<1>2. ScaffoldIInv /\ [Cli!ScaffoldNext]_Cli!scaffoldVars => ScaffoldIInv'
  BY ScaffoldKeeps
<1>3. ScaffoldIInv => Cli!TypeOK /\ Cli!ImportsResolve
  BY ScaffoldImports
<1> QED
  BY <1>1, <1>2, <1>3, PTL DEF Cli!ScaffoldSpec

\* A behaviour of the suite is one of each of its parts.
LEMMA FrameworkParts ==
  SuiteSpec => /\ Spec /\ Tagging!Spec /\ Workers!OffloadSpec /\ App!AppSpec
               /\ Manager!PluginSpec /\ Cli!ScaffoldSpec /\ Dev!DevSpec
<1>1. SuiteInit => /\ Init /\ Tagging!Init /\ Workers!OffloadInit /\ App!AppInit
                   /\ Manager!PluginInit /\ Cli!ScaffoldInit /\ Dev!DevInit
  BY DEF SuiteInit
<1>2. [SuiteNext]_SuiteVars =>
         /\ [Next]_vars
         /\ [Tagging!Next]_(Tagging!vars)
         /\ [Workers!OffloadNext]_(Workers!offloadVars)
         /\ [App!AppNext]_(App!appVars)
         /\ [Manager!PluginNext]_(Manager!pluginVars)
         /\ [Cli!ScaffoldNext]_(Cli!scaffoldVars)
         /\ [Dev!DevNext]_(Dev!devVars)
  <2>1. /\ taggedVars = Tagging!vars /\ offloadVars = Workers!offloadVars /\ appVars = App!appVars
        /\ pluginVars = Manager!pluginVars /\ cliVars = Cli!scaffoldVars /\ devVars = Dev!devVars
        /\ taggedVars' = Tagging!vars' /\ offloadVars' = Workers!offloadVars'
        /\ appVars' = App!appVars' /\ pluginVars' = Manager!pluginVars'
        /\ cliVars' = Cli!scaffoldVars' /\ devVars' = Dev!devVars'
    BY DEF taggedVars, offloadVars, appVars, pluginVars, cliVars, devVars, Tagging!vars,
           Workers!offloadVars, App!appVars, Manager!pluginVars, Cli!scaffoldVars, Dev!devVars
  <2>2. SecondLevelSteps => Next /\ UNCHANGED <<taggedVars, offloadVars, appVars, pluginVars, cliVars, devVars>>
    BY DEF SecondLevelSteps, Turn
  <2>3. TaggedSteps => Tagging!Next /\ UNCHANGED <<vars, offloadVars, appVars, pluginVars, cliVars, devVars>>
    BY DEF TaggedSteps, Turn
  <2>4. OffloadSteps => Workers!OffloadNext /\ UNCHANGED <<vars, taggedVars, appVars, pluginVars, cliVars, devVars>>
    BY DEF OffloadSteps, Turn
  <2>5. ApplicationSteps => App!AppNext /\ UNCHANGED <<vars, taggedVars, offloadVars, pluginVars, cliVars, devVars>>
    BY DEF ApplicationSteps, Turn
  <2>6. PluginSteps => Manager!PluginNext /\ UNCHANGED <<vars, taggedVars, offloadVars, appVars, cliVars, devVars>>
    BY DEF PluginSteps, Turn
  <2>7. ScaffoldSteps => Cli!ScaffoldNext /\ UNCHANGED <<vars, taggedVars, offloadVars, appVars, pluginVars, devVars>>
    BY DEF ScaffoldSteps, Turn
  <2>8. DevSteps => Dev!DevNext /\ UNCHANGED <<vars, taggedVars, offloadVars, appVars, pluginVars, cliVars>>
    BY DEF DevSteps, Turn
  <2>9. UNCHANGED SuiteVars => UNCHANGED <<vars, taggedVars, offloadVars, appVars, pluginVars, cliVars, devVars>>
    BY DEF SuiteVars
  <2> QED
    BY ONLY <2>1, <2>2, <2>3, <2>4, <2>5, <2>6, <2>7, <2>8, <2>9 DEF SuiteNext
<1> QED
  BY <1>1, <1>2, PTL DEF SuiteSpec, Spec, Tagging!Spec, Workers!OffloadSpec,
                              App!AppSpec, Manager!PluginSpec, Cli!ScaffoldSpec, Dev!DevSpec

\* The tagged cache of the suite: a value is no older than the last invalidation
\* of its tags, whatever the number of keys, callers and tags.
THEOREM TaggedValuesAreFresh == SuiteSpec => []TaggedIsFresh
<1>1. Tagging!Spec => []Tagging!TaggedIsFresh
  BY TaggedCacheTaggedIsFresh, FrameworkAssumption DEF FrameworkAssumption
<1>2. Tagging!TaggedIsFresh => TaggedIsFresh
  BY DEF TaggedIsFresh
<1> QED
  BY <1>1, <1>2, FrameworkParts, PTL

\* A saved file is with the watcher, queued, being built or served; what a
\* worker emits settles its call and stops its timer, unless that fired first:
\* for any number of saves, crashes and calls.
THEOREM NothingIsEverForgotten == SuiteSpec => []NothingIsForgotten
<1>1. Dev!DevSpec => [](Dev!TypeOK /\ Dev!ChangesAreServed)
  BY DevServerServes, FrameworkAssumption DEF FrameworkAssumption
<1>2. (Dev!TypeOK /\ Dev!ChangesAreServed) /\ (Workers!TypeOK /\ Workers!OffloadSettles)
        => NothingIsForgotten
  BY DEF NothingIsForgotten
<1> QED
  BY <1>1, <1>2, OffloadLife, FrameworkParts, PTL

\* Each instance of a plugin runs its hooks once and in order, and initialised
\* means ready, for any number of plugins and of calls that do not overlap.
THEOREM PluginsRunTheirHooks == SuiteSpec => []PluginsLive
<1>1. Manager!PluginSpec => []Manager!PluginsLive
  BY PluginLife, FrameworkAssumption DEF FrameworkAssumption
<1>2. Manager!PluginsLive => PluginsLive
  BY DEF PluginsLive
<1> QED
  BY <1>1, <1>2, FrameworkParts, PTL

\* The enhancers of a handler guard one route and the registry has those of the
\* others, for any program and any number of contexts.
THEOREM HandlersKeepTheirGuards == SuiteSpec => []EnhancersTakenOnce
<1>1. App!AppSpec => [](App!TypeOK /\ App!EnhancersTakenOnce /\ App!ScopesHold)
  BY ApplicationLife, FrameworkAssumption DEF FrameworkAssumption
<1>2. App!TypeOK /\ App!EnhancersTakenOnce /\ App!ScopesHold => EnhancersTakenOnce
  BY DEF EnhancersTakenOnce
<1> QED
  BY <1>1, <1>2, FrameworkParts, PTL

\* A token has one instance in a container and what a request made is its own,
\* for any graph of providers, whatever is asked, from where and whatever throws.
THEOREM RequestsDoNotShare == SuiteSpec => []ScopesHold
<1>1. App!AppSpec => [](App!TypeOK /\ App!EnhancersTakenOnce /\ App!ScopesHold)
  BY ApplicationLife, FrameworkAssumption DEF FrameworkAssumption
<1>2. App!TypeOK /\ App!EnhancersTakenOnce /\ App!ScopesHold => ScopesHold
  BY DEF ScopesHold
<1> QED
  BY <1>1, <1>2, FrameworkParts, PTL

\* Every generated file finds what it imports, whatever was generated before,
\* edited, broken off and run again, for any commands, names and packs: but for a
\* command that was broken off and not repeated, files of different commands for
\* one name, what a file that was cut short should offer, and crud's entity when
\* the name loses a dash.
THEOREM GeneratedFilesResolve == SuiteSpec => []ImportsResolve
<1>1. Cli!ScaffoldSpec => [](Cli!TypeOK /\ Cli!ImportsResolve)
  BY ScaffoldLife, FrameworkAssumption DEF FrameworkAssumption
<1>2. Cli!TypeOK /\ Cli!ImportsResolve => ImportsResolve
  BY DEF ImportsResolve
<1> QED
  BY <1>1, <1>2, FrameworkParts, PTL

\* Tables, entries, workers, containers, plugins, files and the dev server are of
\* their kinds, whichever part takes the steps.
THEOREM FrameworkTypesOK == SuiteSpec => []TypesOK
<1>1. Tagging!Spec => []Tagging!TypeOK
  BY TaggedCacheTypeOK, FrameworkAssumption DEF FrameworkAssumption
<1>2. App!AppSpec => [](App!TypeOK /\ App!EnhancersTakenOnce /\ App!ScopesHold)
  BY ApplicationLife, FrameworkAssumption DEF FrameworkAssumption
<1>3. Manager!PluginSpec => []Manager!TypeOK
  BY PluginTypes, FrameworkAssumption DEF FrameworkAssumption
<1>4. Cli!ScaffoldSpec => [](Cli!TypeOK /\ Cli!ImportsResolve)
  BY ScaffoldLife, FrameworkAssumption DEF FrameworkAssumption
<1>5. Dev!DevSpec => [](Dev!TypeOK /\ Dev!ChangesAreServed)
  BY DevServerServes, FrameworkAssumption DEF FrameworkAssumption
<1>6. TypeOK /\ Tagging!TypeOK /\ Workers!TypeOK /\ App!TypeOK /\ Manager!TypeOK /\ Cli!TypeOK /\ Dev!TypeOK
        => TypesOK
  BY DEF TypesOK
<1> QED
  BY <1>1, <1>2, <1>3, <1>4, <1>5, <1>6, SecondLevelCacheTypeOK, OffloadLife, FrameworkParts,
     PTL

=============================================================================
