-------------------------- MODULE EntitySuiteProofs --------------------------
(***************************************************************************)
(* The properties of EntityRepository and of the components of             *)
(* EntitySuite, for every value of their constants.                        *)
(***************************************************************************)
EXTENDS EntitySuite, Sequences, FiniteSetTheorems, FunctionTheorems, TLAPS

-----------------------------------------------------------------------------
(* What a write does to a table.                                           *)

Unique(rs) == \A r, s \in rs : r.id = s.id => r = s

\* A row put in its place is there, under its key, and every other key has the
\* rows it had.
LEMMA PlaceKeeps ==
  ASSUME NEW rs \in SUBSET Rows, NEW k \in Keys, NEW c \in Callers
  PROVE  /\ Place(rs, k, c) \in SUBSET Rows
         /\ [id |-> k, by |-> c] \in WithId(Place(rs, k, c), k)
         /\ \A j \in Keys : WithId(rs, j) # {} => WithId(Place(rs, k, c), j) # {}
<1> DEFINE new == [id |-> k, by |-> c]
           old == CHOOSE r \in WithId(rs, k) : TRUE
<1>1. new \in Rows /\ new.id = k
  BY DEF Rows
<1>2. new \in Place(rs, k, c) /\ Place(rs, k, c) \subseteq rs \cup {new}
  BY DEF Place
<1>3. new \in WithId(Place(rs, k, c), k)
  BY <1>1, <1>2 DEF WithId
<1>4. ASSUME NEW j \in Keys, WithId(rs, j) # {}, j # k
      PROVE  WithId(Place(rs, k, c), j) # {}
  <2>1. PICK r \in rs : r.id = j
    BY <1>4 DEF WithId
  <2>2. WithId(rs, k) # {} => old.id = k
    BY DEF WithId
  <2>3. r \in Place(rs, k, c)
    BY <1>4, <2>1, <2>2 DEF Place
  <2> QED
    BY <2>1, <2>3 DEF WithId
<1> QED
  BY <1>1, <1>2, <1>3, <1>4

\* A row put in its place leaves the keys of a table unique.
LEMMA PlaceUnique ==
  ASSUME NEW rs \in SUBSET Rows, NEW k \in Keys, NEW c \in Callers, Unique(rs)
  PROVE  Unique(Place(rs, k, c))
<1> DEFINE new == [id |-> k, by |-> c]
           old == CHOOSE r \in WithId(rs, k) : TRUE
<1>1. new.id = k
  OBVIOUS
<1>2. \A r \in Place(rs, k, c) \ {new} : r \in rs /\ r.id # k
  <2>1. CASE WithId(rs, k) = {}
    BY <2>1 DEF Place, WithId
  <2>2. CASE WithId(rs, k) # {}
    <3>1. old \in rs /\ old.id = k
      BY <2>2 DEF WithId
    <3> QED
      BY <2>2, <3>1 DEF Place, Unique
  <2> QED
    BY <2>1, <2>2
<1> QED
  BY <1>1, <1>2 DEF Unique

-----------------------------------------------------------------------------
(* The type of the state.                                                  *)

\* The join table is synchronised for a relation that is loaded only.
LoadedLinks ==
    \A c \in Callers :
        At(c, "save", "link") \/ At(c, "save", "relink") => call[c].value # NotLoaded

Typed == TypeOK /\ LoadedLinks

\* The type of the state, with the reason why save links keys and nothing else.
LEMMA TypedInvariant == Spec => []Typed
<1>1. Init => Typed
  <2> SUFFICES ASSUME Init PROVE Typed
    OBVIOUS
  <2>1. rows \subseteq Rows
    BY DEF Init, Rows
  <2>2. call \in [Callers -> Calls \cup {Idle}]
    BY DEF Init
  <2> QED
    BY <2>1, <2>2 DEF Init, Typed, TypeOK, LoadedLinks, At
<1>2. Typed /\ [Next]_vars => TypeOK'
  <2> SUFFICES ASSUME Typed, [Next]_vars PROVE TypeOK'
    OBVIOUS
  <2> USE DEF Typed, TypeOK, history
  <2>1. ASSUME NEW c \in Callers, NEW k \in Keys,
               NEW value \in (SUBSET Targets) \cup {NotLoaded}, SaveReads(c, k, value)
        PROVE  TypeOK'
    BY <2>1 DEF SaveReads, Calls
  <2>2. ASSUME NEW c \in Callers, NEW k \in Keys, HooksPass(c, k)
        PROVE  TypeOK'
    <3>1. [call[c] EXCEPT !.at = "write", !.id = k] \in Calls
      BY <2>2 DEF HooksPass, At, Calls
    <3> QED
      BY <2>2, <3>1 DEF HooksPass
  <2>3. ASSUME NEW c \in Callers, NEW ids \in SUBSET Keys, DeleteReads(c, ids)
        PROVE  TypeOK'
    BY <2>3 DEF DeleteReads, Calls
  <2>4. ASSUME NEW c \in Callers, SaveWrites(c)
        PROVE  TypeOK'
    <3>1. call[c].seenRows \in SUBSET Rows /\ call[c].id \in Keys
      BY <2>4 DEF SaveWrites, At, Calls
    <3>2. /\ Place(call[c].seenRows, call[c].id, c) \in SUBSET Rows
          /\ Place(serialRows, call[c].id, c) \in SUBSET Rows
      BY <3>1, PlaceKeeps
    <3>3. ASSUME NEW at \in {"after", "link"}
          PROVE  [call[c] EXCEPT !.at = at, !.seenRows = {}] \in Calls
      BY <2>4 DEF SaveWrites, At, Calls
    <3>4. call' \in [Callers -> Calls \cup {Idle}]
      BY <2>4, <3>3 DEF SaveWrites
    <3> QED
      BY <2>4, <3>2, <3>4 DEF SaveWrites
  <2>5. ASSUME NEW c \in Callers, LinkReads(c)
        PROVE  TypeOK'
    <3>1. [call[c] EXCEPT !.at = "relink", !.seenLinks = links] \in Calls
      BY <2>5 DEF LinkReads, At, Calls
    <3> QED
      BY <2>5, <3>1 DEF LinkReads
  <2>6. ASSUME NEW c \in Callers, LinkWrites(c)
        PROVE  TypeOK'
    <3>1. /\ call[c].id \in Keys /\ call[c].value \in {NotLoaded} \cup SUBSET Targets
          /\ call[c].seenLinks \subseteq Links
      BY <2>6 DEF LinkWrites, At, Calls
    <3>2. call[c].value \in SUBSET Targets
      BY <2>6, <3>1 DEF LinkWrites, LoadedLinks
    <3>3. /\ Relink(call[c].seenLinks, call[c].id, call[c].value) \subseteq Links
          /\ Relink(serialLinks, call[c].id, call[c].value) \subseteq Links
      BY <3>1, <3>2 DEF Relink, Links
    <3>4. [call[c] EXCEPT !.at = "after", !.seenLinks = {}] \in Calls
      BY <2>6 DEF LinkWrites, At, Calls
    <3> QED
      BY <2>6, <3>3, <3>4 DEF LinkWrites
  <2>7. ASSUME NEW c \in Callers, DeleteWrites(c)
        PROVE  TypeOK'
    <3>1. call[c].seenRows \subseteq Rows /\ call[c].ids \subseteq Keys
      BY <2>7 DEF DeleteWrites, At, Calls
    <3>2. [call[c] EXCEPT !.at = "after", !.seenRows = {}] \in Calls
      BY <2>7 DEF DeleteWrites, At, Calls
    <3> QED
      BY <2>7, <3>1, <3>2 DEF DeleteWrites, Without
  <2>8. ASSUME NEW c \in Callers, Ends(c)
        PROVE  TypeOK'
    BY <2>8 DEF Ends
  <2>9. CASE UNCHANGED vars
    BY <2>9 DEF vars
  <2> QED
    BY <2>1, <2>2, <2>3, <2>4, <2>5, <2>6, <2>7, <2>8, <2>9 DEF Next
<1>3. Typed /\ [Next]_vars => LoadedLinks'
  <2> SUFFICES ASSUME Typed, [Next]_vars, NEW d \in Callers,
                      At(d, "save", "link")' \/ At(d, "save", "relink")'
               PROVE  call'[d].value # NotLoaded
    BY DEF LoadedLinks
  <2> USE DEF Typed, TypeOK, At, history
  <2>1. ASSUME call'[d] = call[d] PROVE call'[d].value # NotLoaded
    BY <2>1 DEF LoadedLinks
  <2>2. ASSUME NEW k \in Keys, NEW value \in (SUBSET Targets) \cup {NotLoaded},
               SaveReads(d, k, value)
        PROVE  FALSE
    BY <2>2 DEF SaveReads
  <2>3. ASSUME NEW k \in Keys, HooksPass(d, k) PROVE FALSE
    BY <2>3 DEF HooksPass, Calls
  <2>4. ASSUME NEW ids \in SUBSET Keys, DeleteReads(d, ids) PROVE FALSE
    BY <2>4 DEF DeleteReads
  <2>5. CASE SaveWrites(d)
    BY <2>5 DEF SaveWrites, Calls
  <2>6. CASE LinkReads(d)
    BY <2>6 DEF LinkReads, LoadedLinks, Calls
  <2>7. ASSUME LinkWrites(d) \/ DeleteWrites(d) \/ Ends(d) PROVE FALSE
    BY <2>7 DEF LinkWrites, DeleteWrites, Ends, Calls
  <2>8. ASSUME NEW c \in Callers \ {d},
               \/ \E k \in Keys, value \in (SUBSET Targets) \cup {NotLoaded} : SaveReads(c, k, value)
               \/ \E k \in Keys : HooksPass(c, k)
               \/ \E ids \in SUBSET Keys : DeleteReads(c, ids)
               \/ SaveWrites(c) \/ LinkReads(c) \/ LinkWrites(c) \/ DeleteWrites(c) \/ Ends(c)
        PROVE  call'[d] = call[d]
    BY <2>8 DEF SaveReads, HooksPass, DeleteReads, SaveWrites, LinkReads, LinkWrites,
                DeleteWrites, Ends
  <2>9. CASE UNCHANGED vars
    BY <2>1, <2>9 DEF vars
  <2> QED
    BY <2>1, <2>2, <2>3, <2>4, <2>5, <2>6, <2>7, <2>8, <2>9 DEF Next
<1> QED
  BY <1>1, <1>2, <1>3, PTL DEF Spec, Typed

\* The local variables of save and delete hold rows and join rows of the tables
\* (repository.ts).
THEOREM EntityRepositoryTypeOK == Spec => []TypeOK
  BY TypedInvariant, PTL DEF Typed

-----------------------------------------------------------------------------
(* Keys.                                                                   *)

\* What a call has read has unique keys as well: it is what the call writes.
UniqueEverywhere ==
    /\ Unique(rows)
    /\ \A c \in Callers : call[c] # Idle => Unique(call[c].seenRows)

\* No two rows of a table have one primary key, however saves and deletes
\* overlap and whatever keys the hooks choose (the second findIndex of save).
THEOREM EntityRepositoryPrimaryKeyUnique == Spec => []PrimaryKeyUnique
<1>1. Init => UniqueEverywhere
  BY DEF Init, UniqueEverywhere, Unique
<1>2. Typed /\ UniqueEverywhere /\ [Next]_vars => UniqueEverywhere'
  <2> SUFFICES ASSUME Typed, UniqueEverywhere, [Next]_vars PROVE UniqueEverywhere'
    OBVIOUS
  <2> USE DEF Typed, TypeOK, UniqueEverywhere, At, history
  <2>1. ASSUME NEW c \in Callers, NEW k \in Keys,
               NEW value \in (SUBSET Targets) \cup {NotLoaded}, SaveReads(c, k, value)
        PROVE  UniqueEverywhere'
    BY <2>1 DEF SaveReads
  <2>2. ASSUME NEW c \in Callers, NEW k \in Keys, HooksPass(c, k)
        PROVE  UniqueEverywhere'
    BY <2>2 DEF HooksPass, Calls
  <2>3. ASSUME NEW c \in Callers, NEW ids \in SUBSET Keys, DeleteReads(c, ids)
        PROVE  UniqueEverywhere'
    BY <2>3 DEF DeleteReads
  <2>4. ASSUME NEW c \in Callers, SaveWrites(c)
        PROVE  UniqueEverywhere'
    <3>1. call[c].seenRows \in SUBSET Rows /\ call[c].id \in Keys
      BY <2>4 DEF SaveWrites, Calls
    <3>2. Unique(rows')
      BY <2>4, <3>1, PlaceUnique DEF SaveWrites
    <3>3. \A d \in Callers \ {c} : call'[d] = call[d]
      BY <2>4 DEF SaveWrites
    <3>4. call'[c].seenRows = {}
      BY <2>4 DEF SaveWrites, Calls
    <3>5. Unique({})
      BY DEF Unique
    <3> QED
      BY <3>2, <3>3, <3>4, <3>5
  <2>5. ASSUME NEW c \in Callers, LinkReads(c) \/ LinkWrites(c)
        PROVE  UniqueEverywhere'
    BY <2>5 DEF LinkReads, LinkWrites, Calls
  <2>6. ASSUME NEW c \in Callers, DeleteWrites(c)
        PROVE  UniqueEverywhere'
    <3>1. Unique(call[c].seenRows)
      BY <2>6 DEF DeleteWrites
    <3>2. Unique(rows')
      BY <2>6, <3>1 DEF DeleteWrites, Without, Unique
    <3>3. \A d \in Callers \ {c} : call'[d] = call[d]
      BY <2>6 DEF DeleteWrites
    <3>4. call'[c].seenRows = {}
      BY <2>6 DEF DeleteWrites, Calls
    <3>5. Unique({})
      BY DEF Unique
    <3> QED
      BY <3>2, <3>3, <3>4, <3>5
  <2>7. ASSUME NEW c \in Callers, Ends(c)
        PROVE  UniqueEverywhere'
    BY <2>7 DEF Ends
  <2>8. CASE UNCHANGED vars
    BY <2>8 DEF vars
  <2> QED
    BY <2>1, <2>2, <2>3, <2>4, <2>5, <2>6, <2>7, <2>8 DEF Next
<1>3. UniqueEverywhere => PrimaryKeyUnique
  BY DEF UniqueEverywhere, Unique, PrimaryKeyUnique
<1> QED
  BY <1>1, <1>2, <1>3, TypedInvariant, PTL DEF Spec

-----------------------------------------------------------------------------
(* Overlapping calls.                                                      *)

\* Without overlap both tables are what each write would have made of the table
\* of its moment (save and delete of repository.ts, which write what they have
\* read before).
THEOREM EntityRepositorySerial == Spec => []SerialUnlessOverlapped
<1>1. Init => SerialUnlessOverlapped
  BY DEF Init, SerialUnlessOverlapped
<1>2. Typed /\ SerialUnlessOverlapped /\ [Next]_vars => SerialUnlessOverlapped'
  <2> SUFFICES ASSUME Typed, SerialUnlessOverlapped, [Next]_vars, ~overlapped'
               PROVE  rows' = serialRows' /\ links' = serialLinks'
    BY DEF SerialUnlessOverlapped
  <2> USE DEF SerialUnlessOverlapped
  <2>1. ASSUME NEW c \in Callers, SaveWrites(c)
        PROVE  rows' = serialRows' /\ links' = serialLinks'
    BY <2>1 DEF SaveWrites
  <2>2. ASSUME NEW c \in Callers, LinkWrites(c)
        PROVE  rows' = serialRows' /\ links' = serialLinks'
    BY <2>2 DEF LinkWrites
  <2>3. ASSUME NEW c \in Callers, DeleteWrites(c)
        PROVE  rows' = serialRows' /\ links' = serialLinks'
    BY <2>3 DEF DeleteWrites
  <2>4. CASE UNCHANGED <<rows, links, history>>
    BY <2>4 DEF history
  <2>5. ASSUME NEW c \in Callers,
               \/ \E k \in Keys, value \in (SUBSET Targets) \cup {NotLoaded} : SaveReads(c, k, value)
               \/ \E k \in Keys : HooksPass(c, k)
               \/ \E ids \in SUBSET Keys : DeleteReads(c, ids)
               \/ LinkReads(c) \/ Ends(c)
        PROVE  UNCHANGED <<rows, links, history>>
    BY <2>5 DEF SaveReads, HooksPass, DeleteReads, LinkReads, Ends
  <2> QED
    BY <2>1, <2>2, <2>3, <2>4, <2>5 DEF Next, vars
<1> QED
  BY <1>1, <1>2, TypedInvariant, PTL DEF Spec

\* The row of a key is in the table, or was there and deleted.
HasOwner(k) == WithId(rows, k) # {} \/ k \in deleted

\* Without overlap the key that a save is linking is owned: its row is written.
OwnersFirst ==
    ~overlapped =>
        /\ \A l \in links : HasOwner(l.owner)
        /\ \A c \in Callers :
               At(c, "save", "link") \/ At(c, "save", "relink") => HasOwner(call[c].id)

\* Without overlap a join row has an owner, or had one that was deleted: save
\* writes the row before the join rows (repository.ts, save).
THEOREM EntityRepositoryLinksHaveOwners == Spec => []LinksHaveOwners
<1>1. Init => OwnersFirst
  BY DEF Init, OwnersFirst, At
<1>2. Typed /\ OwnersFirst /\ [Next]_vars => OwnersFirst'
  <2> SUFFICES ASSUME Typed, OwnersFirst, [Next]_vars, ~overlapped' PROVE OwnersFirst'
    BY DEF OwnersFirst
  <2> USE DEF Typed, TypeOK, At, OwnersFirst, HasOwner, history
  <2>1. ASSUME NEW c \in Callers, SaveWrites(c)
        PROVE  OwnersFirst'
    <3>1. ~overlapped /\ call[c].seenRows = rows /\ call[c].id \in Keys
      BY <2>1 DEF SaveWrites, Calls
    <3>2. /\ \A j \in Keys : WithId(rows, j) # {} => WithId(rows', j) # {}
          /\ WithId(rows', call[c].id) # {}
      BY <2>1, <3>1, PlaceKeeps DEF SaveWrites
    <3>3. \A j \in Keys : HasOwner(j) => HasOwner(j)'
      BY <2>1, <3>2 DEF SaveWrites
    <3>4. \A l \in links' : HasOwner(l.owner)'
      BY <2>1, <3>1, <3>3 DEF SaveWrites, Links
    <3>5. call'[c].id = call[c].id
      BY <2>1 DEF SaveWrites, Calls
    <3>6. \A d \in Callers \ {c} : call'[d] = call[d]
      BY <2>1 DEF SaveWrites
    <3>7. ASSUME NEW d \in Callers, At(d, "save", "link")' \/ At(d, "save", "relink")'
          PROVE  HasOwner(call[d].id)'
      BY <3>1, <3>2, <3>3, <3>5, <3>6, <3>7 DEF Calls
    <3>8. \A d \in Callers :
             At(d, "save", "link")' \/ At(d, "save", "relink")' => HasOwner(call[d].id)'
      BY <3>7
    <3> QED
      BY <3>4, <3>8
  <2>2. ASSUME NEW c \in Callers, DeleteWrites(c)
        PROVE  OwnersFirst'
    <3>1. ~overlapped /\ call[c].seenRows = rows
      BY <2>2 DEF DeleteWrites
    <3>2. \A j \in Keys : HasOwner(j) => HasOwner(j)'
      BY <2>2, <3>1 DEF DeleteWrites, Without, WithId
    <3>3. \A l \in links' : HasOwner(l.owner)'
      BY <2>2, <3>1, <3>2 DEF DeleteWrites, Links
    <3>4. \A d \in Callers \ {c} : call'[d] = call[d]
      BY <2>2 DEF DeleteWrites
    <3>5. call'[c].at = "after"
      BY <2>2 DEF DeleteWrites, Calls
    <3>6. ASSUME NEW d \in Callers, At(d, "save", "link")' \/ At(d, "save", "relink")'
          PROVE  HasOwner(call[d].id)'
      BY <3>1, <3>2, <3>4, <3>5, <3>6 DEF Calls
    <3> QED
      BY <3>3, <3>6
  <2>3. ASSUME NEW c \in Callers, LinkWrites(c)
        PROVE  OwnersFirst'
    <3>1. ~overlapped /\ call[c].seenLinks = links
      BY <2>3 DEF LinkWrites
    <3>2. HasOwner(call[c].id)
      BY <2>3, <3>1 DEF LinkWrites
    <3>3. \A l \in links' : l \in links \/ l.owner = call[c].id
      BY <2>3, <3>1 DEF LinkWrites, Relink
    <3>4. UNCHANGED <<rows, deleted>>
      BY <2>3 DEF LinkWrites
    <3>5. \A d \in Callers \ {c} : call'[d] = call[d]
      BY <2>3 DEF LinkWrites
    <3>6. call'[c].at = "after"
      BY <2>3 DEF LinkWrites, Calls
    <3>7. \A l \in links' : HasOwner(l.owner)'
      BY <3>1, <3>2, <3>3, <3>4
    <3>8. ASSUME NEW d \in Callers, At(d, "save", "link")' \/ At(d, "save", "relink")'
          PROVE  HasOwner(call[d].id)'
      BY <3>1, <3>4, <3>5, <3>6, <3>8
    <3> QED
      BY <3>7, <3>8
  <2>4. ASSUME NEW c \in Callers, UNCHANGED <<rows, links, history>>,
               \A d \in Callers \ {c} : call'[d] = call[d],
               \/ call'[c] = Idle \/ call'[c].at \in {"hooks", "write"}
               \/ At(c, "save", "link") /\ call'[c].id = call[c].id
        PROVE  OwnersFirst'
    <3>1. ASSUME NEW d \in Callers, At(d, "save", "link")' \/ At(d, "save", "relink")'
          PROVE  HasOwner(call[d].id)'
      BY <2>4, <3>1
    <3> QED
      BY <2>4, <3>1
  <2>5. ASSUME NEW c \in Callers, NEW k \in Keys,
               NEW value \in (SUBSET Targets) \cup {NotLoaded}, SaveReads(c, k, value)
        PROVE  OwnersFirst'
    BY <2>4, <2>5 DEF SaveReads
  <2>6. ASSUME NEW c \in Callers, NEW k \in Keys, HooksPass(c, k)
        PROVE  OwnersFirst'
    <3>1. call'[c].at = "write"
      BY <2>6 DEF HooksPass, Calls
    <3> QED
      BY <2>4, <2>6, <3>1 DEF HooksPass
  <2>7. ASSUME NEW c \in Callers, NEW ids \in SUBSET Keys, DeleteReads(c, ids)
        PROVE  OwnersFirst'
    BY <2>4, <2>7 DEF DeleteReads
  <2>8. ASSUME NEW c \in Callers, LinkReads(c)
        PROVE  OwnersFirst'
    <3>1. call'[c].id = call[c].id
      BY <2>8 DEF LinkReads, Calls
    <3> QED
      BY <2>4, <2>8, <3>1 DEF LinkReads
  <2>9. ASSUME NEW c \in Callers, Ends(c)
        PROVE  OwnersFirst'
    BY <2>4, <2>9 DEF Ends
  <2>10. CASE UNCHANGED vars
    BY <2>10 DEF vars
  <2> QED
    BY <2>1, <2>2, <2>3, <2>5, <2>6, <2>7, <2>8, <2>9, <2>10 DEF Next
<1>3. OwnersFirst => LinksHaveOwners
  BY DEF OwnersFirst, HasOwner, LinksHaveOwners
<1> QED
  BY <1>1, <1>2, <1>3, TypedInvariant, PTL DEF Spec

-----------------------------------------------------------------------------
(* Queries: lists of rows.                                                 *)

\* What is in a list.
Listed(u) == {u[i] : i \in DOMAIN u}

\* A list of rows of X, each after those that R puts before it.
InOrder(u, X, R) ==
    u \in Seq(X) /\ \A i, j \in DOMAIN u : i < j => <<u[i], u[j]>> \in R

Asymmetric(R, X) == \A x, y \in X : <<x, y>> \in R => <<y, x>> \notin R

\* The two modules count in one way.
LEMMA SameCount == \A S : Queries!Cardinality(S) = Cardinality(S)
  BY DEF Queries!Cardinality, Cardinality, Queries!IsFiniteSet, IsFiniteSet

\* What Enumerated says of a set in a strict order: its elements, each once, and each
\* after those before it.
LEMMA Enumeration ==
  ASSUME NEW S, IsFiniteSet(S), NEW b,
         \A x \in S : b[x] \subseteq S /\ x \notin b[x],
         \A x, y \in S : x \in b[y] => b[x] \subseteq b[y],
         \A x, y \in S : x = y \/ x \in b[y] \/ y \in b[x]
  PROVE  LET n == Cardinality(S)
             e == Queries!Enumerated(S, b)
         IN  /\ n \in Nat /\ e \in [1..n -> S] /\ Listed(e) = S
             /\ \A j, k \in 1..n : j < k => e[j] \in b[e[k]] /\ e[j] # e[k]
<1> DEFINE n == Cardinality(S)
           e == Queries!Enumerated(S, b)
           place == [x \in S |-> Cardinality(b[x]) + 1]
<1>1. n \in Nat
  BY FS_CardinalityType
<1>2. ASSUME NEW x \in S
      PROVE  IsFiniteSet(b[x]) /\ Cardinality(b[x]) \in Nat /\ Cardinality(b[x]) < n
  <2>1. IsFiniteSet(b[x]) /\ Cardinality(b[x]) <= n /\ (n = Cardinality(b[x]) => S = b[x])
    BY FS_Subset
  <2>2. Cardinality(b[x]) \in Nat
    BY <2>1, FS_CardinalityType
  <2> QED
    BY <1>1, <2>1, <2>2
<1>3. ASSUME NEW x \in S, NEW y \in S, x \in b[y]
      PROVE  Cardinality(b[x]) < Cardinality(b[y])
  <2>1. b[x] \subseteq b[y] /\ b[x] # b[y]
    BY <1>3
  <2>2. Cardinality(b[x]) <= Cardinality(b[y])
        /\ (Cardinality(b[y]) = Cardinality(b[x]) => b[y] = b[x])
    BY <1>2, <2>1, FS_Subset
  <2> QED
    BY <1>2, <2>1, <2>2
<1>4. place \in [S -> 1..n]
  BY <1>1, <1>2
<1>5. \A x, y \in S : place[x] = place[y] => x = y
  <2> SUFFICES ASSUME NEW x \in S, NEW y \in S, x # y
               PROVE  Cardinality(b[x]) # Cardinality(b[y])
    BY <1>2
  <2> QED
    BY <1>2, <1>3
<1>6. \A k \in 1..n : \E x \in S : place[x] = k
  <2>1. place \in Injection(S, 1..n)
    BY <1>4, <1>5, Fun_IsInj
  <2>2. IsFiniteSet(1..n) /\ Cardinality(1..n) = n
    BY <1>1, FS_Interval
  <2>3. place \in Surjection(S, 1..n)
    BY <2>1, <2>2, FS_Injection
  <2> DEFINE T == 1..n
  <2>4. place \in Surjection(S, T)
    BY <2>3
  <2> HIDE DEF place, n, T
  <2>5. \A k \in T : \E x \in S : place[x] = k
    BY <2>4, Fun_SurjectionProperties
  <2> QED
    BY <2>5 DEF T
<1>7. ASSUME NEW k \in 1..n PROVE e[k] \in S /\ Cardinality(b[e[k]]) = k - 1
  <2>1. PICK x \in S : place[x] = k
    BY <1>6
  <2>2. Cardinality(b[x]) = k - 1
    BY <1>2, <2>1
  <2>3. e[k] = Queries!Nth(S, b, k)
    BY SameCount DEF Queries!Enumerated
  <2>4. Queries!Nth(S, b, k) \in S /\ Cardinality(b[Queries!Nth(S, b, k)]) = k - 1
    BY <2>2, SameCount DEF Queries!Nth
  <2> QED
    BY <2>3, <2>4
<1>8. e \in [1..n -> S]
  <2>1. e = [k \in 1..n |-> Queries!Nth(S, b, k)]
    BY SameCount DEF Queries!Enumerated
  <2> HIDE DEF e, n
  <2>2. \A k \in 1..n : Queries!Nth(S, b, k) \in S
    BY <1>7, <2>1
  <2> QED
    BY <2>1, <2>2
<1>9. Listed(e) = S
  <2>1. ASSUME NEW x \in S PROVE \E k \in 1..n : e[k] = x
    <3>1. place[x] \in 1..n
      BY <1>4
    <3>2. e[place[x]] \in S /\ place[e[place[x]]] = place[x]
      BY <1>1, <1>2, <1>7, <3>1
    <3> QED
      BY <1>5, <3>1, <3>2
  <2> HIDE DEF e, n
  <2> QED
    BY <1>8, <2>1 DEF Listed
<1>10. ASSUME NEW j \in 1..n, NEW k \in 1..n, j < k
       PROVE  e[j] \in b[e[k]] /\ e[j] # e[k]
  <2>1. e[j] # e[k] /\ e[k] \notin b[e[j]]
    BY <1>1, <1>2, <1>3, <1>7, <1>10
  <2> QED
    BY <1>7, <2>1
<1> QED
  BY <1>1, <1>8, <1>9, <1>10

\* How many elements of an ordered list are before its i-th one, and how long it is.
LEMMA PlaceInList ==
  ASSUME NEW X, NEW R, Asymmetric(R, X), NEW u, InOrder(u, X, R)
  PROVE  /\ Cardinality(Listed(u)) = Len(u)
         /\ \A i \in DOMAIN u : Cardinality({y \in Listed(u) : <<y, u[i]>> \in R}) = i - 1
<1> DEFINE n == Len(u)
<1>1. u \in [1..n -> X] /\ n \in Nat /\ DOMAIN u = 1..n
  BY DEF InOrder
<1>2. \A i, j \in 1..n : i < j => <<u[i], u[j]>> \in R
  BY <1>1 DEF InOrder
<1>3. \A i, j \in 1..n : u[i] = u[j] => i = j
  <2> SUFFICES ASSUME NEW i \in 1..n, NEW j \in 1..n, i < j PROVE u[i] # u[j]
    BY <1>1
  <2> QED
    BY <1>1, <1>2 DEF Asymmetric
<1>4. ASSUME NEW k \in 0..n
      PROVE  Cardinality({u[j] : j \in 1..k}) = k
  <2> DEFINE f == [j \in 1..k |-> u[j]]
             T == {u[j] : j \in 1..k}
  <2>1. f \in [1..k -> T] /\ \A i, j \in 1..k : f[i] = f[j] => i = j
    BY <1>1, <1>3
  <2>2. \A t \in T : \E j \in 1..k : f[j] = t
    OBVIOUS
  <2> HIDE DEF f
  <2>3. f \in Surjection(1..k, T) /\ f \in Injection(1..k, T)
    BY <2>1, <2>2, Fun_IsInj, Fun_IsSurj
  <2>4. IsFiniteSet(1..k) /\ Cardinality(1..k) = k
    BY <1>1, FS_Interval
  <2> HIDE DEF T
  <2>5. Cardinality(T) = k
    BY <2>3, <2>4, FS_Surjection
  <2> QED
    BY <2>5 DEF T
<1>5. Listed(u) = {u[j] : j \in 1..n}
  BY <1>1 DEF Listed
<1>6. ASSUME NEW i \in 1..n
      PROVE  {y \in Listed(u) : <<y, u[i]>> \in R} = {u[j] : j \in 1..(i - 1)}
  <2>1. ASSUME NEW j \in 1..n PROVE <<u[j], u[i]>> \in R <=> j < i
    <3>1. u[i] \in X /\ u[j] \in X
      BY <1>1
    <3>2. CASE j < i
      BY <1>2, <3>2
    <3>3. CASE j = i
      BY <3>1, <3>3 DEF Asymmetric
    <3>4. CASE i < j
      BY <1>1, <1>2, <3>1, <3>4 DEF Asymmetric
    <3> QED
      BY <1>1, <3>2, <3>3, <3>4
  <2>2. 1..(i - 1) \subseteq 1..n /\ \A j \in 1..n : j < i <=> j \in 1..(i - 1)
    BY <1>1
  <2> QED
    BY <1>5, <2>1, <2>2
<1>7. ASSUME NEW i \in 1..n
      PROVE  Cardinality({y \in Listed(u) : <<y, u[i]>> \in R}) = i - 1
  <2>1. i - 1 \in 0..n
    BY <1>1
  <2> QED
    BY <1>4, <1>6, <2>1
<1>8. Cardinality(Listed(u)) = n
  BY <1>1, <1>4, <1>5
<1> QED
  BY <1>1, <1>7, <1>8

\* There is one list of the same elements in the same order.
LEMMA OneList ==
  ASSUME NEW X, NEW R, Asymmetric(R, X), NEW u, NEW w,
         InOrder(u, X, R), InOrder(w, X, R), Listed(u) = Listed(w)
  PROVE  u = w
<1>1. Len(u) = Len(w)
  BY PlaceInList
<1>2. /\ u \in Seq(X) /\ w \in Seq(X) /\ Len(u) \in Nat
      /\ DOMAIN u = 1..Len(u) /\ DOMAIN w = 1..Len(u)
  BY <1>1 DEF InOrder
<1>0. \A j \in DOMAIN w : Cardinality({y \in Listed(w) : <<y, w[j]>> \in R}) = j - 1
  BY PlaceInList
<1>3. ASSUME NEW i \in 1..Len(u) PROVE u[i] = w[i]
  <2>1. PICK j \in DOMAIN w : w[j] = u[i]
    BY <1>2 DEF Listed
  <2>2. Cardinality({y \in Listed(u) : <<y, u[i]>> \in R}) = i - 1
    BY <1>2, PlaceInList
  <2>3. Cardinality({y \in Listed(w) : <<y, w[j]>> \in R}) = j - 1
    BY <1>0
  <2>4. i - 1 = j - 1
    BY <2>1, <2>2, <2>3
  <2> QED
    BY <1>2, <2>1, <2>4
<1> QED
  BY <1>2, <1>3

\* The rows at some places of an ordered list are an ordered list.
LEMMA SelectInOrder ==
  ASSUME NEW X, NEW R, NEW u, InOrder(u, X, R), NEW P \in SUBSET DOMAIN u
  PROVE  InOrder(Queries!Select(u, P), X, R)
           /\ Listed(Queries!Select(u, P)) = {u[i] : i \in P}
<1> DEFINE n == Len(u)
           b == [i \in P |-> {j \in P : j < i}]
           e == Queries!Enumerated(P, b)
           k == Cardinality(P)
           w == Queries!Select(u, P)
<1>1. u \in [1..n -> X] /\ n \in Nat /\ DOMAIN u = 1..n
      /\ \A i, j \in 1..n : i < j => <<u[i], u[j]>> \in R
  BY DEF InOrder
<1>2. IsFiniteSet(P)
  <2>1. IsFiniteSet(1..n) /\ P \subseteq 1..n
    BY <1>1, FS_Interval
  <2> HIDE DEF n
  <2> QED
    BY <2>1, FS_Subset
<1>3. P \subseteq Nat
  BY <1>1
<1>4. /\ \A x \in P : b[x] \subseteq P /\ x \notin b[x]
      /\ \A x, y \in P : x \in b[y] => b[x] \subseteq b[y]
      /\ \A x, y \in P : x = y \/ x \in b[y] \/ y \in b[x]
  BY <1>3
<1>5. \A i, j \in P : i \in b[j] => i < j
  OBVIOUS
<1>6. w = [i \in DOMAIN e |-> u[e[i]]]
  BY DEF Queries!Select
<1> HIDE DEF b, w
<1>7. /\ k \in Nat /\ e \in [1..k -> P] /\ Listed(e) = P
      /\ \A i, j \in 1..k : i < j => e[i] \in b[e[j]]
  BY <1>2, <1>4, Enumeration
<1> HIDE DEF e, k
<1>8. w \in [1..k -> X] /\ \A i \in 1..k : w[i] = u[e[i]]
  BY <1>1, <1>6, <1>7
<1>9. w \in Seq(X)
  BY <1>7, <1>8
<1>10. \A i, j \in 1..k : i < j => <<w[i], w[j]>> \in R
  <2> SUFFICES ASSUME NEW i \in 1..k, NEW j \in 1..k, i < j PROVE <<u[e[i]], u[e[j]]>> \in R
    BY <1>8
  <2>1. e[i] \in P /\ e[j] \in P /\ e[i] < e[j]
    BY <1>5, <1>7
  <2> QED
    BY <1>1, <2>1
<1>11. Listed(w) = {u[i] : i \in P}
  <2>1. Listed(w) = {u[e[i]] : i \in 1..k}
    BY <1>8 DEF Listed
  <2>2. P = {e[i] : i \in 1..k}
    BY <1>7 DEF Listed
  <2> QED
    BY <2>1, <2>2
<1> QED
  BY <1>8, <1>9, <1>10, <1>11 DEF InOrder, w

-----------------------------------------------------------------------------
(* Queries: the orders of rows.                                            *)

TableRows == [id : Nat, v : Queries!Scalars, parent : Queries!Scalars]

\* No order is called None.
NoneApart == None \notin {"v", "vDesc", "parent", "key", "countDesc"}

\* What a row is ordered by.
SortKey(o, r) ==
    CASE o = "v"      -> Queries!Rank(r.v)
      [] o = "vDesc"  -> 0 - Queries!Rank(r.v)
      [] o = "parent" -> Queries!Rank(r.parent)
      [] OTHER        -> 0

\* A rank is a number.
LEMMA RankNat == ASSUME NEW x \in Queries!Scalars PROVE Queries!Rank(x) \in Nat
  BY DEF Queries!Rank, Queries!Scalars

\* Before compares numbers.
LEMMA BeforeByKey ==
  ASSUME NoneApart, NEW o \in Queries!Orders, NEW a \in TableRows, NEW b \in TableRows
  PROVE  /\ SortKey(o, a) \in Int
         /\ Queries!Before(o, a, b) <=> SortKey(o, a) < SortKey(o, b)
<1>1. Queries!Rank(a.v) \in Nat /\ Queries!Rank(b.v) \in Nat
        /\ Queries!Rank(a.parent) \in Nat /\ Queries!Rank(b.parent) \in Nat
  BY RankNat DEF TableRows
<1> QED
  BY <1>1 DEF Queries!Before, SortKey, NoneApart, Queries!Orders

\* What Before says of the elements of X, in numbers.
Ranks(rank, X, o) ==
    /\ rank \in [X -> Int]
    /\ \A x, y \in X : Queries!Before(o, x, y) <=> rank[x] < rank[y]

\* Rows are ranked by what they are ordered by.
LEMMA RowsRanked ==
  ASSUME NoneApart, NEW o \in Queries!Orders, NEW X \in SUBSET TableRows
  PROVE  Ranks([x \in X |-> SortKey(o, x)], X, o)
<1>1. \A x, y \in X : /\ SortKey(o, x) \in Int
                      /\ Queries!Before(o, x, y) <=> SortKey(o, x) < SortKey(o, y)
  BY BeforeByKey
<1> QED
  BY <1>1 DEF Ranks

\* Sorting a list, one gets a list of the same rows in any order that follows o and,
\* where o does not tell, the order of the list.
LEMMA SortedInOrder ==
  ASSUME NEW X, NEW R, NEW Q, NEW o, NEW u, InOrder(u, X, R), NEW rank, Ranks(rank, X, o),
         \A x, y \in X : Queries!Before(o, x, y) => <<x, y>> \in Q,
         \A x, y \in X : ~Queries!Before(o, y, x) /\ <<x, y>> \in R => <<x, y>> \in Q
  PROVE  InOrder(Queries!Sorted(u, o), X, Q) /\ Listed(Queries!Sorted(u, o)) = Listed(u)
<1> DEFINE n == Len(u)
           P == DOMAIN u
<1>1. u \in [1..n -> X] /\ n \in Nat /\ P = 1..n
      /\ \A i, j \in 1..n : i < j => <<u[i], u[j]>> \in R
  <2>1. u \in Seq(X) /\ \A i, j \in DOMAIN u : i < j => <<u[i], u[j]>> \in R
    BY DEF InOrder
  <2>2. u \in [1..Len(u) -> X] /\ Len(u) \in Nat /\ DOMAIN u = 1..Len(u)
    BY ONLY <2>1
  <2> QED
    BY <2>1, <2>2
<1>2. IsFiniteSet(P) /\ Cardinality(P) = n
  <2>1. P = 1..n
    BY <1>1
  <2> HIDE DEF P, n
  <2> QED
    BY <1>1, <2>1, FS_Interval
<1> DEFINE b == [i \in P |-> {j \in P : \/ Queries!Before(o, u[j], u[i])
                                        \/ (~Queries!Before(o, u[i], u[j]) /\ j < i)}]
           e == Queries!Enumerated(P, b)
           w == Queries!Sorted(u, o)
           key == [i \in P |-> rank[u[i]]]
<1>3. key \in [P -> Int]
        /\ \A i, j \in P : Queries!Before(o, u[i], u[j]) <=> key[i] < key[j]
  <2>1. \A i \in P : u[i] \in X
    BY <1>1
  <2> QED
    BY <2>1 DEF Ranks
<1>4. w = [i \in DOMAIN e |-> u[e[i]]]
  BY DEF Queries!Sorted
<1> HIDE DEF key, w
<1>5. \A i, j \in P : j \in b[i] <=> key[j] < key[i] \/ (~(key[i] < key[j]) /\ j < i)
  BY <1>3
<1>6. \A i \in P : b[i] \subseteq P
  OBVIOUS
<1> HIDE DEF b
<1>7. P \subseteq Int
  BY <1>1
<1> HIDE DEF P
<1>8. /\ \A x \in P : b[x] \subseteq P /\ x \notin b[x]
      /\ \A x, y \in P : x \in b[y] => b[x] \subseteq b[y]
      /\ \A x, y \in P : x = y \/ x \in b[y] \/ y \in b[x]
  <2>1. \A x \in P : x \notin b[x]
    BY <1>3, <1>5, <1>7
  <2>2. ASSUME NEW x \in P, NEW y \in P, NEW z \in P, x \in b[y], z \in b[x]
                 PROVE z \in b[y]
    BY <1>3, <1>5, <1>7, <2>2
  <2>3. \A x, y \in P : x = y \/ x \in b[y] \/ y \in b[x]
    BY <1>3, <1>5, <1>7
  <2> QED
    BY <1>6, <2>1, <2>2, <2>3
<1>9. /\ e \in [1..n -> P] /\ Listed(e) = P
      /\ \A i, j \in 1..n : i < j => e[i] \in b[e[j]] /\ e[i] # e[j]
  BY <1>2, <1>8, Enumeration
<1> HIDE DEF e, n
<1>10. w \in [1..n -> X] /\ \A i \in 1..n : w[i] = u[e[i]]
  BY <1>1, <1>4, <1>9
<1>11. w \in Seq(X)
  BY <1>1, <1>10
<1>12. \A i, j \in 1..n : i < j => <<w[i], w[j]>> \in Q
  <2> SUFFICES ASSUME NEW i \in 1..n, NEW j \in 1..n, i < j PROVE <<u[e[i]], u[e[j]]>> \in Q
    BY <1>10
  <2>1. e[i] \in P /\ e[j] \in P /\ e[i] \in b[e[j]] /\ u[e[i]] \in X /\ u[e[j]] \in X
    BY <1>1, <1>9
  <2>2. CASE key[e[i]] < key[e[j]]
    BY <1>3, <2>1, <2>2
  <2>3. CASE ~(key[e[j]] < key[e[i]]) /\ e[i] < e[j]
    BY <1>1, <1>3, <2>1, <2>3
  <2> QED
    BY <1>5, <2>1, <2>2, <2>3
<1>13. Listed(w) = Listed(u)
  <2>1. Listed(w) = {u[e[i]] : i \in 1..n}
    BY <1>10 DEF Listed
  <2>2. P = {e[i] : i \in 1..n}
    BY <1>9 DEF Listed
  <2>3. Listed(u) = {u[i] : i \in P}
    BY DEF Listed, P
  <2> QED
    BY <2>1, <2>2, <2>3
<1> QED
  BY <1>10, <1>11, <1>12, <1>13 DEF InOrder, w

\* The order a table's rows have after sorting: by o, then as in the table.
RowOrder(t, o) ==
    {p \in Listed(t) \X Listed(t) :
        \/ Queries!Before(o, p[1], p[2])
        \/ /\ ~Queries!Before(o, p[2], p[1])
           /\ \E i, j \in DOMAIN t : i < j /\ p[1] = t[i] /\ p[2] = t[j]}

\* A table: rows, no two of them the same.
IsTable(t) == t \in Seq(TableRows) /\ \A i, j \in DOMAIN t : t[i] = t[j] => i = j

\* No two rows of a table are the same: they differ in their primary keys.
LEMMA TablesAre ==
  ASSUME Queries!QueryAssumption, NEW t \in QueryTables PROVE IsTable(t)
  BY DEF Queries!QueryAssumption, IsTable, TableRows

\* No two rows of a table are each before the other.
LEMMA OrderIsStrict ==
  ASSUME NoneApart, NEW t, IsTable(t), NEW o \in Queries!Orders
  PROVE  /\ Listed(t) \in SUBSET TableRows /\ Asymmetric(RowOrder(t, o), Listed(t))
<1>1. Listed(t) \in SUBSET TableRows
  BY DEF IsTable, Listed
<1>2. ASSUME NEW x \in Listed(t), NEW y \in Listed(t), <<x, y>> \in RowOrder(t, o)
      PROVE  <<y, x>> \notin RowOrder(t, o)
  <2> DEFINE T(a, b) == \E i, j \in DOMAIN t : i < j /\ a = t[i] /\ b = t[j]
  <2>1. /\ SortKey(o, x) \in Int /\ SortKey(o, y) \in Int
        /\ Queries!Before(o, x, y) <=> SortKey(o, x) < SortKey(o, y)
        /\ Queries!Before(o, y, x) <=> SortKey(o, y) < SortKey(o, x)
    BY <1>1, BeforeByKey
  <2>2. Queries!Before(o, x, y) \/ (~Queries!Before(o, y, x) /\ T(x, y))
    BY <1>2 DEF RowOrder
  <2>3. <<y, x>> \in RowOrder(t, o) => Queries!Before(o, y, x)
          \/ (~Queries!Before(o, x, y) /\ T(y, x))
    BY DEF RowOrder
  <2>4. ~(T(x, y) /\ T(y, x))
    <3>1. DOMAIN t \subseteq Nat
      BY DEF IsTable
    <3> QED
      BY <3>1 DEF IsTable
  <2> HIDE DEF T
  <2> QED
    BY <2>1, <2>2, <2>3, <2>4
<1> QED
  BY <1>1, <1>2 DEF Asymmetric

\* A table is in its own order, which is that of no option.
LEMMA TableInOrder ==
  ASSUME NEW t, IsTable(t), NoneApart
  PROVE  InOrder(t, Listed(t), RowOrder(t, None))
<1>1. t \in Seq(Listed(t))
  BY DEF IsTable, Listed
<1>2. \A x, y : ~Queries!Before(None, x, y)
  BY DEF Queries!Before, NoneApart
<1>3. ASSUME NEW i \in DOMAIN t, NEW j \in DOMAIN t, i < j
      PROVE  <<t[i], t[j]>> \in RowOrder(t, None)
  <2>1. <<t[i], t[j]>> \in Listed(t) \X Listed(t)
    BY DEF Listed
  <2> QED
    BY <1>2, <1>3, <2>1 DEF RowOrder
<1> QED
  BY <1>1, <1>3 DEF InOrder

\* Sorting what is in the table's order, or in any other of its orders: a list that is
\* sorted already stays as it is.
LEMMA SortedTable ==
  ASSUME NEW t, IsTable(t), NoneApart, NEW o \in Queries!Orders, NEW u
  PROVE  /\ InOrder(u, Listed(t), RowOrder(t, None)) =>
              InOrder(Queries!Sorted(u, o), Listed(t), RowOrder(t, o))
                /\ Listed(Queries!Sorted(u, o)) = Listed(u)
         /\ InOrder(u, Listed(t), RowOrder(t, o)) => Queries!Sorted(u, o) = u
<1> DEFINE X == Listed(t)
           R == RowOrder(t, None)
           Q == RowOrder(t, o)
<1>1. X \in SUBSET TableRows /\ Asymmetric(Q, X)
  BY OrderIsStrict
<1>2. \A x, y : ~Queries!Before(None, x, y)
  BY DEF Queries!Before, NoneApart
<1>0. Ranks([x \in X |-> SortKey(o, x)], X, o)
  BY <1>1, RowsRanked
<1>3. \A x, y \in X : Queries!Before(o, x, y) => <<x, y>> \in Q
  BY DEF RowOrder
<1>4. \A x, y \in X : ~Queries!Before(o, y, x) /\ <<x, y>> \in R => <<x, y>> \in Q
  BY <1>2 DEF RowOrder
<1>5. \A x, y \in X : ~Queries!Before(o, y, x) /\ <<x, y>> \in Q => <<x, y>> \in Q
  OBVIOUS
<1> HIDE DEF X, R, Q
<1>6. ASSUME InOrder(u, X, R) PROVE InOrder(Queries!Sorted(u, o), X, Q)
               /\ Listed(Queries!Sorted(u, o)) = Listed(u)
  BY <1>0, <1>3, <1>4, <1>6, SortedInOrder
<1>7. ASSUME InOrder(u, X, Q) PROVE Queries!Sorted(u, o) = u
  <2>1. InOrder(Queries!Sorted(u, o), X, Q) /\ Listed(Queries!Sorted(u, o)) = Listed(u)
    BY <1>0, <1>3, <1>5, <1>7, SortedInOrder
  <2> QED
    BY <1>1, <1>7, <2>1, OneList
<1> QED
  BY <1>6, <1>7 DEF X, R, Q

\* Selecting every row changes nothing.
LEMMA SelectAll ==
  ASSUME NEW X, NEW R, Asymmetric(R, X), NEW u, InOrder(u, X, R)
  PROVE  Queries!Select(u, DOMAIN u) = u
<1>1. InOrder(Queries!Select(u, DOMAIN u), X, R)
        /\ Listed(Queries!Select(u, DOMAIN u)) = Listed(u)
  BY SelectInOrder DEF Listed
<1> QED
  BY <1>1, OneList

\* The limits a builder may have.
Limits == {None, 1, 2}

\* A page of an ordered list is an ordered list of some of its rows.
LEMMA SliceInOrder ==
  ASSUME None \notin Nat, NEW X, NEW R, NEW u, InOrder(u, X, R),
         NEW skip \in Limits, NEW take \in Limits
  PROVE  InOrder(Queries!Slice(u, skip, take), X, R)
           /\ Listed(Queries!Slice(u, skip, take)) \subseteq Listed(u)
<1> DEFINE rest == IF skip = None THEN u ELSE SubSeq(u, skip + 1, Len(u))
<1>1. u \in Seq(X) /\ \A i, j \in DOMAIN u : i < j => <<u[i], u[j]>> \in R
  BY DEF InOrder
<1>2. u \in [1..Len(u) -> X] /\ Len(u) \in Nat /\ DOMAIN u = 1..Len(u)
  BY ONLY <1>1
<1>3. InOrder(rest, X, R) /\ Listed(rest) \subseteq Listed(u)
  <2>1. CASE skip = None
    BY <2>1, <1>1 DEF InOrder
  <2>2. CASE skip \in Nat
    <3>1. skip # None
      BY <2>2
    <3>2. /\ rest \in Seq(X) /\ DOMAIN rest \subseteq Nat
          /\ \A i \in DOMAIN rest : i + skip \in DOMAIN u /\ rest[i] = u[i + skip]
      BY <1>1, <1>2, <2>2, <3>1
    <3> HIDE DEF rest
    <3>3. \A i, j \in DOMAIN rest : i < j => <<rest[i], rest[j]>> \in R
      BY <1>1, <2>2, <3>2
    <3> QED
      BY <3>2, <3>3 DEF InOrder, Listed
  <2> QED
    BY <2>1, <2>2 DEF Limits
<1>4. ASSUME NEW w, InOrder(w, X, R), Listed(w) \subseteq Listed(u), take \in Nat,
               ~(take >= Len(w))
      PROVE  InOrder(SubSeq(w, 1, take), X, R)
               /\ Listed(SubSeq(w, 1, take)) \subseteq Listed(u)
  <2> DEFINE z == SubSeq(w, 1, take)
  <2>1. w \in Seq(X) /\ \A i, j \in DOMAIN w : i < j => <<w[i], w[j]>> \in R
    BY <1>4 DEF InOrder
  <2>2. w \in [1..Len(w) -> X] /\ Len(w) \in Nat /\ DOMAIN w = 1..Len(w)
    BY ONLY <2>1
  <2>3. z \in Seq(X) /\ \A i \in DOMAIN z : i \in DOMAIN w /\ z[i] = w[i]
    BY <1>4, <2>1, <2>2
  <2> HIDE DEF z
  <2>4. \A i, j \in DOMAIN z : i < j => <<z[i], z[j]>> \in R
    BY <2>1, <2>3
  <2>5. Listed(z) \subseteq Listed(w)
    BY <2>3 DEF Listed
  <2> QED
    BY <1>4, <2>3, <2>4, <2>5 DEF InOrder, z
<1>5. Queries!Slice(u, skip, take) = IF take = None
        \/ take >= Len(rest) THEN rest ELSE SubSeq(rest, 1, take)
  BY DEF Queries!Slice
<1> HIDE DEF rest
<1>6. take = None \/ take \in Nat
  BY DEF Limits
<1> QED
  BY <1>3, <1>4, <1>5, <1>6

\* A query without a page has all its rows.
LEMMA SliceOfAll == ASSUME NEW u PROVE Queries!Slice(u, None, None) = u
  BY DEF Queries!Slice

-----------------------------------------------------------------------------
(* Queries: where SQL computes what the memory does.                       *)

\* No comparison with a Null.
SqlMatches(t, f) ==
    f # None => /\ f.value # Null
                /\ f.op = "lt" \/ (f.op = "in" /\ Null \in f.value) =>
                       \A i \in DOMAIN t : t[i].v # Null

\* A row satisfies a clause of SQL exactly if it passes the filter in memory, where no
\* Null is compared.
LEMMA FiltersAgree ==
  ASSUME Queries!QueryAssumption, NEW t \in QueryTables,
         NEW f \in QueryFilters \cup {None}, SqlMatches(t, f),
         NEW i \in DOMAIN t
  PROVE  Queries!MatchesSql(t[i], f) <=> Queries!Matches(t[i], f)
<1>1. t[i].v \in Queries!Scalars
  <2>1. t \in Seq(TableRows)
    BY TablesAre DEF IsTable
  <2>2. t[i] \in TableRows
    BY <2>1
  <2> QED
    BY <2>2 DEF TableRows
<1>2. CASE f = None
  BY <1>2 DEF Queries!MatchesSql, Queries!Matches
<1>3. CASE f # None /\ t[i].v # Null
  BY <1>3 DEF Queries!MatchesSql, SqlMatches
<1>4. CASE f # None /\ t[i].v = Null
  <2>1. f.value # Null /\ f.op # "lt" /\ ~(f.op = "in" /\ Null \in f.value)
    BY <1>4 DEF SqlMatches
  <2>2. f \in [op : {"eq", "gt", "lt"}, value : Queries!Scalars] \cup [op : {"in"},
          value : SUBSET Queries!Scalars]
    BY <1>4 DEF Queries!QueryAssumption
  <2>3. ~Queries!MatchesSql(t[i], f)
    BY <1>4 DEF Queries!MatchesSql
  <2>4. CASE f.op = "eq"
    BY <1>4, <2>1, <2>3, <2>4 DEF Queries!Matches
  <2>5. CASE f.op = "in"
    BY <1>4, <2>1, <2>3, <2>5 DEF Queries!Matches
  <2>6. CASE f.op = "gt"
    <3>1. Queries!Rank(t[i].v) = 0
      BY <1>4 DEF Queries!Rank
    <3>2. Queries!Rank(f.value) \in Nat
      BY <2>2, <2>6, RankNat
    <3> QED
      BY <1>4, <2>3, <2>6, <3>1, <3>2 DEF Queries!Matches
  <2> QED
    BY <2>1, <2>2, <2>4, <2>5, <2>6
<1> QED
  BY <1>2, <1>3, <1>4

\* Then SQL keeps the rows of a table that memory keeps.
LEMMA KeptAgree ==
  ASSUME Queries!QueryAssumption, NEW t \in QueryTables,
         NEW p, p.filter \in QueryFilters \cup {None},
         SqlMatches(t, p.filter)
  PROVE  Queries!KeptBySql(p, t) = Queries!Kept(p, t)
<1>1. {i \in DOMAIN t : Queries!MatchesSql(t[i],
        p.filter)} = {i \in DOMAIN t : Queries!Matches(t[i], p.filter)}
  BY FiltersAgree
<1> QED
  BY <1>1 DEF Queries!KeptBySql, Queries!Kept, Queries!Matching

\* A sum is over some value where no row lacks one.
LEMMA TotalsAgree ==
  ASSUME NEW X, NEW R, Asymmetric(R, X), NEW u, InOrder(u, X, R), u # <<>>, NEW fn,
         fn = "sum" => \A i \in DOMAIN u : u[i].v # Null
  PROVE  Queries!Total(fn, u, TRUE) = Queries!Total(fn, u, FALSE)
<1>1. CASE fn # "sum"
  BY <1>1 DEF Queries!Total
<1>2. CASE fn = "sum"
  <2>1. {i \in DOMAIN u : u[i].v # Null} = DOMAIN u
    BY <1>2
  <2>2. Queries!Select(u, {i \in DOMAIN u : u[i].v # Null}) = u
    BY <2>1, SelectAll
  <2>3. Queries!Values(u) = [i \in DOMAIN u |-> u[i].v]
    BY <2>2 DEF Queries!Values
  <2>4. DOMAIN u # {}
    BY DEF InOrder
  <2>5. Queries!Values(u) # <<>>
    BY <2>3, <2>4
  <2> HIDE DEF Queries!Values
  <2> QED
    BY <1>2, <2>5 DEF Queries!Total
<1> QED
  BY <1>1, <1>2

-----------------------------------------------------------------------------
(* Queries: the groups of rows.                                            *)

\* The least of some numbers.
LEMMA Smallest ==
  ASSUME NEW S \in SUBSET Nat, IsFiniteSet(S), S # {}
  PROVE  \E m \in S : \A x \in S : m <= x
<1> DEFINE b == [x \in S |-> {y \in S : y < x}]
           e == Queries!Enumerated(S, b)
           n == Cardinality(S)
<1>1. /\ \A x \in S : b[x] \subseteq S /\ x \notin b[x]
      /\ \A x, y \in S : x \in b[y] => b[x] \subseteq b[y]
      /\ \A x, y \in S : x = y \/ x \in b[y] \/ y \in b[x]
      /\ \A x, y \in S : y \in b[x] => y < x
  <2>1. \A x, y \in S : y \in b[x] <=> y < x
    OBVIOUS
  <2>2. \A x \in S : b[x] \subseteq S
    OBVIOUS
  <2> HIDE DEF b
  <2>3. \A x, y \in S : x \in b[y] => b[x] \subseteq b[y]
    <3> SUFFICES ASSUME NEW x \in S, NEW y \in S, x \in b[y], NEW z \in b[x] PROVE z \in b[y]
      OBVIOUS
    <3>1. z \in S /\ z < x /\ x < y
      BY <2>1, <2>2
    <3> QED
      BY <2>1, <3>1
  <2> QED
    BY <2>1, <2>2, <2>3
<1> HIDE DEF b
<1>2. /\ n \in Nat /\ e \in [1..n -> S] /\ Listed(e) = S
      /\ \A j, k \in 1..n : j < k => e[j] \in b[e[k]] /\ e[j] # e[k]
  BY <1>1, Enumeration
<1> HIDE DEF e, n
<1>3. n # 0
  <2> SUFFICES ASSUME n = 0 PROVE FALSE
    OBVIOUS
  <2>1. Listed(e) = {}
    BY <1>2 DEF Listed
  <2> QED
    BY <1>2, <2>1
<1>4. 1 \in 1..n /\ e[1] \in S
  BY <1>2, <1>3
<1>5. ASSUME NEW x \in S PROVE e[1] <= x
  <2>1. PICK k \in 1..n : e[k] = x
    BY <1>2 DEF Listed
  <2>2. CASE k = 1
    BY <1>4, <2>1, <2>2
  <2>3. CASE k # 1
    <3>1. 1 < k
      BY <1>2, <2>3
    <3>2. e[1] \in b[x]
      BY <1>2, <1>4, <2>1, <3>1
    <3>3. e[1] < x
      BY <1>1, <1>4, <3>2
    <3>4. e[1] \in Nat /\ x \in Nat
      BY <1>4
    <3> QED
      BY <3>3, <3>4
  <2> QED
    BY <2>2, <2>3
<1> QED
  BY <1>4, <1>5

\* A list has each of its elements once.
EachOnce(u, S) ==
    \E n \in Nat : /\ u \in [1..n -> S] /\ Listed(u) = S
                   /\ \A i, j \in 1..n : i < j => u[i] # u[j]

\* The groups' keys in their order, as SQL has them.
LEMMA KeysBySql ==
  ASSUME NEW u \in Seq(TableRows)
  PROVE  EachOnce(Queries!GroupKeys(u, TRUE), Queries!Groups(u))
<1> DEFINE G == Queries!Groups(u)
           b == [key \in G |-> {g \in G : Queries!Rank(g) < Queries!Rank(key)}]
           f == [j \in 1..Len(u) |-> u[j].parent]
<1>1. u \in [1..Len(u) -> TableRows] /\ Len(u) \in Nat /\ DOMAIN u = 1..Len(u)
  OBVIOUS
<1>2. G \in SUBSET Queries!Scalars
  BY <1>1 DEF Queries!Groups, TableRows
<1>3. IsFiniteSet(G)
  <2> DEFINE D == 1..Len(u)
  <2>1. f \in [D -> G] /\ \A g \in G : \E j \in D : f[j] = g
    BY <1>1 DEF Queries!Groups
  <2>2. IsFiniteSet(D)
    BY <1>1, FS_Interval
  <2> HIDE DEF f, G, D
  <2>3. f \in Surjection(D, G)
    BY <2>1, Fun_IsSurj
  <2> QED
    BY <2>2, <2>3, FS_Surjection
<1>4. /\ \A x \in G : Queries!Rank(x) \in Nat
      /\ \A x, y \in G : Queries!Rank(x) = Queries!Rank(y) => x = y
  <2>1. \A x \in Queries!Scalars : Queries!Rank(x) \in Nat
    BY RankNat
  <2>2. \A x, y \in Queries!Scalars : Queries!Rank(x) = Queries!Rank(y) => x = y
    BY DEF Queries!Scalars, Queries!Rank
  <2> QED
    BY <1>2, <2>1, <2>2
<1>5. \A x, y \in G : x \in b[y] <=> Queries!Rank(x) < Queries!Rank(y)
  OBVIOUS
<1>6. \A x \in G : b[x] \subseteq G
  OBVIOUS
<1>7. Queries!GroupKeys(u, TRUE) = Queries!Enumerated(G, b)
  BY DEF Queries!GroupKeys, Queries!KeysInOrder
<1> HIDE DEF G, b
<1>8. /\ \A x \in G : b[x] \subseteq G /\ x \notin b[x]
      /\ \A x, y \in G : x \in b[y] => b[x] \subseteq b[y]
      /\ \A x, y \in G : x = y \/ x \in b[y] \/ y \in b[x]
  <2>1. \A x \in G : x \notin b[x]
    BY <1>4, <1>5
  <2>2. ASSUME NEW x \in G, NEW y \in G, NEW z \in G, x \in b[y], z \in b[x]
                 PROVE z \in b[y]
    BY <1>4, <1>5, <2>2
  <2>3. \A x, y \in G : x = y \/ x \in b[y] \/ y \in b[x]
    BY <1>4, <1>5
  <2> QED
    BY <1>6, <2>1, <2>2, <2>3
<1> DEFINE n == Cardinality(G)
           e == Queries!Enumerated(G, b)
<1>9. /\ n \in Nat /\ e \in [1..n -> G] /\ Listed(e) = G
      /\ \A j, k \in 1..n : j < k => e[j] \in b[e[k]] /\ e[j] # e[k]
  BY <1>3, <1>8, Enumeration
<1> HIDE DEF n, e
<1>10. EachOnce(e, G)
  BY <1>9 DEF EachOnce
<1> QED
  BY <1>7, <1>10 DEF e, G

\* The groups' keys as memory meets them: that of the first row of each.
LEMMA KeysInMemory ==
  ASSUME NEW X \in SUBSET TableRows, NEW R, Asymmetric(R, X), NEW u, InOrder(u, X, R)
  PROVE  EachOnce(Queries!GroupKeys(u, FALSE), Queries!Groups(u))
<1> DEFINE P == {i \in DOMAIN u : \A j \in DOMAIN u : u[j].parent = u[i].parent => i <= j}
           w == Queries!Select(u, P)
           G == Queries!Groups(u)
           keys == Queries!GroupKeys(u, FALSE)
           n == Len(w)
<1>1. DOMAIN u \subseteq Nat /\ IsFiniteSet(DOMAIN u)
  <2>1. DOMAIN u = 1..Len(u) /\ Len(u) \in Nat
    BY DEF InOrder
  <2> QED
    BY <2>1, FS_Interval
<1>2. InOrder(w, X, R) /\ Listed(w) = {u[i] : i \in P}
  BY SelectInOrder
<1>3. w = Queries!FirstOfGroup(u)
  BY DEF Queries!FirstOfGroup
<1>4. ASSUME NEW i \in DOMAIN u PROVE \E h \in P : u[h].parent = u[i].parent
  <2> DEFINE S == {j \in DOMAIN u : u[j].parent = u[i].parent}
  <2>1. S \in SUBSET Nat /\ S # {} /\ IsFiniteSet(S)
    BY <1>1, FS_Subset
  <2>2. PICK h \in S : \A x \in S : h <= x
    BY <2>1, Smallest
  <2> QED
    BY <2>2
<1>5. \A g, h \in P : u[g].parent = u[h].parent => g = h
  BY <1>1
<1>6. keys = [i \in DOMAIN w |-> w[i].parent]
  BY <1>3 DEF Queries!GroupKeys
<1> HIDE DEF P, w, keys
<1>7. /\ n \in Nat /\ DOMAIN w = 1..n
      /\ \A k \in 1..n : w[k] \in X
      /\ \A j, k \in 1..n : j < k => <<w[j], w[k]>> \in R
  <2>1. w \in Seq(X)
    BY <1>2 DEF InOrder
  <2>2. \A j, k \in DOMAIN w : j < k => <<w[j], w[k]>> \in R
    BY <1>2 DEF InOrder
  <2>3. n \in Nat /\ DOMAIN w = 1..n /\ \A k \in 1..n : w[k] \in X
    BY <2>1
  <2> QED
    BY <2>2, <2>3
<1> HIDE DEF n
<1>8. ASSUME NEW i \in 1..n PROVE \E h \in P : w[i] = u[h]
  BY <1>2, <1>7 DEF Listed
<1>9. P \subseteq DOMAIN u
  BY DEF P
<1>10. keys \in [1..n -> G] /\ \A i \in 1..n : keys[i] = w[i].parent
  <2>1. \A i \in 1..n : w[i].parent \in G
    BY <1>8, <1>9 DEF Queries!Groups
  <2> HIDE DEF G
  <2> QED
    BY <1>6, <1>7, <2>1
<1>11. Listed(keys) = G
  <2>1. ASSUME NEW g \in G PROVE \E i \in 1..n : keys[i] = g
    <3>1. PICK i \in DOMAIN u : u[i].parent = g
      BY DEF Queries!Groups
    <3>2. PICK h \in P : u[h].parent = g
      BY <1>4, <3>1
    <3>3. PICK k \in 1..n : w[k] = u[h]
      BY <1>2, <1>7 DEF Listed
    <3> QED
      BY <1>10, <3>2, <3>3
  <2> HIDE DEF G
  <2>2. DOMAIN keys = 1..n
    BY <1>10
  <2> QED
    BY <1>10, <2>1, <2>2 DEF Listed
<1>12. \A i, j \in 1..n : i < j => keys[i] # keys[j]
  <2> SUFFICES ASSUME NEW i \in 1..n, NEW j \in 1..n, i < j, keys[i] = keys[j] PROVE FALSE
    OBVIOUS
  <2>1. PICK g \in P : w[i] = u[g]
    BY <1>8
  <2>2. PICK h \in P : w[j] = u[h]
    BY <1>8
  <2>3. g = h
    BY <1>5, <1>10, <2>1, <2>2
  <2>4. w[i] = w[j] /\ <<w[i], w[j]>> \in R /\ w[i] \in X
    BY <1>7, <2>1, <2>2, <2>3
  <2> QED
    BY <2>4 DEF Asymmetric
<1> HIDE DEF G
<1>13. EachOnce(keys, G)
  BY <1>7, <1>10, <1>11, <1>12 DEF EachOnce
<1> QED
  BY <1>13 DEF keys, G

\* The rows of the table at some places are in the table's order.
LEMMA RowsAt ==
  ASSUME Queries!QueryAssumption, table \in QueryTables, NEW P \in SUBSET DOMAIN table
  PROVE  LET X == Listed(table)
             R == RowOrder(table, None)
             w == Queries!Select(table, P)
         IN  /\ X \in SUBSET TableRows /\ Asymmetric(R, X) /\ InOrder(w, X, R)
             /\ Listed(w) = {table[i] : i \in P} /\ DOMAIN w = 1..Cardinality(P)
             /\ Cardinality(P) \in Nat /\ Len(w) = Cardinality(P)
<1> DEFINE X == Listed(table)
           R == RowOrder(table, None)
           w == Queries!Select(table, P)
<1>1. IsTable(table) /\ NoneApart
  BY TablesAre DEF Queries!QueryAssumption, NoneApart
<1>2. X \in SUBSET TableRows /\ Asymmetric(R, X) /\ InOrder(table, X, R)
  BY <1>1, OrderIsStrict, TableInOrder DEF Queries!Orders
<1> HIDE DEF X, R
<1>3. InOrder(w, X, R) /\ Listed(w) = {table[i] : i \in P}
  BY <1>2, SelectInOrder
<1>4. DOMAIN w = 1..Cardinality(P)
  BY SameCount DEF Queries!Select, Queries!Enumerated
<1>5. Cardinality(P) \in Nat
  <2>1. DOMAIN table = 1..Len(table) /\ Len(table) \in Nat
    BY <1>1 DEF IsTable
  <2>2. IsFiniteSet(DOMAIN table)
    BY <2>1, FS_Interval
  <2> QED
    BY <2>2, FS_Subset, FS_CardinalityType
<1> HIDE DEF w
<1>6. Len(w) = Cardinality(P)
  <2>1. w \in Seq(X)
    BY <1>3 DEF InOrder
  <2>2. Len(w) \in Nat /\ DOMAIN w = 1..Len(w)
    BY <2>1
  <2> QED
    BY <1>4, <1>5, <2>2
<1> QED
  BY <1>2, <1>3, <1>4, <1>5, <1>6 DEF X, R, w

\* An aggregate over the rows at some places is what those places say.
LEMMA TotalTallied ==
  ASSUME Queries!QueryAssumption, table \in QueryTables, NEW P \in SUBSET DOMAIN table,
         NEW fn \in {"count", "sum", "max"}
  PROVE  Queries!Total(fn, Queries!Select(table, P), FALSE) = Queries!Tallied(fn, P)
<1> DEFINE X == Listed(table)
           R == RowOrder(table, None)
           w == Queries!Select(table, P)
           vs == Queries!Values(w)
           worth == {table[i].v : i \in {k \in P : table[k].v # Null}}
<1>1. /\ Asymmetric(R, X) /\ InOrder(w, X, R) /\ Listed(w) = {table[i] : i \in P}
      /\ Len(w) = Cardinality(P)
  BY RowsAt
<1>2. CASE fn = "count"
  BY <1>1, <1>2, SameCount DEF Queries!Total, Queries!Tallied
<1>3. CASE fn = "sum"
  BY <1>3 DEF Queries!Total, Queries!Tallied
<1>4. CASE fn = "max"
  <2> DEFINE V == {i \in DOMAIN w : w[i].v # Null}
             z == Queries!Select(w, V)
  <2> HIDE DEF X, R, w
  <2>1. InOrder(z, X, R) /\ Listed(z) = {w[i] : i \in V}
    BY <1>1, SelectInOrder
  <2>2. vs = [i \in DOMAIN z |-> z[i].v]
    BY DEF Queries!Values
  <2>3. Listed(z) = {x \in Listed(w) : x.v # Null}
    BY <2>1 DEF Listed
  <2> HIDE DEF V, z
  <2>4. Queries!Range(vs) = {x.v : x \in Listed(z)}
    BY <2>2 DEF Queries!Range, Listed
  <2>5. Queries!Range(vs) = worth
    BY <1>1, <2>3, <2>4
  <2>6. vs = <<>> <=> worth = {}
    <3>1. DOMAIN vs = DOMAIN z /\ (DOMAIN z = {} => z = <<>>)
      <4>1. z \in Seq(X)
        BY <2>1 DEF InOrder
      <4> QED
        BY <2>2, <4>1
    <3>2. DOMAIN vs = {} <=> Queries!Range(vs) = {}
      BY DEF Queries!Range
    <3>3. vs = <<>> <=> DOMAIN vs = {}
      BY <2>2
    <3> QED
      BY <2>5, <3>2, <3>3
  <2>7. Queries!Tallied(fn, P) = IF worth = {} THEN Null ELSE Queries!Max(worth)
    <3>1. worth = {} <=> {k \in P : table[k].v # Null} = {}
      OBVIOUS
    <3> QED
      BY <1>4, <3>1 DEF Queries!Tallied
  <2>8. Queries!Total(fn, w, FALSE) = IF vs = <<>> THEN Null ELSE Queries!Max(Queries!Range(vs))
    BY <1>4 DEF Queries!Total
  <2> QED
    BY <2>5, <2>6, <2>7, <2>8 DEF w
<1> QED
  BY <1>2, <1>3, <1>4

-----------------------------------------------------------------------------
(* Queries: what a call returns.                                           *)

\* An order is of the rows, or of the groups of an aggregated query.
OrderFits(b) ==
    IF b.total = None THEN b.order \in Queries!Orders
    ELSE b.order \in Queries!GroupOrders /\ (b.order = "countDesc" => b.total.fn = "count")

Options == [filter : QueryFilters \cup {None}, order : Queries!Orders \cup Queries!GroupOrders,
            join : Queries!Joins, total : Queries!Totals \cup {None}, take : Limits, skip : Limits]
Builders == {b \in Options : OrderFits(b)}

\* Which rows a join keeps.
KeptByJoin(x, join) == join = "inner" => x.parent # Null

\* A join keeps the order of the rows it keeps, and any other than an inner one keeps all.
LEMMA JoinedInOrder ==
  ASSUME NEW X, NEW R, Asymmetric(R, X), NEW u, InOrder(u, X, R), NEW join
  PROVE  /\ InOrder(Queries!Joined(u, join), X, R)
         /\ Listed(Queries!Joined(u, join)) = {x \in Listed(u) : KeptByJoin(x, join)}
         /\ join # "inner" => Queries!Joined(u, join) = u
<1> DEFINE P == {i \in DOMAIN u : join = "inner" => u[i].parent # Null}
<1>1. InOrder(Queries!Select(u, P), X, R) /\ Listed(Queries!Select(u, P)) = {u[i] : i \in P}
  BY SelectInOrder
<1>2. {u[i] : i \in P} = {x \in Listed(u) : KeptByJoin(x, join)}
  BY DEF Listed, KeptByJoin
<1>3. ASSUME join # "inner" PROVE Queries!Select(u, P) = u
  <2>1. P = DOMAIN u
    BY <1>3
  <2> HIDE DEF P
  <2> QED
    BY <2>1, SelectAll
<1> QED
  BY <1>1, <1>2, <1>3 DEF Queries!Joined

\* Entities a driver has filtered, ordered and perhaps paged, joined and ordered again in
\* memory, are those the builder asks for.
LEMMA EntitiesAgree ==
  ASSUME Queries!QueryAssumption, NEW t \in QueryTables, NEW b \in Builders,
         NEW all \in BOOLEAN,
         SqlMatches(t, b.filter), b.total = None
  PROVE  LET p == Queries!Plan(b, all)
             got == Queries!Sorted(
                      Queries!Joined(Queries!Matching(Queries!CompiledPlan(p, t), b.filter), b.join),
                      b.order)
             want == Queries!Sorted(Queries!Joined(Queries!Matching(t, b.filter),
               b.join), b.order)
         IN  /\ p.take = None /\ p.skip = None => got = want
             /\ b.join # "inner" /\ b.order # "parent" =>
                  got = Queries!Slice(want, p.skip, p.take)
<1> DEFINE p == Queries!Plan(b, all)
           X == Listed(t)
           R == RowOrder(t, None)
           Q == RowOrder(t, p.order)
           K == Queries!Matching(t, b.filter)
           s == Queries!Sorted(K, p.order)
           c == Queries!CompiledPlan(p, t)
<1>1. /\ p.filter = b.filter /\ p.total = None /\ p.take \in Limits /\ p.skip \in Limits
      /\ p.order = IF b.order = "parent" THEN None ELSE b.order
      /\ b.order \in Queries!Orders /\ p.order \in Queries!Orders /\ None \in Queries!Orders
      /\ b.filter \in QueryFilters \cup {None}
  <2>1. b.order \in Queries!Orders
    BY DEF Builders, OrderFits
  <2> QED
    BY <2>1 DEF Queries!Plan, Builders, Options, Limits, Queries!Orders
<1>2. IsTable(t) /\ NoneApart /\ None \notin Nat
  BY TablesAre DEF Queries!QueryAssumption, NoneApart
<1>3. Asymmetric(R, X) /\ Asymmetric(Q, X) /\ InOrder(t, X, R)
  BY <1>1, <1>2, OrderIsStrict, TableInOrder
<1>4. InOrder(K, X, R) /\ Listed(K) = {x \in X : Queries!Matches(x, b.filter)}
  <2> DEFINE P == {i \in DOMAIN t : Queries!Matches(t[i], b.filter)}
  <2>1. InOrder(Queries!Select(t, P), X, R)
          /\ Listed(Queries!Select(t, P)) = {t[i] : i \in P}
    BY <1>3, SelectInOrder
  <2>2. {t[i] : i \in P} = {x \in X : Queries!Matches(x, b.filter)}
    BY DEF Listed
  <2> QED
    BY <2>1, <2>2 DEF Queries!Matching
<1>5. c = Queries!Slice(s, p.skip, p.take)
  <2>1. Queries!KeptBySql(p, t) = Queries!Kept(p, t)
    <3>1. p.filter = b.filter
      BY <1>1
    <3>2. SqlMatches(t, p.filter) /\ p.filter \in QueryFilters \cup {None}
      BY <1>1, <3>1
    <3> HIDE DEF p
    <3> QED
      BY <3>2, KeptAgree
  <2> QED
    BY <1>1, <2>1 DEF Queries!CompiledPlan, Queries!Kept
<1>6. \A u : InOrder(u, X, R) => InOrder(Queries!Sorted(u, p.order), X, Q)
        /\ Listed(Queries!Sorted(u, p.order)) = Listed(u)
  BY <1>1, <1>2, SortedTable
<1>7. \A u : InOrder(u, X, Q) => Queries!Sorted(u, p.order) = u
  BY <1>1, <1>2, SortedTable
<1>8. \A u : InOrder(u, X, R) => Queries!Sorted(u, None) = u
  BY <1>1, <1>2, SortedTable
<1> HIDE DEF p, X, R, Q, K
<1>9. InOrder(s, X, Q) /\ Listed(s) = Listed(K)
  BY <1>4, <1>6
<1>10. InOrder(c, X, Q) /\ Listed(c) \subseteq Listed(K)
  BY <1>1, <1>2, <1>5, <1>9, SliceInOrder
<1> HIDE DEF c
<1>11. Queries!Matching(c, b.filter) = c
  <2>1. \A i \in DOMAIN c : Queries!Matches(c[i], b.filter)
    BY <1>4, <1>10 DEF Listed
  <2>2. {i \in DOMAIN c : Queries!Matches(c[i], b.filter)} = DOMAIN c
    BY <2>1
  <2>3. Queries!Select(c, DOMAIN c) = c
    BY <1>3, <1>10, SelectAll
  <2> QED
    BY <2>2, <2>3 DEF Queries!Matching
<1>12. ASSUME p.take = None, p.skip = None
       PROVE  Queries!Sorted(Queries!Joined(c, b.join),
                b.order) = Queries!Sorted(Queries!Joined(K, b.join), b.order)
  <2>1. c = s
    BY <1>5, <1>12, SliceOfAll
  <2>2. CASE b.order = "parent"
    BY <1>1, <1>4, <1>8, <2>1, <2>2
  <2>3. CASE b.order # "parent"
    <3>1. /\ InOrder(Queries!Joined(s, b.join), X, Q)
          /\ Listed(Queries!Joined(s, b.join)) = {x \in Listed(s) : KeptByJoin(x, b.join)}
      BY <1>3, <1>9, JoinedInOrder
    <3>2. /\ InOrder(Queries!Joined(K, b.join), X, R)
          /\ Listed(Queries!Joined(K, b.join)) = {x \in Listed(K) : KeptByJoin(x, b.join)}
      BY <1>3, <1>4, JoinedInOrder
    <3>3. /\ InOrder(Queries!Sorted(Queries!Joined(K, b.join), p.order), X, Q)
          /\ Listed(Queries!Sorted(Queries!Joined(K, b.join),
               p.order)) = Listed(Queries!Joined(K, b.join))
      BY <1>6, <3>2
    <3>4. Listed(Queries!Sorted(Queries!Joined(K, b.join),
            p.order)) = Listed(Queries!Joined(s, b.join))
      BY <1>9, <3>1, <3>2, <3>3
    <3>5. Queries!Sorted(Queries!Joined(K, b.join), p.order) = Queries!Joined(s, b.join)
      BY <1>3, <3>1, <3>3, <3>4, OneList
    <3>6. Queries!Sorted(Queries!Joined(s, b.join), p.order) = Queries!Joined(s, b.join)
      BY <1>7, <3>1
    <3> QED
      BY <1>1, <2>1, <2>3, <3>5, <3>6
  <2> QED
    BY <2>2, <2>3
<1>13. ASSUME b.join # "inner", b.order # "parent"
       PROVE  Queries!Sorted(Queries!Joined(c, b.join), b.order)
                = Queries!Slice(Queries!Sorted(Queries!Joined(K, b.join), b.order),
                  p.skip, p.take)
  <2>1. Queries!Joined(c, b.join) = c /\ Queries!Joined(K, b.join) = K
    BY <1>3, <1>4, <1>10, <1>13, JoinedInOrder
  <2>2. Queries!Sorted(c, p.order) = c
    BY <1>7, <1>10
  <2> QED
    BY <1>1, <1>5, <1>13, <2>1, <2>2
<1> QED
  BY <1>11, <1>12, <1>13 DEF p, c, K

\* The rows of a group, in the table's order.
LEMMA GroupAt ==
  ASSUME Queries!QueryAssumption, table \in QueryTables, NEW P \in SUBSET DOMAIN table, NEW key
  PROVE  Queries!Group(Queries!Select(table, P), key)
           = Queries!Select(table, {i \in P : table[i].parent = key})
<1> DEFINE X == Listed(table)
           R == RowOrder(table, None)
           K == Queries!Select(table, P)
           V == {i \in DOMAIN K : K[i].parent = key}
           I == {i \in P : table[i].parent = key}
<1>1. Asymmetric(R, X) /\ InOrder(K, X, R) /\ Listed(K) = {table[i] : i \in P}
  BY RowsAt
<1>2. I \in SUBSET DOMAIN table
  OBVIOUS
<1>3. InOrder(Queries!Select(table, I), X, R)
        /\ Listed(Queries!Select(table, I)) = {table[i] : i \in I}
  <2> HIDE DEF I
  <2> QED
    BY <1>2, RowsAt
<1> HIDE DEF X, R, K
<1>4. InOrder(Queries!Select(K, V), X, R) /\ Listed(Queries!Select(K, V)) = {K[i] : i \in V}
  BY <1>1, SelectInOrder
<1>5. {K[i] : i \in V} = {x \in Listed(K) : x.parent = key}
  BY DEF Listed
<1>6. {table[i] : i \in I} = {x \in Listed(K) : x.parent = key}
  BY <1>1
<1> HIDE DEF V, I
<1>7. Queries!Select(K, V) = Queries!Select(table, I)
  BY <1>1, <1>3, <1>4, <1>5, <1>6, OneList
<1> QED
  BY <1>7 DEF Queries!Group, V, I, K

\* The rows that match, and the group of one key.
Hits(b) == {i \in DOMAIN table : Queries!Matches(table[i], b.filter)}
HitsOf(b, key) == {i \in Hits(b) : table[i].parent = key}
GroupOf(b, key) == [key |-> key, total |-> Queries!Tallied(b.total.fn, HitsOf(b, key))]

\* What SQL needs to compute totals as the memory does.
SqlTotals(b) ==
    /\ b.total.fn = "sum" => \A i \in DOMAIN table : table[i].v # Null
    /\ b.total.grouped \/ Queries!Matching(table, b.filter) # <<>>

\* A list without elements is empty.
LEMMA EmptyList == ASSUME NEW X, NEW u \in Seq(X) PROVE u = <<>> <=> Listed(u) = {}
<1>1. u # <<>> => 1 \in DOMAIN u
  OBVIOUS
<1>2. u = <<>> => DOMAIN u = {}
  OBVIOUS
<1> QED
  BY <1>1, <1>2 DEF Listed

\* The total over some rows of the table, in either engine.
LEMMA TotalAt ==
  ASSUME Queries!QueryAssumption, table \in QueryTables, NEW P \in SUBSET DOMAIN table, P # {},
         NEW fn \in {"count", "sum", "max"}, NEW sql \in BOOLEAN,
         sql /\ fn = "sum" => \A i \in DOMAIN table : table[i].v # Null
  PROVE  Queries!Total(fn, Queries!Select(table, P), sql) = Queries!Tallied(fn, P)
<1> DEFINE X == Listed(table)
           R == RowOrder(table, None)
           w == Queries!Select(table, P)
<1>1. Asymmetric(R, X) /\ InOrder(w, X, R) /\ Listed(w) = {table[i] : i \in P}
  BY RowsAt
<1>2. Queries!Total(fn, w, FALSE) = Queries!Tallied(fn, P)
  BY TotalTallied
<1> HIDE DEF X, R, w
<1>3. ASSUME sql = TRUE
      PROVE  Queries!Total(fn, w, TRUE) = Queries!Total(fn, w, FALSE)
  <2>1. w # <<>>
    <3>1. Listed(w) # {} /\ w \in Seq(X)
      BY <1>1 DEF InOrder
    <3> QED
      BY <3>1, EmptyList
  <2>2. ASSUME fn = "sum", NEW j \in DOMAIN w PROVE w[j].v # Null
    <3>1. w[j] \in Listed(w)
      BY DEF Listed
    <3> QED
      BY <1>1, <1>3, <2>2, <3>1
  <2> QED
    BY <1>1, <2>1, <2>2, TotalsAgree
<1> QED
  BY <1>2, <1>3 DEF w

\* An aggregated query has each of the groups that are wanted, once.
LEMMA GroupsAnswer ==
  ASSUME Queries!QueryAssumption, table \in QueryTables, NEW b, b.total \in Queries!Totals,
         NEW sql \in BOOLEAN, sql => SqlTotals(b)
  PROVE  EachOnce(Queries!Aggregated(Queries!Matching(table, b.filter), b.total, sql),
                  Queries!WantedGroups(b))
<1> DEFINE K == Queries!Matching(table, b.filter)
           X == Listed(table)
           R == RowOrder(table, None)
           F == Queries!WantedGroups(b)
           A == Queries!Aggregated(K, b.total, sql)
           fn == b.total.fn
<1>1. Hits(b) \in SUBSET DOMAIN table /\ K = Queries!Select(table, Hits(b))
  BY DEF Hits, Queries!Matching
<1>2. /\ X \in SUBSET TableRows /\ Asymmetric(R, X) /\ InOrder(K, X, R)
      /\ Listed(K) = {table[i] : i \in Hits(b)}
  BY <1>1, RowsAt
<1>3. fn \in {"count", "sum", "max"} /\ b.total.grouped \in BOOLEAN
  BY DEF Queries!Totals
<1>4. sql /\ fn = "sum" => \A i \in DOMAIN table : table[i].v # Null
  BY DEF SqlTotals
<1> HIDE DEF K, X, R, A, F, fn
<1>5. CASE b.total.grouped
  <2> DEFINE keys == Queries!GroupKeys(K, sql)
             G == Queries!Groups(K)
  <2>1. EachOnce(keys, G)
    <3>1. K \in Seq(TableRows)
      BY <1>2 DEF InOrder
    <3>2. CASE sql = TRUE
      BY <3>1, <3>2, KeysBySql
    <3>3. CASE sql = FALSE
      BY <1>2, <3>3, KeysInMemory
    <3> QED
      BY <3>2, <3>3
  <2>2. G = {table[i].parent : i \in Hits(b)}
    BY <1>2 DEF Queries!Groups, Listed
  <2>3. ASSUME NEW key \in G
        PROVE  Queries!GroupRow(K, key, b.total, sql) = GroupOf(b, key)
    <3>1. Queries!Group(K, key) = Queries!Select(table, HitsOf(b, key))
      BY <1>1, GroupAt DEF HitsOf
    <3>2. HitsOf(b, key) \in SUBSET DOMAIN table /\ HitsOf(b, key) # {}
      BY <1>1, <2>2 DEF HitsOf
    <3> HIDE DEF G
    <3>3. Queries!Total(fn, Queries!Select(table, HitsOf(b, key)), sql)
            = Queries!Tallied(fn, HitsOf(b, key))
      BY <1>3, <1>4, <3>2, TotalAt
    <3> QED
      BY <3>1, <3>3 DEF Queries!GroupRow, GroupOf, fn
  <2>4. F = {GroupOf(b, key) : key \in G}
    <3>1. ASSUME NEW i \in Hits(b)
          PROVE  {j \in Hits(b) : b.total.grouped => table[j].parent = table[i].parent}
                   = HitsOf(b, table[i].parent)
      BY <1>5 DEF HitsOf
    <3>2. F = {[key |-> table[i].parent,
                total |-> Queries!Tallied(fn, HitsOf(b, table[i].parent))] : i \in Hits(b)}
      BY <1>5, <3>1 DEF Queries!WantedGroups, F, fn, Hits
    <3>3. F = {GroupOf(b, table[i].parent) : i \in Hits(b)}
      BY <3>2 DEF GroupOf, fn
    <3> QED
      BY <2>2, <3>3
  <2> HIDE DEF keys, G
  <2>5. PICK n \in Nat : /\ keys \in [1..n -> G] /\ Listed(keys) = G
                         /\ \A i, j \in 1..n : i < j => keys[i] # keys[j]
    BY <2>1 DEF EachOnce
  <2>6. A = [i \in 1..n |-> GroupOf(b, keys[i])]
    <3>1. A = [i \in DOMAIN keys |-> Queries!GroupRow(K, keys[i], b.total, sql)]
      BY <1>5 DEF Queries!Aggregated, A, keys
    <3> QED
      BY <2>3, <2>5, <3>1
  <2>7. A \in [1..n -> F] /\ Listed(A) = F
    <3>1. \A i \in 1..n : A[i] \in F
      BY <2>4, <2>5, <2>6
    <3>2. Listed(A) = {GroupOf(b, keys[i]) : i \in 1..n}
      BY <2>6 DEF Listed
    <3>3. G = {keys[i] : i \in 1..n}
      BY <2>5 DEF Listed
    <3> QED
      BY <2>4, <2>6, <3>1, <3>2, <3>3
  <2>8. \A i, j \in 1..n : i < j => A[i] # A[j]
    <3>1. \A k, l : GroupOf(b, k) = GroupOf(b, l) => k = l
      BY DEF GroupOf
    <3> QED
      BY <2>5, <2>6, <3>1
  <2>9. EachOnce(A, F)
    BY <2>7, <2>8 DEF EachOnce
  <2> QED
    BY <2>9 DEF A, F, K
<1>6. CASE ~b.total.grouped
  <2> DEFINE whole == [key |-> Null, total |-> Queries!Tallied(fn, Hits(b))]
  <2>1. F = {whole : i \in Hits(b)}
    <3>1. \A i \in Hits(b) :
             {j \in Hits(b) : b.total.grouped => table[j].parent = table[i].parent} = Hits(b)
      BY <1>6
    <3> QED
      BY <1>6, <3>1 DEF Queries!WantedGroups, F, fn, Hits
  <2>2. K = <<>> <=> Hits(b) = {}
    <3>1. K = <<>> <=> Listed(K) = {}
      <4>1. K \in Seq(X)
        BY <1>2 DEF InOrder
      <4> QED
        BY <4>1, EmptyList
    <3> QED
      BY <1>2, <3>1
  <2> HIDE DEF whole
  <2>3. CASE Hits(b) = {}
    <3>1. K = <<>> /\ ~sql
      BY <1>6, <2>2, <2>3 DEF SqlTotals, K
    <3>2. A = <<>>
      BY <1>6, <3>1 DEF Queries!Aggregated, A
    <3>3. F = {} /\ Listed(A) = {} /\ A \in [1..0 -> F]
      BY <2>1, <2>3, <3>2 DEF Listed
    <3>4. EachOnce(A, F)
      BY <3>3 DEF EachOnce
    <3> QED
      BY <3>4 DEF A, F, K
  <2>4. CASE Hits(b) # {}
    <3>1. K # <<>> /\ F = {whole}
      BY <2>1, <2>2, <2>4
    <3>2. Queries!Total(fn, K, sql) = Queries!Tallied(fn, Hits(b))
      BY <1>1, <1>3, <1>4, <2>4, TotalAt
    <3>3. A = <<whole>>
      BY <1>6, <3>1, <3>2 DEF Queries!Aggregated, A, whole, fn
    <3>4. A \in [1..1 -> F] /\ Listed(A) = F
      BY <3>1, <3>3 DEF Listed
    <3>5. \A i, j \in 1..1 : ~(i < j)
      OBVIOUS
    <3>6. EachOnce(A, F)
      BY <3>4, <3>5 DEF EachOnce
    <3> QED
      BY <3>6 DEF A, F, K
  <2> QED
    BY <2>3, <2>4
<1> QED
  BY <1>3, <1>5, <1>6

\* Groups are ranked by what they are ordered by.
LEMMA GroupsRanked ==
  ASSUME Queries!QueryAssumption, table \in QueryTables, NEW b, b.total \in Queries!Totals,
         OrderFits(b)
  PROVE  \E rank : Ranks(rank, Queries!WantedGroups(b), b.order)
<1> DEFINE F == Queries!WantedGroups(b)
           o == b.order
           key(x) == IF o = "key" THEN Queries!Rank(x.key)
                     ELSE IF o = "countDesc" THEN 0 - x.total ELSE 0
           rank == [x \in F |-> key(x)]
<1>1. NoneApart /\ b.total # None /\ IsTable(table)
  BY TablesAre DEF Queries!QueryAssumption, NoneApart
<1>2. o \in {None, "key", "countDesc"} /\ (o = "countDesc" => b.total.fn = "count")
  BY <1>1 DEF OrderFits, Queries!GroupOrders
<1>3. ASSUME NEW x \in F
      PROVE  /\ Queries!Rank(x.key) \in Nat
             /\ o = "countDesc" => x.total \in Nat
  <2> DEFINE like(i) == {j \in Hits(b) : b.total.grouped => table[j].parent = table[i].parent}
  <2>1. PICK i \in Hits(b) : x = [key |-> IF b.total.grouped THEN table[i].parent ELSE Null,
                                  total |-> Queries!Tallied(b.total.fn, like(i))]
    BY DEF Queries!WantedGroups, Hits
  <2>2. table[i] \in TableRows
    BY <1>1 DEF IsTable, Hits
  <2>3. x.key \in Queries!Scalars
    BY <2>1, <2>2 DEF TableRows, Queries!Scalars
  <2>4. ASSUME o = "countDesc" PROVE x.total \in Nat
    <3>1. like(i) \in SUBSET DOMAIN table
      BY DEF Hits
    <3>2. x.total = Queries!Tallied("count", like(i))
      BY <1>2, <2>1, <2>4
    <3> HIDE DEF like
    <3>3. Queries!Tallied("count", like(i)) = Cardinality(like(i))
      BY SameCount DEF Queries!Tallied
    <3>4. Cardinality(like(i)) \in Nat
      BY <3>1, RowsAt
    <3> QED
      BY <3>2, <3>3, <3>4
  <2> QED
    BY <2>3, <2>4, RankNat
<1> HIDE DEF F, o
<1>4. \A x \in F : key(x) \in Int
  BY <1>3
<1>5. \A x, y \in F : Queries!Before(o, x, y) <=> key(x) < key(y)
  <2>1. CASE o = "key"
    BY <1>3, <2>1 DEF Queries!Before
  <2>2. CASE o = "countDesc"
    BY <1>3, <2>2 DEF Queries!Before
  <2>3. CASE o = None
    BY <1>1, <2>3 DEF Queries!Before, NoneApart
  <2> QED
    BY <1>2, <2>1, <2>2, <2>3
<1> HIDE DEF key
<1>6. Ranks(rank, F, o)
  BY <1>4, <1>5 DEF Ranks
<1> QED
  BY <1>6 DEF F, o

\* Groups that are sorted are in one of their orders.
LEMMA SortedGroups ==
  ASSUME NEW F, NEW o, NEW rank, Ranks(rank, F, o), NEW A, EachOnce(A, F)
  PROVE  Queries!Sorted(A, o) \in Queries!Orderings(F, o)
<1>1. PICK n \in Nat : /\ A \in [1..n -> F] /\ Listed(A) = F
                       /\ \A i, j \in 1..n : i < j => A[i] # A[j]
  BY DEF EachOnce
<1> DEFINE R == {p \in F \X F : \E i, j \in 1..n : i < j /\ p[1] = A[i] /\ p[2] = A[j]}
           Q == {p \in F \X F : \/ Queries!Before(o, p[1], p[2])
                                \/ ~Queries!Before(o, p[2], p[1]) /\ p \in R}
           s == Queries!Sorted(A, o)
<1>2. InOrder(A, F, R)
  <2>1. A \in Seq(F) /\ DOMAIN A = 1..n
    BY <1>1
  <2>2. \A i, j \in 1..n : i < j => <<A[i], A[j]>> \in R
    BY <1>1
  <2> HIDE DEF R
  <2> QED
    BY <2>1, <2>2 DEF InOrder
<1>3. ASSUME NEW x \in F, NEW y \in F PROVE ~(<<x, y>> \in R /\ <<y, x>> \in R)
  <2> SUFFICES ASSUME NEW i \in 1..n, NEW j \in 1..n, i < j, x = A[i], y = A[j],
                      NEW k \in 1..n, NEW l \in 1..n, k < l, y = A[k], x = A[l]
               PROVE  FALSE
    OBVIOUS
  <2>1. \A g, h \in 1..n : A[g] = A[h] => g = h
    BY <1>1
  <2> HIDE DEF R, Q, s
  <2>2. i = l /\ j = k
    BY <2>1
  <2> QED
    BY <2>2
<1>4. \A x, y \in F : ~(Queries!Before(o, x, y) /\ Queries!Before(o, y, x))
  BY DEF Ranks
<1>5. Asymmetric(Q, F)
  BY <1>3, <1>4 DEF Asymmetric
<1>6. /\ \A x, y \in F : Queries!Before(o, x, y) => <<x, y>> \in Q
      /\ \A x, y \in F : ~Queries!Before(o, y, x) /\ <<x, y>> \in R => <<x, y>> \in Q
      /\ \A x, y \in F : <<x, y>> \in Q => ~Queries!Before(o, y, x)
  BY <1>4
<1> HIDE DEF R, Q
<1>7. InOrder(s, F, Q) /\ Listed(s) = F
  BY <1>1, <1>2, <1>6, SortedInOrder
<1> HIDE DEF s
<1>8. Len(s) = Cardinality(F)
  BY <1>5, <1>7, PlaceInList
<1>9. s \in [1..Cardinality(F) -> F] /\ DOMAIN s = 1..Cardinality(F)
  <2>1. s \in Seq(F)
    BY <1>7 DEF InOrder
  <2> QED
    BY <1>8, <2>1
<1>10. ASSUME NEW i \in DOMAIN s, NEW j \in DOMAIN s, i < j
       PROVE  s[i] # s[j] /\ ~Queries!Before(o, s[j], s[i])
  <2>1. <<s[i], s[j]>> \in Q /\ s[i] \in F /\ s[j] \in F
    BY <1>7, <1>9, <1>10 DEF InOrder
  <2> QED
    BY <1>5, <1>6, <2>1 DEF Asymmetric
<1>11. s \in Queries!Orderings(F, o)
  BY <1>9, <1>10, SameCount DEF Queries!Orderings
<1> QED
  BY <1>11 DEF s

\* A raw query gets a page of the groups that are wanted, in memory and, where they do not
\* differ, from SQL.
LEMMA RawAnswers ==
  ASSUME Queries!QueryAssumption, table \in QueryTables, NEW b \in Builders,
         b.total \in Queries!Totals, NEW mode, Queries!IsRaw(mode)
  PROVE  /\ Queries!IsAnswer(Queries!ExecutePlan(Queries!Plan(b, FALSE), table), mode, b)
         /\ SqlMatches(table, b.filter) /\ SqlTotals(b) =>
              Queries!IsAnswer(Queries!CompiledPlan(Queries!Plan(b, FALSE), table), mode, b)
<1> DEFINE p == Queries!Plan(b, FALSE)
           K == Queries!Matching(table, b.filter)
           F == Queries!WantedGroups(b)
           A(sql) == Queries!Aggregated(K, b.total, sql)
<1>1. NoneApart /\ b.total # None /\ OrderFits(b) /\ b.filter \in QueryFilters \cup {None}
  <2>1. None \notin Queries!Totals /\ NoneApart
    BY DEF Queries!QueryAssumption, NoneApart
  <2>2. OrderFits(b) /\ b \in Options
    BY DEF Builders
  <2>3. b.filter \in QueryFilters \cup {None}
    BY <2>2 DEF Options
  <2>4. b.total # None
    BY <2>1
  <2> QED
    BY <2>1, <2>2, <2>3, <2>4
<1>2. /\ p.filter = b.filter /\ p.total = b.total /\ p.skip = b.skip /\ p.take = b.take
      /\ p.order = b.order
  BY <1>1 DEF Queries!Plan, OrderFits, Queries!GroupOrders, NoneApart
<1>3. PICK rank : Ranks(rank, F, b.order)
  BY <1>1, GroupsRanked
<1> HIDE DEF p, F
<1>4. ASSUME NEW sql \in BOOLEAN, sql => SqlTotals(b)
      PROVE  Queries!Sorted(A(sql), b.order) \in Queries!Orderings(F, b.order)
  <2>1. EachOnce(A(sql), F)
    BY <1>4, GroupsAnswer DEF F
  <2> HIDE DEF A
  <2> QED
    BY <1>3, <2>1, SortedGroups
<1>5. ASSUME NEW r, NEW s \in Queries!Orderings(F, b.order), r = Queries!Slice(s, b.skip, b.take)
      PROVE  Queries!IsAnswer(r, mode, b)
  BY <1>5 DEF Queries!IsAnswer, F
<1>6. Queries!ExecutePlan(p, table) = Queries!Slice(Queries!Sorted(A(FALSE), b.order), b.skip, b.take)
  BY <1>1, <1>2 DEF Queries!ExecutePlan, Queries!Kept
<1>7. ASSUME SqlMatches(table, b.filter)
      PROVE  Queries!CompiledPlan(p, table)
               = Queries!Slice(Queries!Sorted(A(TRUE), b.order), b.skip, b.take)
  <2>1. Queries!KeptBySql(p, table) = K
    <3>1. Queries!KeptBySql(p, table) = Queries!Kept(p, table)
      BY <1>1, <1>2, <1>7, KeptAgree
    <3> QED
      BY <1>2, <3>1 DEF Queries!Kept
  <2> QED
    BY <1>1, <1>2, <2>1 DEF Queries!CompiledPlan
<1> HIDE DEF A, K
<1> QED
  BY <1>4, <1>5, <1>6, <1>7 DEF p

-----------------------------------------------------------------------------
(* Queries: the builder and the calls under way.                           *)

CallFields == {"at", "mode", "asked", "plan", "previous", "rows", "disturbed"}

\* A call under way remembers a limit that the builder had.
CallTyped(c) ==
    query[c] # Queries!AtRest =>
        /\ DOMAIN query[c] = CallFields
        /\ query[c].at \in {"driver", "rows"} /\ query[c].mode \in Queries!Modes
        /\ query[c].previous \in Limits

\* What the builder is while only q is under way.
Asked(q) == [q.asked EXCEPT !.take = IF Queries!IsOne(q.mode) THEN 1 ELSE @]

\* What the driver has answered to q.
Answer(q) ==
    IF Queries!IsRaw(q.mode) THEN Queries!Queried(q)
    ELSE Queries!Filtered(Queries!Queried(q), engine = "sqlite")

\* A call that is not disturbed is alone, and the builder is as it was called.
CallKept(c) ==
    query[c] # Queries!AtRest /\ ~query[c].disturbed =>
        /\ \A d \in QueryCallers \ {c} : query[d] = Queries!AtRest
        /\ query[c].asked \in Builders /\ builder = Asked(query[c])
        /\ query[c].plan = Queries!Plan(builder, Queries!AllRows(query[c].mode))
        /\ Queries!IsRaw(query[c].mode) <=> query[c].asked.total # None
        /\ query[c].at = "rows" => query[c].rows = Answer(query[c])

\* The builder is what was configured but for its limit.
OptionNames == {"filter", "order", "join", "total", "take", "skip"}

Configured ==
    /\ builder \in Builders /\ configured \in Options
    /\ \A o \in OptionNames \ {"take"} : builder[o] = configured[o]

\* The call that has set the limit, while there is no more than one, will set it back to
\* what was configured; without one it is that.
Holds(c) == query[c] # Queries!AtRest /\ Queries!IsOne(query[c].mode)

LimitKept ==
    ~stuck => /\ \A c, d \in QueryCallers : Holds(c) /\ Holds(d) => c = d
              /\ \A c \in QueryCallers : Holds(c) => query[c].previous = configured.take
              /\ (\A c \in QueryCallers : ~Holds(c)) => builder.take = configured.take

QueryIInv ==
    /\ engine \in {"memory", "sqlite"} /\ table \in QueryTables
    /\ Configured /\ LimitKept
    /\ DOMAIN query = QueryCallers
    /\ \A c \in QueryCallers : CallTyped(c) /\ CallKept(c)
    /\ queries \in 0..MaxQueries /\ queryFaults \in 0..MaxQueryFaults /\ stuck \in BOOLEAN

\* What was configured is a builder's options.
LEMMA ConfiguredIs == ASSUME Configured PROVE configured \in Builders /\ builder \in Options
<1>1. builder \in Options /\ OrderFits(builder) /\ configured \in Options
      /\ configured.order = builder.order /\ configured.total = builder.total
  BY DEF Configured, Builders, OptionNames
<1> QED
  BY <1>1 DEF Builders, OrderFits

\* A builder with another limit or offset.
LEMMA OtherLimit ==
  ASSUME NEW b \in Builders, NEW n \in Limits
  PROVE  [b EXCEPT !.take = n] \in Builders /\ [b EXCEPT !.skip = n] \in Builders
<1>1. b \in Options /\ OrderFits(b)
  BY DEF Builders
<1>2. [b EXCEPT !.take = n] \in Options /\ [b EXCEPT !.skip = n] \in Options
  BY <1>1 DEF Options
<1>3. OrderFits([b EXCEPT !.take = n]) /\ OrderFits([b EXCEPT !.skip = n])
  BY <1>1 DEF OrderFits, Options
<1> QED
  BY <1>2, <1>3 DEF Builders

\* Before anything has happened.
LEMMA QueryStart == ASSUME Queries!QueryAssumption, Queries!QueryInit PROVE QueryIInv
<1> USE DEF Queries!QueryInit, Queries!QueryAssumption
<1>1. builder = [filter |-> None, order |-> None, join |-> None, total |-> None,
                 take |-> None, skip |-> None]
  OBVIOUS
<1>2. Configured
  <2>1. builder \in Options
    BY <1>1 DEF Options, Queries!Orders, Queries!Joins, Limits
  <2>2. OrderFits(builder)
    BY <1>1 DEF OrderFits, Queries!Orders
  <2> QED
    BY <2>1, <2>2 DEF Configured, Builders
<1>8. LimitKept
  BY DEF LimitKept, Holds
<1>3. DOMAIN query = QueryCallers /\ \A c \in QueryCallers : CallTyped(c) /\ CallKept(c)
  BY DEF CallTyped, CallKept
<1>4. MaxQueries \in Nat /\ MaxQueryFaults \in Nat
  OBVIOUS
<1>5. queries \in 0..MaxQueries /\ queryFaults \in 0..MaxQueryFaults
  <2>1. queries = 0 /\ queryFaults = 0
    OBVIOUS
  <2> HIDE DEF Queries!QueryInit, Queries!QueryAssumption
  <2> QED
    BY <1>4, <2>1
<1>6. stuck \in BOOLEAN
  OBVIOUS
<1>7. engine \in {"memory", "sqlite"} /\ table \in QueryTables
  OBVIOUS
<1> HIDE DEF Queries!QueryInit, Queries!QueryAssumption
<1> QED
  BY <1>2, <1>3, <1>5, <1>6, <1>7, <1>8 DEF QueryIInv

\* A call that an option or another call disturbs is the same call.
LEMMA DisturbedIsTyped ==
  ASSUME NEW c, CallTyped(c), query[c] # Queries!AtRest,
           query'[c] = [query[c] EXCEPT !.disturbed = TRUE]
  PROVE  /\ CallTyped(c)' /\ CallKept(c)'
         /\ query'[c] # Queries!AtRest /\ query'[c].mode = query[c].mode
         /\ query'[c].previous = query[c].previous
<1>1. DOMAIN query[c] = CallFields /\ query[c].at \in {"driver", "rows"}
  BY DEF CallTyped
<1>2. DOMAIN query'[c] = CallFields /\ query'[c].disturbed = TRUE
      /\ query'[c].at = query[c].at /\ query'[c].mode = query[c].mode
      /\ query'[c].previous = query[c].previous
  BY <1>1 DEF CallFields
<1>3. query'[c] # Queries!AtRest
  BY <1>1, <1>2 DEF Queries!AtRest
<1> QED
  BY <1>2, <1>3 DEF CallTyped, CallKept

\* A caller at rest is at rest.
LEMMA AtRestIsTyped == ASSUME NEW c, query[c] = Queries!AtRest
  PROVE CallTyped(c) /\ CallKept(c)
  BY DEF CallTyped, CallKept

\* A step that gives the builder an option.
LEMMA ConfigureStep ==
  ASSUME Queries!QueryAssumption, QueryIInv, NEW option \in OptionNames,
         NEW value, Queries!Configure(option, value),
         [builder EXCEPT ![option] = value] \in Builders
  PROVE  QueryIInv'
<1>0. Configured /\ builder \in Options /\ configured \in Options
  BY ConfiguredIs DEF QueryIInv, Configured
<1>1. /\ builder' = [builder EXCEPT ![option] = value] /\ builder' \in Builders
      /\ configured' = [configured EXCEPT ![option] = value]
      /\ UNCHANGED <<engine, table, queries, queryFaults>>
      /\ stuck' = (stuck \/ (option = "take" /\ Queries!Limiting # {}))
  BY DEF Queries!Configure
<1>4. /\ DOMAIN builder = OptionNames /\ DOMAIN configured = OptionNames
      /\ \A o \in OptionNames : builder'[o] = IF o = option THEN value ELSE builder[o]
      /\ \A o \in OptionNames : configured'[o] = IF o = option THEN value ELSE configured[o]
  BY <1>0, <1>1 DEF Options, OptionNames
<1>5. Configured'
  <2>1. builder' \in Options
    BY <1>1 DEF Builders
  <2>2. configured' \in Options
    <3>1. /\ \A o \in OptionNames : configured'[o] = builder'[o] \/ configured'[o] = configured[o]
          /\ DOMAIN configured' = OptionNames
      BY <1>1, <1>4
    <3>2. configured' = [filter |-> configured'.filter, order |-> configured'.order,
                         join |-> configured'.join, total |-> configured'.total,
                         take |-> configured'.take, skip |-> configured'.skip]
      BY <1>0, <1>1 DEF Options, OptionNames
    <3>3. /\ configured'.filter \in QueryFilters \cup {None}
          /\ configured'.order \in Queries!Orders \cup Queries!GroupOrders
          /\ configured'.join \in Queries!Joins
          /\ configured'.total \in Queries!Totals \cup {None}
          /\ configured'.take \in Limits /\ configured'.skip \in Limits
      BY <1>0, <2>1, <3>1 DEF Options, OptionNames
    <3> QED
      BY <3>2, <3>3 DEF Options
  <2>3. \A o \in OptionNames \ {"take"} : builder'[o] = configured'[o]
    BY <1>0, <1>4 DEF Configured
  <2> QED
    BY <1>1, <2>2, <2>3 DEF Configured
<1>6. ASSUME NEW c \in QueryCallers
      PROVE  /\ Holds(c)' <=> Holds(c)
             /\ Holds(c) => query'[c].previous = query[c].previous
  <2>1. CallTyped(c)
    BY DEF QueryIInv
  <2>2. query'[c] = IF query[c] = Queries!AtRest THEN Queries!AtRest
                    ELSE [query[c] EXCEPT !.disturbed = TRUE]
    BY DEF Queries!Configure
  <2>3. CASE query[c] = Queries!AtRest
    BY <2>2, <2>3 DEF Holds
  <2>4. CASE query[c] # Queries!AtRest
    BY <2>1, <2>2, <2>4, DisturbedIsTyped DEF Holds
  <2> QED
    BY <2>3, <2>4
<1>7. LimitKept'
  <2>1. CASE option = "take"
    <3>1. ~stuck' => \A c \in QueryCallers : ~Holds(c)
      BY <1>1, <2>1 DEF Queries!Limiting, Holds
    <3>2. builder'.take = configured'.take
      BY <1>4, <2>1 DEF OptionNames
    <3> QED
      BY <1>6, <3>1, <3>2 DEF LimitKept
  <2>2. CASE option # "take"
    <3>1. builder'.take = builder.take /\ configured'.take = configured.take /\ stuck' = stuck
      BY <1>1, <1>4, <2>2 DEF OptionNames, QueryIInv
    <3>2. LimitKept
      BY DEF QueryIInv
    <3> QED
      BY <1>6, <3>1, <3>2 DEF LimitKept
  <2> QED
    BY <2>1, <2>2
<1>8. stuck' \in BOOLEAN
  BY <1>1 DEF QueryIInv
<1>2. ASSUME NEW c \in QueryCallers PROVE CallTyped(c)' /\ CallKept(c)'
  <2>1. CallTyped(c)
    BY DEF QueryIInv
  <2>2. query'[c] = IF query[c] = Queries!AtRest THEN Queries!AtRest
                    ELSE [query[c] EXCEPT !.disturbed = TRUE]
    BY DEF Queries!Configure
  <2>3. CASE query[c] = Queries!AtRest
    BY <2>2, <2>3 DEF CallTyped, CallKept
  <2>4. CASE query[c] # Queries!AtRest
    BY <2>1, <2>2, <2>4, DisturbedIsTyped
  <2> QED
    BY <2>3, <2>4
<1>3. DOMAIN query' = QueryCallers
  BY DEF Queries!Configure
<1> QED
  BY <1>1, <1>2, <1>3, <1>5, <1>7, <1>8 DEF QueryIInv

\* A step that configures the builder.
LEMMA OptionStep ==
  ASSUME Queries!QueryAssumption, QueryIInv,
         \/ \E f \in QueryFilters : Queries!Where(f)
         \/ \E o \in Queries!Orders \cup Queries!GroupOrders : Queries!OrderBy(o)
         \/ \E n \in 1..2 : Queries!Limit(n) \/ Queries!Offset(n)
         \/ \E j \in Queries!Joins : Queries!Join(j)
         \/ \E t \in Queries!Totals : Queries!SelectAggregate(t)
  PROVE  QueryIInv'
<1>0. {"filter", "order", "join", "total", "take", "skip"} \subseteq OptionNames
  BY DEF OptionNames
<1>1. builder \in Builders /\ builder \in Options /\ OrderFits(builder) /\ NoneApart
      /\ None \notin Queries!Totals
  BY DEF QueryIInv, Configured, Builders, Queries!QueryAssumption, NoneApart
<1>2. ASSUME NEW n \in QueryFilters, Queries!Where(n) PROVE QueryIInv'
  <2> DEFINE b == [builder EXCEPT !["filter"] = n]
  <2>1. b \in Options /\ b.order = builder.order /\ b.total = builder.total
    BY <1>1 DEF Options
  <2>2. b \in Builders
    BY <1>1, <2>1 DEF Builders, OrderFits
  <2> QED
    BY <1>0, <1>2, <2>2, ConfigureStep DEF Queries!Where
<1>3. ASSUME NEW o \in Queries!Orders \cup Queries!GroupOrders, Queries!OrderBy(o)
      PROVE  QueryIInv'
  <2> DEFINE b == [builder EXCEPT !["order"] = o]
  <2>1. b \in Options /\ b.order = o /\ b.total = builder.total
    BY <1>1 DEF Options
  <2>2. o \in (IF builder.total = None THEN Queries!Orders ELSE Queries!GroupOrders)
        /\ (o = "countDesc" => builder.total.fn = "count") /\ Queries!Configure("order", o)
    BY <1>3 DEF Queries!OrderBy
  <2> HIDE DEF b
  <2>3. b \in Builders
    BY <2>1, <2>2 DEF Builders, OrderFits
  <2> QED
    BY <1>0, <2>2, <2>3, ConfigureStep DEF b
<1>4. ASSUME NEW n \in 1..2, Queries!Limit(n) PROVE QueryIInv'
  <2>1. n \in Limits
    BY DEF Limits
  <2>2. [builder EXCEPT !["take"] = n] \in Builders
    BY <1>1, <2>1, OtherLimit
  <2> QED
    BY <1>0, <1>4, <2>2, ConfigureStep DEF Queries!Limit
<1>5. ASSUME NEW n \in 1..2, Queries!Offset(n) PROVE QueryIInv'
  <2>1. n \in Limits
    BY DEF Limits
  <2>2. [builder EXCEPT !["skip"] = n] \in Builders
    BY <1>1, <2>1, OtherLimit
  <2> QED
    BY <1>0, <1>5, <2>2, ConfigureStep DEF Queries!Offset
<1>6. ASSUME NEW j \in Queries!Joins, Queries!Join(j) PROVE QueryIInv'
  <2> DEFINE b == [builder EXCEPT !["join"] = j]
  <2>1. b \in Options /\ b.order = builder.order /\ b.total = builder.total
    BY <1>1 DEF Options
  <2>2. b \in Builders
    BY <1>1, <2>1 DEF Builders, OrderFits
  <2> QED
    BY <1>0, <1>6, <2>2, ConfigureStep DEF Queries!Join
<1>7. ASSUME NEW t \in Queries!Totals, Queries!SelectAggregate(t) PROVE QueryIInv'
  <2> DEFINE b == [builder EXCEPT !["total"] = t]
  <2>1. b \in Options /\ b.order = builder.order /\ b.total = t
    BY <1>1 DEF Options
  <2>2. builder.order = None /\ Queries!Configure("total", t)
    BY <1>7 DEF Queries!SelectAggregate
  <2> HIDE DEF b
  <2>3. b \in Builders
    BY <1>1, <2>1, <2>2 DEF Builders, OrderFits, Queries!GroupOrders, NoneApart
  <2> QED
    BY <1>0, <2>2, <2>3, ConfigureStep DEF b
<1> QED
  BY <1>2, <1>3, <1>4, <1>5, <1>6, <1>7

\* A call is made: it is alone, or it and the others are disturbed.
LEMMA StartStep ==
  ASSUME Queries!QueryAssumption, QueryIInv, NEW c \in QueryCallers,
         NEW mode \in Queries!Modes, Queries!Start(c, mode)
  PROVE  QueryIInv'
<1> DEFINE others == {d \in QueryCallers : query[d] # Queries!AtRest}
<1>0. /\ builder \in Builders /\ DOMAIN query = QueryCallers
      /\ \A d \in QueryCallers : CallTyped(d) /\ CallKept(d)
      /\ builder \in Options /\ configured \in Builders /\ configured \in Options
      /\ Configured /\ LimitKept
  BY ConfiguredIs DEF QueryIInv, Configured
<1>1. builder' \in Builders
  <2>1. [builder EXCEPT !.take = 1] \in Builders
    BY <1>0, OtherLimit DEF Limits
  <2> QED
    BY <1>0, <2>1 DEF Queries!Start
<1>2. /\ query[c] = Queries!AtRest /\ (Queries!IsRaw(mode) <=> builder.total # None)
      /\ builder' = IF Queries!IsOne(mode) THEN [builder EXCEPT !.take = 1] ELSE builder
      /\ query'[c] = [at |-> "driver", mode |-> mode, asked |-> configured,
                      plan |-> Queries!Plan(builder', Queries!AllRows(mode)),
                      previous |-> builder.take, rows |-> <<>>,
                      disturbed |-> \/ others # {}
                                    \/ stuck /\ ~Queries!IsOne(mode) /\ builder # configured]
      /\ \A d \in QueryCallers \ {c} :
            query'[d] = IF d \in others THEN [query[d] EXCEPT !.disturbed = TRUE] ELSE query[d]
      /\ stuck' = (stuck \/ (Queries!IsOne(mode) /\ Queries!Limiting # {}))
      /\ configured' = configured
  BY DEF Queries!Start
<1>7. builder = [builder EXCEPT !.take = builder.take]
      /\ configured = [configured EXCEPT !.take = configured.take]
      /\ builder.total = configured.total
      /\ [builder EXCEPT !.take = 1] = [configured EXCEPT !.take = 1]
      /\ (builder.take = configured.take => builder = configured)
  <2>1. /\ builder = [filter |-> builder.filter, order |-> builder.order, join |-> builder.join,
                      total |-> builder.total, take |-> builder.take, skip |-> builder.skip]
        /\ configured = [filter |-> configured.filter, order |-> configured.order,
                         join |-> configured.join, total |-> configured.total,
                         take |-> configured.take, skip |-> configured.skip]
    BY <1>0 DEF Options
  <2>2. /\ builder.filter = configured.filter /\ builder.order = configured.order
        /\ builder.join = configured.join /\ builder.total = configured.total
        /\ builder.skip = configured.skip
    BY <1>0 DEF Configured, OptionNames
  <2> QED
    BY <2>1, <2>2
<1>8. ASSUME ~stuck, others = {} PROVE builder = configured
  <2>1. \A d \in QueryCallers : ~Holds(d)
    BY <1>8 DEF Holds
  <2> QED
    BY <1>0, <1>7, <1>8, <2>1 DEF LimitKept
<1>3. CallTyped(c)' /\ CallKept(c)'
  <2>1. builder.take \in Limits
    BY <1>0 DEF Options
  <2>2. CallTyped(c)'
    BY <1>2, <2>1 DEF CallTyped, CallFields
  <2>3. ASSUME ~query'[c].disturbed
                 PROVE \A d \in QueryCallers \ {c} : query'[d] = Queries!AtRest
    <3>1. query'[c].disturbed
            = (\/ others # {} \/ (stuck /\ ~Queries!IsOne(mode) /\ builder # configured))
      BY <1>2
    <3>2. \A d \in QueryCallers : query[d] = Queries!AtRest
      BY <2>3, <3>1
    <3> QED
      BY <1>2, <3>2
  <2>4. ASSUME ~query'[c].disturbed PROVE builder' = Asked(query'[c])
    <3>1. query'[c].mode = mode /\ query'[c].asked = configured
      BY <1>2
    <3>2. Asked(query'[c]) = IF Queries!IsOne(mode) THEN [configured EXCEPT !.take = 1]
                             ELSE configured
      BY <1>7, <3>1 DEF Asked
    <3>3. CASE Queries!IsOne(mode)
      BY <1>2, <1>7, <3>2, <3>3
    <3>4. CASE ~Queries!IsOne(mode)
      <4>1. query'[c].disturbed = (\/ others # {} \/ (stuck /\ builder # configured))
        BY <1>2, <3>4
      <4>2. builder = configured
        BY <1>8, <2>4, <4>1
      <4> QED
        BY <1>2, <3>2, <3>4, <4>2
    <3> QED
      BY <3>3, <3>4
  <2>6. /\ query'[c].asked = configured /\ query'[c].mode = mode /\ query'[c].at = "driver"
        /\ query'[c].plan = Queries!Plan(builder', Queries!AllRows(mode))
    BY <1>2
  <2>5. CallKept(c)'
    BY <1>0, <1>2, <1>7, <2>3, <2>4, <2>6 DEF CallKept
  <2> QED
    BY <2>2, <2>5
<1>4. ASSUME NEW d \in QueryCallers \ {c} PROVE CallTyped(d)' /\ CallKept(d)'
  <2>1. CASE query[d] # Queries!AtRest
    BY <1>0, <1>2, <2>1, DisturbedIsTyped
  <2>2. CASE query[d] = Queries!AtRest
    BY <1>2, <2>2 DEF CallTyped, CallKept
  <2> QED
    BY <2>1, <2>2
<1>5. DOMAIN query' = QueryCallers
  BY DEF Queries!Start
<1>6. /\ queries' \in 0..MaxQueries /\ stuck' \in BOOLEAN
      /\ UNCHANGED <<engine, table, queryFaults>>
  BY DEF Queries!Start, Queries!QueryAssumption, QueryIInv
<1>9. Configured'
  <2>1. \A o \in OptionNames \ {"take"} : builder'[o] = builder[o]
    BY <1>0, <1>2 DEF Options, OptionNames
  <2> QED
    BY <1>0, <1>1, <1>2, <2>1 DEF Configured
<1>10. /\ Holds(c)' <=> Queries!IsOne(mode)
       /\ query'[c].previous = builder.take
       /\ \A d \in QueryCallers \ {c} :
             /\ Holds(d)' <=> Holds(d)
             /\ Holds(d) => query'[d].previous = query[d].previous
  <2>1. Holds(c)' <=> Queries!IsOne(mode)
    <3>1. query'[c].at = "driver" /\ query'[c].mode = mode
      BY <1>2
    <3> QED
      BY <3>1 DEF Holds, Queries!AtRest
  <2>2. ASSUME NEW d \in QueryCallers \ {c}
        PROVE  (Holds(d)' <=> Holds(d)) /\ (Holds(d) => query'[d].previous = query[d].previous)
    <3>1. CASE query[d] # Queries!AtRest
      BY <1>0, <1>2, <3>1, DisturbedIsTyped DEF Holds
    <3>2. CASE query[d] = Queries!AtRest
      BY <1>2, <3>2 DEF Holds
    <3> QED
      BY <3>1, <3>2
  <2>3. query'[c].previous = builder.take
    BY <1>2
  <2> QED
    BY <2>1, <2>2, <2>3
<1>11. LimitKept'
  <2> SUFFICES ASSUME ~stuck'
               PROVE  /\ \A d, e \in QueryCallers : Holds(d)' /\ Holds(e)' => d = e
                      /\ \A d \in QueryCallers : Holds(d)' => query'[d].previous = configured.take
                      /\ (\A d \in QueryCallers : ~Holds(d)') => builder'.take = configured.take
    BY <1>2 DEF LimitKept
  <2>1. ~stuck /\ ~Holds(c) /\ (Queries!IsOne(mode) => \A d \in QueryCallers : ~Holds(d))
    BY <1>2 DEF Queries!Limiting, Holds
  <2>2. /\ \A d, e \in QueryCallers : Holds(d) /\ Holds(e) => d = e
        /\ \A d \in QueryCallers : Holds(d) => query[d].previous = configured.take
        /\ (\A d \in QueryCallers : ~Holds(d)) => builder.take = configured.take
    BY <1>0, <2>1 DEF LimitKept
  <2>3. CASE Queries!IsOne(mode)
    <3>1. \A d \in QueryCallers : Holds(d)' <=> d = c
      BY <1>10, <2>1, <2>3
    <3>2. query'[c].previous = configured.take
      BY <1>10, <2>1, <2>2, <2>3
    <3> QED
      BY <3>1, <3>2
  <2>4. CASE ~Queries!IsOne(mode)
    <3>1. \A d \in QueryCallers : Holds(d)' <=> Holds(d)
      BY <1>10, <2>1, <2>4
    <3>2. ASSUME NEW d \in QueryCallers, Holds(d)
          PROVE  query'[d].previous = configured.take
      BY <1>10, <2>1, <2>2, <3>2
    <3>3. builder' = builder
      BY <1>2, <2>4
    <3> QED
      BY <2>2, <3>1, <3>2, <3>3
  <2> QED
    BY <2>3, <2>4
<1> QED
  BY <1>3, <1>4, <1>5, <1>6, <1>9, <1>11 DEF QueryIInv

\* A step of a call, which leaves the others alone. Those it disturbs are disturbed
\* already; those it does not were at rest.
LEMMA AnswerStep ==
  ASSUME Queries!QueryAssumption, QueryIInv, NEW c \in QueryCallers,
         Queries!DriverAnswers(c) \/ Queries!Finish(c) \/ Queries!QueryFails(c)
  PROVE  QueryIInv'
<1>0. /\ builder \in Builders /\ DOMAIN query = QueryCallers
      /\ \A d \in QueryCallers : CallTyped(d) /\ CallKept(d)
      /\ stuck \in BOOLEAN /\ queryFaults \in 0..MaxQueryFaults
      /\ engine \in {"memory", "sqlite"} /\ table \in QueryTables
           /\ queries \in 0..MaxQueries
      /\ Configured /\ LimitKept /\ builder \in Options
  BY ConfiguredIs DEF QueryIInv, Configured
<1>1. query[c] # Queries!AtRest
  BY DEF Queries!DriverAnswers, Queries!Finish, Queries!QueryFails, Queries!AtRest
<1>2. /\ DOMAIN query' = QueryCallers
      /\ \A d \in QueryCallers \ {c} : query'[d] = query[d]
      /\ UNCHANGED <<engine, table, queries, configured>>
  BY <1>0 DEF Queries!DriverAnswers, Queries!Finish, Queries!QueryFails
<1>3. ASSUME NEW d \in QueryCallers \ {c} PROVE CallTyped(d)' /\ CallKept(d)'
  <2>1. query[d] = Queries!AtRest \/ query[d].disturbed
    BY <1>0, <1>1 DEF CallKept
  <2> QED
    BY <1>0, <1>2, <2>1 DEF CallTyped, CallKept
<1>7. /\ \A d \in QueryCallers \ {c} : (Holds(d)' <=> Holds(d)) /\ query'[d] = query[d]
      /\ Holds(c) <=> Queries!IsOne(query[c].mode)
      /\ query[c].previous \in Limits
  BY <1>0, <1>1, <1>2 DEF Holds, CallTyped
<1>4. CASE Queries!DriverAnswers(c)
  <2>1. /\ query[c].at = "driver"
             /\ UNCHANGED <<engine, table, builder, queries, queryFaults, stuck>>
        /\ query' = [query EXCEPT ![c].at = "rows", ![c].rows = Answer(query[c])]
    BY <1>4 DEF Queries!DriverAnswers, Answer
  <2>2. query'[c] = [query[c] EXCEPT !.at = "rows", !.rows = Answer(query[c])]
    BY <1>0, <2>1
  <2>3. DOMAIN query[c] = CallFields
    BY <1>0, <1>1 DEF CallTyped
  <2>4. /\ DOMAIN query'[c] = CallFields /\ query'[c].at = "rows"
             /\ query'[c].rows = Answer(query[c])
        /\ query'[c].mode = query[c].mode /\ query'[c].previous = query[c].previous
        /\ query'[c].asked = query[c].asked /\ query'[c].plan = query[c].plan
        /\ query'[c].disturbed = query[c].disturbed
    BY <2>2, <2>3 DEF CallFields
  <2>5. CallTyped(c)'
    BY <1>0, <1>1, <2>4 DEF CallTyped
  <2>6. Answer(query[c])' = Answer(query[c]) /\ Asked(query'[c]) = Asked(query[c])
    <3>1. Queries!Queried(query[c])' = Queries!Queried(query[c])
      BY <2>1, <2>4 DEF Queries!Queried
    <3>2. Queries!Filtered(Queries!Queried(query[c]),
            engine = "sqlite")' = Queries!Filtered(Queries!Queried(query[c]),
              engine = "sqlite")
      BY <2>1, <3>1 DEF Queries!Filtered
    <3>3. Answer(query[c])' = Answer(query[c])
      BY <2>1, <2>4, <3>1, <3>2 DEF Answer, Queries!IsRaw
    <3>4. Asked(query'[c]) = Asked(query[c])
      BY <2>4 DEF Asked
    <3> QED
      BY <3>3, <3>4
  <2>7. CallKept(c)'
    BY <1>0, <1>1, <1>2, <2>1, <2>4, <2>6 DEF CallKept
  <2>8. Holds(c)' <=> Holds(c)
    BY <1>1, <2>4 DEF Holds, Queries!AtRest
  <2>9. LimitKept' /\ Configured'
    BY <1>0, <1>2, <1>7, <2>1, <2>4, <2>8 DEF LimitKept, Configured
  <2> QED
    BY <1>0, <1>2, <1>3, <2>1, <2>5, <2>7, <2>9 DEF QueryIInv
<1>5. CASE Queries!Finish(c)
  <2>1. query'[c] = Queries!AtRest
    BY <1>0, <1>5 DEF Queries!Finish
  <2>2. CallTyped(c)' /\ CallKept(c)'
    BY <2>1 DEF CallTyped, CallKept
  <2>3. builder' = IF Queries!IsOne(query[c].mode) THEN [builder EXCEPT !.take = query[c].previous]
                   ELSE builder
    BY <1>5 DEF Queries!Finish
  <2>5. Configured'
    <3>1. builder' \in Builders
      BY <1>0, <1>7, <2>3, OtherLimit
    <3>2. \A o \in OptionNames \ {"take"} : builder'[o] = builder[o]
      BY <1>0, <2>3 DEF Options, OptionNames
    <3> QED
      BY <1>0, <1>2, <3>1, <3>2 DEF Configured
  <2>4. UNCHANGED <<engine, table, queries, queryFaults, stuck>>
    BY <1>5 DEF Queries!Finish
  <2>6. LimitKept'
    <3>1. ~Holds(c)'
      BY <2>1 DEF Holds
    <3>2. Queries!IsOne(query[c].mode) => builder'.take = query[c].previous
      BY <1>0, <2>3 DEF Options
    <3> QED
      BY <1>0, <1>2, <1>7, <2>3, <2>4, <3>1, <3>2 DEF LimitKept
  <2> QED
    BY <1>0, <1>2, <1>3, <2>2, <2>4, <2>5, <2>6 DEF QueryIInv
<1>6. CASE Queries!QueryFails(c)
  <2>1. query'[c] = Queries!AtRest
    BY <1>0, <1>6 DEF Queries!QueryFails
  <2>2. CallTyped(c)' /\ CallKept(c)'
    BY <2>1 DEF CallTyped, CallKept
  <2>3. stuck' \in BOOLEAN
    BY <1>0, <1>6 DEF Queries!QueryFails
  <2>4. queryFaults' \in 0..MaxQueryFaults /\ UNCHANGED builder
    BY <1>0, <1>6 DEF Queries!QueryFails, Queries!QueryAssumption
  <2>5. Configured'
    BY <1>0, <1>2, <2>4 DEF Configured
  <2>6. LimitKept'
    <3>1. ~Holds(c)' /\ stuck' = (stuck \/ Queries!IsOne(query[c].mode))
      BY <1>6, <2>1 DEF Holds, Queries!QueryFails
    <3> QED
      BY <1>0, <1>2, <1>7, <2>4, <3>1 DEF LimitKept
  <2> QED
    BY <1>0, <1>2, <1>3, <2>2, <2>3, <2>4, <2>5, <2>6 DEF QueryIInv
<1> QED
  BY <1>4, <1>5, <1>6

\* Every step of a query.
LEMMA QueryKeeps ==
  ASSUME Queries!QueryAssumption, QueryIInv,
           [Queries!QueryNext]_Queries!queryVars PROVE QueryIInv'
<1>1. CASE UNCHANGED Queries!queryVars
  BY <1>1
  DEF Queries!queryVars, QueryIInv, CallTyped, CallKept, Answer, Asked, Queries!Queried,
      Queries!Filtered, Configured, LimitKept, Holds
<1>2. CASE Queries!QueryNext
  BY <1>2, OptionStep, StartStep, AnswerStep DEF Queries!QueryNext
<1> QED
  BY <1>1, <1>2

\* The types of a query, from its invariant.
LEMMA QueryTyped == QueryIInv => Queries!TypeOK
<1> SUFFICES ASSUME QueryIInv PROVE Queries!TypeOK
  OBVIOUS
<1>1. builder \in Options
  BY ConfiguredIs DEF QueryIInv
<1> QED
  BY <1>1 DEF QueryIInv, CallTyped, Options, Limits, Queries!TypeOK

\* A call that ends returns what was asked: from memory because the builder is still the
\* same, from sqlite because its part and that of memory come to the same.
LEMMA QueryAnswers ==
  ASSUME Queries!QueryAssumption, QueryIInv PROVE Queries!Answered
<1> SUFFICES ASSUME NEW c \in QueryCallers, Queries!Finish(c), ~query[c].disturbed,
                    ~(engine = "sqlite" /\ Queries!EnginesDiffer(Asked(query[c]))),
                    ~(Queries!PagedByDriver(query[c]) /\ (Asked(query[c]).join = "inner"
                                                  \/ Asked(query[c]).order = "parent"))
             PROVE  Queries!IsAnswer(Queries!Result(query[c]), query[c].mode, Asked(query[c]))
  BY ZenonT(40) DEF Queries!Answered, Asked
<1>0. query[c].at = "rows" /\ query[c] # Queries!AtRest
  BY DEF Queries!Finish, Queries!AtRest
<1> DEFINE q == query[c]
           b == Asked(q)
           K == Queries!Matching(table, b.filter)
<1>1. /\ builder = b /\ q.plan = Queries!Plan(b, Queries!AllRows(q.mode))
           /\ q.rows = Answer(q)
      /\ b \in Builders /\ q.mode \in Queries!Modes /\ table \in QueryTables
           /\ engine \in {"memory", "sqlite"}
      /\ (Queries!IsRaw(q.mode) <=> b.total # None)
  <2>1. CallKept(c) /\ CallTyped(c) /\ builder \in Builders /\ table \in QueryTables
        /\ engine \in {"memory", "sqlite"}
    BY DEF QueryIInv, Configured
  <2>2. q.asked \in Builders /\ b.total = q.asked.total
    <3>1. q.asked \in Builders
      BY <1>0, <2>1 DEF CallKept
    <3> QED
      BY <3>1 DEF Asked, Builders, Options
  <2> QED
    BY <1>0, <2>1, <2>2 DEF CallKept, CallTyped
<1>2. ASSUME engine = "sqlite"
      PROVE  /\ SqlMatches(table, b.filter)
             /\ b.total # None => SqlTotals(b)
  <2>1. ~Queries!EnginesDiffer(b)
    BY <1>2
  <2> HIDE DEF b
  <2> QED
    BY <2>1 DEF Queries!EnginesDiffer, SqlMatches, SqlTotals
<1> HIDE DEF q, b, K
<1>3. CASE Queries!IsRaw(q.mode)
  <2>1. Queries!AllRows(q.mode) = FALSE
    BY <1>3 DEF Queries!IsRaw, Queries!AllRows
  <2>2. Queries!Result(q) = Queries!Queried(q)
    BY <1>1, <1>3 DEF Queries!Result, Answer
  <2>3. q.plan = Queries!Plan(b, FALSE)
    BY <1>1, <2>1
  <2>6. b.total \in Queries!Totals
    BY <1>1, <1>3 DEF Builders, Options
  <2>7. /\ Queries!IsAnswer(Queries!ExecutePlan(Queries!Plan(b, FALSE), table), q.mode, b)
        /\ SqlMatches(table, b.filter) /\ SqlTotals(b) =>
             Queries!IsAnswer(Queries!CompiledPlan(Queries!Plan(b, FALSE), table), q.mode, b)
    BY <1>1, <1>3, <2>6, RawAnswers
  <2>4. CASE engine = "memory"
    <3>1. Queries!Queried(q) = Queries!ExecutePlan(Queries!Plan(b, FALSE), table)
      BY <1>3, <2>3, <2>4 DEF Queries!Queried
    <3> QED
      BY <2>2, <2>7, <3>1 DEF q, b
  <2>5. CASE engine = "sqlite"
    <3>1. Queries!Queried(q) = Queries!CompiledPlan(Queries!Plan(b, FALSE), table)
      BY <2>3, <2>5 DEF Queries!Queried
    <3>2. SqlMatches(table, b.filter) /\ SqlTotals(b)
      BY <1>1, <1>2, <1>3, <2>5
    <3> QED
      BY <2>2, <2>7, <3>1, <3>2 DEF q, b
  <2> QED
    BY <1>1, <2>4, <2>5
<1>4. CASE ~Queries!IsRaw(q.mode)
  <2>1. q.rows = Queries!Matching(Queries!Queried(q), b.filter)
    BY <1>1, <1>4 DEF Answer, Queries!Filtered
  <2>5. Queries!OrderOfRows = b.order
    <3>1. b.order \in Queries!Orders
      BY <1>1, <1>4 DEF Builders, OrderFits
    <3> QED
      BY <1>1, <3>1 DEF Queries!OrderOfRows
  <2> DEFINE whole == Queries!Sorted(Queries!Joined(K, b.join), b.order)
  <2>6. Queries!IsAnswer(Queries!Result(q), q.mode, b)
          <=> Queries!Result(q) = IF Queries!AllRows(q.mode) THEN whole
                                  ELSE Queries!Slice(whole, b.skip, b.take)
    BY <1>4 DEF Queries!IsAnswer, K
  <2>2. Queries!Result(q) = LET got == Queries!Sorted(Queries!Joined(q.rows, b.join),
          b.order)
                    IN  IF Queries!AllRows(q.mode)
                      \/ Queries!PagedByDriver(q) THEN got ELSE Queries!Slice(got,
                           b.skip, b.take)
    BY <1>1, <1>4, <2>5 DEF Queries!Result
  <2>3. CASE engine = "memory"
    <3>1. q.rows = K /\ ~Queries!PagedByDriver(q)
      BY <1>4, <2>1, <2>3 DEF Queries!Queried, Queries!PagedByDriver, K
    <3> QED
      BY <2>2, <2>6, <3>1 DEF q, b
  <2>4. CASE engine = "sqlite"
    <3> DEFINE p == q.plan
               got == Queries!Sorted(Queries!Joined(q.rows, b.join), b.order)
               want == whole
    <3>1. q.rows = Queries!Matching(Queries!CompiledPlan(p, table), b.filter)
      BY <2>1, <2>4 DEF Queries!Queried
    <3>2. Queries!AllRows(q.mode) \in BOOLEAN
      BY DEF Queries!AllRows
    <3>3. /\ p.take = None /\ p.skip = None => got = want
          /\ b.join # "inner" /\ b.order # "parent" =>
               got = Queries!Slice(want, p.skip, p.take)
      BY <1>1, <1>2, <1>4, <2>4, <3>1, <3>2, EntitiesAgree DEF K
    <3>4. /\ Queries!AllRows(q.mode) => p.take = None /\ p.skip = None
          /\ ~Queries!AllRows(q.mode) => p.take = b.take /\ p.skip = b.skip
      BY <1>1 DEF Queries!Plan
    <3>5. Queries!PagedByDriver(q) <=> p.take # None \/ p.skip # None
      BY <2>4 DEF Queries!PagedByDriver
    <3>6. Queries!PagedByDriver(q) => b.join # "inner" /\ b.order # "parent"
      BY DEF q, b
    <3> HIDE DEF got, want, p
    <3>7. CASE Queries!AllRows(q.mode)
      BY <2>2, <2>6, <3>3, <3>4, <3>7 DEF q, b, got, want
    <3>8. CASE ~Queries!AllRows(q.mode) /\ Queries!PagedByDriver(q)
      BY <2>2, <2>6, <3>3, <3>4, <3>6, <3>8 DEF q, b, got, want
    <3>9. CASE ~Queries!AllRows(q.mode) /\ ~Queries!PagedByDriver(q)
      BY <2>2, <2>6, <3>3, <3>4, <3>5, <3>9 DEF q, b, got, want
    <3> QED
      BY <3>7, <3>8, <3>9
  <2> QED
    BY <1>1, <2>3, <2>4
<1> QED
  BY <1>3, <1>4

-----------------------------------------------------------------------------
(* Relations: the key column and the property beside it.                   *)

ParentKeys == Parents \cup {Null}

Entities == [key : ParentKeys, parent : ParentKeys \cup {Lazy, Unset},
             tags : (SUBSET Tags) \cup {Lazy, Unset}]

Underway == [at : {"find", "assign"}, what : {"parent", "tags"},
             ids : SUBSET (ParentKeys \cup Tags), found : SUBSET (ParentKeys \cup Tags)]

\* A load of tags has found tags only.
LoadTyped(l) ==
    \/ load[l] = Related!AtRest
    \/ load[l] \in Underway /\ (load[l].what = "tags" => load[l].found \subseteq Tags)

SaveTyped ==
    \/ save = Related!AtRest
    \/ save \in [at : {"row", "links", "entity"}, key : ParentKeys]

TablesTyped ==
    /\ lazy \in BOOLEAN /\ Owned \in BOOLEAN
    /\ parents \subseteq Parents /\ tags \subseteq Tags
    /\ row \in ParentKeys /\ joinRows \subseteq Tags
    /\ broken \subseteq {"parent", "tags"}
    /\ changes \in 0..MaxChanges /\ loadFaults \in 0..MaxLoadFaults

CallsTyped == DOMAIN load = Loads /\ (\A l \in Loads : LoadTyped(l)) /\ SaveTyped

EntityFollows == entity \in Entities /\ Related!KeyFollows

RelationsIInv == TablesTyped /\ CallsTyped /\ EntityFollows

\* The tables and the entities are at first as they always are.
LEMMA RelationsStart == ASSUME Related!RelationsAssumption, Related!RelationsInit
  PROVE RelationsIInv
<1> USE DEF Related!RelationsInit, Related!RelationsAssumption
<1>1. TablesTyped
  BY DEF TablesTyped, ParentKeys
<1>2. CallsTyped
  BY DEF CallsTyped, LoadTyped, SaveTyped
<1>3. entity \in Entities
  BY DEF Entities, ParentKeys
<1>4. entity.key = row /\ entity.parent \in {Lazy, Unset}
  OBVIOUS
<1>5. Related!KeyFollows
  BY <1>4 DEF Related!KeyFollows
<1> QED
  BY <1>1, <1>2, <1>3, <1>5 DEF RelationsIInv, EntityFollows

\* What the setter leaves in the entity.
LEMMA Setter ==
  ASSUME Related!RelationsAssumption, entity \in Entities, NEW p \in ParentKeys
  PROVE  /\ Related!SetParent(p) \in Entities /\ Related!SetParent(p).parent = p
              /\ Related!SetParent(p).key = p
         /\ Related!SetParent(p).tags = entity.tags
<1>1. p # Lazy
  BY DEF Related!RelationsAssumption, ParentKeys
<1> DEFINE placed == [entity EXCEPT !.parent = p]
<1>2. placed \in Entities /\ placed.parent = p /\ placed.tags = entity.tags
  BY DEF Entities
<1>3. Related!SetParent(p) = [placed EXCEPT !.key = p]
  BY <1>1 DEF Related!SetParent, Entities
<1> HIDE DEF placed
<1>4. /\ [placed EXCEPT !.key = p] \in Entities
           /\ [placed EXCEPT !.key = p].parent = placed.parent
      /\ [placed EXCEPT !.key = p].key = p /\ [placed EXCEPT !.key = p].tags = placed.tags
  BY <1>2 DEF Entities
<1> QED
  BY <1>2, <1>3, <1>4

\* One step of the program: it assigns, or the entity is found again.
LEMMA ProgramStep ==
  ASSUME Related!RelationsAssumption, RelationsIInv,
         \/ \E p \in parents \cup {Null} : Related!AssignParent(p) \/ Related!AssignKey(p)
         \/ \E ts \in SUBSET tags : Related!AssignTags(ts)
         \/ Related!Rehydrate \/ Related!OthersWrite
  PROVE  RelationsIInv'
<1> USE DEF RelationsIInv, Related!data, Related!history, Related!RelationsAssumption
<1>1. CallsTyped'
  BY DEF CallsTyped, LoadTyped, SaveTyped, Related!AssignParent, Related!AssignKey,
         Related!AssignTags, Related!Rehydrate, Related!OthersWrite
<1>2. TablesTyped'
  BY DEF TablesTyped, ParentKeys, Related!Change, Related!AssignParent, Related!AssignKey,
         Related!AssignTags, Related!Rehydrate, Related!OthersWrite
<1>3. ASSUME NEW p \in parents \cup {Null}, Related!AssignParent(p) PROVE EntityFollows'
  <2>1. p \in ParentKeys
    BY DEF TablesTyped, ParentKeys
  <2>2. entity' \in Entities /\ entity'.parent = p /\ entity'.key = p
    BY <1>3, <2>1, Setter DEF Related!AssignParent, EntityFollows
  <2> QED
    BY <1>3, <2>2 DEF Related!AssignParent, EntityFollows, Related!KeyFollows
<1>4. ASSUME NEW p \in parents \cup {Null}, Related!AssignKey(p) PROVE EntityFollows'
  <2>1. entity' \in Entities /\ entity'.key = p
    BY <1>4 DEF Related!AssignKey, EntityFollows, Entities, TablesTyped, ParentKeys
  <2> QED
    BY <1>4, <2>1 DEF Related!AssignKey, EntityFollows, Related!KeyFollows
<1>5. ASSUME NEW ts \in SUBSET tags, Related!AssignTags(ts) PROVE EntityFollows'
  <2>1. entity' \in Entities /\ entity'.key = entity.key /\ entity'.parent = entity.parent
    BY <1>5 DEF Related!AssignTags, EntityFollows, Entities, TablesTyped
  <2> QED
    BY <1>5, <2>1 DEF Related!AssignTags, EntityFollows, Related!KeyFollows
<1>6. ASSUME Related!Rehydrate PROVE EntityFollows'
  <2>1. entity' \in Entities /\ entity'.key = row /\ entity'.parent = entity.parent
    BY <1>6 DEF Related!Rehydrate, EntityFollows, Entities, TablesTyped
  <2> QED
    BY <1>6, <2>1 DEF Related!Rehydrate, EntityFollows, Related!KeyFollows
<1>7. ASSUME Related!OthersWrite PROVE EntityFollows'
  BY <1>7 DEF Related!OthersWrite, EntityFollows, Related!KeyFollows
<1> QED
  BY <1>1, <1>2, <1>3, <1>4, <1>5, <1>6, <1>7

\* One step of a load.
LEMMA LoadStep ==
  ASSUME Related!RelationsAssumption, RelationsIInv, NEW l \in Loads,
         \/ Related!LoadParent(l) \/ Related!LoadNothing(l) \/ Related!LoadTags(l)
         \/ Related!Find(l) \/ Related!AssignFound(l) \/ Related!AssignFoundTags(l)
              \/ Related!LoadFails(l)
  PROVE  RelationsIInv'
<1> USE DEF RelationsIInv, Related!data, Related!history
<1> DEFINE Others == \A m \in Loads \ {l} : load'[m] = load[m]
<1>0. LoadTyped(l) /\ DOMAIN load = Loads
  BY DEF CallsTyped
<1>1. TablesTyped'
  <2>1. CASE Related!LoadParent(l) \/ Related!LoadTags(l) \/ Related!Find(l)
          \/ Related!AssignFound(l) \/ Related!AssignFoundTags(l)
    BY <2>1
    DEF TablesTyped, Related!LoadParent, Related!LoadTags, Related!Find,
        Related!AssignFound, Related!AssignFoundTags
  <2>2. CASE Related!LoadFails(l)
    <3>1. load[l].what \in {"parent", "tags"}
      BY <1>0, <2>2 DEF Related!LoadFails, LoadTyped, Underway
    <3>2. broken' \subseteq {"parent", "tags"}
      BY <2>2, <3>1 DEF Related!LoadFails, TablesTyped
    <3>3. loadFaults' \in 0..MaxLoadFaults
      BY <2>2 DEF Related!LoadFails, TablesTyped, Related!RelationsAssumption
    <3> QED
      BY <2>2, <3>2, <3>3 DEF Related!LoadFails, TablesTyped
  <2>3. CASE Related!LoadNothing(l)
    <3>1. broken' \subseteq {"parent", "tags"}
      BY <2>3 DEF Related!LoadNothing, TablesTyped
    <3> QED
      BY <2>3, <3>1 DEF Related!LoadNothing, TablesTyped
  <2> QED
    BY <2>1, <2>2, <2>3
<1>2. DOMAIN load' = Loads /\ Others /\ save' = save
  BY <1>0
  DEF Related!LoadParent, Related!LoadNothing, Related!LoadTags, Related!Find, Related!AssignFound,
      Related!AssignFoundTags, Related!LoadFails
<1>3. LoadTyped(l)'
  <2>1. CASE Related!LoadParent(l)
    <3>1. PICK siblings \in SUBSET Parents :
               load'[l] = [at |-> "find", what |-> "parent",
                           ids |-> siblings \cup ({entity.key} \ {Null}), found |-> {}]
      BY <1>0, <2>1 DEF Related!LoadParent
    <3>2. siblings \cup ({entity.key} \ {Null}) \subseteq ParentKeys
      BY DEF EntityFollows, Entities, ParentKeys
    <3> QED
      BY <3>1, <3>2 DEF LoadTyped, Underway
  <2>2. CASE Related!LoadTags(l)
    <3>1. load'[l] = [at |-> "find", what |-> "tags", ids |-> joinRows, found |-> {}]
      BY <1>0, <2>2 DEF Related!LoadTags
    <3> QED
      BY <3>1 DEF LoadTyped, Underway, TablesTyped
  <2>3. CASE Related!Find(l)
    <3>1. load[l] \in Underway /\ (load[l].what = "tags" => load[l].found \subseteq Tags)
      BY <1>0, <2>3 DEF Related!Find, LoadTyped, Related!AtRest
    <3>2. load'[l] = [load[l] EXCEPT !.at = "assign",
                !.found = @ \cup (load[l].ids \cap (IF load[l].what = "tags" THEN tags ELSE parents))]
      BY <1>0, <2>3 DEF Related!Find
    <3>3. /\ load'[l] \in Underway /\ load'[l].what = load[l].what
          /\ load'[l].found = load[l].found
                 \cup (load[l].ids \cap (IF load[l].what = "tags" THEN tags ELSE parents))
      BY <3>1, <3>2 DEF Underway
    <3> QED
      BY <3>1, <3>3 DEF LoadTyped, TablesTyped
  <2>4. CASE Related!AssignFound(l) \/ Related!AssignFoundTags(l) \/ Related!LoadFails(l)
    <3>1. load'[l] = Related!AtRest
      BY <1>0, <2>4 DEF Related!AssignFound, Related!AssignFoundTags, Related!LoadFails
    <3> QED
      BY <3>1 DEF LoadTyped
  <2>5. CASE Related!LoadNothing(l)
    <3>1. load'[l] = load[l]
      BY <2>5 DEF Related!LoadNothing
    <3> QED
      BY <1>0, <3>1 DEF LoadTyped
  <2> QED
    BY <2>1, <2>2, <2>3, <2>4, <2>5
<1>4. CallsTyped'
  BY <1>2, <1>3 DEF CallsTyped, LoadTyped, SaveTyped
<1>5. EntityFollows'
  <2>1. CASE Related!LoadNothing(l)
    <3>1. CASE entity.parent = Lazy
      <4>0. (IF entity.parent = Unset THEN Null ELSE entity.parent) = Lazy
        BY <3>1 DEF Related!RelationsAssumption
      <4>1. entity \in Entities /\ entity' = [entity EXCEPT !.parent = Lazy, !.key = @]
        BY <2>1, <4>0 DEF Related!LoadNothing, EntityFollows, Related!SetParent
      <4>2. entity' = entity
        BY <3>1, <4>1 DEF Entities
      <4>3. entity'.parent \notin Parents \cup {Null}
        BY <3>1, <4>2 DEF Related!RelationsAssumption
      <4> QED
        BY <2>1, <4>2, <4>3 DEF Related!LoadNothing, EntityFollows, Related!KeyFollows
    <3>2. CASE entity.parent # Lazy
      <4>1. PICK p \in ParentKeys : p = IF entity.parent = Unset THEN Null ELSE entity.parent
        BY <3>2 DEF EntityFollows, Entities, ParentKeys
      <4>2. entity' \in Entities /\ entity'.parent = p /\ entity'.key = p
        BY <2>1, <4>1, Setter DEF Related!LoadNothing, EntityFollows
      <4>3. p = entity.key \/ excused'
        BY <2>1, <4>1 DEF Related!LoadNothing, ParentKeys
      <4> QED
        BY <2>1, <4>2, <4>3 DEF Related!LoadNothing, EntityFollows, Related!KeyFollows
    <3> QED
      BY <3>1, <3>2
  <2>2. CASE Related!LoadParent(l) \/ Related!LoadTags(l) \/ Related!Find(l)
          \/ Related!LoadFails(l)
    BY <2>2
    DEF Related!LoadParent, Related!LoadTags, Related!Find, Related!LoadFails, EntityFollows, Related!KeyFollows
  <2>3. CASE Related!AssignFound(l)
    <3>1. PICK p \in ParentKeys : p = IF entity.key \in load[l].found THEN entity.key ELSE Null
      BY DEF EntityFollows, Entities, ParentKeys
    <3>2. entity' \in Entities /\ entity'.parent = p /\ entity'.key = p
      BY <2>3, <3>1, Setter DEF Related!AssignFound, EntityFollows
    <3>3. p = entity.key \/ excused'
      BY <2>3, <3>1 DEF Related!AssignFound
    <3> QED
      BY <2>3, <3>2, <3>3 DEF Related!AssignFound, EntityFollows, Related!KeyFollows
  <2>4. CASE Related!AssignFoundTags(l)
    <3>1. load[l].found \subseteq Tags
      BY <1>0, <2>4 DEF Related!AssignFoundTags, LoadTyped, Related!AtRest
    <3>2. entity' \in Entities /\ entity'.key = entity.key /\ entity'.parent = entity.parent
      BY <2>4, <3>1 DEF Related!AssignFoundTags, EntityFollows, Entities
    <3> QED
      BY <2>4, <3>2 DEF Related!AssignFoundTags, EntityFollows, Related!KeyFollows
  <2> QED
    BY <2>1, <2>2, <2>3, <2>4
<1> QED
  BY <1>1, <1>4, <1>5

\* One step of a save.
LEMMA SaveStep ==
  ASSUME Related!RelationsAssumption, RelationsIInv, Related!SaveReads
           \/ Related!SaveRow \/ Related!SaveLinks \/ Related!SaveEnds
  PROVE  RelationsIInv'
<1> USE DEF RelationsIInv, Related!data, Related!history
<1>1. CASE Related!SaveReads
  <2>1. entity.key \in ParentKeys
    BY DEF EntityFollows, Entities
  <2>2. SaveTyped'
    BY <1>1, <2>1 DEF Related!SaveReads, SaveTyped
  <2> QED
    BY <1>1, <2>2
    DEF Related!SaveReads, TablesTyped, CallsTyped, LoadTyped, EntityFollows,
        Related!KeyFollows
<1>2. CASE Related!SaveRow \/ Related!SaveLinks
  <2>1. save \in [at : {"row", "links", "entity"}, key : ParentKeys]
    BY <1>2 DEF Related!SaveRow, Related!SaveLinks, CallsTyped, SaveTyped, Related!AtRest
  <2>2. SaveTyped'
    BY <1>2, <2>1 DEF Related!SaveRow, Related!SaveLinks, SaveTyped
  <2>3. TablesTyped'
    BY <1>2, <2>1
    DEF Related!SaveRow, Related!SaveLinks, TablesTyped, EntityFollows, Entities
  <2> QED
    BY <1>2, <2>2, <2>3
    DEF Related!SaveRow, Related!SaveLinks, CallsTyped, LoadTyped, EntityFollows,
        Related!KeyFollows
<1>3. CASE Related!SaveEnds
  <2>1. save \in [at : {"row", "links", "entity"}, key : ParentKeys]
    BY <1>3 DEF Related!SaveEnds, CallsTyped, SaveTyped, Related!AtRest
  <2>2. /\ entity' \in Entities /\ entity'.key = save.key
        /\ entity'.parent = IF lazy THEN Lazy ELSE entity.parent
    BY <1>3, <2>1 DEF Related!SaveEnds, EntityFollows, Entities
  <2>3. Related!KeyFollows'
    <3>1. entity'.parent \in Parents \cup {Null} => entity'.parent = entity.parent
      BY <2>2 DEF Related!RelationsAssumption
    <3> QED
      BY <1>3, <2>2, <3>1 DEF Related!SaveEnds, EntityFollows, Related!KeyFollows
  <2>4. SaveTyped'
    BY <1>3 DEF Related!SaveEnds, SaveTyped
  <2>5. TablesTyped'
    BY <1>3 DEF Related!SaveEnds, TablesTyped
  <2> QED
    BY <1>3, <2>2, <2>3, <2>4, <2>5
    DEF Related!SaveEnds, CallsTyped, LoadTyped, EntityFollows
<1> QED
  BY <1>1, <1>2, <1>3

\* Every step of the relations keeps what always holds.
LEMMA RelationsKeep ==
  ASSUME Related!RelationsAssumption, RelationsIInv,
           [Related!RelationsNext]_Related!relationVars PROVE RelationsIInv'
<1>1. CASE UNCHANGED Related!relationVars
  BY <1>1
  DEF Related!relationVars, Related!data, Related!history, RelationsIInv, TablesTyped,
      CallsTyped, LoadTyped,
     SaveTyped, EntityFollows, Related!KeyFollows
<1>2. CASE Related!RelationsNext
  BY <1>2, ProgramStep, LoadStep, SaveStep DEF Related!RelationsNext
<1> QED
  BY <1>1, <1>2

\* What always holds shows the types and that the key follows the property.
LEMMA RelationsTyped == RelationsIInv => Related!TypeOK /\ Related!KeyFollows
  BY DEF RelationsIInv, TablesTyped, CallsTyped, EntityFollows, Entities, ParentKeys,
         Related!TypeOK

-----------------------------------------------------------------------------
(* The suite: one of the three takes all the steps.                        *)

\* The key column of an entity follows its relation, whatever assignments, loads
\* and saves overlap, for any number of loads and of related entities.
THEOREM KeyColumnFollowsTheRelation == SuiteSpec => []KeyFollows
<1>1. SuiteInit => RelationsIInv
  BY SuiteAssumption, RelationsStart DEF SuiteInit
<1>2. [SuiteNext]_SuiteVars => [Related!RelationsNext]_(Related!relationVars)
  BY DEF SuiteNext, SuiteVars, RepositorySteps, QuerySteps, RelationSteps, relationVars,
         Related!relationVars, Related!data, Related!history
<1>3. RelationsIInv /\ [Related!RelationsNext]_(Related!relationVars) => RelationsIInv'
  BY SuiteAssumption, RelationsKeep
<1>4. RelationsIInv => KeyFollows
  BY RelationsTyped DEF KeyFollows
<1> QED
  BY <1>1, <1>2, <1>3, <1>4, PTL DEF SuiteSpec

\* Every variable of the repository, of the queries and of the relations holds
\* values of its kind: what save and delete carry across their awaits, the limit
\* getOne puts back, and the entity the loads write into.
THEOREM EntityTypesOK == SuiteSpec => []TypesOK
<1>1. SuiteInit => Init /\ QueryIInv /\ RelationsIInv
  BY SuiteAssumption, RelationsStart, QueryStart DEF SuiteInit
<1>2. [SuiteNext]_SuiteVars => /\ [Next]_vars
                               /\ [Queries!QueryNext]_(Queries!queryVars)
                               /\ [Related!RelationsNext]_(Related!relationVars)
  BY DEF SuiteNext, SuiteVars, RepositorySteps, QuerySteps, RelationSteps, vars, relationVars,
         queryVars, Queries!queryVars, Related!relationVars, Related!data, Related!history
<1>3. /\ QueryIInv /\ [Queries!QueryNext]_(Queries!queryVars) => QueryIInv'
      /\ RelationsIInv /\ [Related!RelationsNext]_(Related!relationVars) => RelationsIInv'
  BY SuiteAssumption, RelationsKeep, QueryKeeps
<1>4. Typed /\ QueryIInv /\ RelationsIInv => TypesOK
  BY RelationsTyped, QueryTyped DEF TypesOK, Typed
<1> QED
  BY <1>1, <1>2, <1>3, <1>4, TypedInvariant, PTL DEF SuiteSpec, Spec

\* A query returns what had been configured when it was called, whichever engine
\* answers it and however the work is split between the driver and the memory, for any
\* tables, filters and number of callers; the exceptions are those the property names.
THEOREM QueriesAnswerAsAsked == SuiteSpec => AnswersAsAsked
<1>1. SuiteInit => QueryIInv
  BY SuiteAssumption, QueryStart DEF SuiteInit
<1>2. [SuiteNext]_SuiteVars => [Queries!QueryNext]_(Queries!queryVars)
  BY DEF SuiteNext, SuiteVars, RepositorySteps, QuerySteps, RelationSteps, queryVars,
         Queries!queryVars
<1>3. QueryIInv /\ [Queries!QueryNext]_(Queries!queryVars) => QueryIInv'
  BY SuiteAssumption, QueryKeeps
<1>4. QueryIInv => [Queries!Answered]_SuiteVars
  BY SuiteAssumption, QueryAnswers
<1> QED
  BY <1>1, <1>2, <1>3, <1>4, PTL DEF SuiteSpec, AnswersAsAsked

=============================================================================
