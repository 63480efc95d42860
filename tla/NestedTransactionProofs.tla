----------------------- MODULE NestedTransactionProofs -----------------------
(***************************************************************************)
(* TypeOK, NestedAllOrNothing and EntitiesAgree of NestedTransaction for   *)
(* any set of frames, nested to any depth and run in any order, and any    *)
(* keys.                                                                   *)
(***************************************************************************)
EXTENDS NestedTransaction, FiniteSetTheorems, TLAPS

\* Savepoint names are numbers.
LEMMA NamesAreNumbers ==
  /\ Cardinality(Nested) \in Nat
  /\ SavepointNames \subseteq Nat \ {0}
  /\ SavepointNames \subseteq 0..Cardinality(Nested)
<1>1. IsFiniteSet(Nested)
  BY NestedTransactionAssumption, FS_RemoveElement DEF Nested
<1>2. Cardinality(Nested) \in Nat
  BY <1>1, FS_CardinalityType
<1> QED
  BY <1>2 DEF SavepointNames

\* The records a frame goes through.
LEMMA FrameFields ==
  ASSUME TypeOK, NEW f \in Frames
  PROVE  /\ frame[f].status \in {"unused", "entering", "running", "done", "failed"}
         /\ frame[f].parent \in Frames \cup {Conn}
         /\ frame[f].within \subseteq Frames
         /\ frame[f].savepoint \in 0..Cardinality(Nested)
         /\ frame[f].counter \in 0..Cardinality(Nested)
         /\ frame[f].scope \in Frames
         /\ frame[f].into \in Frames
  BY DEF TypeOK, FrameRecords

\* A frame that has ended is a frame again.
LEMMA UnusedType ==
  ASSUME NEW st \in {"unused", "entering", "running", "done", "failed"}
  PROVE  [Unused EXCEPT !.status = st] \in FrameRecords
  BY NestedTransactionAssumption, NamesAreNumbers DEF Unused, FrameRecords

\* And so is one that was never used.
LEMMA UnusedIsFrame == Unused \in FrameRecords
  BY NestedTransactionAssumption, NamesAreNumbers DEF Unused, FrameRecords

\* No entries are entries.
LEMMA NoEntriesType == NoEntries \in TableStates
  BY DEF NoEntries, TableStates, Rows

\* What a step disturbs are frames.
LEMMA DisturbType ==
  ASSUME TypeOK, NEW f \in Frames, Disturb(f) PROVE disturbed' \subseteq Frames
  BY DEF TypeOK, Disturb

\* A frame ends.
LEMMA EndType ==
  ASSUME TypeOK, NEW f \in Frames, NEW st \in {"done", "failed"}, End(f, st)
  PROVE  /\ frame' \in [Frames -> FrameRecords]
         /\ entry' \in [Frames -> TableStates]
         /\ disturbed' \subseteq Frames
<1>1. [Unused EXCEPT !.status = st] \in FrameRecords
  BY UnusedType
<1>2. frame' = [frame EXCEPT ![f] = [Unused EXCEPT !.status = st]]
  BY DEF End
<1>3. disturbed' \subseteq Frames
  BY DisturbType DEF End
<1> QED
  BY <1>1, <1>2, <1>3, NoEntriesType DEF TypeOK, End

\* A scope adopts the entities of another.
LEMMA AdoptType ==
  ASSUME TypeOK, NEW into \in Scopes, NEW from \in Scopes, Adopt(into, from)
  PROVE  map' \in [Scopes -> TableStates] /\ stale' \in [Scopes -> SUBSET Keys]
<1>1. ASSUME NEW m \in TableStates
      PROVE  [k \in Keys |-> IF map[from][k] = Absent THEN m[k] ELSE map[from][k]]
                 \in TableStates
  BY DEF TypeOK, TableStates
<1>2. map' \in [Scopes -> TableStates]
  BY <1>1, NoEntriesType DEF TypeOK, Adopt
<1>3. stale' \in [Scopes -> SUBSET Keys]
  BY DEF TypeOK, Adopt
<1> QED
  BY <1>2, <1>3

\* A frame's step on one row and on the entry of one key.
LEMMA RowType ==
  ASSUME NEW t \in TableStates, NEW k \in Keys, NEW r \in Rows
  PROVE  [t EXCEPT ![k] = r] \in TableStates
  BY DEF TableStates

\* One entry of an identity map is replaced.
LEMMA EntryType ==
  ASSUME TypeOK, NEW s \in Scopes, NEW k \in Keys, NEW r \in Rows
  PROVE  [map EXCEPT ![s][k] = r] \in [Scopes -> TableStates]
<1>1. [map[s] EXCEPT ![k] = r] \in TableStates
  BY RowType DEF TypeOK
<1> QED
  BY <1>1 DEF TypeOK

\* Keys of a scope become stale, or are so no longer.
LEMMA StaleType ==
  ASSUME TypeOK, NEW s \in Scopes, NEW ks \in SUBSET Keys
  PROVE  /\ [stale EXCEPT ![s] = ks] \in [Scopes -> SUBSET Keys]
         /\ [stale EXCEPT ![s] = @ \cup ks] \in [Scopes -> SUBSET Keys]
         /\ [stale EXCEPT ![s] = @ \ ks] \in [Scopes -> SUBSET Keys]
  BY DEF TypeOK

-----------------------------------------------------------------------------
\* How frames lie within one another.  A call's savepoint has a number of its
\* own that is higher than those of the calls around it, because it starts to
\* count where the enclosing call, at least, has arrived.
Placed(x) ==
    /\ frame[x].status = "unused" => frame[x] = Unused
    /\ Open(x) =>
          /\ x \in Nested => frame[x].savepoint \in SavepointNames
          /\ frame[x].savepoint <= frame[x].counter
          /\ \A g \in frame[x].within :
                /\ frame[g].status # "unused"
                /\ Open(g) => frame[g].savepoint < frame[x].savepoint
          /\ frame[x].status = "entering" =>
                /\ frame[x].parent \in frame[x].within
                /\ Open(frame[x].parent) => frame[x].counter <= frame[frame[x].parent].counter

Nesting == \A x \in Frames : Placed(x)

\* The savepoint of a call is the copy it found, unless a frame outside the
\* call has run, which may have reused the name.
Kept ==
    \A g \in Nested :
        Open(g) /\ g \notin disturbed => savepoints[frame[g].savepoint] = entry[g]

-----------------------------------------------------------------------------
\* Type correctness (connection.ts, identity-map.ts): the savepoint a failed
\* nested call goes back to is a copy of the table, whatever was released.
LEMMA TypeInit == Init => TypeOK
<1> SUFFICES ASSUME Init PROVE TypeOK
  OBVIOUS
<1>1. table \in TableStates
  BY DEF Init, TableStates, Rows
<1>2. frame \in [Frames -> FrameRecords]
  BY UnusedIsFrame DEF Init
<1>3. map \in [Scopes -> TableStates]
  BY <1>1, NoEntriesType DEF Init
<1> QED
  BY <1>1, <1>2, <1>3, NoEntriesType DEF Init, TypeOK

\* Every step keeps the types, given that names nest.
LEMMA TypeStep == TypeOK /\ Nesting /\ [Next]_vars => TypeOK'
<1> SUFFICES ASSUME TypeOK, Nesting, [Next]_vars PROVE TypeOK'
  OBVIOUS
<1>s. Frames \subseteq Scopes /\ Conn \in Scopes /\ Root \in Frames /\ Nested \subseteq Frames
  BY NestedTransactionAssumption DEF Scopes, Nested
<1>1. CASE BeginRoot /\ UNCHANGED mode
  <2>1. frame' \in [Frames -> FrameRecords]
    BY <1>1, <1>s DEF TypeOK, BeginRoot, FrameRecords
  <2> QED
    BY <1>1, <1>s, <2>1 DEF TypeOK, BeginRoot
<1>2. CASE RootCommits /\ UNCHANGED mode
  BY <1>2, <1>s, AdoptType, EndType DEF TypeOK, RootCommits
<1>3. CASE RootCommitRejects /\ UNCHANGED mode
  BY <1>3, <1>s, EndType, StaleType DEF TypeOK, RootCommitRejects
<1>4. CASE RootFails /\ UNCHANGED mode
  BY <1>4, <1>s, EndType DEF TypeOK, RootFails
<1>5. ASSUME NEW f \in Frames, NEW k \in Keys, Find(f, k), UNCHANGED mode PROVE TypeOK'
  <2>1. working[k] \in Rows /\ frame[f].scope \in Scopes
    BY <1>s, FrameFields DEF TypeOK, TableStates
  <2>2. map' \in [Scopes -> TableStates] /\ stale' \in [Scopes -> SUBSET Keys]
    <3>1. map' = [map EXCEPT ![frame[f].scope][k] = working[k]]
      BY <1>5 DEF Find
    <3>2. stale' = [stale EXCEPT ![frame[f].scope] = @ \ {k}] /\ {k} \in SUBSET Keys
      BY <1>5 DEF Find
    <3> QED
      BY <2>1, <3>1, <3>2, EntryType, StaleType
  <2>3. disturbed' \subseteq Frames
    BY <1>5, DisturbType DEF Find
  <2> QED
    BY <1>5, <2>2, <2>3 DEF TypeOK, Find
<1>6. ASSUME NEW f \in Frames, NEW k \in Keys, Save(f, k), UNCHANGED mode PROVE TypeOK'
  <2>1. f \in Rows /\ frame[f].scope \in Scopes
    BY <1>s, FrameFields DEF Rows
  <2>2. map' \in [Scopes -> TableStates] /\ stale' \in [Scopes -> SUBSET Keys]
    <3>1. map' = [map EXCEPT ![frame[f].scope][k] = f]
      BY <1>6 DEF Save
    <3>2. stale' = [stale EXCEPT ![frame[f].scope] = @ \ {k}] /\ {k} \in SUBSET Keys
      BY <1>6 DEF Save
    <3> QED
      BY <2>1, <3>1, <3>2, EntryType, StaleType
  <2>3. disturbed' \subseteq Frames
    BY <1>6, DisturbType DEF Save
  <2>4. working' \in TableStates
    BY <1>6, <2>1, RowType DEF TypeOK, Save
  <2> QED
    BY <1>6, <2>2, <2>3, <2>4 DEF TypeOK, Save
<1>7. ASSUME NEW f \in Frames, NEW k \in Keys, Delete(f, k), UNCHANGED mode PROVE TypeOK'
  <2>1. Absent \in Rows /\ frame[f].scope \in Scopes
    BY <1>s, FrameFields DEF Rows
  <2>2. map' \in [Scopes -> TableStates] /\ stale' \in [Scopes -> SUBSET Keys]
    <3>1. map' = [map EXCEPT ![frame[f].scope][k] = Absent]
      BY <1>7 DEF Delete
    <3>2. stale' = [stale EXCEPT ![frame[f].scope] = @ \ {k}] /\ {k} \in SUBSET Keys
      BY <1>7 DEF Delete
    <3> QED
      BY <2>1, <3>1, <3>2, EntryType, StaleType
  <2>3. disturbed' \subseteq Frames
    BY <1>7, DisturbType DEF Delete
  <2>4. working' \in TableStates
    BY <1>7, <2>1, RowType DEF TypeOK, Delete
  <2> QED
    BY <1>7, <2>2, <2>3, <2>4 DEF TypeOK, Delete
<1>8. ASSUME NEW f \in Frames, NEW g \in Nested, NEW isolated \in BOOLEAN,
             BeginNested(f, g, isolated), UNCHANGED mode
      PROVE  TypeOK'
  <2> DEFINE name == frame[f].counter + 1
  <2>1. name \in SavepointNames /\ name \in 0..Cardinality(Nested)
    BY <1>8, NamesAreNumbers DEF BeginNested
  <2>2. ASSUME NEW h \in Frames PROVE frame'[h] \in FrameRecords
    <3>1. CASE h = g
      BY <1>8, <1>s, <2>1, <3>1, FrameFields DEF BeginNested, FrameRecords
    <3>2. CASE h # g /\ (h = f \/ (frame[h].status = "entering" /\ frame[h].parent = f))
      <4>1. frame'[h] = [frame[h] EXCEPT !.counter = name]
        BY <1>8, <3>2 DEF BeginNested
      <4> QED
        BY <2>1, <4>1 DEF TypeOK, FrameRecords
    <3>3. CASE h # g /\ ~(h = f \/ (frame[h].status = "entering" /\ frame[h].parent = f))
      <4>1. frame'[h] = frame[h]
        BY <1>8, <3>3 DEF BeginNested
      <4> QED
        BY <4>1 DEF TypeOK
    <3> QED
      BY <3>1, <3>2, <3>3
  <2>3. frame' \in [Frames -> FrameRecords]
    <3>1. frame' = [h \in Frames |-> frame'[h]]
      BY <1>8 DEF BeginNested
    <3> QED
      BY <2>2, <3>1
  <2>4. savepoints' \in [SavepointNames -> TableStates \cup {NoSavepoint}]
    BY <1>8, <2>1 DEF BeginNested, TypeOK
  <2>5. entry' \in [Frames -> TableStates]
    BY <1>8, <1>s DEF BeginNested, TypeOK
  <2>6. disturbed' \subseteq Frames
    BY <1>8, DisturbType DEF BeginNested
  <2> QED
    BY <1>8, <2>3, <2>4, <2>5, <2>6 DEF BeginNested, TypeOK
<1>9. ASSUME NEW g \in Nested, Enter(g), UNCHANGED mode PROVE TypeOK'
  <2>1. frame' \in [Frames -> FrameRecords]
    BY <1>9, <1>s DEF TypeOK, Enter, FrameRecords
  <2> QED
    BY <1>9, <2>1 DEF TypeOK, Enter
<1>10. ASSUME NEW g \in Nested, NestedSucceeds(g), UNCHANGED mode PROVE TypeOK'
  <2>1. /\ frame' \in [Frames -> FrameRecords]
        /\ entry' \in [Frames -> TableStates]
        /\ disturbed' \subseteq Frames
    BY <1>10, <1>s, EndType DEF NestedSucceeds
  <2>2. map' \in [Scopes -> TableStates] /\ stale' \in [Scopes -> SUBSET Keys]
    <3>1. CASE frame[g].scope = g
      <4>1. Adopt(frame[g].into, g)
        BY <1>10, <3>1 DEF NestedSucceeds
      <4>2. frame[g].into \in Scopes /\ g \in Scopes
        BY <1>s, FrameFields
      <4> QED
        BY <4>1, <4>2, AdoptType
    <3>2. CASE frame[g].scope # g
      BY <1>10, <3>2 DEF NestedSucceeds, TypeOK
    <3> QED
      BY <3>1, <3>2
  <2>3. savepoints' \in [SavepointNames -> TableStates \cup {NoSavepoint}]
    BY <1>10 DEF NestedSucceeds, TypeOK
  <2> QED
    BY <1>10, <2>1, <2>2, <2>3 DEF NestedSucceeds, TypeOK
<1>11. ASSUME NEW g \in Nested, NestedFails(g), UNCHANGED mode PROVE TypeOK'
  <2>1. /\ frame' \in [Frames -> FrameRecords]
        /\ entry' \in [Frames -> TableStates]
        /\ disturbed' \subseteq Frames
    BY <1>11, <1>s, EndType DEF NestedFails
  <2>2. working' \in TableStates
    <3>1. frame[g].savepoint \in SavepointNames
      BY <1>11, <1>s DEF NestedFails, Acts, Open, Nesting, Placed
    <3> QED
      BY <1>11, <3>1 DEF NestedFails, TypeOK
  <2>3. frame[g].scope \in Scopes /\ g \in Scopes
    BY <1>s, FrameFields
  <2>4. map' \in [Scopes -> TableStates] /\ stale' \in [Scopes -> SUBSET Keys]
    <3>1. CASE frame[g].scope = g
      BY <1>11, <2>3, <3>1, NoEntriesType, StaleType DEF NestedFails, TypeOK
    <3>2. CASE frame[g].scope # g
      <4> DEFINE undone == {k \in Keys : working'[k] # working[k]}
      <4>1. stale' = [stale EXCEPT ![frame[g].scope] = @ \cup undone] /\ map' = map
        BY <1>11, <3>2 DEF NestedFails
      <4>2. undone \in SUBSET Keys
        OBVIOUS
      <4>3. stale' \in [Scopes -> SUBSET Keys]
        <5> HIDE DEF undone
        <5> QED
          BY <2>3, <4>1, <4>2, StaleType
      <4> QED
        BY <4>1, <4>3 DEF TypeOK
    <3> QED
      BY <3>1, <3>2
  <2> QED
    BY <1>11, <2>1, <2>2, <2>4 DEF NestedFails, TypeOK
<1>12. ASSUME NEW k \in Keys, ConnFind(k), UNCHANGED mode PROVE TypeOK'
  <2>1. table[k] \in Rows
    BY DEF TypeOK, TableStates
  <2>2. map' \in [Scopes -> TableStates] /\ stale' \in [Scopes -> SUBSET Keys]
    BY <1>12, <1>s, <2>1, EntryType, StaleType DEF ConnFind
  <2> QED
    BY <1>12, <2>2 DEF TypeOK, ConnFind
<1>13. CASE UNCHANGED vars
  BY <1>13 DEF TypeOK, vars
<1> QED
  BY <1>1, <1>2, <1>3, <1>4, <1>5, <1>6, <1>7, <1>8, <1>9, <1>10, <1>11, <1>12, <1>13,
     NestedTransactionAssumption DEF Next, Step, TypeOK, CallerModes

-----------------------------------------------------------------------------
\* At first no call has a savepoint.
LEMMA NestingInit == Init => Nesting /\ Kept
<1> SUFFICES ASSUME Init PROVE Nesting /\ Kept
  OBVIOUS
<1>1. \A x \in Frames : frame[x] = Unused /\ ~Open(x)
  BY DEF Init, Unused, Open
<1> QED
  BY <1>1 DEF Nesting, Placed, Kept, Nested

\* Steps that only touch rows and identity maps.
LEMMA NestingRows ==
  ASSUME TypeOK, Nesting, Kept, UNCHANGED <<savepoints, frame, entry>>,
         disturbed \subseteq disturbed'
  PROVE  Nesting' /\ Kept'
<1>1. \A x : Open(x)' <=> Open(x)
  BY DEF Open
<1>2. Nesting'
  BY <1>1 DEF Nesting, Placed
<1>3. Kept'
  BY <1>1 DEF Kept
<1> QED
  BY <1>2, <1>3

\* The end of a frame: its savepoint has a higher number than those of the
\* frames around it, and every other frame that is open becomes disturbed.
LEMMA NestingEnd ==
  ASSUME TypeOK, Nesting, Kept, NEW g \in Frames, Open(g),
         NEW st \in {"done", "failed"}, End(g, st),
         \/ UNCHANGED savepoints
         \/ /\ g \in Nested
            /\ savepoints' = [savepoints EXCEPT ![frame[g].savepoint] = NoSavepoint]
  PROVE  Nesting' /\ Kept'
<1>1. /\ frame'[g].status = st
      /\ \A x \in Frames \ {g} : frame'[x] = frame[x] /\ entry'[x] = entry[x]
  BY DEF End, TypeOK, Unused
<1>2. ~Open(g)' /\ frame'[g].status # "unused"
  BY <1>1 DEF Open
<1>3. \A x \in Frames \ {g} : Open(x)' <=> Open(x)
  BY <1>1 DEF Open
<1>4. Nesting'
  <2> SUFFICES ASSUME NEW x \in Frames PROVE Placed(x)'
    BY DEF Nesting
  <2>1. CASE x = g
    BY <1>2, <2>1 DEF Placed
  <2>2. CASE x # g
    <3>1. frame'[x] = frame[x] /\ frame[x].within \subseteq Frames
      BY <1>1, <2>2, FrameFields
    <3>2. Placed(x)
      BY DEF Nesting
    <3> QED
      BY <1>1, <1>2, <1>3, <2>2, <3>1, <3>2 DEF Placed
  <2> QED
    BY <2>1, <2>2
<1>5. Kept'
  <2> SUFFICES ASSUME NEW x \in Nested, Open(x)', x \notin disturbed'
               PROVE  savepoints'[frame'[x].savepoint] = entry'[x]
    BY DEF Kept, Open
  <2>1. x \in Frames /\ x # g /\ Open(x)
    BY <1>2, <1>3 DEF Nested
  <2>2. x \notin disturbed /\ x \in frame[g].within
    BY <2>1 DEF End, Disturb
  <2>3. frame'[x] = frame[x] /\ entry'[x] = entry[x]
    BY <1>1, <2>1
  <2>4. savepoints[frame[x].savepoint] = entry[x]
    BY <2>1, <2>2 DEF Kept
  <2>5. frame[x].savepoint < frame[g].savepoint
    BY <2>1, <2>2 DEF Nesting, Placed
  <2>6. frame[x].savepoint # frame[g].savepoint
    BY <2>1, <2>5, FrameFields, NamesAreNumbers
  <2>7. frame[x].savepoint \in SavepointNames
    BY <2>1 DEF Nesting, Placed
  <2> QED
    BY <2>3, <2>4, <2>6, <2>7 DEF TypeOK
<1> QED
  BY <1>4, <1>5

\* The start of a nested call: the name it gives its savepoint is higher than
\* that of the caller and of everything around the caller.
LEMMA NestingBegin ==
  ASSUME TypeOK, Nesting, Kept, NEW f \in Frames, NEW g \in Nested, NEW isolated \in BOOLEAN,
         BeginNested(f, g, isolated)
  PROVE  Nesting' /\ Kept'
<1> DEFINE name == frame[f].counter + 1
<1> DEFINE Raised(h) == h = f \/ (frame[h].status = "entering" /\ frame[h].parent = f)
<1>1. /\ name \in SavepointNames /\ g \in Frames /\ frame[g] = Unused
      /\ Open(f) /\ frame[f].status = "running" /\ f # g
  BY DEF BeginNested, Acts, Open, Nested, Nesting, Placed
<1>2. /\ frame'[g].status = "entering" /\ frame'[g].parent = f
      /\ frame'[g].within = {f} \cup frame[f].within
      /\ frame'[g].savepoint = name /\ frame'[g].counter = name
  BY <1>1 DEF BeginNested
<1>3. \A h \in Frames \ {g} :
         frame'[h] = IF Raised(h) THEN [frame[h] EXCEPT !.counter = name] ELSE frame[h]
  BY DEF BeginNested
<1>4. \A h \in Frames \ {g} :
         /\ frame'[h].status = frame[h].status /\ frame'[h].within = frame[h].within
         /\ frame'[h].parent = frame[h].parent /\ frame'[h].savepoint = frame[h].savepoint
         /\ frame'[h].counter = IF Raised(h) THEN name ELSE frame[h].counter
         /\ Open(h)' <=> Open(h)
  BY <1>3 DEF TypeOK, FrameRecords, Open
<1>5. \A h \in Frames \ {g} : Raised(h) => frame[h].status # "unused"
  BY <1>1
<1>6. \A h \in Frames : Open(h) /\ Raised(h) => frame[h].counter <= frame[f].counter
  BY <1>1, FrameFields, NamesAreNumbers DEF Nesting, Placed
<1> HIDE DEF Raised
<1>7. ASSUME NEW x \in Frames PROVE Placed(x)'
  <2>1. CASE x = g
    <3>1. \A h \in {f} \cup frame[f].within :
             /\ h # g /\ h \in Frames /\ frame[h].status # "unused"
             /\ Open(h) => frame[h].savepoint < name
      <4>1. /\ frame[f].savepoint <= frame[f].counter
            /\ frame[f].savepoint \in Nat /\ frame[f].counter \in Nat
        BY <1>1, FrameFields, NamesAreNumbers DEF Nesting, Placed
      <4>2. ASSUME NEW h \in frame[f].within
            PROVE  /\ h \in Frames /\ frame[h].status # "unused"
                   /\ Open(h) => frame[h].savepoint < name
        <5>1. h \in Frames
          BY FrameFields
        <5>2. frame[h].savepoint \in Nat
          BY <5>1, FrameFields, NamesAreNumbers
        <5>3. frame[h].status # "unused" /\ (Open(h) => frame[h].savepoint < frame[f].savepoint)
          BY <1>1 DEF Nesting, Placed
        <5> QED
          BY <4>1, <5>1, <5>2, <5>3
      <4> QED
        BY <1>1, <4>1, <4>2 DEF Unused
    <3>2. name <= name
      BY FrameFields, NamesAreNumbers
    <3>3. frame'[f].counter = name
      BY <1>1, <1>4 DEF Raised
    <3> QED
      BY <1>1, <1>2, <1>4, <2>1, <3>1, <3>2, <3>3 DEF Placed
  <2>2. CASE x # g
    <3>1. Placed(x) /\ frame[x].within \subseteq Frames
      BY FrameFields DEF Nesting
    <3>2. frame'[x].status = "unused" => frame'[x] = Unused
      BY <1>3, <1>4, <1>5, <2>2, <3>1 DEF Placed
    <3>3. SUFFICES ASSUME Open(x)
          PROVE  /\ frame'[x].savepoint <= frame'[x].counter
                 /\ \A h \in frame'[x].within :
                       /\ frame'[h].status # "unused"
                       /\ Open(h)' => frame'[h].savepoint < frame'[x].savepoint
                 /\ frame'[x].status = "entering" =>
                       /\ frame[x].parent \in frame'[x].within
                       /\ Open(frame[x].parent)' =>
                             frame'[x].counter <= frame'[frame[x].parent].counter
      BY <1>4, <2>2, <3>1, <3>2 DEF Placed
    <3>4. g \notin frame[x].within
      BY <1>1, <3>1, <3>3 DEF Placed, Unused
    <3>5. frame'[x].savepoint <= frame'[x].counter
      BY <1>4, <1>6, <2>2, <3>1, <3>3, FrameFields, NamesAreNumbers DEF Placed
    <3>6. \A h \in frame'[x].within :
             /\ frame'[h].status # "unused"
             /\ Open(h)' => frame'[h].savepoint < frame'[x].savepoint
      BY <1>4, <2>2, <3>1, <3>3, <3>4 DEF Placed
    <3>7. ASSUME frame[x].status = "entering"
          PROVE  /\ frame[x].parent \in frame'[x].within
                 /\ Open(frame[x].parent)' =>
                       frame'[x].counter <= frame'[frame[x].parent].counter
      <4> DEFINE p == frame[x].parent
      <4>1. p \in frame[x].within /\ p \in Frames /\ p # g
        BY <3>1, <3>3, <3>4, <3>7 DEF Placed
      <4>2. p \in frame'[x].within /\ (Open(p)' <=> Open(p))
        BY <1>4, <2>2, <4>1
      <4>3. ASSUME Open(p) PROVE frame'[x].counter <= frame'[p].counter
        <5>1. /\ frame[x].counter <= frame[p].counter
              /\ frame[x].counter \in Nat /\ frame[p].counter \in Nat /\ frame[f].counter \in Nat
          BY <3>1, <3>3, <3>7, <4>1, <4>3, FrameFields, NamesAreNumbers DEF Placed
        <5>2. CASE Raised(x)
          <6>1. p = f
            BY <1>1, <3>7, <5>2 DEF Raised
          <6> QED
            BY <1>4, <2>2, <4>1, <5>1, <5>2, <6>1 DEF Raised
        <5>3. CASE ~Raised(x)
          <6>1. CASE Raised(p)
            <7>1. frame[p].counter <= frame[f].counter
              BY <1>6, <4>1, <4>3, <6>1
            <7> QED
              BY <1>4, <2>2, <4>1, <5>1, <5>3, <6>1, <7>1
          <6>2. CASE ~Raised(p)
            BY <1>4, <2>2, <4>1, <5>1, <5>3, <6>2
          <6> QED
            BY <6>1, <6>2
        <5> QED
          BY <5>2, <5>3
      <4> QED
        BY <4>2, <4>3
    <3> QED
      BY <1>4, <2>2, <3>5, <3>6, <3>7
  <2> QED
    BY <2>1, <2>2
<1>8. Kept'
  <2> SUFFICES ASSUME NEW x \in Nested, Open(x)', x \notin disturbed'
               PROVE  savepoints'[frame'[x].savepoint] = entry'[x]
    BY DEF Kept, Open
  <2>1. /\ savepoints' = [savepoints EXCEPT ![name] = working]
        /\ entry' = [entry EXCEPT ![g] = working]
        /\ x \in Frames
    BY DEF BeginNested, Nested
  <2>2. CASE x = g
    BY <1>1, <1>2, <2>1, <2>2 DEF TypeOK
  <2>3. CASE x # g
    <3>1. Open(x) /\ frame'[x].savepoint = frame[x].savepoint /\ entry'[x] = entry[x]
      BY <1>4, <2>1, <2>3 DEF TypeOK
    <3>2. x \notin disturbed /\ x \in {f} \cup frame[f].within
      BY <2>1, <3>1 DEF BeginNested, Disturb
    <3>3. /\ frame[f].savepoint <= frame[f].counter
          /\ frame[x].savepoint = frame[f].savepoint \/ frame[x].savepoint < frame[f].savepoint
      BY <1>1, <3>1, <3>2 DEF Nesting, Placed
    <3>4. /\ frame[f].savepoint \in Nat /\ frame[f].counter \in Nat
          /\ frame[x].savepoint \in Nat
      BY <2>1, FrameFields, NamesAreNumbers
    <3>5. frame[x].savepoint # name
      BY <3>3, <3>4
    <3>6. frame[x].savepoint \in SavepointNames
      BY <2>1, <3>1 DEF Nesting, Placed
    <3> QED
      BY <2>1, <3>1, <3>2, <3>5, <3>6 DEF TypeOK, Kept
  <2> QED
    BY <2>2, <2>3
<1> QED
  BY <1>7, <1>8 DEF Nesting

\* Every step keeps the savepoints nested, and their copies.
LEMMA NestingStep == TypeOK /\ Nesting /\ Kept /\ [Next]_vars => Nesting' /\ Kept'
<1> SUFFICES ASSUME TypeOK, Nesting, Kept, [Next]_vars PROVE Nesting' /\ Kept'
  OBVIOUS
<1>s. Root \in Frames /\ Nested \subseteq Frames /\ Root \notin Nested
  BY NestedTransactionAssumption DEF Nested
<1>1. CASE BeginRoot
  <2>1. /\ frame'[Root] = [frame[Root] EXCEPT !.status = "running"]
        /\ frame[Root] = Unused
        /\ \A x \in Frames \ {Root} : frame'[x] = frame[x] /\ entry'[x] = entry[x]
    BY <1>1, <1>s DEF BeginRoot, TypeOK, Nesting, Placed
  <2>2. frame'[Root] = [status |-> "running", parent |-> Conn, within |-> {},
                        savepoint |-> 0, counter |-> 0, scope |-> Root, into |-> Root]
    BY <2>1 DEF Unused
  <2>3. \A x \in Frames \ {Root} : Open(x)' <=> Open(x)
    BY <2>1 DEF Open
  <2>4. ASSUME NEW x \in Frames PROVE Placed(x)'
    <3>1. CASE x = Root
      BY <1>s, <2>2, <3>1 DEF Placed
    <3>2. CASE x # Root
      <4>1. Placed(x) /\ frame[x].within \subseteq Frames /\ frame'[x] = frame[x]
        BY <2>1, <3>2, FrameFields DEF Nesting
      <4>2. Open(x) => Root \notin frame[x].within
        BY <2>1, <4>1 DEF Placed, Unused
      <4> QED
        BY <2>1, <2>3, <3>2, <4>1, <4>2 DEF Placed
    <3> QED
      BY <3>1, <3>2
  <2>5. Kept'
    BY <1>1, <1>s, <2>1, <2>3 DEF Kept, BeginRoot
  <2> QED
    BY <2>4, <2>5 DEF Nesting
<1>2. CASE RootCommits
  BY <1>2, <1>s, NestingEnd DEF RootCommits, Acts, Open
<1>3. CASE RootCommitRejects
  BY <1>3, <1>s, NestingEnd DEF RootCommitRejects, Acts, Open
<1>4. CASE RootFails
  BY <1>4, <1>s, NestingEnd DEF RootFails, Acts, Open
<1>5. ASSUME NEW f \in Frames, NEW k \in Keys, Find(f, k) \/ Save(f, k) \/ Delete(f, k)
      PROVE  Nesting' /\ Kept'
  BY <1>5, NestingRows DEF Find, Save, Delete, Disturb
<1>8. ASSUME NEW f \in Frames, NEW g \in Nested, NEW isolated \in BOOLEAN,
             BeginNested(f, g, isolated)
      PROVE  Nesting' /\ Kept'
  BY <1>8, NestingBegin
<1>9. ASSUME NEW g \in Nested, Enter(g) PROVE Nesting' /\ Kept'
  <2>1. /\ frame'[g] = [frame[g] EXCEPT !.status = "running"]
        /\ frame[g].status = "entering"
        /\ \A x \in Frames \ {g} : frame'[x] = frame[x]
    BY <1>9, <1>s DEF Enter, TypeOK
  <2>2. \A x \in Frames :
           /\ Open(x)' <=> Open(x)
           /\ frame'[x].status = "unused" <=> frame[x].status = "unused"
           /\ frame'[x].status = "entering" => frame[x].status = "entering"
           /\ frame'[x].within = frame[x].within
           /\ frame'[x].parent = frame[x].parent
           /\ frame'[x].savepoint = frame[x].savepoint
           /\ frame'[x].counter = frame[x].counter
    BY <1>s, <2>1 DEF Open, TypeOK, FrameRecords
  <2>3. ASSUME NEW x \in Frames PROVE Placed(x)'
    <3>1. Placed(x) /\ frame[x].within \subseteq Frames
      BY FrameFields DEF Nesting
    <3>2. frame'[x].status = "unused" => frame'[x] = Unused
      BY <2>1, <2>2, <3>1 DEF Placed
    <3> QED
      BY <2>2, <3>1, <3>2 DEF Placed
  <2>4. Kept'
    BY <1>9, <1>s, <2>2 DEF Kept, Enter
  <2> QED
    BY <2>3, <2>4 DEF Nesting
<1>10. ASSUME NEW g \in Nested, NestedSucceeds(g) PROVE Nesting' /\ Kept'
  BY <1>10, <1>s, NestingEnd DEF NestedSucceeds, Acts, Open
<1>11. ASSUME NEW g \in Nested, NestedFails(g) PROVE Nesting' /\ Kept'
  BY <1>11, <1>s, NestingEnd DEF NestedFails, Acts, Open
<1>12. ASSUME NEW k \in Keys, ConnFind(k) PROVE Nesting' /\ Kept'
  BY <1>12, NestingRows DEF ConnFind
<1>13. CASE UNCHANGED vars
  BY <1>13, NestingRows DEF vars
<1> QED
  BY <1>1, <1>2, <1>3, <1>4, <1>5, <1>8, <1>9, <1>10, <1>11, <1>12, <1>13,
     NestedTransactionAssumption DEF Next, Step, TypeOK, CallerModes

-----------------------------------------------------------------------------
\* A failed nested call is the only step that ends a nested frame as failed.
LEMMA FailureIsUndone ==
  TypeOK /\ Nesting /\ Kept /\ [Next]_vars
    => [\A g \in Nested :
           Open(g) /\ g \notin disturbed /\ frame'[g].status = "failed"
               => working' = entry[g]]_vars
<1> SUFFICES ASSUME TypeOK, Nesting, Kept, Next,
                    NEW g \in Nested, Open(g), g \notin disturbed, frame'[g].status = "failed"
             PROVE  working' = entry[g]
  OBVIOUS
<1>s. g \in Frames /\ g # Root /\ Root \in Frames
  BY NestedTransactionAssumption DEF Nested
<1>1. NestedFails(g)
  <2>1. ASSUME NEW f \in Frames, NEW st \in {"done", "failed"}, End(f, st), f # g
        PROVE  FALSE
    BY <1>s, <2>1 DEF End, TypeOK, Open
  <2>2. ~BeginRoot
    BY <1>s DEF BeginRoot, TypeOK, Open
  <2>3. ~RootCommits /\ ~RootCommitRejects /\ ~RootFails
    BY <1>s, <2>1 DEF RootCommits, RootCommitRejects, RootFails
  <2>4. ASSUME NEW f \in Frames, NEW k \in Keys, Find(f, k) \/ Save(f, k) \/ Delete(f, k)
        PROVE  FALSE
    BY <2>4 DEF Find, Save, Delete, Open
  <2>5. ASSUME NEW f \in Frames, NEW h \in Nested, NEW isolated \in BOOLEAN,
               BeginNested(f, h, isolated)
        PROVE  FALSE
    <3>1. CASE g = h
      BY <1>s, <2>5, <3>1 DEF BeginNested, Open
    <3>2. CASE g # h
      <4>1. \/ frame'[g] = frame[g]
            \/ frame'[g] = [frame[g] EXCEPT !.counter = frame[f].counter + 1]
        BY <1>s, <2>5, <3>2 DEF BeginNested
      <4> QED
        BY <1>s, <4>1 DEF TypeOK, FrameRecords, Open
    <3> QED
      BY <3>1, <3>2
  <2>6. ASSUME NEW h \in Nested, Enter(h) PROVE FALSE
    BY <1>s, <2>6 DEF Enter, TypeOK, Open
  <2>7. ASSUME NEW h \in Nested, NestedSucceeds(h) PROVE FALSE
    <3>1. h = g
      BY <2>1, <2>7 DEF NestedSucceeds, Nested
    <3> QED
      BY <1>s, <2>7, <3>1 DEF NestedSucceeds, End, TypeOK, Unused
  <2>8. ASSUME NEW h \in Nested, NestedFails(h), h # g PROVE FALSE
    BY <2>1, <2>8 DEF NestedFails, Nested
  <2>9. ASSUME NEW k \in Keys, ConnFind(k) PROVE FALSE
    BY <2>9 DEF ConnFind, Open
  <2> QED
    BY <2>2, <2>3, <2>4, <2>5, <2>6, <2>7, <2>8, <2>9,
       NestedTransactionAssumption DEF Next, Step, TypeOK, CallerModes
<1>2. savepoints[frame[g].savepoint] = entry[g]
  BY DEF Kept
<1>3. entry[g] # NoSavepoint
  BY <1>s, NestedTransactionAssumption DEF TypeOK
<1> QED
  BY <1>1, <1>2, <1>3 DEF NestedFails

-----------------------------------------------------------------------------
\* The inductive invariant.
LEMMA NestedTransactionInvariant == Spec => [](TypeOK /\ Nesting /\ Kept)
<1>1. Init => TypeOK /\ Nesting /\ Kept
  BY TypeInit, NestingInit
<1>2. TypeOK /\ Nesting /\ Kept /\ [Next]_vars => (TypeOK /\ Nesting /\ Kept)'
  BY TypeStep, NestingStep
<1> QED
  BY <1>1, <1>2, PTL DEF Spec

\* Type correctness of a transaction, its nested calls and identity maps
\* (connection.ts, identity-map.ts): a nested call that fails goes back to a
\* copy of the table, never to an unknown savepoint's undefined.
THEOREM NestedTransactionTypeOK == Spec => []TypeOK
  BY NestedTransactionInvariant, PTL

\* A nested transaction that fails leaves nothing behind (connection.ts,
\* runNestedTransaction), for any number of calls nested to any depth, the
\* ones inside it run at once or in turn.
THEOREM NestedTransactionAllOrNothing == Spec => NestedAllOrNothing
  BY NestedTransactionInvariant, FailureIsUndone, PTL DEF Spec, NestedAllOrNothing

-----------------------------------------------------------------------------
(* What the identity maps show, as long as no handler runs beside another. *)

\* f is the innermost call: every other one that is open encloses it.
Top(f) == Open(f) /\ \A x \in Frames : Open(x) => x = f \/ x \in frame[f].within

\* x has an identity map of its own.
Isolated(x) == Open(x) /\ frame[x].scope = x

\* An open call lies in its caller and whatever the caller lies in; a call that
\* is not the innermost one has made a call that is open; the map of a call is
\* its own or the nearest one around it, and that is the map which gets the
\* entities when the call ends.
Lies(x) ==
    Open(x) =>
        /\ \A y \in frame[x].within : Open(y)
        /\ x = Root => frame[x].within = {} /\ frame[x].scope = Root
        /\ x # Root =>
              /\ Root \in frame[x].within /\ frame[x].parent \in frame[x].within
              /\ frame[x].within = {frame[x].parent} \cup frame[frame[x].parent].within
              /\ \/ frame[x].scope = x /\ frame[x].into = frame[frame[x].parent].scope
                 \/ frame[x].scope = frame[frame[x].parent].scope
        /\ Top(x) \/ \E g \in Nested : Open(g) /\ frame[g].parent = x
        /\ Isolated(frame[x].scope) /\ frame[x].scope \in {x} \cup frame[x].within
        /\ \A y \in frame[x].within :
              Isolated(y) => y = frame[x].scope \/ y \in frame[frame[x].scope].within

\* The open calls lie one within another.
Order ==
    /\ \A x \in Frames : Lies(x)
    /\ \A x, y \in Frames : Open(x) /\ Open(y) => x = y \/ x \in frame[y].within \/ y \in frame[x].within

\* What a scope says of a row: its entity, or else what it found there.
Shows(s, k) == IF map[s][k] = Absent THEN entry[s][k] ELSE map[s][k]

Sound(s, rows) == \A k \in Keys \ stale[s] : rows[k] \in {Shows(s, k), Absent}

\* The innermost scope shows the copy, and every other one shows the copy that
\* the next isolated call began with.
Views ==
    /\ \A f \in Frames : Top(f) => Sound(frame[f].scope, working)
    /\ \A g \in Nested : Isolated(g) => Sound(frame[g].into, entry[g])
    /\ \A x \in Frames :
          (x # Root /\ ~Isolated(x)) \/ frame[x].status = "unused" =>
              map[x] = NoEntries /\ stale[x] = {}
    /\ \A k \in Keys \ stale[Conn] : map[Conn][k] # Absent => table[k] \in {map[Conn][k], Absent}
    /\ active <=> Open(Root)
    /\ active => entry[Root] = table

EntitiesIInv == disturbed = {} => Order /\ Views

-----------------------------------------------------------------------------
(* How the open calls lie.                                                 *)

\* A call lies outside those it encloses.
LEMMA Outside ==
  ASSUME TypeOK, Nesting, NEW x \in Frames, Open(x), NEW y \in frame[x].within, Open(y)
  PROVE  y \in Frames /\ y # x /\ x \notin frame[y].within
<1>1. y \in Frames
  BY FrameFields
<1>2. frame[x].savepoint \in Nat /\ frame[y].savepoint \in Nat
  BY <1>1, FrameFields, NamesAreNumbers
<1>3. frame[y].savepoint < frame[x].savepoint
  BY DEF Nesting, Placed
<1>4. ASSUME x \in frame[y].within PROVE FALSE
  <2>1. frame[x].savepoint < frame[y].savepoint
    BY <1>1, <1>4 DEF Nesting, Placed
  <2> QED
    BY <1>2, <1>3, <2>1
<1> QED
  BY <1>1, <1>2, <1>3, <1>4

\* There is one innermost call.
LEMMA OneTop ==
  ASSUME TypeOK, Nesting, NEW f \in Frames, Top(f), NEW g \in Frames, Top(g)
  PROVE  f = g
  BY Outside DEF Top

\* Whoever acts without disturbing another is the innermost call.
LEMMA TopActs ==
  ASSUME TypeOK, NEW f \in Frames, Open(f), Disturb(f), disturbed' = {}
  PROVE  Top(f)
  BY DEF Top, Disturb

\* So is a call without calls of its own.
LEMMA LeafIsTop ==
  ASSUME Order, NEW f \in Frames, Open(f), Leaf(f)
  PROVE  Top(f)
  BY DEF Order, Lies, Leaf

\* The call around an open one.
LEMMA Around ==
  ASSUME TypeOK, Nesting, Order, NEW g \in Nested, Open(g)
  PROVE  /\ g \in Frames /\ frame[g].parent \in Frames /\ Open(frame[g].parent)
         /\ frame[g].parent # g
         /\ frame[frame[g].parent].scope \in Frames
         /\ Isolated(frame[frame[g].parent].scope)
         /\ frame[frame[g].parent].scope # g
         /\ frame[frame[g].parent].scope \in frame[g].within
         /\ g \notin frame[frame[g].parent].within
<1> DEFINE p == frame[g].parent
<1>1. g \in Frames /\ g # Root
  BY DEF Nested
<1>2. Lies(g)
  BY <1>1 DEF Order
<1>3. p \in frame[g].within /\ Open(p) /\ frame[g].within = {p} \cup frame[p].within
  BY <1>1, <1>2 DEF Lies
<1>4. p \in Frames /\ p # g /\ g \notin frame[p].within
  BY <1>1, <1>3, Outside
<1>5. Lies(p)
  BY <1>4 DEF Order
<1>6. Isolated(frame[p].scope) /\ frame[p].scope \in {p} \cup frame[p].within
  BY <1>3, <1>5 DEF Lies
<1>7. frame[p].scope \in frame[g].within /\ frame[p].scope \in Frames
  BY <1>3, <1>4, <1>6, FrameFields
<1>8. frame[p].scope # g
  BY <1>1, <1>6, <1>7, Outside DEF Isolated
<1> QED
  BY <1>1, <1>3, <1>4, <1>6, <1>7, <1>8

\* The map that an isolated call hands its entities to is not the innermost one.
LEMMA Deepest ==
  ASSUME TypeOK, Nesting, Order, NEW f \in Frames, Top(f), NEW h \in Nested, Isolated(h)
  PROVE  frame[h].into # frame[f].scope /\ frame[h].into \in Frames
<1>1. h \in Frames /\ h # Root /\ Open(h) /\ Open(f)
  BY DEF Nested, Isolated, Top
<1>2. Lies(h) /\ Lies(f)
  BY <1>1 DEF Order
<1> DEFINE i == frame[frame[h].parent].scope
<1>3. i \in frame[h].within /\ Isolated(i) /\ i \in Frames /\ i # h
  BY <1>1, Around
<1>4. frame[h].into = i
  BY <1>1, <1>2, <1>3 DEF Lies, Isolated
<1>5. h = frame[f].scope \/ h \in frame[frame[f].scope].within
  BY <1>1, <1>2 DEF Lies, Top, Isolated
<1>6. ASSUME i = frame[f].scope PROVE FALSE
  <2>1. h \in frame[i].within
    BY <1>3, <1>5, <1>6
  <2> QED
    BY <1>1, <1>3, <2>1, Outside DEF Isolated
<1> QED
  BY <1>3, <1>4, <1>6

-----------------------------------------------------------------------------
(* Steps and the order of the calls.                                       *)

\* A step that leaves the calls where they are.
LEMMA OrderStays ==
  ASSUME TypeOK, Order,
         \A x \in Frames :
            /\ Open(x)' <=> Open(x)
            /\ frame'[x].within = frame[x].within /\ frame'[x].parent = frame[x].parent
            /\ frame'[x].scope = frame[x].scope /\ frame'[x].into = frame[x].into
  PROVE  /\ Order'
         /\ \A x \in Frames : (Top(x)' <=> Top(x)) /\ (Isolated(x)' <=> Isolated(x))
<1>1. \A x \in Frames : (Top(x)' <=> Top(x)) /\ (Isolated(x)' <=> Isolated(x))
  BY DEF Top, Isolated
<1>2. \A x, y \in Frames : Open(x)' /\ Open(y)' => x = y \/ x \in frame'[y].within \/ y \in frame'[x].within
  BY DEF Order
<1>3. ASSUME NEW x \in Frames PROVE Lies(x)'
  <2>1. Lies(x) /\ frame[x].within \subseteq Frames /\ frame[x].scope \in Frames
    BY FrameFields DEF Order
  <2>2. ASSUME Open(x)', x # Root
        PROVE  /\ Root \in frame'[x].within /\ frame'[x].parent \in frame'[x].within
               /\ frame'[x].within = {frame'[x].parent} \cup frame'[frame'[x].parent].within
               /\ \/ frame'[x].scope = x /\ frame'[x].into = frame'[frame'[x].parent].scope
                  \/ frame'[x].scope = frame'[frame'[x].parent].scope
    <3>1. frame[x].parent \in Frames
      BY <2>1, <2>2 DEF Lies
    <3> QED
      BY <2>1, <2>2, <3>1 DEF Lies
  <2>3. ASSUME Open(x)'
        PROVE  Top(x)' \/ \E g \in Nested : Open(g)' /\ frame'[g].parent = x
    <3>1. CASE Top(x)
      BY <1>1, <3>1
    <3>2. CASE ~Top(x)
      BY <2>1, <2>3, <3>2 DEF Lies, Nested
    <3> QED
      BY <3>1, <3>2
  <2>4. ASSUME Open(x)'
        PROVE  /\ Isolated(frame[x].scope)' /\ frame'[x].scope \in {x} \cup frame'[x].within
               /\ \A y \in frame'[x].within :
                     Isolated(y)' => y = frame'[x].scope \/ y \in frame'[frame'[x].scope].within
    <3>1. PICK s \in Frames : s = frame[x].scope
      BY <2>1
    <3>2. /\ Isolated(s) /\ s \in {x} \cup frame[x].within
          /\ \A y \in frame[x].within : Isolated(y) => y = s \/ y \in frame[s].within
      BY <2>1, <2>4, <3>1 DEF Lies
    <3>3. Isolated(s)' /\ frame'[x].scope = s
      BY <1>1, <3>1, <3>2
    <3>4. Isolated(frame[x].scope)'
      BY <3>3 DEF Isolated
    <3>5. ASSUME NEW y \in frame'[x].within, Isolated(y)'
          PROVE  y = s \/ y \in frame'[s].within
      BY <1>1, <2>1, <3>2, <3>5
    <3> QED
      BY <2>4, <3>1, <3>2, <3>3, <3>4, <3>5
  <2>5. ASSUME Open(x)'
        PROVE  /\ \A y \in frame'[x].within : Open(y)'
               /\ x = Root => frame'[x].within = {} /\ frame'[x].scope = Root
    BY <2>1, <2>5 DEF Lies
  <2> QED
    BY <2>2, <2>3, <2>4, <2>5 DEF Lies
<1> QED
  BY <1>1, <1>2, <1>3 DEF Order

\* The innermost call ends, and the one around it is the innermost.
LEMMA OrderEnds ==
  ASSUME TypeOK, Nesting, Order, NEW g \in Nested, Top(g),
         NEW p \in Frames, p = frame[g].parent,
         \A x \in Frames \ {g} : frame'[x] = frame[x], ~Open(g)'
  PROVE  /\ Order' /\ \A x \in Frames : Top(x)' <=> x = p
         /\ \A x \in Frames \ {g} : Isolated(x)' <=> Isolated(x)
<1>0. g \in Frames /\ g # Root /\ Open(g)
  BY DEF Nested, Top
<1>2. /\ Open(p) /\ p # g /\ g \notin frame[p].within
      /\ frame[g].within = {p} \cup frame[p].within
  BY <1>0, Around DEF Order, Lies
<1>3. \A x \in Frames \ {g} : (Open(x)' <=> Open(x)) /\ (Isolated(x)' <=> Isolated(x))
  BY DEF Open, Isolated
<1>4. \A x \in Frames : Open(x)' => /\ x # g /\ Open(x) /\ frame'[x] = frame[x]
                                    /\ x = p \/ x \in frame[p].within
                                    /\ g \notin frame[x].within
  <2> SUFFICES ASSUME NEW x \in Frames, Open(x)'
               PROVE  /\ x # g /\ Open(x) /\ frame'[x] = frame[x]
                      /\ x = p \/ x \in frame[p].within
                      /\ g \notin frame[x].within
    OBVIOUS
  <2>1. x # g
    OBVIOUS
  <2>2. Open(x) /\ frame'[x] = frame[x]
    BY <1>3, <2>1
  <2>3. x \in frame[g].within
    BY <2>1, <2>2 DEF Top
  <2> QED
    BY <1>0, <1>2, <2>1, <2>2, <2>3, Outside
<1>5. Top(p)'
  BY <1>2, <1>3, <1>4 DEF Top
<1>6. \A x \in Frames : Top(x)' => x = p
  <2> SUFFICES ASSUME NEW x \in Frames, Top(x)', x # p PROVE FALSE
    OBVIOUS
  <2>1. Open(x)' /\ Open(p)'
    BY <1>5 DEF Top
  <2>2. p \in frame'[x].within /\ x \in frame[p].within
    BY <1>4, <2>1 DEF Top
  <2>3. p \in frame[x].within
    BY <1>4, <2>1, <2>2
  <2> QED
    BY <1>2, <1>4, <2>1, <2>2, <2>3, Outside
<1>7. ASSUME NEW x \in Frames, Open(x)' PROVE Lies(x)'
  <2>1. /\ x # g /\ Open(x) /\ frame'[x] = frame[x] /\ g \notin frame[x].within
        /\ frame[x].within \subseteq Frames /\ Lies(x)
    BY <1>4, <1>7, FrameFields DEF Order
  <2>2. \A y \in frame[x].within : y # g /\ y \in Frames /\ Open(y) /\ frame'[y] = frame[y]
    BY <2>1 DEF Lies
  <2>3. PICK s \in Frames : s = frame[x].scope
    BY FrameFields
  <2>4. /\ Isolated(s) /\ s \in {x} \cup frame[x].within /\ s # g
        /\ \A y \in frame[x].within : Isolated(y) => y = s \/ y \in frame[s].within
    BY <2>1, <2>2, <2>3 DEF Lies
  <2>5. Isolated(s)' /\ frame'[s] = frame[s]
    BY <1>3, <2>4
  <2>6. Isolated(frame[x].scope)'
    BY <2>1, <2>3, <2>5 DEF Isolated
  <2>7. Top(x)' \/ \E c \in Nested : Open(c)' /\ frame'[c].parent = x
    <3>1. CASE x = p
      BY <1>5, <3>1
    <3>2. CASE x # p
      <4>1. ~Top(x)
        BY <1>0, <2>1 DEF Top
      <4>2. PICK c \in Nested : Open(c) /\ frame[c].parent = x
        BY <2>1, <4>1 DEF Lies
      <4>3. c # g /\ c \in Frames
        BY <3>2, <4>2 DEF Nested
      <4> QED
        BY <1>3, <4>2, <4>3
    <3> QED
      BY <3>1, <3>2
  <2>8. ASSUME x # Root
        PROVE  /\ Root \in frame'[x].within /\ frame'[x].parent \in frame'[x].within
               /\ frame'[x].within = {frame'[x].parent} \cup frame'[frame'[x].parent].within
               /\ \/ frame'[x].scope = x /\ frame'[x].into = frame'[frame'[x].parent].scope
                  \/ frame'[x].scope = frame'[frame'[x].parent].scope
    BY <2>1, <2>2, <2>8 DEF Lies
  <2>9. /\ \A y \in frame'[x].within : Open(y)'
        /\ x = Root => frame'[x].within = {} /\ frame'[x].scope = Root
        /\ frame'[x].scope \in {x} \cup frame'[x].within
    BY <1>3, <2>1, <2>2, <2>3, <2>4 DEF Lies
  <2>10. \A y \in frame'[x].within :
            Isolated(y)' => y = frame'[x].scope \/ y \in frame'[frame'[x].scope].within
    BY <1>3, <2>1, <2>2, <2>3, <2>4, <2>5
  <2> QED
    BY <2>6, <2>7, <2>8, <2>9, <2>10 DEF Lies
<1>8. \A x \in Frames : Lies(x)'
  BY <1>7 DEF Lies
<1>9. \A x, y \in Frames : Open(x)' /\ Open(y)' => x = y \/ x \in frame'[y].within \/ y \in frame'[x].within
  BY <1>4 DEF Order
<1> QED
  BY <1>3, <1>5, <1>6, <1>8, <1>9 DEF Order

\* The innermost call makes a call, which is the innermost one.
LEMMA OrderBegins ==
  ASSUME TypeOK, Nesting, Order, NEW f \in Frames, NEW g \in Nested, NEW isolated \in BOOLEAN,
         Top(f), frame[g].status = "unused",
         frame'[g].status = "entering", frame'[g].parent = f,
         frame'[g].within = {f} \cup frame[f].within,
         frame'[g].scope = IF isolated THEN g ELSE frame[f].scope,
         frame'[g].into = frame[f].scope,
         \A h \in Frames \ {g} :
            /\ Open(h)' <=> Open(h)
            /\ frame'[h].within = frame[h].within /\ frame'[h].parent = frame[h].parent
            /\ frame'[h].scope = frame[h].scope /\ frame'[h].into = frame[h].into
  PROVE  /\ Order' /\ (\A x \in Frames : Top(x)' <=> x = g)
         /\ \A x \in Frames \ {g} : Isolated(x)' <=> Isolated(x)
         /\ Isolated(g)' <=> isolated
<1>0. /\ g \in Frames /\ g # Root /\ ~Open(g) /\ Open(f) /\ f # g /\ Open(g)'
      /\ frame[f].within \subseteq Frames
  BY FrameFields DEF Nested, Top, Open
<1>1. \A x \in Frames : Open(x) => x # g /\ g \notin frame[x].within
  BY <1>0 DEF Order, Lies
<1>2. \A x \in Frames \ {g} : Isolated(x)' <=> Isolated(x)
  BY DEF Isolated
<1>3. frame[f].scope \in Frames /\ Isolated(frame[f].scope) /\ frame[f].scope # g
  BY <1>0, FrameFields DEF Order, Lies, Isolated
<1>4. Isolated(g)' <=> isolated
  BY <1>0, <1>3 DEF Isolated
<1>5. \A x \in Frames : Open(x)' => x = g \/ x \in frame'[g].within
  BY DEF Top
<1>6. \A x \in Frames : Top(x)' <=> x = g
  BY <1>0, <1>1, <1>5 DEF Top
<1>7. Lies(g)'
  <2>1. Lies(f)
    BY DEF Order
  <2>2. \A y \in frame'[g].within : Open(y)' /\ y # g /\ y \in Frames
    BY <1>0, <1>1, <2>1 DEF Lies
  <2>3. Root \in frame'[g].within /\ f \in frame'[g].within
    BY <1>0, <2>1 DEF Lies
  <2>4. frame'[f].within = frame[f].within /\ frame'[f].scope = frame[f].scope
    BY <1>0
  <2>5. PICK s \in Frames : s = frame'[g].scope
    BY <1>0, <1>3
  <2>6. Isolated(s)' /\ s \in {g} \cup frame'[g].within
    BY <1>0, <1>2, <1>3, <1>4, <2>1, <2>5 DEF Lies
  <2>7. Isolated(frame[g].scope)'
    BY <2>5, <2>6 DEF Isolated
  <2>8. ASSUME NEW y \in frame'[g].within, Isolated(y)' PROVE y = s \/ y \in frame'[s].within
    <3>1. Isolated(y)
      BY <1>2, <2>2, <2>8
    <3>2. y = frame[f].scope \/ y \in frame[frame[f].scope].within
      BY <1>0, <2>1, <2>8, <3>1 DEF Lies, Isolated
    <3>3. CASE isolated
      BY <2>5, <2>8, <3>3
    <3>4. CASE ~isolated
      <4>1. s = frame[f].scope /\ s # g
        BY <1>3, <2>5, <3>4
      <4> QED
        BY <3>2, <4>1
    <3> QED
      BY <3>3, <3>4
  <2> QED
    BY <1>0, <1>6, <2>2, <2>3, <2>4, <2>5, <2>6, <2>7, <2>8 DEF Lies
<1>8. ASSUME NEW x \in Frames \ {g}, Open(x)' PROVE Lies(x)'
  <2>1. Lies(x) /\ Open(x) /\ frame[x].within \subseteq Frames /\ g \notin frame[x].within
    BY <1>1, <1>8, FrameFields DEF Order
  <2>2. PICK s \in Frames : s = frame[x].scope
    BY FrameFields
  <2>3. /\ Isolated(s) /\ s \in {x} \cup frame[x].within /\ s # g
        /\ \A y \in frame[x].within : Isolated(y) => y = s \/ y \in frame[s].within
    BY <2>1, <2>2 DEF Lies
  <2>4. Isolated(s)' /\ frame'[s].within = frame[s].within /\ frame'[x].scope = s
    BY <1>2, <2>2, <2>3
  <2>5. Isolated(frame[x].scope)'
    BY <2>4 DEF Isolated
  <2>6. Top(x)' \/ \E c \in Nested : Open(c)' /\ frame'[c].parent = x
    <3>1. CASE x = f
      BY <1>0, <3>1
    <3>2. CASE x # f
      <4>1. ~Top(x)
        BY <3>2, OneTop
      <4>2. PICK c \in Nested : Open(c) /\ frame[c].parent = x
        BY <2>1, <4>1 DEF Lies
      <4>3. c # g /\ c \in Frames
        BY <1>0, <4>2 DEF Nested
      <4> QED
        BY <4>2, <4>3
    <3> QED
      BY <3>1, <3>2
  <2>7. ASSUME x # Root
        PROVE  /\ Root \in frame'[x].within /\ frame'[x].parent \in frame'[x].within
               /\ frame'[x].within = {frame'[x].parent} \cup frame'[frame'[x].parent].within
               /\ \/ frame'[x].scope = x /\ frame'[x].into = frame'[frame'[x].parent].scope
                  \/ frame'[x].scope = frame'[frame'[x].parent].scope
    <3>1. frame[x].parent \in Frames \ {g}
      BY <2>1, <2>7 DEF Lies
    <3> QED
      BY <2>1, <2>7, <3>1 DEF Lies
  <2>8. /\ \A y \in frame'[x].within : Open(y)'
        /\ x = Root => frame'[x].within = {} /\ frame'[x].scope = Root
        /\ frame'[x].scope \in {x} \cup frame'[x].within
    BY <2>1, <2>2, <2>3 DEF Lies
  <2>9. \A y \in frame'[x].within :
           Isolated(y)' => y = frame'[x].scope \/ y \in frame'[frame'[x].scope].within
    BY <1>2, <2>1, <2>3, <2>4
  <2> QED
    BY <2>5, <2>6, <2>7, <2>8, <2>9 DEF Lies
<1>9. \A x \in Frames : Lies(x)'
  BY <1>7, <1>8 DEF Lies
<1>10. \A x, y \in Frames : Open(x)' /\ Open(y)' => x = y \/ x \in frame'[y].within \/ y \in frame'[x].within
  <2> SUFFICES ASSUME NEW x \in Frames, NEW y \in Frames, Open(x)', Open(y)'
               PROVE  x = y \/ x \in frame'[y].within \/ y \in frame'[x].within
    OBVIOUS
  <2>1. CASE x # g /\ y # g
    BY <2>1 DEF Order
  <2>2. CASE x = g \/ y = g
    BY <1>5, <2>2
  <2> QED
    BY <2>1, <2>2
<1> QED
  BY <1>2, <1>4, <1>6, <1>9, <1>10 DEF Order

\* Nothing is open, or the root alone is.
LEMMA OrderOfTheRoot ==
  ASSUME \A x \in Frames : Open(x) => x = Root, Root \in Frames,
         Open(Root) => frame[Root].within = {} /\ frame[Root].scope = Root
  PROVE  Order
<1>1. Open(Root) => Top(Root) /\ Isolated(Root)
  BY DEF Top, Isolated
<1> QED
  BY <1>1 DEF Order, Lies

-----------------------------------------------------------------------------
(* Steps and what the maps show.                                           *)

\* The innermost call finds, saves or deletes.
LEMMA RowsViews ==
  ASSUME TypeOK, Nesting, Order, Views, NEW f \in Frames, Top(f), NEW s, s = frame[f].scope,
         UNCHANGED <<table, active, frame, entry>>,
         \A x \in Scopes \ {s} : map'[x] = map[x] /\ stale'[x] = stale[x],
         \A k \in Keys \ stale'[s] :
            working'[k] \in {IF map'[s][k] = Absent THEN entry[s][k] ELSE map'[s][k], Absent}
  PROVE  Views'
<1>1. s \in Frames /\ Isolated(s) /\ s # Conn
  <2>1. Lies(f) /\ Open(f) /\ s \in Frames
    BY FrameFields DEF Order, Top
  <2> QED
    BY <2>1, NestedTransactionAssumption DEF Lies
<1>2. \A x \in Frames : (Top(x)' <=> Top(x)) /\ (Open(x)' <=> Open(x)) /\ (Isolated(x)' <=> Isolated(x))
  BY DEF Top, Open, Isolated
<1>3. ASSUME NEW x \in Frames, Top(x)' PROVE Sound(frame[x].scope, working)'
  <2>1. x = f
    BY <1>2, <1>3, OneTop
  <2> QED
    BY <2>1 DEF Sound, Shows
<1>4. ASSUME NEW g \in Nested, Isolated(g)' PROVE Sound(frame[g].into, entry[g])'
  <2>1. g \in Frames /\ Isolated(g)
    BY <1>2, <1>4 DEF Nested
  <2>2. PICK i \in Frames : i = frame[g].into
    BY <2>1, FrameFields
  <2>3. i # s /\ Sound(i, entry[g])
    BY <2>1, <2>2, Deepest DEF Views
  <2>4. map'[i] = map[i] /\ stale'[i] = stale[i]
    BY <2>2, <2>3 DEF Scopes
  <2> QED
    BY <2>2, <2>3, <2>4 DEF Sound, Shows
<1>5. ASSUME NEW x \in Frames, (x # Root /\ ~Isolated(x)') \/ frame'[x].status = "unused"
      PROVE  map'[x] = NoEntries /\ stale'[x] = {}
  <2>1. x # s
    <3>1. ASSUME x = s PROVE FALSE
      BY <1>1, <1>2, <1>5, <3>1 DEF Isolated, Open
    <3> QED
      BY <3>1
  <2> QED
    BY <1>2, <1>5, <2>1 DEF Views, Scopes
<1>6. \A k \in Keys \ stale'[Conn] : map'[Conn][k] # Absent => table'[k] \in {map'[Conn][k], Absent}
  BY <1>1 DEF Views, Scopes
<1>7. (active' <=> Open(Root)') /\ (active' => entry'[Root] = table')
  BY <1>2, NestedTransactionAssumption DEF Views
<1> QED
  BY <1>3, <1>4, <1>5, <1>6, <1>7 DEF Views

\* The innermost call ends: what the scope around it shows is the copy.
LEMMA EndViews ==
  ASSUME TypeOK, Nesting, Order, Views, NEW g \in Nested, Top(g), active,
         NEW p \in Frames, p = frame[g].parent, NEW s, s = frame[p].scope,
         UNCHANGED <<table, active>>,
         \A x \in Frames \ {g} : frame'[x] = frame[x] /\ entry'[x] = entry[x],
         frame'[g].status \in {"done", "failed"},
         \A x \in Scopes \ {s, g} : map'[x] = map[x] /\ stale'[x] = stale[x],
         map'[g] = NoEntries, stale'[g] = {},
         \A k \in Keys \ stale'[s] :
            working'[k] \in {IF map'[s][k] = Absent THEN entry[s][k] ELSE map'[s][k], Absent}
  PROVE  Order' /\ Views'
<1>0. g \in Frames /\ g # Root /\ Open(g) /\ ~Open(g)' /\ Root \in Frames /\ Conn \notin Frames
  BY NestedTransactionAssumption DEF Nested, Top, Open
<1>1. Order' /\ (\A x \in Frames : Top(x)' <=> x = p) /\ \A x \in Frames \ {g} : Isolated(x)' <=> Isolated(x)
  BY <1>0, OrderEnds
<1>2. s \in Frames /\ Isolated(s) /\ s # g /\ Open(p) /\ p # g
  BY <1>0, Around
<1>3. ASSUME NEW x \in Frames, Top(x)' PROVE Sound(frame[x].scope, working)'
  <2>1. x = p /\ frame'[x] = frame[x] /\ entry'[s] = entry[s]
    BY <1>1, <1>2, <1>3
  <2>2. Sound(s, working)'
    BY <2>1 DEF Sound, Shows
  <2>3. frame'[x].scope = s
    BY <2>1
  <2> QED
    BY <2>2, <2>3 DEF Sound, Shows
<1>4. ASSUME NEW h \in Nested, Isolated(h)' PROVE Sound(frame[h].into, entry[h])'
  <2>1. h \in Frames /\ h # g /\ Isolated(h) /\ Open(h)
    BY <1>0, <1>1, <1>4 DEF Nested, Isolated
  <2>2. PICK i \in Frames : i = frame[h].into
    BY <2>1, FrameFields
  <2>3. i \in frame[h].within /\ Open(i)
    <3>1. i = frame[frame[h].parent].scope
      <4>1. Lies(h) /\ h # Root /\ frame[h].scope = h
        BY <2>1 DEF Order, Nested, Isolated
      <4>2. frame[frame[h].parent].scope # h
        BY <2>1, Around
      <4> QED
        BY <2>1, <2>2, <4>1, <4>2 DEF Lies
    <3> QED
      BY <2>1, <3>1, Around DEF Isolated
  <2>4. h \in frame[g].within
    BY <2>1 DEF Top
  <2>5. i # g
    BY <1>0, <2>1, <2>3, <2>4, Outside
  <2>6. i # s
    <3>1. Lies(p) /\ Lies(g)
      BY <1>0 DEF Order
    <3>2. h = p \/ h \in frame[p].within
      BY <1>0, <2>4, <3>1 DEF Lies
    <3>3. h = s \/ h \in frame[s].within
      BY <1>2, <2>1, <3>1, <3>2 DEF Lies, Isolated
    <3>4. i # h /\ h \notin frame[i].within
      BY <2>1, <2>3, Outside
    <3> QED
      BY <3>3, <3>4
  <2>7. Sound(i, entry[h])
    BY <2>1, <2>2 DEF Views
  <2>8. /\ map'[i] = map[i] /\ stale'[i] = stale[i] /\ entry'[i] = entry[i]
        /\ frame'[h] = frame[h] /\ entry'[h] = entry[h]
    BY <2>1, <2>2, <2>5, <2>6 DEF Scopes
  <2> QED
    BY <2>2, <2>7, <2>8 DEF Sound, Shows
<1>5. ASSUME NEW x \in Frames, (x # Root /\ ~Isolated(x)') \/ frame'[x].status = "unused"
      PROVE  map'[x] = NoEntries /\ stale'[x] = {}
  <2>1. CASE x = g
    BY <2>1
  <2>2. CASE x # g
    <3>1. x # s
      <4>1. ASSUME x = s PROVE FALSE
        <5>1. Isolated(x)'
          BY <1>1, <1>2, <4>1
        <5> QED
          BY <1>5, <5>1 DEF Isolated, Open
      <4> QED
        BY <4>1
    <3>2. map'[x] = map[x] /\ stale'[x] = stale[x] /\ frame'[x] = frame[x]
      BY <2>2, <3>1 DEF Scopes
    <3> QED
      BY <1>1, <1>5, <2>2, <3>2 DEF Views
  <2> QED
    BY <2>1, <2>2
<1>6. \A k \in Keys \ stale'[Conn] : map'[Conn][k] # Absent => table'[k] \in {map'[Conn][k], Absent}
  BY <1>0, <1>2 DEF Views, Scopes
<1>7. (active' <=> Open(Root)') /\ (active' => entry'[Root] = table')
  BY <1>0 DEF Views, Open
<1> QED
  BY <1>1, <1>3, <1>4, <1>5, <1>6, <1>7 DEF Views

\* Every step leaves what was disturbed so.
LEMMA StaysDisturbed ==
  ASSUME Step
  PROVE  disturbed \subseteq disturbed'
  BY DEF Step, BeginRoot, RootCommits, RootCommitRejects, RootFails, Find, Save, Delete,
         BeginNested, Enter, NestedSucceeds, NestedFails, ConnFind, End, Disturb

\* A call on a repository keeps the views and the order of the frames.
LEMMA RowsAgree ==
  ASSUME TypeOK, Nesting, Order, Views, disturbed' = {}, NEW f \in Frames, NEW k \in Keys,
         Find(f, k) \/ Save(f, k) \/ Delete(f, k)
  PROVE  Order' /\ Views'
<1>1. PICK s \in Frames : s = frame[f].scope
  BY FrameFields
<1>2. Open(f) /\ Top(f)
  <2>1. Open(f) /\ Disturb(f)
    BY DEF Find, Save, Delete, Acts, Open
  <2> QED
    BY <2>1, TopActs
<1>3. UNCHANGED <<table, active, frame, entry>>
  BY DEF Find, Save, Delete
<1>4. PICK v \in Rows :
         /\ map' = [map EXCEPT ![s][k] = v] /\ stale' = [stale EXCEPT ![s] = @ \ {k}]
         /\ working'[k] \in {v, Absent} /\ (v = Absent => working'[k] = Absent)
         /\ \A j \in Keys \ {k} : working'[j] = working[j]
  <2>1. CASE Find(f, k)
    BY <1>1, <2>1 DEF Find, TypeOK, TableStates
  <2>2. CASE Save(f, k)
    BY <1>1, <2>2 DEF Save, TypeOK, TableStates, Rows
  <2>3. CASE Delete(f, k)
    BY <1>1, <2>3 DEF Delete, TypeOK, TableStates, Rows
  <2> QED
    BY <2>1, <2>2, <2>3
<1>5. s \in Scopes /\ map[s] \in TableStates
  BY DEF TypeOK, Scopes
<1>6. /\ map'[s][k] = v /\ \A j \in Keys \ {k} : map'[s][j] = map[s][j]
      /\ stale'[s] = stale[s] \ {k}
  BY <1>4, <1>5 DEF TypeOK, TableStates
<1>7. \A x \in Scopes \ {s} : map'[x] = map[x] /\ stale'[x] = stale[x]
  BY <1>4 DEF TypeOK
<1>8. ASSUME NEW j \in Keys \ stale'[s]
      PROVE  working'[j] \in {IF map'[s][j] = Absent THEN entry[s][j] ELSE map'[s][j], Absent}
  <2>1. CASE j = k
    BY <1>4, <1>6, <2>1
  <2>2. CASE j # k
    <3>1. working[j] \in {Shows(s, j), Absent}
      BY <1>1, <1>2, <1>6, <1>8, <2>2 DEF Views, Sound
    <3> QED
      BY <1>4, <1>6, <2>2, <3>1 DEF Shows
  <2> QED
    BY <2>1, <2>2
<1>9. Views'
  BY <1>1, <1>2, <1>3, <1>7, <1>8, RowsViews
<1>10. Order'
  BY <1>3, OrderStays DEF Open
<1> QED
  BY <1>9, <1>10

\* So does a nested transaction that begins.
LEMMA BeginAgrees ==
  ASSUME TypeOK, Nesting, Order, Views, disturbed' = {}, NEW f \in Frames, NEW g \in Nested,
         NEW isolated \in BOOLEAN, BeginNested(f, g, isolated)
  PROVE  Order' /\ Views'
<1> DEFINE name == frame[f].counter + 1
<1>0. g \in Frames /\ g # Root /\ Root \in Frames /\ Conn \notin Frames
  BY NestedTransactionAssumption DEF Nested
<1>1. PICK s \in Frames : s = frame[f].scope
  BY FrameFields
<1>2. Open(f) /\ Top(f) /\ frame[g].status = "unused" /\ f # g /\ ~Open(g)
  <2>1. Open(f) /\ Disturb(f) /\ frame[g].status = "unused" /\ f # g
    BY DEF BeginNested, Acts, Open
  <2> QED
    BY <2>1, TopActs DEF Open
<1>3. /\ UNCHANGED <<table, working, active, map, stale>>
      /\ entry' = [entry EXCEPT ![g] = working]
  BY DEF BeginNested
<1>4. frame'[g] = [status |-> "entering", parent |-> f, within |-> {f} \cup frame[f].within,
                   savepoint |-> name, counter |-> name,
                   scope |-> IF isolated THEN g ELSE frame[f].scope, into |-> frame[f].scope]
  BY <1>0 DEF BeginNested
<1>5. /\ frame'[g].status = "entering" /\ frame'[g].parent = f
      /\ frame'[g].within = {f} \cup frame[f].within
      /\ frame'[g].scope = (IF isolated THEN g ELSE frame[f].scope)
      /\ frame'[g].into = frame[f].scope
  BY <1>4
<1>6. ASSUME NEW h \in Frames \ {g}
      PROVE  /\ Open(h)' <=> Open(h)
             /\ frame'[h].within = frame[h].within /\ frame'[h].parent = frame[h].parent
             /\ frame'[h].scope = frame[h].scope /\ frame'[h].into = frame[h].into
             /\ frame'[h].status = frame[h].status
  <2>1. \/ frame'[h] = frame[h]
        \/ frame'[h] = [frame[h] EXCEPT !.counter = name]
    BY DEF BeginNested
  <2>2. frame[h] \in FrameRecords
    BY DEF TypeOK
  <2> QED
    BY <2>1, <2>2 DEF FrameRecords, Open
<1>7. /\ Order' /\ (\A x \in Frames : Top(x)' <=> x = g)
      /\ \A x \in Frames \ {g} : Isolated(x)' <=> Isolated(x)
      /\ Isolated(g)' <=> isolated
  BY <1>2, <1>5, <1>6, OrderBegins
<1>8. /\ map[g] = NoEntries /\ stale[g] = {}
      /\ entry'[g] = working /\ \A x \in Frames \ {g} : entry'[x] = entry[x]
  BY <1>0, <1>2, <1>3 DEF Views, TypeOK
<1>9. s # g /\ Sound(s, working)
  <2>1. Isolated(s)
    BY <1>1, <1>2 DEF Order, Lies
  <2> QED
    BY <1>1, <1>2, <2>1 DEF Views, Isolated
<1>10. Sound(s, working)'
  BY <1>3, <1>8, <1>9 DEF Sound, Shows
<1>11. Sound(g, working)'
  <2>1. ASSUME NEW k \in Keys PROVE Shows(g, k)' = working[k]
    BY <1>3, <1>8 DEF Shows, NoEntries
  <2> QED
    BY <1>3, <2>1 DEF Sound
<1>12. ASSUME NEW x \in Frames, Top(x)' PROVE Sound(frame[x].scope, working)'
  <2>1. x = g
    BY <1>7, <1>12
  <2>2. frame'[x].scope = g \/ frame'[x].scope = s
    BY <1>1, <1>5, <2>1
  <2> QED
    BY <1>10, <1>11, <2>2 DEF Sound, Shows
<1>13. ASSUME NEW h \in Nested, Isolated(h)' PROVE Sound(frame[h].into, entry[h])'
  <2>1. CASE h = g
    <3>1. frame'[h].into = s /\ entry'[h] = working'
      BY <1>1, <1>3, <1>5, <1>8, <2>1
    <3> QED
      BY <1>10, <3>1 DEF Sound, Shows
  <2>2. CASE h # g
    <3>1. h \in Frames /\ Isolated(h)
      BY <1>7, <1>13, <2>2 DEF Nested
    <3>2. PICK i \in Frames : i = frame[h].into
      BY <3>1, FrameFields
    <3>3. Sound(i, entry[h])
      BY <3>1, <3>2 DEF Views
    <3>4. i # g
      <4>1. Lies(h) /\ h # Root /\ frame[h].scope = h
        BY <3>1 DEF Order, Nested, Isolated
      <4>2. /\ frame[frame[h].parent].scope # h
            /\ Isolated(frame[frame[h].parent].scope)
        BY <3>1, Around DEF Isolated
      <4>3. Isolated(i)
        BY <3>1, <3>2, <4>1, <4>2 DEF Lies, Isolated
      <4> QED
        BY <1>2, <4>3 DEF Isolated
    <3>5. frame'[h].into = i /\ entry'[h] = entry[h] /\ entry'[i] = entry[i]
      BY <1>6, <1>8, <2>2, <3>1, <3>2, <3>4
    <3> QED
      BY <1>3, <3>3, <3>5 DEF Sound, Shows
  <2> QED
    BY <2>1, <2>2
<1>14. ASSUME NEW x \in Frames, (x # Root /\ ~Isolated(x)') \/ frame'[x].status = "unused"
       PROVE  map'[x] = NoEntries /\ stale'[x] = {}
  BY <1>3, <1>5, <1>6, <1>7, <1>8, <1>14 DEF Views
<1>15. \A k \in Keys \ stale'[Conn] : map'[Conn][k] # Absent => table'[k] \in {map'[Conn][k], Absent}
  BY <1>3 DEF Views
<1>16. (active' <=> Open(Root)') /\ (active' => entry'[Root] = table')
  BY <1>0, <1>3, <1>6, <1>8 DEF Views
<1> QED
  BY <1>7, <1>12, <1>13, <1>14, <1>15, <1>16 DEF Views

\* So does one that enters its callback.
LEMMA EnterAgrees ==
  ASSUME TypeOK, Nesting, Order, Views, NEW g \in Nested, Enter(g)
  PROVE  Order' /\ Views'
<1>1. g \in Frames /\ frame[g] \in FrameRecords /\ Root \in Frames
  BY NestedTransactionAssumption DEF Nested, TypeOK
<1>2. /\ frame'[g] = [frame[g] EXCEPT !.status = "running"] /\ frame[g].status = "entering"
      /\ \A x \in Frames \ {g} : frame'[x] = frame[x]
      /\ UNCHANGED <<table, working, active, map, entry, stale>>
  BY <1>1 DEF Enter, TypeOK
<1>3. \A x \in Frames :
         /\ Open(x)' <=> Open(x)
         /\ frame'[x].within = frame[x].within /\ frame'[x].parent = frame[x].parent
         /\ frame'[x].scope = frame[x].scope /\ frame'[x].into = frame[x].into
         /\ (frame'[x].status = "unused" <=> frame[x].status = "unused")
  BY <1>1, <1>2 DEF Open, FrameRecords
<1>4. Order' /\ \A x \in Frames : (Top(x)' <=> Top(x)) /\ (Isolated(x)' <=> Isolated(x))
  BY <1>3, OrderStays
<1>5. Nested \subseteq Frames
  BY DEF Nested
<1>6. \A x \in Frames : Top(x)' => Sound(frame[x].scope, working)'
  BY <1>2, <1>3, <1>4 DEF Views, Sound, Shows
<1>7. \A x \in Nested : Isolated(x)' => Sound(frame[x].into, entry[x])'
  BY <1>2, <1>3, <1>4, <1>5 DEF Views, Sound, Shows
<1> QED
  BY <1>1, <1>2, <1>3, <1>4, <1>6, <1>7 DEF Views

\* So does one that succeeds.
LEMMA SucceedsAgrees ==
  ASSUME TypeOK, Nesting, Order, Views, disturbed' = {}, NEW g \in Nested, NestedSucceeds(g)
  PROVE  Order' /\ Views'
<1>0. /\ g \in Frames /\ Open(g) /\ Disturb(g) /\ End(g, "done") /\ active
      /\ UNCHANGED <<table, working, active>>
  BY DEF NestedSucceeds, Nested, End, Acts, Open
<1>1. Top(g)
  BY <1>0, TopActs
<1>2. PICK p \in Frames : p = frame[g].parent
  BY <1>0, Around
<1>3. PICK s \in Frames : s = frame[p].scope
  BY FrameFields
<1>4. Isolated(s) /\ s # g /\ s \in Scopes /\ g \in Scopes
  BY <1>0, <1>2, <1>3, Around DEF Scopes
<1>5. /\ \A x \in Frames \ {g} : frame'[x] = frame[x] /\ entry'[x] = entry[x]
      /\ frame'[g].status \in {"done", "failed"}
  BY <1>0 DEF End, TypeOK, Unused
<1>6. \/ frame[g].scope = g /\ frame[g].into = s
      \/ frame[g].scope = s
  BY <1>0, <1>2, <1>3 DEF Order, Lies, Nested
<1>7. CASE frame[g].scope = s
  <2>1. UNCHANGED <<map, stale>>
    BY <1>4, <1>7 DEF NestedSucceeds
  <2>2. map[g] = NoEntries /\ stale[g] = {}
    BY <1>0, <1>4, <1>7 DEF Views, Isolated, Nested
  <2>3. Sound(s, working)
    BY <1>0, <1>1, <1>7 DEF Views
  <2> QED
    BY <1>0, <1>1, <1>2, <1>3, <1>5, <2>1, <2>2, <2>3, EndViews DEF Sound, Shows
<1>8. CASE frame[g].scope = g /\ frame[g].into = s
  <2>1. Adopt(s, g)
    BY <1>8 DEF NestedSucceeds
  <2>2. /\ map' = [map EXCEPT ![s] = [k \in Keys |-> IF map[g][k] = Absent THEN @[k] ELSE map[g][k]],
                              ![g] = NoEntries]
        /\ stale' = [stale EXCEPT ![s] = stale[g] \cup {k \in @ : map[g][k] = Absent}, ![g] = {}]
    BY <2>1 DEF Adopt
  <2>3. /\ map'[s] = [k \in Keys |-> IF map[g][k] = Absent THEN map[s][k] ELSE map[g][k]]
        /\ map'[g] = NoEntries
        /\ \A x \in Scopes \ {s, g} : map'[x] = map[x]
    BY <1>4, <2>2 DEF TypeOK
  <2>4. /\ stale'[s] = stale[g] \cup {k \in stale[s] : map[g][k] = Absent}
        /\ stale'[g] = {}
        /\ \A x \in Scopes \ {s, g} : stale'[x] = stale[x]
    BY <1>4, <2>2 DEF TypeOK
  <2>5. Sound(g, working) /\ Sound(s, entry[g])
    BY <1>0, <1>1, <1>8 DEF Views, Isolated
  <2>6. ASSUME NEW k \in Keys \ stale'[s]
        PROVE  working'[k] \in {IF map'[s][k] = Absent THEN entry[s][k] ELSE map'[s][k], Absent}
    <3>1. k \notin stale[g] /\ working[k] \in {Shows(g, k), Absent}
      BY <2>4, <2>5, <2>6 DEF Sound
    <3>2. CASE map[g][k] # Absent
      BY <1>0, <2>3, <3>1, <3>2 DEF Shows
    <3>3. CASE map[g][k] = Absent
      <4>1. k \notin stale[s]
        BY <2>4, <2>6, <3>3
      <4>2. entry[g][k] \in {Shows(s, k), Absent}
        BY <2>5, <4>1 DEF Sound
      <4>3. map'[s][k] = map[s][k]
        BY <2>3, <3>3
      <4> QED
        BY <1>0, <3>1, <3>3, <4>2, <4>3 DEF Shows
    <3> QED
      BY <3>2, <3>3
  <2>7. /\ map'[g] = NoEntries /\ stale'[g] = {}
        /\ \A x \in Scopes \ {s, g} : map'[x] = map[x] /\ stale'[x] = stale[x]
    BY <2>3, <2>4
  <2> QED
    BY <1>0, <1>1, <1>2, <1>3, <1>5, <2>6, <2>7, EndViews
<1> QED
  BY <1>6, <1>7, <1>8

\* So does one that fails, and restores what it had found.
LEMMA FailsAgrees ==
  ASSUME TypeOK, Nesting, Kept, Order, Views, disturbed = {}, disturbed' = {},
         NEW g \in Nested, NestedFails(g)
  PROVE  Order' /\ Views'
<1>0. /\ g \in Frames /\ Open(g) /\ Disturb(g) /\ End(g, "failed") /\ active
      /\ UNCHANGED <<table, active>>
  BY DEF NestedFails, Nested, End, Acts, Open
<1>1. Top(g)
  BY <1>0, TopActs
<1>2. PICK p \in Frames : p = frame[g].parent
  BY <1>0, Around
<1>3. PICK s \in Frames : s = frame[p].scope
  BY FrameFields
<1>4. Isolated(s) /\ s # g /\ s \in Scopes /\ g \in Scopes
  BY <1>0, <1>2, <1>3, Around DEF Scopes
<1>5. /\ \A x \in Frames \ {g} : frame'[x] = frame[x] /\ entry'[x] = entry[x]
      /\ frame'[g].status \in {"done", "failed"}
  BY <1>0 DEF End, TypeOK, Unused
<1>6. \/ frame[g].scope = g /\ frame[g].into = s
      \/ frame[g].scope = s
  BY <1>0, <1>2, <1>3 DEF Order, Lies, Nested
<1>7. working' = entry[g]
  <2>1. savepoints[frame[g].savepoint] = entry[g]
    BY <1>0 DEF Kept
  <2>2. entry[g] # NoSavepoint
    BY <1>0, NestedTransactionAssumption DEF TypeOK
  <2> QED
    BY <2>1, <2>2 DEF NestedFails
<1>8. CASE frame[g].scope = s
  <2>1. /\ stale' = [stale EXCEPT ![s] = @ \cup {k \in Keys : working'[k] # working[k]}]
        /\ UNCHANGED map
    BY <1>4, <1>8 DEF NestedFails
  <2>2. /\ stale'[s] = stale[s] \cup {k \in Keys : working'[k] # working[k]}
        /\ \A x \in Scopes \ {s} : stale'[x] = stale[x]
    BY <1>4, <2>1 DEF TypeOK
  <2>3. map[g] = NoEntries /\ stale[g] = {}
    BY <1>0, <1>4, <1>8 DEF Views, Isolated, Nested
  <2>4. Sound(s, working)
    BY <1>0, <1>1, <1>8 DEF Views
  <2>5. ASSUME NEW k \in Keys \ stale'[s]
        PROVE  working'[k] \in {IF map'[s][k] = Absent THEN entry[s][k] ELSE map'[s][k], Absent}
    BY <2>1, <2>2, <2>4, <2>5 DEF Sound, Shows
  <2>6. /\ map'[g] = NoEntries /\ stale'[g] = {}
        /\ \A x \in Scopes \ {s, g} : map'[x] = map[x] /\ stale'[x] = stale[x]
    BY <1>4, <2>1, <2>2, <2>3
  <2> QED
    BY <1>0, <1>1, <1>2, <1>3, <1>5, <2>5, <2>6, EndViews
<1>9. CASE frame[g].scope = g /\ frame[g].into = s
  <2>1. /\ map' = [map EXCEPT ![g] = NoEntries]
        /\ stale' = [stale EXCEPT ![g] = {}]
    BY <1>9 DEF NestedFails
  <2>2. /\ map'[g] = NoEntries /\ stale'[g] = {}
        /\ \A x \in Scopes \ {g} : map'[x] = map[x] /\ stale'[x] = stale[x]
    BY <1>4, <2>1 DEF TypeOK
  <2>3. Sound(s, entry[g])
    BY <1>0, <1>9 DEF Views, Isolated
  <2>4. ASSUME NEW k \in Keys \ stale'[s]
        PROVE  working'[k] \in {IF map'[s][k] = Absent THEN entry[s][k] ELSE map'[s][k], Absent}
    BY <1>4, <1>7, <2>2, <2>3, <2>4 DEF Sound, Shows
  <2> QED
    BY <1>0, <1>1, <1>2, <1>3, <1>5, <2>2, <2>4, EndViews
<1> QED
  BY <1>6, <1>8, <1>9

\* When no call is open there is only the connection's map to agree.
LEMMA NothingOpen ==
  ASSUME \A x \in Frames : ~Open(x),
         \A x \in Frames : x # Root \/ frame[x].status = "unused" => map[x] = NoEntries /\ stale[x] = {},
         \A k \in Keys \ stale[Conn] : map[Conn][k] # Absent => table[k] \in {map[Conn][k], Absent},
         ~active
  PROVE  Order /\ Views
<1>1. Root \in Frames /\ Nested \subseteq Frames
  BY NestedTransactionAssumption DEF Nested
<1>2. Order
  BY <1>1, OrderOfTheRoot
<1>3. Views
  BY <1>1 DEF Views, Top, Isolated
<1> QED
  BY <1>2, <1>3

\* So does the outermost transaction when it begins.
LEMMA RootBeginsAgrees ==
  ASSUME TypeOK, Nesting, Order, Views, BeginRoot
  PROVE  Order' /\ Views'
<1>0. Root \in Frames /\ Nested \subseteq Frames /\ Root \notin Nested /\ Root \in Scopes
  BY NestedTransactionAssumption DEF Nested, Scopes
<1>1. ~Open(Root) /\ frame[Root] = Unused
  BY <1>0 DEF BeginRoot, Open, Nesting, Placed
<1>2. \A x \in Frames : ~Open(x)
  BY <1>0, <1>1 DEF Order, Lies
<1>3. /\ frame'[Root] = [Unused EXCEPT !.status = "running"]
      /\ \A x \in Frames \ {Root} : frame'[x] = frame[x]
      /\ active' = TRUE /\ working' = table /\ entry'[Root] = table
      /\ UNCHANGED <<table, map, stale>>
  BY <1>0, <1>1 DEF BeginRoot, TypeOK
<1>4. frame'[Root].status = "running" /\ frame'[Root].within = {} /\ frame'[Root].scope = Root
  BY <1>3 DEF Unused
<1>5. Open(Root)' /\ \A x \in Frames : Open(x)' => x = Root
  BY <1>2, <1>3, <1>4 DEF Open
<1>6. map[Root] = NoEntries /\ stale[Root] = {}
  BY <1>0, <1>1 DEF Views, Unused
<1>7. Top(Root)' /\ \A x \in Frames : Top(x)' => x = Root
  BY <1>5 DEF Top
<1>8. Isolated(Root)' /\ \A x \in Frames : Isolated(x)' => x = Root
  BY <1>4, <1>5 DEF Isolated
<1>9. Order'
  BY <1>0, <1>4, <1>5, <1>7, <1>8 DEF Order, Lies
<1>10. Sound(Root, working)'
  BY <1>3, <1>6 DEF Sound, Shows, NoEntries
<1>11. \A x \in Frames : Top(x)' => Sound(frame[x].scope, working)'
  BY <1>4, <1>7, <1>10 DEF Sound, Shows
<1>12. \A x \in Nested : ~Isolated(x)'
  BY <1>0, <1>8
<1>13. ASSUME NEW x \in Frames, (x # Root /\ ~Isolated(x)') \/ frame'[x].status = "unused"
       PROVE  map'[x] = NoEntries /\ stale'[x] = {}
  <2>1. x # Root
    BY <1>4, <1>13
  <2>2. ~Isolated(x)
    BY <1>2 DEF Isolated
  <2> QED
    BY <1>3, <2>1, <2>2 DEF Views
<1>14. \A k \in Keys \ stale'[Conn] : map'[Conn][k] # Absent => table'[k] \in {map'[Conn][k], Absent}
  BY <1>3 DEF Views
<1> QED
  BY <1>3, <1>5, <1>9, <1>11, <1>12, <1>13, <1>14 DEF Views

\* So does its end.
LEMMA RootEndsAgrees ==
  ASSUME TypeOK, Nesting, Order, Views, disturbed' = {},
         RootCommits \/ RootCommitRejects \/ RootFails
  PROVE  Order' /\ Views'
<1>0. /\ Root \in Frames /\ Conn \notin Frames /\ Conn \in Scopes /\ Root \in Scopes
      /\ Frames \subseteq Scopes
  BY NestedTransactionAssumption DEF Scopes
<1>1. Open(Root) /\ Disturb(Root) /\ active /\ ~active'
  BY DEF RootCommits, RootCommitRejects, RootFails, End, Acts, Open
<1>2. Top(Root)
  BY <1>0, <1>1, TopActs
<1>3. \A x \in Frames \ {Root} : ~Open(x)
  BY <1>0, <1>1, <1>2 DEF Top, Order, Lies
<1>4. /\ frame'[Root].status \in {"done", "failed"}
      /\ \A x \in Frames \ {Root} : frame'[x] = frame[x]
  BY <1>0 DEF RootCommits, RootCommitRejects, RootFails, End, TypeOK, Unused
<1>5. \A x \in Frames : ~Open(x)'
  BY <1>3, <1>4 DEF Open
<1>6. ASSUME NEW x \in Frames, x # Root \/ frame'[x].status = "unused"
      PROVE  map'[x] = NoEntries /\ stale'[x] = {}
  <2>1. x # Root /\ x # Conn
    BY <1>0, <1>4, <1>6
  <2>2. map[x] = NoEntries /\ stale[x] = {}
    BY <1>3, <2>1 DEF Views, Isolated
  <2>3. map'[x] = map[x] /\ stale'[x] = stale[x]
    BY <1>0, <2>1 DEF RootCommits, RootCommitRejects, RootFails, Adopt, TypeOK
  <2> QED
    BY <2>2, <2>3
<1>7. ASSUME NEW k \in Keys \ stale'[Conn], map'[Conn][k] # Absent
      PROVE  table'[k] \in {map'[Conn][k], Absent}
  <2>1. CASE RootCommits
    <3>1. /\ table' = working
          /\ map' = [map EXCEPT
                ![Conn] = [j \in Keys |-> IF map[Root][j] = Absent THEN @[j] ELSE map[Root][j]],
                ![Root] = NoEntries]
          /\ stale' = [stale EXCEPT
                ![Conn] = stale[Root] \cup {j \in @ : map[Root][j] = Absent}, ![Root] = {}]
      BY <2>1 DEF RootCommits, Adopt
    <3>2. map'[Conn] = [j \in Keys |-> IF map[Root][j] = Absent THEN map[Conn][j] ELSE map[Root][j]]
      BY <1>0, <3>1 DEF TypeOK
    <3>3. stale'[Conn] = stale[Root] \cup {j \in stale[Conn] : map[Root][j] = Absent}
      BY <1>0, <3>1 DEF TypeOK
    <3>4. Sound(Root, working) /\ entry[Root] = table
      BY <1>0, <1>1, <1>2 DEF Views, Order, Lies
    <3>5. working[k] \in {Shows(Root, k), Absent}
      BY <1>7, <3>3, <3>4 DEF Sound
    <3>6. CASE map[Root][k] # Absent
      BY <3>1, <3>2, <3>5, <3>6 DEF Shows
    <3>7. CASE map[Root][k] = Absent
      <4>1. table[k] \in {map[Conn][k], Absent} /\ map'[Conn][k] = map[Conn][k]
        BY <1>7, <3>2, <3>3, <3>7 DEF Views
      <4> QED
        BY <3>1, <3>4, <3>5, <3>7, <4>1 DEF Shows
    <3> QED
      BY <3>6, <3>7
  <2>2. CASE RootCommitRejects
    <3>1. /\ table' = working /\ map' = map
          /\ stale'[Conn] = stale[Conn] \cup {j \in Keys : table[j] # working[j]}
      BY <1>0, <2>2 DEF RootCommitRejects, TypeOK
    <3> QED
      BY <1>7, <3>1 DEF Views
  <2>3. CASE RootFails
    BY <1>7, <2>3 DEF RootFails, Views
  <2> QED
    BY <2>1, <2>2, <2>3
<1>8. Root \in Frames /\ Nested \subseteq Frames
  BY <1>0 DEF Nested
<1>9. Order'
  BY <1>5, <1>8 DEF Order, Lies
<1>10. Views'
  BY <1>1, <1>5, <1>6, <1>7, <1>8 DEF Views, Top, Isolated
<1> QED
  BY <1>9, <1>10

\* So does a read outside of it.
LEMMA ConnFindAgrees ==
  ASSUME TypeOK, Order, Views, NEW k \in Keys, ConnFind(k)
  PROVE  Order' /\ Views'
<1>0. Conn \notin Frames /\ Conn \in Scopes /\ Frames \subseteq Scopes
  BY NestedTransactionAssumption DEF Scopes
<1>1. /\ UNCHANGED <<table, working, active, frame, entry>>
      /\ \A x \in Frames : map'[x] = map[x] /\ stale'[x] = stale[x]
      /\ map'[Conn][k] = table[k] /\ \A j \in Keys \ {k} : map'[Conn][j] = map[Conn][j]
      /\ stale'[Conn] = stale[Conn] \ {k}
  BY <1>0 DEF ConnFind, TypeOK, TableStates
<1>2. Order' /\ \A x \in Frames : (Top(x)' <=> Top(x)) /\ (Isolated(x)' <=> Isolated(x))
  BY <1>1, OrderStays DEF Open
<1>3. Nested \subseteq Frames /\ Root \in Frames
  BY NestedTransactionAssumption DEF Nested
<1>4. \A x \in Frames : frame[x].scope \in Frames /\ frame[x].into \in Frames
  BY FrameFields
<1>5. \A x \in Frames : Top(x)' => Sound(frame[x].scope, working)'
  BY <1>1, <1>2, <1>4 DEF Views, Sound, Shows
<1>6. \A x \in Nested : Isolated(x)' => Sound(frame[x].into, entry[x])'
  BY <1>1, <1>2, <1>3, <1>4 DEF Views, Sound, Shows
<1>7. \A j \in Keys \ stale'[Conn] : map'[Conn][j] # Absent => table'[j] \in {map'[Conn][j], Absent}
  BY <1>1 DEF Views
<1> QED
  BY <1>1, <1>2, <1>3, <1>5, <1>6, <1>7 DEF Views, Open

\* Before the transaction the connection has loaded the rows or not.
LEMMA EntitiesStart ==
  ASSUME Init
  PROVE  EntitiesIInv
<1>1. \A x \in Frames : ~Open(x)
  BY DEF Init, Open, Unused
<1>2. Frames \subseteq Scopes /\ Conn \in Scopes /\ Conn \notin Frames
  BY NestedTransactionAssumption DEF Scopes
<1>3. \A x \in Frames : map[x] = NoEntries /\ stale[x] = {}
  BY <1>2 DEF Init
<1>4. \A k \in Keys : map[Conn][k] # Absent => table[k] \in {map[Conn][k], Absent}
  BY <1>2 DEF Init, NoEntries
<1>5. ~active
  BY DEF Init
<1> QED
  BY <1>1, <1>3, <1>4, <1>5, NothingOpen DEF EntitiesIInv

\* Every step keeps the views and the order, unless others disturbed them.
LEMMA EntitiesStep ==
  ASSUME TypeOK, Nesting, Kept, EntitiesIInv, [Next]_vars
  PROVE  EntitiesIInv'
<1> SUFFICES ASSUME disturbed' = {} PROVE Order' /\ Views'
  BY DEF EntitiesIInv
<1>1. CASE UNCHANGED vars
  <2>1. Order /\ Views
    BY <1>1 DEF EntitiesIInv, vars
  <2>2. Order'
    BY <1>1, <2>1, OrderStays DEF vars, Open
  <2>3. Views'
    BY <1>1, <2>1 DEF vars, Views, Top, Isolated, Open, Sound, Shows
  <2> QED
    BY <2>2, <2>3
<1>2. CASE Next
  <2>0. Step /\ disturbed = {} /\ Order /\ Views
    BY <1>2, StaysDisturbed DEF Next, EntitiesIInv
  <2>1. ASSUME NEW f \in Frames, NEW k \in Keys, Find(f, k) \/ Save(f, k) \/ Delete(f, k)
        PROVE  Order' /\ Views'
    BY <2>0, <2>1, RowsAgree
  <2>2. ASSUME NEW f \in Frames, NEW g \in Nested, NEW isolated \in mode.isolated,
               BeginNested(f, g, isolated)
        PROVE  Order' /\ Views'
    <3>1. isolated \in BOOLEAN
      BY NestedTransactionAssumption DEF TypeOK, CallerModes
    <3> QED
      BY <2>0, <2>2, <3>1, BeginAgrees
  <2>3. ASSUME NEW g \in Nested, Enter(g) \/ NestedSucceeds(g) \/ NestedFails(g)
        PROVE  Order' /\ Views'
    BY <2>0, <2>3, EnterAgrees, SucceedsAgrees, FailsAgrees
  <2>4. ASSUME BeginRoot \/ RootCommits \/ RootCommitRejects \/ RootFails
        PROVE  Order' /\ Views'
    BY <2>0, <2>4, RootBeginsAgrees, RootEndsAgrees
  <2>5. ASSUME NEW k \in Keys, ConnFind(k) PROVE Order' /\ Views'
    BY <2>0, <2>5, ConnFindAgrees
  <2> QED
    BY <2>0, <2>1, <2>2, <2>3, <2>4, <2>5 DEF Step
<1> QED
  BY <1>1, <1>2

\* Identity maps agree with the rows (connection.ts, identity-map.ts): what a
\* handler finds in its scope, and the connection after the transaction, is the
\* row, for any number of calls nested to any depth and whatever they save,
\* delete and throw, unless a call that shared the scope failed or one ran
\* beside another.
THEOREM NestedTransactionEntitiesAgree == Spec => []EntitiesAgree
<1>1. Init => EntitiesIInv
  BY EntitiesStart
<1>2. TypeOK /\ Nesting /\ Kept /\ EntitiesIInv /\ [Next]_vars => EntitiesIInv'
  BY EntitiesStep
<1>3. ASSUME TypeOK, EntitiesIInv PROVE EntitiesAgree
  <2>1. IdentityAgrees
    <3> SUFFICES ASSUME disturbed = {}, NEW f \in Frames, NEW k \in Keys, Open(f), Leaf(f),
                        map[frame[f].scope][k] # Absent, working[k] # Absent,
                        k \notin stale[frame[f].scope]
                 PROVE  map[frame[f].scope][k] = working[k]
      BY DEF IdentityAgrees
    <3>1. Order /\ Views
      BY <1>3 DEF EntitiesIInv
    <3>2. Sound(frame[f].scope, working)
      BY <3>1, LeafIsTop DEF Views
    <3> QED
      BY <3>2 DEF Sound, Shows
  <2>2. ConnectionAgrees
    BY <1>3 DEF ConnectionAgrees, EntitiesIInv, Views
  <2> QED
    BY <2>1, <2>2 DEF EntitiesAgree
<1> QED
  BY <1>1, <1>2, <1>3, NestedTransactionInvariant, PTL DEF Spec

=============================================================================
