----------------------------- MODULE Relations -----------------------------
(***************************************************************************)
(* The relations of one entity in memory (relations.ts, the loading part   *)
(* of repository.ts, lazy-reference.ts).                                   *)
(*                                                                         *)
(* parent is a relation with a join column, a many-to-one or the owning    *)
(* side of a one-to-one: its property has an accessor that writes the key  *)
(* column as well, whoever assigns it, the code that loads the relation    *)
(* included.  tags is a collection: a many-to-many, whose join rows a save *)
(* replaces, or a one-to-many or inverse one-to-one (Owned = FALSE), which *)
(* a save leaves alone.  Loading reads, awaits and assigns; meanwhile the  *)
(* program assigns too, saves, and others write the tables.                *)
(***************************************************************************)
EXTENDS Naturals, FiniteSets

CONSTANTS Parents, Tags,  \* keys of the related entities
          Loads,          \* loads of relations that may be under way at once
          MaxChanges,     \* assignments and writes of others
          MaxLoadFaults,
          Null,
          Lazy,           \* the property holds a LazyReference
          Unset           \* the property was never assigned

RelationsAssumption ==
    /\ {MaxChanges, MaxLoadFaults} \subseteq Nat
    /\ Lazy \notin Parents \cup {Null} /\ Unset \notin Parents \cup {Null, Lazy}

VARIABLES lazy,    \* whether the relations are declared lazy
          Owned,   \* whether tags is an owned many-to-many
          parents, tags, \* the related rows there are
          row,     \* the entity's row: its key column
          links,   \* its join rows, or the rows that refer to it
          entity,  \* the entity in memory: key, parent, tags
          broken,  \* relations whose LazyReference has kept a rejection, or waits for itself
          load,    \* the loads under way
          save,    \* the save under way
          changes, loadFaults,
          meant,      \* history: the key column last assigned, or read
          excused,    \* history: the key was lost where it is bound to be, see KeyFollows
          keyAlone    \* history: the key was written without the relation

data    == <<lazy, Owned, parents, tags, row, links>>
history == <<meant, excused, keyAlone>>
relationVars == <<data, entity, broken, load, save, changes, loadFaults, history>>

AtRest == [at |-> "idle"]

-----------------------------------------------------------------------------
(* Assigning.                                                              *)

\* Mutant: the setter leaves the join column to the next save.
SetParentAlone(p) == [entity EXCEPT !.parent = p]

\* The accessor's setter: a LazyReference leaves the key column alone.
SetParent(p) == [entity EXCEPT !.parent = p, !.key = IF p = Lazy THEN @ ELSE p]

Change == changes < MaxChanges /\ changes' = changes + 1

AssignParent(p) ==
    /\ Change
    /\ entity' = SetParent(p)
    /\ meant' = p /\ keyAlone' = FALSE
    /\ UNCHANGED <<data, broken, load, save, loadFaults, excused>>

AssignKey(p) ==
    /\ Change
    /\ entity' = [entity EXCEPT !.key = p]
    /\ meant' = p /\ keyAlone' = TRUE
    /\ UNCHANGED <<data, broken, load, save, loadFaults, excused>>

AssignTags(ts) ==
    /\ Change
    /\ entity' = [entity EXCEPT !.tags = ts]
    /\ UNCHANGED <<data, broken, load, save, loadFaults, history>>

\* A find returns the entity again: the identity map writes the row's columns
\* into it, and leaves what is loaded.
Rehydrate ==
    /\ entity' = [entity EXCEPT !.key = row]
    /\ meant' = row
    /\ keyAlone' = (keyAlone \/ row # entity.key)
    /\ UNCHANGED <<data, broken, load, save, changes, loadFaults, excused>>

\* Other sessions.
OthersWrite ==
    /\ Change
    /\ \/ \E p \in parents : parents' = parents \ {p} /\ UNCHANGED <<tags, links, row>>
       \/ \E t \in tags : tags' = tags \ {t} /\ UNCHANGED <<parents, links, row>>
       \/ \E ts \in SUBSET tags : ts # links /\ links' = ts /\ UNCHANGED <<parents, tags, row>>
       \/ \E p \in parents : p # row /\ row' = p /\ UNCHANGED <<parents, tags, links>>
    /\ UNCHANGED <<lazy, Owned, entity, broken, load, save, loadFaults, history>>

-----------------------------------------------------------------------------
(* Loading, by relations of a find or by a LazyReference.                  *)

\* loadManyToOne, loadOneToOne: the keys of the entity and of its siblings in
\* the find's result are gathered.
LoadParent(l) ==
    /\ load[l] = AtRest
    /\ \E siblings \in SUBSET Parents :
          LET ids == siblings \cup ({entity.key} \ {Null})
          IN  /\ ids # {}
              /\ load' = [load EXCEPT ![l] = [at |-> "find", what |-> "parent", ids |-> ids, found |-> {}]]
    /\ UNCHANGED <<data, entity, broken, save, changes, loadFaults, history>>

\* Without any key the property is assigned what it holds, or null: a parent it
\* holds writes the key column again.  A LazyReference is left with itself for an
\* answer, for which it waits.
LoadNothing(l) ==
    /\ load[l] = AtRest /\ entity.key = Null
    /\ entity' = SetParent(IF entity.parent = Unset THEN Null ELSE entity.parent)
    /\ keyAlone' = (keyAlone /\ entity.parent = Lazy)
    /\ excused' = (excused \/ entity.parent \in Parents)
    /\ broken' \in {broken, IF entity.parent = Lazy THEN broken \cup {"parent"} ELSE broken}
    /\ UNCHANGED <<data, load, save, changes, loadFaults, meant>>

\* loadManyToMany reads the join table; loadOneToMany the related rows.
LoadTags(l) ==
    /\ load[l] = AtRest
    /\ load' = [load EXCEPT ![l] = [at |-> "find", what |-> "tags", ids |-> links, found |-> {}]]
    /\ UNCHANGED <<data, entity, broken, save, changes, loadFaults, history>>

\* repo.find of those keys.
Find(l) ==
    /\ load[l].at = "find"
    /\ load' = [load EXCEPT ![l].at = "assign",
                            ![l].found = @ \cup (load[l].ids \cap (IF load[l].what = "tags" THEN tags ELSE parents))]
    /\ UNCHANGED <<data, entity, broken, save, changes, loadFaults, history>>

\* The related entity of the key the entity has by now, null if it was not
\* found; assigned, so that the accessor writes the key too.
AssignFound(l) ==
    /\ load[l].at = "assign" /\ load[l].what = "parent"
    /\ entity' = SetParent(IF entity.key \in load[l].found THEN entity.key ELSE Null)
    /\ excused' = (excused \/ entity.key \notin load[l].found \cup {Null})
    /\ keyAlone' = FALSE
    /\ load' = [load EXCEPT ![l] = AtRest]
    /\ UNCHANGED <<data, broken, save, changes, loadFaults, meant>>

AssignFoundTags(l) ==
    /\ load[l].at = "assign" /\ load[l].what = "tags"
    /\ entity' = [entity EXCEPT !.tags = load[l].found]
    /\ load' = [load EXCEPT ![l] = AtRest]
    /\ UNCHANGED <<data, broken, save, changes, loadFaults, history>>

\* A LazyReference keeps the promise of its load, a rejected one too: only a
\* new reference, which a save makes, loads again.
LoadFails(l) ==
    /\ load[l] # AtRest /\ loadFaults < MaxLoadFaults
    /\ loadFaults' = loadFaults + 1
    /\ broken' = IF lazy THEN broken \cup {load[l].what} ELSE broken
    /\ load' = [load EXCEPT ![l] = AtRest]
    /\ UNCHANGED <<data, entity, save, changes, history>>

CanLoad(what) == what \notin broken

-----------------------------------------------------------------------------
(* save, of this entity alone: its row, its join rows, then the entity.    *)

SaveReads ==
    /\ save = AtRest
    /\ save' = [at |-> "row", key |-> entity.key]
    /\ UNCHANGED <<data, entity, broken, load, changes, loadFaults, history>>

SaveRow ==
    /\ save.at = "row"
    /\ row' = save.key
    /\ save' = [save EXCEPT !.at = "links"]
    /\ UNCHANGED <<lazy, Owned, parents, tags, links, entity, broken, load, changes, loadFaults, history>>

\* syncManyToManyRelations: a collection that is not loaded is left alone.
SaveLinks ==
    /\ save.at = "links"
    /\ IF Owned /\ entity.tags \notin {Lazy, Unset}
       THEN links' = entity.tags
       ELSE UNCHANGED links
    /\ save' = [save EXCEPT !.at = "entity"]
    /\ UNCHANGED <<lazy, Owned, parents, tags, row, entity, broken, load, changes, loadFaults, history>>

\* updateAfterPersist writes the saved columns into the entity, and lazy
\* relations get new references.
SaveEnds ==
    /\ save.at = "entity"
    /\ entity' = [key |-> save.key, parent |-> IF lazy THEN Lazy ELSE entity.parent,
                  tags |-> IF lazy THEN Lazy ELSE entity.tags]
    /\ excused' = (excused \/ entity.key # save.key)
    /\ keyAlone' = (keyAlone \/ entity.key # save.key)
    /\ broken' = IF lazy THEN {} ELSE broken
    /\ save' = AtRest
    /\ UNCHANGED <<data, load, changes, loadFaults, meant>>

-----------------------------------------------------------------------------

RelationsInit ==
    /\ lazy \in BOOLEAN /\ Owned \in BOOLEAN
    /\ parents = Parents /\ tags = Tags
    /\ row \in Parents \cup {Null}
    /\ links \in SUBSET Tags
    /\ entity = [key |-> row, parent |-> IF lazy THEN Lazy ELSE Unset,
                 tags |-> IF lazy THEN Lazy ELSE Unset]
    /\ broken = {} /\ load = [l \in Loads |-> AtRest] /\ save = AtRest
    /\ changes = 0 /\ loadFaults = 0
    /\ meant = row /\ excused = FALSE /\ keyAlone = FALSE

RelationsNext ==
    \/ \E p \in parents \cup {Null} : AssignParent(p) \/ AssignKey(p)
    \/ \E ts \in SUBSET tags : AssignTags(ts)
    \/ Rehydrate \/ OthersWrite
    \/ \E l \in Loads :
          \/ CanLoad("parent") /\ (LoadParent(l) \/ LoadNothing(l))
          \/ CanLoad("tags") /\ LoadTags(l)
          \/ Find(l) \/ AssignFound(l) \/ AssignFoundTags(l) \/ LoadFails(l)
    \/ SaveReads \/ SaveRow \/ SaveLinks \/ SaveEnds

RelationsSpec == RelationsInit /\ [][RelationsNext]_relationVars

-----------------------------------------------------------------------------
(* Properties.                                                             *)

\* Every variable holds a value of its kind.
TypeOK ==
    /\ lazy \in BOOLEAN /\ Owned \in BOOLEAN
    /\ parents \subseteq Parents /\ tags \subseteq Tags /\ row \in Parents \cup {Null}
    /\ links \subseteq Tags
    /\ entity.key \in Parents \cup {Null} /\ entity.parent \in Parents \cup {Null, Lazy, Unset}
    /\ entity.tags \in (SUBSET Tags) \cup {Lazy, Unset}
    /\ broken \subseteq {"parent", "tags"}
    /\ changes \in 0..MaxChanges /\ loadFaults \in 0..MaxLoadFaults

\* The key column follows the relation: a parent that is assigned or loaded is
\* the one the key names, unless the key was written by itself since, and the
\* key is the one last assigned or read, whatever loads and saves run beside
\* the assignments.  It is lost in four ways, each of which a later save stores:
\* a load does not find the parent; the key changes while a load is under way
\* that does not have the new one, or while a save is; a key that was emptied by
\* itself comes back when the relation is loaded with a parent in the property
\* (defineRelationAccessors, whose setter the load functions of Repository run
\* too).
KeyFollows ==
    /\ entity.parent \in Parents \cup {Null} => entity.parent = entity.key \/ keyAlone
    /\ entity.key = meant \/ excused
=============================================================================
