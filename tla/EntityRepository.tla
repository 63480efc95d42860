-------------------------- MODULE EntityRepository --------------------------
(***************************************************************************)
(* Repository.save and Repository.delete (repository.ts): read the whole   *)
(* table, run the entity's hooks, write the whole table back, and for a    *)
(* save do the same with the join table of each many-to-many relation the  *)
(* entity owns.  Every one of these awaits, and callers share nothing but  *)
(* the driver: whoever writes between another's read and write is undone.  *)
(*                                                                         *)
(* The driver is one that ignores foreign keys, as the in-process drivers  *)
(* do: a delete leaves the join table alone.                               *)
(*                                                                         *)
(* A row is abstracted to its primary key and the caller that saved it, a  *)
(* join row to its two keys; one owned relation.                           *)
(***************************************************************************)
EXTENDS FiniteSets

CONSTANTS
    Keys,         \* primary keys of the entity
    Targets,      \* primary keys at the other end of the relation
    Callers,      \* calls of save and delete that may run at the same time
    Seed,         \* rows from before
    Idle,         \* a caller with no call under way
    NotLoaded,    \* the relation's property is undefined or a LazyReference
    Rekey         \* whether before-hooks may change the primary key

Rows == [id : Keys, by : Callers \cup {Seed}]

Links == [owner : Keys, target : Targets]

ASSUME EntityRepositoryAssumption ==
    /\ Seed \notin Callers
    /\ \A value \in SUBSET Targets : value # NotLoaded
    /\ Rekey \in BOOLEAN

VARIABLES
    rows,         \* the entity's table in the driver
    links,        \* the join table
    call,         \* per caller: the progress of its call
    serialRows,   \* history: the table had each write been applied to the
                  \* table of the moment
    serialLinks,  \* history: the same for the join table
    overlapped,   \* history: some call has written what it computed from a
                  \* table that another call had changed meanwhile
    deleted       \* history: keys whose row was deleted and not saved since

history == <<serialRows, serialLinks, overlapped, deleted>>

vars == <<rows, links, call, history>>

Calls ==
    [kind : {"save"},
     at : {"hooks", "write", "link", "relink", "after"},
     id : Keys,
     value : {NotLoaded} \cup SUBSET Targets,
     seenRows : SUBSET Rows,
     seenLinks : SUBSET Links]
        \cup [kind : {"delete"},
              at : {"hooks", "after"},
              ids : SUBSET Keys,
              seenRows : SUBSET Rows]

TypeOK ==
    /\ rows \subseteq Rows
    /\ links \subseteq Links
    /\ call \in [Callers -> Calls \cup {Idle}]
    /\ serialRows \subseteq Rows
    /\ serialLinks \subseteq Links
    /\ overlapped \in BOOLEAN
    /\ deleted \subseteq Keys

Init ==
    /\ rows \in {{}} \cup {{[id |-> k, by |-> Seed]} : k \in Keys}
    /\ links = {}
    /\ call = [c \in Callers |-> Idle]
    /\ serialRows = rows
    /\ serialLinks = links
    /\ overlapped = FALSE
    /\ deleted = {}

At(c, kind, at) == call[c] # Idle /\ call[c].kind = kind /\ call[c].at = at

WithId(rs, k) == {r \in rs : r.id = k}

-----------------------------------------------------------------------------
(* save.                                                                   *)

\* Mutant: every save adds a row.
PlaceAppends(rs, k, c) == rs \cup {[id |-> k, by |-> c]}

\* Replaces the first row that has the key, or adds one.
Place(rs, k, c) ==
    IF WithId(rs, k) = {}
    THEN rs \cup {[id |-> k, by |-> c]}
    ELSE (rs \ {CHOOSE r \in WithId(rs, k) : TRUE}) \cup {[id |-> k, by |-> c]}

SaveReads(c, k, value) ==
    /\ call[c] = Idle
    /\ call' = [call EXCEPT ![c] =
                   [kind |-> "save", at |-> "hooks", id |-> k, value |-> value,
                    seenRows |-> rows, seenLinks |-> {}]]
    /\ UNCHANGED <<rows, links, history>>

\* Mutant: the relations are synchronised in place of the row, or before it.
HooksPassLinksFirst(c, k) ==
    /\ At(c, "save", "hooks")
    /\ Rekey \/ k = call[c].id
    /\ call' = [call EXCEPT ![c].at = IF call[c].value = NotLoaded THEN "write" ELSE "link",
                            ![c].id = k]
    /\ UNCHANGED <<rows, links, history>>

\* The before and validate hooks; the row is looked for again afterwards,
\* under the key they left.
HooksPass(c, k) ==
    /\ At(c, "save", "hooks")
    /\ Rekey \/ k = call[c].id
    /\ call' = [call EXCEPT ![c].at = "write", ![c].id = k]
    /\ UNCHANGED <<rows, links, history>>

SaveWrites(c) ==
    /\ At(c, "save", "write")
    /\ rows' = Place(call[c].seenRows, call[c].id, c)
    /\ serialRows' = Place(serialRows, call[c].id, c)
    /\ deleted' = deleted \ {call[c].id}
    /\ overlapped' = (overlapped \/ call[c].seenRows # rows)
    /\ call' = [call EXCEPT ![c].at = IF call[c].value = NotLoaded THEN "after" ELSE "link",
                            ![c].seenRows = {}]
    /\ UNCHANGED <<links, serialLinks>>

LinkReads(c) ==
    /\ At(c, "save", "link")
    /\ call' = [call EXCEPT ![c].at = "relink", ![c].seenLinks = links]
    /\ UNCHANGED <<rows, links, history>>

\* Mutant: a value that is an array is stored like one that is not.
RelinkWhole(ls, k, value) ==
    {l \in ls : l.owner # k} \cup {[owner |-> k, target |-> value]}

Relink(ls, k, value) ==
    {l \in ls : l.owner # k} \cup {[owner |-> k, target |-> t] : t \in value}

\* Mutant: the join rows of other owners are not written back.
LinkWritesOwn(c) ==
    /\ At(c, "save", "relink")
    /\ links' = Relink({}, call[c].id, call[c].value)
    /\ serialLinks' = Relink(serialLinks, call[c].id, call[c].value)
    /\ overlapped' = (overlapped \/ call[c].seenLinks # links)
    /\ call' = [call EXCEPT ![c].at = "after", ![c].seenLinks = {}]
    /\ UNCHANGED <<rows, serialRows, deleted>>

LinkWrites(c) ==
    /\ At(c, "save", "relink")
    /\ links' = Relink(call[c].seenLinks, call[c].id, call[c].value)
    /\ serialLinks' = Relink(serialLinks, call[c].id, call[c].value)
    /\ overlapped' = (overlapped \/ call[c].seenLinks # links)
    /\ call' = [call EXCEPT ![c].at = "after", ![c].seenLinks = {}]
    /\ UNCHANGED <<rows, serialRows, deleted>>

-----------------------------------------------------------------------------
(* delete, and how either call ends.                                       *)

\* The criteria match the rows with these keys, of those there are.
DeleteReads(c, ids) ==
    /\ call[c] = Idle
    /\ call' = [call EXCEPT ![c] =
                   [kind |-> "delete", at |-> "hooks", ids |-> ids, seenRows |-> rows]]
    /\ UNCHANGED <<rows, links, history>>

Without(rs, ids) == {r \in rs : r.id \notin ids}

\* The hooks of each row have passed; the join table is not touched.
DeleteWrites(c) ==
    /\ At(c, "delete", "hooks")
    /\ rows' = Without(call[c].seenRows, call[c].ids)
    /\ serialRows' = Without(serialRows, call[c].ids)
    /\ deleted' = deleted \cup call[c].ids
    /\ overlapped' = (overlapped \/ call[c].seenRows # rows)
    /\ call' = [call EXCEPT ![c].at = "after", ![c].seenRows = {}]
    /\ UNCHANGED <<links, serialLinks>>

\* The call returns; or a hook, the validation or the driver throws,
\* at any point, and it rejects: what it has written by then stays.
Ends(c) ==
    /\ call[c] # Idle
    /\ call' = [call EXCEPT ![c] = Idle]
    /\ UNCHANGED <<rows, links, history>>

-----------------------------------------------------------------------------
Next ==
    \E c \in Callers :
        \/ \E k \in Keys, value \in (SUBSET Targets) \cup {NotLoaded} : SaveReads(c, k, value)
        \/ \E k \in Keys : HooksPass(c, k)
        \/ \E ids \in SUBSET Keys : DeleteReads(c, ids)
        \/ SaveWrites(c) \/ LinkReads(c) \/ LinkWrites(c) \/ DeleteWrites(c)
        \/ Ends(c)

Spec == Init /\ [][Next]_vars

-----------------------------------------------------------------------------
\* A table never holds two rows with one primary key, however saves overlap
\* and whatever key the hooks put into the entity after the row was first
\* looked for.
PrimaryKeyUnique == \A r, s \in rows : r.id = s.id => r = s

\* Saving and deleting is serial as long as it does not overlap: both tables
\* are what applying each write to the table of its moment would have made
\* them, calls that failed half way included, unless some call wrote what it
\* had computed from a table changed since.
SerialUnlessOverlapped ==
    ~overlapped => rows = serialRows /\ links = serialLinks

\* A join row has an owner.  Without overlap the rows of the join table whose
\* owner is missing are those that a delete has left there: no save, however
\* it was cut short and whatever key the hooks chose, links a row that is not
\* in the table.
LinksHaveOwners ==
    ~overlapped => \A l \in links : WithId(rows, l.owner) # {} \/ l.owner \in deleted

=============================================================================
