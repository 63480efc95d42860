----------------------------- MODULE TaggedCache -----------------------------
(***************************************************************************)
(* The cache of packages/performance: CacheManager over a MemoryCacheStore *)
(* (cache-manager.ts, memory-store.ts), used directly or through the       *)
(* decorator @Cached (decorators.ts).  Callers that miss at the same time  *)
(* all run the resolver, and each stores what it computed, whatever        *)
(* happened to the data or to the cache meanwhile.                         *)
(*                                                                         *)
(* The data behind the resolvers is a version number; a value is the       *)
(* version its resolver read.  Time is left out: an entry with an expiry   *)
(* may be found expired at any moment.                                     *)
(***************************************************************************)
EXTENDS Naturals

CONSTANTS
    Keys,         \* cache keys
    Callers,      \* calls that may run at the same time
    Tags,         \* tags
    TagsOf,       \* options.tags of each key
    HasTtl,       \* the keys whose options have a ttlMs
    Decorated,    \* whether the calls go through @Cached: the ways in use
    NoEntry,      \* the store has no entry for the key
    Idle,         \* a caller with no call under way
    MaxVersion    \* bound: how often the data changes

Versions == 0..MaxVersion

TaggedCacheAssumption ==
    /\ TagsOf \in [Keys -> SUBSET Tags]
    /\ HasTtl \subseteq Keys
    /\ Decorated \subseteq BOOLEAN
    /\ MaxVersion \in Nat

VARIABLES
    version,      \* the data
    entries,      \* MemoryCacheStore.entries
    call,         \* per caller: its getOrSet, past a miss
    required,     \* history, per key: the data when it was last invalidated
    raced         \* history: keys invalidated while a call held their value
                  \* and not rid of it since

vars == <<version, entries, call, required, raced>>

Entries == [value : Versions, expires : BOOLEAN, tags : SUBSET Tags]

Calls ==
    [at : {"resolving", "resolved", "stored"}, decorated : BOOLEAN, key : Keys,
     value : Versions]

TypeOK ==
    /\ version \in Versions
    /\ entries \in [Keys -> Entries \cup {NoEntry}]
    /\ call \in [Callers -> Calls \cup {Idle}]
    /\ required \in [Keys -> Versions]
    /\ raced \subseteq Keys

Init ==
    /\ version = 0
    /\ entries = [k \in Keys |-> NoEntry]
    /\ call = [c \in Callers |-> Idle]
    /\ required = [k \in Keys |-> 0]
    /\ raced = {}

-----------------------------------------------------------------------------
At(c, at) == call[c] # Idle /\ call[c].at = at

\* A call that has computed a value of the key and will store it (again).
Holds(c, k) == call[c] # Idle /\ call[c].at # "resolving" /\ call[c].key = k

Held(k) == \E c \in Callers : Holds(c, k)

Track(more) == raced' = {k \in raced \cup more : entries'[k] # NoEntry \/ Held(k)'}

-----------------------------------------------------------------------------
(* getOrSet.  A hit returns the entry and changes nothing.                 *)

Miss(c, k, decorated) ==
    /\ call[c] = Idle
    /\ entries[k] = NoEntry
    /\ call' = [call EXCEPT ![c] =
                   [at |-> "resolving", decorated |-> decorated, key |-> k, value |-> 0]]
    /\ UNCHANGED <<version, entries, required>>
    /\ Track({})

Resolve(c) ==
    /\ At(c, "resolving")
    /\ call' = [call EXCEPT ![c].at = "resolved", ![c].value = version]
    /\ UNCHANGED <<version, entries, required>>
    /\ Track({})

\* Mutant: the outcome of a resolver that threw is stored.
ResolverThrowsStored(c) ==
    /\ At(c, "resolving")
    /\ entries' = [entries EXCEPT ![call[c].key] =
                      [value |-> NoEntry, expires |-> FALSE, tags |-> {}]]
    /\ call' = [call EXCEPT ![c] = Idle]
    /\ UNCHANGED <<version, required>>
    /\ Track({})

\* The resolver, or the method @Cached wraps, throws: nothing is stored.
ResolverThrows(c) ==
    /\ At(c, "resolving")
    /\ call' = [call EXCEPT ![c] = Idle]
    /\ UNCHANGED <<version, entries, required>>
    /\ Track({})

EntryOf(c, expires, tags) == [value |-> call[c].value, expires |-> expires, tags |-> tags]

\* The resolver that @Cached passes to getOrSet sets the entry itself, with
\* the options of the decorator.
SetInResolver(c) ==
    /\ At(c, "resolved")
    /\ call[c].decorated
    /\ LET k == call[c].key IN
         entries' = [entries EXCEPT ![k] = EntryOf(c, k \in HasTtl, TagsOf[k])]
    /\ call' = [call EXCEPT ![c].at = "stored"]
    /\ UNCHANGED <<version, required>>
    /\ Track({})

\* getOrSet sets the entry with its own options; @Cached passes it none.
SetByGetOrSet(c) ==
    /\ call[c] # Idle
    /\ call[c].at = IF call[c].decorated THEN "stored" ELSE "resolved"
    /\ LET k == call[c].key IN
         entries' = [entries EXCEPT ![k] = IF call[c].decorated
                                           THEN EntryOf(c, FALSE, {})
                                           ELSE EntryOf(c, k \in HasTtl, TagsOf[k])]
    /\ call' = [call EXCEPT ![c] = Idle]
    /\ UNCHANGED <<version, required>>
    /\ Track({})

-----------------------------------------------------------------------------
(* The store under its callers.                                            *)

\* get deletes an entry whose time is up when it is asked for it.
Expire(k) ==
    /\ entries[k] # NoEntry
    /\ entries[k].expires
    /\ entries' = [entries EXCEPT ![k] = NoEntry]
    /\ UNCHANGED <<version, call, required>>
    /\ Track({})

Delete(k) ==
    /\ entries[k] # NoEntry
    /\ entries' = [entries EXCEPT ![k] = NoEntry]
    /\ UNCHANGED <<version, call, required>>
    /\ Track({})

ChangeData ==
    /\ version < MaxVersion
    /\ version' = version + 1
    /\ UNCHANGED <<entries, call, required, raced>>

\* Mutant: every in place of some: an entry goes when all its tags are named.
InvalidateEvery(tags) ==
    LET hit == {k \in Keys : TagsOf[k] \cap tags # {}} IN
    /\ entries' = [k \in Keys |->
                      IF entries[k] # NoEntry /\ entries[k].tags \subseteq tags
                      THEN NoEntry
                      ELSE entries[k]]
    /\ required' = [k \in Keys |-> IF k \in hit THEN version ELSE required[k]]
    /\ UNCHANGED <<version, call>>
    /\ Track({k \in hit : Held(k)})

\* invalidate(tags): the entries that carry one of the tags.
Invalidate(tags) ==
    LET hit == {k \in Keys : TagsOf[k] \cap tags # {}} IN
    /\ entries' = [k \in Keys |->
                      IF entries[k] # NoEntry /\ entries[k].tags \cap tags # {}
                      THEN NoEntry
                      ELSE entries[k]]
    /\ required' = [k \in Keys |-> IF k \in hit THEN version ELSE required[k]]
    /\ UNCHANGED <<version, call>>
    /\ Track({k \in hit : Held(k)})

-----------------------------------------------------------------------------
Next ==
    \/ \E c \in Callers, k \in Keys, decorated \in Decorated : Miss(c, k, decorated)
    \/ \E c \in Callers :
           Resolve(c) \/ ResolverThrows(c) \/ SetInResolver(c) \/ SetByGetOrSet(c)
    \/ \E k \in Keys : Expire(k) \/ Delete(k)
    \/ ChangeData
    \/ \E tags \in SUBSET Tags \ {{}} : Invalidate(tags)

Spec == Init /\ [][Next]_vars

-----------------------------------------------------------------------------
\* An invalidation outlives the calls it races.  An entry that carries the
\* tags of its key is no older than the data was when one of those tags was
\* last invalidated, however misses, failures and expiries interleave with it
\* -- unless a call had already computed the value and stored it afterwards.
TaggedIsFresh ==
    \A k \in Keys \ raced :
        entries[k] # NoEntry /\ entries[k].tags = TagsOf[k] => entries[k].value >= required[k]

\* "Caching with tag invalidation" (README.md, USAGE.md 6.2): the same of
\* every entry of a key that was given tags.
TagInvalidation ==
    \A k \in Keys \ raced :
        entries[k] # NoEntry /\ TagsOf[k] # {} => entries[k].value >= required[k]

=============================================================================
