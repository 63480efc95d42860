--------------------------- MODULE SchemaSuiteProofs ---------------------------
(***************************************************************************)
(* The schema tools and ensureTable, for any schemas, any versions of an   *)
(* entity, any number of processes and any faults.  Both are proved with   *)
(* the lists of statements they share: a list that is made of a set has    *)
(* the elements of the set, in whatever order.                             *)
(***************************************************************************)
EXTENDS SchemaSuite, Sequences, FiniteSetTheorems, WellFoundedInduction, TLAPS

-----------------------------------------------------------------------------
(* Lists of statements.                                                    *)

\* What is in a sequence.
Members(s) == {s[i] : i \in DOMAIN s}

\* SetToSeq.
AsList(S) ==
    CHOOSE f \in [1..Cardinality(S) -> S] : \A a, b \in DOMAIN f : f[a] = f[b] => a = b

\* A finite set as a list has the elements of the set.
LEMMA ListMembers ==
  ASSUME NEW S, IsFiniteSet(S)
  PROVE  /\ AsList(S) \in [1..Cardinality(S) -> S] /\ Cardinality(S) \in Nat
         /\ Members(AsList(S)) = S
<1> DEFINE n == Cardinality(S)
           f == AsList(S)
           Once(g) == \A a, b \in DOMAIN g : g[a] = g[b] => a = b
<1>1. n \in Nat /\ \E g \in [1..n -> S] : Once(g)
  <2>1. n \in Nat
    BY FS_CardinalityType
  <2>2. PICK m \in Nat : ExistsBijection(1..m, S)
    BY FS_NatBijection
  <2>3. m = n
    BY <2>2, FS_CountingElements
  <2>4. PICK g : g \in Bijection(1..n, S)
    BY <2>2, <2>3 DEF ExistsBijection
  <2>5. g \in [1..n -> S] /\ Once(g)
    BY <2>4 DEF Bijection, Injection, IsInjective
  <2> QED
    BY <2>1, <2>5
<1>2. f \in [1..n -> S] /\ Once(f)
  <2> HIDE DEF n
  <2>1. f = CHOOSE g \in [1..n -> S] : Once(g)
    BY DEF AsList, n
  <2> HIDE DEF f, Once
  <2> QED
    BY <1>1, <2>1
<1> HIDE DEF f
<1>3. Members(f) \in SUBSET S
  BY <1>2 DEF Members
<1>4. IsFiniteSet(Members(f)) /\ Cardinality(Members(f)) = n
  <2> HIDE DEF n
  <2>1. f \in Bijection(1..n, Members(f))
    BY <1>2 DEF Bijection, Injection, Surjection, IsInjective, Members
  <2>2. ExistsBijection(1..n, Members(f))
    BY <2>1 DEF ExistsBijection
  <2>3. Cardinality(Members(f)) = n
    BY <1>1, <2>2, FS_CountingElements
  <2>4. IsFiniteSet(Members(f))
    BY <1>3, FS_Subset
  <2> QED
    BY <2>3, <2>4
<1>5. Members(f) = S
  BY <1>3, <1>4, FS_Subset
<1> QED
  BY <1>1, <1>2, <1>5 DEF f

\* Whether a list is one of just the elements of S.
ListOf(s, S) == s \in Seq(S) /\ Members(s) = S

\* Whether s is the list of the elements of S, with F applied to each.
MadeBy(s, F, S) ==
    /\ s \in [1..Cardinality(S) -> {F[x] : x \in S}]
    /\ \A i \in 1..Cardinality(S) : s[i] = F[AsList(S)[i]]

Images(F, S) == {F[x] : x \in S}

\* A list made of the elements of a set has what was made of each.
LEMMA MadeMembers ==
  ASSUME NEW S, IsFiniteSet(S), NEW F, NEW s, MadeBy(s, F, S)
  PROVE  ListOf(s, Images(F, S))
<1> DEFINE o == AsList(S)
           k == Cardinality(S)
<1>1. o \in [1..k -> S] /\ k \in Nat /\ Members(o) = S
  BY ListMembers
<1>2. s \in [1..k -> Images(F, S)] /\ \A i \in 1..k : s[i] = F[o[i]]
  BY DEF MadeBy, Images
<1> HIDE DEF o, k
<1>3. ASSUME NEW y \in Members(s)
      PROVE  y \in Images(F, S)
  BY <1>2 DEF Members
<1>4. ASSUME NEW x \in S
      PROVE  F[x] \in Members(s)
  <2>1. PICK i \in 1..k : o[i] = x
    BY <1>1 DEF Members
  <2> QED
    BY <1>2, <2>1 DEF Members
<1>5. Members(s) = Images(F, S)
  BY <1>3, <1>4 DEF Images
<1>6. s \in Seq(Images(F, S))
  BY <1>1, <1>2
<1> QED
  BY <1>5, <1>6 DEF ListOf

\* Two lists one after the other have the elements of both.
LEMMA BothMembers ==
  ASSUME NEW A, NEW B, NEW s \in Seq(A), NEW t \in Seq(B)
  PROVE  s \o t \in Seq(A \cup B) /\ Members(s \o t) = Members(s) \cup Members(t)
<1>1. /\ s \o t \in Seq(A \cup B) /\ Len(s \o t) = Len(s) + Len(t)
      /\ \A i \in 1..(Len(s) + Len(t)) : (s \o t)[i] = IF i <= Len(s) THEN s[i] ELSE t[i - Len(s)]
      /\ Len(s) \in Nat /\ Len(t) \in Nat
  OBVIOUS
<1>2. DOMAIN s = 1..Len(s) /\ DOMAIN t = 1..Len(t) /\ DOMAIN (s \o t) = 1..(Len(s) + Len(t))
  OBVIOUS
<1> DEFINE u == s \o t
<1> HIDE DEF u
<1>3. \A x \in Members(u) : x \in Members(s) \cup Members(t)
  <2> SUFFICES ASSUME NEW i \in 1..(Len(s) + Len(t)) PROVE u[i] \in Members(s) \cup Members(t)
    BY <1>2 DEF Members, u
  <2>1. CASE i <= Len(s)
    BY <1>1, <1>2, <2>1 DEF Members, u
  <2>2. CASE ~(i <= Len(s))
    <3>1. i - Len(s) \in 1..Len(t) /\ u[i] = t[i - Len(s)]
      BY <1>1, <2>2 DEF u
    <3> QED
      BY <1>2, <3>1 DEF Members
  <2> QED
    BY <2>1, <2>2
<1>4. \A x \in Members(s) : x \in Members(u)
  <2> SUFFICES ASSUME NEW i \in 1..Len(s) PROVE s[i] \in Members(u)
    BY <1>2 DEF Members
  <2>1. i \in 1..(Len(s) + Len(t)) /\ u[i] = s[i]
    BY <1>1 DEF u
  <2> QED
    BY <1>2, <2>1 DEF Members, u
<1>5. \A x \in Members(t) : x \in Members(u)
  <2> SUFFICES ASSUME NEW i \in 1..Len(t) PROVE t[i] \in Members(u)
    BY <1>2 DEF Members
  <2>1. i + Len(s) \in 1..(Len(s) + Len(t)) /\ ~(i + Len(s) <= Len(s)) /\ (i + Len(s)) - Len(s) = i
    BY <1>1
  <2>2. u[i + Len(s)] = t[i]
    BY <1>1, <2>1 DEF u
  <2> QED
    BY <1>2, <2>1, <2>2 DEF Members, u
<1> QED
  BY <1>1, <1>3, <1>4, <1>5 DEF u

Joined(s, t) == s \o t

\* Two lists one after the other.
LEMMA JoinMembers ==
  ASSUME NEW A, NEW B, NEW s, NEW t, ListOf(s, A), ListOf(t, B)
  PROVE  ListOf(Joined(s, t), A \cup B)
<1>1. s \in Seq(A) /\ t \in Seq(B) /\ Members(s) = A /\ Members(t) = B
  BY DEF ListOf
<1>2. s \o t \in Seq(A \cup B) /\ Members(s \o t) = Members(s) \cup Members(t)
  <2> HIDE DEF Members
  <2>1. s \in Seq(A) /\ t \in Seq(B)
    BY <1>1
  <2> QED
    BY ONLY <2>1, BothMembers
<1> QED
  BY <1>1, <1>2 DEF ListOf, Joined

\* What is left of a list after its first element.
LEMMA TailMembers ==
  ASSUME NEW S, NEW s \in Seq(S), s # <<>>
  PROVE  /\ Tail(s) \in Seq(S) /\ Head(s) \in Members(s) /\ Head(s) \in S
         /\ Members(Tail(s)) \subseteq Members(s)
         /\ Members(s) \ {Head(s)} \subseteq Members(Tail(s))
<1>1. /\ Tail(s) \in Seq(S) /\ Head(s) \in S /\ Head(s) = s[1] /\ Len(s) \in Nat /\ Len(s) >= 1
      /\ DOMAIN s = 1..Len(s) /\ DOMAIN Tail(s) = 1..(Len(s) - 1)
      /\ \A i \in 1..(Len(s) - 1) : Tail(s)[i] = s[i + 1]
  OBVIOUS
<1> DEFINE r == Tail(s)
           h == Head(s)
<1> HIDE DEF r, h
<1>2. h \in Members(s)
  BY <1>1 DEF Members, h
<1>3. Members(r) \subseteq Members(s)
  BY <1>1 DEF Members, r
<1>4. ASSUME NEW i \in 1..Len(s), s[i] # h
      PROVE  s[i] \in Members(r)
  <2>1. i - 1 \in 1..(Len(s) - 1) /\ r[i - 1] = s[i]
    BY <1>1, <1>4 DEF r, h
  <2> QED
    BY <1>1, <2>1 DEF Members, r
<1>5. Members(s) \ {h} \subseteq Members(r)
  BY <1>1, <1>4 DEF Members
<1> QED
  BY <1>1, <1>2, <1>3, <1>5 DEF r, h

-----------------------------------------------------------------------------
(* SchemaTools: a schema as the facts it states.                           *)

\* What a schema may say: that there is a table, what a column is, that columns
\* are unique together, that a column refers to another table.
Facts == [kind : {"table"}] \cup [kind : {"column"}, name : Tools!Names,
  column : Tools!ColumnTypes]
         \cup [kind : {"unique"}, of : SUBSET Tools!Names] \cup [kind : {"foreign"},
           of : Tools!Names]

Says(schema, f) ==
    /\ schema # NoSchema
    /\ f.kind = "column" => f.name \in DOMAIN schema.columns
         /\ schema.columns[f.name] = f.column
    /\ f.kind = "unique" => f.of \in schema.unique
    /\ f.kind = "foreign" => f.of \in schema.foreign

Stored == Tools!Schemas \cup {NoSchema}

\* A function on some of the names has its columns among the types.
LEMMA SchemaShape ==
  ASSUME NEW s \in Tools!Schemas
  PROVE  /\ s = [columns |-> s.columns, unique |-> s.unique, foreign |-> s.foreign]
         /\ DOMAIN s = {"columns", "unique", "foreign"}
         /\ DOMAIN s.columns \in SUBSET Tools!Names
              /\ s.columns \in [DOMAIN s.columns -> Tools!ColumnTypes]
         /\ s.unique \in SUBSET SUBSET Tools!Names /\ s.foreign \in SUBSET Tools!Names
<1>1. PICK D \in SUBSET Tools!Names : s.columns \in [D -> Tools!ColumnTypes]
  BY DEF Tools!Schemas
<1>2. DOMAIN s.columns = D
  BY <1>1
<1> QED
  BY <1>1, <1>2 DEF Tools!Schemas

\* A record of the three parts is a schema.
LEMMA MakesSchema ==
  ASSUME NEW D \in SUBSET Tools!Names, NEW c \in [D -> Tools!ColumnTypes],
         NEW u \in SUBSET SUBSET Tools!Names, NEW f \in SUBSET Tools!Names
  PROVE  [columns |-> c, unique |-> u, foreign |-> f] \in Tools!Schemas
<1>1. c \in UNION {[E -> Tools!ColumnTypes] : E \in SUBSET Tools!Names}
  OBVIOUS
<1> QED
  BY <1>1 DEF Tools!Schemas

\* Two schemas that say the same are the same.
LEMMA SameSchema ==
  ASSUME Tools!ToolsAssumption, NEW s \in Stored, NEW t \in Stored,
         \A f \in Facts : Says(s, f) <=> Says(t, f)
  PROVE  s = t
<1>1. (s = NoSchema) <=> (t = NoSchema)
  <2>1. [kind |-> "table"] \in Facts
    BY DEF Facts
  <2> QED
    BY <2>1 DEF Says
<1>2. CASE s # NoSchema
  <2>1. s \in Tools!Schemas /\ t \in Tools!Schemas /\ t # NoSchema
    BY <1>1, <1>2 DEF Stored
  <2>2. ASSUME NEW n \in Tools!Names, NEW k \in Tools!ColumnTypes
        PROVE  (n \in DOMAIN s.columns
                 /\ s.columns[n] = k) <=> (n \in DOMAIN t.columns /\ t.columns[n] = k)
    <3>1. [kind |-> "column", name |-> n, column |-> k] \in Facts
      BY DEF Facts
    <3> QED
      BY <1>2, <2>1, <3>1 DEF Says
  <2>3. DOMAIN s.columns = DOMAIN t.columns
    <3>1. \A n \in DOMAIN s.columns : n \in DOMAIN t.columns
      BY <2>1, <2>2, SchemaShape
    <3>2. \A n \in DOMAIN t.columns : n \in DOMAIN s.columns
      BY <2>1, <2>2, SchemaShape
    <3> QED
      BY <3>1, <3>2
  <2>4. s.columns = t.columns
    <3>1. \A n \in DOMAIN s.columns : s.columns[n] = t.columns[n]
      BY <2>1, <2>2, SchemaShape
    <3> QED
      BY <2>1, <2>3, <3>1, SchemaShape
  <2>5. s.unique = t.unique
    <3>1. \A u \in SUBSET Tools!Names : u \in s.unique <=> u \in t.unique
      <4> SUFFICES ASSUME NEW u \in SUBSET Tools!Names
                            PROVE u \in s.unique <=> u \in t.unique
        OBVIOUS
      <4>1. [kind |-> "unique", of |-> u] \in Facts
        BY DEF Facts
      <4> QED
        BY <1>2, <2>1, <4>1 DEF Says
    <3> QED
      BY <2>1, <3>1, SchemaShape
  <2>6. s.foreign = t.foreign
    <3>1. \A n \in Tools!Names : n \in s.foreign <=> n \in t.foreign
      <4> SUFFICES ASSUME NEW n \in Tools!Names PROVE n \in s.foreign <=> n \in t.foreign
        OBVIOUS
      <4>1. [kind |-> "foreign", of |-> n] \in Facts
        BY DEF Facts
      <4> QED
        BY <1>2, <2>1, <4>1 DEF Says
    <3> QED
      BY <2>1, <3>1, SchemaShape
  <2> QED
    BY <2>1, <2>4, <2>5, <2>6, SchemaShape
<1> QED
  BY <1>1, <1>2

-----------------------------------------------------------------------------
(* SchemaTools: what an operation makes of each fact.                      *)

Operations == [type : {"ensure", "drop"}] \cup [type : {"alter"}, change : Configurations]

\* The facts an operation decides, whatever was there,
Touches(op, f) ==
    \/ op.type # "alter"
    \/ /\ op.change.do \in {"addColumn", "alterColumn", "dropColumn"}
       /\ f.kind = "column" /\ f.name = op.change.name
    \/ op.change.do = "dropColumn" /\ f.kind = "unique" /\ op.change.name \in f.of
    \/ op.change.do \in {"addUnique", "dropUnique"} /\ f.kind = "unique"
         /\ f.of = {op.change.name}
    \/ /\ op.change.do \in {"dropColumn", "addForeign", "dropForeign"}
       /\ f.kind = "foreign" /\ f.of = op.change.name

\* and how.
Gives(op, f) ==
    \/ op.type = "ensure" /\ Says(Wanted, f)
    \/ /\ op.type = "alter"
       /\ \/ op.change.do \in {"addColumn", "alterColumn"} /\ f.column = op.change.column
          \/ op.change.do \in {"addUnique", "addForeign"}

\* The fields of a change, by what it does.
LEMMA ChangeFields ==
  ASSUME Tools!ToolsAssumption, NEW c \in Configurations
  PROVE  /\ c.do \in {"addColumn", "alterColumn", "dropColumn", "addUnique", "dropUnique",
                      "addForeign", "dropForeign"}
         /\ c.name \in Tools!Names
         /\ c.do \in {"addColumn", "alterColumn"} => c.column \in Tools!ColumnTypes
  BY DEF Tools!ToolsAssumption, Tools!Configurable

\* The kinds of facts and their fields.
LEMMA FactFields ==
  ASSUME NEW f \in Facts
  PROVE  /\ f.kind \in {"table", "column", "unique", "foreign"}
         /\ f.kind = "column" => f.name \in Tools!Names /\ f.column \in Tools!ColumnTypes
         /\ f.kind = "unique" => f.of \in SUBSET Tools!Names
         /\ f.kind = "foreign" => f.of \in Tools!Names
  BY DEF Facts

\* A column that is put into a schema, or taken out with its constraints.
LEMMA PutColumn ==
  ASSUME NEW s \in Tools!Schemas, NEW n \in Tools!Names, NEW k \in Tools!ColumnTypes
  PROVE  LET c == [m \in DOMAIN s.columns \cup {n} |-> IF m = n THEN k ELSE s.columns[m]]
             t == [s EXCEPT !.columns = c]
         IN  t \in Tools!Schemas /\ t.columns = c /\ t.unique = s.unique
           /\ t.foreign = s.foreign
<1> DEFINE c == [m \in DOMAIN s.columns \cup {n} |-> IF m = n THEN k ELSE s.columns[m]]
<1>1. /\ DOMAIN s = {"columns", "unique", "foreign"}
      /\ s = [columns |-> s.columns, unique |-> s.unique, foreign |-> s.foreign]
      /\ s.unique \in SUBSET SUBSET Tools!Names /\ s.foreign \in SUBSET Tools!Names
  BY SchemaShape
<1>2. c \in [DOMAIN s.columns \cup {n} -> Tools!ColumnTypes]
        /\ DOMAIN s.columns \cup {n} \in SUBSET Tools!Names
  BY SchemaShape
<1> HIDE DEF c
<1>3. [columns |-> c, unique |-> s.unique, foreign |-> s.foreign] \in Tools!Schemas
  BY <1>1, <1>2, MakesSchema
<1>4. [s EXCEPT !.columns = c] = [columns |-> c, unique |-> s.unique, foreign |-> s.foreign]
  BY <1>1
<1> QED
  BY <1>3, <1>4 DEF c

\* DropColumn takes the column, and the unique constraints that name it.
LEMMA TakeColumn ==
  ASSUME NEW s \in Tools!Schemas, NEW n
  PROVE  /\ Tools!DropColumn(s, n) \in Tools!Schemas
         /\ Tools!DropColumn(s, n).columns = [m \in DOMAIN s.columns \ {n} |-> s.columns[m]]
         /\ Tools!DropColumn(s, n).unique = {u \in s.unique : n \notin u}
         /\ Tools!DropColumn(s, n).foreign = s.foreign \ {n}
<1>1. [m \in DOMAIN s.columns \ {n} |-> s.columns[m]] \in [DOMAIN s.columns \ {n} -> Tools!ColumnTypes]
  BY SchemaShape
<1>2. /\ DOMAIN s.columns \ {n} \in SUBSET Tools!Names
      /\ {u \in s.unique : n \notin u} \in SUBSET SUBSET Tools!Names
           /\ s.foreign \ {n} \in SUBSET Tools!Names
  BY SchemaShape
<1> QED
  BY <1>1, <1>2, MakesSchema DEF Tools!DropColumn

\* The constraints of a schema are changed.
LEMMA PutUnique ==
  ASSUME NEW s \in Tools!Schemas, NEW u \in SUBSET SUBSET Tools!Names
  PROVE  LET t == [s EXCEPT !.unique = u] IN
         t \in Tools!Schemas /\ t.columns = s.columns /\ t.unique = u
           /\ t.foreign = s.foreign
<1>1. [s EXCEPT !.unique = u] = [columns |-> s.columns, unique |-> u, foreign |-> s.foreign]
  BY SchemaShape
<1> QED
  BY <1>1, SchemaShape, MakesSchema

\* A schema with other foreign keys is a schema.
LEMMA PutForeign ==
  ASSUME NEW s \in Tools!Schemas, NEW g \in SUBSET Tools!Names
  PROVE  LET t == [s EXCEPT !.foreign = g] IN
         t \in Tools!Schemas /\ t.columns = s.columns /\ t.unique = s.unique
           /\ t.foreign = g
<1>1. [s EXCEPT !.foreign = g] = [columns |-> s.columns, unique |-> s.unique, foreign |-> g]
  BY SchemaShape
<1> QED
  BY <1>1, SchemaShape, MakesSchema

\* What a schema says after a configuration of alter.
LEMMA ConfiguredSays ==
  ASSUME Tools!ToolsAssumption, NEW s \in Tools!Schemas, NEW c \in Configurations,
         NEW f \in Facts
  PROVE  /\ Tools!Configured(s, c) \in Tools!Schemas
         /\ Says(Tools!Configured(s, c), f) <=>
              LET op == [type |-> "alter", change |-> c] IN
              IF Touches(op, f) THEN Gives(op, f) ELSE Says(s, f)
<1> DEFINE op == [type |-> "alter", change |-> c]
<1>1. op.type = "alter" /\ op.change = c
  OBVIOUS
<1>2. s # NoSchema /\ NoSchema \notin Tools!Schemas
  BY DEF Tools!ToolsAssumption
<1>3. Touches(op, f) <=>
        \/ /\ c.do \in {"addColumn", "alterColumn", "dropColumn"}
           /\ f.kind = "column" /\ f.name = c.name
        \/ c.do = "dropColumn" /\ f.kind = "unique" /\ c.name \in f.of
        \/ c.do \in {"addUnique", "dropUnique"} /\ f.kind = "unique" /\ f.of = {c.name}
        \/ /\ c.do \in {"dropColumn", "addForeign", "dropForeign"}
           /\ f.kind = "foreign" /\ f.of = c.name
  BY <1>1 DEF Touches
<1>4. Gives(op, f) <=>
        \/ c.do \in {"addColumn", "alterColumn"} /\ f.column = c.column
        \/ c.do \in {"addUnique", "addForeign"}
  BY <1>1 DEF Gives
<1> HIDE DEF op
<1>5. CASE c.do \in {"addColumn", "alterColumn"}
  <2> DEFINE t == Tools!Configured(s, c)
  <2>1. t = [s EXCEPT !.columns = [m \in DOMAIN s.columns \cup {c.name} |->
                                      IF m = c.name THEN c.column ELSE s.columns[m]]]
    BY <1>5 DEF Tools!Configured, Tools!Column
  <2> HIDE DEF t
  <2>2. /\ t \in Tools!Schemas
        /\ t.columns = [m \in DOMAIN s.columns \cup {c.name} |->
                           IF m = c.name THEN c.column ELSE s.columns[m]]
        /\ t.unique = s.unique /\ t.foreign = s.foreign
    <3> DEFINE n == c.name
               k == c.column
    <3>1. n \in Tools!Names /\ k \in Tools!ColumnTypes
      BY <1>5, ChangeFields
    <3> HIDE DEF n, k
    <3>2. LET d == [m \in DOMAIN s.columns \cup {n} |-> IF m = n THEN k ELSE s.columns[m]]
              r == [s EXCEPT !.columns = d]
          IN  r \in Tools!Schemas /\ r.columns = d /\ r.unique = s.unique
            /\ r.foreign = s.foreign
      BY <3>1, PutColumn
    <3> QED
      BY <2>1, <3>2 DEF n, k
  <2>3. Says(t, f) <=> IF f.kind = "column"
          /\ f.name = c.name THEN f.column = c.column ELSE Says(s, f)
    BY <1>2, <2>2, FactFields DEF Says
  <2> QED
    BY <1>3, <1>4, <1>5, <2>2, <2>3 DEF op, t
<1>6. CASE c.do = "dropColumn"
  <2> DEFINE t == Tools!Configured(s, c)
  <2>1. t = Tools!DropColumn(s, c.name)
    BY <1>6 DEF Tools!Configured
  <2>2. /\ t \in Tools!Schemas
        /\ t.columns = [m \in DOMAIN s.columns \ {c.name} |-> s.columns[m]]
        /\ t.unique = {u \in s.unique : c.name \notin u}
        /\ t.foreign = s.foreign \ {c.name}
    BY <2>1, TakeColumn
  <2> HIDE DEF t
  <2>3. Says(t, f) <=> IF \/ f.kind = "column" /\ f.name = c.name
                          \/ f.kind = "unique" /\ c.name \in f.of
                          \/ f.kind = "foreign" /\ f.of = c.name
                       THEN FALSE ELSE Says(s, f)
    BY <1>2, <2>2, FactFields DEF Says
  <2> QED
    BY <1>3, <1>4, <1>6, <2>2, <2>3 DEF op, t
<1>7. CASE c.do \in {"addUnique", "dropUnique"}
  <2> DEFINE t == Tools!Configured(s, c)
             u == IF c.do = "addUnique" THEN s.unique \cup {{c.name}} ELSE s.unique \ {{c.name}}
  <2>1. t = [s EXCEPT !.unique = u]
    BY <1>7 DEF Tools!Configured
  <2>2. u \in SUBSET SUBSET Tools!Names
    BY SchemaShape, ChangeFields
  <2> HIDE DEF t, u
  <2>0. s \in Tools!Schemas
    OBVIOUS
  <2>3. t \in Tools!Schemas /\ t.columns = s.columns /\ t.unique = u
          /\ t.foreign = s.foreign
    BY ONLY <2>0, <2>1, <2>2, PutUnique
  <2>4. Says(t, f) <=> IF f.kind = "unique"
          /\ f.of = {c.name} THEN c.do = "addUnique" ELSE Says(s, f)
    BY <1>2, <1>7, <2>3, FactFields DEF Says, u
  <2> QED
    BY <1>3, <1>4, <1>7, <2>3, <2>4 DEF op, t
<1>8. CASE c.do \in {"addForeign", "dropForeign"}
  <2> DEFINE t == Tools!Configured(s, c)
             g == IF c.do = "addForeign" THEN s.foreign \cup {c.name} ELSE s.foreign \ {c.name}
  <2>1. t = [s EXCEPT !.foreign = g]
    BY <1>8 DEF Tools!Configured
  <2>2. g \in SUBSET Tools!Names
    BY SchemaShape, ChangeFields
  <2> HIDE DEF t, g
  <2>0. s \in Tools!Schemas
    OBVIOUS
  <2>3. t \in Tools!Schemas /\ t.columns = s.columns /\ t.unique = s.unique /\ t.foreign = g
    BY ONLY <2>0, <2>1, <2>2, PutForeign
  <2>4. Says(t, f) <=> IF f.kind = "foreign"
          /\ f.of = c.name THEN c.do = "addForeign" ELSE Says(s, f)
    BY <1>2, <1>8, <2>3, FactFields DEF Says, g
  <2> QED
    BY <1>3, <1>4, <1>8, <2>3, <2>4 DEF op, t
<1> QED
  BY <1>5, <1>6, <1>7, <1>8, ChangeFields

\* An operation settles the facts it touches and leaves the others.
LEMMA AfterSays ==
  ASSUME Tools!ToolsAssumption, NEW op \in Operations, NEW s \in Stored, NEW f \in Facts,
         op.type = "alter" => s # NoSchema
  PROVE  /\ Tools!After(op, s) \in Stored
         /\ Says(Tools!After(op, s), f) <=> IF Touches(op, f) THEN Gives(op,
              f) ELSE Says(s, f)
<1>1. Wanted \in Tools!Schemas
  BY DEF Tools!ToolsAssumption, Tools!Given
<1>2. CASE op.type \in {"ensure", "drop"}
  BY <1>1, <1>2 DEF Tools!After, Stored, Touches, Gives, Says
<1>3. CASE op.type = "alter"
  <2>1. op.change \in Configurations /\ op = [type |-> "alter", change |-> op.change]
    BY <1>3 DEF Operations
  <2>2. s \in Tools!Schemas /\ Tools!After(op, s) = Tools!Configured(s, op.change)
    BY <1>3 DEF Stored, Tools!After
  <2>3. /\ Tools!Configured(s, op.change) \in Tools!Schemas
        /\ Says(Tools!Configured(s, op.change), f) <=> IF Touches(op, f) THEN Gives(op,
             f) ELSE Says(s, f)
    BY <2>1, <2>2, ConfiguredSays
  <2> QED
    BY <2>2, <2>3 DEF Stored
<1> QED
  BY <1>2, <1>3 DEF Operations

-----------------------------------------------------------------------------
(* SchemaTools: the queue of a builder, executed and executed again.       *)

\* Of the first k operations of q, the i-th is the last one to touch f.
LastOf(q, k, i, f) ==
    i \in 1..k /\ Touches(q[i], f) /\ \A j \in (i + 1)..k : ~Touches(q[j], f)

\* What the first k operations of q touch is in s as the last of them has it.
Settled(q, k, s, f) == \A i \in 1..k : LastOf(q, k, i, f) => (Says(s, f) <=> Gives(q[i], f))

Spared(q, f) == \A i \in 1..Len(q) : ~Touches(q[i], f)

\* What is known of the table although an operation may have done less or more
\* than it was asked: that it is there.
Certain == {f \in Facts : blind => f.kind = "table"}

\* The queue has an alteration of a table that will not be there: no execute
\* gets past it.
Barred == \E j \in 1..Len(queue) :
              /\ queue[j].type = "alter" /\ position <= j
              /\ IF j = 1 THEN stored = NoSchema ELSE queue[j - 1].type = "drop"

Through == IF position > 0 THEN position - 1 ELSE 0

ToolTypes ==
    /\ stored \in Stored /\ expected \in Stored /\ blind \in BOOLEAN
    /\ known \in Stored /\ (known # NoSchema => stored # NoSchema)
    /\ server \in {"local", "postgres", "mysql"}
    /\ queue \in Seq(Operations) /\ Len(queue) <= MaxQueue /\ position \in 0..Len(queue)
    /\ plan # Tools!NoPlan => queue = <<>>
    /\ plan.at = "none" <=> plan = Tools!NoPlan
    /\ toolFaults \in 0..MaxToolFaults

QueueKept ==
    /\ position > 1 /\ queue[position - 1].type = "drop" => stored = NoSchema
    /\ ~Barred =>
         /\ \A f \in Facts : Settled(queue, Len(queue), expected, f)
         /\ \A f \in Certain :
              /\ Settled(queue, Through, stored, f)
              /\ Spared(queue, f) => (Says(stored, f) <=> Says(expected, f))

\* Of the operations that touch a fact there is a last one.
LEMMA LastTouch ==
  ASSUME NEW q, NEW k \in Nat, NEW f
  PROVE  (\A i \in 1..k : ~Touches(q[i], f)) \/ \E i \in 1..k : LastOf(q, k, i, f)
<1> SUFFICES ASSUME NEW e \in 1..k, Touches(q[e], f)
             PROVE  \E i \in 1..k : LastOf(q, k, i, f)
  OBVIOUS
<1> DEFINE S == {i \in 1..k : Touches(q[i], f)}
           W == {k - i : i \in S}
<1>1. W \subseteq Nat /\ k - e \in W
  OBVIOUS
<1>2. PICK w \in W : \A x \in W : ~(<<x, w>> \in OpToRel(<, Nat))
  BY <1>1, NatLessThanWellFounded, WFMin, Zenon
<1>3. PICK i \in S : w = k - i
  OBVIOUS
<1>4. ASSUME NEW j \in (i + 1)..k
      PROVE  ~Touches(q[j], f)
  <2> SUFFICES ASSUME Touches(q[j], f) PROVE FALSE
    OBVIOUS
  <2>1. j \in S /\ k - j \in W /\ k - j \in Nat /\ w \in Nat /\ k - j < w
    BY <1>1, <1>3
  <2>2. <<k - j, w>> \in OpToRel(<, Nat)
    BY <2>1, Zenon DEF OpToRel
  <2> QED
    BY <1>2, <2>1, <2>2
<1> QED
  BY <1>3, <1>4 DEF LastOf

TableFact == [kind |-> "table"]

\* That there is a table is a fact every operation but alter settles.
LEMMA TableFactSays ==
  ASSUME NEW s \in Stored
  PROVE  /\ TableFact \in Facts /\ TableFact \in Certain
         /\ Says(s, TableFact) <=> s # NoSchema
         /\ \A op \in Operations : Touches(op, TableFact) <=> op.type # "alter"
         /\ \A op \in Operations : op.type = "drop" => ~Gives(op, TableFact)
<1>1. TableFact \in Facts /\ TableFact.kind = "table"
  BY DEF TableFact, Facts
<1> QED
  BY <1>1 DEF Certain, Says, Touches, Gives

\* ensure leaves a table.
LEMMA EnsureGives ==
  ASSUME Tools!ToolsAssumption, NEW op \in Operations, op.type = "ensure"
  PROVE  Gives(op, TableFact)
<1>1. Wanted \in Stored /\ Wanted # NoSchema
  BY DEF Tools!ToolsAssumption, Tools!Given, Stored
<1> QED
  BY <1>1, TableFactSays DEF Gives

\* What the queue keeps, where it is empty and the history starts over.
LEMMA StartsOver ==
  ASSUME ToolTypes', queue' = <<>>, expected' = stored'
  PROVE  QueueKept'
<1>1. position' = 0
  BY DEF ToolTypes
<1>2. \A f : Settled(queue', Len(queue'), expected', f) /\ Settled(queue', 0, stored', f)
  BY DEF Settled
<1>3. Through' = 0
  BY <1>1 DEF Through
<1>4. \A f : Settled(queue, Len(queue), expected, f)' /\ Settled(queue, Through, stored, f)'
  BY <1>2, <1>3
<1> QED
  BY <1>1, <1>4 DEF QueueKept

\* What getSchema returns is a schema, and there is one exactly if there is a table.
LEMMA KnownSchema ==
  ASSUME Tools!ToolsAssumption, ToolTypes
  PROVE  Tools!GetSchema \in Stored /\ (Tools!GetSchema = NoSchema <=> stored = NoSchema)
<1>1. CASE known # NoSchema
  BY <1>1 DEF Tools!GetSchema, ToolTypes
<1>2. CASE known = NoSchema /\ (stored = NoSchema \/ server = "local")
  BY <1>2 DEF Tools!GetSchema, ToolTypes
<1>3. CASE known = NoSchema /\ ~(stored = NoSchema \/ server = "local")
  <2>1. stored \in Tools!Schemas
    BY <1>3 DEF ToolTypes, Stored
  <2>2. stored = [columns |-> stored.columns, unique |-> stored.unique,
          foreign |-> stored.foreign]
    BY <2>1, SchemaShape
  <2>3. Tools!GetSchema = [stored EXCEPT !.unique = {}, !.foreign = {}]
    BY <1>3 DEF Tools!GetSchema
  <2>4. Tools!GetSchema = [columns |-> stored.columns, unique |-> {}, foreign |-> {}]
    BY <2>2, <2>3
  <2>5. Tools!GetSchema \in Tools!Schemas
    BY <2>1, <2>4, SchemaShape, MakesSchema
  <2>6. NoSchema \notin Tools!Schemas
    BY DEF Tools!ToolsAssumption
  <2> QED
    BY <1>3, <2>5, <2>6 DEF Stored
<1> QED
  BY <1>1, <1>2, <1>3

\* What ensureTable leaves of a schema it is given is a schema.
LEMMA EnsuredType ==
  ASSUME Tools!ToolsAssumption, ToolTypes, NEW s \in Tools!Schemas
  PROVE  Tools!Ensured(s) \in Tools!Schemas
<1>1. CASE ~(server = "mysql" /\ stored # NoSchema)
  BY <1>1 DEF Tools!Ensured
<1>2. CASE server = "mysql" /\ stored # NoSchema
  <2> DEFINE D == DOMAIN stored.columns \cup DOMAIN s.columns
             c == [n \in D |-> IF n \in DOMAIN stored.columns THEN stored.columns[n]
                               ELSE s.columns[n]]
  <2>1. stored \in Tools!Schemas
    BY <1>2 DEF ToolTypes, Stored
  <2>2. /\ stored = [columns |-> stored.columns, unique |-> stored.unique,
                     foreign |-> stored.foreign]
        /\ DOMAIN stored.columns \in SUBSET Tools!Names
        /\ stored.columns \in [DOMAIN stored.columns -> Tools!ColumnTypes]
        /\ stored.unique \in SUBSET SUBSET Tools!Names /\ stored.foreign \in SUBSET Tools!Names
    BY <2>1, SchemaShape
  <2>3. /\ DOMAIN s.columns \in SUBSET Tools!Names
        /\ s.columns \in [DOMAIN s.columns -> Tools!ColumnTypes]
    BY SchemaShape
  <2>4. D \in SUBSET Tools!Names /\ c \in [D -> Tools!ColumnTypes]
    BY <2>2, <2>3
  <2>5. Tools!Ensured(s) = [stored EXCEPT !.columns = c]
    BY <1>2 DEF Tools!Ensured, Tools!WithColumnsOf
  <2> HIDE DEF c, D
  <2>6. Tools!Ensured(s) = [columns |-> c, unique |-> stored.unique, foreign |-> stored.foreign]
    BY <2>2, <2>5
  <2> QED
    BY <2>2, <2>4, <2>6, MakesSchema
<1> QED
  BY <1>1, <1>2

\* A queue with an alteration of a table it does not leave, or does not find, is barred.
LEMMA AlterOfNothing ==
  ASSUME Tools!ToolsAssumption, ToolTypes, QueueKept, ~Barred, position = 0,
           expected = NoSchema
  PROVE  IF queue = <<>> THEN stored = NoSchema ELSE queue[Len(queue)].type = "drop"
<1> DEFINE n == Len(queue)
<1>1. /\ n \in Nat /\ \A i \in 1..n : queue[i] \in Operations
      /\ queue = <<>> <=> n = 0
  BY DEF ToolTypes
<1>2. /\ \A i \in 1..n : Touches(queue[i], TableFact) <=> queue[i].type # "alter"
      /\ \A i \in 1..n : queue[i].type \in {"ensure", "drop", "alter"}
  BY <1>1, TableFactSays DEF ToolTypes, Operations
<1>3. CASE \A i \in 1..n : ~Touches(queue[i], TableFact)
  <2>1. Spared(queue, TableFact)
    BY <1>3 DEF Spared
  <2>2. stored = NoSchema
    BY <2>1, TableFactSays DEF QueueKept, ToolTypes
  <2>3. n = 0
    <3> SUFFICES ASSUME n # 0 PROVE FALSE
      OBVIOUS
    <3>1. 1 \in 1..n /\ queue[1].type = "alter"
      BY <1>1, <1>2, <1>3
    <3> QED
      BY <2>2, <3>1 DEF Barred
  <2> QED
    BY <1>1, <2>2, <2>3
<1>4. ASSUME NEW i \in 1..n, LastOf(queue, n, i, TableFact)
      PROVE  n # 0 /\ queue[n].type = "drop"
  <2>1. Settled(queue, n, expected, TableFact)
    BY TableFactSays DEF QueueKept, ToolTypes
  <2>2. ~Says(expected, TableFact)
    BY TableFactSays DEF ToolTypes
  <2>3. ~Gives(queue[i], TableFact)
    BY <1>4, <2>1, <2>2 DEF Settled
  <2>4. queue[i].type = "drop"
    BY <1>1, <1>2, <1>4, <2>3, EnsureGives DEF LastOf
  <2>5. i = n
    <3> SUFFICES ASSUME i # n PROVE FALSE
      OBVIOUS
    <3>1. i + 1 \in 1..n /\ i + 1 \in (i + 1)..n /\ i + 1 # 1 /\ (i + 1) - 1 = i
      BY <1>1
    <3>2. queue[i + 1].type = "alter"
      BY <1>2, <1>4, <3>1 DEF LastOf
    <3>3. position <= i + 1
      BY <1>1
    <3> QED
      BY <2>4, <3>1, <3>2, <3>3 DEF Barred
  <2> QED
    BY <1>1, <2>4, <2>5
<1> QED
  BY <1>1, <1>3, <1>4, LastTouch

\* createTable, dropTable and alterTable: one more operation.
LEMMA QueueKeeps ==
  ASSUME Tools!ToolsAssumption, ToolTypes, QueueKept, NEW op \in Operations, Tools!Queue(op)
  PROVE  ToolTypes' /\ QueueKept'
<1> DEFINE n == Len(queue)
<1>1. /\ position = 0 /\ n < MaxQueue /\ plan = Tools!NoPlan /\ queue' = Append(queue, op)
      /\ expected' = Tools!After(op, expected)
      /\ UNCHANGED <<stored, server, known, plan, position, blind, toolFaults>>
  BY DEF Tools!Queue
<1>2. /\ n \in Nat /\ Len(queue') = n + 1 /\ queue' \in Seq(Operations)
      /\ \A i \in 1..n : queue'[i] = queue[i]
      /\ queue'[n + 1] = op
  BY <1>1 DEF ToolTypes
<1>3. expected' \in Stored
  <2>1. CASE op.type = "alter" /\ expected = NoSchema
    BY <1>1, <2>1 DEF Tools!After, Stored
  <2>2. CASE ~(op.type = "alter" /\ expected = NoSchema)
    BY <1>1, <2>2, AfterSays, TableFactSays DEF ToolTypes
  <2> QED
    BY <2>1, <2>2
<1>4. ToolTypes'
  BY <1>1, <1>2, <1>3 DEF ToolTypes, Tools!ToolsAssumption
<1>5. CASE Barred
  <2>1. PICK j \in 1..n : /\ queue[j].type = "alter" /\ position <= j
                          /\ IF j = 1 THEN stored = NoSchema ELSE queue[j - 1].type = "drop"
    BY <1>5 DEF Barred
  <2>2. /\ j \in 1..Len(queue') /\ queue'[j] = queue[j]
        /\ j # 1 => j - 1 \in 1..n /\ queue'[j - 1] = queue[j - 1]
    BY <1>2, <2>1
  <2>3. Barred'
    BY <1>1, <2>1, <2>2 DEF Barred
  <2> QED
    BY <1>1, <1>4, <2>3 DEF QueueKept
<1>6. CASE ~Barred /\ op.type = "alter" /\ expected = NoSchema
  <2>1. IF n = 0 THEN stored = NoSchema ELSE queue[n].type = "drop"
    <3>1. queue = <<>> <=> n = 0
      BY DEF ToolTypes
    <3> QED
      BY <1>1, <1>6, <3>1, AlterOfNothing
  <2>2. /\ n + 1 \in 1..Len(queue') /\ position' <= n + 1 /\ queue'[n + 1].type = "alter"
        /\ IF n + 1 = 1 THEN stored' = NoSchema ELSE queue'[(n + 1) - 1].type = "drop"
    BY <1>1, <1>2, <1>6, <2>1
  <2>3. Barred'
    BY <2>2 DEF Barred
  <2> QED
    BY <1>1, <1>4, <2>3 DEF QueueKept
<1>7. CASE ~Barred /\ (op.type = "alter" => expected # NoSchema)
  <2>1. \A f \in Facts : Says(expected', f) <=> IF Touches(op, f) THEN Gives(op,
          f) ELSE Says(expected, f)
    BY <1>1, <1>7, AfterSays DEF ToolTypes
  <2>2. ASSUME NEW f \in Facts
        PROVE  Settled(queue', n + 1, expected', f)
    <3> SUFFICES ASSUME NEW i \in 1..(n + 1), LastOf(queue', n + 1, i, f)
                 PROVE  Says(expected', f) <=> Gives(queue'[i], f)
      BY DEF Settled
    <3>1. CASE i = n + 1
      BY <1>2, <2>1, <3>1 DEF LastOf
    <3>2. CASE i # n + 1
      <4>1. i \in 1..n /\ n + 1 \in (i + 1)..(n + 1)
        BY <1>2, <3>2
      <4>2. ~Touches(op, f)
        BY <1>2, <4>1 DEF LastOf
      <4>3. LastOf(queue, n, i, f)
        <5>1. \A j \in (i + 1)..n : j \in (i + 1)..(n + 1) /\ queue'[j] = queue[j]
          BY <1>2, <4>1
        <5> QED
          BY <1>2, <4>1, <5>1 DEF LastOf
      <4>4. Settled(queue, n, expected, f)
        BY <1>7 DEF QueueKept
      <4> QED
        BY <1>2, <2>1, <4>1, <4>2, <4>3, <4>4 DEF Settled
    <3> QED
      BY <3>1, <3>2
  <2>3. Certain' = Certain
    BY <1>1 DEF Certain
  <2>4. ASSUME NEW f \in Certain
        PROVE  /\ Settled(queue', 0, stored', f)
               /\ Spared(queue', f) => (Says(stored', f) <=> Says(expected', f))
    <3>1. Settled(queue', 0, stored', f)
      BY DEF Settled
    <3>2. ASSUME Spared(queue', f)
          PROVE  Says(stored', f) <=> Says(expected', f)
      <4>1. ~Touches(op, f) /\ Spared(queue, f)
        BY <1>2, <3>2 DEF Spared
      <4>2. f \in Facts
        BY DEF Certain
      <4> QED
        BY <1>1, <1>7, <2>1, <4>1, <4>2 DEF QueueKept
    <3> QED
      BY <3>1, <3>2
  <2>5. Through' = 0 /\ Len(queue') = n + 1
    BY <1>1, <1>2 DEF Through
  <2>6. /\ \A f \in Facts : Settled(queue, Len(queue), expected, f)'
        /\ \A f \in Certain' : /\ Settled(queue, Through, stored, f)'
                               /\ (Spared(queue, f) =>
                                    (Says(stored, f) <=> Says(expected, f)))'
    BY <2>2, <2>3, <2>4, <2>5
  <2> QED
    BY <1>1, <1>4, <2>6 DEF QueueKept
<1> QED
  BY <1>5, <1>6, <1>7

\* execute starts at the first operation.
LEMMA ExecuteKeeps ==
  ASSUME Tools!ToolsAssumption, ToolTypes, QueueKept, Tools!Execute
  PROVE  ToolTypes' /\ QueueKept'
<1>1. /\ position = 0 /\ position' = 1 /\ queue # <<>> /\ plan = Tools!NoPlan
      /\ UNCHANGED <<stored, server, known, plan, queue, expected, blind, toolFaults>>
  BY DEF Tools!Execute
<1>2. ToolTypes'
  <2>1. 1 \in 0..Len(queue)
    BY <1>1 DEF ToolTypes
  <2> QED
    BY <1>1, <2>1 DEF ToolTypes
<1>3. Through = 0 /\ Through' = 0 /\ Certain' = Certain
  BY <1>1 DEF Through, Certain
<1>4. Barred => Barred'
  <2> SUFFICES ASSUME NEW j \in 1..Len(queue),
                      queue[j].type = "alter", position <= j,
                      IF j = 1 THEN stored = NoSchema ELSE queue[j - 1].type = "drop"
               PROVE  Barred'
    BY DEF Barred
  <2>1. position' <= j /\ j \in 1..Len(queue') /\ queue' = queue /\ stored' = stored
    BY <1>1
  <2> QED
    BY <2>1 DEF Barred
<1>5. /\ \A f : Settled(queue, Len(queue), expected, f)' <=> Settled(queue, Len(queue),
           expected, f)
      /\ \A f : Settled(queue, Through, stored, f)' <=> Settled(queue, Through, stored, f)
  BY <1>1, <1>3
<1>6. QueueKept'
  BY <1>1, <1>3, <1>4, <1>5 DEF QueueKept
<1> QED
  BY <1>2, <1>6

\* A queue that was not executed to its end is executed from its beginning.
LEMMA ExecuteFailsKeeps ==
  ASSUME Tools!ToolsAssumption, ToolTypes, QueueKept, Tools!ExecuteFails
  PROVE  ToolTypes' /\ QueueKept'
<1>1. /\ position > 0 /\ position' = 0 /\ toolFaults' \in 0..MaxToolFaults
      /\ UNCHANGED <<stored, server, plan, queue, expected, blind>>
      /\ known' \in {known, Tools!GetSchema}
  BY DEF Tools!ExecuteFails, ToolTypes, Tools!ToolsAssumption
<1>2. ToolTypes'
  BY <1>1, KnownSchema DEF ToolTypes
<1>3. Through' = 0 /\ Certain' = Certain
  BY <1>1 DEF Through, Certain
<1>4. Barred => Barred'
  <2> SUFFICES ASSUME NEW j \in 1..Len(queue),
                      queue[j].type = "alter", position <= j,
                      IF j = 1 THEN stored = NoSchema ELSE queue[j - 1].type = "drop"
               PROVE  Barred'
    BY DEF Barred
  <2>1. position' <= j /\ j \in 1..Len(queue') /\ queue' = queue /\ stored' = stored
    BY <1>1
  <2> QED
    BY <2>1 DEF Barred
<1>5. /\ \A f : Settled(queue, Len(queue), expected, f)' <=> Settled(queue, Len(queue),
           expected, f)
      /\ \A f : Settled(queue, 0, stored, f)
  BY <1>1 DEF Settled
<1>6. \A f : Settled(queue, Through, stored, f)'
  BY <1>1, <1>3, <1>5
<1>7. QueueKept'
  BY <1>1, <1>3, <1>4, <1>5, <1>6 DEF QueueKept
<1> QED
  BY <1>2, <1>7

\* What an operation leaves of the table, and what it was to leave.
LEMMA ExecutedTypes ==
  ASSUME Tools!ToolsAssumption, ToolTypes, Tools!ExecuteOne
  PROVE  LET op == queue[position]
             goal == Tools!After(op, Tools!GetSchema)
         IN  /\ op \in Operations /\ goal \in Stored
             /\ op.type = "alter" => Tools!GetSchema # NoSchema
             /\ stored' \in Stored /\ known' \in Stored /\ server' = server
             /\ op.type = "drop" => stored' = NoSchema /\ known' = NoSchema
             /\ op.type # "drop" => stored' # NoSchema /\ goal # NoSchema
             /\ blind' = (\/ op.type = "alter" /\ (blind \/ Tools!GetSchema # stored)
                          \/ stored' # goal)
<1> DEFINE op == queue[position]
           goal == Tools!After(op, Tools!GetSchema)
<1>1. op \in Operations
  BY DEF Tools!ExecuteOne, ToolTypes
<1>2. /\ ~Tools!CannotAlter(op)
      /\ op.type = "drop" => stored' = NoSchema /\ known' = NoSchema /\ server' = server
      /\ op.type # "drop" => stored' = Tools!Ensured(goal) /\ known' = goal /\ server' = server
      /\ blind' = (\/ op.type = "alter" /\ (blind \/ Tools!GetSchema # stored)
                   \/ stored' # goal)
  BY DEF Tools!ExecuteOne, Tools!Ensure
<1> HIDE DEF op
<1>3. op.type = "alter" => Tools!GetSchema # NoSchema
  BY <1>2 DEF Tools!CannotAlter
<1>4. Tools!GetSchema \in Stored
  BY KnownSchema
<1>5. goal \in Stored /\ (op.type # "drop" => goal # NoSchema)
  <2>1. /\ goal \in Stored
        /\ Says(goal, TableFact) <=> IF Touches(op, TableFact) THEN Gives(op, TableFact)
                                    ELSE Says(Tools!GetSchema, TableFact)
    BY <1>1, <1>3, <1>4, AfterSays, TableFactSays
  <2>2. op.type = "ensure" => Gives(op, TableFact)
    BY <1>1, EnsureGives
  <2>3. op.type \in {"ensure", "drop", "alter"}
    BY <1>1 DEF Operations
  <2>4. Touches(op, TableFact) <=> op.type # "alter"
    BY <1>1, <1>4, TableFactSays
  <2>5. Says(Tools!GetSchema, TableFact) <=> Tools!GetSchema # NoSchema
    BY <1>4, TableFactSays
  <2>6. Says(goal, TableFact) <=> goal # NoSchema
    BY <2>1, TableFactSays
  <2> HIDE DEF goal
  <2> QED
    BY <1>3, <2>1, <2>2, <2>3, <2>4, <2>5, <2>6
<1> HIDE DEF goal
<1>6. op.type # "drop" => stored' \in Tools!Schemas
  BY <1>2, <1>5, EnsuredType DEF Stored
<1>7. NoSchema \in Stored /\ NoSchema \notin Tools!Schemas /\ Tools!Schemas \subseteq Stored
  BY DEF Stored, Tools!ToolsAssumption
<1> QED
  BY <1>1, <1>2, <1>3, <1>5, <1>6, <1>7 DEF op, goal

\* What an operation that is executed makes of what is known of the table.
LEMMA ExecutedSays ==
  ASSUME Tools!ToolsAssumption, ToolTypes, Tools!ExecuteOne, NEW f \in Certain'
  PROVE  /\ ~Touches(queue[position], f) => f \in Certain
         /\ Says(stored', f) <=> IF Touches(queue[position],
              f) THEN Gives(queue[position], f)
                                 ELSE Says(stored, f)
<1> DEFINE op == queue[position]
           goal == Tools!After(op, Tools!GetSchema)
<1>1. /\ op \in Operations /\ goal \in Stored
      /\ op.type = "alter" => Tools!GetSchema # NoSchema
      /\ stored' \in Stored /\ (op.type = "drop" => stored' = NoSchema)
      /\ op.type # "drop" => stored' # NoSchema /\ goal # NoSchema
      /\ blind' = (\/ op.type = "alter" /\ (blind \/ Tools!GetSchema # stored)
                   \/ stored' # goal)
  BY ExecutedTypes
<1>2. f \in Facts /\ (blind' => f.kind = "table")
  BY DEF Certain
<1>3. Tools!GetSchema \in Stored
        /\ (Tools!GetSchema = NoSchema <=> stored = NoSchema) /\ stored \in Stored
  BY KnownSchema DEF ToolTypes
<1>4. Says(goal, f) <=> IF Touches(op, f) THEN Gives(op, f) ELSE Says(Tools!GetSchema, f)
  BY <1>1, <1>2, <1>3, AfterSays
<1>5. op.type # "alter" => Touches(op, f)
  BY DEF Touches
<1>6. op.type = "drop" => goal = NoSchema
  BY DEF Tools!After
<1> HIDE DEF op, goal
<1>7. CASE blind'
  <2>0. f.kind = "table"
    BY <1>2, <1>7
  <2>1. f.kind = "table" /\ \A s \in Stored : Says(s, f) <=> s # NoSchema
    <3>1. f.kind # "column" /\ f.kind # "unique" /\ f.kind # "foreign"
      BY <2>0
    <3> QED
      BY ONLY <2>0, <3>1 DEF Says
  <2>2. Says(stored', f) <=> Says(goal, f)
    BY <1>1, <1>6, <2>1
  <2>3. Says(Tools!GetSchema, f) <=> Says(stored, f)
    BY <1>3, <2>1
  <2>4. f \in Certain
    BY <1>2, <2>1 DEF Certain
  <2> QED
    BY <1>4, <2>2, <2>3, <2>4 DEF op
<1>8. CASE ~blind'
  <2>1. stored' = goal /\ (op.type = "alter" => ~blind /\ Tools!GetSchema = stored)
    BY <1>1, <1>8
  <2> QED
    BY <1>2, <1>4, <1>5, <2>1 DEF Certain, op
<1> QED
  BY <1>7, <1>8

\* An operation is executed: what those up to it touch is settled in the table.
LEMMA ExecutedSettles ==
  ASSUME Tools!ToolsAssumption, ToolTypes, QueueKept, ~Barred, Tools!ExecuteOne,
         NEW f \in Certain'
  PROVE  Settled(queue, position, stored', f)
<1> DEFINE p == position
<1>1. p \in 1..Len(queue) /\ p - 1 \in Nat /\ p \in Nat
  BY DEF Tools!ExecuteOne, ToolTypes
<1>2. Through = p - 1
  BY <1>1 DEF Through
<1> SUFFICES ASSUME NEW i \in 1..p, LastOf(queue, p, i, f)
             PROVE  Says(stored', f) <=> Gives(queue[i], f)
  BY DEF Settled
<1>3. CASE i = p
  BY <1>3, ExecutedSays DEF LastOf
<1>4. CASE i # p
  <2>1. i \in 1..(p - 1) /\ p \in (i + 1)..p
    BY <1>1, <1>4
  <2>2. ~Touches(queue[p], f)
    BY <2>1 DEF LastOf
  <2>3. LastOf(queue, p - 1, i, f)
    <3>1. \A j \in (i + 1)..(p - 1) : j \in (i + 1)..p
      BY <1>1
    <3> QED
      BY <2>1, <3>1 DEF LastOf
  <2>4. f \in Certain /\ (Says(stored', f) <=> Says(stored, f))
    BY <2>2, ExecutedSays
  <2>5. Settled(queue, p - 1, stored, f)
    BY <1>2, <2>4 DEF QueueKept
  <2> QED
    BY <2>1, <2>3, <2>4, <2>5 DEF Settled
<1> QED
  BY <1>3, <1>4

\* executeOne keeps the queue and what it is to lead to.
LEMMA ExecuteOneKeeps ==
  ASSUME Tools!ToolsAssumption, ToolTypes, QueueKept, Tools!ExecuteOne
  PROVE  ToolTypes' /\ QueueKept'
<1> DEFINE p == position
           op == queue[p]
           n == Len(queue)
<1>1. /\ p \in 1..n /\ n \in Nat /\ op \in Operations /\ ~Tools!CannotAlter(op)
      /\ UNCHANGED <<plan, expected, toolFaults>>
      /\ op.type = "drop" => stored' = NoSchema
      /\ stored' \in Stored /\ known' \in Stored /\ (known' # NoSchema => stored' # NoSchema)
      /\ server' = server /\ blind' \in BOOLEAN
  <2>1. p \in 1..n /\ n \in Nat /\ op \in Operations
    BY DEF Tools!ExecuteOne, ToolTypes
  <2>2. ~Tools!CannotAlter(op) /\ UNCHANGED <<plan, expected, toolFaults>>
    BY DEF Tools!ExecuteOne
  <2>3. /\ stored' \in Stored /\ known' \in Stored /\ server' = server
        /\ op.type = "drop" => stored' = NoSchema /\ known' = NoSchema
        /\ op.type # "drop" => stored' # NoSchema
    BY ExecutedTypes
  <2>4. blind' \in BOOLEAN
    BY DEF Tools!ExecuteOne
  <2> QED
    BY <2>1, <2>2, <2>3, <2>4
<1>2. IF p = n THEN position' = 0 /\ queue' = <<>> ELSE position' = p + 1 /\ queue' = queue
  BY DEF Tools!ExecuteOne, Tools!Done
<1>3. stored' \in Stored
  BY <1>1
<1>4. ToolTypes'
  <2>1. queue' \in Seq(Operations) /\ Len(queue') <= MaxQueue
          /\ position' \in 0..Len(queue')
    <3>1. CASE p = n
      <4>1. queue' = <<>> /\ position' = 0
        BY <1>2, <3>1
      <4>2. <<>> \in Seq(Operations) /\ Len(<<>>) = 0
        OBVIOUS
      <4> QED
        BY <4>1, <4>2 DEF ToolTypes, Tools!ToolsAssumption
    <3>2. CASE p # n
      BY <1>1, <1>2, <3>2 DEF ToolTypes
    <3> QED
      BY <3>1, <3>2
  <2>2. plan' # Tools!NoPlan => queue' = <<>>
    BY <1>1, <1>2 DEF ToolTypes
  <2> QED
    BY <1>1, <1>3, <2>1, <2>2 DEF ToolTypes
<1>5. CASE Barred
  <2>1. PICK j \in 1..n : /\ queue[j].type = "alter" /\ p <= j
                          /\ IF j = 1 THEN stored = NoSchema ELSE queue[j - 1].type = "drop"
    BY <1>5 DEF Barred
  <2>2. p # j
    <3> SUFFICES ASSUME p = j PROVE FALSE
      OBVIOUS
    <3>1. stored = NoSchema
      BY <1>1, <2>1 DEF QueueKept
    <3>2. Tools!GetSchema = NoSchema /\ op.type = "alter"
      BY <2>1, <3>1, KnownSchema
    <3> QED
      BY <1>1, <3>2 DEF Tools!CannotAlter
  <2>3. p # n /\ position' = p + 1 /\ queue' = queue /\ p + 1 <= j /\ j # 1
    BY <1>1, <1>2, <2>1, <2>2
  <2>4. Barred'
    BY <2>1, <2>3 DEF Barred
  <2>5. queue[p].type = "drop" => stored' = NoSchema
    BY <1>1
  <2>6. (p + 1) - 1 = p
    BY <1>1
  <2> QED
    BY <1>4, <2>3, <2>4, <2>5, <2>6 DEF QueueKept
<1>6. CASE ~Barred /\ p # n
  <2>1. position' = p + 1 /\ queue' = queue /\ Through' = p
    BY <1>1, <1>2, <1>6 DEF Through
  <2>2. ASSUME NEW f \in Certain'
        PROVE  /\ Settled(queue, p, stored', f)
               /\ Spared(queue, f) => (Says(stored', f) <=> Says(expected, f))
    <3>1. Settled(queue, p, stored', f)
      BY <1>6, ExecutedSettles
    <3>2. Spared(queue, f) => ~Touches(queue[p], f)
      BY <1>1 DEF Spared
    <3> QED
      BY <1>6, <3>1, <3>2, ExecutedSays DEF QueueKept
  <2>3. \A f \in Facts : Settled(queue, n, expected, f)
    BY <1>6 DEF QueueKept
  <2>4. /\ \A f \in Facts : Settled(queue, Len(queue), expected, f)'
        /\ \A f \in Certain' : /\ Settled(queue, Through, stored, f)'
                               /\ (Spared(queue, f) =>
                                    (Says(stored, f) <=> Says(expected, f)))'
    BY <1>1, <2>1, <2>2, <2>3
  <2>5. (position > 1 /\ queue[position - 1].type = "drop" => stored = NoSchema)'
    <3>1. (p + 1) - 1 = p
      BY <1>1
    <3> QED
      BY <1>1, <2>1, <3>1
  <2> QED
    BY <1>4, <2>4, <2>5 DEF QueueKept
<1>7. CASE ~Barred /\ p = n
  <2>1. position' = 0 /\ queue' = <<>> /\ Through' = 0
    BY <1>2, <1>7 DEF Through
  <2>2. ASSUME NEW f \in Certain'
        PROVE  Says(stored', f) <=> Says(expected, f)
    <3>0. f \in Facts
      BY DEF Certain
    <3>1. CASE \A i \in 1..n : ~Touches(queue[i], f)
      <4>1. Spared(queue, f) /\ ~Touches(queue[p], f)
        BY <1>1, <3>1 DEF Spared
      <4> QED
        BY <1>7, <4>1, ExecutedSays DEF QueueKept
    <3>2. ASSUME NEW i \in 1..n, LastOf(queue, n, i, f)
          PROVE  Says(stored', f) <=> Says(expected, f)
      <4>1. Settled(queue, n, stored', f)
        BY <1>7, ExecutedSettles
      <4>2. Settled(queue, n, expected, f)
        BY <1>7, <3>0 DEF QueueKept
      <4> QED
        BY <3>2, <4>1, <4>2 DEF Settled
    <3> QED
      BY <1>1, <3>1, <3>2, LastTouch
  <2>3. \A s, f : Settled(<<>>, 0, s, f)
    BY DEF Settled
  <2>4. /\ \A f \in Facts : Settled(queue, Len(queue), expected, f)'
        /\ \A f \in Certain' : /\ Settled(queue, Through, stored, f)'
                               /\ (Spared(queue, f) =>
                                    (Says(stored, f) <=> Says(expected, f)))'
    <3>1. Len(<<>>) = 0
      OBVIOUS
    <3> QED
      BY <1>1, <2>1, <2>2, <2>3, <3>1
  <2> QED
    BY <1>4, <2>1, <2>4 DEF QueueKept
<1> QED
  BY <1>5, <1>6, <1>7

-----------------------------------------------------------------------------
(* SchemaTools: the script of a plan.                                      *)

St(do, of) == [do |-> do, of |-> of]

CreateTable == St("create", "table")

\* The statements that bring a table nearer to the entity.
Repairs ==
    [do : {"create"}, of : {"table"}]
    \cup [do : {"add", "alter"}, of : DOMAIN Wanted.columns]
    \cup [do : {"drop"}, of : Tools!Names \ DOMAIN Wanted.columns]
    \cup [do : {"add unique"}, of : Wanted.unique]
    \cup [do : {"drop unique"}, of : (SUBSET Tools!Names) \ Wanted.unique]
    \cup [do : {"add foreign"}, of : Wanted.foreign]
    \cup [do : {"drop foreign"}, of : Tools!Names \ Wanted.foreign]

\* After st the table has f as the entity has it.
Mends(st, f) ==
    \/ st.do = "create"
    \/ st.do \in {"add", "alter", "drop"} /\ f.kind = "column" /\ f.name = st.of
    \/ st.do = "drop" /\ f.kind = "unique" /\ st.of \in f.of
    \/ st.do = "drop" /\ f.kind = "foreign" /\ f.of = st.of
    \/ st.do \in {"add unique", "drop unique"} /\ f.kind = "unique" /\ f.of = st.of
    \/ st.do \in {"add foreign", "drop foreign"} /\ f.kind = "foreign" /\ f.of = st.of

\* The schema of the entity, part by part.
LEMMA EntityShape ==
  ASSUME Tools!ToolsAssumption
  PROVE  /\ Wanted \in Tools!Schemas /\ Wanted # NoSchema /\ NoSchema \notin Tools!Schemas
         /\ DOMAIN Wanted.columns \in SUBSET Tools!Names
         /\ Wanted.columns \in [DOMAIN Wanted.columns -> Tools!ColumnTypes]
         /\ Wanted.unique \in SUBSET SUBSET Tools!Names
              /\ Wanted.foreign \in SUBSET Tools!Names
         /\ \A u \in Wanted.unique : u \subseteq DOMAIN Wanted.columns
         /\ Wanted.foreign \subseteq DOMAIN Wanted.columns
<1>1. Wanted \in Tools!Schemas /\ Wanted # NoSchema /\ NoSchema \notin Tools!Schemas
  BY DEF Tools!ToolsAssumption, Tools!Given
<1>2. (UNION Wanted.unique) \cup Wanted.foreign \subseteq DOMAIN Wanted.columns
  BY DEF Tools!ToolsAssumption
<1> QED
  BY <1>1, <1>2, SchemaShape

\* The statements a plan may have, field by field.
LEMMA RepairFields ==
  ASSUME Tools!ToolsAssumption, NEW st \in Repairs
  PROVE  /\ st.do \in {"create", "add", "alter", "drop", "add unique", "drop unique",
                       "add foreign", "drop foreign"}
         /\ st.do \in {"add", "alter"} => st.of \in DOMAIN Wanted.columns
              /\ st.of \in Tools!Names
         /\ st.do = "drop" => st.of \in Tools!Names /\ st.of \notin DOMAIN Wanted.columns
         /\ st.do = "add unique" => st.of \in Wanted.unique
         /\ st.do = "drop unique" => st.of \notin Wanted.unique
         /\ st.do = "add foreign" => st.of \in Wanted.foreign
         /\ st.do = "drop foreign" => st.of \notin Wanted.foreign
         /\ st.do = "create" => st = CreateTable
<1>1. /\ st.do \in {"create", "add", "alter", "drop", "add unique", "drop unique",
                   "add foreign", "drop foreign"}
      /\ st.do \in {"add", "alter"} => st.of \in DOMAIN Wanted.columns
      /\ st.do = "drop" => st.of \in Tools!Names /\ st.of \notin DOMAIN Wanted.columns
      /\ st.do = "create" => st = CreateTable
  BY DEF Repairs, CreateTable, St
<1>2. /\ st.do = "add unique" => st.of \in Wanted.unique
      /\ st.do = "drop unique" => st.of \notin Wanted.unique
      /\ st.do = "add foreign" => st.of \in Wanted.foreign
      /\ st.do = "drop foreign" => st.of \notin Wanted.foreign
  BY DEF Repairs
<1>3. DOMAIN Wanted.columns \subseteq Tools!Names
  BY EntityShape
<1> QED
  BY <1>1, <1>2, <1>3

\* A statement on a table that is there.
LEMMA AlterSays ==
  ASSUME Tools!ToolsAssumption, NEW s \in Tools!Schemas,
         NEW st \in Repairs, st.do # "create", NEW f \in Facts
  PROVE  /\ Tools!Run(s, st) \in Tools!Schemas
         /\ Says(Tools!Run(s, st), f) <=> IF Mends(st, f) THEN Says(Wanted,
              f) ELSE Says(s, f)
<1>1. s # NoSchema /\ Wanted # NoSchema /\ NoSchema \notin Tools!Schemas
  BY EntityShape
<1>2. s.unique \in SUBSET SUBSET Tools!Names /\ s.foreign \in SUBSET Tools!Names
  BY SchemaShape
<1> DEFINE t == Tools!Run(s, st)
<1>3. CASE st.do \in {"add", "alter"}
  <2> DEFINE n == st.of
             k == Wanted.columns[n]
  <2>1. n \in Tools!Names /\ k \in Tools!ColumnTypes /\ n \in DOMAIN Wanted.columns
    BY <1>3, RepairFields, EntityShape
  <2>2. t = [s EXCEPT !.columns = [m \in DOMAIN s.columns \cup {n} |->
                                      IF m = n THEN k ELSE s.columns[m]]]
    BY <1>1, <1>3 DEF Tools!Run
  <2> HIDE DEF t, n, k
  <2>3. LET d == [m \in DOMAIN s.columns \cup {n} |-> IF m = n THEN k ELSE s.columns[m]]
            r == [s EXCEPT !.columns = d]
        IN  r \in Tools!Schemas /\ r.columns = d /\ r.unique = s.unique
          /\ r.foreign = s.foreign
    BY <2>1, PutColumn
  <2>4. /\ t \in Tools!Schemas /\ t.unique = s.unique /\ t.foreign = s.foreign
        /\ t.columns = [m \in DOMAIN s.columns \cup {n} |-> IF m = n THEN k ELSE s.columns[m]]
    BY <2>2, <2>3
  <2>5. Says(t, f) <=> IF f.kind = "column" /\ f.name = n THEN f.column = k ELSE Says(s, f)
    BY <1>1, <2>4, FactFields DEF Says
  <2>6. f.kind = "column" /\ f.name = n => (Says(Wanted, f) <=> k = f.column)
    BY <1>1, <2>1 DEF Says, k
  <2>7. Mends(st, f) <=> f.kind = "column" /\ f.name = n
    BY <1>3 DEF Mends, n
  <2> QED
    BY <2>4, <2>5, <2>6, <2>7 DEF t
<1>4. CASE st.do = "drop"
  <2> DEFINE n == st.of
  <2>1. n \in Tools!Names /\ n \notin DOMAIN Wanted.columns
    BY <1>4, RepairFields
  <2>2. t = Tools!DropColumn(s, n)
    BY <1>1, <1>4 DEF Tools!Run
  <2> HIDE DEF t
  <2>3. /\ t \in Tools!Schemas
        /\ t.columns = [m \in DOMAIN s.columns \ {n} |-> s.columns[m]]
        /\ t.unique = {u \in s.unique : n \notin u}
        /\ t.foreign = s.foreign \ {n}
    BY <2>2, TakeColumn
  <2>4. Mends(st, f) <=> \/ f.kind = "column" /\ f.name = n
                         \/ f.kind = "unique" /\ n \in f.of
                         \/ f.kind = "foreign" /\ f.of = n
    BY <1>4 DEF Mends
  <2> HIDE DEF n
  <2>5. Says(t, f) <=> ~Mends(st, f) /\ Says(s, f)
    BY <1>1, <2>3, <2>4, FactFields DEF Says
  <2>6. Mends(st, f) => ~Says(Wanted, f)
    BY <2>1, <2>4, EntityShape DEF Says
  <2> QED
    BY <2>3, <2>5, <2>6 DEF t
<1>5. CASE st.do \in {"add unique", "drop unique"}
  <2> DEFINE u == IF st.do = "add unique" THEN s.unique \cup {st.of} ELSE s.unique \ {st.of}
  <2>1. t = [s EXCEPT !.unique = u]
    BY <1>1, <1>5 DEF Tools!Run
  <2>2. u \in SUBSET SUBSET Tools!Names
    <3>1. st.do = "add unique" => st.of \in SUBSET Tools!Names
      BY RepairFields, EntityShape
    <3> QED
      BY <1>2, <1>5, <3>1
  <2> HIDE DEF u, t
  <2>3. t \in Tools!Schemas /\ t.columns = s.columns /\ t.unique = u
          /\ t.foreign = s.foreign
    BY <2>1, <2>2, PutUnique
  <2>4. Says(t, f) <=> IF f.kind = "unique"
          /\ f.of = st.of THEN st.do = "add unique" ELSE Says(s, f)
    BY <1>1, <1>5, <2>3, FactFields DEF Says, u
  <2>5. Mends(st, f) <=> f.kind = "unique" /\ f.of = st.of
    BY <1>5 DEF Mends
  <2>6. Mends(st, f) => (Says(Wanted, f) <=> st.do = "add unique")
    BY <1>1, <1>5, <2>5, RepairFields DEF Says
  <2> QED
    BY <2>3, <2>4, <2>5, <2>6 DEF t
<1>6. CASE st.do \in {"add foreign", "drop foreign"}
  <2> DEFINE g == IF st.do = "add foreign" THEN s.foreign \cup {st.of} ELSE s.foreign \ {st.of}
  <2>1. t = [s EXCEPT !.foreign = g]
    BY <1>1, <1>6 DEF Tools!Run
  <2>2. g \in SUBSET Tools!Names
    <3>1. st.do = "add foreign" => st.of \in Tools!Names
      BY RepairFields, EntityShape
    <3> QED
      BY <1>2, <1>6, <3>1
  <2> HIDE DEF g, t
  <2>3. t \in Tools!Schemas /\ t.columns = s.columns /\ t.unique = s.unique /\ t.foreign = g
    BY <2>1, <2>2, PutForeign
  <2>4. Says(t, f) <=> IF f.kind = "foreign"
          /\ f.of = st.of THEN st.do = "add foreign" ELSE Says(s, f)
    BY <1>1, <1>6, <2>3, FactFields DEF Says, g
  <2>5. Mends(st, f) <=> f.kind = "foreign" /\ f.of = st.of
    BY <1>6 DEF Mends
  <2>6. Mends(st, f) => (Says(Wanted, f) <=> st.do = "add foreign")
    BY <1>1, <1>6, <2>5, RepairFields DEF Says
  <2> QED
    BY <2>3, <2>4, <2>5, <2>6 DEF t
<1> QED
  BY <1>3, <1>4, <1>5, <1>6, RepairFields

\* A statement leaves a schema or no table, whatever it finds.
LEMMA RunType ==
  ASSUME Tools!ToolsAssumption, NEW s \in Stored, NEW st \in Repairs
  PROVE  Tools!Run(s, st) \in Stored
<1>1. CASE s = NoSchema
  BY <1>1, EntityShape DEF Tools!Run, Stored
<1>2. CASE s # NoSchema /\ st.do = "create"
  BY <1>2 DEF Tools!Run
<1>3. CASE s # NoSchema /\ st.do # "create"
  BY <1>3, AlterSays, TableFactSays DEF Stored
<1> QED
  BY <1>1, <1>2, <1>3

\* What is in the script for an update, in the order of buildUpdateStatements.
Updates(d) ==
    UNION {{St("add", x) : x \in d.add}, {St("drop", x) : x \in d.drop},
           {St("alter", x) : x \in d.alter},
           {St("add unique", x) : x \in d.addUnique}, {St("drop unique",
             x) : x \in d.dropUnique},
           {St("add foreign", x) : x \in d.addForeign},
           {St("drop foreign", x) : x \in d.dropForeign}}

\* The statements of one kind are those of the set.
LEMMA StatementsMembers ==
  ASSUME NEW do, NEW S, IsFiniteSet(S)
  PROVE  LET P == {St(do, x) : x \in S} IN
         ListOf(Tools!Statements(do, S), P)
<1> DEFINE F == [x \in S |-> St(do, x)]
           s == Tools!Statements(do, S)
           o == AsList(S)
           P == {St(do, x) : x \in S}
<1>1. Tools!SetToSeq(S) = o
  BY DEF Tools!SetToSeq, AsList, Tools!IsInjective, Tools!Cardinality, Cardinality,
         Tools!IsFiniteSet, IsFiniteSet
<1>2. o \in [1..Cardinality(S) -> S]
  BY ListMembers
<1> HIDE DEF o
<1>3. s = [i \in DOMAIN o |-> [do |-> do, of |-> o[i]]]
  BY <1>1 DEF Tools!Statements
<1> HIDE DEF s
<1>4. MadeBy(s, F, S)
  BY <1>2, <1>3 DEF St, MadeBy, o
<1>5. Images(F, S) = P
  BY DEF Images
<1> HIDE DEF P, F
<1>6. ListOf(s, Images(F, S))
  BY <1>4, MadeMembers
<1> QED
  BY <1>5, <1>6 DEF s, P

\* The script of an update has the statements Updates names.
LEMMA UpdateMembers ==
  ASSUME NEW d, \A x \in {"add", "drop", "alter", "addUnique", "dropUnique", "addForeign",
                          "dropForeign"} : IsFiniteSet(d[x])
  PROVE  ListOf(Tools!UpdateStatements(d), Updates(d))
<1> DEFINE P(do, S) == {St(do, x) : x \in S}
           s1 == Tools!Statements("add", d.add)
           s2 == Tools!Statements("drop", d.drop)
           s3 == Tools!Statements("alter", d.alter)
           s4 == Tools!Statements("add unique", d.addUnique)
           s5 == Tools!Statements("drop unique", d.dropUnique)
           s6 == Tools!Statements("add foreign", d.addForeign)
           s7 == Tools!Statements("drop foreign", d.dropForeign)
           p1 == P("add", d.add)
           p2 == P("drop", d.drop)
           p3 == P("alter", d.alter)
           p4 == P("add unique", d.addUnique)
           p5 == P("drop unique", d.dropUnique)
           p6 == P("add foreign", d.addForeign)
           p7 == P("drop foreign", d.dropForeign)
<1>1. /\ ListOf(s1, p1)
      /\ ListOf(s2, p2)
      /\ ListOf(s3, p3)
      /\ ListOf(s4, p4)
      /\ ListOf(s5, p5)
      /\ ListOf(s6, p6)
      /\ ListOf(s7, p7)
  BY StatementsMembers
<1>2. Tools!UpdateStatements(d) = s1 \o s2 \o s3 \o s4 \o s5 \o s6 \o s7
  BY DEF Tools!UpdateStatements
<1>3. Updates(d) = p1 \cup p2 \cup p3 \cup p4 \cup p5 \cup p6 \cup p7
  BY DEF Updates
<1> DEFINE q2 == p1 \cup p2
           q3 == q2 \cup p3
           q4 == q3 \cup p4
           q5 == q4 \cup p5
           q6 == q5 \cup p6
           q7 == q6 \cup p7
           t2 == Joined(s1, s2)
           t3 == Joined(t2, s3)
           t4 == Joined(t3, s4)
           t5 == Joined(t4, s5)
           t6 == Joined(t5, s6)
           t7 == Joined(t6, s7)
<1>4. Updates(d) = q7 /\ Tools!UpdateStatements(d) = t7
  BY <1>2, <1>3 DEF Joined
<1> HIDE DEF s1, s2, s3, s4, s5, s6, s7, p1, p2, p3, p4, p5, p6, p7,
             q2, q3, q4, q5, q6, q7, t2, t3, t4, t5, t6, t7
<1>5. ListOf(t2, q2)
  BY <1>1, JoinMembers DEF t2, q2
<1>6. ListOf(t3, q3)
  BY <1>1, <1>5, JoinMembers DEF t3, q3
<1>7. ListOf(t4, q4)
  BY <1>1, <1>6, JoinMembers DEF t4, q4
<1>8. ListOf(t5, q5)
  BY <1>1, <1>7, JoinMembers DEF t5, q5
<1>9. ListOf(t6, q6)
  BY <1>1, <1>8, JoinMembers DEF t6, q6
<1>10. ListOf(t7, q7)
  BY <1>1, <1>9, JoinMembers DEF t7, q7
<1> QED
  BY <1>4, <1>10

\* The differences between a table and the entity are finitely many, and each
\* statement for one brings the table nearer.
LEMMA DetailsMend ==
  ASSUME Tools!ToolsAssumption, NEW s \in Tools!Schemas
  PROVE  LET d == Tools!DiffSchemas(s, Wanted) IN
         /\ \A x \in {"add", "drop", "alter", "addUnique", "dropUnique", "addForeign",
                      "dropForeign"} : IsFiniteSet(d[x])
         /\ Updates(d) \subseteq Repairs /\ \A st \in Updates(d) : st.do # "create"
         /\ \A f \in Facts : (Says(s, f) <=> Says(Wanted, f))
              \/ \E st \in Updates(d) : Mends(st, f)
         /\ d = Tools!NoDetails => Updates(d) = {}
<1> DEFINE d == Tools!DiffSchemas(s, Wanted)
<1>0. s # NoSchema /\ Wanted # NoSchema
  BY EntityShape
<1>1. /\ d.add = DOMAIN Wanted.columns \ DOMAIN s.columns
      /\ d.drop = DOMAIN s.columns \ DOMAIN Wanted.columns
      /\ d.alter = {n \in DOMAIN Wanted.columns \cap DOMAIN s.columns :
                      s.columns[n] # Wanted.columns[n]}
      /\ d.addUnique = Wanted.unique \ s.unique /\ d.dropUnique = s.unique \ Wanted.unique
      /\ d.addForeign = Wanted.foreign \ s.foreign
           /\ d.dropForeign = s.foreign \ Wanted.foreign
  BY DEF Tools!DiffSchemas
<1> HIDE DEF d
<1>2. /\ IsFiniteSet(Tools!Names) /\ IsFiniteSet(SUBSET Tools!Names)
      /\ d.add \subseteq Tools!Names /\ d.drop \subseteq Tools!Names
           /\ d.alter \subseteq Tools!Names
      /\ d.addUnique \subseteq SUBSET Tools!Names
           /\ d.dropUnique \subseteq SUBSET Tools!Names
      /\ d.addForeign \subseteq Tools!Names /\ d.dropForeign \subseteq Tools!Names
  <2>1. IsFiniteSet(Tools!Names)
    BY DEF Tools!ToolsAssumption, Tools!IsFiniteSet, IsFiniteSet
  <2>2. IsFiniteSet(SUBSET Tools!Names)
    BY <2>1, FS_SUBSET
  <2>3. /\ DOMAIN s.columns \subseteq Tools!Names
             /\ DOMAIN Wanted.columns \subseteq Tools!Names
        /\ s.unique \subseteq SUBSET Tools!Names
             /\ Wanted.unique \subseteq SUBSET Tools!Names
        /\ s.foreign \subseteq Tools!Names /\ Wanted.foreign \subseteq Tools!Names
    BY SchemaShape, EntityShape
  <2> QED
    BY <1>1, <2>1, <2>2, <2>3
<1>3. \A x \in {"add", "drop", "alter", "addUnique", "dropUnique", "addForeign",
                "dropForeign"} : IsFiniteSet(d[x])
  <2>1. /\ IsFiniteSet(d.add) /\ IsFiniteSet(d.drop) /\ IsFiniteSet(d.alter)
        /\ IsFiniteSet(d.addUnique) /\ IsFiniteSet(d.dropUnique)
        /\ IsFiniteSet(d.addForeign) /\ IsFiniteSet(d.dropForeign)
    BY <1>2, FS_Subset
  <2> QED
    BY <2>1
<1>4. ASSUME NEW st \in Updates(d)
      PROVE  st \in Repairs /\ st.do # "create"
  <2>1. ASSUME NEW x \in d.add, st = St("add", x)
       PROVE  st \in Repairs /\ st.do # "create"
    <3>1. st \in [do : {"add", "alter"}, of : DOMAIN Wanted.columns]
      BY <1>1, <1>2, <2>1 DEF St
    <3>2. st \in Repairs
      BY <3>1 DEF Repairs
    <3> QED
      BY <3>2, <2>1 DEF St
  <2>2. ASSUME NEW x \in d.alter, st = St("alter", x)
       PROVE  st \in Repairs /\ st.do # "create"
    <3>1. st \in [do : {"add", "alter"}, of : DOMAIN Wanted.columns]
      BY <1>1, <1>2, <2>2 DEF St
    <3>2. st \in Repairs
      BY <3>1 DEF Repairs
    <3> QED
      BY <3>2, <2>2 DEF St
  <2>3. ASSUME NEW x \in d.drop, st = St("drop", x)
       PROVE  st \in Repairs /\ st.do # "create"
    <3>1. st \in [do : {"drop"}, of : Tools!Names \ DOMAIN Wanted.columns]
      BY <1>1, <1>2, <2>3 DEF St
    <3>2. st \in Repairs
      BY <3>1 DEF Repairs
    <3> QED
      BY <3>2, <2>3 DEF St
  <2>4. ASSUME NEW x \in d.addUnique, st = St("add unique", x)
       PROVE  st \in Repairs /\ st.do # "create"
    <3>1. st \in [do : {"add unique"}, of : Wanted.unique]
      BY <1>1, <1>2, <2>4 DEF St
    <3>2. st \in Repairs
      BY <3>1 DEF Repairs
    <3> QED
      BY <3>2, <2>4 DEF St
  <2>5. ASSUME NEW x \in d.dropUnique, st = St("drop unique", x)
       PROVE  st \in Repairs /\ st.do # "create"
    <3>1. st \in [do : {"drop unique"}, of : (SUBSET Tools!Names) \ Wanted.unique]
      BY <1>1, <1>2, <2>5 DEF St
    <3>2. st \in Repairs
      BY <3>1 DEF Repairs
    <3> QED
      BY <3>2, <2>5 DEF St
  <2>6. ASSUME NEW x \in d.addForeign, st = St("add foreign", x)
       PROVE  st \in Repairs /\ st.do # "create"
    <3>1. st \in [do : {"add foreign"}, of : Wanted.foreign]
      BY <1>1, <1>2, <2>6 DEF St
    <3>2. st \in Repairs
      BY <3>1 DEF Repairs
    <3> QED
      BY <3>2, <2>6 DEF St
  <2>7. ASSUME NEW x \in d.dropForeign, st = St("drop foreign", x)
       PROVE  st \in Repairs /\ st.do # "create"
    <3>1. st \in [do : {"drop foreign"}, of : Tools!Names \ Wanted.foreign]
      BY <1>1, <1>2, <2>7 DEF St
    <3>2. st \in Repairs
      BY <3>1 DEF Repairs
    <3> QED
      BY <3>2, <2>7 DEF St
  <2> QED
    BY <2>1, <2>2, <2>3, <2>4, <2>5, <2>6, <2>7 DEF Updates
<1>5. ASSUME NEW f \in Facts, ~(Says(s, f) <=> Says(Wanted, f))
      PROVE  \E st \in Updates(d) : Mends(st, f)
  <2>1. CASE f.kind = "table"
    BY <1>0, <1>5, <2>1 DEF Says
  <2>2. CASE f.kind = "column"
    <3>1. f.name \in d.add \/ f.name \in d.drop \/ f.name \in d.alter
      BY <1>0, <1>1, <1>5, <2>2 DEF Says
    <3>2. \A do \in {"add", "drop", "alter"} : Mends(St(do, f.name), f)
      BY <2>2 DEF Mends, St
    <3>3. \/ St("add", f.name) \in Updates(d) \/ St("drop", f.name) \in Updates(d)
          \/ St("alter", f.name) \in Updates(d)
      BY <3>1 DEF Updates
    <3> QED
      BY <3>2, <3>3
  <2>3. CASE f.kind = "unique"
    <3>1. f.of \in d.addUnique \/ f.of \in d.dropUnique
      BY <1>0, <1>1, <1>5, <2>3 DEF Says
    <3>2. \A do \in {"add unique", "drop unique"} : Mends(St(do, f.of), f)
      BY <2>3 DEF Mends, St
    <3>3. St("add unique", f.of) \in Updates(d) \/ St("drop unique", f.of) \in Updates(d)
      BY <3>1 DEF Updates
    <3> QED
      BY <3>2, <3>3
  <2>4. CASE f.kind = "foreign"
    <3>1. f.of \in d.addForeign \/ f.of \in d.dropForeign
      BY <1>0, <1>1, <1>5, <2>4 DEF Says
    <3>2. \A do \in {"add foreign", "drop foreign"} : Mends(St(do, f.of), f)
      BY <2>4 DEF Mends, St
    <3>3. St("add foreign", f.of) \in Updates(d) \/ St("drop foreign", f.of) \in Updates(d)
      BY <3>1 DEF Updates
    <3> QED
      BY <3>2, <3>3
  <2> QED
    BY <2>1, <2>2, <2>3, <2>4, FactFields
<1>6. ASSUME d = Tools!NoDetails
      PROVE  Updates(d) = {}
  <2>1. /\ d.add = {} /\ d.drop = {} /\ d.alter = {} /\ d.addUnique = {}
             /\ d.dropUnique = {}
        /\ d.addForeign = {} /\ d.dropForeign = {}
    BY <1>6 DEF Tools!NoDetails
  <2> QED
    BY <2>1 DEF Updates
<1> QED
  BY <1>3, <1>4, <1>5, <1>6 DEF d


\* What is in the script of a plan, for a table as getSchema has it.
LEMMA ScriptOf ==
  ASSUME Tools!ToolsAssumption, NEW s \in Stored
  PROVE  LET d == Tools!Diff(s)
             script == Tools!GenerateStatements(d)
         IN  /\ d.type \in {"none", "create-table", "update-table"}
             /\ script \in Seq(Repairs)
             /\ \A f \in Facts : (Says(s, f) <=> Says(Wanted, f))
                                 \/ \E st \in Members(script) : Mends(st, f)
             /\ s = NoSchema => script = <<CreateTable>>
             /\ s # NoSchema => \A st \in Members(script) : st.do # "create"
<1> DEFINE d == Tools!Diff(s)
           script == Tools!GenerateStatements(d)
           e == Tools!DiffSchemas(s, Wanted)
<1>1. CASE s = NoSchema
  <2>1. d = [type |-> "create-table", details |-> Tools!NoDetails]
    BY <1>1 DEF Tools!Diff
  <2>2. script = Tools!Statements("create", {"table"})
    BY <2>1 DEF Tools!GenerateStatements
  <2> HIDE DEF d, script
  <2>3. IsFiniteSet({"table"}) /\ Cardinality({"table"}) = 1
    BY FS_Singleton
  <2>4. AsList({"table"}) \in [1..1 -> {"table"}]
    BY <2>3, ListMembers
  <2>5. Tools!SetToSeq({"table"}) = AsList({"table"})
    BY DEF Tools!SetToSeq, AsList, Tools!IsInjective, Tools!Cardinality, Cardinality,
           Tools!IsFiniteSet, IsFiniteSet
  <2>6. script = [i \in 1..1 |-> CreateTable]
    BY <2>2, <2>4, <2>5 DEF Tools!Statements, CreateTable, St
  <2>7. script = <<CreateTable>>
    BY <2>6
  <2>8. CreateTable \in Repairs /\ CreateTable \in Members(script)
    <3>1. CreateTable \in [do : {"create"}, of : {"table"}]
      BY DEF CreateTable, St
    <3>2. 1 \in DOMAIN script /\ script[1] = CreateTable
      BY <2>6
    <3> QED
      BY <3>1, <3>2 DEF Repairs, Members
  <2>9. \A f \in Facts : Mends(CreateTable, f)
    BY DEF Mends, CreateTable, St
  <2>10. d.type = "create-table"
    BY <2>1
  <2> QED
    BY <1>1, <2>7, <2>8, <2>9, <2>10 DEF d, script
<1>2. CASE s # NoSchema
  <2>1. s \in Tools!Schemas
    BY <1>2 DEF Stored
  <2>2. /\ ListOf(Tools!UpdateStatements(e), Updates(e))
        /\ Updates(e) \subseteq Repairs /\ \A st \in Updates(e) : st.do # "create"
        /\ \A f \in Facts : (Says(s, f) <=> Says(Wanted, f))
             \/ \E st \in Updates(e) : Mends(st, f)
        /\ e = Tools!NoDetails => Updates(e) = {}
    BY <2>1, DetailsMend, UpdateMembers
  <2> HIDE DEF e
  <2>3. CASE e = Tools!NoDetails
    <3>1. d = [type |-> "none", details |-> Tools!NoDetails]
      BY <1>2, <2>3 DEF Tools!Diff, Tools!HasUpdates, e
    <3>2. script = <<>> /\ d.type = "none"
      BY <3>1 DEF Tools!GenerateStatements
    <3> HIDE DEF script, d
    <3>3. Members(script) = {}
      BY <3>2 DEF Members
    <3> QED
      BY <1>2, <2>2, <2>3, <3>2, <3>3 DEF script, d
  <2>4. CASE e # Tools!NoDetails
    <3>1. d = [type |-> "update-table", details |-> e]
      BY <1>2, <2>4 DEF Tools!Diff, Tools!HasUpdates, e
    <3>2. script = Tools!UpdateStatements(e) /\ d.type = "update-table"
      BY <3>1 DEF Tools!GenerateStatements
    <3> HIDE DEF script, d
    <3>3. script \in Seq(Updates(e)) /\ Members(script) = Updates(e)
      BY <2>2, <3>2 DEF ListOf
    <3>4. script \in Seq(Repairs)
      BY <2>2, <3>3
    <3> QED
      BY <1>2, <2>2, <3>2, <3>3, <3>4 DEF script, d
  <2> QED
    BY <2>3, <2>4
<1> QED
  BY <1>1, <1>2

-----------------------------------------------------------------------------
(* SchemaTools: a plan between the time it is made and its end.            *)

PlanTypes ==
    plan \in [of : Stored, type : {"none", "create-table", "update-table"},
              script : Seq(Repairs), fresh : BOOLEAN,
              at : {"none", "made", "running", "stopped"}]

\* The table the rest of the script is for.
Met == IF plan.at = "made" THEN plan.of ELSE stored

\* Whatever the table has otherwise than the entity, a statement is left for it.
PlanKept ==
    plan.at \in {"made", "running"} /\ plan.fresh =>
        /\ \A f \in Facts : (Says(Met, f) <=> Says(Wanted, f))
                            \/ \E st \in Members(plan.script) : Mends(st, f)
        /\ Met = NoSchema => plan.script = <<CreateTable>>
        /\ Met # NoSchema => \A st \in Members(plan.script) : st.do # "create"

ToolsKept == ToolTypes /\ QueueKept /\ PlanTypes /\ PlanKept

\* A step that leaves the queue, the table and its histories alone.
LEMMA QueueUntouched ==
  ASSUME QueueKept, UNCHANGED <<stored, queue, position, expected, blind>>
  PROVE  QueueKept'
<1>1. Through' = Through /\ Certain' = Certain
  BY DEF Through, Certain
<1>2. Barred => Barred'
  <2> SUFFICES ASSUME NEW j \in 1..Len(queue),
                      queue[j].type = "alter", position <= j,
                      IF j = 1 THEN stored = NoSchema ELSE queue[j - 1].type = "drop"
               PROVE  Barred'
    BY DEF Barred
  <2>1. position' <= j /\ j \in 1..Len(queue') /\ queue' = queue /\ stored' = stored
    OBVIOUS
  <2> QED
    BY <2>1 DEF Barred
<1>3. /\ \A f : Settled(queue, Len(queue), expected, f)' <=> Settled(queue, Len(queue),
           expected, f)
      /\ \A f : Settled(queue, Through, stored, f)' <=> Settled(queue, Through, stored, f)
      /\ \A f : Spared(queue, f)' <=> Spared(queue, f)
      /\ \A f : Says(stored, f)' <=> Says(stored, f)
      /\ \A f : Says(expected, f)' <=> Says(expected, f)
  BY <1>1
<1> QED
  BY <1>1, <1>2, <1>3 DEF QueueKept

\* Making a plan keeps what always holds.
LEMMA MakePlanKeeps ==
  ASSUME Tools!ToolsAssumption, ToolsKept, Tools!MakePlan
  PROVE  ToolsKept'
<1> DEFINE g == Tools!GetSchema
           fresh == g = stored
<1>1. /\ plan' = [of |-> stored, type |-> Tools!Diff(g).type,
           script |-> Tools!GenerateStatements(Tools!Diff(g)),
                  fresh |-> fresh, at |-> "made"]
      /\ queue = <<>> /\ known' = g
      /\ UNCHANGED <<stored, server, queue, position, expected, blind, toolFaults>>
  BY DEF Tools!MakePlan
<1>2. g \in Stored /\ fresh \in BOOLEAN /\ stored \in Stored /\ (g = NoSchema <=> stored = NoSchema)
  BY KnownSchema DEF ToolsKept, ToolTypes
<1>3. fresh => g = stored
  OBVIOUS
<1> HIDE DEF g, fresh
<1> DEFINE t == Tools!Diff(g).type
           q == Tools!GenerateStatements(Tools!Diff(g))
<1>4. /\ t \in {"none", "create-table", "update-table"} /\ q \in Seq(Repairs)
      /\ \A f \in Facts : (Says(g, f) <=> Says(Wanted, f))
           \/ \E st \in Members(q) : Mends(st, f)
      /\ g = NoSchema => q = <<CreateTable>>
      /\ g # NoSchema => \A st \in Members(q) : st.do # "create"
  BY <1>2, ScriptOf
<1> HIDE DEF t, q
<1>5. plan' = [of |-> stored, type |-> t, script |-> q, fresh |-> fresh, at |-> "made"]
  BY <1>1 DEF t, q
<1>6. /\ plan'.at = "made" /\ plan'.script = q /\ plan'.fresh = fresh /\ plan'.of = stored
      /\ PlanTypes'
  BY <1>1, <1>2, <1>4, <1>5 DEF PlanTypes
<1>7. ToolTypes'
  BY <1>1, <1>2, <1>6 DEF ToolsKept, ToolTypes, Tools!NoPlan
<1>8. QueueKept'
  BY <1>1, QueueUntouched DEF ToolsKept
<1>9. Met' = stored
  BY <1>6 DEF Met
<1>10. PlanKept'
  BY <1>3, <1>4, <1>6, <1>9 DEF PlanKept
<1> QED
  BY <1>6, <1>7, <1>8, <1>10 DEF ToolsKept

\* No plan is left, and the queue is empty.
LEMMA PlanLeft ==
  ASSUME ToolTypes', queue' = <<>>, expected' = stored', plan' = Tools!NoPlan
  PROVE  ToolsKept'
<1>1. QueueKept'
  BY StartsOver
<1>2. Tools!NoPlan \in [of : Stored, type : {"none", "create-table", "update-table"},
                  script : Seq(Repairs), fresh : BOOLEAN,
                  at : {"none", "made", "running", "stopped"}]
  BY DEF Tools!NoPlan, Stored
<1>3. PlanTypes' /\ PlanKept'
  BY <1>2 DEF PlanTypes, PlanKept, Tools!NoPlan
<1> QED
  BY <1>1, <1>3 DEF ToolsKept

\* schema:apply keeps what always holds.
LEMMA ApplyPlanKeeps ==
  ASSUME Tools!ToolsAssumption, ToolsKept, Tools!ApplyPlan
  PROVE  ToolsKept'
<1>1. /\ plan # Tools!NoPlan /\ position = 0 /\ expected' = stored'
           /\ blind' = FALSE /\ plan' = Tools!NoPlan
      /\ \/ stored' = stored /\ known' = known
         \/ stored' = Tools!Ensured(Wanted) /\ known' = Wanted
      /\ server' = server
      /\ UNCHANGED <<queue, position, toolFaults>>
  BY DEF Tools!ApplyPlan, Tools!Ensure
<1>2. /\ Wanted \in Stored /\ Tools!Ensured(Wanted) \in Stored
      /\ Tools!Ensured(Wanted) # NoSchema
  BY EntityShape, EnsuredType DEF Stored, ToolsKept
<1>3. queue' = <<>> /\ Tools!NoPlan.at = "none"
  BY <1>1 DEF ToolsKept, ToolTypes, Tools!NoPlan
<1>4. ToolTypes'
  BY <1>1, <1>2, <1>3 DEF ToolsKept, ToolTypes
<1> QED
  BY <1>1, <1>3, <1>4, PlanLeft

\* The two bounds are numbers.
LEMMA ToolBounds ==
  ASSUME Tools!ToolsAssumption
  PROVE  MaxQueue \in Nat /\ MaxToolFaults \in Nat /\ 0 <= MaxQueue /\ 0 <= MaxToolFaults
<1>1. MaxQueue \in Nat /\ MaxToolFaults \in Nat
  BY DEF Tools!ToolsAssumption
<1> QED
  BY <1>1

\* A process that starts again keeps what always holds.
LEMMA RestartKeeps ==
  ASSUME Tools!ToolsAssumption, ToolsKept, Tools!Restart
  PROVE  ToolsKept'
<1>1. /\ position = 0 /\ known' \in {stored, NoSchema} /\ queue' = <<>> /\ plan' = Tools!NoPlan
      /\ expected' = stored /\ blind' = FALSE
      /\ UNCHANGED <<stored, server, position, toolFaults>>
  BY DEF Tools!Restart
<1>2. Tools!NoPlan.at = "none"
  BY DEF Tools!NoPlan
<1>3. queue' \in Seq(Operations) /\ Len(queue') = 0
  BY <1>1
<1>4. /\ 0 <= MaxQueue /\ blind' \in BOOLEAN /\ known' \in Stored
      /\ known' # NoSchema => stored' # NoSchema
  BY <1>1, ToolBounds DEF Stored, ToolsKept, ToolTypes
<1>5. /\ queue' \in Seq(Operations) /\ Len(queue') <= MaxQueue
           /\ position' \in 0..Len(queue')
      /\ plan' = Tools!NoPlan /\ plan'.at = "none" /\ stored' \in Stored
           /\ expected' \in Stored
      /\ toolFaults' \in 0..MaxToolFaults /\ server' \in {"local", "postgres", "mysql"}
  BY <1>1, <1>2, <1>3, <1>4 DEF ToolsKept, ToolTypes
<1>6. ToolTypes'
  BY <1>4, <1>5 DEF ToolTypes
<1> QED
  BY <1>1, <1>6, PlanLeft

\* Starting a script keeps what always holds.
LEMMA RunScriptKeeps ==
  ASSUME Tools!ToolsAssumption, ToolsKept, Tools!RunScript
  PROVE  ToolsKept'
<1>1. /\ plan.at = "made"
      /\ plan' = [plan EXCEPT !.at = "running", !.fresh = @ /\ plan.of = stored]
      /\ UNCHANGED <<stored, server, known, queue, position, expected, blind, toolFaults>>
  BY DEF Tools!RunScript
<1>2. PlanTypes
  BY DEF ToolsKept
<1> DEFINE b == plan.fresh /\ plan.of = stored
<1>3. /\ plan' = [plan EXCEPT !.at = "running", !.fresh = b] /\ b \in BOOLEAN
  BY <1>1
<1> HIDE DEF b
<1>4. /\ PlanTypes' /\ plan'.at = "running" /\ plan'.script = plan.script
      /\ plan'.fresh = b
  BY <1>2, <1>3 DEF PlanTypes
<1>5. plan # Tools!NoPlan /\ plan' # Tools!NoPlan
  <2>1. Tools!NoPlan.at = "none"
    BY DEF Tools!NoPlan
  <2> QED
    BY <1>1, <1>4, <2>1
<1>6. ToolTypes'
  BY <1>1, <1>4, <1>5 DEF ToolsKept, ToolTypes
<1>7. QueueKept'
  BY <1>1, QueueUntouched DEF ToolsKept
<1>8. Met' = stored /\ Met = plan.of
  BY <1>1, <1>4 DEF Met
<1>9. PlanKept'
  BY <1>1, <1>4, <1>8 DEF PlanKept, ToolsKept, b
<1> QED
  BY <1>4, <1>6, <1>7, <1>9 DEF ToolsKept

\* A statement of a script keeps what always holds.
LEMMA RunStatementKeeps ==
  ASSUME Tools!ToolsAssumption, ToolsKept, Tools!RunStatement
  PROVE  ToolsKept'
<1> DEFINE st == Head(plan.script)
           r == Tail(plan.script)
<1>1. /\ plan.at = "running" /\ plan.script # <<>>
      /\ \/ stored' = Tools!Run(stored, st) /\ plan' = [plan EXCEPT !.script = r]
         \/ plan' = [plan EXCEPT !.at = "stopped"] /\ stored' = stored
      /\ expected' = stored' /\ blind' = FALSE
      /\ UNCHANGED <<server, known, queue, position, toolFaults>>
  BY DEF Tools!RunStatement
<1>2. PlanTypes /\ plan.script \in Seq(Repairs)
  BY DEF ToolsKept, PlanTypes
<1>3. /\ r \in Seq(Repairs) /\ st \in Members(plan.script) /\ st \in Repairs
      /\ Members(r) \subseteq Members(plan.script)
      /\ Members(plan.script) \ {st} \subseteq Members(r)
  BY <1>1, <1>2, TailMembers
<1>4. plan.script = <<CreateTable>> => st = CreateTable /\ r = <<>>
  OBVIOUS
<1> HIDE DEF st, r
<1>5. PlanTypes' /\ plan'.at \in {"running", "stopped"}
  BY <1>1, <1>2, <1>3 DEF PlanTypes
<1>6. plan # Tools!NoPlan /\ plan' # Tools!NoPlan
  BY <1>1, <1>5 DEF Tools!NoPlan
<1>7. stored' \in Stored /\ (stored # NoSchema => stored' # NoSchema)
  <2>1. stored' \in Stored
    BY <1>1, <1>3, RunType DEF ToolsKept, ToolTypes
  <2>2. ASSUME stored # NoSchema, stored' = Tools!Run(stored, st)
        PROVE  stored' # NoSchema
    <3>1. CASE st.do = "create"
      BY <2>2, <3>1 DEF Tools!Run
    <3>2. CASE st.do # "create"
      BY <1>3, <2>2, <3>2, AlterSays, TableFactSays, EntityShape
           DEF ToolsKept, ToolTypes, Stored
    <3> QED
      BY <3>1, <3>2
  <2> QED
    BY <1>1, <2>1, <2>2
<1>8. queue' = <<>>
  BY <1>1, <1>6 DEF ToolsKept, ToolTypes
<1>9. ToolTypes'
  BY <1>1, <1>5, <1>6, <1>7 DEF ToolsKept, ToolTypes
<1>10. QueueKept'
  BY <1>1, <1>8, <1>9, StartsOver
<1>11. PlanKept'
  <2> SUFFICES ASSUME plan'.at = "running", plan'.fresh
               PROVE  /\ \A f \in Facts : (Says(stored', f) <=> Says(Wanted, f))
                                          \/ \E x \in Members(plan'.script) : Mends(x, f)
                      /\ stored' = NoSchema => plan'.script = <<CreateTable>>
                      /\ stored' # NoSchema =>
                           \A x \in Members(plan'.script) : x.do # "create"
    BY <1>5 DEF PlanKept, Met
  <2>1. stored' = Tools!Run(stored, st) /\ plan'.script = r /\ plan.fresh /\ Met = stored
    BY <1>1, <1>2 DEF PlanTypes, Met
  <2>2. /\ \A f \in Facts : (Says(stored, f) <=> Says(Wanted, f))
                            \/ \E x \in Members(plan.script) : Mends(x, f)
        /\ stored = NoSchema => plan.script = <<CreateTable>>
        /\ stored # NoSchema => \A x \in Members(plan.script) : x.do # "create"
    BY <1>1, <2>1 DEF ToolsKept, PlanKept
  <2>3. CASE stored = NoSchema
    <3>1. st = CreateTable /\ r = <<>>
      BY <1>4, <2>2, <2>3
    <3>2. stored' = Wanted /\ Wanted # NoSchema
      BY <2>1, <2>3, <3>1, EntityShape DEF Tools!Run, CreateTable, St
    <3>3. Members(r) = {}
      BY <3>1 DEF Members
    <3> QED
      BY <2>1, <3>2, <3>3
  <2>4. CASE stored # NoSchema
    <3>1. stored \in Tools!Schemas /\ st.do # "create"
      BY <1>3, <2>2, <2>4 DEF ToolsKept, ToolTypes, Stored
    <3>2. ASSUME NEW f \in Facts
          PROVE  /\ stored' \in Tools!Schemas
                 /\ Says(stored', f) <=> IF Mends(st, f) THEN Says(Wanted,
                      f) ELSE Says(stored, f)
      BY <1>3, <2>1, <3>1, AlterSays
    <3>3. stored' # NoSchema
      <4>1. TableFact \in Facts
        BY DEF TableFact, Facts
      <4> QED
        BY <3>2, <4>1, EntityShape
    <3>4. ASSUME NEW f \in Facts, ~(Says(stored', f) <=> Says(Wanted, f))
          PROVE  \E x \in Members(r) : Mends(x, f)
      <4>1. ~Mends(st, f) /\ ~(Says(stored, f) <=> Says(Wanted, f))
        BY <3>2, <3>4
      <4>2. PICK x \in Members(plan.script) : Mends(x, f)
        BY <2>2, <4>1
      <4>3. x \in Members(r)
        BY <1>3, <4>1, <4>2
      <4> QED
        BY <4>2, <4>3
    <3> QED
      BY <1>3, <2>1, <2>2, <2>4, <3>3, <3>4
  <2> QED
    BY <2>3, <2>4
<1> QED
  BY <1>5, <1>9, <1>10, <1>11 DEF ToolsKept

\* A step on the queue, made while there is no plan.
LEMMA QueueStepKeeps ==
  ASSUME Tools!ToolsAssumption, ToolsKept, ToolTypes', QueueKept', plan = Tools!NoPlan,
           plan' = plan
  PROVE  ToolsKept'
<1>1. PlanTypes' /\ PlanKept'
  <2>1. plan' = Tools!NoPlan /\ Tools!NoPlan.at = "none"
    BY DEF Tools!NoPlan
  <2>2. PlanTypes'
    BY DEF ToolsKept, PlanTypes
  <2>3. PlanKept'
    BY <2>1 DEF PlanKept
  <2> QED
    BY <2>2, <2>3
<1> QED
  BY <1>1 DEF ToolsKept

\* What always holds does so at first.
LEMMA ToolsKeptStart ==
  ASSUME Tools!ToolsAssumption, Tools!ToolsInit
  PROVE  ToolsKept
<1>1. stored \in Stored /\ NoSchema \in Stored
  BY DEF Tools!ToolsInit, Tools!ToolsAssumption, Tools!Given, Stored
<1>2. /\ plan = Tools!NoPlan /\ Tools!NoPlan.at = "none" /\ queue = <<>>
           /\ position = 0 /\ blind = FALSE
      /\ expected = stored /\ known \in {stored, NoSchema} /\ toolFaults = 0
      /\ server \in {"local", "postgres", "mysql"}
  BY DEF Tools!ToolsInit, Tools!NoPlan
<1>3. queue \in Seq(Operations) /\ Len(queue) = 0
  BY <1>2
<1>4. ToolTypes
  <2>1. /\ Len(queue) <= MaxQueue /\ position \in 0..Len(queue) /\ plan.at = "none"
        /\ toolFaults \in 0..MaxToolFaults
    BY <1>2, <1>3, ToolBounds
  <2>2. blind \in BOOLEAN /\ known \in Stored /\ (known # NoSchema => stored # NoSchema)
    BY <1>1, <1>2
  <2> QED
    BY <1>1, <1>2, <1>3, <2>1, <2>2 DEF ToolTypes
<1>5. \A f : Settled(queue, Len(queue), expected, f) /\ Settled(queue, 0, stored, f)
  BY <1>3 DEF Settled
<1>6. QueueKept
  BY <1>2, <1>5 DEF QueueKept, Through
<1>7. Tools!NoPlan \in [of : Stored, type : {"none", "create-table", "update-table"},
                  script : Seq(Repairs), fresh : BOOLEAN,
                  at : {"none", "made", "running", "stopped"}]
  BY DEF Tools!NoPlan, Stored
<1>8. PlanTypes /\ PlanKept
  BY <1>2, <1>7 DEF PlanTypes, PlanKept
<1> QED
  BY <1>4, <1>6, <1>8 DEF ToolsKept

\* Every step keeps what always holds.
LEMMA ToolsKeptStep ==
  ASSUME Tools!ToolsAssumption, ToolsKept, [Tools!ToolsNext]_Tools!toolVars
  PROVE  ToolsKept'
<1>1. \A op \in Operations : op = op
  OBVIOUS
<1>2. CASE UNCHANGED Tools!toolVars
  <2>1. UNCHANGED <<stored, server, known, plan, queue, position, expected, blind,
                   toolFaults>>
    BY <1>2 DEF Tools!toolVars
  <2>2. QueueKept'
    BY <2>1, QueueUntouched DEF ToolsKept
  <2>3. ToolTypes' /\ PlanTypes'
    BY <2>1 DEF ToolsKept, ToolTypes, PlanTypes
  <2>4. Met' = Met
    BY <2>1 DEF Met
  <2>5. PlanKept'
    BY <2>1, <2>4 DEF ToolsKept, PlanKept
  <2> QED
    BY <2>2, <2>3, <2>5 DEF ToolsKept
<1>3. ASSUME NEW op \in Operations, Tools!Queue(op)
      PROVE  ToolsKept'
  <2>1. ToolTypes' /\ QueueKept'
    BY <1>3, QueueKeeps DEF ToolsKept
  <2>2. plan = Tools!NoPlan /\ plan' = plan
    BY <1>3 DEF Tools!Queue
  <2> QED
    BY <2>1, <2>2, QueueStepKeeps
<1>4. CASE Tools!Execute
  <2>1. ToolTypes' /\ QueueKept'
    BY <1>4, ExecuteKeeps DEF ToolsKept
  <2>2. plan = Tools!NoPlan /\ plan' = plan
    BY <1>4 DEF Tools!Execute
  <2> QED
    BY <2>1, <2>2, QueueStepKeeps
<1>5. position > 0 => plan = Tools!NoPlan
  <2>1. plan # Tools!NoPlan => Len(queue) = 0 /\ position \in 0..Len(queue)
    BY DEF ToolsKept, ToolTypes
  <2> QED
    BY <2>1
<1>6. CASE Tools!ExecuteOne
  <2>1. ToolTypes' /\ QueueKept'
    BY <1>6, ExecuteOneKeeps DEF ToolsKept
  <2>2. plan = Tools!NoPlan /\ plan' = plan
    BY <1>5, <1>6 DEF Tools!ExecuteOne
  <2> QED
    BY <2>1, <2>2, QueueStepKeeps
<1>7. CASE Tools!ExecuteFails
  <2>1. ToolTypes' /\ QueueKept'
    BY <1>7, ExecuteFailsKeeps DEF ToolsKept
  <2>2. plan = Tools!NoPlan /\ plan' = plan
    BY <1>5, <1>7 DEF Tools!ExecuteFails
  <2> QED
    BY <2>1, <2>2, QueueStepKeeps
<1>8. /\ [type |-> "ensure"] \in Operations /\ [type |-> "drop"] \in Operations
      /\ \A c \in Configurations : [type |-> "alter", change |-> c] \in Operations
  BY DEF Operations
<1>9. CASE Tools!MakePlan \/ Tools!ApplyPlan \/ Tools!RunScript
        \/ Tools!RunStatement \/ Tools!Restart
  BY <1>9, MakePlanKeeps, ApplyPlanKeeps, RunScriptKeeps, RunStatementKeeps, RestartKeeps
<1> QED
  BY <1>2, <1>3, <1>4, <1>6, <1>7, <1>8, <1>9 DEF Tools!ToolsNext

\* What always holds shows the types and both properties.
LEMMA ToolsKeptShows ==
  ASSUME Tools!ToolsAssumption, ToolsKept
  PROVE  Tools!TypeOK /\ Tools!ScriptReaches /\ Tools!QueuedOnce
<1>1. Tools!TypeOK
  <2>1. \A schema \in Tools!Schemas :
           /\ DOMAIN schema = {"columns", "unique", "foreign"}
           /\ \A n \in DOMAIN schema.columns : DOMAIN schema.columns[n] = {"type",
                "nullable"}
    <3> SUFFICES ASSUME NEW schema \in Tools!Schemas, NEW n \in DOMAIN schema.columns
                 PROVE  DOMAIN schema.columns[n] = {"type", "nullable"}
      BY SchemaShape
    <3>1. schema.columns[n] \in Tools!ColumnTypes
      BY SchemaShape
    <3> QED
      BY <3>1 DEF Tools!ColumnTypes
  <2>2. {stored, known, expected} \ {NoSchema} \subseteq Tools!Schemas
    BY DEF ToolsKept, ToolTypes, Stored
  <2>3. /\ {blind, plan.fresh} \subseteq BOOLEAN
        /\ server \in {"local", "postgres", "mysql"}
        /\ plan.type \in {"none", "create-table", "update-table"}
        /\ plan.at \in {"none", "made", "running", "stopped"}
    BY DEF ToolsKept, ToolTypes, PlanTypes
  <2> QED
    BY <2>1, <2>2, <2>3 DEF Tools!TypeOK, ToolsKept, ToolTypes
<1>2. Tools!ScriptReaches
  <2> SUFFICES ASSUME plan.at = "running", plan.script = <<>>, plan.fresh
               PROVE  stored = Wanted
    BY DEF Tools!ScriptReaches
  <2>1. Met = stored /\ Members(plan.script) = {}
    BY DEF Met, Members
  <2>2. \A f \in Facts : Says(stored, f) <=> Says(Wanted, f)
    BY <2>1 DEF ToolsKept, PlanKept
  <2>3. stored \in Stored /\ Wanted \in Stored
    BY EntityShape DEF ToolsKept, ToolTypes, Stored
  <2> QED
    BY <2>2, <2>3, SameSchema
<1>3. Tools!QueuedOnce
  <2> SUFFICES ASSUME queue = <<>>
               PROVE  /\ ~blind => stored = expected
                      /\ stored = NoSchema <=> expected = NoSchema
    BY DEF Tools!QueuedOnce
  <2>1. ~Barred /\ (\A f : Spared(queue, f)) /\ stored \in Stored /\ expected \in Stored
    BY DEF Barred, Spared, ToolsKept, ToolTypes
  <2>2. \A f \in Certain : Says(stored, f) <=> Says(expected, f)
    BY <2>1 DEF ToolsKept, QueueKept
  <2>3. stored = NoSchema <=> expected = NoSchema
    BY <2>1, <2>2, TableFactSays
  <2>4. ASSUME ~blind
        PROVE  stored = expected
    <3>1. \A f \in Facts : Says(stored, f) <=> Says(expected, f)
      BY <2>2, <2>4 DEF Certain
    <3> QED
      BY <2>1, <3>1, SameSchema
  <2> QED
    BY <2>3, <2>4
<1> QED
  BY <1>1, <1>2, <1>3

\* The schema tools alone.
LEMMA ToolsLife ==
  Tools!ToolsAssumption => (Tools!ToolsSpec => [](Tools!TypeOK
    /\ Tools!ScriptReaches /\ Tools!QueuedOnce))
<1> SUFFICES ASSUME Tools!ToolsAssumption PROVE Tools!ToolsSpec => [](Tools!TypeOK
                      /\ Tools!ScriptReaches /\ Tools!QueuedOnce)
  OBVIOUS
<1>1. Tools!ToolsInit => ToolsKept
  BY ToolsKeptStart
<1>2. ToolsKept /\ [Tools!ToolsNext]_Tools!toolVars => ToolsKept'
  BY ToolsKeptStep
<1>3. ToolsKept => Tools!TypeOK /\ Tools!ScriptReaches /\ Tools!QueuedOnce
  BY ToolsKeptShows
<1> QED
  BY <1>1, <1>2, <1>3, PTL DEF Tools!ToolsSpec

-----------------------------------------------------------------------------
(* TableSync: the tables.                                                  *)

PostgresTypes == {"double precision", "boolean", "timestamp with time zone", "jsonb",
  "text"}

FiveDrivers == {"postgres", "mysql", "mssql", "oracle", "sqlite"}

SqliteColumnTypes == {"numeric", "integer", "text"}

\* What postgres says of a column's type is the kind it was made for.
LEMMA PostgresKinds ==
  ASSUME NEW k \in Sync!ColumnKinds
  PROVE  /\ Sync!PostgresType[k] \in PostgresTypes
              /\ Sync!PostgresType[k] \in Sync!DatabaseTypes
         /\ \A t \in PostgresTypes : Sync!FromPostgresType[t] = k <=> t = Sync!PostgresType[k]
<1>1. /\ Sync!PostgresType["number"] = "double precision"
      /\ Sync!PostgresType["boolean"] = "boolean"
      /\ Sync!PostgresType["date"] = "timestamp with time zone"
      /\ Sync!PostgresType["json"] = "jsonb"
      /\ Sync!PostgresType["string"] = "text"
  BY DEF Sync!PostgresType
<1>2. /\ Sync!FromPostgresType["double precision"] = "number"
      /\ Sync!FromPostgresType["boolean"] = "boolean"
      /\ Sync!FromPostgresType["timestamp with time zone"] = "date"
      /\ Sync!FromPostgresType["jsonb"] = "json"
      /\ Sync!FromPostgresType["text"] = "string"
  BY DEF Sync!FromPostgresType
<1> QED
  BY <1>1, <1>2 DEF Sync!ColumnKinds, PostgresTypes, Sync!DatabaseTypes

\* In the other drivers some kinds share a type.
LEMMA MySqlKinds ==
  ASSUME NEW k \in Sync!ColumnKinds
  PROVE  Sync!MySqlType[k] \in Sync!DatabaseTypes
           /\ Sync!FromMySqlType[Sync!MySqlType[k]] = k
<1>1. /\ Sync!MySqlType["number"] = "double"
      /\ Sync!MySqlType["boolean"] = "tinyint"
      /\ Sync!MySqlType["date"] = "datetime"
      /\ Sync!MySqlType["json"] = "json"
      /\ Sync!MySqlType["string"] = "text"
  BY DEF Sync!MySqlType
<1>2. /\ Sync!FromMySqlType["double"] = "number"
      /\ Sync!FromMySqlType["tinyint"] = "boolean"
      /\ Sync!FromMySqlType["datetime"] = "date"
      /\ Sync!FromMySqlType["json"] = "json"
      /\ Sync!FromMySqlType["text"] = "string"
  BY DEF Sync!FromMySqlType
<1> QED
  BY <1>1, <1>2 DEF Sync!ColumnKinds, Sync!DatabaseTypes

\* What mssql says of a column's type, but for json, which it keeps as text.
LEMMA MssqlKinds ==
  ASSUME NEW k \in Sync!ColumnKinds
  PROVE  Sync!MssqlType[k] \in Sync!DatabaseTypes /\ (k # "json" =>
           Sync!FromMssqlType[Sync!MssqlType[k]] = k)
<1>1. /\ Sync!MssqlType["number"] = "float"
      /\ Sync!MssqlType["boolean"] = "bit"
      /\ Sync!MssqlType["date"] = "datetime2"
      /\ Sync!MssqlType["json"] = "nvarchar"
      /\ Sync!MssqlType["string"] = "nvarchar"
  BY DEF Sync!MssqlType
<1>2. /\ Sync!FromMssqlType["float"] = "number"
      /\ Sync!FromMssqlType["bit"] = "boolean"
      /\ Sync!FromMssqlType["datetime2"] = "date"
      /\ Sync!FromMssqlType["nvarchar"] = "string"
  BY DEF Sync!FromMssqlType
<1> QED
  BY <1>1, <1>2 DEF Sync!ColumnKinds, Sync!DatabaseTypes

\* What oracle says of a column's type, but for booleans, which it keeps as numbers.
LEMMA OracleKinds ==
  ASSUME NEW k \in Sync!ColumnKinds
  PROVE  Sync!OracleType[k] \in Sync!DatabaseTypes /\ (k # "boolean" =>
           Sync!FromOracleType[Sync!OracleType[k]] = k)
<1>1. /\ Sync!OracleType["number"] = "number"
      /\ Sync!OracleType["boolean"] = "number"
      /\ Sync!OracleType["date"] = "timestamp"
      /\ Sync!OracleType["json"] = "clob"
      /\ Sync!OracleType["string"] = "varchar2"
  BY DEF Sync!OracleType
<1>2. /\ Sync!FromOracleType["number"] = "number"
      /\ Sync!FromOracleType["timestamp"] = "date"
      /\ Sync!FromOracleType["clob"] = "json"
      /\ Sync!FromOracleType["varchar2"] = "string"
  BY DEF Sync!FromOracleType
<1> QED
  BY <1>1, <1>2 DEF Sync!ColumnKinds, Sync!DatabaseTypes

\* The types sqlite declares are three, none of them the name of a kind.
LEMMA SqliteKinds ==
  ASSUME NEW k \in Sync!ColumnKinds
  PROVE  Sync!SqliteType[k] \in SqliteColumnTypes
           /\ Sync!SqliteType[k] \in Sync!DatabaseTypes
<1>1. /\ Sync!SqliteType["number"] = "numeric"
      /\ Sync!SqliteType["boolean"] = "integer"
      /\ Sync!SqliteType["date"] = "text"
      /\ Sync!SqliteType["json"] = "text"
      /\ Sync!SqliteType["string"] = "text"
  BY DEF Sync!SqliteType
<1> QED
  BY <1>1 DEF Sync!ColumnKinds, SqliteColumnTypes, Sync!DatabaseTypes

Actions == {"cascade", "restrict", "none"}
DatabaseActions == {"cascade", "restrict", "no action"}

\* What a driver writes for onDelete is an action of the database.
LEMMA ActionsAre ==
  ASSUME NEW a \in Actions
  PROVE  /\ Sync!PostgresAction[a] \in DatabaseActions
              /\ Sync!MssqlAction[a] \in DatabaseActions
         /\ Sync!OracleAction[a] \in DatabaseActions
<1>1. /\ Sync!PostgresAction["cascade"] = "cascade"
           /\ Sync!PostgresAction["restrict"] = "restrict"
      /\ Sync!PostgresAction["none"] = "no action"
  BY DEF Sync!PostgresAction
<1>2. /\ Sync!MssqlAction["cascade"] = "cascade"
           /\ Sync!MssqlAction["restrict"] = "no action"
      /\ Sync!MssqlAction["none"] = "no action"
  BY DEF Sync!MssqlAction
<1>3. /\ Sync!OracleAction["cascade"] = "cascade"
           /\ Sync!OracleAction["restrict"] = "no action"
      /\ Sync!OracleAction["none"] = "no action"
  BY DEF Sync!OracleAction
<1> QED
  BY <1>1, <1>2, <1>3 DEF Actions, DatabaseActions

ColumnTypes == [type : Sync!DatabaseTypes, nullable : BOOLEAN]
ForeignKeys == [column : Sync!ColumnNames, action : DatabaseActions]

\* The columns a table may have.
ColumnSets == UNION {[names -> ColumnTypes] : names \in SUBSET Sync!ColumnNames}

\* Columns with names and types of the model are columns a table may have.
LEMMA ColumnSet ==
  ASSUME NEW names \in SUBSET Sync!ColumnNames, NEW f \in [names -> ColumnTypes]
  PROVE  f \in ColumnSets
  BY DEF ColumnSets

\* The set of tables, with its parts named.
LEMMA TableShape ==
  Sync!Tables = [columns : ColumnSets, unique : SUBSET SUBSET Sync!ColumnNames,
            foreign : SUBSET ForeignKeys, full : BOOLEAN]
BY DEF Sync!Tables, ColumnSets, ColumnTypes, ForeignKeys, DatabaseActions

\* A table is made of its parts, and each part is of its kind.
LEMMA TableParts ==
  ASSUME NEW t \in Sync!Tables
  PROVE  /\ t = [columns |-> t.columns, unique |-> t.unique, foreign |-> t.foreign,
              full |-> t.full]
         /\ DOMAIN t.columns \in SUBSET Sync!ColumnNames
         /\ t.columns \in [DOMAIN t.columns -> ColumnTypes]
         /\ t.unique \in SUBSET SUBSET Sync!ColumnNames /\ t.foreign \in SUBSET ForeignKeys
         /\ t.full \in BOOLEAN /\ Sync!Keys(t) \in SUBSET Sync!ColumnNames
<1>1. t.columns \in ColumnSets /\ t.foreign \in SUBSET ForeignKeys
  BY TableShape
<1>2. PICK names \in SUBSET Sync!ColumnNames : t.columns \in [names -> ColumnTypes]
  BY <1>1 DEF ColumnSets
<1>3. Sync!Keys(t) \in SUBSET Sync!ColumnNames
  BY <1>1 DEF Sync!Keys, ForeignKeys
<1> QED
  BY <1>2, <1>3, TableShape

\* Parts of their kinds make a table.
LEMMA MakesTable ==
  ASSUME NEW names \in SUBSET Sync!ColumnNames, NEW c \in [names -> ColumnTypes],
         NEW u \in SUBSET SUBSET Sync!ColumnNames, NEW f \in SUBSET ForeignKeys,
         NEW full \in BOOLEAN
  PROVE  [columns |-> c, unique |-> u, foreign |-> f, full |-> full] \in Sync!Tables
BY ColumnSet, TableShape

\* A version of the entity.
LEMMA VersionShape ==
  ASSUME Sync!SyncAssumption, NEW v \in Versions
  PROVE  /\ v.columns \in [DOMAIN v.columns -> [type : Sync!ColumnKinds,
              nullable : BOOLEAN]]
         /\ "id" \in DOMAIN v.columns /\ DOMAIN v.columns \in SUBSET Sync!ColumnNames
         /\ v.unique \in SUBSET SUBSET Sync!ColumnNames
         /\ v.foreign \subseteq [column : Sync!ColumnNames, action : Actions]
         /\ v # Absent
BY DEF Sync!SyncAssumption, Sync!ColumnNames, Actions

DriverType(d, k) ==
    CASE d = "postgres" -> Sync!PostgresType[k]
      [] d = "mysql"    -> Sync!MySqlType[k]
      [] d = "mssql"    -> Sync!MssqlType[k]
      [] d = "oracle"   -> Sync!OracleType[k]
      [] d = "sqlite"   -> Sync!SqliteType[k]

\* What a driver declares for a kind is a type of its database.
LEMMA DriverTypes ==
  ASSUME NEW d \in FiveDrivers, NEW k \in Sync!ColumnKinds
  PROVE  DriverType(d, k) \in Sync!DatabaseTypes
BY PostgresKinds, MySqlKinds, MssqlKinds, OracleKinds, SqliteKinds
DEF DriverType, FiveDrivers

\* What a driver makes of the columns of a version, and of its foreign keys.
LEMMA MadeColumns ==
  ASSUME Sync!SyncAssumption, NEW v \in Versions, NEW types,
         \A k \in Sync!ColumnKinds : types[k] \in Sync!DatabaseTypes
  PROVE  /\ Sync!Columns(v, types) \in [DOMAIN v.columns -> ColumnTypes]
         /\ \A n \in DOMAIN v.columns :
              /\ Sync!Columns(v, types)[n].type = types[v.columns[n].type]
                                        /\ Sync!Columns(v, types)[n].nullable = v.columns[n].nullable
<1>1. \A n \in DOMAIN v.columns : v.columns[n].type \in Sync!ColumnKinds
        /\ v.columns[n].nullable \in BOOLEAN
  BY VersionShape
<1> QED
  BY <1>1 DEF Sync!Columns, ColumnTypes

\* The constraints a driver creates are those of the schema, key for key.
LEMMA MadeForeign ==
  ASSUME Sync!SyncAssumption, NEW v \in Versions, NEW actions, NEW columns,
         \A a \in Actions : actions[a] \in DatabaseActions
  PROVE  LET t == Sync!Constrained(v, actions, columns)
         IN  /\ t.columns = columns /\ t.unique = v.unique
             /\ t.foreign \in SUBSET ForeignKeys /\ Sync!Keys(t) = Sync!Keys(v)
<1> DEFINE t == Sync!Constrained(v, actions, columns)
<1>1. /\ t.columns = columns /\ t.unique = v.unique
      /\ t.foreign = {[column |-> fk.column,
           action |-> actions[fk.action]] : fk \in v.foreign}
  BY DEF Sync!Constrained
<1> HIDE DEF t
<1>2. \A fk \in v.foreign : fk.column \in Sync!ColumnNames /\ fk.action \in Actions
  BY VersionShape
<1>3. t.foreign \in SUBSET ForeignKeys
  BY <1>1, <1>2 DEF ForeignKeys
<1>4. Sync!Keys(t) = Sync!Keys(v)
  <2>1. \A x \in t.foreign : \E fk \in v.foreign : x.column = fk.column
    BY <1>1
  <2>2. ASSUME NEW fk \in v.foreign
        PROVE  \E x \in t.foreign : x.column = fk.column
    <3> DEFINE x == [column |-> fk.column, action |-> actions[fk.action]]
    <3>1. x \in t.foreign /\ x.column = fk.column
      BY <1>1
    <3> QED
      BY <3>1
  <2> QED
    BY <2>1, <2>2 DEF Sync!Keys
<1> QED
  BY <1>1, <1>3, <1>4 DEF t

\* The table a driver creates for a version has its columns, types and constraints.
LEMMA MadeTable ==
  ASSUME Sync!SyncAssumption, NEW v \in Versions, NEW d \in FiveDrivers
  PROVE  LET t == Sync!TableOf(d, v)
         IN  /\ t.columns \in [DOMAIN v.columns -> ColumnTypes]
             /\ \A n \in DOMAIN v.columns :
                  /\ t.columns[n].type = DriverType(d, v.columns[n].type)
                                            /\ t.columns[n].nullable = v.columns[n].nullable
             /\ t.unique = v.unique /\ Sync!Keys(t) = Sync!Keys(v)
                  /\ t.foreign \in SUBSET ForeignKeys
<1> DEFINE t == Sync!TableOf(d, v)
<1>1. CASE d = "postgres"
  <2>1. t = Sync!Constrained(v, Sync!PostgresAction, Sync!Columns(v, Sync!PostgresType))
    BY <1>1 DEF Sync!TableOf, Sync!PostgresTable, Sync!PostgresColumns
  <2>2. \A k \in Sync!ColumnKinds : DriverType(d, k) = Sync!PostgresType[k]
    BY <1>1 DEF DriverType
  <2>3. \A k \in Sync!ColumnKinds : Sync!PostgresType[k] \in Sync!DatabaseTypes
    BY PostgresKinds
  <2>4. \A a \in Actions : Sync!PostgresAction[a] \in DatabaseActions
    BY ActionsAre
  <2>5. \A n \in DOMAIN v.columns : v.columns[n].type \in Sync!ColumnKinds
    BY VersionShape
  <2> DEFINE c == Sync!Columns(v, Sync!PostgresType)
  <2>6. /\ c \in [DOMAIN v.columns -> ColumnTypes]
        /\ \A n \in DOMAIN v.columns : /\ c[n].type = Sync!PostgresType[v.columns[n].type]
                                       /\ c[n].nullable = v.columns[n].nullable
    BY <2>3, MadeColumns
  <2> HIDE DEF c, t
  <2>7. t.columns = c /\ t.unique = v.unique /\ t.foreign \in SUBSET ForeignKeys
          /\ Sync!Keys(t) = Sync!Keys(v)
    BY <2>1, <2>4, MadeForeign DEF c
  <2> QED
    BY <2>2, <2>5, <2>6, <2>7 DEF t
<1>2. CASE d = "mysql"
  <2>1. t = Sync!Constrained(v, Sync!PostgresAction, Sync!Columns(v, Sync!MySqlType))
    BY <1>2 DEF Sync!TableOf, Sync!MySqlTable, Sync!MySqlColumns
  <2>2. \A k \in Sync!ColumnKinds : DriverType(d, k) = Sync!MySqlType[k]
    BY <1>2 DEF DriverType
  <2>3. \A k \in Sync!ColumnKinds : Sync!MySqlType[k] \in Sync!DatabaseTypes
    BY MySqlKinds
  <2>4. \A a \in Actions : Sync!PostgresAction[a] \in DatabaseActions
    BY ActionsAre
  <2>5. \A n \in DOMAIN v.columns : v.columns[n].type \in Sync!ColumnKinds
    BY VersionShape
  <2> DEFINE c == Sync!Columns(v, Sync!MySqlType)
  <2>6. /\ c \in [DOMAIN v.columns -> ColumnTypes]
        /\ \A n \in DOMAIN v.columns : /\ c[n].type = Sync!MySqlType[v.columns[n].type]
                                       /\ c[n].nullable = v.columns[n].nullable
    BY <2>3, MadeColumns
  <2> HIDE DEF c, t
  <2>7. t.columns = c /\ t.unique = v.unique /\ t.foreign \in SUBSET ForeignKeys
          /\ Sync!Keys(t) = Sync!Keys(v)
    BY <2>1, <2>4, MadeForeign DEF c
  <2> QED
    BY <2>2, <2>5, <2>6, <2>7 DEF t
<1>3. CASE d = "mssql"
  <2>1. t = Sync!Constrained(v, Sync!MssqlAction, Sync!Columns(v, Sync!MssqlType))
    BY <1>3 DEF Sync!TableOf, Sync!MssqlTable, Sync!MssqlColumns
  <2>2. \A k \in Sync!ColumnKinds : DriverType(d, k) = Sync!MssqlType[k]
    BY <1>3 DEF DriverType
  <2>3. \A k \in Sync!ColumnKinds : Sync!MssqlType[k] \in Sync!DatabaseTypes
    BY MssqlKinds
  <2>4. \A a \in Actions : Sync!MssqlAction[a] \in DatabaseActions
    BY ActionsAre
  <2>5. \A n \in DOMAIN v.columns : v.columns[n].type \in Sync!ColumnKinds
    BY VersionShape
  <2> DEFINE c == Sync!Columns(v, Sync!MssqlType)
  <2>6. /\ c \in [DOMAIN v.columns -> ColumnTypes]
        /\ \A n \in DOMAIN v.columns : /\ c[n].type = Sync!MssqlType[v.columns[n].type]
                                       /\ c[n].nullable = v.columns[n].nullable
    BY <2>3, MadeColumns
  <2> HIDE DEF c, t
  <2>7. t.columns = c /\ t.unique = v.unique /\ t.foreign \in SUBSET ForeignKeys
          /\ Sync!Keys(t) = Sync!Keys(v)
    BY <2>1, <2>4, MadeForeign DEF c
  <2> QED
    BY <2>2, <2>5, <2>6, <2>7 DEF t
<1>4. CASE d = "oracle"
  <2>1. t = Sync!Constrained(v, Sync!OracleAction, Sync!Columns(v, Sync!OracleType))
    BY <1>4 DEF Sync!TableOf, Sync!OracleTable, Sync!OracleColumns
  <2>2. \A k \in Sync!ColumnKinds : DriverType(d, k) = Sync!OracleType[k]
    BY <1>4 DEF DriverType
  <2>3. \A k \in Sync!ColumnKinds : Sync!OracleType[k] \in Sync!DatabaseTypes
    BY OracleKinds
  <2>4. \A a \in Actions : Sync!OracleAction[a] \in DatabaseActions
    BY ActionsAre
  <2>5. \A n \in DOMAIN v.columns : v.columns[n].type \in Sync!ColumnKinds
    BY VersionShape
  <2> DEFINE c == Sync!Columns(v, Sync!OracleType)
  <2>6. /\ c \in [DOMAIN v.columns -> ColumnTypes]
        /\ \A n \in DOMAIN v.columns : /\ c[n].type = Sync!OracleType[v.columns[n].type]
                                       /\ c[n].nullable = v.columns[n].nullable
    BY <2>3, MadeColumns
  <2> HIDE DEF c, t
  <2>7. t.columns = c /\ t.unique = v.unique /\ t.foreign \in SUBSET ForeignKeys
          /\ Sync!Keys(t) = Sync!Keys(v)
    BY <2>1, <2>4, MadeForeign DEF c
  <2> QED
    BY <2>2, <2>5, <2>6, <2>7 DEF t
<1>5. CASE d = "sqlite"
  <2>1. t = Sync!Constrained(v, Sync!PostgresAction, Sync!Columns(v, Sync!SqliteType))
    BY <1>5 DEF Sync!TableOf, Sync!SqliteTable, Sync!SqliteColumns
  <2>2. \A k \in Sync!ColumnKinds : DriverType(d, k) = Sync!SqliteType[k]
    BY <1>5 DEF DriverType
  <2>3. \A k \in Sync!ColumnKinds : Sync!SqliteType[k] \in Sync!DatabaseTypes
    BY SqliteKinds
  <2>4. \A a \in Actions : Sync!PostgresAction[a] \in DatabaseActions
    BY ActionsAre
  <2>5. \A n \in DOMAIN v.columns : v.columns[n].type \in Sync!ColumnKinds
    BY VersionShape
  <2> DEFINE c == Sync!Columns(v, Sync!SqliteType)
  <2>6. /\ c \in [DOMAIN v.columns -> ColumnTypes]
        /\ \A n \in DOMAIN v.columns : /\ c[n].type = Sync!SqliteType[v.columns[n].type]
                                       /\ c[n].nullable = v.columns[n].nullable
    BY <2>3, MadeColumns
  <2> HIDE DEF c, t
  <2>7. t.columns = c /\ t.unique = v.unique /\ t.foreign \in SUBSET ForeignKeys
          /\ Sync!Keys(t) = Sync!Keys(v)
    BY <2>1, <2>4, MadeForeign DEF c
  <2> QED
    BY <2>2, <2>5, <2>6, <2>7 DEF t
<1> QED
  BY <1>1, <1>2, <1>3, <1>4, <1>5 DEF FiveDrivers

\* So has a table that is created with or without rows.
LEMMA Created ==
  ASSUME Sync!SyncAssumption, NEW v \in Versions, NEW d \in FiveDrivers,
         NEW full \in BOOLEAN
  PROVE  LET t == Sync!CreatedTable(d, v, full)
         IN  /\ t \in Sync!Tables /\ t # Absent
             /\ t.columns = Sync!TableOf(d, v).columns /\ t.unique = v.unique
                  /\ Sync!Keys(t) = Sync!Keys(v)
             /\ t.full = full /\ DOMAIN t.columns = DOMAIN v.columns
<1> DEFINE m == Sync!TableOf(d, v)
           t == Sync!CreatedTable(d, v, full)
<1>1. t = [columns |-> m.columns, unique |-> m.unique, foreign |-> m.foreign, full |-> full]
  BY DEF Sync!CreatedTable
<1>2. /\ m.columns \in [DOMAIN v.columns -> ColumnTypes]
      /\ m.unique = v.unique /\ Sync!Keys(m) = Sync!Keys(v)
           /\ m.foreign \in SUBSET ForeignKeys
  BY MadeTable
<1>3. DOMAIN v.columns \in SUBSET Sync!ColumnNames
        /\ v.unique \in SUBSET SUBSET Sync!ColumnNames
  BY VersionShape
<1> HIDE DEF m, t
<1>4. t \in Sync!Tables
  BY <1>1, <1>2, <1>3, MakesTable
<1>5. Sync!Keys(t) = Sync!Keys(v) /\ t.unique = v.unique /\ t.columns = m.columns
        /\ t.full = full
  BY <1>1, <1>2 DEF Sync!Keys
<1>6. t # Absent
  BY <1>4 DEF Sync!SyncAssumption
<1> QED
  BY <1>2, <1>4, <1>5, <1>6 DEF m, t

-----------------------------------------------------------------------------
(* TableSync: what a statement makes of the table.                         *)

Bases == [table : Sync!Tables \cup {Absent}, temp : Sync!Tables \cup {Absent}]

\* The statements that bring a table to a version, but those of sqlite.
Towards(v) ==
    [do : {"create", "create if not exists", "drop constraints", "add constraints"},
      column : {"*"}]
    \cup [do : {"add", "type", "null"}, column : DOMAIN v.columns]
    \cup [do : {"drop"}, column : Sync!ColumnNames \ DOMAIN v.columns]

Creations == {"create", "create if not exists"}

\* What a table and a version may differ in.
Sides == [kind : {"has", "type", "null", "key"}, name : Sync!ColumnNames]
         \cup [kind : {"unique"}, of : SUBSET Sync!ColumnNames]

Agrees(t, v, f) ==
    /\ f.kind = "has" => (f.name \in DOMAIN t.columns <=> f.name \in DOMAIN v.columns)
    /\ f.kind = "type" /\ f.name \in DOMAIN t.columns /\ f.name \in DOMAIN v.columns =>
          t.columns[f.name].type = Sync!PostgresType[v.columns[f.name].type]
    /\ f.kind = "null" /\ f.name \in DOMAIN t.columns /\ f.name \in DOMAIN v.columns =>
          t.columns[f.name].nullable = v.columns[f.name].nullable
    /\ f.kind = "unique" => (f.of \in t.unique <=> f.of \in v.unique)
    /\ f.kind = "key" => (f.name \in Sync!Keys(t) <=> f.name \in Sync!Keys(v))

\* What ensureTable of the driver looks at: postgres at everything, the others
\* at the columns that are missing.
Minded(d, v) == IF d = "postgres" THEN Sides ELSE [kind : {"has"}, name : DOMAIN v.columns]

\* After st the table agrees with v in f.
Settles(st, v, f) ==
    \/ st.do \in {"add", "drop"} /\ f.kind = "has" /\ f.name = st.column
    \/ st.do = "type" /\ f.kind = "type" /\ f.name = st.column
    \/ st.do = "null" /\ f.kind = "null" /\ f.name = st.column
    \/ st.do = "drop constraints" /\ f.kind = "unique" /\ f.of \notin v.unique
    \/ st.do = "drop constraints" /\ f.kind = "key" /\ f.name \notin Sync!Keys(v)
    \/ st.do = "add constraints" /\ f.kind = "unique" /\ f.of \in v.unique
    \/ st.do = "add constraints" /\ f.kind = "key" /\ f.name \in Sync!Keys(v)

PostgresTyped(t) == \A n \in DOMAIN t.columns : t.columns[n].type \in PostgresTypes

\* u is the table t after st, a statement for v: nearer to v, and with its rows.
Nearer(t, u, st, v) ==
    /\ u \in Sync!Tables /\ u.full = t.full
    /\ dialect = "postgres" /\ PostgresTyped(t) => PostgresTyped(u)
    /\ \A f \in Minded(dialect, v) : Agrees(t, v, f) \/ Settles(st, v, f) => Agrees(u, v, f)

\* What ensureTable looks at, field by field.
LEMMA SideFields ==
  ASSUME Sync!SyncAssumption, NEW v \in Versions, NEW f \in Minded(dialect, v)
  PROVE  /\ f.kind \in {"has", "type", "null", "key", "unique"}
         /\ f.kind # "unique" => f.name \in Sync!ColumnNames
         /\ f.kind = "unique" => f.of \in SUBSET Sync!ColumnNames
         /\ dialect # "postgres" => f.kind = "has" /\ f.name \in DOMAIN v.columns
<1>1. DOMAIN v.columns \subseteq Sync!ColumnNames
  BY VersionShape
<1>2. CASE dialect = "postgres"
  BY <1>2 DEF Minded, Sides
<1>3. CASE dialect # "postgres"
  BY <1>1, <1>3 DEF Minded
<1> QED
  BY <1>2, <1>3

\* A statement on the columns.
LEMMA NewColumns ==
  ASSUME NEW t \in Sync!Tables, NEW names \in SUBSET Sync!ColumnNames,
         NEW c \in [names -> ColumnTypes]
  PROVE  LET u == [t EXCEPT !.columns = c] IN
         u \in Sync!Tables /\ u.columns = c /\ u.unique = t.unique
           /\ Sync!Keys(u) = Sync!Keys(t) /\ u.full = t.full
<1> DEFINE u == [t EXCEPT !.columns = c]
<1>1. /\ t = [columns |-> t.columns, unique |-> t.unique, foreign |-> t.foreign,
           full |-> t.full]
      /\ t.unique \in SUBSET SUBSET Sync!ColumnNames /\ t.foreign \in SUBSET ForeignKeys
      /\ t.full \in BOOLEAN
  BY TableParts
<1>2. u = [columns |-> c, unique |-> t.unique, foreign |-> t.foreign, full |-> t.full]
  BY <1>1
<1> HIDE DEF u
<1>3. u \in Sync!Tables
  BY <1>1, <1>2, MakesTable
<1>4. u.columns = c /\ u.unique = t.unique /\ u.foreign = t.foreign /\ u.full = t.full
  BY <1>2
<1> QED
  BY <1>3, <1>4 DEF u, Sync!Keys

WithConstraints(t, q, g) == [t EXCEPT !.unique = q, !.foreign = g]

\* A table with other constraints is a table, and the rest of it stays.
LEMMA NewConstraints ==
  ASSUME NEW t \in Sync!Tables, NEW q \in SUBSET SUBSET Sync!ColumnNames,
         NEW g \in SUBSET ForeignKeys
  PROVE  LET u == WithConstraints(t, q, g) IN
         u \in Sync!Tables /\ u.columns = t.columns /\ u.unique = q /\ u.foreign = g
           /\ u.full = t.full
<1> DEFINE u == WithConstraints(t, q, g)
<1>1. /\ t = [columns |-> t.columns, unique |-> t.unique, foreign |-> t.foreign,
           full |-> t.full]
      /\ t.columns \in [DOMAIN t.columns -> ColumnTypes]
           /\ DOMAIN t.columns \in SUBSET Sync!ColumnNames
      /\ t.full \in BOOLEAN
  BY TableParts
<1>2. u = [columns |-> t.columns, unique |-> q, foreign |-> g, full |-> t.full]
  <2> DEFINE w == [t EXCEPT !.unique = q]
  <2>1. w = [columns |-> t.columns, unique |-> q, foreign |-> t.foreign, full |-> t.full]
    BY <1>1
  <2>2. u = [w EXCEPT !.foreign = g]
    BY DEF WithConstraints
  <2> HIDE DEF u, w
  <2> QED
    BY <2>1, <2>2
<1> HIDE DEF u
<1>3. u \in Sync!Tables
  BY <1>1, <1>2, MakesTable
<1> QED
  BY <1>2, <1>3 DEF u

\* ADD COLUMN of a column that is missing brings the table nearer.
LEMMA AddNearer ==
  ASSUME Sync!SyncAssumption, dialect \in FiveDrivers, NEW v \in Versions,
         NEW t \in Sync!Tables,
         NEW n \in DOMAIN v.columns, n \notin DOMAIN t.columns
  PROVE  Nearer(t, [t EXCEPT !.columns = Sync!With(@, n, Sync!TableOf(dialect,
           v).columns[n])],
                [do |-> "add", column |-> n], v)
<1> DEFINE x == Sync!TableOf(dialect, v).columns[n]
           c == Sync!With(t.columns, n, x)
           u == [t EXCEPT !.columns = c]
           st == [do |-> "add", column |-> n]
<1>1. /\ x \in ColumnTypes /\ x.type = DriverType(dialect, v.columns[n].type)
      /\ x.nullable = v.columns[n].nullable /\ n \in Sync!ColumnNames
      /\ v.columns[n].type \in Sync!ColumnKinds
  BY MadeTable, VersionShape
<1> HIDE DEF x
<1>2. DOMAIN t.columns \in SUBSET Sync!ColumnNames
        /\ t.columns \in [DOMAIN t.columns -> ColumnTypes]
  BY TableParts
<1>3. /\ c \in [DOMAIN t.columns \cup {n} -> ColumnTypes]
           /\ DOMAIN c = DOMAIN t.columns \cup {n}
      /\ c[n] = x /\ \A m \in DOMAIN t.columns : c[m] = t.columns[m]
  BY <1>1, <1>2 DEF Sync!With
<1> HIDE DEF c
<1>4. u \in Sync!Tables /\ u.columns = c /\ u.unique = t.unique
        /\ Sync!Keys(u) = Sync!Keys(t) /\ u.full = t.full
  BY <1>1, <1>2, <1>3, NewColumns
<1> HIDE DEF u
<1>5. dialect = "postgres" => x.type = Sync!PostgresType[v.columns[n].type]
        /\ x.type \in PostgresTypes
  BY <1>1, PostgresKinds DEF DriverType
<1>6. ASSUME NEW f \in Minded(dialect, v), Agrees(t, v, f) \/ Settles(st, v, f)
      PROVE  Agrees(u, v, f)
  <2>1. /\ Settles(st, v, f) => f.kind = "has" /\ f.name = n
        /\ f.kind \in {"has", "type", "null", "key", "unique"}
        /\ dialect # "postgres" => f.kind = "has"
    BY SideFields DEF Settles
  <2>2. CASE f.kind = "has"
    BY <1>3, <1>4, <1>6, <2>1, <2>2 DEF Agrees
  <2>3. CASE f.kind = "type"
    BY <1>3, <1>4, <1>5, <1>6, <2>1, <2>3 DEF Agrees
  <2>4. CASE f.kind = "null"
    BY <1>1, <1>3, <1>4, <1>6, <2>1, <2>4 DEF Agrees
  <2>5. CASE f.kind \in {"key", "unique"}
    BY <1>4, <1>6, <2>1, <2>5 DEF Agrees
  <2> QED
    BY <2>1, <2>2, <2>3, <2>4, <2>5
<1>7. dialect = "postgres" /\ PostgresTyped(t) => PostgresTyped(u)
  BY <1>3, <1>4, <1>5 DEF PostgresTyped
<1> QED
  BY <1>4, <1>6, <1>7 DEF Nearer, u, c, x

\* DROP COLUMN of a column the version has not brings the table nearer.
LEMMA DropNearer ==
  ASSUME Sync!SyncAssumption, NEW v \in Versions, NEW t \in Sync!Tables,
         NEW n, n \notin DOMAIN v.columns
  PROVE  Nearer(t, [t EXCEPT !.columns = Sync!Without(@, n)], [do |-> "drop",
           column |-> n], v)
<1> DEFINE c == Sync!Without(t.columns, n)
           u == [t EXCEPT !.columns = c]
           st == [do |-> "drop", column |-> n]
<1>2. DOMAIN t.columns \in SUBSET Sync!ColumnNames
        /\ t.columns \in [DOMAIN t.columns -> ColumnTypes]
  BY TableParts
<1>3. /\ c \in [DOMAIN t.columns \ {n} -> ColumnTypes] /\ DOMAIN c = DOMAIN t.columns \ {n}
      /\ \A m \in DOMAIN c : c[m] = t.columns[m]
  BY <1>2 DEF Sync!Without
<1> HIDE DEF c
<1>4. u \in Sync!Tables /\ u.columns = c /\ u.unique = t.unique
        /\ Sync!Keys(u) = Sync!Keys(t) /\ u.full = t.full
  BY <1>2, <1>3, NewColumns
<1> HIDE DEF u
<1>6. ASSUME NEW f \in Minded(dialect, v), Agrees(t, v, f) \/ Settles(st, v, f)
      PROVE  Agrees(u, v, f)
  <2>1. /\ Settles(st, v, f) => f.kind = "has" /\ f.name = n
        /\ f.kind \in {"has", "type", "null", "key", "unique"}
    BY SideFields DEF Settles
  <2>2. CASE f.kind = "has"
    BY <1>3, <1>4, <1>6, <2>1, <2>2 DEF Agrees
  <2>3. CASE f.kind = "type"
    BY <1>3, <1>4, <1>6, <2>1, <2>3 DEF Agrees
  <2>4. CASE f.kind = "null"
    BY <1>3, <1>4, <1>6, <2>1, <2>4 DEF Agrees
  <2>5. CASE f.kind \in {"key", "unique"}
    BY <1>4, <1>6, <2>1, <2>5 DEF Agrees
  <2> QED
    BY <2>1, <2>2, <2>3, <2>4, <2>5
<1>7. dialect = "postgres" /\ PostgresTyped(t) => PostgresTyped(u)
  BY <1>3, <1>4 DEF PostgresTyped
<1> QED
  BY <1>4, <1>6, <1>7 DEF Nearer, u, c

\* alterColumnIfNeeded.
LEMMA AlterNearer ==
  ASSUME Sync!SyncAssumption, NEW v \in Versions, NEW t \in Sync!Tables,
         NEW n \in DOMAIN v.columns,
         n \in DOMAIN t.columns, NEW do \in {"type", "null"}, NEW x \in ColumnTypes,
         x.type = IF do = "type" THEN Sync!PostgresType[v.columns[n].type] ELSE t.columns[n].type,
         x.nullable = IF do = "null" THEN v.columns[n].nullable ELSE t.columns[n].nullable
  PROVE  Nearer(t, [t EXCEPT !.columns = [t.columns EXCEPT ![n] = x]], [do |-> do,
           column |-> n], v)
<1> DEFINE c == [t.columns EXCEPT ![n] = x]
           u == [t EXCEPT !.columns = c]
           st == [do |-> do, column |-> n]
<1>1. v.columns[n].type \in Sync!ColumnKinds
  BY VersionShape
<1>2. DOMAIN t.columns \in SUBSET Sync!ColumnNames
        /\ t.columns \in [DOMAIN t.columns -> ColumnTypes]
  BY TableParts
<1>3. /\ c \in [DOMAIN t.columns -> ColumnTypes] /\ DOMAIN c = DOMAIN t.columns
      /\ c[n] = x /\ \A m \in DOMAIN t.columns : m # n => c[m] = t.columns[m]
  BY <1>2
<1> HIDE DEF c
<1>4. u \in Sync!Tables /\ u.columns = c /\ u.unique = t.unique
        /\ Sync!Keys(u) = Sync!Keys(t) /\ u.full = t.full
  BY <1>2, <1>3, NewColumns
<1> HIDE DEF u
<1>6. ASSUME NEW f \in Minded(dialect, v), Agrees(t, v, f) \/ Settles(st, v, f)
      PROVE  Agrees(u, v, f)
  <2>1. /\ Settles(st, v, f) => f.kind = do /\ f.name = n
        /\ f.kind \in {"has", "type", "null", "key", "unique"}
    BY SideFields DEF Settles
  <2>2. CASE f.kind = "has"
    BY <1>3, <1>4, <1>6, <2>1, <2>2 DEF Agrees
  <2>3. CASE f.kind = "type"
    BY <1>3, <1>4, <1>6, <2>1, <2>3 DEF Agrees
  <2>4. CASE f.kind = "null"
    BY <1>3, <1>4, <1>6, <2>1, <2>4 DEF Agrees
  <2>5. CASE f.kind \in {"key", "unique"}
    BY <1>4, <1>6, <2>1, <2>5 DEF Agrees
  <2> QED
    BY <2>1, <2>2, <2>3, <2>4, <2>5
<1>7. dialect = "postgres" /\ PostgresTyped(t) => PostgresTyped(u)
  BY <1>1, <1>3, <1>4, PostgresKinds DEF PostgresTyped
<1> QED
  BY <1>4, <1>6, <1>7 DEF Nearer, u, c

\* dropStaleConstraints and addConstraint.
LEMMA ConstraintsNearer ==
  ASSUME Sync!SyncAssumption, NEW v \in Versions, NEW t \in Sync!Tables,
         NEW q \in SUBSET SUBSET Sync!ColumnNames, NEW g \in SUBSET ForeignKeys,
         NEW do \in {"drop constraints", "add constraints"},
         q = IF do = "drop constraints" THEN t.unique \cap v.unique ELSE t.unique \cup v.unique,
         {fk.column : fk \in g} = IF do = "drop constraints" THEN Sync!Keys(t) \cap Sync!Keys(v)
                                 ELSE Sync!Keys(t) \cup Sync!Keys(v)
  PROVE  Nearer(t, WithConstraints(t, q, g), [do |-> do, column |-> "*"], v)
<1> DEFINE u == WithConstraints(t, q, g)
           st == [do |-> do, column |-> "*"]
<1>1. u \in Sync!Tables /\ u.columns = t.columns /\ u.unique = q /\ u.foreign = g
        /\ u.full = t.full
  <2>1. t \in Sync!Tables /\ q \in SUBSET SUBSET Sync!ColumnNames
          /\ g \in SUBSET ForeignKeys
    OBVIOUS
  <2> HIDE DEF u
  <2>2. LET w == WithConstraints(t, q, g) IN
        w \in Sync!Tables /\ w.columns = t.columns /\ w.unique = q /\ w.foreign = g
          /\ w.full = t.full
    BY ONLY <2>1, NewConstraints
  <2> QED
    BY ONLY <2>2 DEF u
<1> HIDE DEF u
<1>2. Sync!Keys(u) = IF do = "drop constraints" THEN Sync!Keys(t) \cap Sync!Keys(v)
                ELSE Sync!Keys(t) \cup Sync!Keys(v)
  BY <1>1 DEF Sync!Keys
<1>6. ASSUME NEW f \in Minded(dialect, v), Agrees(t, v, f) \/ Settles(st, v, f)
      PROVE  Agrees(u, v, f)
  <2>1. /\ Settles(st, v, f) =>
              \/ (f.kind = "unique" /\ (f.of \in v.unique <=> do = "add constraints"))
              \/ (f.kind = "key" /\ (f.name \in Sync!Keys(v) <=> do = "add constraints"))
        /\ f.kind \in {"has", "type", "null", "key", "unique"}
    BY SideFields DEF Settles
  <2>2. CASE f.kind \in {"has", "type", "null"}
    BY <1>1, <1>6, <2>1, <2>2 DEF Agrees
  <2>3. CASE f.kind = "key"
    BY <1>2, <1>6, <2>1, <2>3 DEF Agrees
  <2>4. CASE f.kind = "unique"
    BY <1>1, <1>6, <2>1, <2>4 DEF Agrees
  <2> QED
    BY <2>1, <2>2, <2>3, <2>4
<1>7. dialect = "postgres" /\ PostgresTyped(t) => PostgresTyped(u)
  BY <1>1 DEF PostgresTyped
<1> QED
  BY <1>1, <1>6, <1>7 DEF Nearer, u

\* The statements of a plan, field by field.
LEMMA TowardsFields ==
  ASSUME Sync!SyncAssumption, NEW v \in Versions, NEW st \in Towards(v)
  PROVE  /\ st = [do |-> st.do, column |-> st.column]
         /\ st.do \in {"create", "create if not exists", "drop constraints",
              "add constraints",
                       "add", "type", "null", "drop"}
         /\ st.do \in {"add", "type", "null"} => st.column \in DOMAIN v.columns
         /\ st.do = "drop" => st.column \notin DOMAIN v.columns
         /\ st.do \in {"drop constraints", "add constraints"} => st.column = "*"
  BY DEF Towards

\* What postgres makes of a version's columns and foreign keys.
LEMMA PostgresMakes ==
  ASSUME Sync!SyncAssumption, NEW v \in Versions
  PROVE  /\ \A n \in DOMAIN v.columns : Sync!PostgresColumns(v)[n].type = Sync!PostgresType[v.columns[n].type]
         /\ Sync!PostgresTable(v).foreign \in SUBSET ForeignKeys
              /\ Sync!Keys(Sync!PostgresTable(v)) = Sync!Keys(v)
<1> DEFINE t == Sync!TableOf("postgres", v)
<1>1. /\ \A n \in DOMAIN v.columns : t.columns[n].type = DriverType("postgres",
           v.columns[n].type)
      /\ Sync!Keys(t) = Sync!Keys(v) /\ t.foreign \in SUBSET ForeignKeys
  BY MadeTable DEF FiveDrivers
<1>2. t = Sync!PostgresTable(v) /\ t.columns = Sync!PostgresColumns(v)
  BY DEF Sync!TableOf, Sync!PostgresTable, Sync!Constrained
<1>3. \A k : DriverType("postgres", k) = Sync!PostgresType[k]
  BY DEF DriverType
<1> QED
  BY <1>1, <1>2, <1>3

\* A statement on a table that is there brings it nearer to the version.
LEMMA ExecutedNearer ==
  ASSUME Sync!SyncAssumption, dialect \in FiveDrivers, db \in Bases, db.table # Absent,
         NEW v \in Versions, NEW st \in Towards(v), st.do \notin Creations,
           ~Sync!Refused(st, v)
  PROVE  LET e == Sync!Executed(st, v) IN
         /\ e \in Bases /\ e.temp = db.temp /\ e.table # Absent
         /\ Nearer(db.table, e.table, st, v)
<1> DEFINE e == Sync!Executed(st, v)
           t == db.table
           n == st.column
<1>1. t \in Sync!Tables /\ db = [table |-> t, temp |-> db.temp]
        /\ db.temp \in Sync!Tables \cup {Absent}
  BY DEF Bases
<1>2. /\ st = [do |-> st.do, column |-> n]
      /\ st.do \in {"drop constraints", "add constraints", "add", "type", "null", "drop"}
      /\ st.do \in {"add", "type", "null"} => n \in DOMAIN v.columns
      /\ st.do = "drop" => n \notin DOMAIN v.columns
      /\ st.do \in {"drop constraints", "add constraints"} => n = "*"
  BY TowardsFields DEF Creations
<1> SUFFICES ASSUME NEW u, e = [db EXCEPT !.table = u], Nearer(t, u, st, v)
             PROVE  e \in Bases /\ e.temp = db.temp /\ e.table # Absent
                      /\ Nearer(t, e.table, st, v)
  <2>1. CASE st.do = "add"
    <3> DEFINE u == [t EXCEPT !.columns = Sync!With(@, n, Sync!TableOf(dialect,
          v).columns[n])]
    <3>1. n \in DOMAIN v.columns /\ n \notin DOMAIN t.columns
      BY <1>2, <2>1 DEF Sync!Refused
    <3>2. Nearer(t, u, st, v)
      BY <1>1, <1>2, <2>1, <3>1, AddNearer
    <3>3. e = [db EXCEPT !.table.columns = Sync!With(@, n, Sync!TableOf(dialect,
            v).columns[n])]
      BY <2>1 DEF Sync!Executed
    <3>4. e = [db EXCEPT !.table = u]
      BY <3>3
    <3> QED
      BY <3>2, <3>4
  <2>2. CASE st.do = "drop"
    <3> DEFINE u == [t EXCEPT !.columns = Sync!Without(@, n)]
    <3>1. n \notin DOMAIN v.columns
      BY <1>2, <2>2
    <3>2. Nearer(t, u, st, v)
      BY <1>1, <1>2, <2>2, <3>1, DropNearer
    <3>3. e = [db EXCEPT !.table.columns = Sync!Without(@, n)]
      BY <2>2 DEF Sync!Executed
    <3>4. e = [db EXCEPT !.table = u]
      BY <3>3
    <3> QED
      BY <3>2, <3>4
  <2>3. CASE st.do \in {"type", "null"}
    <3>1. /\ n \in DOMAIN v.columns /\ n \in DOMAIN t.columns
          /\ Sync!PostgresColumns(v)[n].type = Sync!PostgresType[v.columns[n].type]
      BY <1>2, <2>3, PostgresMakes DEF Sync!Refused
    <3> DEFINE k == t.columns[n]
               x == IF st.do = "type" THEN [k EXCEPT !.type = Sync!PostgresColumns(v)[n].type]
                    ELSE [k EXCEPT !.nullable = v.columns[n].nullable]
               u == [t EXCEPT !.columns = [t.columns EXCEPT ![n] = x]]
    <3>2. k \in ColumnTypes
      BY <1>1, <3>1, TableParts
    <3>3. /\ Sync!PostgresType[v.columns[n].type] \in Sync!DatabaseTypes
          /\ v.columns[n].nullable \in BOOLEAN
      BY <3>1, VersionShape, PostgresKinds
    <3>4. /\ x \in ColumnTypes
          /\ x.type = IF st.do = "type" THEN Sync!PostgresType[v.columns[n].type] ELSE k.type
          /\ x.nullable = IF st.do = "null" THEN v.columns[n].nullable ELSE k.nullable
      BY <2>3, <3>1, <3>2, <3>3 DEF ColumnTypes
    <3>5. e = [db EXCEPT !.table = u]
      <4>1. CASE st.do = "type"
        <5>1. e = [db EXCEPT !.table.columns[n].type = Sync!PostgresColumns(v)[n].type]
          BY <4>1 DEF Sync!Executed
        <5>2. x = [k EXCEPT !.type = Sync!PostgresColumns(v)[n].type]
          BY <4>1
        <5> QED
          BY <5>1, <5>2
      <4>2. CASE st.do = "null"
        <5>1. e = [db EXCEPT !.table.columns[n].nullable = v.columns[n].nullable]
          BY <4>2 DEF Sync!Executed
        <5>2. x = [k EXCEPT !.nullable = v.columns[n].nullable]
          BY <4>2
        <5> QED
          BY <5>1, <5>2
      <4> QED
        BY <2>3, <4>1, <4>2
    <3> HIDE DEF x
    <3>6. Nearer(t, u, [do |-> st.do, column |-> n], v)
      BY <1>1, <2>3, <3>1, <3>4, AlterNearer
    <3> QED
      BY <1>2, <3>5, <3>6
  <2>4. CASE st.do \in {"drop constraints", "add constraints"}
    <3> DEFINE q == IF st.do = "drop constraints" THEN t.unique \cap v.unique
                    ELSE t.unique \cup v.unique
               g == IF st.do = "drop constraints" THEN {fk \in t.foreign : fk.column \in Sync!Keys(v)}
                    ELSE t.foreign \cup {fk \in Sync!PostgresTable(v).foreign : fk.column \notin Sync!Keys(t)}
               u == WithConstraints(t, q, g)
    <3>1. /\ t.unique \in SUBSET SUBSET Sync!ColumnNames
               /\ v.unique \in SUBSET SUBSET Sync!ColumnNames
          /\ t.foreign \in SUBSET ForeignKeys
               /\ Sync!PostgresTable(v).foreign \in SUBSET ForeignKeys
          /\ Sync!Keys(Sync!PostgresTable(v)) = Sync!Keys(v)
      BY <1>1, TableParts, VersionShape, PostgresMakes
    <3>2. q \in SUBSET SUBSET Sync!ColumnNames /\ g \in SUBSET ForeignKeys
      BY <3>1
    <3>3. {fk.column : fk \in g} = IF st.do = "drop constraints" THEN Sync!Keys(t) \cap Sync!Keys(v)
                                   ELSE Sync!Keys(t) \cup Sync!Keys(v)
      <4>1. CASE st.do = "drop constraints"
        BY <4>1 DEF Sync!Keys
      <4>2. CASE st.do = "add constraints"
        <5> DEFINE p == Sync!PostgresTable(v).foreign
        <5>1. Sync!Keys(v) = {fk.column : fk \in p}
          BY <3>1 DEF Sync!Keys
        <5> HIDE DEF p
        <5>2. g = t.foreign \cup {fk \in p : fk.column \notin Sync!Keys(t)}
          BY <4>2 DEF p
        <5>3. {fk.column : fk \in g} = Sync!Keys(t) \cup {fk.column : fk \in p}
          BY <5>2 DEF Sync!Keys
        <5> QED
          BY <4>2, <5>1, <5>3
      <4> QED
        BY <2>4, <4>1, <4>2
    <3>4. e = [db EXCEPT !.table = u]
      <4>1. CASE st.do = "drop constraints"
        <5>1. e = [db EXCEPT !.table.unique = @ \cap v.unique,
                             !.table.foreign = {fk \in @ : fk.column \in Sync!Keys(v)}]
          BY <4>1 DEF Sync!Executed
        <5> QED
          BY <4>1, <5>1 DEF WithConstraints
      <4>2. CASE st.do = "add constraints"
        <5>1. e = [db EXCEPT !.table.unique = @ \cup v.unique,
                             !.table.foreign = @ \cup
                                 {fk \in Sync!PostgresTable(v).foreign : fk.column \notin Sync!Keys(db.table)}]
          BY <4>2 DEF Sync!Executed
        <5> QED
          BY <4>2, <5>1 DEF WithConstraints
      <4> QED
        BY <2>4, <4>1, <4>2
    <3>5. q = IF st.do = "drop constraints" THEN t.unique \cap v.unique ELSE t.unique \cup v.unique
      OBVIOUS
    <3> HIDE DEF q, g
    <3>6. Nearer(t, u, [do |-> st.do, column |-> "*"], v)
      <4> DEFINE do == st.do
      <4>1. do \in {"drop constraints", "add constraints"}
        BY <2>4
      <4> HIDE DEF do
      <4>2. Nearer(t, u, [do |-> do, column |-> "*"], v)
        BY <1>1, <3>2, <3>3, <3>5, <4>1, ConstraintsNearer DEF do
      <4> QED
        BY <4>2 DEF do
    <3> QED
      BY <1>2, <2>4, <3>4, <3>6
  <2> QED
    BY <1>2, <2>1, <2>2, <2>3, <2>4
<1>3. e = [table |-> u, temp |-> db.temp]
  BY <1>1
<1>4. u \in Sync!Tables /\ Absent \notin Sync!Tables
  BY DEF Nearer, Sync!SyncAssumption
<1> HIDE DEF e
<1> QED
  BY <1>1, <1>3, <1>4 DEF Bases

\* Whether a table, once the statements P were executed, agrees with v in all
\* that ensureTable looks at.  A "create" that stands in P of a table that is
\* there is refused.
CoveredBy(d, t, P, v) ==
    IF t = Absent THEN \E st \in P : st.do \in Creations
    ELSE \/ \E st \in P : st.do = "create"
         \/ \A f \in Minded(d, v) : Agrees(t, v, f) \/ \E st \in P : Settles(st, v, f)

\* A table that was created for a version agrees with it.
LEMMA CreatedAgrees ==
  ASSUME Sync!SyncAssumption, dialect \in FiveDrivers, NEW v \in Versions,
         NEW full \in BOOLEAN
  PROVE  LET t == Sync!CreatedTable(dialect, v, full) IN
         /\ dialect = "postgres" => PostgresTyped(t)
         /\ \A f \in Minded(dialect, v) : Agrees(t, v, f)
<1> DEFINE t == Sync!CreatedTable(dialect, v, full)
<1>1. /\ DOMAIN t.columns = DOMAIN v.columns /\ t.unique = v.unique
           /\ Sync!Keys(t) = Sync!Keys(v)
      /\ t.columns = Sync!TableOf(dialect, v).columns
  BY Created
<1>2. \A n \in DOMAIN v.columns :
        /\ t.columns[n].type = DriverType(dialect, v.columns[n].type)
                                  /\ t.columns[n].nullable = v.columns[n].nullable
                                  /\ v.columns[n].type \in Sync!ColumnKinds
  BY <1>1, MadeTable, VersionShape
<1> HIDE DEF t
<1>3. dialect = "postgres" =>
        \A n \in DOMAIN v.columns :
          /\ t.columns[n].type = Sync!PostgresType[v.columns[n].type]
                                    /\ t.columns[n].type \in PostgresTypes
  BY <1>2, PostgresKinds DEF DriverType
<1>4. ASSUME NEW f \in Minded(dialect, v)
      PROVE  Agrees(t, v, f)
  <2>1. f.kind \in {"has", "type", "null", "key", "unique"} /\ (dialect # "postgres" =>
          f.kind = "has")
    BY SideFields
  <2> QED
    BY <1>1, <1>2, <1>3, <2>1 DEF Agrees
<1>5. dialect = "postgres" => PostgresTyped(t)
  BY <1>1, <1>3 DEF PostgresTyped
<1> QED
  BY <1>4, <1>5 DEF t

\* What the statements of the servers' drivers need and keep.
Served ==
    /\ db \in Bases /\ db.temp = Absent /\ (db.table # Absent => db.table.full)
    /\ dialect = "postgres" /\ db.table # Absent => PostgresTyped(db.table)

\* A statement of a plan brings the table nearer: what the rest of the plan is
\* to do, and what a run for the same version has done or is to do, is no more.
LEMMA StatementServes ==
  ASSUME Sync!SyncAssumption, dialect \in FiveDrivers, Served, NEW v \in Versions,
         NEW st \in Towards(v), ~Sync!Refused(st, v), db.table = Absent => st.do \in Creations
  PROVE  LET e == Sync!Executed(st, v) IN
         /\ e \in Bases /\ e.temp = Absent /\ e.table # Absent /\ e.table.full
         /\ dialect = "postgres" => PostgresTyped(e.table)
         /\ \A P : CoveredBy(dialect, db.table, P, v) =>
              CoveredBy(dialect, e.table, P \ {st}, v)
<1> DEFINE e == Sync!Executed(st, v)
<1>1. st.do \in {"create", "create if not exists", "drop constraints", "add constraints",
                 "add", "type", "null", "drop"}
  BY TowardsFields
<1>2. db = [table |-> db.table, temp |-> Absent]
        /\ db.table \in Sync!Tables \cup {Absent} /\ Absent \notin Sync!Tables
  BY DEF Served, Bases, Sync!SyncAssumption
<1>3. CASE st.do \in Creations
  <2>1. e = [db EXCEPT !.table = IF @ = Absent THEN Sync!CreatedTable(dialect, v,
          db.temp = Absent) ELSE @]
    BY <1>3 DEF Sync!Executed, Creations
  <2>2. CASE db.table = Absent
    <3> DEFINE t == Sync!CreatedTable(dialect, v, TRUE)
    <3>1. e = [table |-> t, temp |-> Absent]
      <4> DEFINE b == db.temp = Absent
      <4>1. b = TRUE
        BY DEF Served
      <4> HIDE DEF b
      <4>2. e = [db EXCEPT !.table = Sync!CreatedTable(dialect, v, b)]
        BY <2>1, <2>2 DEF b
      <4>3. e = [db EXCEPT !.table = t]
        BY <4>1, <4>2
      <4> HIDE DEF t, e
      <4> QED
        BY <1>2, <4>3
    <3>2. t \in Sync!Tables /\ t # Absent /\ t.full
      BY Created
    <3>3. (dialect = "postgres" => PostgresTyped(t))
            /\ \A f \in Minded(dialect, v) : Agrees(t, v, f)
      BY CreatedAgrees
    <3> HIDE DEF t
    <3> HIDE DEF e
    <3> QED
      BY <3>1, <3>2, <3>3 DEF e, Bases, CoveredBy
  <2>3. CASE db.table # Absent
    <3>1. e = db /\ st.do # "create"
      BY <1>2, <2>1, <2>3 DEF Sync!Refused
    <3>2. \A f \in Minded(dialect, v) : ~Settles(st, v, f)
      BY <1>3 DEF Settles, Creations
    <3>3. ASSUME NEW P, CoveredBy(dialect, db.table, P, v)
          PROVE  CoveredBy(dialect, db.table, P \ {st}, v)
      BY <2>3, <3>1, <3>2, <3>3 DEF CoveredBy
    <3> QED
      BY <2>3, <3>1, <3>3 DEF Served
  <2> QED
    BY <2>2, <2>3
<1>4. CASE st.do \notin Creations
  <2>1. db \in Bases /\ db.table # Absent
    BY <1>4 DEF Served
  <2>2. e \in Bases /\ e.temp = db.temp /\ e.table # Absent
          /\ Nearer(db.table, e.table, st, v)
    BY <1>4, <2>1, ExecutedNearer
  <2> HIDE DEF e
  <2>3. ASSUME NEW P, CoveredBy(dialect, db.table, P, v)
        PROVE  CoveredBy(dialect, e.table, P \ {st}, v)
    <3>1. CASE \E x \in P : x.do = "create"
      BY <1>4, <2>2, <3>1 DEF CoveredBy, Creations
    <3>2. CASE \A f \in Minded(dialect, v) : Agrees(db.table, v, f)
            \/ \E x \in P : Settles(x, v, f)
      <4>1. ASSUME NEW f \in Minded(dialect, v)
            PROVE  Agrees(e.table, v, f) \/ \E x \in P \ {st} : Settles(x, v, f)
        BY <2>2, <3>2 DEF Nearer
      <4> QED
        BY <2>2, <4>1 DEF CoveredBy
    <3> QED
      BY <2>1, <2>3, <3>1, <3>2 DEF CoveredBy
  <2>4. e.table.full /\ (dialect = "postgres" => PostgresTyped(e.table))
    BY <2>1, <2>2 DEF Nearer, Served
  <2> QED
    BY <2>1, <2>2, <2>3, <2>4 DEF e, Served
<1> QED
  BY <1>3, <1>4

\* More statements cover no less.
LEMMA CoveredMore ==
  ASSUME NEW t, NEW P, NEW Q, P \subseteq Q, NEW v, CoveredBy(dialect, t, P, v)
  PROVE  CoveredBy(dialect, t, Q, v)
BY DEF CoveredBy

-----------------------------------------------------------------------------
(* TableSync: the plans of the servers' drivers.                           *)

Stmt(do, column) == [do |-> do, column |-> column]

\* A plan of one statement has that statement.
LEMMA OneList ==
  ASSUME NEW do
  PROVE  ListOf(Sync!One(do), {Stmt(do, "*")})
<1>1. Sync!One(do) = <<Stmt(do, "*")>>
  BY DEF Sync!One, Stmt
<1> DEFINE x == Stmt(do, "*")
           s == <<x>>
<1>2. s \in Seq({x}) /\ DOMAIN s = {1} /\ s[1] = x
  OBVIOUS
<1>3. Members(s) = {x}
  <2> HIDE DEF s
  <2> QED
    BY <1>2 DEF Members
<1> QED
  BY <1>1, <1>2, <1>3 DEF ListOf

\* A plan of one statement for each name has those statements.
LEMMA EachList ==
  ASSUME NEW do, NEW names, IsFiniteSet(names)
  PROVE  ListOf(Sync!Each(do, names), {Stmt(do, n) : n \in names})
<1> DEFINE F == [n \in names |-> Stmt(do, n)]
           s == Sync!Each(do, names)
           o == AsList(names)
           P == {Stmt(do, n) : n \in names}
<1>1. Sync!SetToSeq(names) = o
  BY DEF Sync!SetToSeq, AsList, Sync!IsInjective, Sync!Cardinality, Cardinality,
         Sync!IsFiniteSet, IsFiniteSet
<1>2. o \in [1..Cardinality(names) -> names]
  BY ListMembers
<1> HIDE DEF o
<1>3. s = [i \in DOMAIN o |-> [do |-> do, column |-> o[i]]]
  BY <1>1 DEF Sync!Each
<1> HIDE DEF s
<1>4. MadeBy(s, F, names)
  BY <1>2, <1>3 DEF Stmt, MadeBy, o
<1>5. Images(F, names) = P
  BY DEF Images
<1> HIDE DEF P, F
<1>6. ListOf(s, Images(F, names))
  BY <1>4, MadeMembers
<1> QED
  BY <1>5, <1>6 DEF s, P

\* Which statements bring a table to a version.
LEMMA TowardsStatements ==
  ASSUME NEW v
  PROVE  /\ \A n \in DOMAIN v.columns : \A do \in {"add", "type", "null"} : Stmt(do,
              n) \in Towards(v)
         /\ \A n \in Sync!ColumnNames \ DOMAIN v.columns : Stmt("drop", n) \in Towards(v)
         /\ \A do \in {"create", "create if not exists", "drop constraints",
              "add constraints"} :
               Stmt(do, "*") \in Towards(v)
BY DEF Towards, Stmt

\* What postgres is to execute on a table that is there.
PostgresSet(t, v) ==
    LET common == DOMAIN v.columns \cap DOMAIN t.columns IN
    {Stmt("add", n) : n \in DOMAIN v.columns \ DOMAIN t.columns}
    \cup {Stmt("drop", n) : n \in DOMAIN t.columns \ DOMAIN v.columns}
    \cup {Stmt("type", n) : n \in {m \in common : Sync!FromPostgresType[t.columns[m].type] # v.columns[m].type}}
    \cup {Stmt("null", n) : n \in {m \in common : t.columns[m].nullable # v.columns[m].nullable}}
    \cup {Stmt("drop constraints", "*"), Stmt("add constraints", "*")}

\* The plan of the postgres driver has the statements PostgresSet names.
LEMMA PostgresList ==
  ASSUME Sync!SyncAssumption, NEW v \in Versions, NEW t \in Sync!Tables
  PROVE  ListOf(Sync!PostgresPlan(t, v), PostgresSet(t, v))
<1> DEFINE common == DOMAIN v.columns \cap DOMAIN t.columns
           a == DOMAIN v.columns \ DOMAIN t.columns
           b == DOMAIN t.columns \ DOMAIN v.columns
           c == {m \in common : Sync!FromPostgresType[t.columns[m].type] # v.columns[m].type}
           d == {m \in common : t.columns[m].nullable # v.columns[m].nullable}
<1>1. DOMAIN v.columns \in SUBSET Sync!ColumnNames
        /\ DOMAIN t.columns \in SUBSET Sync!ColumnNames
  BY VersionShape, TableParts
<1>2. IsFiniteSet(a) /\ IsFiniteSet(b) /\ IsFiniteSet(c) /\ IsFiniteSet(d)
  <2>1. a \subseteq Sync!ColumnNames /\ b \subseteq Sync!ColumnNames
          /\ c \subseteq Sync!ColumnNames /\ d \subseteq Sync!ColumnNames
    BY <1>1
  <2>2. IsFiniteSet(Sync!ColumnNames)
    BY DEF Sync!SyncAssumption, Sync!IsFiniteSet, IsFiniteSet
  <2> HIDE DEF a, b, c, d
  <2> QED
    BY <2>1, <2>2, FS_Subset
<1>3. t # Absent
  BY DEF Sync!SyncAssumption
<1>4. Sync!PostgresPlan(t, v) =
        ((Sync!Each("add", a) \o Sync!Each("drop", b)) \o (Sync!Each("type",
          c) \o Sync!Each("null", d)))
        \o (Sync!One("drop constraints") \o Sync!One("add constraints"))
  BY <1>3
  DEF Sync!PostgresPlan, Sync!Missing, Sync!Obsolete, Sync!AlterColumns,
      Sync!SyncConstraints
<1>5. PostgresSet(t, v) =
        (({Stmt("add", n) : n \in a} \cup {Stmt("drop", n) : n \in b})
         \cup ({Stmt("type", n) : n \in c} \cup {Stmt("null", n) : n \in d}))
        \cup ({Stmt("drop constraints", "*")} \cup {Stmt("add constraints", "*")})
  <2>1. PostgresSet(t, v) =
          {Stmt("add", n) : n \in a} \cup {Stmt("drop", n) : n \in b}
          \cup {Stmt("type", n) : n \in c} \cup {Stmt("null", n) : n \in d}
          \cup {Stmt("drop constraints", "*"), Stmt("add constraints", "*")}
    BY DEF PostgresSet
  <2> HIDE DEF a, b, c, d
  <2> QED
    BY <2>1
<1> HIDE DEF a, b, c, d
<1> DEFINE A == {Stmt("add", n) : n \in a}
           B == {Stmt("drop", n) : n \in b}
           C == {Stmt("type", n) : n \in c}
           D == {Stmt("null", n) : n \in d}
           E == {Stmt("drop constraints", "*")}
           G == {Stmt("add constraints", "*")}
<1>6. /\ ListOf(Sync!Each("add", a), A) /\ ListOf(Sync!Each("drop", b), B)
      /\ ListOf(Sync!Each("type", c), C) /\ ListOf(Sync!Each("null", d), D)
      /\ ListOf(Sync!One("drop constraints"), E) /\ ListOf(Sync!One("add constraints"), G)
  BY <1>2, EachList, OneList
<1>7. Sync!PostgresPlan(t, v) =
        Joined(Joined(Joined(Sync!Each("add", a), Sync!Each("drop", b)),
          Joined(Sync!Each("type", c), Sync!Each("null", d))),
               Joined(Sync!One("drop constraints"), Sync!One("add constraints")))
  BY <1>4 DEF Joined
<1> HIDE DEF A, B, C, D, E, G
<1>8. /\ ListOf(Joined(Sync!Each("add", a), Sync!Each("drop", b)), A \cup B)
      /\ ListOf(Joined(Sync!Each("type", c), Sync!Each("null", d)), C \cup D)
      /\ ListOf(Joined(Sync!One("drop constraints"), Sync!One("add constraints")), E \cup G)
  BY ONLY <1>6, JoinMembers
<1>9. ListOf(Joined(Joined(Sync!Each("add", a), Sync!Each("drop", b)),
        Joined(Sync!Each("type", c), Sync!Each("null", d))),
             (A \cup B) \cup (C \cup D))
  BY ONLY <1>8, JoinMembers
<1> DEFINE l == Joined(Joined(Sync!Each("add", a), Sync!Each("drop", b)),
      Joined(Sync!Each("type", c), Sync!Each("null", d)))
           r == Joined(Sync!One("drop constraints"), Sync!One("add constraints"))
<1>10. ListOf(Joined(l, r), ((A \cup B) \cup (C \cup D)) \cup (E \cup G))
  <2>1. ListOf(l, (A \cup B) \cup (C \cup D)) /\ ListOf(r, E \cup G)
    BY <1>8, <1>9
  <2> HIDE DEF l, r
  <2> QED
    BY ONLY <2>1, JoinMembers
<1> QED
  BY <1>5, <1>7, <1>10 DEF A, B, C, D, E, G

\* A column's type in postgres tells its kind.
LEMMA PostgresCovers ==
  ASSUME Sync!SyncAssumption, dialect = "postgres", NEW v \in Versions,
         NEW t \in Sync!Tables, PostgresTyped(t)
  PROVE  /\ PostgresSet(t, v) \subseteq Towards(v)
         /\ CoveredBy(dialect, t, PostgresSet(t, v), v)
<1>1. DOMAIN v.columns \in SUBSET Sync!ColumnNames
        /\ DOMAIN t.columns \in SUBSET Sync!ColumnNames
  BY VersionShape, TableParts
<1>2. PostgresSet(t, v) \subseteq Towards(v)
  <2> SUFFICES ASSUME NEW st \in PostgresSet(t, v) PROVE st \in Towards(v)
    OBVIOUS
  <2>1. \/ \E n \in DOMAIN v.columns : \E do \in {"add", "type", "null"} : st = Stmt(do, n)
        \/ \E n \in Sync!ColumnNames \ DOMAIN v.columns : st = Stmt("drop", n)
        \/ \E do \in {"drop constraints", "add constraints"} : st = Stmt(do, "*")
    BY <1>1 DEF PostgresSet
  <2> QED
    BY <2>1, TowardsStatements
<1>3. ASSUME NEW f \in Minded(dialect, v)
      PROVE  Agrees(t, v, f) \/ \E st \in PostgresSet(t, v) : Settles(st, v, f)
  <2>1. /\ f.kind \in {"has", "type", "null", "key", "unique"}
        /\ f.kind # "unique" => f.name \in Sync!ColumnNames
    BY SideFields
  <2>2. CASE f.kind = "has"
    <3> DEFINE x == Stmt("add", f.name)
               y == Stmt("drop", f.name)
    <3>1. /\ f.name \in DOMAIN v.columns \ DOMAIN t.columns => x \in PostgresSet(t, v)
          /\ f.name \in DOMAIN t.columns \ DOMAIN v.columns => y \in PostgresSet(t, v)
      BY DEF PostgresSet
    <3>2. Settles(x, v, f) /\ Settles(y, v, f)
      BY <2>2 DEF Settles, Stmt
    <3>3. CASE f.name \in DOMAIN t.columns <=> f.name \in DOMAIN v.columns
      BY <2>2, <3>3 DEF Agrees
    <3> HIDE DEF x, y
    <3> QED
      BY <3>1, <3>2, <3>3
  <2>3. CASE f.kind = "type"
    <3> DEFINE x == Stmt("type", f.name)
               n == f.name
    <3>1. Settles(x, v, f)
      BY <2>3 DEF Settles, Stmt
    <3>2. CASE n \in DOMAIN t.columns /\ n \in DOMAIN v.columns
      <4>1. CASE Sync!FromPostgresType[t.columns[n].type] # v.columns[n].type
        <5>1. x \in PostgresSet(t, v)
          BY <3>2, <4>1 DEF PostgresSet
        <5> HIDE DEF x
        <5> QED
          BY <3>1, <5>1
      <4>2. CASE Sync!FromPostgresType[t.columns[n].type] = v.columns[n].type
        <5>1. v.columns[n].type \in Sync!ColumnKinds /\ t.columns[n].type \in PostgresTypes
          BY <3>2, VersionShape DEF PostgresTyped
        <5>2. t.columns[n].type = Sync!PostgresType[v.columns[n].type]
          BY <4>2, <5>1, PostgresKinds
        <5> QED
          BY <2>3, <5>2 DEF Agrees
      <4> QED
        BY <4>1, <4>2
    <3>3. CASE ~(n \in DOMAIN t.columns /\ n \in DOMAIN v.columns)
      BY <2>3, <3>3 DEF Agrees
    <3> QED
      BY <3>2, <3>3
  <2>4. CASE f.kind = "null"
    <3> DEFINE x == Stmt("null", f.name)
               n == f.name
    <3>1. Settles(x, v, f)
      BY <2>4 DEF Settles, Stmt
    <3>2. CASE n \in DOMAIN t.columns /\ n \in DOMAIN v.columns
            /\ t.columns[n].nullable # v.columns[n].nullable
      <4>1. x \in PostgresSet(t, v)
        BY <3>2 DEF PostgresSet
      <4> HIDE DEF x
      <4> QED
        BY <3>1, <4>1
    <3>3. CASE ~(n \in DOMAIN t.columns /\ n \in DOMAIN v.columns
            /\ t.columns[n].nullable # v.columns[n].nullable)
      BY <2>4, <3>3 DEF Agrees
    <3> QED
      BY <3>2, <3>3
  <2>5. CASE f.kind \in {"key", "unique"}
    <3> DEFINE x == Stmt("drop constraints", "*")
               y == Stmt("add constraints", "*")
    <3>1. x \in PostgresSet(t, v) /\ y \in PostgresSet(t, v)
      BY DEF PostgresSet
    <3>2. Settles(x, v, f) \/ Settles(y, v, f)
      BY <2>5 DEF Settles, Stmt
    <3> HIDE DEF x, y
    <3> QED
      BY <3>1, <3>2
  <2> QED
    BY <2>1, <2>2, <2>3, <2>4, <2>5
<1>4. t # Absent
  BY DEF Sync!SyncAssumption
<1> QED
  BY <1>2, <1>3, <1>4 DEF CoveredBy

\* The other servers' drivers add the columns that are missing.
Additions(t, v) == {Stmt("add", n) : n \in DOMAIN v.columns \ DOMAIN t.columns}

\* The plan of mysql, mssql and oracle adds every column that is missing.
LEMMA AdditionsCover ==
  ASSUME Sync!SyncAssumption, dialect # "postgres", NEW v \in Versions,
         NEW t \in Sync!Tables
  PROVE  /\ ListOf(Sync!Each("add", Sync!Missing(t, v)), Additions(t, v))
         /\ Additions(t, v) \subseteq Towards(v)
         /\ CoveredBy(dialect, t, Additions(t, v), v)
<1> DEFINE a == DOMAIN v.columns \ DOMAIN t.columns
<1>1. IsFiniteSet(a)
  <2>1. a \subseteq Sync!ColumnNames
    BY VersionShape
  <2>2. IsFiniteSet(Sync!ColumnNames)
    BY DEF Sync!SyncAssumption, Sync!IsFiniteSet, IsFiniteSet
  <2> HIDE DEF a
  <2> QED
    BY <2>1, <2>2, FS_Subset
<1>2. ListOf(Sync!Each("add", Sync!Missing(t, v)), Additions(t, v))
  <2>1. Sync!Missing(t, v) = a /\ Additions(t, v) = {Stmt("add", n) : n \in a}
    BY DEF Sync!Missing, Additions
  <2> HIDE DEF a
  <2>2. ListOf(Sync!Each("add", a), {Stmt("add", n) : n \in a})
    BY <1>1, EachList
  <2> QED
    BY <2>1, <2>2
<1>3. Additions(t, v) \subseteq Towards(v)
  BY TowardsStatements DEF Additions
<1>4. ASSUME NEW f \in Minded(dialect, v)
      PROVE  Agrees(t, v, f) \/ \E st \in Additions(t, v) : Settles(st, v, f)
  <2>1. f.kind = "has" /\ f.name \in DOMAIN v.columns
    BY SideFields
  <2>2. CASE f.name \in DOMAIN t.columns
    BY <2>1, <2>2 DEF Agrees
  <2>3. CASE f.name \notin DOMAIN t.columns
    <3> DEFINE x == Stmt("add", f.name)
    <3>1. x \in Additions(t, v)
      BY <2>1, <2>3 DEF Additions
    <3>2. Settles(x, v, f)
      BY <2>1 DEF Settles, Stmt
    <3> HIDE DEF x
    <3> QED
      BY <3>1, <3>2
  <2> QED
    BY <2>2, <2>3
<1>5. t # Absent
  BY DEF Sync!SyncAssumption
<1> QED
  BY <1>2, <1>3, <1>4, <1>5 DEF CoveredBy

\* The list l is one of statements for v that cover all of it.
Serves(l, t, S, v) ==
    /\ S \in SUBSET Towards(v) /\ ListOf(l, S) /\ CoveredBy(dialect, t, S, v)
    /\ t = Absent => \A st \in S : st.do \in Creations

\* The plan of an ensureTable that begins covers all that the driver looks at.
LEMMA PlanCovers ==
  ASSUME Sync!SyncAssumption, dialect \in FiveDrivers, dialect # "sqlite", Served,
         NEW p \in Processes, NEW v \in Versions
  PROVE  /\ Sync!Plan(p, v) \in Seq(Towards(v))
              /\ CoveredBy(dialect, db.table, Members(Sync!Plan(p, v)), v)
         /\ db.table = Absent => \A st \in Members(Sync!Plan(p, v)) : st.do \in Creations
<1> DEFINE l == Sync!Plan(p, v)
           t == db.table
<1>1. \/ dialect = "postgres" /\ l = Sync!PostgresPlan(t, v)
      \/ dialect = "mysql" /\ l = Sync!MySqlPlan(t, v)
      \/ dialect = "mssql" /\ l = Sync!MssqlPlan(t, v)
      \/ dialect = "oracle" /\ l = Sync!OraclePlan(t, v)
  BY DEF Sync!Plan, FiveDrivers
<1>2. t \in Sync!Tables \cup {Absent} /\ Absent \notin Sync!Tables
  BY DEF Served, Bases, Sync!SyncAssumption
<1>5. \E S : Serves(l, t, S, v)
  <2>3. CASE \/ l = Sync!One("create") /\ (t = Absent \/ dialect = "oracle")
             \/ l = Sync!One("create if not exists") /\ t = Absent
    <3>1. PICK do \in Creations : l = Sync!One(do) /\ (t = Absent \/ do = "create")
      BY <2>3 DEF Creations
    <3> DEFINE x == Stmt(do, "*")
    <3>2. ListOf(l, {x})
      BY <3>1, OneList
    <3>3. x \in Towards(v) /\ x.do = do
      BY TowardsStatements DEF Stmt, Creations
    <3> HIDE DEF x, l
    <3>4. CoveredBy(dialect, t, {x}, v)
      BY <3>1, <3>3 DEF CoveredBy
    <3> QED
      BY <3>1, <3>2, <3>3, <3>4 DEF Serves
  <2>4. CASE dialect = "postgres" /\ t # Absent
    <3>1. l = Sync!PostgresPlan(t, v) /\ t \in Sync!Tables /\ PostgresTyped(t)
      BY <1>1, <1>2, <2>4 DEF Served
    <3> HIDE DEF l, t
    <3>2. ListOf(l, PostgresSet(t, v)) /\ PostgresSet(t, v) \subseteq Towards(v)
            /\ CoveredBy(dialect, t, PostgresSet(t, v), v)
      BY <2>4, <3>1, PostgresList, PostgresCovers
    <3> QED
      BY <2>4, <3>2 DEF Serves
  <2>5. CASE dialect # "postgres" /\ t # Absent /\ l = Sync!Each("add", Sync!Missing(t, v))
    <3>1. t \in Sync!Tables
      BY <1>2, <2>5
    <3> HIDE DEF t
    <3>2. /\ ListOf(Sync!Each("add", Sync!Missing(t, v)), Additions(t, v))
          /\ Additions(t, v) \subseteq Towards(v)
               /\ CoveredBy(dialect, t, Additions(t, v), v)
      BY <2>5, <3>1, AdditionsCover
    <3> QED
      BY <2>5, <3>2 DEF Serves
  <2> QED
    <3> HIDE DEF l, t
    <3>1. \/ dialect = "postgres" /\ t # Absent
          \/ dialect # "postgres" /\ t # Absent /\ l = Sync!Each("add", Sync!Missing(t, v))
          \/ l = Sync!One("create") /\ (t = Absent \/ dialect = "oracle")
          \/ l = Sync!One("create if not exists") /\ t = Absent
      BY <1>1
      DEF Sync!PostgresPlan, Sync!MySqlPlan, Sync!MssqlPlan, Sync!OraclePlan,
          Sync!MySqlAdditions, Sync!MssqlAdditions,
                  Sync!OracleAdditions
    <3> QED
      BY <2>3, <2>4, <2>5, <3>1
<1> HIDE DEF l, t
<1>6. PICK S : Serves(l, t, S, v)
  BY <1>5
<1>7. l \in Seq(S) /\ Members(l) = S /\ S \in SUBSET Towards(v)
  BY <1>6 DEF ListOf, Serves
<1>8. l \in Seq(Towards(v))
  BY <1>7
<1> QED
  BY <1>6, <1>7, <1>8 DEF t, l, Serves

-----------------------------------------------------------------------------
(* TableSync: what always holds.                                           *)

Stmts ==
    [do : {"create", "create if not exists", "add", "drop", "type", "null",
      "drop constraints",
           "add constraints", "rename", "copy", "drop temp"},
     column : Sync!ColumnNames \cup {"*"}]

Runs ==
    [version : Versions \cup {Absent}, at : {"down", "up", "running", "again"},
     plan : Seq(Stmts), cache : Versions \cup Sync!Tables \cup {Absent}, retries : 0..MaxSyncRetries,
     alone : BOOLEAN, done : BOOLEAN]

SoundRun(r) ==
    /\ r \in Runs
    /\ r.at # "down" => r.version \in Versions
    /\ r.at # "running" => r.plan = <<>>
    /\ r.done => r.at = "up"

SyncTyped ==
    /\ dialect \in SyncDialects /\ lower \in BOOLEAN /\ broken \in BOOLEAN /\ db \in Bases
    /\ syncFaults \in 0..MaxSyncFaults /\ deploys \in 0..MaxDeploys
    /\ process \in [Processes -> Runs]
    /\ \A p \in Processes : SoundRun(process[p])

\* Postgres, mysql, mssql and oracle.  A run that no run of another version
\* overlaps has still to execute what the table lacks, and after it the table
\* lacks nothing.
Busy(r) == r.at \in {"running", "again"}
Trusted(r) == r.done \/ (r.alone /\ Busy(r))
Paired(r, other) == Busy(other) /\ Trusted(r) => r.version = other.version

ServedRun(d, t, r) ==
    /\ r.at = "running" =>
        /\ r.plan \in Seq(Towards(r.version))
        /\ t = Absent => \A st \in Members(r.plan) : st.do \in Creations
        /\ r.alone => CoveredBy(d, t, Members(r.plan), r.version)
    /\ r.done => t # Absent /\ CoveredBy(d, t, {}, r.version)

ServerInv ==
    /\ Served /\ ~broken
    /\ \A p \in Processes : ServedRun(dialect, db.table, process[p])
    /\ \A p, q \in Processes : p # q => Paired(process[p], process[q])

\* sqlite.  One process is up, and stands somewhere in a rebuild.
SqliteTyped(t) == t # Absent =>
  \A n \in DOMAIN t.columns : t.columns[n].type \in SqliteColumnTypes

Reached(t, v) ==
    t # Absent /\ t.columns = Sync!TableOf("sqlite", v).columns /\ t.unique = v.unique

Safe(base, lost) == ~lost => base.temp = Absent /\ (base.table # Absent => base.table.full)

CopyLeft(base, lost) == base.temp # Absent /\ (~lost => base.temp.full)

Stage(base, lost, r) ==
    \/ r.plan = Sync!Rebuild /\ Safe(base, lost)
    \/ /\ r.plan = <<Stmt("create if not exists", "*"), Stmt("copy", "*"),
            Stmt("drop temp", "*")>>
       /\ base.table = Absent /\ CopyLeft(base, lost)
    \/ /\ r.plan = <<Stmt("copy", "*"), Stmt("drop temp", "*")>>
       /\ Reached(base.table, r.version) /\ CopyLeft(base, lost)
    \/ /\ r.plan = <<Stmt("drop temp", "*")>>
       /\ Reached(base.table, r.version) /\ (~lost => base.table.full)
    \/ r.plan = <<Stmt("create if not exists", "*")>> /\ base.table = Absent
         /\ Safe(base, lost)
    \/ r.plan = <<>> /\ Reached(base.table, r.version) /\ Safe(base, lost)

SqliteRun(base, lost, r) ==
    /\ r.at # "again"
    /\ r.at = "down" => r = Sync!NoRun
    /\ r.cache # Absent =>
          \/ r.cache = r.version /\ Reached(base.table, r.version) /\ r.plan = <<>>
          \/ Sync!RequiresRebuild(r.cache, r.version)
    /\ r.done => Reached(base.table, r.version)
    /\ r.at = "running" => Stage(base, lost, r)

SqliteInv ==
    /\ SqliteTyped(db.table) /\ SqliteTyped(db.temp)
    /\ \A p, q \in Processes : p # q => process[p].at = "down" \/ process[q].at = "down"
    /\ \A p \in Processes : SqliteRun(db, broken, process[p])
    /\ (\A p \in Processes : process[p].at # "running") => Safe(db, broken)

SyncInv == SyncTyped /\ (dialect # "sqlite" => ServerInv) /\ (dialect = "sqlite" =>
  SqliteInv)

-----------------------------------------------------------------------------
(* TableSync: what becomes of a process's run, and of the others'.         *)

\* A run is made of its parts.
LEMMA RunParts ==
  ASSUME NEW r \in Runs
  PROVE  /\ r = [version |-> r.version, at |-> r.at, plan |-> r.plan, cache |-> r.cache,
                 retries |-> r.retries, alone |-> r.alone, done |-> r.done]
         /\ r.version \in Versions \cup {Absent}
              /\ r.at \in {"down", "up", "running", "again"}
         /\ r.plan \in Seq(Stmts) /\ r.cache \in Versions \cup Sync!Tables \cup {Absent}
         /\ r.retries \in 0..MaxSyncRetries /\ r.alone \in BOOLEAN /\ r.done \in BOOLEAN
  BY DEF Runs

\* A process that is down is in a state a run may be in.
LEMMA SoundNoRun ==
  ASSUME Sync!SyncAssumption
  PROVE  SoundRun(Sync!NoRun)
<1>1. 0 \in 0..MaxSyncRetries
  BY DEF Sync!SyncAssumption
<1>2. <<>> \in Seq(Stmts)
  OBVIOUS
<1>3. Sync!NoRun \in Runs
  BY <1>1, <1>2 DEF Sync!NoRun, Runs
<1> QED
  BY <1>3 DEF SoundRun, Sync!NoRun

\* What others' runs are told of a run that begins, or of one that fails.
Doubted(r) == [r EXCEPT !.done = FALSE, !.alone = FALSE]
Undone(r) == [r EXCEPT !.done = FALSE]

\* What describeTable says of a table is a table again.
LEMMA DescribedTable ==
  ASSUME Sync!SyncAssumption, NEW v \in Versions, NEW t \in Sync!Tables
  PROVE  Sync!Described(t) \in Sync!Tables /\ Sync!Described(t) # Absent
<1> DEFINE u == t.unique \cup {{"id"}}
           d == [t EXCEPT !.unique = u]
<1>1. t # Absent /\ Absent \notin Sync!Tables
  BY DEF Sync!SyncAssumption
<1>2. Sync!Described(t) = d
  BY <1>1 DEF Sync!Described
<1>3. /\ t = [columns |-> t.columns, unique |-> t.unique, foreign |-> t.foreign, full |-> t.full]
      /\ DOMAIN t.columns \in SUBSET Sync!ColumnNames
      /\ t.columns \in [DOMAIN t.columns -> ColumnTypes]
      /\ t.unique \in SUBSET SUBSET Sync!ColumnNames
      /\ t.foreign \in SUBSET ForeignKeys /\ t.full \in BOOLEAN
  BY TableParts
<1>4. "id" \in Sync!ColumnNames
  BY VersionShape
<1> HIDE DEF u
<1>5. d = [columns |-> t.columns, unique |-> u, foreign |-> t.foreign, full |-> t.full]
  BY <1>3
<1>6. u \in SUBSET SUBSET Sync!ColumnNames
  BY <1>3, <1>4 DEF u
<1> HIDE DEF d
<1>7. d \in Sync!Tables
  BY <1>3, <1>5, <1>6, MakesTable
<1> QED
  BY <1>1, <1>2, <1>7

\* What a process knows at its start is nothing or a table.
LEMMA KnownTable ==
  ASSUME Sync!SyncAssumption, SyncTyped, NEW v \in Versions
  PROVE  Sync!KnownAtStart \in Sync!Tables \cup {Absent}
<1>1. db.table \in Sync!Tables \cup {Absent}
  BY DEF SyncTyped, Bases
<1>2. db.table # Absent => Sync!Described(db.table) \in Sync!Tables
  BY <1>1, DescribedTable
<1>3. db.table = Absent => Sync!Described(db.table) = Absent
  BY DEF Sync!Described
<1> QED
  BY <1>2, <1>3 DEF Sync!KnownAtStart

\* A process that starts is up, and has found out what its driver's init does.
LEMMA DeployRun ==
  ASSUME Sync!SyncAssumption, SyncTyped, NEW p \in Processes,
         NEW v \in Versions, Sync!Deploy(p, v)
  PROVE  /\ process'[p] = [version |-> v, at |-> "up", plan |-> <<>>,
                           cache |-> Sync!KnownAtStart, retries |-> 0,
                           alone |-> FALSE, done |-> FALSE]
         /\ \A q \in Processes \ {p} : process'[q] = process[q]
         /\ process' = [q \in Processes |-> process'[q]]
<1> DEFINE k == Sync!KnownAtStart
<1>1. process' = [process EXCEPT ![p] = [Sync!NoRun EXCEPT !.version = v, !.at = "up",
                                                         !.cache = k]]
  BY DEF Sync!Deploy
<1>2. [Sync!NoRun EXCEPT !.version = v, !.at = "up", !.cache = k] =
        [version |-> v, at |-> "up", plan |-> <<>>, cache |-> k, retries |-> 0,
         alone |-> FALSE, done |-> FALSE]
  <2> HIDE DEF k
  <2> DEFINE no == FALSE
             w1 == [Sync!NoRun EXCEPT !.version = v]
             w2 == [w1 EXCEPT !.at = "up"]
             w3 == [w2 EXCEPT !.cache = k]
  <2>1. w3 = [Sync!NoRun EXCEPT !.version = v, !.at = "up", !.cache = k]
    OBVIOUS
  <2>2. Sync!NoRun = [version |-> Absent, at |-> "down", plan |-> <<>>, cache |-> Absent,
                 retries |-> 0, alone |-> no, done |-> no]
    BY DEF Sync!NoRun
  <2> HIDE DEF no, w2, w3
  <2>3. w1 = [version |-> v, at |-> "down", plan |-> <<>>, cache |-> Absent,
              retries |-> 0, alone |-> no, done |-> no]
    BY <2>2
  <2> HIDE DEF w1
  <2>4. w2 = [version |-> v, at |-> "up", plan |-> <<>>, cache |-> Absent,
              retries |-> 0, alone |-> no, done |-> no]
    BY <2>3 DEF w2
  <2> HIDE DEF w2
  <2>5. w3 = [version |-> v, at |-> "up", plan |-> <<>>, cache |-> k,
              retries |-> 0, alone |-> no, done |-> no]
    BY <2>4 DEF w3
  <2> QED
    BY <2>1, <2>5 DEF no
<1>3. process \in [Processes -> Runs]
  BY DEF SyncTyped
<1> QED
  BY <1>1, <1>2, <1>3

Others(p) == {q \in Processes \ {p} : process[q].version \notin {process[p].version,
  Absent}}

\* A run that begins has its plan, and the runs of other versions are doubted.
LEMMA EnsureRun ==
  ASSUME Sync!SyncAssumption, SyncTyped, NEW p \in Processes, Sync!EnsureTable(p)
  PROVE  /\ process[p].at = "up" /\ process[p].version \in Versions
         /\ process'[p] =
              [version |-> process[p].version, at |-> "running", plan |-> Sync!Plan(p,
                process[p].version),
               cache |-> IF dialect = "postgres" THEN process[p].version ELSE process[p].cache,
               retries |-> 0, alone |-> \A o \in Others(p) : ~Sync!Running(o),
                 done |-> FALSE]
         /\ \A q \in Others(p) : process'[q] = Doubted(process[q])
         /\ \A q \in Processes \ {p} : q \notin Others(p) => process'[q] = process[q]
         /\ process' = [q \in Processes |-> process'[q]]
<1> DEFINE b == \A o \in Others(p) : ~Sync!Running(o)
           l == Sync!Plan(p, process[p].version)
           c == IF dialect = "postgres" THEN process[p].version ELSE process[p].cache
           no == FALSE
           w == [process[p] EXCEPT !.at = "running", !.plan = l, !.done = no, !.retries = 0,
                                   !.cache = c, !.alone = b]
<1>1. /\ process[p].at = "up"
      /\ process' = [q \in Processes |->
           IF q = p THEN w
           ELSE IF q \in Others(p) THEN [process[q] EXCEPT !.done = FALSE, !.alone = FALSE]
           ELSE process[q]]
  BY DEF Sync!EnsureTable, Others
<1>2. SoundRun(process[p]) /\ process[p] \in Runs
  BY DEF SyncTyped, SoundRun
<1>3. process[p].version \in Versions
  BY <1>1, <1>2 DEF SoundRun
<1> HIDE DEF b, l, c, no
<1>4. w = [version |-> process[p].version, at |-> "running", plan |-> l, cache |-> c,
        retries |-> 0,
           alone |-> b, done |-> no]
  <2> DEFINE r == process[p]
             w1 == [r EXCEPT !.at = "running"]
             w2 == [w1 EXCEPT !.plan = l]
             w3 == [w2 EXCEPT !.done = no]
             w4 == [w3 EXCEPT !.retries = 0]
             w5 == [w4 EXCEPT !.cache = c]
             w6 == [w5 EXCEPT !.alone = b]
  <2>1. w = w6
    OBVIOUS
  <2>2. r = [version |-> r.version, at |-> r.at, plan |-> r.plan, cache |-> r.cache,
             retries |-> r.retries, alone |-> r.alone, done |-> r.done]
    BY <1>2, RunParts
  <2> HIDE DEF r, w1, w2, w3, w4, w5, w6, w
  <2>3. w1 = [version |-> r.version, at |-> "running", plan |-> r.plan, cache |-> r.cache,
              retries |-> r.retries, alone |-> r.alone, done |-> r.done]
    BY <2>2 DEF w1
  <2>4. w2 = [version |-> r.version, at |-> "running", plan |-> l, cache |-> r.cache,
              retries |-> r.retries, alone |-> r.alone, done |-> r.done]
    BY <2>3 DEF w2
  <2>5. w3 = [version |-> r.version, at |-> "running", plan |-> l, cache |-> r.cache,
              retries |-> r.retries, alone |-> r.alone, done |-> no]
    BY <2>4 DEF w3
  <2>6. w4 = [version |-> r.version, at |-> "running", plan |-> l, cache |-> r.cache,
              retries |-> 0, alone |-> r.alone, done |-> no]
    BY <2>5 DEF w4
  <2>7. w5 = [version |-> r.version, at |-> "running", plan |-> l, cache |-> c,
              retries |-> 0, alone |-> r.alone, done |-> no]
    BY <2>6 DEF w5
  <2>8. w6 = [version |-> r.version, at |-> "running", plan |-> l, cache |-> c,
              retries |-> 0, alone |-> b, done |-> no]
    BY <2>7 DEF w6
  <2> QED
    BY <2>1, <2>8 DEF r
<1> HIDE DEF w
<1>5. process'[p] = w /\ process' = [q \in Processes |-> process'[q]]
  BY <1>1
<1>6. \A q \in Others(p) : q \in Processes /\ q # p
  BY DEF Others
<1>7. \A q \in Others(p) : process'[q] = Doubted(process[q])
  BY <1>1, <1>6 DEF Doubted
<1>8. \A q \in Processes \ {p} : q \notin Others(p) => process'[q] = process[q]
  BY <1>1
<1> QED
  BY <1>1, <1>3, <1>4, <1>5, <1>7, <1>8 DEF b, c, l, no

\* A run of another version is no longer counted on.
LEMMA Distrusted ==
  ASSUME NEW r, SoundRun(r)
  PROVE  LET x == Doubted(r)
             y == Undone(r) IN
         /\ SoundRun(x) /\ SoundRun(y) /\ ~x.done /\ ~y.done /\ ~x.alone
              /\ y.alone = r.alone
         /\ x.at = r.at /\ y.at = r.at /\ x.plan = r.plan /\ y.plan = r.plan
         /\ x.version = r.version /\ y.version = r.version
<1> DEFINE no == FALSE
           y == [r EXCEPT !.done = no]
           x == [y EXCEPT !.alone = no]
<1>1. r \in Runs
  BY DEF SoundRun
<1>2. r = [version |-> r.version, at |-> r.at, plan |-> r.plan, cache |-> r.cache,
           retries |-> r.retries, alone |-> r.alone, done |-> r.done]
  BY <1>1, RunParts
<1> HIDE DEF x, y, no
<1>3. y = [version |-> r.version, at |-> r.at, plan |-> r.plan, cache |-> r.cache,
           retries |-> r.retries, alone |-> r.alone, done |-> no]
  BY <1>2 DEF y
<1>4. x = [version |-> r.version, at |-> r.at, plan |-> r.plan, cache |-> r.cache,
           retries |-> r.retries, alone |-> no, done |-> no]
  BY <1>3 DEF x
<1>5. x \in Runs /\ y \in Runs
  <2>1. no \in BOOLEAN
    BY DEF no
  <2> QED
    BY <1>1, <1>3, <1>4, <2>1, RunParts DEF Runs
<1>6. SoundRun(x) /\ SoundRun(y)
  <2>1. ~x.done /\ ~y.done
    BY <1>3, <1>4 DEF no
  <2> QED
    BY <1>3, <1>4, <1>5, <2>1 DEF SoundRun
<1>7. x = Doubted(r) /\ y = Undone(r)
  BY DEF x, y, no, Doubted, Undone
<1> QED
  <2>1. ~x.done /\ ~y.done /\ ~x.alone /\ y.alone = r.alone
    BY <1>3, <1>4 DEF no
  <2>2. /\ x.at = r.at /\ y.at = r.at /\ x.plan = r.plan /\ y.plan = r.plan
        /\ x.version = r.version /\ y.version = r.version
    BY <1>3, <1>4
  <2> QED
    BY <1>6, <1>7, <2>1, <2>2

\* A statement that is executed leaves the run the rest of its plan.
LEMMA StatementRun ==
  ASSUME Sync!SyncAssumption, SyncTyped, NEW p \in Processes, Sync!Statement(p)
  PROVE  /\ process[p].at = "running" /\ process[p].version \in Versions
         /\ process'[p] =
              [version |-> process[p].version, at |-> "running",
                plan |-> Tail(process[p].plan),
               cache |-> process[p].cache, retries |-> process[p].retries,
               alone |-> process[p].alone, done |-> FALSE]
         /\ \A q \in Processes \ {p} : process'[q] = process[q]
         /\ process' = [q \in Processes |-> process'[q]]
<1>1. process' = [process EXCEPT ![p].plan = Tail(@)] /\ process[p].plan # <<>>
  BY DEF Sync!Statement
<1>2. SoundRun(process[p]) /\ process[p] \in Runs /\ process \in [Processes -> Runs]
  BY DEF SyncTyped, SoundRun
<1>3. /\ process[p].at = "running" /\ process[p].version \in Versions /\ ~process[p].done
      /\ process[p].done = FALSE
  BY <1>1, <1>2, RunParts DEF SoundRun
<1> DEFINE r == process[p]
<1>4. process'[p] = [r EXCEPT !.plan = Tail(@)]
        /\ process' = [q \in Processes |-> process'[q]]
  BY <1>1, <1>2
<1>5. \A q \in Processes \ {p} : process'[q] = process[q]
  BY <1>1, <1>2
<1>6. r = [version |-> r.version, at |-> r.at, plan |-> r.plan, cache |-> r.cache,
           retries |-> r.retries, alone |-> r.alone, done |-> r.done]
  BY <1>2, RunParts
<1>7. [r EXCEPT !.plan = Tail(@)] =
        [version |-> r.version, at |-> r.at, plan |-> Tail(r.plan), cache |-> r.cache,
         retries |-> r.retries, alone |-> r.alone, done |-> r.done]
  <2> DEFINE l == Tail(r.plan)
             w == [r EXCEPT !.plan = l]
  <2>1. [r EXCEPT !.plan = Tail(@)] = w
    OBVIOUS
  <2> HIDE DEF r, l
  <2>2. w = [version |-> r.version, at |-> r.at, plan |-> l, cache |-> r.cache,
             retries |-> r.retries, alone |-> r.alone, done |-> r.done]
    BY <1>6
  <2> QED
    BY <2>1, <2>2 DEF l
<1> QED
  BY <1>3, <1>4, <1>5, <1>7

\* A run that returns counts as done if no other version ran beside it.
LEMMA ReturnedRun ==
  ASSUME Sync!SyncAssumption, SyncTyped, NEW p \in Processes, Sync!Returned(p)
  PROVE  /\ process[p].at = "running" /\ process[p].plan = <<>>
              /\ process[p].version \in Versions
         /\ process'[p] =
              [version |-> process[p].version, at |-> "up", plan |-> <<>>,
               cache |-> process[p].version, retries |-> process[p].retries,
               alone |-> process[p].alone, done |-> process[p].alone]
         /\ \A q \in Processes \ {p} : process'[q] = process[q]
         /\ process' = [q \in Processes |-> process'[q]]
<1>1. /\ process' = [process EXCEPT ![p].at = "up", ![p].done = process[p].alone,
                                    ![p].cache = process[p].version]
      /\ process[p].plan = <<>> /\ process[p].at = "running"
  BY DEF Sync!Returned
<1>2. SoundRun(process[p]) /\ process[p] \in Runs /\ process \in [Processes -> Runs]
  BY DEF SyncTyped, SoundRun
<1>3. process[p].version \in Versions
  BY <1>1, <1>2 DEF SoundRun
<1> DEFINE r == process[p]
           w1 == [r EXCEPT !.at = "up"]
           w2 == [w1 EXCEPT !.done = r.alone]
           w3 == [w2 EXCEPT !.cache = r.version]
<1>4. process'[p] = w3 /\ process' = [q \in Processes |-> process'[q]]
  BY <1>1, <1>2
<1>5. \A q \in Processes \ {p} : process'[q] = process[q]
  BY <1>1, <1>2
<1>6. r = [version |-> r.version, at |-> r.at, plan |-> r.plan, cache |-> r.cache,
           retries |-> r.retries, alone |-> r.alone, done |-> r.done]
  BY <1>2, RunParts
<1>7. w3 = [version |-> r.version, at |-> "up", plan |-> r.plan, cache |-> r.version,
            retries |-> r.retries, alone |-> r.alone, done |-> r.alone]
  <2> HIDE DEF r
  <2>1. w1 = [version |-> r.version, at |-> "up", plan |-> r.plan, cache |-> r.cache,
              retries |-> r.retries, alone |-> r.alone, done |-> r.done]
    BY <1>6
  <2> HIDE DEF w1
  <2>2. w2 = [version |-> r.version, at |-> "up", plan |-> r.plan, cache |-> r.cache,
              retries |-> r.retries, alone |-> r.alone, done |-> r.alone]
    BY <2>1
  <2> HIDE DEF w2
  <2> QED
    BY <2>2
<1> QED
  BY <1>1, <1>3, <1>4, <1>5, <1>7

\* A run that starts over makes a new plan.
LEMMA StartOverRun ==
  ASSUME Sync!SyncAssumption, SyncTyped, NEW p \in Processes, Sync!StartOver(p)
  PROVE  /\ process[p].at = "again" /\ process[p].version \in Versions
         /\ process'[p] =
              [version |-> process[p].version, at |-> "running", plan |-> Sync!Plan(p,
                process[p].version),
               cache |-> process[p].cache, retries |-> process[p].retries,
               alone |-> process[p].alone, done |-> FALSE]
         /\ \A q \in Processes \ {p} : process'[q] = process[q]
         /\ process' = [q \in Processes |-> process'[q]]
<1> DEFINE l == Sync!Plan(p, process[p].version)
<1>1. /\ process' = [process EXCEPT ![p].at = "running", ![p].plan = l]
      /\ process[p].at = "again"
  BY DEF Sync!StartOver
<1>2. SoundRun(process[p]) /\ process[p] \in Runs /\ process \in [Processes -> Runs]
  BY DEF SyncTyped, SoundRun
<1>3. process[p].version \in Versions /\ ~process[p].done /\ process[p].done = FALSE
  BY <1>1, <1>2, RunParts DEF SoundRun
<1> HIDE DEF l
<1> DEFINE r == process[p]
           w1 == [r EXCEPT !.at = "running"]
           w2 == [w1 EXCEPT !.plan = l]
<1>4. process'[p] = w2 /\ process' = [q \in Processes |-> process'[q]]
  BY <1>1, <1>2
<1>5. \A q \in Processes \ {p} : process'[q] = process[q]
  BY <1>1, <1>2
<1>6. r = [version |-> r.version, at |-> r.at, plan |-> r.plan, cache |-> r.cache,
           retries |-> r.retries, alone |-> r.alone, done |-> r.done]
  BY <1>2, RunParts
<1>7. w2 = [version |-> r.version, at |-> "running", plan |-> l, cache |-> r.cache,
            retries |-> r.retries, alone |-> r.alone, done |-> r.done]
  <2> HIDE DEF r
  <2>1. w1 = [version |-> r.version, at |-> "running", plan |-> r.plan, cache |-> r.cache,
              retries |-> r.retries, alone |-> r.alone, done |-> r.done]
    BY <1>6
  <2> HIDE DEF w1
  <2> QED
    BY <2>1
<1> QED
  BY <1>1, <1>3, <1>4, <1>5, <1>7 DEF l

\* A run that gives up is up again, and what others found no longer counts.
LEMMA GiveUpRun ==
  ASSUME Sync!SyncAssumption, SyncTyped,
         NEW p \in Processes, process[p].plan # <<>>, Sync!GiveUp(p)
  PROVE  /\ process[p].at = "running" /\ process[p].version \in Versions
         /\ process'[p] =
              [version |-> process[p].version, at |-> "up", plan |-> <<>>,
               cache |-> process[p].cache, retries |-> process[p].retries,
               alone |-> FALSE, done |-> FALSE]
         /\ \A q \in Processes \ {p} : process'[q] = Undone(process[q])
         /\ process' = [q \in Processes |-> process'[q]]
<1>1. process' = [q \in Processes |->
           IF q = p THEN [process[p] EXCEPT !.at = "up", !.plan = <<>>, !.alone = FALSE]
           ELSE [process[q] EXCEPT !.done = FALSE]]
  BY DEF Sync!GiveUp
<1>2. SoundRun(process[p]) /\ process[p] \in Runs
  BY DEF SyncTyped, SoundRun
<1>3. process[p].at = "running" /\ process[p].version \in Versions
        /\ process[p].done = FALSE
  BY <1>2, RunParts DEF SoundRun
<1> DEFINE r == process[p]
           w1 == [r EXCEPT !.at = "up"]
           w2 == [w1 EXCEPT !.plan = <<>>]
           no == FALSE
           w3 == [w2 EXCEPT !.alone = no]
<1>4. process'[p] = w3 /\ process' = [q \in Processes |-> process'[q]]
  BY <1>1
<1>5. \A q \in Processes \ {p} : process'[q] = Undone(process[q])
  BY <1>1 DEF Undone
<1>6. r = [version |-> r.version, at |-> r.at, plan |-> r.plan, cache |-> r.cache,
           retries |-> r.retries, alone |-> r.alone, done |-> r.done]
  BY <1>2, RunParts
<1>7. w3 = [version |-> r.version, at |-> "up", plan |-> <<>>, cache |-> r.cache,
            retries |-> r.retries, alone |-> no, done |-> r.done]
  <2> HIDE DEF r, no
  <2>1. w1 = [version |-> r.version, at |-> "up", plan |-> r.plan, cache |-> r.cache,
              retries |-> r.retries, alone |-> r.alone, done |-> r.done]
    BY <1>6
  <2> HIDE DEF w1
  <2>2. w2 = [version |-> r.version, at |-> "up", plan |-> <<>>, cache |-> r.cache,
              retries |-> r.retries, alone |-> r.alone, done |-> r.done]
    BY <2>1
  <2> HIDE DEF w2
  <2> QED
    BY <2>2
<1> QED
  BY <1>3, <1>4, <1>5, <1>7

\* A run that lost its connection and is to start over.
Retried(p) ==
    process' = [process EXCEPT ![p].retries = @ + 1, ![p].at = "again", ![p].plan = <<>>]

\* A run that lost its connection waits to start over, one retry later.
LEMMA RetriedRun ==
  ASSUME Sync!SyncAssumption, SyncTyped,
         NEW p \in Processes, process[p].plan # <<>>, Retried(p)
  PROVE  /\ process[p].at = "running" /\ process[p].version \in Versions
         /\ process'[p] =
              [version |-> process[p].version, at |-> "again", plan |-> <<>>,
               cache |-> process[p].cache, retries |-> process[p].retries + 1,
               alone |-> process[p].alone, done |-> FALSE]
         /\ \A q \in Processes \ {p} : process'[q] = process[q]
         /\ process' = [q \in Processes |-> process'[q]]
<1>1. process' = [process EXCEPT ![p].retries = @ + 1, ![p].at = "again", ![p].plan = <<>>]
  BY DEF Retried
<1>2. SoundRun(process[p]) /\ process[p] \in Runs /\ process \in [Processes -> Runs]
  BY DEF SyncTyped, SoundRun
<1>3. process[p].at = "running" /\ process[p].version \in Versions
        /\ process[p].done = FALSE
  BY <1>2, RunParts DEF SoundRun
<1> DEFINE r == process[p]
           w1 == [r EXCEPT !.retries = r.retries + 1]
           w2 == [w1 EXCEPT !.at = "again"]
           w3 == [w2 EXCEPT !.plan = <<>>]
<1>4. process'[p] = w3 /\ process' = [q \in Processes |-> process'[q]]
  BY <1>1, <1>2
<1>5. \A q \in Processes \ {p} : process'[q] = process[q]
  BY <1>1, <1>2
<1>6. r = [version |-> r.version, at |-> r.at, plan |-> r.plan, cache |-> r.cache,
           retries |-> r.retries, alone |-> r.alone, done |-> r.done]
  BY <1>2, RunParts
<1>7. w3 = [version |-> r.version, at |-> "again", plan |-> <<>>, cache |-> r.cache,
            retries |-> r.retries + 1, alone |-> r.alone, done |-> r.done]
  <2> HIDE DEF r
  <2>1. w1 = [version |-> r.version, at |-> r.at, plan |-> r.plan, cache |-> r.cache,
              retries |-> r.retries + 1, alone |-> r.alone, done |-> r.done]
    BY <1>6
  <2> HIDE DEF w1
  <2>2. w2 = [version |-> r.version, at |-> "again", plan |-> r.plan, cache |-> r.cache,
              retries |-> r.retries + 1, alone |-> r.alone, done |-> r.done]
    BY <2>1
  <2> HIDE DEF w2
  <2> QED
    BY <2>2
<1> QED
  BY <1>3, <1>4, <1>5, <1>7

\* Every step leaves each run in a state a run may be in.
LEMMA TypedStep ==
  ASSUME Sync!SyncAssumption, SyncTyped, Sync!SyncNext, db' \in Bases,
         \A p \in Processes : \A v \in Versions : Sync!Plan(p, v) \in Seq(Stmts)
  PROVE  SyncTyped'
<1>1. {MaxSyncFaults, MaxSyncRetries, MaxDeploys} \subseteq Nat
  BY DEF Sync!SyncAssumption
<1>2. dialect' = dialect /\ lower' = lower /\ broken' \in BOOLEAN
  <2>1. broken \in BOOLEAN
    BY DEF SyncTyped
  <2> QED
    BY <2>1
    DEF Sync!SyncNext, Sync!Deploy, Sync!EnsureTable, Sync!Statement, Sync!Returned,
        Sync!StatementRefused, Sync!ConnectionLost,
                Sync!StartOver, Sync!GiveUp
<1>3. syncFaults' \in 0..MaxSyncFaults /\ deploys' \in 0..MaxDeploys
  <2>1. syncFaults' = syncFaults \/ (syncFaults < MaxSyncFaults
          /\ syncFaults' = syncFaults + 1)
    BY DEF Sync!SyncNext, Sync!Deploy, Sync!EnsureTable, Sync!Statement, Sync!Returned,
           Sync!StatementRefused, Sync!ConnectionLost, Sync!StartOver
  <2>2. deploys' = deploys \/ (deploys < MaxDeploys /\ deploys' = deploys + 1)
    BY DEF Sync!SyncNext, Sync!Deploy, Sync!EnsureTable, Sync!Statement, Sync!Returned,
           Sync!StatementRefused, Sync!ConnectionLost, Sync!StartOver
  <2>3. /\ syncFaults \in 0..MaxSyncFaults /\ deploys \in 0..MaxDeploys
        /\ MaxSyncFaults \in Nat /\ MaxDeploys \in Nat
    BY <1>1 DEF SyncTyped
  <2> QED
    BY <2>1, <2>2, <2>3
<1> DEFINE Sound == /\ process' = [q \in Processes |-> process'[q]]
                    /\ \A q \in Processes : SoundRun(process'[q])
<1>4. \A q \in Processes : SoundRun(process[q])
  BY DEF SyncTyped
<1>5. <<>> \in Seq(Stmts) /\ 0 \in 0..MaxSyncRetries
  BY <1>1
<1>6. PICK p \in Processes :
        \/ \E v \in Versions : Sync!Deploy(p, v)
        \/ Sync!EnsureTable(p) \/ Sync!Statement(p) \/ Sync!Returned(p)
        \/ Sync!StatementRefused(p) \/ Sync!ConnectionLost(p) \/ Sync!StartOver(p)
  BY DEF Sync!SyncNext
<1>7. process[p] \in Runs
  BY <1>4 DEF SoundRun
<1>8. Sound
  <2>1. CASE \E v \in Versions : Sync!Deploy(p, v)
    <3>1. PICK v \in Versions : Sync!Deploy(p, v)
      BY <2>1
    <3> DEFINE k == Sync!KnownAtStart
               r == [version |-> v, at |-> "up", plan |-> <<>>, cache |-> k,
                     retries |-> 0, alone |-> FALSE, done |-> FALSE]
    <3>2. /\ process'[p] = r /\ \A q \in Processes \ {p} : process'[q] = process[q]
          /\ process' = [q \in Processes |-> process'[q]]
      BY <3>1, DeployRun
    <3>3. SoundRun(r)
      <4>0. k \in Sync!Tables \cup {Absent}
        BY KnownTable
      <4> HIDE DEF k
      <4>1. r \in Runs
        BY <1>5, <4>0 DEF Runs
      <4> QED
        BY <4>1 DEF SoundRun
    <3> HIDE DEF r
    <3> QED
      BY <1>4, <3>2, <3>3
  <2>2. CASE Sync!EnsureTable(p)
    <3> DEFINE b == \A o \in Others(p) : ~Sync!Running(o)
               c == IF dialect = "postgres" THEN process[p].version ELSE process[p].cache
               l == Sync!Plan(p, process[p].version)
               r == [version |-> process[p].version, at |-> "running", plan |-> l,
                 cache |-> c,
                     retries |-> 0, alone |-> b, done |-> FALSE]
    <3>1. process[p].version \in Versions /\ process'[p] = r
      BY <2>2, EnsureRun
    <3>2. /\ \A q \in Others(p) : process'[q] = Doubted(process[q])
          /\ \A q \in Processes \ {p} : q \notin Others(p) => process'[q] = process[q]
          /\ process' = [q \in Processes |-> process'[q]]
      BY <2>2, EnsureRun
    <3>3. l \in Seq(Stmts) /\ c \in Versions \cup Sync!Tables \cup {Absent} /\ b \in BOOLEAN
      BY <1>7, <3>1, RunParts
    <3>4. SoundRun(r)
      <4> HIDE DEF b, c, l
      <4>1. r \in Runs
        BY <1>5, <3>1, <3>3 DEF Runs
      <4> QED
        BY <3>1, <4>1 DEF SoundRun
    <3> HIDE DEF r
    <3>5. \A q \in Others(p) : q \in Processes /\ SoundRun(process'[q])
      BY <1>4, <3>2, Distrusted DEF Others
    <3> QED
      BY <1>4, <3>1, <3>2, <3>4, <3>5
  <2>3. CASE Sync!Statement(p)
    <3> DEFINE l == Tail(process[p].plan)
               r == [version |-> process[p].version, at |-> "running", plan |-> l,
                     cache |-> process[p].cache, retries |-> process[p].retries,
                     alone |-> process[p].alone, done |-> FALSE]
    <3>1. process[p].version \in Versions /\ process'[p] = r
      BY <2>3, StatementRun
    <3>2. /\ \A q \in Processes \ {p} : process'[q] = process[q]
          /\ process' = [q \in Processes |-> process'[q]]
      BY <2>3, StatementRun
    <3>3. l \in Seq(Stmts)
      BY <1>7, <2>3, RunParts DEF Sync!Statement
    <3>4. SoundRun(r)
      <4> HIDE DEF l
      <4>1. r \in Runs
        BY <1>7, <3>1, <3>3, RunParts DEF Runs
      <4> QED
        BY <3>1, <4>1 DEF SoundRun
    <3> HIDE DEF r
    <3> QED
      BY <1>4, <3>1, <3>2, <3>4
  <2>4. CASE Sync!Returned(p)
    <3> DEFINE r == [version |-> process[p].version, at |-> "up", plan |-> <<>>,
                     cache |-> process[p].version, retries |-> process[p].retries,
                     alone |-> process[p].alone, done |-> process[p].alone]
    <3>1. process[p].version \in Versions /\ process'[p] = r
      BY <2>4, ReturnedRun
    <3>2. /\ \A q \in Processes \ {p} : process'[q] = process[q]
          /\ process' = [q \in Processes |-> process'[q]]
      BY <2>4, ReturnedRun
    <3>4. SoundRun(r)
      <4>1. r \in Runs
        BY <1>5, <1>7, <3>1, RunParts DEF Runs
      <4> QED
        BY <3>1, <4>1 DEF SoundRun
    <3> HIDE DEF r
    <3> QED
      BY <1>4, <3>1, <3>2, <3>4
  <2>5. CASE Sync!StartOver(p)
    <3> DEFINE l == Sync!Plan(p, process[p].version)
               r == [version |-> process[p].version, at |-> "running", plan |-> l,
                     cache |-> process[p].cache, retries |-> process[p].retries,
                     alone |-> process[p].alone, done |-> FALSE]
    <3>1. process[p].version \in Versions /\ process'[p] = r
      BY <2>5, StartOverRun
    <3>2. /\ \A q \in Processes \ {p} : process'[q] = process[q]
          /\ process' = [q \in Processes |-> process'[q]]
      BY <2>5, StartOverRun
    <3>3. l \in Seq(Stmts)
      BY <3>1
    <3>4. SoundRun(r)
      <4> HIDE DEF l
      <4>1. r \in Runs
        BY <1>7, <3>1, <3>3, RunParts DEF Runs
      <4> QED
        BY <3>1, <4>1 DEF SoundRun
    <3> HIDE DEF r
    <3> QED
      BY <1>4, <3>1, <3>2, <3>4
  <2>6. CASE process[p].plan # <<>> /\ Sync!GiveUp(p)
    <3> DEFINE r == [version |-> process[p].version, at |-> "up", plan |-> <<>>,
                     cache |-> process[p].cache, retries |-> process[p].retries,
                     alone |-> FALSE, done |-> FALSE]
    <3>1. process[p].version \in Versions /\ process'[p] = r
      BY <2>6, GiveUpRun
    <3>2. /\ \A q \in Processes \ {p} : process'[q] = Undone(process[q])
          /\ process' = [q \in Processes |-> process'[q]]
      BY <2>6, GiveUpRun
    <3>4. SoundRun(r)
      <4>1. r \in Runs
        BY <1>5, <1>7, <3>1, RunParts DEF Runs
      <4> QED
        BY <3>1, <4>1 DEF SoundRun
    <3> HIDE DEF r
    <3>5. \A q \in Processes \ {p} : SoundRun(process'[q])
      BY <1>4, <3>2, Distrusted
    <3> QED
      BY <3>1, <3>2, <3>4, <3>5
  <2>7. CASE process[p].plan # <<>> /\ Retried(p) /\ process[p].retries < MaxSyncRetries
    <3> DEFINE n == process[p].retries + 1
               r == [version |-> process[p].version, at |-> "again", plan |-> <<>>,
                     cache |-> process[p].cache, retries |-> n,
                     alone |-> process[p].alone, done |-> FALSE]
    <3>1. process[p].version \in Versions /\ process'[p] = r
      BY <2>7, RetriedRun
    <3>2. /\ \A q \in Processes \ {p} : process'[q] = process[q]
          /\ process' = [q \in Processes |-> process'[q]]
      BY <2>7, RetriedRun
    <3>3. n \in 0..MaxSyncRetries
      BY <1>1, <1>7, <2>7, RunParts
    <3>4. SoundRun(r)
      <4> HIDE DEF n
      <4>1. r \in Runs
        BY <1>5, <1>7, <3>1, <3>3, RunParts DEF Runs
      <4> QED
        BY <3>1, <4>1 DEF SoundRun
    <3> HIDE DEF r
    <3> QED
      BY <1>4, <3>1, <3>2, <3>4
  <2> QED
    BY <1>6, <2>1, <2>2, <2>3, <2>4, <2>5, <2>6, <2>7
    DEF Sync!StatementRefused, Sync!ConnectionLost, Retried
<1>9. process' \in [Processes -> Runs]
  BY <1>8 DEF SoundRun
<1> QED
  BY <1>2, <1>3, <1>8, <1>9 DEF SyncTyped

-----------------------------------------------------------------------------
(* TableSync: the steps of the servers' drivers.                           *)

\* A run that claims no more than it did is served as it was.
LEMMA StillServed ==
  ASSUME NEW t, NEW r, NEW x, ServedRun(dialect, t, r), x.at = r.at, x.plan = r.plan,
           x.version = r.version,
         x.done => r.done, x.alone => r.alone
  PROVE  ServedRun(dialect, t, x)
BY DEF ServedRun

\* A statement of a run for v that brings the table from t to u.
LEMMA OthersServed ==
  ASSUME NEW t, NEW u, u # Absent, NEW v, NEW st,
         NEW r, ServedRun(dialect, t, r), Trusted(r) => r.version = v,
         \A P : CoveredBy(dialect, t, P, v) => CoveredBy(dialect, u, P \ {st}, v)
  PROVE  ServedRun(dialect, u, r)
<1>1. ASSUME NEW P, CoveredBy(dialect, t, P, v)
      PROVE  CoveredBy(dialect, u, P, v)
  <2>1. CoveredBy(dialect, u, P \ {st}, v) /\ P \ {st} \subseteq P
    BY <1>1
  <2> QED
    BY <2>1, CoveredMore
<1>2. r.at = "running" /\ r.alone => CoveredBy(dialect, u, Members(r.plan), r.version)
  <2> SUFFICES ASSUME r.at = "running", r.alone
                        PROVE CoveredBy(dialect, u, Members(r.plan), r.version)
    OBVIOUS
  <2>1. r.version = v /\ CoveredBy(dialect, t, Members(r.plan), r.version)
    BY DEF Trusted, Busy, ServedRun
  <2> QED
    BY <1>1, <2>1
<1>3. r.done => CoveredBy(dialect, u, {}, r.version)
  <2> SUFFICES ASSUME r.done PROVE CoveredBy(dialect, u, {}, r.version)
    OBVIOUS
  <2>1. r.version = v /\ CoveredBy(dialect, t, {}, r.version)
    BY DEF Trusted, ServedRun
  <2> QED
    BY <1>1, <2>1
<1> QED
  BY <1>2, <1>3 DEF ServedRun

\* A run that is trusted, or is busy, was so before.
Follows(x, y) ==
    /\ Busy(y) => Busy(x) /\ y.version = x.version
    /\ Trusted(y) => Trusted(x) /\ y.version = x.version

\* When no run trusts in more than it did, no two come to contradict each other.
LEMMA PairsFollow ==
  ASSUME \A a, b \in Processes : a # b => Paired(process[a], process[b]),
         \A a \in Processes : Follows(process[a], process'[a])
  PROVE  \A a, b \in Processes : a # b => Paired(process'[a], process'[b])
<1> SUFFICES ASSUME NEW a \in Processes, NEW b \in Processes, a # b
             PROVE  Paired(process'[a], process'[b])
  OBVIOUS
<1>1. Paired(process[a], process[b]) /\ Follows(process[a], process'[a])
        /\ Follows(process[b], process'[b])
  OBVIOUS
<1> QED
  BY <1>1 DEF Paired, Follows

\* A run that is doubted, or undone, trusts in no more than it did.
LEMMA FollowsSame ==
  ASSUME NEW r, SoundRun(r)
  PROVE  Follows(r, r) /\ Follows(r, Doubted(r)) /\ Follows(r, Undone(r))
<1>1. /\ Doubted(r).at = r.at /\ Doubted(r).version = r.version
      /\ ~Doubted(r).done /\ ~Doubted(r).alone
      /\ Undone(r).at = r.at /\ Undone(r).version = r.version /\ ~Undone(r).done
      /\ (Undone(r).alone <=> r.alone)
  BY Distrusted
<1> QED
  BY <1>1 DEF Follows, Busy, Trusted

\* A run that is doubted, or undone, is served as it was.
LEMMA ServedOthers ==
  ASSUME NEW t, NEW r, SoundRun(r), ServedRun(dialect, t, r)
  PROVE  ServedRun(dialect, t, Doubted(r)) /\ ServedRun(dialect, t, Undone(r))
<1>1. /\ Doubted(r).at = r.at /\ Doubted(r).version = r.version /\ Doubted(r).plan = r.plan
      /\ ~Doubted(r).done /\ ~Doubted(r).alone
  BY Distrusted
<1>2. /\ Undone(r).at = r.at /\ Undone(r).version = r.version /\ Undone(r).plan = r.plan
      /\ ~Undone(r).done /\ (Undone(r).alone => r.alone)
  BY Distrusted
<1>3. ServedRun(dialect, t, Doubted(r))
  BY <1>1, StillServed
<1>4. ServedRun(dialect, t, Undone(r))
  BY <1>2, StillServed
<1> QED
  BY <1>3, <1>4

\* What a statement of p's plan does to the table, for p and for the others.
LEMMA ServedStatement ==
  ASSUME Sync!SyncAssumption, SyncTyped, dialect \in FiveDrivers, ServerInv,
         NEW p \in Processes,
         process[p].at = "running", process[p].plan # <<>>,
           ~Sync!Refused(Head(process[p].plan), process[p].version),
         db' = Sync!Executed(Head(process[p].plan), process[p].version), dialect' = dialect
  PROVE  /\ Served' /\ db'.table # Absent
         /\ \A P : CoveredBy(dialect, db.table, P, process[p].version) =>
                CoveredBy(dialect, db'.table, P \ {Head(process[p].plan)},
                  process[p].version)
         /\ \A q \in Processes \ {p} : ServedRun(dialect, db'.table, process[q])
<1> DEFINE st == Head(process[p].plan)
           v == process[p].version
<1>1. SoundRun(process[p]) /\ ServedRun(dialect, db.table, process[p]) /\ Served
  BY DEF SyncTyped, ServerInv
<1>2. v \in Versions
  BY <1>1 DEF SoundRun
<1>3. process[p].plan \in Seq(Towards(v)) /\ (db.table = Absent =>
        \A x \in Members(process[p].plan) : x.do \in Creations)
  BY <1>1 DEF ServedRun
<1>4. st \in Towards(v) /\ st \in Members(process[p].plan)
  BY <1>3, TailMembers
<1> DEFINE e == Sync!Executed(st, v)
<1>5. /\ e \in Bases /\ e.temp = Absent /\ e.table # Absent /\ e.table.full
      /\ dialect = "postgres" => PostgresTyped(e.table)
      /\ \A P : CoveredBy(dialect, db.table, P, v) =>
           CoveredBy(dialect, e.table, P \ {st}, v)
  <2> HIDE DEF st, v, e
  <2>1. ~Sync!Refused(st, v)
    BY DEF st, v
  <2> QED
    BY <1>1, <1>2, <1>3, <1>4, <2>1, StatementServes DEF e
<1>6. db' = e
  OBVIOUS
<1> HIDE DEF e, st, v
<1>7. ASSUME NEW q \in Processes \ {p}
      PROVE  ServedRun(dialect, e.table, process[q])
  <2>1. ServedRun(dialect, db.table, process[q]) /\ Paired(process[q], process[p])
    BY DEF ServerInv
  <2>2. Trusted(process[q]) => process[q].version = v
    BY <2>1 DEF Paired, Busy, v
  <2> QED
    BY <1>5, <2>1, <2>2, OthersServed
<1>8. Served'
  BY <1>5, <1>6 DEF Served, PostgresTyped
<1> QED
  BY <1>5, <1>6, <1>7, <1>8 DEF st, v

\* The plan of a run that begins or starts over.
LEMMA ServedPlan ==
  ASSUME Sync!SyncAssumption, dialect \in FiveDrivers, dialect # "sqlite", Served,
         NEW p \in Processes,
         NEW v \in Versions, NEW r, r.plan = Sync!Plan(p, v), r.version = v, ~r.done
  PROVE  ServedRun(dialect, db.table, r)
BY PlanCovers DEF ServedRun

\* Every step of the four servers' drivers keeps what always holds.
LEMMA ServerStep ==
  ASSUME Sync!SyncAssumption, SyncTyped, dialect \in FiveDrivers, dialect # "sqlite",
           ServerInv, Sync!SyncNext
  PROVE  ServerInv'
<1> DEFINE Runs1(t) == \A q \in Processes : ServedRun(dialect, t, process'[q])
           Pairs1 == \A a, b \in Processes : a # b => Paired(process'[a], process'[b])
<1>1. /\ Served /\ ~broken
      /\ \A q \in Processes : ServedRun(dialect, db.table, process[q])
           /\ SoundRun(process[q])
      /\ \A a, b \in Processes : a # b => Paired(process[a], process[b])
  BY DEF ServerInv, SyncTyped
<1>2. \A q \in Processes : /\ Follows(process[q], process[q])
        /\ Follows(process[q], Doubted(process[q]))
                           /\ Follows(process[q], Undone(process[q]))
                           /\ ServedRun(dialect, db.table, Doubted(process[q]))
                           /\ ServedRun(dialect, db.table, Undone(process[q]))
  BY <1>1, FollowsSame, ServedOthers
<1> SUFFICES ASSUME NEW p \in Processes,
                    \/ \E v \in Versions : Sync!Deploy(p, v)
                    \/ Sync!EnsureTable(p) \/ Sync!Statement(p) \/ Sync!Returned(p)
                    \/ Sync!StatementRefused(p) \/ Sync!ConnectionLost(p)
                         \/ Sync!StartOver(p)
             PROVE  ServerInv'
  BY DEF Sync!SyncNext
<1>3. dialect' = dialect
  BY DEF Sync!Deploy, Sync!EnsureTable, Sync!Statement, Sync!Returned,
         Sync!StatementRefused, Sync!ConnectionLost, Sync!StartOver
<1>4. ASSUME db' = db, broken' = broken, Runs1(db.table), Pairs1
      PROVE  ServerInv'
  <2>1. Served'
    BY <1>1, <1>3, <1>4 DEF Served, PostgresTyped
  <2> QED
    BY <1>1, <1>3, <1>4, <2>1 DEF ServerInv
<1>5. CASE \E v \in Versions : Sync!Deploy(p, v)
  <2>1. PICK v \in Versions : Sync!Deploy(p, v)
    BY <1>5
  <2> DEFINE r == process'[p]
  <2>a. r = [version |-> v, at |-> "up", plan |-> <<>>, cache |-> Sync!KnownAtStart,
             retries |-> 0, alone |-> FALSE, done |-> FALSE]
    BY <2>1, DeployRun
  <2>b. r.at = "up" /\ ~r.done
    BY ONLY <2>a
  <2>2. r.at = "up" /\ ~r.done /\ \A q \in Processes \ {p} : process'[q] = process[q]
    BY <2>1, <2>b, DeployRun
  <2> HIDE DEF r
  <2>3. ServedRun(dialect, db.table, r)
    BY <2>2 DEF ServedRun
  <2>4. Follows(process[p], r)
    BY <2>2 DEF Follows, Busy, Trusted
  <2>5. Runs1(db.table) /\ \A q \in Processes : Follows(process[q], process'[q])
    BY <1>1, <1>2, <2>2, <2>3, <2>4 DEF r
  <2>6. Pairs1
    BY <1>1, <2>5, PairsFollow
  <2> QED
    BY <1>4, <2>1, <2>5, <2>6 DEF Sync!Deploy
<1>6. CASE Sync!EnsureTable(p)
  <2> DEFINE r == process'[p]
             v == process[p].version
  <2>1. v \in Versions /\ process[p].at = "up"
    BY <1>6, EnsureRun
  <2>2. /\ r.at = "running" /\ r.version = v /\ r.plan = Sync!Plan(p, v) /\ ~r.done
        /\ r.alone <=> \A o \in Others(p) : ~Sync!Running(o)
    <3> DEFINE b == \A o \in Others(p) : ~Sync!Running(o)
               l == Sync!Plan(p, v)
               c == IF dialect = "postgres" THEN v ELSE process[p].cache
    <3>1. r = [version |-> v, at |-> "running", plan |-> l, cache |-> c, retries |-> 0,
               alone |-> b, done |-> FALSE]
      BY <1>6, EnsureRun
    <3> HIDE DEF b, l, c
    <3>2. r.at = "running" /\ r.version = v /\ r.plan = l /\ ~r.done /\ (r.alone <=> b)
      BY ONLY <3>1
    <3> QED
      BY <3>2 DEF b, l
  <2>3. /\ \A q \in Others(p) : process'[q] = Doubted(process[q])
        /\ \A q \in Processes \ {p} : q \notin Others(p) => process'[q] = process[q]
    BY <1>6, EnsureRun
  <2> HIDE DEF r, v
  <2>4. ServedRun(dialect, db.table, r)
    BY <1>1, <2>1, <2>2, ServedPlan
  <2>5. Runs1(db.table)
    BY <1>1, <1>2, <2>3, <2>4 DEF r
  <2>6. ASSUME NEW q \in Processes \ {p}
        PROVE  Follows(process[q], process'[q])
    BY <1>2, <2>3, <2>6
  <2>7. ASSUME NEW q \in Processes \ {p}
        PROVE  Paired(r, process'[q])
    <3> SUFFICES ASSUME Busy(process'[q]), Trusted(r) PROVE r.version = process'[q].version
      BY DEF Paired
    <3>1. Busy(process[q]) /\ process'[q].version = process[q].version
      BY <2>6 DEF Follows
    <3>2. q \notin Others(p)
      BY <2>2, <3>1 DEF Trusted, Sync!Running, Busy
    <3>3. process[q].version \in {v, Absent}
      BY <3>2 DEF Others, v
    <3>4. process[q].version \in Versions
      BY <1>1, <3>1 DEF Busy, SoundRun
    <3> QED
      BY <2>2, <3>1, <3>3, <3>4 DEF Sync!SyncAssumption
  <2>8. ASSUME NEW q \in Processes \ {p}
        PROVE  Paired(process'[q], r)
    <3> SUFFICES ASSUME Trusted(process'[q]) PROVE r.version = process'[q].version
      BY DEF Paired
    <3>1. Trusted(process[q]) /\ process'[q].version = process[q].version
      BY <2>6 DEF Follows
    <3>2. q \notin Others(p)
      <4> SUFFICES ASSUME q \in Others(p) PROVE FALSE
        OBVIOUS
      <4>1. process'[q] = Doubted(process[q]) /\ SoundRun(process[q])
        BY <1>1, <2>3
      <4>2. ~process'[q].done /\ ~process'[q].alone
        BY <4>1, Distrusted
      <4> QED
        BY <4>2 DEF Trusted
    <3>3. process[q].version \in {v, Absent}
      BY <3>2 DEF Others, v
    <3>4. process[q].version \in Versions
      BY <1>1, <3>1 DEF Busy, SoundRun, Trusted
    <3> QED
      BY <2>2, <3>1, <3>3, <3>4 DEF Sync!SyncAssumption
  <2>9. ASSUME NEW a \in Processes, NEW b \in Processes, a # b
        PROVE  Paired(process'[a], process'[b])
    <3>1. CASE a = p
      BY <2>7, <2>9, <3>1 DEF r
    <3>2. CASE b = p
      BY <2>8, <2>9, <3>2 DEF r
    <3>3. CASE a # p /\ b # p
      <4>1. Paired(process[a], process[b]) /\ Follows(process[a], process'[a])
              /\ Follows(process[b], process'[b])
        BY <1>1, <2>6, <2>9, <3>3
      <4> QED
        BY <4>1 DEF Paired, Follows
    <3> QED
      BY <3>1, <3>2, <3>3
  <2> QED
    BY <1>4, <1>6, <2>5, <2>9 DEF Sync!EnsureTable
<1>7. CASE Sync!Statement(p)
  <2> DEFINE r == process'[p]
             st == Head(process[p].plan)
             v == process[p].version
  <2>1. /\ process[p].at = "running" /\ process[p].plan # <<>> /\ ~Sync!Refused(st, v)
        /\ db' = Sync!Executed(st, v) /\ broken' = broken
    BY <1>7, StatementRun DEF Sync!Statement
  <2>2. /\ r.at = "running" /\ r.version = v /\ r.plan = Tail(process[p].plan) /\ ~r.done
        /\ r.alone <=> process[p].alone
    <3>1. r = [version |-> process[p].version, at |-> "running",
            plan |-> Tail(process[p].plan),
               cache |-> process[p].cache, retries |-> process[p].retries,
               alone |-> process[p].alone, done |-> FALSE]
      BY <1>7, StatementRun
    <3> QED
      BY ONLY <3>1
  <2>3. \A q \in Processes \ {p} : process'[q] = process[q]
    BY <1>7, StatementRun
  <2>4. /\ Served' /\ db'.table # Absent
        /\ \A P : CoveredBy(dialect, db.table, P, v) =>
             CoveredBy(dialect, db'.table, P \ {st}, v)
        /\ \A q \in Processes \ {p} : ServedRun(dialect, db'.table, process[q])
    BY <1>3, <2>1, ServedStatement
  <2>5. ServedRun(dialect, db'.table, r)
    <3> DEFINE l == process[p].plan
    <3>1. l \in Seq(Towards(v)) /\ (process[p].alone =>
            CoveredBy(dialect, db.table, Members(l), v))
      BY <1>1, <2>1 DEF ServedRun
    <3> HIDE DEF l
    <3>2. l # <<>>
      BY <2>1 DEF l
    <3>3. Tail(l) \in Seq(Towards(v)) /\ Members(l) \ {Head(l)} \subseteq Members(Tail(l))
      BY <3>1, <3>2, TailMembers
    <3>4. process[p].alone => CoveredBy(dialect, db'.table, Members(Tail(l)), v)
      <4> SUFFICES ASSUME process[p].alone
                            PROVE CoveredBy(dialect, db'.table, Members(Tail(l)), v)
        OBVIOUS
      <4>1. CoveredBy(dialect, db'.table, Members(l) \ {Head(l)}, v)
        BY <2>4, <3>1 DEF l
      <4> DEFINE P == Members(l) \ {Head(l)}
                 Q == Members(Tail(l))
                 t == db'.table
      <4>2. P \subseteq Q /\ CoveredBy(dialect, t, P, v)
        BY <3>3, <4>1
      <4> HIDE DEF P, Q, t
      <4>3. CoveredBy(dialect, t, Q, v)
        BY <4>2, CoveredMore
      <4> QED
        BY <4>3 DEF Q, t
    <3> HIDE DEF r
    <3> QED
      BY <2>2, <2>4, <3>3, <3>4 DEF ServedRun, l
  <2>6. Runs1(db'.table)
    BY <2>3, <2>4, <2>5
  <2>7. Follows(process[p], r)
    <3> HIDE DEF r
    <3> QED
      BY <2>1, <2>2 DEF Follows, Busy, Trusted
  <2>8. Pairs1
    <3>1. \A q \in Processes : Follows(process[q], process'[q])
      BY <1>2, <2>3, <2>7
    <3> QED
      BY <1>1, <3>1, PairsFollow
  <2> QED
    BY <1>1, <1>3, <2>1, <2>4, <2>6, <2>8 DEF ServerInv
<1>8. CASE Sync!Returned(p)
  <2> DEFINE r == process'[p]
             v == process[p].version
  <2>1. process[p].at = "running" /\ process[p].plan = <<>> /\ v \in Versions
    BY <1>8, ReturnedRun
  <2>2. r.at = "up" /\ r.version = v /\ (r.done <=> process[p].alone)
    <3>1. r = [version |-> process[p].version, at |-> "up", plan |-> <<>>,
               cache |-> process[p].version, retries |-> process[p].retries,
               alone |-> process[p].alone, done |-> process[p].alone]
      BY <1>8, ReturnedRun
    <3> QED
      BY ONLY <3>1
  <2>3. \A q \in Processes \ {p} : process'[q] = process[q]
    BY <1>8, ReturnedRun
  <2> HIDE DEF r, v
  <2>4. ServedRun(dialect, db.table, r)
    <3> SUFFICES ASSUME r.done PROVE db.table # Absent
                          /\ CoveredBy(dialect, db.table, {}, v)
      BY <2>2 DEF ServedRun
    <3>1. CoveredBy(dialect, db.table, Members(<<>>), v)
      BY <1>1, <2>1, <2>2 DEF ServedRun, v
    <3>2. Members(<<>>) = {}
      BY DEF Members
    <3> QED
      BY <3>1, <3>2 DEF CoveredBy
  <2>5. Follows(process[p], r)
    BY <2>1, <2>2 DEF Follows, Busy, Trusted, v
  <2>6. Runs1(db.table) /\ \A q \in Processes : Follows(process[q], process'[q])
    BY <1>1, <1>2, <2>3, <2>4, <2>5 DEF r
  <2>7. Pairs1
    BY <1>1, <2>6, PairsFollow
  <2> QED
    BY <1>4, <1>8, <2>6, <2>7 DEF Sync!Returned
<1>9. CASE Sync!StartOver(p)
  <2> DEFINE r == process'[p]
             v == process[p].version
  <2>1. process[p].at = "again" /\ v \in Versions
    BY <1>9, StartOverRun
  <2>2. r.at = "running" /\ r.version = v /\ r.plan = Sync!Plan(p, v) /\ ~r.done
          /\ (r.alone <=> process[p].alone)
    <3> DEFINE l == Sync!Plan(p, v)
    <3>1. r = [version |-> process[p].version, at |-> "running", plan |-> l,
               cache |-> process[p].cache, retries |-> process[p].retries,
               alone |-> process[p].alone, done |-> FALSE]
      BY <1>9, StartOverRun
    <3> HIDE DEF l
    <3>2. r.at = "running" /\ r.version = v /\ r.plan = l /\ ~r.done
            /\ (r.alone <=> process[p].alone)
      BY ONLY <3>1
    <3> QED
      BY <3>2 DEF l
  <2>3. \A q \in Processes \ {p} : process'[q] = process[q]
    BY <1>9, StartOverRun
  <2> HIDE DEF r, v
  <2>4. ServedRun(dialect, db.table, r)
    BY <1>1, <2>1, <2>2, ServedPlan
  <2>5. Follows(process[p], r)
    BY <2>1, <2>2 DEF Follows, Busy, Trusted, v
  <2>6. Runs1(db.table) /\ \A q \in Processes : Follows(process[q], process'[q])
    BY <1>1, <1>2, <2>3, <2>4, <2>5 DEF r
  <2>7. Pairs1
    BY <1>1, <2>6, PairsFollow
  <2> QED
    BY <1>4, <1>9, <2>6, <2>7 DEF Sync!StartOver
<1>10. CASE Sync!StatementRefused(p) \/ Sync!ConnectionLost(p)
  <2>1. /\ process[p].plan # <<>>
        /\ \/ db' = db
           \/ ~Sync!Refused(Head(process[p].plan), process[p].version)
                /\ db' = Sync!Executed(Head(process[p].plan), process[p].version)
        /\ Sync!GiveUp(p) \/ (Retried(p) /\ broken' = broken)
    BY <1>10 DEF Sync!StatementRefused, Sync!ConnectionLost, Retried
  <2>2. process[p].at = "running"
    BY <1>1, <2>1 DEF SoundRun
  <2>3. Served' /\ \A q \in Processes \ {p} : ServedRun(dialect, db'.table, process[q])
    <3>1. CASE db' = db
      BY <1>1, <1>3, <3>1 DEF Served, PostgresTyped
    <3>2. CASE ~Sync!Refused(Head(process[p].plan), process[p].version)
            /\ db' = Sync!Executed(Head(process[p].plan), process[p].version)
      BY <1>3, <2>1, <2>2, <3>2, ServedStatement
    <3> QED
      BY <2>1, <3>1, <3>2
  <2> DEFINE r == process'[p]
  <2>4. CASE Sync!GiveUp(p)
    <3>a. r = [version |-> process[p].version, at |-> "up", plan |-> <<>>,
               cache |-> process[p].cache, retries |-> process[p].retries,
               alone |-> FALSE, done |-> FALSE]
      BY <2>1, <2>4, GiveUpRun
    <3>1. r.at = "up" /\ ~r.done
      BY ONLY <3>a
    <3>2. \A q \in Processes \ {p} : process'[q] = Undone(process[q])
      BY <2>1, <2>4, GiveUpRun
    <3> HIDE DEF r
    <3>3. ServedRun(dialect, db'.table, r)
      BY <3>1 DEF ServedRun
    <3>4. \A q \in Processes \ {p} : ServedRun(dialect, db'.table, Undone(process[q]))
      <4> DEFINE t == db'.table
      <4> HIDE DEF t
      <4>1. \A q \in Processes \ {p} : ServedRun(dialect, t, process[q])
              /\ SoundRun(process[q])
        BY <1>1, <2>3 DEF t
      <4>2. \A q \in Processes \ {p} : ServedRun(dialect, t, Undone(process[q]))
        BY <4>1, ServedOthers
      <4> QED
        BY <4>2 DEF t
    <3>5. Runs1(db'.table)
      BY <3>2, <3>3, <3>4 DEF r
    <3>6. Follows(process[p], r)
      BY <3>1 DEF Follows, Busy, Trusted
    <3>7. \A q \in Processes : Follows(process[q], process'[q])
      BY <1>2, <3>2, <3>6 DEF r
    <3>8. Pairs1
      BY <1>1, <3>7, PairsFollow
    <3>9. ~broken'
      BY <1>1, <2>3, <2>4 DEF Sync!GiveUp, Served
    <3> QED
      BY <1>3, <2>3, <3>5, <3>8, <3>9 DEF ServerInv
  <2>5. CASE Retried(p) /\ broken' = broken
    <3>a. r = [version |-> process[p].version, at |-> "again", plan |-> <<>>,
               cache |-> process[p].cache, retries |-> process[p].retries + 1,
               alone |-> process[p].alone, done |-> FALSE]
      BY <2>1, <2>5, RetriedRun
    <3>1. r.at = "again" /\ ~r.done /\ r.version = process[p].version
            /\ (r.alone <=> process[p].alone)
      BY ONLY <3>a
    <3>2. \A q \in Processes \ {p} : process'[q] = process[q]
      BY <2>1, <2>5, RetriedRun
    <3> HIDE DEF r
    <3>3. ServedRun(dialect, db'.table, r)
      BY <3>1 DEF ServedRun
    <3>5. Runs1(db'.table)
      BY <2>3, <3>2, <3>3 DEF r
    <3>6. Follows(process[p], r)
      BY <2>2, <3>1 DEF Follows, Busy, Trusted
    <3>7. \A q \in Processes : Follows(process[q], process'[q])
      BY <1>2, <3>2, <3>6 DEF r
    <3>8. Pairs1
      BY <1>1, <3>7, PairsFollow
    <3> QED
      BY <1>1, <1>3, <2>3, <2>5, <3>5, <3>8 DEF ServerInv
  <2> QED
    BY <2>1, <2>4, <2>5
<1> QED
  BY <1>5, <1>6, <1>7, <1>8, <1>9, <1>10

-----------------------------------------------------------------------------
(* TableSync: the steps of sqlite.                                         *)

\* Lists of one length with the same elements at each place are one list.
LEMMA SameLists ==
  ASSUME NEW S, NEW l \in Seq(S),
         NEW m \in Seq(S), Len(l) = Len(m), \A i \in 1..Len(l) : l[i] = m[i]
  PROVE  l = m
OBVIOUS

\* Four lists of one element, one after the other.
LEMMA FourList ==
  ASSUME NEW S, NEW a \in S, NEW b \in S, NEW c \in S, NEW d \in S
  PROVE  <<a>> \o <<b>> \o <<c>> \o <<d>> = <<a, b, c, d>>
<1> DEFINE s == <<a>> \o <<b>> \o <<c>> \o <<d>>
           t == <<a, b, c, d>>
<1>1. s \in Seq(S) /\ Len(s) = 4 /\ s[1] = a /\ s[2] = b /\ s[3] = c /\ s[4] = d
  OBVIOUS
<1>2. t \in Seq(S) /\ Len(t) = 4 /\ t[1] = a /\ t[2] = b /\ t[3] = c /\ t[4] = d
  OBVIOUS
<1> HIDE DEF s, t
<1>3. \A i \in 1..4 : i = 1 \/ i = 2 \/ i = 3 \/ i = 4
  OBVIOUS
<1>4. \A i \in 1..4 : s[i] = t[i]
  BY <1>1, <1>2, <1>3
<1>5. s = t
  BY <1>1, <1>2, <1>4, SameLists
<1> QED
  BY <1>5 DEF s, t

\* The plans of sqlite as lists.
LEMMA RebuildList ==
  /\ Sync!Rebuild = <<Stmt("rename", "*"), Stmt("create if not exists", "*"),
       Stmt("copy", "*"), Stmt("drop temp", "*")>>
  /\ \A do : Sync!One(do) = <<Stmt(do, "*")>>
<1>1. \A do : Sync!One(do) = <<Stmt(do, "*")>>
  BY DEF Sync!One, Stmt
<1> DEFINE a == Stmt("rename", "*")
           b == Stmt("create if not exists", "*")
           c == Stmt("copy", "*")
           d == Stmt("drop temp", "*")
<1>2. Sync!Rebuild = <<a>> \o <<b>> \o <<c>> \o <<d>>
  BY <1>1 DEF Sync!Rebuild
<1> HIDE DEF a, b, c, d
<1> DEFINE S == {a, b, c, d}
<1>3. a \in S /\ b \in S /\ c \in S /\ d \in S
  OBVIOUS
<1> HIDE DEF S
<1>4. <<a>> \o <<b>> \o <<c>> \o <<d>> = <<a, b, c, d>>
  BY ONLY <1>3, FourList
<1> QED
  BY <1>1, <1>2, <1>4 DEF a, b, c, d

\* The plans of the sqlite driver are lists of statements.
LEMMA SqlitePlans ==
  ASSUME Sync!SyncAssumption, dialect = "sqlite", NEW p, NEW v
  PROVE  Sync!Plan(p, v) \in Seq(Stmts)
<1>1. Sync!Plan(p, v) \in {<<>>, Sync!Rebuild, Sync!One("create if not exists")}
  BY DEF Sync!Plan, Sync!SqlitePlan
<1>2. \A do \in {"rename", "create if not exists", "copy", "drop temp"} : Stmt(do,
        "*") \in Stmts
  BY DEF Stmt, Stmts
<1>3. \A a, b, c, d \in Stmts : <<a, b, c, d>> \in Seq(Stmts) /\ <<a>> \in Seq(Stmts)
  OBVIOUS
<1>4. Sync!Rebuild \in Seq(Stmts)
  BY <1>2, <1>3, RebuildList
<1>5. Sync!One("create if not exists") \in Seq(Stmts)
  BY <1>2, <1>3, RebuildList
<1>6. <<>> \in Seq(Stmts)
  OBVIOUS
<1> QED
  BY <1>1, <1>4, <1>5, <1>6

\* What describeTable says of a table has no type of an entity's columns, so a
\* table that the cache does not have as an entity is rebuilt.
LEMMA AlwaysRebuilt ==
  ASSUME Sync!SyncAssumption, NEW v \in Versions, NEW t \in Sync!Tables, SqliteTyped(t)
  PROVE  Sync!RequiresRebuild(Sync!Described(t), v)
<1>1. t # Absent
  BY DEF Sync!SyncAssumption
<1>2. Sync!Described(t).columns = t.columns
  BY <1>1, TableParts DEF Sync!Described
<1>3. "id" \in DOMAIN v.columns /\ v.columns["id"].type \in Sync!ColumnKinds
  BY VersionShape
<1>4. Sync!ColumnKinds \cap SqliteColumnTypes = {}
  BY DEF Sync!ColumnKinds, SqliteColumnTypes
<1>5. "id" \in DOMAIN t.columns => t.columns["id"] # v.columns["id"]
  BY <1>1, <1>3, <1>4 DEF SqliteTyped
<1> QED
  BY <1>2, <1>3, <1>5 DEF Sync!RequiresRebuild

\* The table sqlite creates for a version.
LEMMA CreatedReaches ==
  ASSUME Sync!SyncAssumption, NEW v \in Versions, NEW full \in BOOLEAN
  PROVE  LET t == Sync!CreatedTable("sqlite", v, full) IN
         t \in Sync!Tables /\ Reached(t, v) /\ SqliteTyped(t) /\ t.full = full
<1> DEFINE t == Sync!CreatedTable("sqlite", v, full)
<1>1. /\ t \in Sync!Tables /\ t # Absent
      /\ t.columns = Sync!TableOf("sqlite", v).columns /\ t.unique = v.unique
      /\ t.full = full /\ DOMAIN t.columns = DOMAIN v.columns
  BY Created DEF FiveDrivers
<1>2. \A n \in DOMAIN v.columns :
        /\ t.columns[n].type = DriverType("sqlite", v.columns[n].type)
                                  /\ v.columns[n].type \in Sync!ColumnKinds
  BY <1>1, MadeTable, VersionShape DEF FiveDrivers
<1> HIDE DEF t
<1>3. \A n \in DOMAIN v.columns : t.columns[n].type \in SqliteColumnTypes
  BY <1>2, SqliteKinds DEF DriverType
<1> QED
  BY <1>1, <1>3 DEF t, Reached, SqliteTyped

\* A statement of a rebuild brings it to its next stage.
LEMMA StageStep ==
  ASSUME Sync!SyncAssumption, dialect = "sqlite", db \in Bases, SqliteTyped(db.table),
           SqliteTyped(db.temp),
         NEW r, r.version \in Versions, Stage(db, broken, r), r.plan # <<>>,
           ~Sync!Refused(Head(r.plan), r.version),
         NEW x, x.version = r.version, x.plan = Tail(r.plan)
  PROVE  LET e == Sync!Executed(Head(r.plan), r.version) IN
         /\ e \in Bases /\ SqliteTyped(e.table) /\ SqliteTyped(e.temp)
         /\ Stage(e, broken, x)
<1> DEFINE v == r.version
           e == Sync!Executed(Head(r.plan), r.version)
           s2 == Stmt("create if not exists", "*")
           s3 == Stmt("copy", "*")
           s4 == Stmt("drop temp", "*")
<1>1. /\ db = [table |-> db.table, temp |-> db.temp] /\ Absent \notin Sync!Tables
      /\ db.table \in Sync!Tables \cup {Absent} /\ db.temp \in Sync!Tables \cup {Absent}
  BY DEF Bases, Sync!SyncAssumption
<1>2. SqliteTyped(Absent)
  BY DEF SqliteTyped
<1>3. CASE r.plan = Sync!Rebuild /\ Safe(db, broken)
  <2> DEFINE s1 == Stmt("rename", "*")
  <2>1. Head(r.plan) = s1 /\ Tail(r.plan) = <<s2, s3, s4>>
    <3>1. r.plan = <<s1, s2, s3, s4>>
      BY <1>3, RebuildList
    <3> HIDE DEF s1, s2, s3, s4
    <3> QED
      BY <3>1
  <2>2. e = [table |-> Absent, temp |-> db.table]
    <3>1. Head(r.plan).do = "rename"
      <4>1. Head(r.plan) = s1
        BY <2>1
      <4>2. s1.do = "rename"
        BY DEF Stmt
      <4> QED
        BY ONLY <4>1, <4>2
    <3> QED
      BY <3>1 DEF Sync!Executed
  <2> HIDE DEF e
  <2>3. e \in Bases /\ e.table = Absent /\ e.temp = db.table
    BY <1>1, <2>2 DEF Bases
  <2>5. db.table # Absent
    <3>1. s1.do = "rename"
      BY DEF Stmt
    <3> QED
      BY <2>1, <3>1 DEF Sync!Refused
  <2>4. CopyLeft(e, broken)
    BY <1>3, <2>3, <2>5 DEF CopyLeft, Safe
  <2> QED
    BY <1>2, <2>1, <2>3, <2>4 DEF Stage, e
<1>4. CASE r.plan = <<s2, s3, s4>> /\ db.table = Absent /\ CopyLeft(db, broken)
  <2> DEFINE b == db.temp = Absent
             t == Sync!CreatedTable("sqlite", v, b)
  <2>1. Head(r.plan) = s2 /\ Tail(r.plan) = <<s3, s4>>
    <3> HIDE DEF s2, s3, s4
    <3> QED
      BY <1>4
  <2>2. e = [db EXCEPT !.table = t]
    <3>1. Head(r.plan).do = "create if not exists"
      <4>1. Head(r.plan) = s2
        BY <2>1
      <4>2. s2.do = "create if not exists"
        BY DEF Stmt
      <4> QED
        BY ONLY <4>1, <4>2
    <3>2. e = [db EXCEPT !.table = IF @ = Absent THEN Sync!CreatedTable(dialect, v,
            db.temp = Absent) ELSE @]
      BY <3>1 DEF Sync!Executed
    <3> HIDE DEF e
    <3> QED
      BY <1>4, <3>2
  <2>3. b \in BOOLEAN
    OBVIOUS
  <2> HIDE DEF b, e
  <2>4. t \in Sync!Tables /\ Reached(t, v) /\ SqliteTyped(t)
    BY <2>3, CreatedReaches
  <2> HIDE DEF t
  <2>5. e = [table |-> t, temp |-> db.temp]
    BY <1>1, <2>2
  <2>6. e \in Bases /\ e.table = t /\ e.temp = db.temp
    BY <1>1, <2>4, <2>5 DEF Bases
  <2>7. CopyLeft(e, broken)
    BY <1>4, <2>6 DEF CopyLeft
  <2> QED
    BY <2>1, <2>4, <2>6, <2>7 DEF Stage, e
<1>5. CASE r.plan = <<s3, s4>> /\ Reached(db.table, v) /\ CopyLeft(db, broken)
  <2> DEFINE t == db.table
             f == db.temp.full
             u == [t EXCEPT !.full = f]
  <2>1. Head(r.plan) = s3 /\ Tail(r.plan) = <<s4>>
    <3> HIDE DEF s3, s4
    <3> QED
      BY <1>5
  <2>2. e = [db EXCEPT !.table = u]
    <3>1. Head(r.plan).do = "copy"
      <4>1. Head(r.plan) = s3
        BY <2>1
      <4>2. s3.do = "copy"
        BY DEF Stmt
      <4> QED
        BY ONLY <4>1, <4>2
    <3>2. e = [db EXCEPT !.table.full = db.temp.full]
      BY <3>1 DEF Sync!Executed
    <3> HIDE DEF e
    <3> QED
      BY <3>2
  <2>3. t \in Sync!Tables /\ f \in BOOLEAN
    BY <1>1, <1>5, TableParts DEF Reached, CopyLeft
  <2>4. (~broken => f) /\ db.temp # Absent /\ Reached(t, v)
    BY <1>5 DEF CopyLeft
  <2> HIDE DEF e, f
  <2>5. /\ t = [columns |-> t.columns, unique |-> t.unique, foreign |-> t.foreign,
             full |-> t.full]
        /\ t.columns \in [DOMAIN t.columns -> ColumnTypes]
             /\ DOMAIN t.columns \in SUBSET Sync!ColumnNames
        /\ t.unique \in SUBSET SUBSET Sync!ColumnNames /\ t.foreign \in SUBSET ForeignKeys
    BY <2>3, TableParts
  <2>6. u = [columns |-> t.columns, unique |-> t.unique, foreign |-> t.foreign, full |-> f]
    <3> HIDE DEF t
    <3> QED
      BY <2>5
  <2> HIDE DEF u
  <2>7. u \in Sync!Tables
    BY <2>3, <2>5, <2>6, MakesTable
  <2>8. u.columns = t.columns /\ u.unique = t.unique /\ u.full = f /\ u # Absent
    BY <1>1, <2>6, <2>7
  <2>9. e = [table |-> u, temp |-> db.temp]
    BY <1>1, <2>2
  <2>10. e \in Bases /\ e.table = u /\ e.temp = db.temp
    BY <1>1, <2>7, <2>9 DEF Bases
  <2>11. Reached(u, v)
    BY <2>4, <2>8 DEF Reached
  <2>12. SqliteTyped(u)
    BY <2>4, <2>8 DEF SqliteTyped, Reached
  <2>13. ~broken => e.table.full
    BY <2>4, <2>8, <2>10
  <2> QED
    BY <2>1, <2>10, <2>11, <2>12, <2>13 DEF Stage, e
<1>6. CASE r.plan = <<s4>> /\ Reached(db.table, v) /\ (~broken => db.table.full)
  <2>1. Head(r.plan) = s4 /\ Tail(r.plan) = <<>>
    <3> HIDE DEF s4
    <3> QED
      BY <1>6
  <2>2. e = [db EXCEPT !.temp = Absent]
    <3>1. Head(r.plan).do = "drop temp"
      <4>1. Head(r.plan) = s4
        BY <2>1
      <4>2. s4.do = "drop temp"
        BY DEF Stmt
      <4> QED
        BY ONLY <4>1, <4>2
    <3> QED
      BY <3>1 DEF Sync!Executed
  <2> HIDE DEF e
  <2>3. e = [table |-> db.table, temp |-> Absent]
    BY <1>1, <2>2
  <2>4. e \in Bases /\ e.table = db.table /\ e.temp = Absent
    BY <1>1, <2>3 DEF Bases
  <2>5. Safe(e, broken)
    BY <1>6, <2>4 DEF Safe
  <2> QED
    BY <1>2, <1>6, <2>1, <2>4, <2>5 DEF Stage, e
<1>7. CASE r.plan = <<s2>> /\ db.table = Absent /\ Safe(db, broken)
  <2> DEFINE b == db.temp = Absent
             t == Sync!CreatedTable("sqlite", v, b)
  <2>1. Head(r.plan) = s2 /\ Tail(r.plan) = <<>>
    <3> HIDE DEF s2
    <3> QED
      BY <1>7
  <2>2. e = [db EXCEPT !.table = t]
    <3>1. Head(r.plan).do = "create if not exists"
      <4>1. Head(r.plan) = s2
        BY <2>1
      <4>2. s2.do = "create if not exists"
        BY DEF Stmt
      <4> QED
        BY ONLY <4>1, <4>2
    <3>2. e = [db EXCEPT !.table = IF @ = Absent THEN Sync!CreatedTable(dialect, v,
            db.temp = Absent) ELSE @]
      BY <3>1 DEF Sync!Executed
    <3> HIDE DEF e
    <3> QED
      BY <1>7, <3>2
  <2>3. b \in BOOLEAN /\ (~broken => db.temp = Absent /\ b)
    BY <1>7 DEF Safe
  <2> HIDE DEF b, e
  <2>4. t \in Sync!Tables /\ Reached(t, v) /\ SqliteTyped(t) /\ t.full = b
    BY <2>3, CreatedReaches
  <2> HIDE DEF t
  <2>5. e = [table |-> t, temp |-> db.temp]
    BY <1>1, <2>2
  <2>6. e \in Bases /\ e.table = t /\ e.temp = db.temp
    BY <1>1, <2>4, <2>5 DEF Bases
  <2>7. Safe(e, broken)
    BY <2>3, <2>4, <2>6 DEF Safe
  <2> QED
    BY <2>1, <2>4, <2>6, <2>7 DEF Stage, e
<1> QED
  BY <1>3, <1>4, <1>5, <1>6, <1>7 DEF Stage

\* A process that is down knows nothing, and no other can tell it anything.
LEMMA DownStays ==
  /\ Sync!NoRun.at = "down" /\ Sync!NoRun.version = Absent /\ Sync!NoRun.plan = <<>>
       /\ Sync!NoRun.cache = Absent
  /\ ~Sync!NoRun.done /\ Undone(Sync!NoRun) = Sync!NoRun
<1> DEFINE no == FALSE
<1>1. Sync!NoRun = [version |-> Absent, at |-> "down", plan |-> <<>>, cache |-> Absent,
               retries |-> 0, alone |-> no, done |-> no]
  BY DEF Sync!NoRun
<1>2. Undone(Sync!NoRun) = [Sync!NoRun EXCEPT !.done = no]
  BY DEF Undone
<1> HIDE DEF no
<1>3. [Sync!NoRun EXCEPT !.done = no] = Sync!NoRun
  BY <1>1
<1>4. Sync!NoRun.done = no
  BY <1>1
<1> QED
  BY <1>1, <1>2, <1>3, <1>4 DEF no

\* A process that is down claims nothing of the table.
LEMMA DownRun ==
  ASSUME NEW base, NEW lost
  PROVE  SqliteRun(base, lost, Sync!NoRun)
BY DownStays DEF SqliteRun

\* Every step of the sqlite driver keeps what always holds.
LEMMA SqliteStep ==
  ASSUME Sync!SyncAssumption, SyncTyped, dialect = "sqlite", SqliteInv, Sync!SyncNext
  PROVE  SqliteInv' /\ db' \in Bases
<1>1. /\ SqliteTyped(db.table) /\ SqliteTyped(db.temp) /\ db \in Bases
      /\ \A q \in Processes : SqliteRun(db, broken, process[q]) /\ SoundRun(process[q])
      /\ \A a, b \in Processes : a # b => process[a].at = "down" \/ process[b].at = "down"
      /\ (\A q \in Processes : process[q].at # "running") => Safe(db, broken)
  BY DEF SqliteInv, SyncTyped
<1> SUFFICES ASSUME NEW p \in Processes,
                    \/ \E v \in Versions : Sync!Deploy(p, v)
                    \/ Sync!EnsureTable(p) \/ Sync!Statement(p) \/ Sync!Returned(p)
                    \/ Sync!StatementRefused(p) \/ Sync!ConnectionLost(p)
                         \/ Sync!StartOver(p)
             PROVE  SqliteInv' /\ db' \in Bases
  BY DEF Sync!SyncNext
<1> DEFINE r == process'[p]
           v == process[p].version
\* It is the one that is up.
<1>2. ASSUME \A q \in Processes \ {p} : process[q].at = "down",
               \A q \in Processes \ {p} : process'[q] = process[q],
             db' \in Bases, SqliteTyped(db'.table), SqliteTyped(db'.temp),
             SqliteRun(db', broken', r), r.at # "running" => Safe(db', broken')
      PROVE  SqliteInv' /\ db' \in Bases
  <2> HIDE DEF r
  <2>1. \A q \in Processes \ {p} : process'[q] = Sync!NoRun
    BY <1>1, <1>2 DEF SqliteRun
  <2>2. \A q \in Processes : SqliteRun(db', broken', process'[q])
    BY <1>2, <2>1, DownRun DEF r
  <2>3. \A a, b \in Processes : a # b => process'[a].at = "down" \/ process'[b].at = "down"
    BY <2>1, DownStays
  <2>4. (\A q \in Processes : process'[q].at # "running") => Safe(db', broken')
    BY <1>2 DEF r
  <2> QED
    BY <1>2, <2>2, <2>3, <2>4 DEF SqliteInv
<1>3. ASSUME process[p].at # "down"
      PROVE  \A q \in Processes \ {p} : process[q].at = "down" /\ process[q] = Sync!NoRun
  BY <1>1, <1>3 DEF SqliteRun
<1>4. CASE \E w \in Versions : Sync!Deploy(p, w)
  <2>1. PICK w \in Versions : Sync!Deploy(p, w)
    BY <1>4
  <2> DEFINE k == Sync!KnownAtStart
  <2>2. r = [version |-> w, at |-> "up", plan |-> <<>>, cache |-> k, retries |-> 0,
             alone |-> FALSE, done |-> FALSE]
    BY <2>1, DeployRun
  <2> HIDE DEF k
  <2>3. r.at = "up" /\ ~r.done /\ r.cache = k /\ r.version = w
    BY ONLY <2>2
  <2>7. k # Absent => Sync!RequiresRebuild(k, w)
    <3>1. k = Sync!Described(db.table)
      BY DEF k, Sync!KnownAtStart
    <3>2. db.table = Absent => k = Absent
      BY <3>1 DEF Sync!Described
    <3>3. db.table \in Sync!Tables \cup {Absent}
      BY <1>1 DEF Bases
    <3> QED
      BY <1>1, <3>1, <3>2, <3>3, AlwaysRebuilt
  <2>4. /\ \A q \in Processes \ {p} : process[q].at = "down" /\ process'[q] = process[q]
        /\ db' = db /\ broken' = broken /\ ~Sync!Running(p)
    BY <2>1, DeployRun DEF Sync!Deploy
  <2>5. Safe(db, broken)
    <3>1. \A q \in Processes : process[q].at # "running"
      BY <2>4 DEF Sync!Running
    <3> QED
      BY <1>1, <3>1
  <2> HIDE DEF r
  <2>6. SqliteRun(db', broken', r)
    BY <2>3, <2>7 DEF SqliteRun
  <2> QED
    BY <1>1, <1>2, <2>4, <2>5, <2>6
<1>5. CASE Sync!EnsureTable(p)
  <2>1. v \in Versions /\ process[p].at = "up"
    BY <1>5, EnsureRun
  <2>2. \A q \in Processes \ {p} : process[q].at = "down" /\ process[q] = Sync!NoRun
    BY <1>3, <2>1
  <2>3. Others(p) = {}
    BY <2>2, DownStays DEF Others
  <2>4. \A q \in Processes \ {p} : process'[q] = process[q]
    BY <1>5, <2>3, EnsureRun
  <2>5. /\ r.at = "running" /\ r.version = v /\ r.plan = Sync!Plan(p, v) /\ ~r.done
        /\ r.cache = process[p].cache
    <3> DEFINE b == \A o \in Others(p) : ~Sync!Running(o)
               l == Sync!Plan(p, v)
               c == process[p].cache
    <3>1. r = [version |-> v, at |-> "running", plan |-> l,
               cache |-> IF dialect = "postgres" THEN v ELSE c, retries |-> 0,
               alone |-> b, done |-> FALSE]
      BY <1>5, EnsureRun
    <3>2. r = [version |-> v, at |-> "running", plan |-> l, cache |-> c, retries |-> 0,
               alone |-> b, done |-> FALSE]
      BY <3>1
    <3> HIDE DEF b, l, c, r, v
    <3>3. r.at = "running" /\ r.version = v /\ r.plan = l /\ ~r.done /\ r.cache = c
      BY ONLY <3>2
    <3> QED
      BY <3>3 DEF c, l
  <2>6. db' = db /\ broken' = broken
    BY <1>5 DEF Sync!EnsureTable
  <2>7. Safe(db, broken)
    <3>1. \A q \in Processes : process[q].at # "running"
      BY <2>1, <2>2
    <3> QED
      BY <1>1, <3>1
  <2> DEFINE cache == process[p].cache
  <2>8. Sync!Plan(p, v) = Sync!SqlitePlan(IF cache # Absent THEN cache ELSE Sync!Described(db.table), v)
    BY DEF Sync!Plan
  <2>9. cache # Absent =>
           (cache = v /\ Reached(db.table, v)) \/ Sync!RequiresRebuild(cache, v)
    BY <1>1 DEF SqliteRun
  <2>10. Absent \notin Versions /\ db.table \in Sync!Tables \cup {Absent}
           /\ Absent \notin Sync!Tables
    BY <1>1 DEF Sync!SyncAssumption, Bases
  <2> HIDE DEF r, v, cache
  <2>11. CASE cache # Absent /\ ~Sync!RequiresRebuild(cache, v)
    <3>1. Sync!Plan(p, v) = <<>>
      BY <2>8, <2>11 DEF Sync!SqlitePlan
    <3>2. Stage(db, broken, r)
      BY <2>5, <2>7, <2>9, <2>11, <3>1 DEF Stage
    <3>3. SqliteRun(db, broken, r)
      BY <2>5, <2>9, <2>11, <3>1, <3>2 DEF SqliteRun, cache
    <3> QED
      BY <1>1, <1>2, <2>2, <2>4, <2>5, <2>6, <3>3
  <2>14. CASE cache # Absent /\ Sync!RequiresRebuild(cache, v)
    <3>1. Sync!Plan(p, v) = Sync!Rebuild
      BY <2>8, <2>14 DEF Sync!SqlitePlan
    <3>2. Stage(db, broken, r)
      BY <2>5, <2>7, <3>1 DEF Stage
    <3>3. SqliteRun(db, broken, r)
      BY <2>5, <2>14, <3>2 DEF SqliteRun, cache
    <3> QED
      BY <1>1, <1>2, <2>2, <2>4, <2>5, <2>6, <3>3
  <2>12. CASE cache = Absent /\ db.table = Absent
    <3>1. Sync!Plan(p, v) = <<Stmt("create if not exists", "*")>>
      BY <2>8, <2>12, RebuildList DEF Sync!SqlitePlan, Sync!Described
    <3>2. Stage(db, broken, r)
      BY <2>5, <2>7, <2>12, <3>1 DEF Stage
    <3>3. SqliteRun(db, broken, r)
      BY <2>5, <2>12, <3>2 DEF SqliteRun, cache
    <3> QED
      BY <1>1, <1>2, <2>2, <2>4, <2>5, <2>6, <3>3
  <2>13. CASE cache = Absent /\ db.table # Absent
    <3>1. db.table \in Sync!Tables
      BY <2>10, <2>13
    <3>2. Sync!RequiresRebuild(Sync!Described(db.table), v)
      BY <1>1, <2>1, <3>1, AlwaysRebuilt
    <3>3. Sync!Described(db.table) # Absent
      BY <2>1, <3>1, DescribedTable
    <3>4. Sync!Plan(p, v) = Sync!Rebuild
      BY <2>8, <2>13, <3>2, <3>3 DEF Sync!SqlitePlan
    <3>5. Stage(db, broken, r)
      BY <2>5, <2>7, <2>13, <3>4 DEF Stage
    <3>6. SqliteRun(db, broken, r)
      BY <2>5, <2>13, <3>5 DEF SqliteRun, cache
    <3> QED
      BY <1>1, <1>2, <2>2, <2>4, <2>5, <2>6, <3>6
  <2> QED
    BY <2>11, <2>12, <2>13, <2>14
<1>6. CASE Sync!Statement(p)
  <2>1. process[p].at = "running" /\ v \in Versions
    BY <1>6, StatementRun
  <2>2. /\ process[p].plan # <<>> /\ db' = Sync!Executed(Head(process[p].plan), v)
             /\ broken' = broken /\ ~Sync!Refused(Head(process[p].plan), v)
    BY <1>6 DEF Sync!Statement
  <2>3. \A q \in Processes \ {p} : process[q].at = "down" /\ process'[q] = process[q]
    BY <1>3, <1>6, <2>1, StatementRun
  <2>4. r = [version |-> process[p].version, at |-> "running",
          plan |-> Tail(process[p].plan),
             cache |-> process[p].cache, retries |-> process[p].retries,
             alone |-> process[p].alone, done |-> FALSE]
    BY <1>6, StatementRun
  <2>5. r.at = "running" /\ r.version = v /\ r.plan = Tail(process[p].plan)
          /\ ~r.done /\ r.cache = process[p].cache
    BY ONLY <2>4
  <2>6. /\ Stage(db, broken, process[p])
        /\ process[p].cache # Absent => Sync!RequiresRebuild(process[p].cache, v)
    BY <1>1, <2>1, <2>2 DEF SqliteRun
  <2> DEFINE e == Sync!Executed(Head(process[p].plan), process[p].version)
  <2>7. e \in Bases /\ SqliteTyped(e.table) /\ SqliteTyped(e.temp) /\ Stage(e, broken, r)
    <3> DEFINE o == process[p]
    <3>1. /\ o.version \in Versions /\ Stage(db, broken, o) /\ o.plan # <<>>
          /\ r.version = o.version /\ r.plan = Tail(o.plan)
          /\ ~Sync!Refused(Head(o.plan), o.version)
      BY <2>1, <2>2, <2>5, <2>6
    <3>2. e = Sync!Executed(Head(o.plan), o.version)
      OBVIOUS
    <3> HIDE DEF o, r, e
    <3> QED
      BY <1>1, <3>1, <3>2, StageStep
  <2> HIDE DEF e, r
  <2>8. db' = e
    BY <2>2 DEF e
  <2>9. SqliteRun(e, broken, r)
    BY <2>5, <2>6, <2>7 DEF SqliteRun
  <2> QED
    BY <1>2, <2>2, <2>3, <2>5, <2>7, <2>8, <2>9
<1>7. CASE Sync!Returned(p)
  <2>1. process[p].at = "running" /\ process[p].plan = <<>> /\ v \in Versions
    BY <1>7, ReturnedRun
  <2>2. db' = db /\ broken' = broken
    BY <1>7 DEF Sync!Returned
  <2>3. \A q \in Processes \ {p} : process[q].at = "down" /\ process'[q] = process[q]
    BY <1>3, <1>7, <2>1, ReturnedRun
  <2>4. r = [version |-> process[p].version, at |-> "up", plan |-> <<>>,
             cache |-> process[p].version, retries |-> process[p].retries,
             alone |-> process[p].alone, done |-> process[p].alone]
    BY <1>7, ReturnedRun
  <2>5. r.at = "up" /\ r.version = v /\ r.plan = <<>> /\ r.cache = v
    BY ONLY <2>4
  <2>6. Stage(db, broken, process[p])
    BY <1>1, <2>1 DEF SqliteRun
  <2>7. Reached(db.table, v) /\ Safe(db, broken)
    <3>1. Sync!Rebuild # <<>>
      BY RebuildList
    <3> QED
      BY <2>1, <2>6, <3>1 DEF Stage
  <2> HIDE DEF r
  <2>8. SqliteRun(db, broken, r)
    BY <2>5, <2>7 DEF SqliteRun
  <2> QED
    BY <1>1, <1>2, <2>2, <2>3, <2>7, <2>8
<1>8. CASE Sync!StatementRefused(p)
  <2>1. process[p].plan # <<>> /\ Sync!GiveUp(p) /\ db' = db /\ broken' = (broken
          \/ db'.temp # Absent)
    BY <1>8 DEF Sync!StatementRefused, Sync!GiveUp
  <2>2. process[p].at = "running" /\ v \in Versions
    BY <2>1, GiveUpRun
  <2>3. \A q \in Processes \ {p} : process[q].at = "down" /\ process[q] = Sync!NoRun
    BY <1>3, <2>2
  <2>4. \A q \in Processes \ {p} : process'[q] = process[q]
    <3>1. \A q \in Processes \ {p} : process'[q] = Undone(process[q])
      BY <2>1, GiveUpRun
    <3> QED
      BY <2>3, <3>1, DownStays
  <2>5. r = [version |-> process[p].version, at |-> "up", plan |-> <<>>,
             cache |-> process[p].cache, retries |-> process[p].retries,
             alone |-> FALSE, done |-> FALSE]
    BY <2>1, GiveUpRun
  <2>6. r.at = "up" /\ ~r.done /\ r.cache = process[p].cache /\ r.version = v
    BY ONLY <2>5
  <2>7. /\ Stage(db, broken, process[p])
        /\ process[p].cache # Absent => Sync!RequiresRebuild(process[p].cache, v)
    BY <1>1, <2>1, <2>2 DEF SqliteRun
  <2>8. Safe(db, broken')
    BY <2>1, <2>7 DEF Stage, Safe, CopyLeft
  <2> HIDE DEF r
  <2>9. SqliteRun(db, broken', r)
    BY <2>6, <2>7 DEF SqliteRun
  <2> QED
    BY <1>1, <1>2, <2>1, <2>3, <2>4, <2>8, <2>9
<1>9. CASE Sync!ConnectionLost(p)
  BY <1>9 DEF Sync!ConnectionLost
<1>10. CASE Sync!StartOver(p)
  BY <1>1, <1>10 DEF Sync!StartOver, SqliteRun
<1> QED
  BY <1>4, <1>5, <1>6, <1>7, <1>8, <1>9, <1>10

-----------------------------------------------------------------------------
(* TableSync: from first to last.                                          *)

\* What always holds does so at first.
LEMMA SyncStart ==
  ASSUME Sync!SyncAssumption, Sync!SyncInit
  PROVE  SyncInv
<1>1. dialect \in SyncDialects /\ dialect \in FiveDrivers
  BY DEF Sync!SyncAssumption, Sync!SyncInit, FiveDrivers
<1>2. {MaxSyncFaults, MaxSyncRetries, MaxDeploys} \subseteq Nat
  BY DEF Sync!SyncAssumption
<1>3. \A p \in Processes : process[p] = Sync!NoRun
  BY DEF Sync!SyncInit
<1>4. lower \in BOOLEAN /\ broken = FALSE /\ syncFaults = 0 /\ deploys = 0
  BY DEF Sync!SyncInit
<1>5. /\ db \in Bases /\ db.temp = Absent
      /\ db.table # Absent =>
           \E v \in Versions : db.table = Sync!CreatedTable(dialect, v, TRUE)
  <2>1. CASE db = [table |-> Absent, temp |-> Absent]
    BY <2>1 DEF Bases
  <2>2. CASE \E v \in Versions : db = [table |-> Sync!CreatedTable(dialect, v, TRUE),
          temp |-> Absent]
    <3>1. PICK v \in Versions : db = [table |-> Sync!CreatedTable(dialect, v, TRUE),
            temp |-> Absent]
      BY <2>2
    <3> DEFINE t == Sync!CreatedTable(dialect, v, TRUE)
    <3>2. t \in Sync!Tables
      BY <1>1, Created
    <3>3. db = [table |-> t, temp |-> Absent]
      BY <3>1
    <3>4. db.table = t /\ db.temp = Absent
      <4> HIDE DEF t
      <4> QED
        BY <3>3
    <3>5. db \in Bases
      <4> HIDE DEF t
      <4> QED
        BY <3>2, <3>3 DEF Bases
    <3> QED
      BY <3>4, <3>5
  <2> QED
    BY <2>1, <2>2 DEF Sync!SyncInit
<1>6. db.table # Absent => db.table.full
  <2> SUFFICES ASSUME db.table # Absent
               PROVE  db.table.full
    OBVIOUS
  <2>1. PICK v \in Versions : db.table = Sync!CreatedTable(dialect, v, TRUE)
    BY <1>5
  <2>2. TRUE \in BOOLEAN
    OBVIOUS
  <2>3. Sync!CreatedTable(dialect, v, TRUE).full = TRUE
    BY <1>1, <2>2, Created
  <2> QED
    BY ONLY <2>1, <2>3
<1>7. SyncTyped
  <2>1. SoundRun(Sync!NoRun) /\ Sync!NoRun \in Runs
    BY SoundNoRun DEF SoundRun
  <2>2. process = [p \in Processes |-> Sync!NoRun]
    BY DEF Sync!SyncInit
  <2>3. process \in [Processes -> Runs]
    BY <2>1, <2>2
  <2>4. syncFaults \in 0..MaxSyncFaults /\ deploys \in 0..MaxDeploys
    <3>1. MaxSyncFaults \in Nat /\ MaxDeploys \in Nat
      BY <1>2
    <3>2. syncFaults = 0 /\ deploys = 0
      BY <1>4
    <3> QED
      BY ONLY <3>1, <3>2
  <2>5. broken \in BOOLEAN
    BY <1>4
  <2> QED
    BY <1>1, <1>3, <1>4, <1>5, <2>1, <2>3, <2>4, <2>5 DEF SyncTyped
<1>8. dialect # "sqlite" => ServerInv
  <2> SUFFICES ASSUME dialect # "sqlite"
               PROVE  ServerInv
    OBVIOUS
  <2>1. dialect = "postgres" /\ db.table # Absent => PostgresTyped(db.table)
    <3> SUFFICES ASSUME dialect = "postgres", db.table # Absent
                 PROVE  PostgresTyped(db.table)
      OBVIOUS
    <3>1. PICK v \in Versions : db.table = Sync!CreatedTable(dialect, v, TRUE)
      BY <1>5
    <3> QED
      BY <1>1, <3>1, CreatedAgrees
  <2>2. Served
    BY <1>5, <1>6, <2>1 DEF Served
  <2>3. \A p \in Processes : process[p].at = "down" /\ ~process[p].done
    BY <1>3, DownStays
  <2> QED
    BY <1>4, <2>2, <2>3 DEF ServerInv, ServedRun, Paired, Busy
<1>9. dialect = "sqlite" => SqliteInv
  <2> SUFFICES ASSUME dialect = "sqlite"
               PROVE  SqliteInv
    OBVIOUS
  <2>1. SqliteTyped(db.table)
    <3> SUFFICES ASSUME db.table # Absent
                 PROVE  SqliteTyped(db.table)
      BY DEF SqliteTyped
    <3>1. PICK v \in Versions : db.table = Sync!CreatedTable(dialect, v, TRUE)
      BY <1>5
    <3> QED
      BY <3>1, CreatedReaches
  <2>2. SqliteTyped(db.temp)
    BY <1>5 DEF SqliteTyped
  <2>3. \A p \in Processes : SqliteRun(db, broken, process[p]) /\ process[p].at = "down"
    BY <1>3, DownRun, DownStays
  <2>4. Safe(db, broken)
    BY <1>5, <1>6 DEF Safe
  <2> QED
    BY <2>1, <2>2, <2>3, <2>4 DEF SqliteInv
<1> QED
  BY <1>7, <1>8, <1>9 DEF SyncInv

\* The statements that bring a table to a version are statements.
LEMMA TowardsTyped ==
  ASSUME Sync!SyncAssumption, NEW v \in Versions
  PROVE  Towards(v) \subseteq Stmts
<1>1. DOMAIN v.columns \subseteq Sync!ColumnNames
  BY VersionShape
<1> QED
  BY <1>1 DEF Towards, Stmts

\* The plans of all five drivers are lists of statements.
LEMMA PlansTyped ==
  ASSUME Sync!SyncAssumption, dialect \in FiveDrivers, dialect # "sqlite" => Served
  PROVE  \A p \in Processes : \A v \in Versions : Sync!Plan(p, v) \in Seq(Stmts)
<1> SUFFICES ASSUME NEW p \in Processes, NEW v \in Versions
             PROVE  Sync!Plan(p, v) \in Seq(Stmts)
  OBVIOUS
<1>1. CASE dialect = "sqlite"
  BY <1>1, SqlitePlans
<1>2. CASE dialect # "sqlite"
  <2>1. Sync!Plan(p, v) \in Seq(Towards(v))
    BY <1>2, PlanCovers
  <2> DEFINE l == Sync!Plan(p, v)
             S == Towards(v)
  <2>2. l \in Seq(S) /\ S \subseteq Stmts
    BY <2>1, TowardsTyped
  <2> HIDE DEF l, S
  <2>3. l \in Seq(Stmts)
    BY <2>2
  <2> QED
    BY <2>3 DEF l
<1> QED
  BY <1>1, <1>2

\* Every step keeps what always holds.
LEMMA SyncStep ==
  ASSUME Sync!SyncAssumption, SyncInv, [Sync!SyncNext]_Sync!syncVars
  PROVE  SyncInv'
<1>1. CASE Sync!SyncNext
  <2>1. SyncTyped /\ dialect \in FiveDrivers /\ dialect' = dialect
    <3>1. SyncTyped /\ dialect \in FiveDrivers
      BY DEF SyncInv, SyncTyped, Sync!SyncAssumption, FiveDrivers
    <3>2. dialect' = dialect
      BY <1>1
      DEF Sync!SyncNext, Sync!Deploy, Sync!EnsureTable, Sync!Statement, Sync!Returned,
          Sync!StatementRefused, Sync!ConnectionLost,
                  Sync!StartOver
    <3> QED
      BY <3>1, <3>2
  <2>2. dialect # "sqlite" => ServerInv /\ Served
    BY DEF SyncInv, ServerInv
  <2>3. \A p \in Processes : \A v \in Versions : Sync!Plan(p, v) \in Seq(Stmts)
    BY <2>1, <2>2, PlansTyped
  <2>4. dialect # "sqlite" => ServerInv' /\ db' \in Bases
    <3>1. dialect # "sqlite" => ServerInv'
      BY <1>1, <2>1, <2>2, ServerStep
    <3>2. ServerInv' => db' \in Bases
      BY DEF ServerInv, Served, Bases, Sync!Tables
    <3> QED
      BY <3>1, <3>2
  <2>5. dialect = "sqlite" => SqliteInv' /\ db' \in Bases
    BY <1>1, <2>1, SqliteStep DEF SyncInv
  <2>6. SyncTyped'
    BY <1>1, <2>1, <2>3, <2>4, <2>5, TypedStep
  <2> QED
    BY <2>1, <2>4, <2>5, <2>6 DEF SyncInv
<1>2. CASE UNCHANGED Sync!syncVars
  BY <1>2 DEF Sync!syncVars, SyncInv, SyncTyped, ServerInv, SqliteInv, Served
<1> QED
  BY <1>1, <1>2

\* What always holds has the variables hold values of their kinds.
LEMMA TypesKept ==
  ASSUME Sync!SyncAssumption, SyncInv
  PROVE  Sync!TypeOK
<1>1. SyncTyped
  BY DEF SyncInv
<1>2. \A p \in Processes :
        /\ process[p].at \in {"down", "up", "running", "again"}
        /\ process[p].version \in Versions \cup {Absent}
        /\ process[p].cache # Absent =>
              DOMAIN process[p].cache.columns \subseteq Sync!ColumnNames
        /\ process[p].retries \in 0..MaxSyncRetries
        /\ {process[p].alone, process[p].done} \subseteq BOOLEAN
  <2> TAKE p \in Processes
  <2>1. process[p] \in Runs
    BY <1>1 DEF SyncTyped, SoundRun
  <2> DEFINE r == process[p]
  <2>2. /\ r.version \in Versions \cup {Absent}
             /\ r.at \in {"down", "up", "running", "again"}
        /\ r.cache \in Versions \cup Sync!Tables \cup {Absent}
        /\ r.retries \in 0..MaxSyncRetries /\ r.alone \in BOOLEAN /\ r.done \in BOOLEAN
    BY <2>1, RunParts
  <2> HIDE DEF r
  <2>3. {r.alone, r.done} \subseteq BOOLEAN
    BY <2>2
  <2>4. r.cache # Absent => DOMAIN r.cache.columns \subseteq Sync!ColumnNames
    <3>1. ASSUME r.cache \in Versions
          PROVE  DOMAIN r.cache.columns \subseteq Sync!ColumnNames
      BY <3>1, VersionShape
    <3>2. ASSUME r.cache \in Sync!Tables
          PROVE  DOMAIN r.cache.columns \subseteq Sync!ColumnNames
      BY <3>2, TableParts
    <3> QED
      BY <2>2, <3>1, <3>2
  <2> QED
    BY <2>2, <2>3, <2>4 DEF r
<1>3. \A table \in {db.table, db.temp} \ {Absent} :
        /\ DOMAIN table.columns \subseteq Sync!ColumnNames
        /\ table.unique \subseteq SUBSET Sync!ColumnNames
             /\ Sync!Keys(table) \subseteq Sync!ColumnNames
        /\ table.full \in BOOLEAN
  <2> TAKE table \in {db.table, db.temp} \ {Absent}
  <2>1. table \in Sync!Tables
    BY <1>1 DEF SyncTyped, Bases
  <2> QED
    BY <2>1, TableParts
<1> QED
  BY <1>1, <1>2, <1>3 DEF Sync!TypeOK, SyncTyped

\* In postgres nothing is left to do: the table is the version's.
LEMMA PostgresReached ==
  ASSUME Sync!SyncAssumption, NEW v \in Versions, NEW t \in Sync!Tables,
         \A f \in Sides : Agrees(t, v, f)
  PROVE  LET wanted == Sync!CreatedTable("postgres", v, TRUE) IN
         t.columns = wanted.columns /\ t.unique = wanted.unique
           /\ Sync!Keys(t) = Sync!Keys(wanted)
<1> DEFINE wanted == Sync!CreatedTable("postgres", v, TRUE)
           made == Sync!TableOf("postgres", v)
<1>1. "postgres" \in FiveDrivers
  BY DEF FiveDrivers
<1>2. wanted.columns = made.columns /\ wanted.unique = v.unique
        /\ Sync!Keys(wanted) = Sync!Keys(v)
  BY <1>1, Created
<1>3. /\ made.columns \in [DOMAIN v.columns -> ColumnTypes]
      /\ \A n \in DOMAIN v.columns :
           /\ made.columns[n].type = Sync!PostgresType[v.columns[n].type]
                                     /\ made.columns[n].nullable = v.columns[n].nullable
  BY <1>1, MadeTable DEF DriverType
<1>4. /\ DOMAIN t.columns \in SUBSET Sync!ColumnNames
           /\ t.columns \in [DOMAIN t.columns -> ColumnTypes]
      /\ t.unique \in SUBSET SUBSET Sync!ColumnNames
           /\ Sync!Keys(t) \in SUBSET Sync!ColumnNames
  BY TableParts
<1>5. /\ DOMAIN v.columns \in SUBSET Sync!ColumnNames
           /\ v.unique \in SUBSET SUBSET Sync!ColumnNames
      /\ Sync!Keys(v) \in SUBSET Sync!ColumnNames
  BY VersionShape DEF Sync!Keys
<1>6. \A n \in Sync!ColumnNames : n \in DOMAIN t.columns <=> n \in DOMAIN v.columns
  <2> TAKE n \in Sync!ColumnNames
  <2> DEFINE f == [kind |-> "has", name |-> n]
  <2>1. f \in Sides
    BY DEF Sides
  <2> QED
    BY <2>1 DEF Agrees
<1>7. DOMAIN t.columns = DOMAIN v.columns
  BY <1>4, <1>5, <1>6
<1>8. \A n \in DOMAIN v.columns : t.columns[n] = made.columns[n]
  <2> TAKE n \in DOMAIN v.columns
  <2> DEFINE f == [kind |-> "type", name |-> n]
             g == [kind |-> "null", name |-> n]
             x == t.columns[n]
             y == made.columns[n]
  <2>1. f \in Sides /\ g \in Sides
    BY <1>5 DEF Sides
  <2>2. x.type = Sync!PostgresType[v.columns[n].type] /\ x.nullable = v.columns[n].nullable
    BY <1>7, <2>1 DEF Agrees
  <2>3. x \in ColumnTypes /\ y \in ColumnTypes /\ x.type = y.type /\ x.nullable = y.nullable
    BY <1>3, <1>4, <1>7, <2>2
  <2> HIDE DEF x, y
  <2>4. x = y
    BY <2>3 DEF ColumnTypes
  <2> QED
    BY <2>4 DEF x, y
<1>9. t.columns = made.columns
  <2> HIDE DEF made
  <2> QED
    BY <1>3, <1>4, <1>7, <1>8
<1>10. t.unique = v.unique
  <2>1. \A s \in SUBSET Sync!ColumnNames : s \in t.unique <=> s \in v.unique
    <3> TAKE s \in SUBSET Sync!ColumnNames
    <3> DEFINE f == [kind |-> "unique", of |-> s]
    <3>1. f \in Sides
      BY DEF Sides
    <3> QED
      BY <3>1 DEF Agrees
  <2> QED
    BY <1>4, <1>5, <2>1
<1>11. Sync!Keys(t) = Sync!Keys(v)
  <2>1. \A n \in Sync!ColumnNames : n \in Sync!Keys(t) <=> n \in Sync!Keys(v)
    <3> TAKE n \in Sync!ColumnNames
    <3> DEFINE f == [kind |-> "key", name |-> n]
    <3>1. f \in Sides
      BY DEF Sides
    <3> QED
      BY <3>1 DEF Agrees
  <2> QED
    BY <1>4, <1>5, <2>1
<1> QED
  BY <1>2, <1>9, <1>10, <1>11

\* A table that agrees with a version in all the driver looks at has its columns.
LEMMA NothingMissing ==
  ASSUME Sync!SyncAssumption, NEW v \in Versions, NEW t,
         \A f \in Minded(dialect, v) : Agrees(t, v, f)
  PROVE  Sync!Missing(t, v) = {}
<1>1. DOMAIN v.columns \in SUBSET Sync!ColumnNames
  BY VersionShape
<1>2. \A n \in DOMAIN v.columns : n \in DOMAIN t.columns
  <2> TAKE n \in DOMAIN v.columns
  <2> DEFINE f == [kind |-> "has", name |-> n]
  <2>1. f \in Minded(dialect, v)
    BY <1>1 DEF Minded, Sides
  <2> QED
    BY <2>1 DEF Agrees
<1> QED
  BY <1>2 DEF Sync!Missing

\* A run that counts as done has brought the table to its version.
LEMMA ReachedSync ==
  ASSUME Sync!SyncAssumption, SyncInv
  PROVE  Sync!SyncReached
<1> SUFFICES ASSUME NEW p \in Processes, process[p].done
             PROVE  /\ db.table # Absent /\ Sync!Missing(db.table, process[p].version) = {}
                    /\ dialect \in {"postgres", "sqlite"} =>
                        LET wanted == Sync!CreatedTable(dialect, process[p].version,
                          TRUE) IN
                        /\ db.table.columns = wanted.columns
                             /\ db.table.unique = wanted.unique
                        /\ dialect = "postgres" => Sync!Keys(db.table) = Sync!Keys(wanted)
  BY DEF Sync!SyncReached
<1> DEFINE v == process[p].version
<1>1. v \in Versions /\ db.table \in Sync!Tables \cup {Absent}
  BY DEF SyncInv, SyncTyped, SoundRun, Bases
<1>2. CASE dialect # "sqlite"
  <2>1. db.table # Absent /\ CoveredBy(dialect, db.table, {}, v)
    BY <1>2 DEF SyncInv, ServerInv, ServedRun
  <2>2. \A f \in Minded(dialect, v) : Agrees(db.table, v, f)
    BY <2>1 DEF CoveredBy
  <2> HIDE DEF v
  <2>3. Sync!Missing(db.table, v) = {}
    BY <1>1, <2>2, NothingMissing
  <2>4. dialect = "postgres" =>
          LET wanted == Sync!CreatedTable(dialect, v, TRUE) IN
          db.table.columns = wanted.columns /\ db.table.unique = wanted.unique
          /\ Sync!Keys(db.table) = Sync!Keys(wanted)
    BY <1>1, <2>1, <2>2, PostgresReached DEF Minded
  <2> QED
    BY <1>2, <2>1, <2>3, <2>4 DEF v
<1>3. CASE dialect = "sqlite"
  <2>1. Reached(db.table, v)
    BY <1>3 DEF SyncInv, SqliteInv, SqliteRun
  <2>2. "sqlite" \in FiveDrivers /\ TRUE \in BOOLEAN
    BY DEF FiveDrivers
  <2> HIDE DEF v
  <2>3. LET wanted == Sync!CreatedTable("sqlite", v, TRUE) IN
        wanted.columns = Sync!TableOf("sqlite", v).columns /\ wanted.unique = v.unique
        /\ DOMAIN wanted.columns = DOMAIN v.columns
    BY <1>1, <2>2, Created
  <2>4. db.table # Absent /\ db.table.columns = Sync!TableOf("sqlite", v).columns
          /\ db.table.unique = v.unique
    BY <2>1 DEF Reached
  <2>5. Sync!Missing(db.table, v) = {}
    BY <2>3, <2>4 DEF Sync!Missing
  <2> QED
    BY <1>3, <2>3, <2>4, <2>5 DEF v
<1> QED
  BY <1>2, <1>3

\* Between runs, and unless a rebuild stopped half way, the table has its rows.
LEMMA KeptRows ==
  ASSUME Sync!SyncAssumption, SyncInv
  PROVE  Sync!RowsKept
<1> SUFFICES ASSUME Sync!Quiet, ~broken, db.table # Absent
             PROVE  db.table.full
  BY DEF Sync!RowsKept
<1>1. CASE dialect # "sqlite"
  BY <1>1 DEF SyncInv, ServerInv, Served
<1>2. CASE dialect = "sqlite"
  <2>1. Safe(db, broken)
    BY <1>2 DEF SyncInv, SqliteInv, Sync!Quiet, Sync!Running
  <2> QED
    BY <2>1 DEF Safe
<1> QED
  BY <1>1, <1>2

\* What getSchema says of a column that is as the driver makes it.
LEMMA ReadAgain ==
  ASSUME Sync!SyncAssumption, NEW v \in Versions, NEW n \in DOMAIN v.columns,
         NEW types, NEW kinds,
         NEW t, n \in DOMAIN t.columns,
         t.columns[n].type = types[v.columns[n].type],
           t.columns[n].nullable = v.columns[n].nullable,
         kinds[types[v.columns[n].type]] = v.columns[n].type
  PROVE  Sync!ReadColumns(t, kinds)[n] = v.columns[n]
<1> DEFINE c == v.columns[n]
<1>1. c \in [type : Sync!ColumnKinds, nullable : BOOLEAN]
  BY VersionShape
<1>2. Sync!ReadColumns(t, kinds)[n] = [type |-> c.type, nullable |-> c.nullable]
  BY DEF Sync!ReadColumns
<1> HIDE DEF c
<1>3. c = [type |-> c.type, nullable |-> c.nullable]
  BY <1>1
<1> QED
  BY <1>2, <1>3 DEF c

\* A column that is as the driver makes it is read back as it was declared.
LEMMA ReadingBack ==
  ASSUME Sync!SyncAssumption, SyncInv
  PROVE  Sync!ReadsBack
<1> SUFFICES ASSUME NEW p \in Processes, process[p].done, dialect # "sqlite", ~lower,
                    NEW n \in DOMAIN process[p].version.columns,
                    db.table.columns[n] = Sync!TableOf(dialect,
                      process[p].version).columns[n]
             PROVE  \/ Sync!GetSchema(db.table)[n] = process[p].version.columns[n]
                    \/ process[p].version.columns[n].type \in Sync!SameType
  BY DEF Sync!ReadsBack
<1> DEFINE v == process[p].version
           t == db.table
           k == v.columns[n].type
<1>1. v \in Versions /\ dialect \in FiveDrivers
  BY DEF SyncInv, SyncTyped, SoundRun, Sync!SyncAssumption, FiveDrivers
<1>2. n \in DOMAIN t.columns
  <2>1. t # Absent /\ CoveredBy(dialect, t, {}, v)
    BY DEF SyncInv, ServerInv, ServedRun
  <2>2. \A f \in Minded(dialect, v) : Agrees(t, v, f)
    BY <2>1 DEF CoveredBy
  <2> HIDE DEF v, t
  <2>3. Sync!Missing(t, v) = {}
    BY <1>1, <2>2, NothingMissing
  <2>4. n \in DOMAIN v.columns
    BY DEF v
  <2> QED
    BY <2>3, <2>4 DEF Sync!Missing
<1>3. k \in Sync!ColumnKinds
  BY <1>1, VersionShape
<1>4. t.columns[n].type = DriverType(dialect, k)
        /\ t.columns[n].nullable = v.columns[n].nullable
  BY <1>1, MadeTable
<1>5. Sync!GetSchema(t) = CASE dialect = "postgres" -> Sync!PostgresSchema(t)
                       [] dialect = "mysql"    -> Sync!MySqlSchema(t)
                       [] dialect = "mssql"    -> Sync!MssqlSchema(t)
                       [] dialect = "oracle"   -> Sync!OracleSchema(t)
                       [] dialect = "sqlite"   -> Sync!SqliteSchema(t)
  BY DEF Sync!GetSchema
<1>6. n \in DOMAIN v.columns
  OBVIOUS
<1> HIDE DEF v, t
<1>7. CASE dialect = "postgres"
  <2>1. t.columns[n].type = Sync!PostgresType[k]
          /\ Sync!FromPostgresType[Sync!PostgresType[k]] = k
    BY <1>3, <1>4, <1>7, PostgresKinds DEF DriverType
  <2>2. Sync!ReadColumns(t, Sync!FromPostgresType)[n] = v.columns[n]
    BY <1>1, <1>2, <1>4, <1>6, <2>1, ReadAgain
  <2> QED
    BY <1>5, <1>7, <2>2 DEF Sync!PostgresSchema, v, t
<1>8. CASE dialect = "mysql"
  <2>1. t.columns[n].type = Sync!MySqlType[k] /\ Sync!FromMySqlType[Sync!MySqlType[k]] = k
    BY <1>3, <1>4, <1>8, MySqlKinds DEF DriverType
  <2>2. Sync!ReadColumns(t, Sync!FromMySqlType)[n] = v.columns[n]
    BY <1>1, <1>2, <1>4, <1>6, <2>1, ReadAgain
  <2> QED
    BY <1>5, <1>8, <2>2 DEF Sync!MySqlSchema, v, t
<1>9. CASE dialect = "mssql" /\ k # "json"
  <2>1. t.columns[n].type = Sync!MssqlType[k] /\ Sync!FromMssqlType[Sync!MssqlType[k]] = k
    BY <1>3, <1>4, <1>9, MssqlKinds DEF DriverType
  <2>2. Sync!ReadColumns(t, Sync!FromMssqlType)[n] = v.columns[n]
    BY <1>1, <1>2, <1>4, <1>6, <2>1, ReadAgain
  <2> QED
    BY <1>5, <1>9, <2>2 DEF Sync!MssqlSchema, v, t
<1>10. CASE dialect = "oracle" /\ k # "boolean"
  <2>1. t.columns[n].type = Sync!OracleType[k]
          /\ Sync!FromOracleType[Sync!OracleType[k]] = k
    BY <1>3, <1>4, <1>10, OracleKinds DEF DriverType
  <2>2. Sync!ReadColumns(t, Sync!FromOracleType)[n] = v.columns[n]
    BY <1>1, <1>2, <1>4, <1>6, <2>1, ReadAgain
  <2> QED
    BY <1>5, <1>10, <2>2 DEF Sync!OracleSchema, v, t
<1>11. CASE (dialect = "mssql" /\ k = "json") \/ (dialect = "oracle" /\ k = "boolean")
  <2>1. k \in Sync!SameType
    BY <1>11 DEF Sync!SameType
  <2> QED
    BY <2>1 DEF v
<1>12. dialect \in {"postgres", "mysql", "mssql", "oracle"}
  BY <1>1 DEF FiveDrivers
<1> HIDE DEF k
<1> QED
  BY <1>7, <1>8, <1>9, <1>10, <1>11, <1>12

\* ensureTable: the types, the table reached, the rows kept and the columns read back.
LEMMA SyncLife == Sync!SyncAssumption => (Sync!SyncSpec => [](Sync!TypeOK
  /\ Sync!SyncReached /\ Sync!RowsKept /\ Sync!ReadsBack))
<1> SUFFICES ASSUME Sync!SyncAssumption
             PROVE  Sync!SyncSpec => [](Sync!TypeOK /\ Sync!SyncReached
                      /\ Sync!RowsKept /\ Sync!ReadsBack)
  OBVIOUS
<1>1. Sync!SyncInit => SyncInv
  BY SyncStart
<1>2. SyncInv /\ [Sync!SyncNext]_Sync!syncVars => SyncInv'
  BY SyncStep
<1>3. SyncInv => Sync!TypeOK /\ Sync!SyncReached /\ Sync!RowsKept /\ Sync!ReadsBack
  BY TypesKept, ReachedSync, KeptRows, ReadingBack
<1> QED
  BY <1>1, <1>2, <1>3, PTL DEF Sync!SyncSpec

================================================================================
