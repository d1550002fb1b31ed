---------------------------- MODULE StoreProofs -----------------------------
(***************************************************************************)
(* TypeOK, SchemaIsWhole and SearchIsRight of Store, for any number of     *)
(* processes, migrations, messages and queries; and the same of Names,     *)
(* which adds writers and readers of names, with FindIsRight and           *)
(* OneNamePerReply.                                                        *)
(***************************************************************************)
EXTENDS Names, FiniteSetTheorems, TLAPS

\* What a process knows of the schema is not ahead of it; who is in a migration
\* holds the write lock and knows it exactly, so no version is applied twice.
Known ==
  /\ Len(schema) <= schemaVersion
  /\ \A p \in Processes : current[p] <= Len(schema)
  /\ \A p \in Processes : at[p] = "commit" => current[p] = Len(schema) /\ current[p] < schemaVersion

IInv == TypeOK /\ SchemaIsWhole /\ Known

\* A step that leaves schema and writer alone and moves nobody into a migration
\* or to work keeps what IInv says of the schema.
LEMMA SchemaKept ==
  ASSUME IInv, TypeOK', UNCHANGED schema, UNCHANGED current,
         \A p \in Processes : at'[p] = "commit" => at[p] = "commit",
         \A p \in Processes : at'[p] \in Opened => at[p] \in Opened
  PROVE  SchemaIsWhole' /\ Known'
  BY DEF IInv, SchemaIsWhole, Known

\* A search leaves the schema alone.
LEMMA SearchKeeps ==
  ASSUME IInv, NEW p \in Processes,
         \/ \E q \in Queries : StartSearch(p, q)
         \/ Verbatim(p) \/ VerbatimFails(p) \/ Quoted(p) \/ AnyTerm(p) \/ SearchFails(p) \/ Return(p)
  PROVE  IInv'
<1> USE QueryAssumption, MsgAssumption, NoneAssumption
<1>1. \A texts : Matching(texts) \subseteq SUBSET (Msgs \X Bodies)
  <2> SUFFICES ASSUME NEW texts, NEW H \in Matching(texts), NEW h \in H PROVE h \in Msgs \X Bodies
    OBVIOUS
  <2>1. PICK m \in Rows : h = <<m, body[m]>>
    <3> DEFINE S == {m \in Rows : \E e \in fts : e[1] = m /\ e[2] \in texts}
    <3>1. PICK X \in Newest(S, Limit) : H = {<<m, body[m]>> : m \in X}
      BY DEF Matching
    <3>2. X \subseteq Rows
      BY DEF Newest
    <3> QED
      BY <3>1, <3>2
  <2>2. m \in Msgs /\ body[m] \in Bodies
    BY <2>1 DEF IInv, TypeOK, Rows
  <2> QED
    BY <2>1, <2>2
<1>2. \A q : Why(q, body) \subseteq Tiers \X Msgs
  BY DEF Why
<1>3. ASSUME NEW tier, Tier(p, tier), at[p] \in {"verbatim", "quoted", "any"} PROVE IInv'
  <2>1. PICK H \in SUBSET (Msgs \X Bodies), s \in {"any", "found"} :
           /\ hits' = [hits EXCEPT ![p] = H] /\ at' = [at EXCEPT ![p] = s]
           /\ UNCHANGED <<schema, writer, table, current, query, refused, lasting, opens, writes>>
    <3>1. PICK H \in Matching(Texts(query[p], tier)) :
             /\ hits' = [hits EXCEPT ![p] = H]
             /\ Goes(p, IF H = {} /\ tier # "some" /\ Widens(query[p]) THEN "any" ELSE "found")
      BY <1>3 DEF Tier
    <3>2. H \in SUBSET (Msgs \X Bodies)
      BY <1>1
    <3>3. UNCHANGED <<schema, writer, table, current, query, refused, lasting, opens, writes>>
      BY <1>3 DEF Tier
    <3>4. \/ at' = [at EXCEPT ![p] = "any"]
          \/ at' = [at EXCEPT ![p] = "found"]
      BY <3>1 DEF Goes
    <3> QED
      BY <3>1, <3>2, <3>3, <3>4
  <2>2. TypeOK'
    BY <1>3, <2>1 DEF IInv, TypeOK, table, Steps, Opened
  <2> QED
    BY <1>3, <2>1, <2>2, SchemaKept DEF IInv, TypeOK, Opened
<1>4. ASSUME NEW q \in Queries, StartSearch(p, q) PROVE IInv'
  <2>1. TypeOK'
    BY <1>2, <1>4 DEF IInv, TypeOK, StartSearch, Goes, table, Steps, Opened
  <2> QED
    BY <1>4, <2>1, SchemaKept DEF IInv, TypeOK, StartSearch, Goes, Opened
<1>5. ASSUME VerbatimFails(p) PROVE IInv'
  <2>1. PICK s \in {"found", "quoted"} :
           /\ refused' = [refused EXCEPT ![p] = TRUE] /\ at' = [at EXCEPT ![p] = s]
           /\ at[p] = "verbatim"
           /\ UNCHANGED <<schema, writer, table, current, query, hits, lasting, opens, writes>>
    BY <1>5 DEF VerbatimFails, Goes
  <2>2. refused' \in [Processes -> BOOLEAN]
    BY <2>1, Zenon DEF IInv, TypeOK
  <2>3. TypeOK'
    BY <2>1, <2>2 DEF IInv, TypeOK, table, Steps, Opened
  <2> QED
    BY <2>1, <2>3, SchemaKept DEF IInv, TypeOK, Opened
<1>6. ASSUME SearchFails(p) \/ Return(p) PROVE IInv'
  <2>1. /\ at[p] \in Opened /\ at' = [at EXCEPT ![p] = "open"] /\ Forget(p)
        /\ UNCHANGED <<schema, writer, table, current, opens, writes>>
    BY <1>6 DEF SearchFails, Return, Goes, Opened
  <2>2. refused' \in [Processes -> BOOLEAN]
    BY <2>1, Zenon DEF IInv, TypeOK, Forget
  <2>3. TypeOK'
    BY <2>1, <2>2 DEF IInv, TypeOK, Forget, table, Steps, Opened
  <2> QED
    BY <2>1, <2>3, SchemaKept DEF IInv, TypeOK, Opened
<1> QED
  BY <1>3, <1>4, <1>5, <1>6 DEF Verbatim, Quoted, AnyTerm

\* Opening, migrating, closing, and writing a message.
LEMMA OpenKeeps ==
  ASSUME IInv, NEW p \in Processes,
         \/ Open(p) \/ CurrentVersion(p) \/ Apply(p) \/ Busy(p) \/ Commit(p) \/ Migrated(p) \/ Close(p)
         \/ \E m \in Msgs, b \in Bodies : UpsertMessage(p, m, b)
  PROVE  IInv'
<1> USE BoundsAssumption, NoneAssumption, MsgAssumption
<1>1. ASSUME Open(p) PROVE IInv'
  <2>1. TypeOK'
    BY <1>1 DEF IInv, TypeOK, Open, Goes, table, search, Steps, Opened
  <2> QED
    BY <1>1, <2>1, SchemaKept DEF IInv, TypeOK, Open, Goes, Opened
<1>2. ASSUME CurrentVersion(p) PROVE IInv'
  <2>1. TypeOK'
    BY <1>2 DEF IInv, TypeOK, CurrentVersion, Goes, table, search, Steps, Opened
  <2>2. SchemaIsWhole' /\ Known'
    BY <1>2 DEF IInv, TypeOK, SchemaIsWhole, Known, CurrentVersion, Goes, Opened
  <2> QED
    BY <2>1, <2>2 DEF IInv
<1>3. ASSUME Apply(p) PROVE IInv'
  <2>1. TypeOK'
    <3>1. CASE current[p] + 1 <= Len(schema)
      <4>1. /\ writer = None /\ at[p] = "migrate" /\ at' = [at EXCEPT ![p] = "closed"]
            /\ UNCHANGED <<schema, writer, table, current, search, opens, writes>>
        BY <1>3, <3>1 DEF Apply, Goes
      <4> QED
        BY <4>1 DEF IInv, TypeOK, table, search, Steps, Opened
    <3>2. CASE ~(current[p] + 1 <= Len(schema))
      <4>1. /\ writer = None /\ writer' = p /\ at[p] = "migrate"
            /\ at' = [at EXCEPT ![p] = "commit"]
            /\ UNCHANGED <<schema, table, current, search, opens, writes>>
        BY <1>3, <3>2 DEF Apply, Goes
      <4>2. \A r \in Processes : at'[r] = "commit" <=> writer' = r
        BY <4>1 DEF IInv, TypeOK
      <4> QED
        BY <4>1, <4>2 DEF IInv, TypeOK, table, search, Steps, Opened
    <3> QED
      BY <3>1, <3>2
  <2>2. SchemaIsWhole' /\ Known'
    BY <1>3 DEF IInv, TypeOK, SchemaIsWhole, Known, Apply, Goes, Opened
  <2> QED
    BY <2>1, <2>2 DEF IInv
<1>4. ASSUME Busy(p) PROVE IInv'
  <2>1. TypeOK'
    BY <1>4 DEF IInv, TypeOK, Busy, Goes, table, search, Steps, Opened
  <2> QED
    BY <1>4, <2>1, SchemaKept DEF IInv, TypeOK, Busy, Goes, Opened
<1>5. ASSUME Commit(p) PROVE IInv'
  <2>1. TypeOK'
    BY <1>5 DEF IInv, TypeOK, Known, Commit, migrations, Goes, table, search, Steps, Opened
  <2>2. /\ Len(schema') = Len(schema) + 1 /\ current[p] = Len(schema) /\ Len(schema) < schemaVersion
        /\ schema' = Append(schema, Len(schema) + 1)
    BY <1>5 DEF IInv, TypeOK, Known, Commit, migrations
  <2>3. schema' = [v \in 1..Len(schema') |-> v]
    BY <2>2 DEF IInv, TypeOK, SchemaIsWhole
  <2>4. \A r \in Processes : at'[r] \notin Opened
    BY <1>5, <2>2 DEF IInv, TypeOK, SchemaIsWhole, Commit, Goes, Opened
  <2>5. \A r \in Processes : at'[r] # "commit"
    BY <1>5 DEF IInv, TypeOK, Commit, Goes
  <2>6. \A r \in Processes : current'[r] <= Len(schema')
    BY <1>5, <2>2 DEF IInv, TypeOK, Known, Commit
  <2>7. SchemaIsWhole'
    BY <2>3, <2>4 DEF SchemaIsWhole
  <2>8. Len(schema') <= schemaVersion
    BY <2>2, BoundsAssumption DEF IInv, TypeOK
  <2>9. Known'
    BY <2>5, <2>6, <2>8 DEF Known
  <2> QED
    BY <2>1, <2>7, <2>9 DEF IInv
<1>6. ASSUME Migrated(p) PROVE IInv'
  <2>1. TypeOK'
    BY <1>6 DEF IInv, TypeOK, Migrated, Goes, table, search, Steps, Opened
  <2>2. SchemaIsWhole' /\ Known'
    BY <1>6 DEF IInv, TypeOK, SchemaIsWhole, Known, Migrated, Goes, Opened
  <2> QED
    BY <2>1, <2>2 DEF IInv
<1>7. ASSUME Close(p) PROVE IInv'
  <2>2. refused' \in [Processes -> BOOLEAN]
    BY <1>7, Zenon DEF IInv, TypeOK, Close, Forget
  <2>1. TypeOK'
    BY <1>7, <2>2 DEF IInv, TypeOK, Close, Forget, Goes, table, Steps, Opened
  <2> QED
    BY <1>7, <2>1, SchemaKept DEF IInv, TypeOK, Close, Forget, Goes, Opened
<1>8. ASSUME NEW m \in Msgs, NEW b \in Bodies, UpsertMessage(p, m, b) PROVE IInv'
  <2>1. TypeOK'
    BY <1>8 DEF IInv, TypeOK, UpsertMessage, Index, Steps, Opened
  <2> QED
    BY <1>8, <2>1, SchemaKept DEF IInv, TypeOK, UpsertMessage, Opened
<1> QED
  BY <1>1, <1>2, <1>3, <1>4, <1>5, <1>6, <1>7, <1>8

LEMMA InitIInv == Init => IInv
  BY BoundsAssumption, NoneAssumption DEF Init, IInv, TypeOK, SchemaIsWhole, Known, Steps, Opened

LEMMA Inductive == IInv /\ [Next]_vars => IInv'
<1> SUFFICES ASSUME IInv, [Next]_vars PROVE IInv'
  OBVIOUS
<1>1. CASE UNCHANGED vars
  BY <1>1 DEF vars, table, search, IInv, TypeOK, SchemaIsWhole, Known
<1>2. CASE Next
  BY <1>2, SearchKeeps, OpenKeeps DEF Next
<1> QED
  BY <1>1, <1>2

\* Every variable of the archive's users keeps its type, and only a process that
\* is in a migration holds the write lock.
THEOREM StoreTypeCorrect == Spec => []TypeOK
<1>1. IInv => TypeOK
  BY DEF IInv
<1> QED
  BY InitIInv, Inductive, <1>1, PTL DEF Spec

\* migrate (store.go:54): however many processes open one archive, and whenever
\* they die, each migration is applied once, in order, and nobody works on a
\* schema that is not complete.
THEOREM NeverHalfASchema == Spec => []SchemaIsWhole
<1>1. IInv => SchemaIsWhole
  BY DEF IInv
<1> QED
  BY InitIInv, Inductive, <1>1, PTL DEF Spec

-----------------------------------------------------------------------------
(***************************************************************************)
(* Searches                                                                *)
(***************************************************************************)

\* The parts of SearchIsRight: for a query, its hits H, and the reasons L that lasted.
Fit(q, tier, H) == \A h \in H : h[2] \in Texts(q, tier)
NonePassed(tier, H, L) == \A m \in Msgs : <<tier, m>> \in L =>
  \/ \E h \in H : h[1] = m
  \/ Cardinality(H) = Limit /\ \A h \in H : Time[h[1]] >= Time[m]
NothingLeft(q, H, L) == Widens(q) /\ H = {} => \A m \in Msgs : <<"some", m>> \notin L

\* The tier that is to find what p asks for, whether or not any term will do.
Asked(p) == IF refused[p] THEN "all" ELSE "query"

\* What p has found is right.
Right(p) ==
  LET q == query[p]
  IN  /\ Fit(q, Asked(p), hits[p]) \/ (Widens(q) /\ Fit(q, "some", hits[p]))
      /\ (refused[p] /\ Terms(q) = {}) \/ NonePassed(Asked(p), hits[p], lasting[p])
      /\ NothingLeft(q, hits[p], lasting[p])

Searches == {"verbatim", "quoted", "any", "found"}

\* The triggers keep the index equal to the table.
IndexInv == fts = {<<m, body[m]>> : m \in {n \in Msgs : body[n] # None}}

\* What lasts holds still.
LastingInv == \A p \in Processes : \A w \in lasting[p] :
  query[p] # None /\ w \in Why(query[p], body)

\* A query comes to a tier only if that tier is for it, and without hits; to any of its
\* terms only if nothing that lasted was asked for.
StageInv(p) ==
  /\ at[p] \in Searches => query[p] \in Queries
  /\ at[p] \notin Searches \ {"verbatim"} => ~refused[p] /\ hits[p] = {}
  /\ at[p] = "quoted" => refused[p] /\ hits[p] = {} /\ Terms(query[p]) # {}
  /\ at[p] = "any" => Widens(query[p]) /\ \A m \in Msgs : <<Asked(p), m>> \notin lasting[p]
  /\ at[p] = "found" => Right(p)

SearchInv == IndexInv /\ LastingInv /\ \A p \in Processes : StageInv(p)

\* Of a finite set there is all, or as much as the limit.
LEMMA LimitOrAll ==
  ASSUME NEW S, IsFiniteSet(S), NEW limit, NEW X \in SUBSET S,
         Cardinality(X) = IF Cardinality(S) > limit THEN limit ELSE Cardinality(S)
  PROVE  S # X => Cardinality(X) = limit
  BY FS_Subset

\* Rows, as many as there are keys.
LEMMA RowPerKey ==
  ASSUME NEW X, IsFiniteSet(X), NEW g
  PROVE  LET H == {<<m, g[m]>> : m \in X} IN IsFiniteSet(H) /\ Cardinality(H) = Cardinality(X)
<1> DEFINE H == {<<m, g[m]>> : m \in X}
           f == [m \in X |-> <<m, g[m]>>]
<1>1. f \in [X -> H] /\ \A x \in H : \E m \in X : f[m] = x
  OBVIOUS
<1>2. \A m, n \in X : f[m] = f[n] => m = n
  OBVIOUS
<1> HIDE DEF f, H
<1>3. f \in Bijection(X, H)
  BY <1>1, <1>2 DEF Bijection, Injection, IsInjective, Surjection
<1>4. IsFiniteSet(H) /\ Cardinality(H) = Cardinality(X)
  BY <1>3, FS_Bijection DEF ExistsBijection
<1> QED
  BY <1>4 DEF H

\* Who is not among the Limit newest of a set of messages: there are Limit, none older.
LEMMA NewestAreLimit ==
  ASSUME NEW S \in SUBSET Msgs, NEW X \in Newest(S, Limit), NEW m \in S \ X
  PROVE  Cardinality(X) = Limit /\ \A n \in X : Time[n] >= Time[m]
<1>1. /\ X \in SUBSET S /\ \A n \in X : Time[m] <= Time[n]
      /\ Cardinality(X) = IF Cardinality(S) > Limit THEN Limit ELSE Cardinality(S)
  BY DEF Newest
<1>2. IsFiniteSet(S) /\ X # S
  BY FS_Subset, MsgAssumption
<1>3. Cardinality(X) = Limit
  BY <1>1, <1>2, LimitOrAll
<1>4. \A n \in Msgs : Time[n] \in Nat
  BY MsgAssumption
<1> QED
  BY <1>1, <1>3, <1>4

\* What searchOnce returns: rows whose text is asked for, as it is; every such row, or
\* Limit that are no older.
LEMMA MatchingFinds ==
  ASSUME TypeOK, IndexInv, NEW texts, NEW H \in Matching(texts)
  PROVE  /\ \A h \in H : h[1] \in Msgs /\ h[2] \in texts
         /\ \A m \in Rows : body[m] \in texts =>
              /\ \/ \E h \in H : h[1] = m
                 \/ Cardinality(H) = Limit /\ \A h \in H : Time[h[1]] >= Time[m]
              /\ H # {}
<1> DEFINE S == {m \in Rows : \E e \in fts : e[1] = m /\ e[2] \in texts}
<1>1. S = {m \in Rows : body[m] \in texts}
  <2>1. ASSUME NEW m \in Rows, NEW e \in fts, e[1] = m, e[2] \in texts PROVE body[m] \in texts
    <3>1. PICK n \in Msgs : e = <<n, body[n]>>
      BY DEF IndexInv
    <3> QED
      BY <2>1, <3>1
  <2>2. ASSUME NEW m \in Rows, body[m] \in texts
        PROVE  \E e \in fts : e[1] = m /\ e[2] \in texts
    <3>1. <<m, body[m]>> \in fts
      BY DEF IndexInv, Rows
    <3> QED
      BY <2>2, <3>1
  <2> QED
    BY <2>1, <2>2
<1>2. PICK X \in Newest(S, Limit) : H = {<<m, body[m]>> : m \in X}
  BY DEF Matching
<1> HIDE DEF S
<1>3. X \subseteq S /\ S \in SUBSET Msgs
  BY <1>1 DEF Newest, Rows
<1>4. \A h \in H : h[1] \in X /\ h[2] = body[h[1]]
  BY <1>2
<1>5. IsFiniteSet(X)
  BY <1>3, FS_Subset, MsgAssumption
<1>6. IsFiniteSet(H) /\ Cardinality(H) = Cardinality(X)
  BY <1>2, <1>5, RowPerKey
<1>7. ASSUME NEW m \in S
      PROVE  /\ \/ \E h \in H : h[1] = m
                \/ Cardinality(H) = Limit /\ \A h \in H : Time[h[1]] >= Time[m]
             /\ H # {}
  <2>1. CASE m \in X
    <3>1. <<m, body[m]>> \in H
      BY <1>2, <2>1
    <3> QED
      BY <3>1
  <2>2. CASE m \notin X
    <3>1. Cardinality(X) = Limit /\ \A n \in X : Time[n] >= Time[m]
      BY <1>3, <2>2, NewestAreLimit
    <3>2. Cardinality(H) = Limit /\ \A h \in H : Time[h[1]] >= Time[m]
      BY <1>4, <1>6, <3>1
    <3>3. H # {}
      BY <3>2, FS_EmptySet, BoundsAssumption
    <3> QED
      BY <3>2, <3>3
  <2> QED
    BY <2>1, <2>2
<1> QED
  BY <1>1, <1>3, <1>4, <1>7

\* What lasted, in a tier, a statement of that tier finds, or Limit that are no older.
LEMMA TierFinds ==
  ASSUME TypeOK, SearchInv, NEW p \in Processes, query[p] \in Queries, NEW tier \in Tiers,
         NEW H \in Matching(Texts(query[p], tier))
  PROVE  /\ Fit(query[p], tier, H)
         /\ NonePassed(tier, H, lasting[p])
         /\ H = {} => \A m \in Msgs : <<tier, m>> \notin lasting[p]
<1> DEFINE texts == Texts(query[p], tier)
<1>1. texts \in SUBSET Bodies
  <2>1. Match[query[p]] \in SUBSET Bodies
    BY QueryAssumption
  <2> QED
    BY <2>1 DEF Texts, AllOf, SomeOf, Tiers
<1>2. ASSUME NEW m \in Msgs, <<tier, m>> \in lasting[p] PROVE m \in Rows /\ body[m] \in texts
  <2>1. <<tier, m>> \in Why(query[p], body)
    BY <1>2 DEF SearchInv, LastingInv
  <2>2. body[m] \in texts
    BY <2>1 DEF Why
  <2> QED
    BY <1>1, <2>2, NoneAssumption DEF Rows
<1> HIDE DEF texts
<1>3. H \in Matching(texts)
  BY DEF texts
<1>4. /\ \A h \in H : h[1] \in Msgs /\ h[2] \in texts
      /\ \A m \in Rows : body[m] \in texts =>
           /\ \/ \E h \in H : h[1] = m
              \/ Cardinality(H) = Limit /\ \A h \in H : Time[h[1]] >= Time[m]
           /\ H # {}
  BY <1>3, MatchingFinds DEF SearchInv
<1>5. Fit(query[p], tier, H)
  BY <1>4 DEF Fit, texts
<1>6. NonePassed(tier, H, lasting[p])
  BY <1>2, <1>4 DEF NonePassed
<1> QED
  BY <1>2, <1>4, <1>5, <1>6

\* With less that lasted, a search still has found all it had to.
LEMMA LessLasted ==
  ASSUME NEW q, NEW tier, NEW H, NEW L, NEW M \in SUBSET L
  PROVE  /\ NonePassed(tier, H, L) => NonePassed(tier, H, M)
         /\ NothingLeft(q, H, L) => NothingLeft(q, H, M)
  BY DEF NonePassed, NothingLeft

\* A step that leaves the table alone, and every search but p's, is right if p's is.
LEMMA OtherSearches ==
  ASSUME SearchInv, NEW p \in Processes, UNCHANGED table,
         \A r \in Processes : r # p => /\ at'[r] = at[r] /\ query'[r] = query[r]
                                       /\ refused'[r] = refused[r]
                                       /\ hits'[r] = hits[r] /\ lasting'[r] = lasting[r],
         \A w \in lasting'[p] : query'[p] # None /\ w \in Why(query'[p], body),
         StageInv(p)'
  PROVE  SearchInv'
<1>1. IndexInv'
  BY DEF SearchInv, IndexInv, table
<1>2. LastingInv'
  BY DEF SearchInv, LastingInv, table
<1>3. ASSUME NEW r \in Processes, r # p PROVE StageInv(r)'
  BY <1>3 DEF SearchInv, StageInv, Right, Asked
<1> QED
  BY <1>1, <1>2, <1>3 DEF SearchInv

\* A step of somebody who does not search, or stops, and writes nothing.
LEMMA NoSearch ==
  ASSUME TypeOK, SearchInv, NEW p \in Processes, NEW s, Goes(p, s), s \notin Searches, UNCHANGED table,
         (UNCHANGED search /\ at[p] \notin Searches) \/ Forget(p)
  PROVE  SearchInv'
<1>1. /\ at'[p] = s /\ \A r \in Processes : r # p => at'[r] = at[r]
      /\ \A r \in Processes : r # p => /\ query'[r] = query[r] /\ hits'[r] = hits[r]
                                       /\ refused'[r] = refused[r] /\ lasting'[r] = lasting[r]
  BY DEF TypeOK, Goes, Forget, search
<1>2. lasting'[p] = {} \/ (query'[p] = query[p] /\ lasting'[p] = lasting[p])
  BY DEF TypeOK, Forget, search
<1>3. \A w \in lasting'[p] : query'[p] # None /\ w \in Why(query'[p], body)
  BY <1>2 DEF SearchInv, LastingInv
<1>4. ~refused'[p] /\ hits'[p] = {}
  BY DEF TypeOK, Forget, search, SearchInv, StageInv
<1>5. StageInv(p)'
  BY <1>1, <1>4 DEF StageInv, Searches
<1> QED
  BY <1>1, <1>3, <1>5, OtherSearches

\* A message is written: what a search has found stays as it was read, and what it had to
\* find may become less.
LEMMA WriteKeepsSearches ==
  ASSUME TypeOK, SearchInv, NEW p \in Processes, NEW m \in Msgs, NEW b \in Bodies,
         UpsertMessage(p, m, b)
  PROVE  SearchInv'
<1> USE NoneAssumption
<1>1. /\ body' = [body EXCEPT ![m] = b] /\ Index(m, b) /\ UNCHANGED <<at, query, refused, hits>>
      /\ \A r \in Processes : lasting'[r] = {w \in lasting[r] : w \in Why(query[r], body')}
  BY DEF UpsertMessage
<1>2. body'[m] = b /\ b # None /\ \A n \in Msgs : n # m => body'[n] = body[n]
  BY <1>1 DEF TypeOK
<1>3. IndexInv'
  <2>1. ASSUME NEW e \in fts' PROVE \E n \in Msgs : body'[n] # None /\ e = <<n, body'[n]>>
    <3>1. CASE e = <<m, b>>
      BY <1>2, <3>1
    <3>2. CASE e # <<m, b>>
      <4>1. e \in fts /\ (body[m] # None => e[1] # m)
        BY <1>1, <2>1, <3>2 DEF Index
      <4>2. PICK n \in Msgs : body[n] # None /\ e = <<n, body[n]>>
        BY <4>1 DEF SearchInv, IndexInv
      <4>3. n # m
        BY <4>1, <4>2
      <4> QED
        BY <1>2, <4>2, <4>3
    <3> QED
      BY <3>1, <3>2
  <2>2. ASSUME NEW n \in Msgs, body'[n] # None PROVE <<n, body'[n]>> \in fts'
    <3>1. CASE n = m
      BY <1>1, <1>2, <3>1 DEF Index
    <3>2. CASE n # m
      <4>1. <<n, body[n]>> \in fts
        BY <1>2, <2>2, <3>2 DEF SearchInv, IndexInv
      <4>2. <<n, body[n]>>[1] # m
        BY <3>2
      <4> QED
        BY <1>1, <1>2, <3>2, <4>1, <4>2 DEF Index
    <3> QED
      BY <3>1, <3>2
  <2> QED
    BY <2>1, <2>2 DEF IndexInv
<1>4. \A r \in Processes : lasting'[r] \in SUBSET lasting[r]
  BY <1>1
<1>5. LastingInv'
  BY <1>1 DEF SearchInv, LastingInv
<1>6. ASSUME NEW r \in Processes PROVE StageInv(r)'
  <2>1. Right(r) => Right(r)'
    <3>1. NonePassed(Asked(r), hits[r], lasting[r]) => NonePassed(Asked(r), hits[r], lasting'[r])
      BY <1>4, LessLasted
    <3>2. NothingLeft(query[r], hits[r], lasting[r]) => NothingLeft(query[r], hits[r], lasting'[r])
      BY <1>4, LessLasted
    <3> QED
      BY <1>1, <3>1, <3>2 DEF Right, Asked
  <2> QED
    BY <1>1, <1>4, <2>1 DEF SearchInv, StageInv, Asked
<1> QED
  BY <1>3, <1>5, <1>6 DEF SearchInv

\* A tier goes on to the next, or is the last.
LEMMA TierKeeps ==
  ASSUME TypeOK, SearchInv, NEW p \in Processes, NEW tier \in Tiers, Tier(p, tier),
         query[p] \in Queries,
         \/ tier = Asked(p)
         \/ tier = "some" /\ Widens(query[p]) /\ \A m \in Msgs : <<Asked(p), m>> \notin lasting[p]
  PROVE  SearchInv'
<1>1. PICK H \in Matching(Texts(query[p], tier)) :
         /\ hits' = [hits EXCEPT ![p] = H]
         /\ Goes(p, IF H = {} /\ tier # "some" /\ Widens(query[p]) THEN "any" ELSE "found")
  BY DEF Tier
<1>2. UNCHANGED table /\ query' = query /\ lasting' = lasting /\ refused' = refused
  BY DEF Tier
<1>3. /\ Fit(query[p], tier, H) /\ NonePassed(tier, H, lasting[p])
      /\ H = {} => \A m \in Msgs : <<tier, m>> \notin lasting[p]
  BY TierFinds
<1>4. /\ at'[p] = IF H = {} /\ tier # "some" /\ Widens(query[p]) THEN "any" ELSE "found"
      /\ hits'[p] = H
      /\ \A r \in Processes : r # p => at'[r] = at[r] /\ hits'[r] = hits[r]
  BY <1>1 DEF TypeOK, Goes
<1>5. Asked(p) # "some"
  BY DEF Asked
<1>6. at'[p] = "found" => Right(p)'
  <2> SUFFICES ASSUME at'[p] = "found" PROVE Right(p)'
    OBVIOUS
  <2>1. Fit(query[p], Asked(p), H) \/ (Widens(query[p]) /\ Fit(query[p], "some", H))
    BY <1>3
  <2>2. NonePassed(Asked(p), H, lasting[p])
    BY <1>3 DEF NonePassed
  <2>3. NothingLeft(query[p], H, lasting[p])
    BY <1>3, <1>4 DEF NothingLeft
  <2> QED
    BY <1>2, <1>4, <2>1, <2>2, <2>3 DEF Right, Asked
<1>7. at'[p] = "any" => Widens(query[p]) /\ \A m \in Msgs : <<Asked(p), m>> \notin lasting[p]
  BY <1>3, <1>4
<1>8. StageInv(p)'
  <2>1. at'[p] \in {"any", "found"}
    BY <1>4
  <2>2. Asked(p)' = Asked(p)
    BY <1>2 DEF Asked
  <2> QED
    BY <1>2, <1>6, <1>7, <2>1, <2>2 DEF StageInv, Searches
<1>9. \A w \in lasting'[p] : query'[p] # None /\ w \in Why(query'[p], body)
  BY <1>2 DEF SearchInv, LastingInv
<1> QED
  BY <1>2, <1>4, <1>8, <1>9, OtherSearches

\* The tiers of a search.
LEMMA TiersKeep ==
  ASSUME TypeOK, SearchInv, NEW p \in Processes,
         Verbatim(p) \/ VerbatimFails(p) \/ Quoted(p) \/ AnyTerm(p)
  PROVE  SearchInv'
<1>1. query[p] \in Queries
  BY DEF Verbatim, VerbatimFails, Quoted, AnyTerm, SearchInv, StageInv, Searches
<1>2. CASE Verbatim(p)
  <2>1. Asked(p) = "query"
    BY <1>2 DEF Verbatim, SearchInv, StageInv, Asked
  <2> QED
    BY <1>1, <1>2, <2>1, TierKeeps DEF Verbatim, Tiers
<1>3. CASE VerbatimFails(p)
  <2>1. /\ Goes(p, IF Terms(query[p]) = {} THEN "found" ELSE "quoted")
        /\ refused' = [refused EXCEPT ![p] = TRUE]
        /\ UNCHANGED table /\ query' = query /\ hits' = hits /\ lasting' = lasting
    BY <1>3 DEF VerbatimFails
  <2>2. hits[p] = {}
    BY <1>3 DEF VerbatimFails, SearchInv, StageInv
  <2>3. at'[p] = IF Terms(query[p]) = {} THEN "found" ELSE "quoted"
    BY <2>1 DEF TypeOK, Goes
  <2>4. refused'[p] /\ \A r \in Processes : r # p => at'[r] = at[r] /\ refused'[r] = refused[r]
    BY <2>1 DEF TypeOK, Goes
  <2>5. Terms(query[p]) = {} => Right(p)'
    <3>1. Terms(query[p]) = {} => ~Widens(query[p])
      BY FS_EmptySet DEF Widens
    <3> QED
      BY <2>1, <2>2, <2>4, <3>1 DEF Right, Fit, NothingLeft
  <2>6. StageInv(p)'
    BY <1>1, <2>1, <2>2, <2>3, <2>4, <2>5 DEF StageInv, Searches
  <2>7. \A w \in lasting'[p] : query'[p] # None /\ w \in Why(query'[p], body)
    BY <2>1 DEF SearchInv, LastingInv
  <2> QED
    BY <2>1, <2>4, <2>6, <2>7, OtherSearches
<1>4. CASE Quoted(p)
  <2>1. Asked(p) = "all"
    BY <1>4 DEF Quoted, SearchInv, StageInv, Asked
  <2> QED
    BY <1>1, <1>4, <2>1, TierKeeps DEF Quoted, Tiers
<1>5. CASE AnyTerm(p)
  <2>1. Widens(query[p]) /\ \A m \in Msgs : <<Asked(p), m>> \notin lasting[p]
    BY <1>5 DEF AnyTerm, SearchInv, StageInv
  <2> QED
    BY <1>1, <1>5, <2>1, TierKeeps DEF AnyTerm, Tiers
<1> QED
  BY <1>2, <1>3, <1>4, <1>5

\* A search begins.
LEMMA StartKeepsSearches ==
  ASSUME TypeOK, SearchInv, NEW p \in Processes, NEW q \in Queries, StartSearch(p, q)
  PROVE  SearchInv'
<1>1. /\ Goes(p, "verbatim") /\ UNCHANGED table /\ refused' = refused /\ hits' = hits
      /\ query' = [query EXCEPT ![p] = q] /\ lasting' = [lasting EXCEPT ![p] = Why(q, body)]
  BY DEF StartSearch
<1>2. /\ at'[p] = "verbatim" /\ query'[p] = q /\ lasting'[p] = Why(q, body)
      /\ \A r \in Processes : r # p => /\ at'[r] = at[r] /\ query'[r] = query[r]
                                       /\ lasting'[r] = lasting[r]
  BY <1>1 DEF TypeOK, Goes
<1>3. ~refused[p] /\ hits[p] = {}
  BY DEF StartSearch, SearchInv, StageInv, Searches
<1>4. StageInv(p)'
  BY <1>1, <1>2, <1>3 DEF StageInv
<1>5. \A w \in lasting'[p] : query'[p] # None /\ w \in Why(query'[p], body)
  BY <1>2, NoneAssumption
<1> QED
  BY <1>1, <1>2, <1>4, <1>5, OtherSearches

LEMMA InitSearchInv == Init => SearchInv
  BY DEF Init, SearchInv, IndexInv, LastingInv, StageInv, Searches

\* A step that touches neither the table nor a search.
LEMMA Untouched == SearchInv /\ UNCHANGED <<table, at, search>> => SearchInv'
  BY DEF table, search, SearchInv, IndexInv, LastingInv, StageInv, Right, Asked

\* One step per action of the store.
LEMMA NextSearchInv ==
  ASSUME TypeOK, SearchInv, [Next]_vars
  PROVE  SearchInv'
<1>1. CASE UNCHANGED vars
  BY <1>1, Untouched DEF vars
<1>2. ASSUME NEW p \in Processes,
             \/ Open(p) \/ CurrentVersion(p) \/ Apply(p) \/ Busy(p) \/ Commit(p) \/ Migrated(p) \/ Close(p)
             \/ SearchFails(p) \/ Return(p)
      PROVE  SearchInv'
  <2>1. PICK s : /\ Goes(p, s) /\ s \notin Searches /\ UNCHANGED table
                 /\ (UNCHANGED search /\ at[p] \notin Searches) \/ Forget(p)
    <3>1. CASE Open(p)
      BY <3>1 DEF Open, Searches
    <3>2. CASE CurrentVersion(p)
      BY <3>2 DEF CurrentVersion, Searches
    <3>3. CASE Apply(p)
      BY <3>3 DEF Apply, Searches
    <3>4. CASE Busy(p) \/ Commit(p)
      BY <3>4 DEF Busy, Commit, Searches
    <3>5. CASE Migrated(p)
      BY <3>5 DEF Migrated, Searches
    <3>6. CASE Close(p) \/ SearchFails(p) \/ Return(p)
      BY <3>6 DEF Close, SearchFails, Return, Searches
    <3> QED
      BY <1>2, <3>1, <3>2, <3>3, <3>4, <3>5, <3>6
  <2> QED
    BY <2>1, NoSearch
<1>3. ASSUME Next PROVE SearchInv'
  BY <1>2, <1>3, WriteKeepsSearches, TiersKeep, StartKeepsSearches DEF Next
<1> QED
  BY <1>1, <1>3

LEMMA SearchInvIsRight == SearchInv => SearchIsRight
  BY DEF SearchInv, StageInv, SearchIsRight, Right, Asked, Fit, NonePassed, NothingLeft

\* SearchMessagesRich (search.go:43): for any corpus and any meaning of the queries, while
\* others write between the tiers of a search and whatever tier fails, its hits are what
\* was asked for, and what lasted is found unless Limit are that are no older.
THEOREM SearchTellsTheTruth == Spec => []SearchIsRight
<1>1. IInv => TypeOK
  BY DEF IInv
<1>2. SearchInv /\ TypeOK /\ [Next]_vars => SearchInv'
  BY NextSearchInv
<1> QED
  BY <1>1, <1>2, InitIInv, Inductive, InitSearchInv, SearchInvIsRight, PTL DEF Spec

-----------------------------------------------------------------------------
(***************************************************************************)
(* Names                                                                   *)
(***************************************************************************)

\* A process that has no reply to name has named nothing.
Unbegun ==
  \A p \in Processes : doing[p] \notin {"senders", "hits"} => rows[p] = {} /\ names[p] = Unnamed

\* Between the statements of a find, a reason that has held so far holds still, and
\* the contact it is about is among those considered, unless there are too many.
Considered ==
  \A p \in Processes : doing[p] = "contacts" => \A r \in steady[p] :
    /\ <<r[1], r[2]>> \in Reasons(sought[p])
    /\ r[3] <= chat[r[1]].last
    /\ r[2] \in People \ via[p] => blind[p] \/ Cardinality(via[p]) = ContactLimit

\* Who is not looking for a chat has not failed to.
Unsought ==
  \A p \in Processes : doing[p] \notin {"contacts", "chats"} => via[p] = {} /\ ~blind[p]

FindInv == FindIsRight /\ Considered /\ Unsought
ReplyInv == OneNamePerReply /\ Unbegun
NamesInv == IInv /\ NamesTypeOK /\ FindInv /\ ReplyInv

\* A step that only writes names keeps the archive as it is.
LEMMA TableKept ==
  ASSUME IInv, UNCHANGED <<schema, table, writer, at, current, search, opens>>,
         writes' \in 0..MaxWrites
  PROVE  IInv'
  BY DEF IInv, TypeOK, SchemaIsWhole, Known, table, search

\* A find that is forgotten disturbs no other.
LEMMA Forgotten ==
  ASSUME NamesInv, NEW p \in Processes, FindForgotten(p), UNCHANGED chat,
         \A t : Reasons(t)' = Reasons(t),
         \A q \in Processes : q # p => doing'[q] = doing[q], doing'[p] \notin {"contacts", "chats"}
  PROVE  FindInv'
<1>1. /\ via'[p] = {} /\ ~blind'[p] /\ UNCHANGED chat
      /\ \A q \in Processes : q # p => /\ via'[q] = via[q] /\ blind'[q] = blind[q]
                                       /\ found'[q] = found[q] /\ steady'[q] = steady[q]
                                       /\ sought'[q] = sought[q]
  BY DEF FindForgotten, NamesInv, NamesTypeOK
<1>2. FindIsRight' /\ Unsought'
  BY <1>1 DEF NamesInv, FindInv, FindIsRight, Unsought
<1>3. Considered'
  BY <1>1 DEF NamesInv, FindInv, Considered
<1> QED
  BY <1>2, <1>3 DEF FindInv

\* What a reply's messages are called stays as it is.
LEMMA ReplyKept == ReplyInv /\ UNCHANGED <<doing, reply>> => ReplyInv'
  BY DEF ReplyInv, OneNamePerReply, Unbegun, Done, Key, reply

\* What one process does with its own reply disturbs no other, if it begins or ends
\* with nothing named.
LEMMA OwnReply ==
  ASSUME NamesInv, NEW p \in Processes, NamesTypeOK',
         \A q \in Processes : q # p => /\ doing'[q] = doing[q] /\ rows'[q] = rows[q]
                                       /\ names'[q] = names[q],
         names'[p] = Unnamed,
         doing'[p] \notin {"senders", "hits"} => rows'[p] = {}
  PROVE  ReplyInv'
<1>1. Done(p)' = {}
  BY DEF Done, Unnamed, NamesTypeOK
<1>2. \A q \in Processes : q # p => Done(q)' = Done(q) /\ \A m \in Msgs : Key(q, m)' = Key(q, m)
  BY DEF Done, Key
<1>3. \A q \in Processes : Done(q) \subseteq Msgs
  BY DEF Done, NamesInv, NamesTypeOK
<1>4. OneNamePerReply'
  <2> SUFFICES ASSUME NEW q \in Processes, NEW m \in Done(q)', NEW n \in Done(q)',
                      Key(q, m)' = Key(q, n)'
               PROVE  names'[q][m] = names'[q][n]
    BY DEF OneNamePerReply
  <2>1. q # p
    BY <1>1
  <2>2. m \in Done(q) /\ n \in Done(q) /\ Key(q, m) = Key(q, n)
    BY <1>2, <1>3, <2>1
  <2> QED
    BY <2>1, <2>2 DEF NamesInv, ReplyInv, OneNamePerReply
<1>5. Unbegun'
  BY DEF NamesInv, ReplyInv, Unbegun, Unnamed
<1> QED
  BY <1>4, <1>5 DEF ReplyInv

\* The steps of the archive, and of searches, leave the names alone.
LEMMA ArchiveKeeps ==
  ASSUME NamesInv, (\E p \in Processes : ArchiveStep(p)) \/ UNCHANGED namesVars
  PROVE  NamesInv'
<1>1. IInv'
  <2>1. CASE \E p \in Processes : ArchiveStep(p)
    BY <2>1, SearchKeeps, OpenKeeps DEF NamesInv, ArchiveStep
  <2>2. CASE UNCHANGED namesVars
    BY <2>2 DEF namesVars, vars, table, search, NamesInv, IInv, TypeOK, SchemaIsWhole, Known
  <2> QED
    BY <2>1, <2>2
<1>2. UNCHANGED <<labels, todo, doing, find, reply>>
  BY DEF ArchiveStep, namesVars, nameVars
<1>3. NamesTypeOK'
  BY <1>1, <1>2 DEF NamesInv, NamesTypeOK, IInv, labels, find, reply
<1>4. FindInv'
  BY <1>2 DEF NamesInv, FindInv, FindIsRight, Considered, Unsought, Reasons, Itself, Members, GoesBy,
              labels, find
<1> QED
  BY <1>1, <1>2, <1>3, <1>4, ReplyKept DEF NamesInv

\* A reason is about a chat that has a row: the chat itself is called so, or somebody in it.
LEMMA ReasonIs ==
  ASSUME NEW n, NEW c, NEW t, <<c, t>> \in Reasons(n)
  PROVE  /\ c \in Chats /\ chat[c] # None
         /\ (t = c /\ Itself(c, n)) \/ (t \in Members(c) /\ t \in People /\ GoesBy(t, n))
  BY DEF Reasons, Itself, Members

\* What a chat's row was last active at does not fall while it is there.
Risen == \A c \in Chats : chat[c] # None => chat'[c] # None /\ chat[c].last <= chat'[c].last

LEMMA RiseIsKept ==
  ASSUME NamesTypeOK, chat' \in [Chats -> Conversations \union {None}], Risen,
         NEW q \in Processes, NEW r \in steady[q],
         <<r[1], r[2]>> \in Reasons(sought[q]), r[3] <= chat[r[1]].last
  PROVE  r[3] <= chat'[r[1]].last
<1>1. r[1] \in Chats /\ chat[r[1]] # None
  BY ReasonIs
<1>2. chat'[r[1]] # None /\ chat[r[1]].last <= chat'[r[1]].last
  BY <1>1 DEF Risen
<1>3. chat[r[1]].last \in Nat /\ chat'[r[1]].last \in Nat /\ r[3] \in Nat
  BY <1>1, <1>2 DEF NamesTypeOK, Conversations
<1> QED
  BY <1>2, <1>3

\* A message is written, perhaps with a chat for it, which is a reason to no find under way.
LEMMA MessageKeeps ==
  ASSUME NamesInv, NEW p \in Processes, NEW m \in Msgs, NEW b \in Bodies, WriteMessage(p, m, b)
  PROVE  NamesInv'
<1> USE NamesAssumption DEF NamesInv, NamesTypeOK
<1>1. IInv'
  BY OpenKeeps DEF WriteMessage
<1>2. UNCHANGED <<contact, alias, todo, doing, find, reply>>
  BY DEF WriteMessage
<1>3. chat' \in [Chats -> Conversations \union {None}] /\ Risen
  <2>1. Stub \in Conversations
    <3>1. Stub.people \in [{} -> Labels \union {Blank}]
      BY DEF Stub
    <3>2. Stub.people \in Participants
      BY <3>1 DEF Participants
    <3> QED
      BY <3>2 DEF Stub, Conversations
  <2>2. \A c \in Chats : chat[c] # None => chat[c].last \in Nat
    BY DEF Conversations
  <2>3. \A c \in Chats : chat'[c] = chat[c] \/ (chat[c] = None /\ chat'[c] = Stub)
    BY DEF WriteMessage
  <2>4. chat' \in [Chats -> Conversations \union {None}]
    BY <2>1 DEF WriteMessage
  <2> QED
    BY <2>2, <2>3, <2>4 DEF Risen
<1>4. NamesTypeOK'
  BY <1>1, <1>2, <1>3 DEF IInv, find, reply
<1>5. \A q \in Processes : Reasons(sought[q]) \subseteq Reasons(sought[q])'
  <2>1. \A c \in Chats : chat[c] # None => chat'[c] = chat[c]
    BY DEF WriteMessage
  <2> QED
    BY <1>2, <2>1 DEF find, Reasons, Itself, Members, GoesBy
<1>6. FindIsRight' /\ Unsought'
  BY <1>2 DEF FindInv, FindIsRight, Unsought, find
<1>7. Considered'
  <2> SUFFICES ASSUME NEW q \in Processes, doing[q] = "contacts", NEW r \in steady[q]
               PROVE  /\ <<r[1], r[2]>> \in Reasons(sought[q])'
                      /\ r[3] <= chat'[r[1]].last
                      /\ r[2] \in People \ via[q] => blind[q] \/ Cardinality(via[q]) = ContactLimit
    BY <1>2 DEF Considered, find
  <2>1. /\ <<r[1], r[2]>> \in Reasons(sought[q]) /\ r[3] <= chat[r[1]].last
        /\ r[2] \in People \ via[q] => blind[q] \/ Cardinality(via[q]) = ContactLimit
    BY DEF FindInv, Considered
  <2>2. <<r[1], r[2]>> \in Reasons(sought[q])'
    BY <1>5, <2>1
  <2> QED
    BY <1>3, <2>1, <2>2, RiseIsKept
<1> QED
  BY <1>1, <1>2, <1>4, <1>6, <1>7, ReplyKept DEF FindInv

\* Whoever writes a name takes the reasons it ends with it.
LEMMA RenamedKeeps ==
  ASSUME NamesInv, Renamed,
         \A q \in Processes : todo'[q] \in SUBSET (People \X (Labels \union {Blank})),
         todo' = [q \in Processes |-> todo'[q]],
         contact' \in [People -> Labels \union {Blank, None}],
         alias' \in [Named -> Labels \union {None}],
         chat' \in [Chats -> Conversations \union {None}], Risen,
         writes' \in 0..MaxWrites
  PROVE  NamesInv'
<1>1. IInv'
  BY TableKept DEF NamesInv, Renamed
<1>2. /\ UNCHANGED <<doing, sought, via, blind, found, reply>>
      /\ \A q \in Processes :
           steady'[q] = {r \in steady[q] : <<r[1], r[2]>> \in Reasons(sought[q])'}
      /\ steady' \in [Processes -> SUBSET (Chats \X Named \X Nat)]
  BY DEF Renamed, NamesInv, NamesTypeOK
<1>3. todo' \in [Processes -> SUBSET (People \X (Labels \union {Blank}))]
  OBVIOUS
<1>4. NamesTypeOK'
  BY <1>1, <1>2, <1>3 DEF NamesInv, NamesTypeOK, IInv, reply
<1>5. FindIsRight' /\ Unsought'
  BY <1>2 DEF NamesInv, FindInv, FindIsRight, Unsought
<1>6. Considered'
  <2> SUFFICES ASSUME NEW q \in Processes, doing[q] = "contacts", NEW r \in steady'[q]
               PROVE  /\ <<r[1], r[2]>> \in Reasons(sought[q])'
                      /\ r[3] <= chat'[r[1]].last
                      /\ r[2] \in People \ via[q] => blind[q] \/ Cardinality(via[q]) = ContactLimit
    BY <1>2 DEF Considered
  <2>1. r \in steady[q] /\ <<r[1], r[2]>> \in Reasons(sought[q])'
    BY <1>2
  <2>2. /\ <<r[1], r[2]>> \in Reasons(sought[q]) /\ r[3] <= chat[r[1]].last
        /\ r[2] \in People \ via[q] => blind[q] \/ Cardinality(via[q]) = ContactLimit
    BY <2>1 DEF NamesInv, FindInv, Considered
  <2> QED
    BY <2>1, <2>2, RiseIsKept DEF NamesInv
<1> QED
  BY <1>1, <1>2, <1>4, <1>5, <1>6, ReplyKept DEF NamesInv, FindInv

\* The five writers of names.
LEMMA WritesKeep ==
  ASSUME NamesInv, NEW p \in Processes,
         \/ \E e \in ContactRows : UpsertContact(p, e[1], e[2])
         \/ \E c \in Chats, r \in ChatRows : UpsertConversation(p, c, r)
         \/ UpsertParticipant(p)
         \/ \E e \in Aliases : SetAlias(p, e[1], e[2])
         \/ \E t \in Named : RemoveAlias(p, t)
  PROVE  NamesInv'
<1> USE RowsAssumption, BoundsAssumption
<1> DEFINE Typed ==
      /\ \A q \in Processes : todo'[q] \in SUBSET (People \X (Labels \union {Blank}))
      /\ todo' = [q \in Processes |-> todo'[q]]
      /\ contact' \in [People -> Labels \union {Blank, None}]
      /\ alias' \in [Named -> Labels \union {None}]
      /\ chat' \in [Chats -> Conversations \union {None}] /\ Risen
      /\ writes' \in 0..MaxWrites
<1>0. chat' = chat => Risen
  BY DEF Risen, NamesInv, NamesTypeOK, Conversations
<1>1. ASSUME NEW e \in ContactRows, UpsertContact(p, e[1], e[2]) PROVE Typed /\ Renamed
  BY <1>0, <1>1 DEF UpsertContact, Writing, NamesInv, NamesTypeOK, TypeOK
<1>2. ASSUME NEW c \in Chats, NEW r \in ChatRows, UpsertConversation(p, c, r) PROVE Typed /\ Renamed
  <2>1. r \in Conversations
    OBVIOUS
  <2>2. PICK X \in SUBSET People : r.people \in [X -> Labels \union {Blank}]
    BY <2>1 DEF Conversations, Participants
  <2>3. {<<x, r.people[x]>> : x \in DOMAIN r.people} \in SUBSET (People \X (Labels \union {Blank}))
    BY <2>2
  <2>4. /\ \A q \in Processes : todo'[q] \in SUBSET (People \X (Labels \union {Blank}))
        /\ todo' = [q \in Processes |-> todo'[q]]
    BY <1>2, <2>3 DEF UpsertConversation, NamesInv, NamesTypeOK
  <2>5. /\ Upserted(c, r) \in Conversations
        /\ chat[c] # None => chat[c].last <= Upserted(c, r).last
    <3>1. r.last \in Nat /\ (chat[c] # None => chat[c].last \in Nat)
      BY <2>1 DEF Conversations, NamesInv, NamesTypeOK
    <3>2. CASE chat[c] # None /\ chat[c].last > r.last
      <4>1. Upserted(c, r) = [r EXCEPT !.last = chat[c].last]
        BY <3>2 DEF Upserted
      <4> QED
        BY <2>1, <3>1, <3>2, <4>1 DEF Conversations
    <3>3. CASE ~(chat[c] # None /\ chat[c].last > r.last)
      <4>1. Upserted(c, r) = r
        BY <3>3 DEF Upserted
      <4> QED
        BY <2>1, <3>1, <3>3, <4>1
    <3> QED
      BY <3>2, <3>3
  <2>6. chat' = [chat EXCEPT ![c] = Upserted(c, r)]
    BY <1>2 DEF UpsertConversation
  <2>7. chat' \in [Chats -> Conversations \union {None}]
    BY <2>5, <2>6 DEF NamesInv, NamesTypeOK
  <2>8. Risen
    <3> SUFFICES ASSUME NEW d \in Chats, chat[d] # None
                 PROVE  chat'[d] # None /\ chat[d].last <= chat'[d].last
      BY DEF Risen
    <3>1. None \notin Conversations
      BY NamesAssumption
    <3>2. chat[d].last \in Nat
      BY DEF Conversations, NamesInv, NamesTypeOK
    <3>3. CASE d = c
      BY <2>5, <2>6, <3>1, <3>3 DEF NamesInv, NamesTypeOK
    <3>4. CASE d # c
      BY <2>6, <3>2, <3>4 DEF NamesInv, NamesTypeOK
    <3> QED
      BY <3>3, <3>4
  <2> QED
    BY <1>2, <2>4, <2>7, <2>8 DEF UpsertConversation, Writing, NamesInv, NamesTypeOK, TypeOK
<1>3. ASSUME UpsertParticipant(p) PROVE Typed /\ Renamed
  <2>1. PICK e \in todo[p] : /\ contact' = [contact EXCEPT ![e[1]] = e[2]]
                              /\ todo' = [todo EXCEPT ![p] = @ \ {e}]
    BY <1>3 DEF UpsertParticipant
  <2>2. e[1] \in People /\ e[2] \in Labels \union {Blank}
    BY DEF NamesInv, NamesTypeOK
  <2>3. /\ \A q \in Processes : todo'[q] \in SUBSET (People \X (Labels \union {Blank}))
        /\ todo' = [q \in Processes |-> todo'[q]]
    BY <2>1 DEF NamesInv, NamesTypeOK
  <2> QED
    BY <1>0, <1>3, <2>1, <2>2, <2>3 DEF UpsertParticipant, NamesInv, NamesTypeOK, TypeOK
<1>4. ASSUME NEW e \in Aliases, SetAlias(p, e[1], e[2]) PROVE Typed /\ Renamed
  BY <1>0, <1>4 DEF SetAlias, Writing, NamesInv, NamesTypeOK, TypeOK
<1>5. ASSUME NEW t \in Named, RemoveAlias(p, t) PROVE Typed /\ Renamed
  BY <1>0, <1>5 DEF RemoveAlias, Writing, NamesInv, NamesTypeOK, TypeOK
<1>6. Typed /\ Renamed
  BY <1>1, <1>2, <1>3, <1>4, <1>5
<1>7. Risen
  BY <1>6
<1> QED
  BY <1>6, <1>7, RenamedKeeps

\* Which chats a find may return: the one it has to find, or as many as the limit allows,
\* none of which was quiet for longer.
LEMMA LatestFinds ==
  ASSUME NamesTypeOK, NEW S \in SUBSET Chats, \A c \in S : chat[c] # None, NEW F \in Latest(S)
  PROVE  /\ F \in SUBSET (Chats \X Nat)
         /\ \A c \in S : \/ \E f \in F : f[1] = c
                         \/ Cardinality(F) = ChatLimit /\ \A f \in F : f[2] >= chat[c].last
<1>1. PICK X \in SUBSET S :
        /\ Cardinality(X) = IF Cardinality(S) > ChatLimit THEN ChatLimit ELSE Cardinality(S)
        /\ \A c \in X, d \in S \ X : chat[d].last <= chat[c].last
        /\ F = {<<c, chat[c].last>> : c \in X}
  BY DEF Latest
<1>2. \A c \in S : chat[c].last \in Nat
  BY DEF NamesTypeOK, Conversations
<1>3. IsFiniteSet(S) /\ IsFiniteSet(X)
  BY FS_Subset, NamesAssumption
<1>4. Cardinality(F) = Cardinality(X)
  <2> DEFINE g == [c \in X |-> chat[c].last]
  <2>1. F = {<<c, g[c]>> : c \in X}
    BY <1>1
  <2> HIDE DEF g
  <2> QED
    BY <1>3, <2>1, RowPerKey
<1>5. F \in SUBSET (Chats \X Nat)
  BY <1>1, <1>2
<1>6. ASSUME NEW c \in S
      PROVE  \/ \E f \in F : f[1] = c
             \/ Cardinality(F) = ChatLimit /\ \A f \in F : f[2] >= chat[c].last
  <2>1. CASE c \in X
    <3>1. <<c, chat[c].last>> \in F
      BY <1>1, <2>1
    <3> QED
      BY <3>1
  <2>2. CASE c \notin X
    <3>1. Cardinality(F) = ChatLimit
      BY <1>1, <1>3, <1>4, <2>2, LimitOrAll
    <3>2. \A d \in X : chat[c].last <= chat[d].last
      BY <1>1, <2>2
    <3>3. \A f \in F : f[2] >= chat[c].last
      BY <1>1, <1>2, <3>2
    <3> QED
      BY <3>1, <3>3
  <2> QED
    BY <2>1, <2>2
<1> QED
  BY <1>5, <1>6

\* A find.
LEMMA FindKeeps ==
  ASSUME NamesInv, NEW p \in Processes,
         (\E n \in Labels : FindContacts(p, n)) \/ FindChats(p) \/ FindReturns(p)
  PROVE  NamesInv'
<1> USE NamesAssumption DEF NamesInv, NamesTypeOK, Does
<1>1. IInv'
  BY TableKept DEF FindContacts, FindChats, FindReturns, vars, table, search, IInv, TypeOK
<1>2. UNCHANGED <<labels, todo, reply>>
  BY DEF FindContacts, FindChats, FindReturns
<1>3. ASSUME NamesTypeOK' PROVE ReplyInv'
  <2>1. names[p] = Unnamed /\ rows[p] = {}
    BY DEF FindContacts, FindChats, FindReturns, Idle, ReplyInv, Unbegun
  <2>2. /\ \A q \in Processes : q # p => doing'[q] = doing[q]
        /\ doing'[p] \notin {"senders", "hits"}
    BY DEF FindContacts, FindChats, FindReturns
  <2> QED
    BY <1>2, <1>3, <2>1, <2>2, OwnReply DEF reply
<1>4. ASSUME NEW n \in Labels, FindContacts(p, n) PROVE NamesTypeOK' /\ FindInv'
  <2> DEFINE S == {x \in People : GoesBy(x, n)}
           W == {<<r[1], r[2], chat[r[1]].last>> : r \in Reasons(n)}
  <2>1. PICK X \in SUBSET S, b \in BOOLEAN :
          /\ S # X => b \/ Cardinality(X) = ContactLimit
          /\ via' = [via EXCEPT ![p] = X] /\ blind' = [blind EXCEPT ![p] = b]
    <3>1. via[p] = {} /\ ~blind[p] /\ via = [via EXCEPT ![p] = via[p]]
          /\ blind = [blind EXCEPT ![p] = FALSE]
      BY <1>4, Zenon DEF FindContacts, Idle, FindInv, Unsought
    <3>2. IsFiniteSet(S)
      BY FS_Subset
    <3>3. CASE blind' = [blind EXCEPT ![p] = TRUE] /\ UNCHANGED via
      BY <3>1, <3>3
    <3>4. ASSUME NEW X \in SUBSET S,
                 Cardinality(X) = IF Cardinality(S) > ContactLimit THEN ContactLimit
                                                                    ELSE Cardinality(S),
                 via' = [via EXCEPT ![p] = X], UNCHANGED blind
          PROVE  \E b \in BOOLEAN :
                   /\ S # X => b \/ Cardinality(X) = ContactLimit
                   /\ via' = [via EXCEPT ![p] = X] /\ blind' = [blind EXCEPT ![p] = b]
      <4>1. S # X => Cardinality(X) = ContactLimit
        BY <3>2, <3>4, LimitOrAll
      <4> QED
        BY <3>1, <3>4, <4>1
    <3> QED
      BY <1>4, <3>3, <3>4 DEF FindContacts
  <2>2. W \in SUBSET (Chats \X Named \X Nat)
    <3>1. \A r \in Reasons(n) : r[1] \in Chats /\ r[2] \in Named /\ chat[r[1]] # None
      BY DEF Reasons, Named, Itself, Members
    <3>2. \A c \in Chats : chat[c] # None => chat[c].last \in Nat
      BY DEF Conversations
    <3> QED
      BY <3>1, <3>2
  <2>3. blind' \in [Processes -> BOOLEAN]
    BY <2>1, Zenon
  <2>4. NamesTypeOK'
    BY <1>1, <1>2, <1>4, <2>1, <2>2, <2>3 DEF FindContacts, IInv, labels, reply
  <2>5. FindIsRight'
    BY <1>4, <2>1 DEF FindContacts, FindInv, FindIsRight
  <2>6. \A t : Reasons(t)' = Reasons(t)
    BY <1>2 DEF labels, Reasons, Itself, Members, GoesBy
  <2>7. ASSUME NEW r \in W
        PROVE  /\ <<r[1], r[2]>> \in Reasons(n) /\ r[3] <= chat[r[1]].last
               /\ r[2] \in People \ X => b \/ Cardinality(X) = ContactLimit
    <3>1. PICK s \in Reasons(n) : r = <<s[1], s[2], chat[s[1]].last>>
      BY <2>7
    <3>2. s = <<s[1], s[2]>> /\ r[1] = s[1] /\ r[2] = s[2] /\ r[3] = chat[s[1]].last
      BY <3>1 DEF Reasons
    <3>3. r[3] \in Nat
      BY <2>2
    <3>4. r[2] \in People \ X => S # X
      BY <3>1, <3>2 DEF Reasons
    <3>5. <<r[1], r[2]>> \in Reasons(n)
      BY <3>2
    <3>6. r[3] <= chat[r[1]].last
      BY <3>2, <3>3
    <3>7. r[2] \in People \ X => b \/ Cardinality(X) = ContactLimit
      BY <2>1, <3>4
    <3> QED
      BY <3>5, <3>6, <3>7
  <2>8. /\ sought'[p] = n /\ steady'[p] = W /\ via'[p] = X /\ blind'[p] = b
        /\ \A q \in Processes : q # p => /\ sought'[q] = sought[q] /\ steady'[q] = steady[q]
                                         /\ via'[q] = via[q] /\ blind'[q] = blind[q]
                                         /\ doing'[q] = doing[q]
    BY <1>4, <2>1 DEF FindContacts
  <2> HIDE DEF W, S
  <2>9. Considered'
    BY <1>2, <2>6, <2>7, <2>8 DEF FindInv, Considered, labels
  <2>10. Unsought'
    BY <1>4, <2>8 DEF FindContacts, FindInv, Unsought
  <2> QED
    BY <2>4, <2>5, <2>9, <2>10 DEF FindInv
<1>5. ASSUME FindChats(p) PROVE NamesTypeOK' /\ FindInv'
  <2> DEFINE S == {c \in Chats : Itself(c, sought[p]) \/ Members(c) \intersect via[p] # {}}
  <2>1. PICK F \in Latest(S) : found' = [found EXCEPT ![p] = F]
    BY <1>5 DEF FindChats
  <2>2. \A c \in S : chat[c] # None
    BY DEF Itself, Members
  <2> HIDE DEF S
  <2>3. /\ F \in SUBSET (Chats \X Nat)
        /\ \A c \in S : \/ \E f \in F : f[1] = c
                        \/ Cardinality(F) = ChatLimit /\ \A f \in F : f[2] >= chat[c].last
    BY <2>1, <2>2, LatestFinds DEF S
  <2>4. NamesTypeOK'
    BY <1>1, <1>2, <1>5, <2>1, <2>3 DEF FindChats, IInv, labels, reply
  <2>5. ASSUME NEW r \in steady[p]
        PROVE  \/ \E f \in F : f[1] = r[1]
               \/ r[2] \in People \ via[p] /\ (blind[p] \/ Cardinality(via[p]) = ContactLimit)
               \/ Cardinality(F) = ChatLimit /\ \A f \in F : f[2] >= r[3]
    <3>1. /\ <<r[1], r[2]>> \in Reasons(sought[p]) /\ r[3] <= chat[r[1]].last
          /\ r[2] \in People \ via[p] => blind[p] \/ Cardinality(via[p]) = ContactLimit
      BY <1>5, <2>5 DEF FindChats, FindInv, Considered
    <3>2. /\ r[1] \in Chats /\ chat[r[1]] # None
          /\ \/ Itself(r[1], sought[p])
             \/ r[2] \in Members(r[1]) /\ r[2] \in People
      BY <3>1, ReasonIs
    <3>3. r[1] \in S \/ r[2] \in People \ via[p]
      BY <3>2 DEF S
    <3>4. r[3] \in Nat /\ chat[r[1]].last \in Nat
      BY <2>5, <3>2 DEF Conversations
    <3>5. ASSUME Cardinality(F) = ChatLimit, \A f \in F : f[2] >= chat[r[1]].last
          PROVE  \A f \in F : f[2] >= r[3]
      BY <2>3, <3>1, <3>4, <3>5
    <3> QED
      BY <2>3, <3>1, <3>3, <3>5
  <2>6. /\ found'[p] = F /\ UNCHANGED <<sought, via, blind, steady>>
        /\ \A q \in Processes : q # p => found'[q] = found[q] /\ doing'[q] = doing[q]
        /\ doing'[p] = "chats"
    BY <1>5, <2>1 DEF FindChats
  <2>7. FindIsRight'
    <3> SUFFICES ASSUME NEW q \in Processes, doing'[q] = "chats", NEW r \in steady[q]
                 PROVE  \/ \E f \in found'[q] : f[1] = r[1]
                        \/ /\ r[2] \in People \ via[q]
                           /\ blind[q] \/ Cardinality(via[q]) = ContactLimit
                        \/ Cardinality(found'[q]) = ChatLimit /\ \A f \in found'[q] : f[2] >= r[3]
      BY <2>6 DEF FindIsRight
    <3>1. CASE q = p
      BY <2>5, <2>6, <3>1
    <3>2. CASE q # p
      BY <2>6, <3>2 DEF FindInv, FindIsRight
    <3> QED
      BY <3>1, <3>2
  <2>8. \A t : Reasons(t)' = Reasons(t)
    BY <1>2 DEF labels, Reasons, Itself, Members, GoesBy
  <2>9. Considered'
    BY <1>2, <2>6, <2>8 DEF FindInv, Considered, labels
  <2>10. Unsought'
    BY <2>6 DEF FindInv, Unsought
  <2> QED
    BY <2>4, <2>7, <2>9, <2>10 DEF FindInv
<1>6. ASSUME FindReturns(p) PROVE NamesTypeOK' /\ FindInv'
  <2>1. blind' \in [Processes -> BOOLEAN]
    BY <1>6, Zenon DEF FindReturns, FindForgotten
  <2>2. NamesTypeOK'
    BY <1>1, <1>2, <1>6, <2>1 DEF FindReturns, FindForgotten, IInv, labels, reply
  <2>3. \A t : Reasons(t)' = Reasons(t)
    BY <1>2 DEF labels, Reasons, Itself, Members, GoesBy
  <2>4. FindInv'
    BY <1>2, <1>6, <2>3, Forgotten DEF FindReturns, labels
  <2> QED
    BY <2>2, <2>4
<1> QED
  BY <1>1, <1>3, <1>4, <1>5, <1>6

\* The names of a reply, one message after another.
LEMMA RepliesKeep ==
  ASSUME NamesInv, NEW p \in Processes,
         ListMessages(p) \/ NameHits(p) \/ NameNext(p) \/ ReplyReturns(p)
  PROVE  NamesInv'
<1> USE NamesAssumption DEF NamesInv, NamesTypeOK, Does
<1>1. IInv'
  <2>1. CASE UNCHANGED vars
    BY <2>1 DEF vars, table, search, IInv, TypeOK, SchemaIsWhole, Known
  <2>2. CASE Return(p)
    BY <2>2, SearchKeeps
  <2> QED
    BY <2>1, <2>2 DEF ListMessages, NameHits, NameNext, ReplyReturns
<1>2. UNCHANGED <<labels, todo, find>>
  BY DEF ListMessages, NameHits, NameNext, ReplyReturns
<1>3. FindInv'
  <2>1. \A t : Reasons(t)' = Reasons(t)
    BY <1>2 DEF labels, Reasons, Itself, Members, GoesBy
  <2>2. \A q \in Processes :
          \/ doing'[q] = doing[q]
          \/ doing[q] \notin {"contacts", "chats"} /\ doing'[q] \notin {"contacts", "chats"}
    BY DEF ListMessages, NameHits, NameNext, ReplyReturns, Idle
  <2>3. UNCHANGED <<sought, via, blind, found, steady, chat>>
    BY <1>2 DEF find, labels
  <2>4. FindIsRight' /\ Unsought'
    BY <2>2, <2>3 DEF FindInv, FindIsRight, Unsought
  <2>5. Considered'
    BY <2>1, <2>2, <2>3 DEF FindInv, Considered
  <2> QED
    BY <2>4, <2>5 DEF FindInv
<1>4. ASSUME ListMessages(p) \/ NameHits(p) PROVE NamesTypeOK' /\ ReplyInv'
  <2>1. rows' \in [Processes -> SUBSET Msgs]
    <3>1. hits[p] \in SUBSET (Msgs \X Bodies)
      BY DEF IInv, TypeOK
    <3>2. {h[1] : h \in hits[p]} \in SUBSET Msgs
      BY <3>1
    <3>3. CASE NameHits(p)
      BY <3>2, <3>3 DEF NameHits
    <3>4. CASE ListMessages(p)
      BY <3>4 DEF ListMessages, Newest, Rows
    <3> QED
      BY <1>4, <3>3, <3>4
  <2>2. names[p] = Unnamed /\ UNCHANGED names
    BY <1>4 DEF ListMessages, NameHits, Idle, ReplyInv, Unbegun
  <2>3. NamesTypeOK'
    BY <1>1, <1>2, <1>4, <2>1, <2>2 DEF ListMessages, NameHits, IInv, labels, find
  <2>4. \A q \in Processes : q # p => doing'[q] = doing[q] /\ rows'[q] = rows[q]
    BY <1>4 DEF ListMessages, NameHits
  <2>5. doing'[p] \in {"senders", "hits"}
    BY <1>4 DEF ListMessages, NameHits
  <2>6. ReplyInv'
    BY <2>2, <2>3, <2>4, <2>5, OwnReply
  <2> QED
    BY <2>3, <2>6
<1>5. ASSUME NameNext(p) PROVE NamesTypeOK' /\ ReplyInv'
  <2>1. PICK m \in NextRow(p) :
          LET cached == {n \in Done(p) : Key(p, n) = Key(p, m)}
          IN  \/ \E n \in cached : names' = [names EXCEPT ![p][m] = names[p][n]]
              \/ cached = {} /\ \E v \in NamesFor(p, m) : names' = [names EXCEPT ![p][m] = v]
    BY <1>5 DEF NameNext
  <2>2. m \in Msgs /\ m \notin Done(p) /\ UNCHANGED <<doing, rows>>
    BY <1>5 DEF NameNext, NextRow
  <2>3. PICK v \in Called \union {None} :
          /\ names' = [names EXCEPT ![p][m] = v]
          /\ \A n \in Done(p) : Key(p, n) = Key(p, m) => names[p][n] = v
    <3>1. NamesFor(p, m) \subseteq Called
      <4>1. SenderOf[m] \in People /\ ChatOf[m] \in Chats
        BY <2>2
      <4>2. SenderName(SenderOf[m]) \in Called
        BY <4>1 DEF SenderName, Called, Named
      <4>3. ChatName(ChatOf[m]) \in Called
        BY <4>1 DEF ChatName, Called, Named, Conversations
      <4>4. SenderOf[m] \in Called /\ Blank \in Called
        BY <4>1 DEF Called, Named
      <4> QED
        BY <4>2, <4>3, <4>4 DEF NamesFor, NameOf
    <3>2. \A n \in Done(p) : names[p][n] \in Called \union {None}
      BY DEF Done
    <3>3. CASE \E n \in Done(p) : /\ Key(p, n) = Key(p, m)
                                  /\ names' = [names EXCEPT ![p][m] = names[p][n]]
      <4>1. PICK n \in Done(p) : /\ Key(p, n) = Key(p, m)
                                 /\ names' = [names EXCEPT ![p][m] = names[p][n]]
        BY <3>3
      <4>2. \A k \in Done(p) : Key(p, k) = Key(p, m) => names[p][k] = names[p][n]
        BY <4>1 DEF ReplyInv, OneNamePerReply
      <4> QED
        BY <3>2, <4>1, <4>2
    <3>4. CASE /\ \A n \in Done(p) : Key(p, n) # Key(p, m)
               /\ \E v \in NamesFor(p, m) : names' = [names EXCEPT ![p][m] = v]
      BY <3>1, <3>4
    <3> QED
      BY <2>1, <3>3, <3>4
  <2>4. NamesTypeOK'
    BY <1>1, <1>2, <1>5, <2>2, <2>3 DEF NameNext, IInv, labels, find
  <2>5. \A q \in Processes, n \in Msgs :
          names'[q][n] = IF q = p /\ n = m THEN v ELSE names[q][n]
    BY <2>2, <2>3
  <2>6. OneNamePerReply'
    BY <2>2, <2>3, <2>5 DEF ReplyInv, OneNamePerReply, Done, Key
  <2>7. doing[p] \in {"senders", "hits"}
    BY <2>1 DEF NextRow, ReplyInv, Unbegun
  <2>8. Unbegun'
    BY <2>2, <2>3, <2>7 DEF ReplyInv, Unbegun
  <2> QED
    BY <2>4, <2>6, <2>8 DEF ReplyInv
<1>6. ASSUME ReplyReturns(p) PROVE NamesTypeOK' /\ ReplyInv'
  <2>1. NamesTypeOK'
    BY <1>1, <1>2, <1>6 DEF ReplyReturns, IInv, labels, find, Unnamed
  <2>2. ReplyInv'
    BY <1>6 DEF ReplyReturns, ReplyInv, OneNamePerReply, Unbegun, Done, Key, Unnamed
  <2> QED
    BY <2>1, <2>2
<1> QED
  BY <1>1, <1>3, <1>4, <1>5, <1>6

\* A process that ends.
LEMMA CloseKeeps ==
  ASSUME NamesInv, NEW p \in Processes, CloseAndForget(p)
  PROVE  NamesInv'
<1> USE DEF NamesInv, NamesTypeOK, CloseAndForget, Does
<1>1. IInv'
  BY OpenKeeps
<1>6. blind' \in [Processes -> BOOLEAN]
  BY Zenon DEF FindForgotten
<1>2. NamesTypeOK'
  BY <1>1, <1>6 DEF IInv, FindForgotten, labels, Unnamed
<1>3. \A t : Reasons(t)' = Reasons(t)
  BY DEF labels, Reasons, Itself, Members, GoesBy
<1>4. FindInv'
  BY <1>3, Forgotten DEF labels
<1>5. ReplyInv'
  BY DEF ReplyInv, OneNamePerReply, Unbegun, Done, Key, Unnamed
<1> QED
  BY <1>1, <1>2, <1>4, <1>5

LEMMA InitNamesInv == NamesInit => NamesInv
<1> SUFFICES ASSUME NamesInit PROVE NamesInv
  OBVIOUS
<1>1. IInv
  BY InitIInv DEF NamesInit
<1>2. NamesTypeOK
  BY <1>1 DEF NamesInit, NamesTypeOK, IInv, Unnamed
<1>3. FindInv /\ ReplyInv
  BY DEF NamesInit, FindInv, FindIsRight, Considered, Unsought, ReplyInv, OneNamePerReply, Unbegun, Done, Unnamed
<1> QED
  BY <1>1, <1>2, <1>3 DEF NamesInv

LEMMA NamesInductive == NamesInv /\ [NamesNext]_namesVars => NamesInv'
<1> SUFFICES ASSUME NamesInv, NamesNext \/ UNCHANGED namesVars PROVE NamesInv'
  OBVIOUS
<1>1. CASE NamesNext
  <2>1. PICK p \in Processes :
    \/ ArchiveStep(p) \/ CloseAndForget(p)
    \/ \E m \in Msgs, b \in Bodies : WriteMessage(p, m, b)
    \/ \E e \in ContactRows : UpsertContact(p, e[1], e[2])
    \/ \E c \in Chats, r \in ChatRows : UpsertConversation(p, c, r)
    \/ UpsertParticipant(p)
    \/ \E e \in Aliases : SetAlias(p, e[1], e[2])
    \/ \E t \in Named : RemoveAlias(p, t)
    \/ \E n \in Labels : FindContacts(p, n)
    \/ FindChats(p) \/ FindReturns(p)
    \/ ListMessages(p) \/ NameHits(p) \/ NameNext(p) \/ ReplyReturns(p)
    BY <1>1 DEF NamesNext
  <2> QED
    BY <2>1, ArchiveKeeps, MessageKeeps, CloseKeeps, WritesKeep, FindKeeps, RepliesKeep
<1>2. CASE UNCHANGED namesVars
  BY <1>2, ArchiveKeeps
<1> QED
  BY <1>1, <1>2

\* FindConversations (search.go:218): whatever is renamed between its two
\* statements, a chat with a reason to be found that held all along is found,
\* unless that is a contact who is beyond the limit or whose search has failed; or as
\* many chats are as the limit allows, none of which was quiet for longer.
THEOREM FindTellsTheTruth == NamesSpec => []FindIsRight
<1>1. NamesInv => FindIsRight
  BY DEF NamesInv, FindInv
<1> QED
  BY InitNamesInv, NamesInductive, <1>1, PTL DEF NamesSpec

\* EnrichMessages and attachConversationNames (search.go:350, 135): in one reply
\* nobody goes by two names, whoever renames whom while they are read.
THEOREM OneNameEach == NamesSpec => []OneNamePerReply
<1>1. NamesInv => OneNamePerReply
  BY DEF NamesInv, ReplyInv
<1> QED
  BY InitNamesInv, NamesInductive, <1>1, PTL DEF NamesSpec

\* Every variable of the archive and of the names keeps its type.
THEOREM NamesTypeCorrect == NamesSpec => []NamesTypeOK
<1>1. NamesInv => NamesTypeOK
  BY DEF NamesInv
<1> QED
  BY InitNamesInv, NamesInductive, <1>1, PTL DEF NamesSpec

\* With writers of names beside them, too, nobody works on half a schema.
THEOREM NamesOnAWholeSchema == NamesSpec => []SchemaIsWhole
<1>1. NamesInv => SchemaIsWhole
  BY DEF NamesInv, IInv
<1> QED
  BY InitNamesInv, NamesInductive, <1>1, PTL DEF NamesSpec

\* One step per action of the archive's users.
LEMMA NamesKeepSearches == NamesInv /\ SearchInv /\ [NamesNext]_namesVars => SearchInv'
<1> SUFFICES ASSUME NamesInv, SearchInv, [NamesNext]_namesVars PROVE SearchInv'
  OBVIOUS
<1> USE DEF NamesInv
<1>1. TypeOK
  BY DEF IInv
<1>2. CASE UNCHANGED namesVars
  BY <1>2, Untouched DEF namesVars, vars
<1>3. ASSUME NEW p \in Processes, ArchiveStep(p) PROVE SearchInv'
  BY <1>1, <1>3, NextSearchInv DEF ArchiveStep, Next
<1>4. ASSUME NEW p \in Processes,
             \/ CloseAndForget(p) \/ ReplyReturns(p)
             \/ \E m \in Msgs, b \in Bodies : WriteMessage(p, m, b)
      PROVE  SearchInv'
  <2>1. \/ Close(p) \/ Return(p) \/ UNCHANGED vars
        \/ \E m \in Msgs, b \in Bodies : UpsertMessage(p, m, b)
    BY <1>4 DEF CloseAndForget, ReplyReturns, WriteMessage
  <2> QED
    BY <1>1, <2>1, NextSearchInv DEF Next
<1>5. ASSUME Renamed PROVE SearchInv'
  BY <1>5, Untouched DEF Renamed
<1>6. ASSUME NEW p \in Processes,
             \/ \E n \in Labels : FindContacts(p, n)
             \/ FindChats(p) \/ FindReturns(p)
             \/ ListMessages(p) \/ NameHits(p) \/ NameNext(p)
      PROVE  SearchInv'
  <2>1. UNCHANGED vars
    BY <1>6 DEF FindContacts, FindChats, FindReturns, ListMessages, NameHits, NameNext
  <2> QED
    BY <2>1, Untouched DEF vars
<1>7. ASSUME NEW p \in Processes,
             \/ \E e \in ContactRows : UpsertContact(p, e[1], e[2])
             \/ \E c \in Chats, r \in ChatRows : UpsertConversation(p, c, r)
             \/ UpsertParticipant(p)
             \/ \E e \in Aliases : SetAlias(p, e[1], e[2])
             \/ \E t \in Named : RemoveAlias(p, t)
      PROVE  Renamed
  BY <1>7 DEF UpsertContact, UpsertConversation, UpsertParticipant, SetAlias, RemoveAlias
<1> QED
  BY <1>2, <1>3, <1>4, <1>5, <1>6, <1>7 DEF NamesNext

\* A search tells the truth among writers of names, whose replies are made of its hits.
THEOREM SearchAmongNames == NamesSpec => []SearchIsRight
<1>1. NamesInit => SearchInv
  BY InitSearchInv DEF NamesInit
<1> QED
  BY <1>1, InitNamesInv, NamesInductive, NamesKeepSearches, SearchInvIsRight, PTL DEF NamesSpec
=============================================================================
