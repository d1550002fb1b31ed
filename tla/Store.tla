------------------------------- MODULE Store --------------------------------
(***************************************************************************)
(* The archive's file as its users share it (internal/store): the daemon   *)
(* and every command open it, bring its schema up to date, write messages, *)
(* and search them through the FTS5 index that triggers keep.              *)
(*                                                                         *)
(* A process has one connection.  A statement is one step, and so is a     *)
(* migration up to its COMMIT; SQLite lets one writer in at a time.        *)
(* A search is up to three statements, with other writes between them; any *)
(* of them may fail.  A body is the set of its terms, and what FTS5 makes  *)
(* of a query as it is, the bodies it matches.                             *)
(***************************************************************************)
EXTENDS Naturals, Sequences, FiniteSets

CONSTANTS
  Processes,
  Readers,       \* processes that search: readers do not disturb each other
  schemaVersion, \* migrations there are
  Msgs,
  Time,          \* Time[m]: the timestamp of message m
  Words, Bodies,
  Short,         \* words below the trigram minimum
  Stop,          \* fallbackStopwords
  Queries,
  Match,         \* Match[q]: the bodies FTS5 matches for query q as it is
  WordsOf,       \* WordsOf[q]: the words of query q, without punctuation
  Broken,        \* queries that FTS5 rejects
  Exact,         \* queries with quotes, parentheses, AND, OR, NOT, ...
  Literal,       \* those that are nothing but their own terms, quoted
  Limit,         \* rows a search returns
  None,
  MaxOpens,      \* bound on how often the archive is opened
  MaxWrites      \* bound on the messages written

ASSUME MsgAssumption == /\ IsFiniteSet(Msgs)
                        /\ Time \in [Msgs -> Nat] /\ Bodies \subseteq SUBSET Words
ASSUME QueryAssumption == /\ WordsOf \in [Queries -> SUBSET Words]
                          /\ Match \in [Queries -> SUBSET Bodies]
                          /\ Broken \subseteq Queries /\ Exact \subseteq Queries
                          /\ Literal \subseteq Exact
                          /\ Short \subseteq Words /\ Stop \subseteq Words
ASSUME NoneAssumption == None \notin Processes \union Queries \union Bodies
ASSUME ReadersAssumption == Readers \subseteq Processes
ASSUME BoundsAssumption == /\ {schemaVersion, Limit} \subseteq Nat \ {0}
                           /\ {MaxOpens, MaxWrites} \subseteq Nat

VARIABLES
  schema,   \* the migrations applied, in order (schema_version)
  writer,   \* the process that is in a migration, or None
  body,     \* body[m]: the body of m's row, None without a row
  fts,      \* rows of messages_fts: <<m, body>>
  at,       \* at[p]: what process p does
  current,  \* current[p]: the version up to which p knows the schema
  query,    \* query[p]: what p searches for
  refused,  \* refused[p]: p's query as it is has failed
  hits,     \* hits[p]: what p has found, as <<m, body>>
  lasting,  \* lasting[p]: reasons to find a message that held all along (history)
  opens, writes

table == <<body, fts>>
search == <<query, refused, hits, lasting>>
vars == <<schema, writer, table, at, current, search, opens, writes>>

\* The versions that the migrations record; the tables they create are there or not
\* with them.
migrations == [v \in 1..schemaVersion |-> v]

Opened == {"open", "verbatim", "quoted", "any", "found"}
Steps == {"closed", "version", "migrate", "commit"} \union Opened

\* Process p goes on to step s.
Goes(p, s) == at' = [at EXCEPT ![p] = s]

-----------------------------------------------------------------------------
(***************************************************************************)
(* Open and migrate                                                        *)
(***************************************************************************)

Open(p) ==
  /\ at[p] = "closed" /\ opens < MaxOpens
  /\ opens' = opens + 1
  /\ Goes(p, "version")
  /\ UNCHANGED <<schema, writer, table, current, search, writes>>

\* currentVersion: read outside the transactions; 0 without the table.
CurrentVersion(p) ==
  /\ at[p] = "version"
  /\ current' = [current EXCEPT ![p] = Len(schema)]
  /\ Goes(p, "migrate")
  /\ UNCHANGED <<schema, writer, table, search, opens, writes>>

\* Mutant: a migration that finds its tables there is taken for applied.
ApplyAnyway(p) ==
  /\ at[p] = "migrate" /\ current[p] < schemaVersion /\ writer = None
  /\ IF current[p] + 1 <= Len(schema)
       THEN current' = [current EXCEPT ![p] = schemaVersion] /\ UNCHANGED <<writer, at>>
       ELSE writer' = p /\ Goes(p, "commit") /\ UNCHANGED current
  /\ UNCHANGED <<schema, table, search, opens, writes>>

\* BEGIN and the statements of the next migration.  They fail where another
\* process has applied it meanwhile: its tables exist.
Apply(p) ==
  /\ at[p] = "migrate" /\ current[p] < schemaVersion /\ writer = None
  /\ IF current[p] + 1 <= Len(schema)
       THEN Goes(p, "closed") /\ UNCHANGED writer
       ELSE writer' = p /\ Goes(p, "commit")
  /\ UNCHANGED <<schema, table, current, search, opens, writes>>

\* The busy timeout is over.
Busy(p) ==
  /\ at[p] = "migrate" /\ writer # None
  /\ Goes(p, "closed")
  /\ UNCHANGED <<schema, writer, table, current, search, opens, writes>>

Commit(p) ==
  /\ at[p] = "commit"
  /\ schema' = Append(schema, migrations[current[p] + 1])
  /\ current' = [current EXCEPT ![p] = @ + 1]
  /\ writer' = None
  /\ Goes(p, "migrate")
  /\ UNCHANGED <<table, search, opens, writes>>

Migrated(p) ==
  /\ at[p] = "migrate" /\ current[p] >= schemaVersion
  /\ Goes(p, "open")
  /\ UNCHANGED <<schema, writer, table, current, search, opens, writes>>

\* What p was looking for is forgotten.
Forget(p) ==
  /\ query' = [query EXCEPT ![p] = None]
  /\ refused' = [refused EXCEPT ![p] = FALSE]
  /\ hits' = [hits EXCEPT ![p] = {}]
  /\ lasting' = [lasting EXCEPT ![p] = {}]

\* Close, or the end of the process: a transaction is rolled back.
Close(p) ==
  /\ at[p] # "closed"
  /\ Goes(p, "closed")
  /\ writer' = IF writer = p THEN None ELSE writer
  /\ Forget(p)
  /\ UNCHANGED <<schema, table, current, opens, writes>>

-----------------------------------------------------------------------------
(***************************************************************************)
(* Writes, and the triggers                                                *)
(***************************************************************************)

Terms(q) == WordsOf[q] \ (Short \union Stop)

looksLikeFTSSyntax(q) == q \in Exact

AllOf(T) == {b \in Bodies : T \subseteq b}
SomeOf(T) == {b \in Bodies : T \intersect b # {}}

\* What the tiers ask for: the query as it is, all its terms, or some of them.
Tiers == {"query", "all", "some"}
Texts(q, tier) == CASE tier = "query" -> Match[q]
                    [] tier = "all" -> AllOf(Terms(q))
                    [] tier = "some" -> SomeOf(Terms(q))

\* Why a message is to be found for q, in a table b: a tier, and a row it asks for.
Why(q, b) == {w \in Tiers \X Msgs : b[w[2]] \in Texts(q, w[1])}

Rows == {m \in Msgs : body[m] # None}

\* Mutant: the update trigger only inserts.
IndexInsertOnly(m, b) == fts' = fts \union {<<m, b>>}

\* messages_fts_ai, or messages_fts_au.
Index(m, b) ==
  fts' = (IF body[m] = None THEN fts ELSE {e \in fts : e[1] # m}) \union {<<m, b>>}

UpsertMessage(p, m, b) ==
  /\ at[p] \in Opened /\ writer = None /\ writes < MaxWrites
  /\ writes' = writes + 1
  /\ body' = [body EXCEPT ![m] = b]
  /\ Index(m, b)
  /\ lasting' = [r \in Processes |-> {w \in lasting[r] : w \in Why(query[r], body')}]
  /\ UNCHANGED <<schema, writer, at, current, query, refused, hits, opens>>

-----------------------------------------------------------------------------
(***************************************************************************)
(* SearchMessagesRich                                                      *)
(***************************************************************************)

\* ORDER BY timestamp_ms DESC LIMIT n: the n newest of S, those of one time in any order.
Newest(S, n) ==
  {X \in SUBSET S : /\ Cardinality(X) = IF Cardinality(S) > n THEN n ELSE Cardinality(S)
                    /\ \A x \in X, y \in S \ X : Time[y] <= Time[x]}

\* What searchOnce may return for rows whose indexed text is in texts.
Matching(texts) ==
  LET S == {m \in Rows : \E e \in fts : e[1] = m /\ e[2] \in texts}
  IN  {{<<m, body[m]>> : m \in X} : X \in Newest(S, Limit)}

StartSearch(p, q) ==
  /\ at[p] = "open" /\ p \in Readers
  /\ query' = [query EXCEPT ![p] = q]
  /\ lasting' = [lasting EXCEPT ![p] = Why(q, body)]
  /\ Goes(p, "verbatim")
  /\ UNCHANGED <<schema, writer, table, current, refused, hits, opens, writes>>

\* Is p's query one to be tried with any of its terms?
Widens(q) == ~looksLikeFTSSyntax(q) /\ Cardinality(Terms(q)) > 1

\* With what a tier has found, p is done, or takes any term.
Tier(p, tier) ==
  /\ \E found \in Matching(Texts(query[p], tier)) :
       /\ hits' = [hits EXCEPT ![p] = found]
       /\ Goes(p, IF found = {} /\ tier # "some" /\ Widens(query[p]) THEN "any" ELSE "found")
  /\ UNCHANGED <<schema, writer, table, current, query, refused, lasting, opens, writes>>

Verbatim(p) == at[p] = "verbatim" /\ query[p] \notin Broken /\ Tier(p, "query")

\* FTS5 rejects the query, or the statement fails like any other: the terms are
\* tried, quoted, where there are any.
VerbatimFails(p) ==
  /\ at[p] = "verbatim" /\ query[p] \notin Literal
  /\ refused' = [refused EXCEPT ![p] = TRUE]
  /\ Goes(p, IF Terms(query[p]) = {} THEN "found" ELSE "quoted")
  /\ UNCHANGED <<schema, writer, table, current, query, hits, lasting, opens, writes>>

Quoted(p) == at[p] = "quoted" /\ Tier(p, "all")
AnyTerm(p) == at[p] = "any" /\ Tier(p, "some")

\* A statement fails that there is nothing to try after: the error is returned.
SearchFails(p) ==
  /\ at[p] \in {"quoted", "any"} \/ (at[p] = "verbatim" /\ query[p] \in Literal)
  /\ Goes(p, "open")
  /\ Forget(p)
  /\ UNCHANGED <<schema, writer, table, current, opens, writes>>

Return(p) ==
  /\ at[p] = "found"
  /\ Goes(p, "open")
  /\ Forget(p)
  /\ UNCHANGED <<schema, writer, table, current, opens, writes>>

-----------------------------------------------------------------------------
Init ==
  /\ schema = <<>> /\ writer = None
  /\ body = [m \in Msgs |-> None] /\ fts = {}
  /\ at = [p \in Processes |-> "closed"] /\ current = [p \in Processes |-> 0]
  /\ query = [p \in Processes |-> None] /\ refused = [p \in Processes |-> FALSE]
  /\ hits = [p \in Processes |-> {}] /\ lasting = [p \in Processes |-> {}]
  /\ opens = 0 /\ writes = 0

Next == \E p \in Processes :
  \/ Open(p) \/ CurrentVersion(p) \/ Apply(p) \/ Busy(p) \/ Commit(p) \/ Migrated(p) \/ Close(p)
  \/ \E m \in Msgs, b \in Bodies : UpsertMessage(p, m, b)
  \/ \E q \in Queries : StartSearch(p, q)
  \/ Verbatim(p) \/ VerbatimFails(p) \/ Quoted(p) \/ AnyTerm(p) \/ SearchFails(p) \/ Return(p)

Spec == Init /\ [][Next]_vars

-----------------------------------------------------------------------------
(***************************************************************************)
(* Properties                                                              *)
(***************************************************************************)

\* Every variable has its type; who holds the write lock is in a migration.
TypeOK ==
  /\ schema \in Seq(Nat) /\ writer \in Processes \union {None}
  /\ body \in [Msgs -> Bodies \union {None}] /\ fts \subseteq Msgs \X Bodies
  /\ at \in [Processes -> Steps] /\ current \in [Processes -> Nat]
  /\ query \in [Processes -> Queries \union {None}]
  /\ refused \in [Processes -> BOOLEAN]
  /\ hits \in [Processes -> SUBSET (Msgs \X Bodies)]
  /\ lasting \in [Processes -> SUBSET (Tiers \X Msgs)]
  /\ opens \in 0..MaxOpens /\ writes \in 0..MaxWrites
  /\ \A p \in Processes : at[p] = "commit" <=> writer = p

\* Migrations are applied once and in order, whoever else opens the file or dies
\* in the middle of one, and nobody works on a schema that is not complete.
SchemaIsWhole ==
  /\ schema = [v \in 1..Len(schema) |-> v]
  /\ \A p \in Processes : at[p] \in Opened => Len(schema) = schemaVersion

\* A search tells the truth while others write.  Its hits are what FTS5 matches for the
\* query, or all its terms if that has failed, or else (never for one in FTS5 syntax:
\* "such queries are treated as exact") some of its terms; no message that was to be
\* found all along is passed over for an older one; and nobody is left with nothing
\* while some term of theirs was there all along.
SearchIsRight ==
  \A p \in Processes : at[p] = "found" =>
    LET q == query[p]
        asked == IF refused[p] THEN "all" ELSE "query"
        Fit(tier) == \A h \in hits[p] : h[2] \in Texts(q, tier)
    IN  /\ Fit(asked) \/ (Widens(q) /\ Fit("some"))
        /\ (refused[p] /\ Terms(q) = {}) \/ \A m \in Msgs : <<asked, m>> \in lasting[p] =>
             \/ \E h \in hits[p] : h[1] = m
             \/ Cardinality(hits[p]) = Limit /\ \A h \in hits[p] : Time[h[1]] >= Time[m]
        /\ Widens(q) /\ hits[p] = {} => \A m \in Msgs : <<"some", m>> \notin lasting[p]
=============================================================================
