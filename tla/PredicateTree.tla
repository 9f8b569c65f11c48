------------------------------ MODULE PredicateTree ------------------------------
(***************************************************************************)
(* How the predicates of a query are handed out to a plan: PredicateTree   *)
(* (qal/_qal.py) gives a scan the filters of its table and a join the join *)
(* predicates between its two sides.  Plans of a join tree                 *)
(* (opt/_helpers.py) and of the enumerators (opt/_dynprog.py) are built    *)
(* from the leaves to the root in this way.                                *)
(*                                                                         *)
(* A predicate is known here by the tables it refers to, by whether it is  *)
(* a join, and by the pairs of tables its join partners belong to; it may  *)
(* also refuse to name partners.  Module Predicates says how these come    *)
(* about.                                                                  *)
(***************************************************************************)
EXTENDS Naturals, FiniteSets

CONSTANTS
  Tables,
  Queries   \* the queries: their WHERE condition and the predicates it is a conjunction of

Pairs == {{t, u} : t, u \in Tables} \ {{t} : t \in Tables}

WellFormed(q) ==
  \A c \in q.predicates :
    /\ c.tables \subseteq Tables /\ c.partners \subseteq Pairs
    /\ UNION c.partners \subseteq c.tables
    /\ {c.join, c.raises} \subseteq BOOLEAN

ASSUME QueriesAssumption == \A q \in Queries : WellFormed(q)

VARIABLES
  query,
  order,          \* the order in which the tables of the query are visited (a set: any order)
  intermediates,  \* the parts of the plan so far: their tables, the predicates applied in
                  \* them, and whether a cross product was among their joins
  raised          \* asking for join predicates has failed

vars == << query, order, intermediates, raised >>

Orders == {o \in [Tables -> 1 .. Cardinality(Tables)] : \A t, u \in Tables : o[t] = o[u] => t = u}

Init ==
  /\ query \in Queries
  /\ order \in Orders
  /\ intermediates = {}
  /\ raised = FALSE

-------------------------------------------------------------------------------
(* PredicateTree. *)

Filters == {c \in query.predicates : ~c.join}
Joins == {c \in query.predicates : c.join}

FiltersFor(t) == {c \in Filters : t \in c.tables}

\* join_partners_of: the tables of the partner columns.
PartnersOf(c, t) == UNION {pair \ {t} : pair \in {p \in c.partners : t \in p}}

\* Variant: a dictionary entry per set of partners that is overwritten.
JoinGroupLast(t, partners) ==
  LET group == {c \in Joins : t \in c.tables /\ PartnersOf(c, t) = partners}
  IN IF group = {} THEN {} ELSE {CHOOSE c \in group : TRUE}

\* joins_for: the join predicates of a table, grouped by their partners.
JoinGroup(t, partners) == {c \in Joins : t \in c.tables /\ PartnersOf(c, t) = partners}

\* The entry of _join_predicate_map for two tables: the table that is visited first
\* decides, unless it has no predicate with the other as its only partner.
JoinPredicate(t, u) ==
  LET first == IF order[t] < order[u] THEN t ELSE u
      second == IF order[t] < order[u] THEN u ELSE t
  IN IF JoinGroup(first, {second}) # {} THEN JoinGroup(first, {second})
                                        ELSE JoinGroup(second, {first})

\* joins_between, for sets without a table in common.
JoinsBetween(ts, us) == UNION {JoinPredicate(t, u) : t \in ts, u \in us}

Neighbours(t) == UNION {PartnersOf(c, t) : c \in {d \in Joins : t \in d.tables}}

Accessed == UNION {c.tables : c \in query.predicates}

\* joins_tables: the join graph of these tables is connected.
JoinsTables(ts) ==
  \/ \E t \in ts : ts = {t} /\ t \in Accessed
  \/ /\ \A t \in ts : ts # {t}
     /\ \A part \in (SUBSET ts) \ {{}, ts} :
          \E t \in part, u \in ts \ part : u \in Neighbours(t) \/ t \in Neighbours(u)

-------------------------------------------------------------------------------
(* Building a plan. *)

Covered == UNION {i.tables : i \in intermediates}

Scan(t) ==
  /\ ~raised /\ t \notin Covered
  /\ intermediates' = intermediates \union
                        {[tables |-> {t}, applied |-> FiltersFor(t), cross |-> FALSE]}
  /\ UNCHANGED << query, order, raised >>

Raising == \E c \in Joins : c.raises

Join(l, r) ==
  /\ ~raised /\ ~Raising /\ l # r
  /\ LET condition == JoinsBetween(l.tables, r.tables)
         joined == [tables |-> l.tables \union r.tables,
                    applied |-> l.applied \union r.applied \union condition,
                    cross |-> l.cross \/ r.cross \/ condition = {}]
     IN intermediates' = (intermediates \ {l, r}) \union {joined}
  /\ UNCHANGED << query, order, raised >>

\* The map of all join predicates is filled at the first call and any of them can fail it.
JoinRaises(l, r) ==
  /\ ~raised /\ Raising /\ l # r
  /\ raised' = TRUE
  /\ UNCHANGED << query, order, intermediates >>

Next ==
  \/ \E t \in Tables : Scan(t)
  \/ \E l, r \in intermediates : Join(l, r) \/ JoinRaises(l, r)

Spec == Init /\ [][Next]_vars
-------------------------------------------------------------------------------
(* Properties. *)

\* A filter of one table, or a join of two.
Simple(c) ==
  IF c.join THEN \E t, u \in Tables : t # u /\ c.tables = {t, u} /\ c.partners = {{t, u}}
            ELSE \E t \in Tables : c.tables = {t}

TypeOK ==
  /\ WellFormed(query) /\ order \in Orders /\ raised \in BOOLEAN
  /\ \A i \in intermediates : /\ DOMAIN i = {"tables", "applied", "cross"}
                              /\ i.tables \in (SUBSET Tables) \ {{}}
                              /\ i.applied \subseteq query.predicates /\ i.cross \in BOOLEAN
  /\ \A i, j \in intermediates : i # j => i.tables \intersect j.tables = {}

\* Whatever the join tree, cross products included, and whatever complicated predicates
\* the query has besides: each filter of one table and each join of two tables is applied
\* in exactly those parts of the plan that hold its tables.
SimplePredicatesAreApplied ==
  \A i \in intermediates : \A c \in query.predicates :
    Simple(c) => (c \in i.applied <=> c.tables \subseteq i.tables)

\* A join does not repeat a predicate of its inputs (its selectivity would count twice).
NothingIsAppliedTwice ==
  \A l, r \in intermediates : l # r =>
    \A c \in JoinsBetween(l.tables, r.tables) : Simple(c) => c \notin l.applied \union r.applied

\* The test for cross products of PostgresDynProg (joins_between) and that of the textbook
\* enumerator (joins_tables) agree: a pair the former joins is an intermediate for the
\* latter, and conversely if all predicates are simple.
SearchesAgree ==
  \A l, r \in intermediates : (l # r /\ ~l.cross /\ ~r.cross) =>
    LET joinable == JoinsBetween(l.tables, r.tables) # {}
        connected == JoinsTables(l.tables \union r.tables)
    IN /\ joinable => connected
       /\ connected /\ (\A c \in query.predicates : Simple(c)) => joinable
===============================================================================
