------------------------------- MODULE PreChecks -------------------------------
(***************************************************************************)
(* The pre-checks of validation.py.  An atomic check has a name, the hints *)
(* it demands of the database and the queries it rejects; a check is       *)
(* empty, one atomic check, or a compound of atomic checks.                *)
(***************************************************************************)
EXTENDS Integers, SequencesExt, FiniteSetsExt

EmptyPreCheck == [compound |-> FALSE, atoms |-> {}]
AtomicCheck(atom) == [compound |-> FALSE, atoms |-> {atom}]
CompoundCheck(atoms) == [compound |-> TRUE, atoms |-> atoms]

SupportsQuery(check, query) == \A atom \in check.atoms : query \notin atom.rejects

\* CompoundCheck inherits check_supported_database_system, which lets everything pass.
SupportsSystem(check, hints) ==
  check.compound \/ \A atom \in check.atoms : atom.hints \subseteq hints

Names(check) == {atom.name : atom \in check.atoms}

\* Checks are equal if their names are: a second check of the same name is dropped.
MergeWith(check, other) ==
  LET same == check.compound = other.compound /\ Names(check) = Names(other)
      atoms == check.atoms \union IF same THEN {} ELSE other.atoms
  IN IF atoms = {} THEN check ELSE CompoundCheck(atoms)

\* The atomic checks of one name that may be in a merge: the first one that is not in a
\* compound; otherwise the one of any compound, as sets of checks are iterated by hash.
Survivors(checks, name) ==
  LET holders == {i \in DOMAIN checks : \E atom \in checks[i].atoms : atom.name = name}
      atomic == {i \in holders : ~checks[i].compound}
      from == IF atomic # {} THEN {Min(atomic)} ELSE holders
  IN {atom \in UNION {checks[i].atoms : i \in from} : atom.name = name}

\* The possible results of merge_checks for a sequence of checks.
MergeChecks(checks) ==
  LET all == UNION {checks[i].atoms : i \in DOMAIN checks}
      names == {atom.name : atom \in all}
      choices == {f \in [names -> all] : \A n \in names : f[n] \in Survivors(checks, n)}
  IN {[compound |-> Cardinality(names) > 1, atoms |-> Range(f)] : f \in choices}
===============================================================================
