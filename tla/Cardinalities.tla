------------------------------- MODULE Cardinalities -------------------------------
(***************************************************************************)
(* Numbers of rows as _core.py computes with them: natural numbers, the    *)
(* unknown cardinality (NaN) and the infinite one.  Arithmetic goes        *)
(* through floating point, so that NaN absorbs and zero times infinity is  *)
(* NaN; the comparisons are written out case by case in the code.          *)
(***************************************************************************)
EXTENDS Integers

CONSTANTS Unknown, Infinite

ASSUME CardinalitiesAssumption == {Unknown, Infinite} \intersect Int = {} /\ Unknown # Infinite

Card == Nat \union {Unknown, Infinite}

\* is_valid, which is also the truth value of a cardinality: zero is valid.
IsValid(c) == c \notin {Unknown, Infinite}

Plus(a, b) ==
  CASE Unknown \in {a, b} -> Unknown
    [] Infinite \in {a, b} /\ Unknown \notin {a, b} -> Infinite
    [] OTHER -> a + b

Times(a, b) ==
  CASE Unknown \in {a, b} \/ {a, b} = {0, Infinite} -> Unknown
    [] Infinite \in {a, b} /\ {a, b} \intersect {0, Unknown} = {} -> Infinite
    [] OTHER -> a * b

GreaterThan(a, b) ==
  \/ a = Infinite /\ b # Infinite
  \/ IsValid(a) /\ IsValid(b) /\ a > b

===============================================================================
