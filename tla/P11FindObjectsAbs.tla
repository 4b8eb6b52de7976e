-------------------------- MODULE P11FindObjectsAbs --------------------------
(***************************************************************************)
(* What enumObjectsNative promises Java, as one atomic step: for a filter  *)
(* template it returns every token object that has all of the filter's    *)
(* attributes, each exactly once, in any order; or it throws; or, when an  *)
(* element of the filter array is null, it returns null.                   *)
(***************************************************************************)
EXTENDS Naturals, FiniteSets, Sequences

CONSTANTS
  Objects,     \* the token's objects
  Has,         \* Has[o]: the attributes (type and value) object o carries
  Filters,     \* the filter templates Java passes, as sequences
  NullAttr     \* a null element of the Java attribute array

VARIABLE last  \* the last answer Java got: [f, res, arr]

\* An answer to filter f: res is "array" (the handles arr), "exc" or "null".
Ans(f, res, arr) == [f |-> f, res |-> res, arr |-> arr]

NoAnswer == Ans(<<>>, "none", <<>>)

\* The objects that have every attribute of the filter.
Matches(f) == {o \in Objects : \A i \in 1..Len(f) : f[i] \in Has[o]}

\* The arrays that list a set of objects, each exactly once.
Listings(m) == {s \in [1..Cardinality(m) -> m] : \A o \in m : \E i \in DOMAIN s : s[i] = o}

Answers(f) ==
  IF \E i \in 1..Len(f) : f[i] = NullAttr THEN {Ans(f, "null", <<>>)}
  ELSE {Ans(f, "exc", <<>>)} \cup {Ans(f, "array", s) : s \in Listings(Matches(f))}

Enumerate(f) == last' \in Answers(f)

Init == last = NoAnswer

Next == \E f \in Filters : Enumerate(f)

Spec == Init /\ [][Next]_last

=============================================================================
