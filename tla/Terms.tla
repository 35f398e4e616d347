------------------------------- MODULE Terms -------------------------------
(***************************************************************************)
(* Terms, incompatibilities and the resolution rule of nab_resolver        *)
(* (types.py, report.py, the classification half of propagate.py).         *)
(*                                                                         *)
(* A range is the set of the versions it contains.  A term is kept inside  *)
(* its incompatibility as the value of a function on packages, because an  *)
(* incompatibility holds at most one term per package.  The order of the   *)
(* Python term list is kept only where the code reads it for good: a       *)
(* DEPENDENCY clause names its first package in the field "parent".        *)
(***************************************************************************)
EXTENDS Integers

CONSTANTS
  Package,      \* the packages a requirement can name
  Version,      \* the points of the version space, released or not
  ROOT,         \* the sentinel package that stands for the project itself
  RootVersion,  \* the version ROOT is decided at
  NoRange,      \* "no range recorded": Python's None
  Absent        \* "package not selected" in a candidate solution

ASSUME RootAssumption == ROOT \notin Package
ASSUME RootVersionAssumption == RootVersion \in Version
ASSUME NoRangeAssumption == \A range \in SUBSET Version : range # NoRange
ASSUME AbsentAssumption == Absent \notin Version

Node == Package \cup {ROOT}
Ranges == SUBSET Version
Causes == {"ROOT", "DEPENDENCY", "NO_VERSIONS", "CONSTRAINT", "DERIVED"}

Term == [positive : BOOLEAN, constraint : Ranges]

\* Every partial function from nodes to terms.
TermMap == UNION {[D -> Term] : D \in SUBSET Node}

Clause == [terms : TermMap, cause : Causes, parent : Node]

In(range) == [positive |-> TRUE, constraint |-> range]
NotIn(range) == [positive |-> FALSE, constraint |-> range]

Negate(t) == [t EXCEPT !.positive = ~t.positive]

----------------------------------------------------------------------------
(* Term.intersect and union_terms: the conjunction and the disjunction of  *)
(* two statements about the same package.                                  *)

Conjoin(s, t) ==
  IF s.positive
  THEN In(IF t.positive THEN s.constraint \cap t.constraint
                        ELSE s.constraint \ t.constraint)
  ELSE IF t.positive THEN In(t.constraint \ s.constraint)
                     ELSE NotIn(s.constraint \cup t.constraint)

Disjoin(s, t) ==
  IF s.positive
  THEN IF t.positive THEN In(s.constraint \cup t.constraint)
                     ELSE NotIn(t.constraint \ s.constraint)
  ELSE NotIn(IF t.positive THEN s.constraint \ t.constraint
                           ELSE s.constraint \cap t.constraint)

\* Mutant: the shared package always drops out, as a variable does in SAT.
DropsOut(t) == TRUE

\* union_terms answers None: the disjunction holds whatever is selected.  A
\* positive term over every version still asks for the package to be there.
Tautology(t) == ~t.positive /\ t.constraint = {}

\* The terms of the resolvent of two incompatibilities on a shared package.
SharedTerms(left, right, shared) ==
  (DOMAIN left \cup DOMAIN right)
    \ (IF /\ shared \in DOMAIN left \cap DOMAIN right
          /\ Tautology(Disjoin(left[shared], right[shared]))
       THEN {shared} ELSE {})

\* Mutant: the shared package is conjoined like any other.
PriorCauseUniform(left, right, shared) ==
  [p \in SharedTerms(left, right, shared) |->
     IF p \notin DOMAIN right THEN left[p]
     ELSE IF p \notin DOMAIN left THEN right[p]
     ELSE Conjoin(left[p], right[p])]

PriorCause(left, right, shared) ==
  [p \in SharedTerms(left, right, shared) |->
     IF p \notin DOMAIN right THEN left[p]
     ELSE IF p \notin DOMAIN left THEN right[p]
     ELSE IF p = shared THEN Disjoin(left[p], right[p])
     ELSE Conjoin(left[p], right[p])]

Derived(terms) == [terms |-> terms, cause |-> "DERIVED", parent |-> ROOT]

----------------------------------------------------------------------------
(* Term.satisfies and its dual.  An empty range satisfies every term, and  *)
(* classify_relation asks for "satisfied" first.                           *)

Satisfies(range, t) ==
  IF t.positive THEN range \subseteq t.constraint
                ELSE range \cap t.constraint = {}

Contradicts(range, t) == Satisfies(range, Negate(t))

----------------------------------------------------------------------------
(* The meaning of a term and of an incompatibility: what a candidate       *)
(* selection of packages, sel \in [Package -> Version \cup {Absent}], says *)
(* about them.                                                             *)

Selected(sel, p) == IF p = ROOT THEN RootVersion ELSE sel[p]

TermHolds(sel, p, t) ==
  IF t.positive THEN Selected(sel, p) \in t.constraint
                ELSE Selected(sel, p) \notin t.constraint

AllHold(sel, terms) == \A p \in DOMAIN terms : TermHolds(sel, p, terms[p])
============================================================================
