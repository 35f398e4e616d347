---------------------------- MODULE Resolution ----------------------------
(***************************************************************************)
(* What a resolution promises its caller (Resolver.solve): a selection     *)
(* that is a solution and keeps nothing unneeded, or a failure when there  *)
(* is no solution, or the report that the round limit was reached.         *)
(***************************************************************************)
EXTENDS Problem

VARIABLES problem, outcome, pins

vars == <<problem, outcome, pins>>

NoPins == [p \in Package |-> Absent]

Init == problem \in Problems /\ outcome = "searching" /\ pins = NoPins

\* Solution: the decided versions, cut down to what the roots reach.
ReturnSolution ==
  /\ outcome = "searching" /\ outcome' = "solved"
  /\ pins' \in {sel \in Solutions(problem) :
                  {p \in Package : sel[p] # Absent} = Reachable(problem, sel)}
  /\ UNCHANGED problem

\* ResolutionError.
RaiseUnsatisfiable ==
  /\ outcome = "searching" /\ outcome' = "failed"
  /\ Solutions(problem) = {}
  /\ UNCHANGED <<problem, pins>>

\* ResolutionLimitError.
RaiseTooDeep ==
  outcome = "searching" /\ outcome' = "limit" /\ UNCHANGED <<problem, pins>>

Next == ReturnSolution \/ RaiseUnsatisfiable \/ RaiseTooDeep

Spec == Init /\ [][Next]_vars
============================================================================
