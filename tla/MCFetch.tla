------------------------------- MODULE MCFetch -------------------------------
(* Coordinator for TLC: a behaviour is one of four workloads of its callers.  *)
EXTENDS Coordinator

CONSTANTS c1, c2, p, q   \* threads and packages

VARIABLE part            \* the workload

Of(kinds, packages) == [kind : kinds, package : packages]

\* What is asked for, by whom, over how many runs, and whether the worker starts on
\* demand.  "one": two callers share all that leads to a listing.  "batch": three
\* requests of one caller, two of them batched.  "listed" and "built": the coordinator is
\* entered a second time over the same index.
Workload(asked, callers, runs, deferred) ==
  [asked |-> asked, callers |-> callers, runs |-> runs, deferred |-> deferred]
Workloads ==
  [one |-> Workload(Of({"listing", "metadata", "range"}, {p}), {c1, c2}, 1, TRUE),
   batch |-> Workload(Of({"metadata"}, {p, q}) \cup Of({"archive"}, {p}), {c1}, 1, TRUE),
   listed |-> Workload(Of({"listing", "metadata"}, {p}), {c1, c2}, 2, FALSE),
   built |-> Workload(Of({"metadata", "sdist"}, {p}), {c1, c2}, 2, FALSE)]
Asked == Workloads[part].asked

PartInit ==
  /\ part \in DOMAIN Workloads
  /\ Init /\ warm \subseteq Asked

\* A step of the coordinator that stays within the workload.
Left == {w \in Unused : w <= Workloads[part].runs}
Within ==
  /\ owner = "out" => Left # {}
  /\ \A k \in Key \ Asked : pending'[k] = "none"
  /\ \A x \in Caller \ Workloads[part].callers : pc'[x] = "idle"
  /\ \A w \in Worker : w > Workloads[part].runs => state'[w] = "none"
  /\ idle' => Workloads[part].deferred
  /\ owner' = "entering" => ~Workloads[part].deferred

PartNext ==
  \/ Next /\ Within /\ UNCHANGED part
  \/ owner = "out" /\ Left = {} /\ UNCHANGED <<vars, part>>

\* FairSpec, for the workloads with one run: what a caller waits for may be lost in
\* a second one (the configuration restart).
Lasting == Workloads[part].runs = 1
Fairness ==
  /\ \A x \in Caller : WF_vars(Lasting /\ Proceed(x) /\ Within /\ UNCHANGED part)
  /\ WF_vars(Lasting /\ LoopStep(1) /\ Within /\ UNCHANGED part)

PartSpec == PartInit /\ [][PartNext]_<<vars, part>> /\ Fairness

-----------------------------------------------------------------------------
\* A caller that waits is woken, within one run: on every terminal path of a fetch,
\* on a refusal, and on a crash.
WaitersWake ==
  \A x \in Caller : (Lasting /\ pc[x] = "waiting") ~> (Lasting /\ pc[x] # "waiting")
=============================================================================
