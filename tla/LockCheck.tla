------------------------------ MODULE LockCheck ------------------------------
(***************************************************************************)
(* nab lock and nab lock --locked (_lock.py, lock_validation.py,           *)
(* lock_check.py) over time: a lock is made while its project may be       *)
(* edited, edited again, and checked later without resolving: against the  *)
(* fingerprints it carries, and requirement by requirement where only      *)
(* bounds changed.                                                         *)
(*                                                                         *)
(* A declaration is what the inputs of a project say: roots, constraints,  *)
(* local projects and a policy.  A marker is the set of the environments   *)
(* it holds in.  A release that is not local asks what Published says.     *)
(***************************************************************************)
EXTENDS Naturals, FiniteSets

CONSTANTS
  Declarations,  \* what a project's inputs may say:
                 \* [roots, constraints, policy, excluded, local], where local maps a
                 \* name to [version, dynamic, overridden, requires]
  Published,     \* Published[name][version]: the requirements of a release
  Projects,      \* every name
  Releases,      \* every version
  Environments,  \* the slices of the targets
  MaxEdits,      \* bound: edits of the inputs
  Missing        \* no version, no environment

VARIABLES
  declared,      \* what the inputs say now
  edits,         \* how often they were edited
  step,          \* where the command that runs stands
  snapshot,      \* what it noted of the inputs first
  planned,       \* what it read of them later: fork.requirements
  lock,          \* the saved lock, or the one being made: [pins, inputs, made, intact]
  artifacts,     \* whether the local files still have their hashes
  slices, slice, \* the environments left to check, and the one being checked
  versions, reached, awaiting,  \* the locals of _check_fixed_solution; reached holds at
                               \* most one set of extras per name
  verdict        \* what the last check said: "none", "accepted" or a refusal

command ==
  <<step, snapshot, planned, slices, slice, versions, reached, awaiting, verdict>>
saved == <<lock, artifacts>>
checking == <<declared, edits, command, saved>>

\* A requirement: [name, allowed, extras, active].
Local(d) == DOMAIN d.local
Asks(d, n, v, extras) ==
  IF n \in Local(d)
  THEN {r.need : r \in {r \in d.local[n].requires : r.extra \subseteq extras}}
  ELSE Published[n][v]
Wants(d) ==
  d.roots \cup (UNION {{r.need : r \in d.local[n].requires} : n \in Local(d)})
          \cup (UNION {Published[n][v] : n \in Projects, v \in Releases})
ExtrasOf(S, n) == UNION {r.extras : r \in {r \in S : r.name = n}}

\* Only members of the workspace, which are local, are left out of a lock.
ASSUME DeclarationAssumption ==
  /\ Missing \notin Releases
  /\ \A d \in Declarations :
       /\ d.excluded \subseteq Local(d) /\ Local(d) \subseteq Projects
       /\ \A n \in Local(d) : d.local[n].version \in Releases
       /\ \A r \in Wants(d) \cup d.constraints :
            r.name \in Projects /\ r.allowed \subseteq Releases

\* The versions a declaration selects with some pins and the members left out of
\* them: local ones are what they are.
Selection(d, pins, members) ==
  [n \in Projects |-> IF n \in Local(d) /\ (pins[n] # Missing \/ n \in members)
                      THEN d.local[n].version ELSE pins[n]]

\* sel meets the roots of d, what the selected releases ask in turn, and the
\* constraints, in one environment.
Meets(d, sel, e, roots) ==
  /\ \E S \in SUBSET Wants(d) :
       /\ {r \in roots : e \in r.active} \subseteq S
       /\ \A r \in S : sel[r.name] \in r.allowed
       /\ \A n \in Projects : sel[n] # Missing =>
            {r \in Asks(d, n, sel[n], ExtrasOf(S, n)) : e \in r.active} \subseteq S
  /\ \A c \in d.constraints : e \in c.active => sel[c.name] \in c.allowed \cup {Missing}

NoPins == [n \in Projects |-> Missing]
NoLock == [pins |-> [e \in Environments |-> NoPins], inputs |-> snapshot,
           made |-> FALSE, intact |-> TRUE]

LockInit ==
  /\ declared \in Declarations /\ edits = 0 /\ snapshot = declared /\ planned = declared
  /\ step = "idle" /\ lock = NoLock /\ artifacts = TRUE /\ verdict = "none"
  /\ slices = {} /\ slice = Missing /\ awaiting = {}
  /\ versions = NoPins /\ reached = [n \in Projects |-> {}]

Quiet == UNCHANGED <<slices, slice, versions, reached, awaiting>>

\* The user edits the project, at any time.  An edit undone while a lock is being made
\* is one nab does not see, and is left out.
Edit(d) ==
  /\ edits < MaxEdits /\ d # declared
  /\ step \in {"resolve", "attach"} => d # snapshot
  /\ declared' = d /\ edits' = edits + 1
  /\ UNCHANGED <<command, saved>>

\* The saved lock, or a local file it names, is changed.
Tamper ==
  /\ step = "idle" /\ lock.made /\ lock.intact /\ artifacts
  /\ \/ lock' = [lock EXCEPT !.intact = FALSE] /\ UNCHANGED artifacts
     \/ artifacts' = FALSE /\ UNCHANGED lock
  /\ UNCHANGED <<declared, edits, command>>

-----------------------------------------------------------------------------
(* nab lock *)

\* _lock_snapshot before the resolve.
BeginLock ==
  /\ step = "idle" /\ ~lock.made
  /\ step' = "resolve" /\ snapshot' = declared
  /\ UNCHANGED <<declared, edits, saved, planned, verdict>> /\ Quiet

\* What a resolve of d may give for an environment: its inputs are met, and nothing
\* is kept that is not needed.
Resolved(d, e) ==
  {sel \in [Projects -> Releases \cup {Missing}] :
     /\ Meets(d, sel, e, d.roots)
     /\ \A n \in Projects : sel[n] # Missing =>
          /\ n \in Local(d) => sel[n] = d.local[n].version
          /\ ~Meets(d, [sel EXCEPT ![n] = Missing], e, d.roots)}
Emitted(d, sel) == [n \in Projects |-> IF n \in d.excluded THEN Missing ELSE sel[n]]

\* The resolve reads the inputs itself; excluded workspace members are dropped from
\* the lock.
Resolve ==
  /\ step = "resolve"
  /\ \E pins \in [Environments -> UNION {Resolved(declared, e) : e \in Environments}] :
       /\ \A e \in Environments : pins[e] \in Resolved(declared, e)
       /\ lock' = [lock EXCEPT !.pins = [e \in Environments |-> Emitted(declared, pins[e])]]
  /\ step' = "attach"
  /\ UNCHANGED <<declared, edits, artifacts, snapshot, planned, verdict>> /\ Quiet

\* The resolve fails, and the command with it.
ResolveFails ==
  /\ step = "resolve" /\ \E e \in Environments : Resolved(declared, e) = {}
  /\ step' = "idle"
  /\ UNCHANGED <<declared, edits, saved, snapshot, planned, verdict>> /\ Quiet

\* Mutant: the inputs are not looked at again before the lock is saved.
AttachUnseen ==
  /\ step = "attach" /\ step' = "idle"
  /\ lock' = [lock EXCEPT !.inputs = snapshot, !.made = TRUE]
  /\ UNCHANGED <<declared, edits, artifacts, snapshot, planned, verdict>> /\ Quiet

\* _attach_validation_inputs: inputs that changed meanwhile end the command.
Attach ==
  /\ step = "attach" /\ step' = "idle"
  /\ lock' = IF declared = snapshot THEN [lock EXCEPT !.inputs = snapshot, !.made = TRUE]
             ELSE NoLock
  /\ UNCHANGED <<declared, edits, artifacts, snapshot, planned, verdict>> /\ Quiet

-----------------------------------------------------------------------------
(* nab lock --locked *)

Bare(r) == [name |-> r.name, extras |-> r.extras, active |-> r.active]

\* selection_inputs_digest: everything but bounds, constraints and local versions.
\* The order of declarations makes no difference.
SelectionInputs(d) ==
  [roots |-> {Bare(r) : r \in d.roots}, policy |-> d.policy, excluded |-> d.excluded,
   local |-> [n \in Local(d) |->
     [requires |-> {[need |-> Bare(r.need), extra |-> r.extra] : r \in d.local[n].requires},
      dynamic |-> d.local[n].dynamic]]]

Say(v) == step' = "idle" /\ verdict' = v

\* _check_saved takes its snapshot; check_saved_lock compares fingerprints, then
\* reads the inputs again (plan_project_inputs) to check the bounds.
BeginCheck ==
  /\ step = "idle" /\ snapshot' = declared
  /\ IF ~lock.made \/ ~lock.intact \/ ~artifacts
        \/ \E n \in Local(declared) : declared.local[n].dynamic
     THEN Say("unverifiable") /\ UNCHANGED planned
     ELSE IF lock.inputs = declared THEN Say("accepted") /\ planned' = declared
     ELSE IF SelectionInputs(lock.inputs) # SelectionInputs(declared)
             \/ \E n \in Local(declared) : declared.local[n].overridden
     THEN Say("changed") /\ UNCHANGED planned
     ELSE step' = "plan" /\ verdict' = "none" /\ UNCHANGED planned
  /\ UNCHANGED <<declared, edits, saved>> /\ Quiet

PlanInputs ==
  /\ step = "plan" /\ step' = "slice" /\ planned' = declared /\ slices' = Environments
  /\ UNCHANGED <<declared, edits, saved, snapshot, verdict, slice, versions, reached,
                 awaiting>>

\* A requirement on a local project by its name alone.
Plainly(n) == [name |-> n, allowed |-> Releases, extras |-> {}, active |-> Environments]

\* _check_fixed_solution for the next slice: the pins lock.select picks, with the
\* versions the local projects have now.
BeginSlice(e) ==
  /\ step = "slice" /\ e \in slices
  /\ slice' = e /\ slices' = slices \ {e} /\ step' = "walk"
  /\ LET d == snapshot
         there == {n \in Local(d) : lock.pins[e][n] # Missing}
     IN /\ versions' = [n \in Projects |-> IF n \in there THEN d.local[n].version
                                           ELSE lock.pins[e][n]]
        /\ awaiting' = planned.roots
                      \cup {Plainly(n) : n \in there \cup (Local(d) \cap d.excluded)}
  /\ reached' = [n \in Projects |-> {}]
  /\ UNCHANGED <<declared, edits, saved, snapshot, planned, verdict>>

\* One requirement of the walk, in any order.  A local project's own requirements
\* follow when it is first met, and again when more of its extras are.
Visit(r) ==
  /\ step = "walk" /\ r \in awaiting
  /\ LET d == snapshot
         n == r.name
         local == n \in Local(d)
         found == IF local /\ (versions[n] # Missing \/ n \in d.excluded)
                  THEN d.local[n].version ELSE versions[n]
         extras == r.extras \cup UNION reached[n]
     IN IF slice \notin r.active
        THEN awaiting' = awaiting \ {r} /\ UNCHANGED <<step, verdict, versions, reached>>
        ELSE IF found \notin r.allowed
        THEN Say("unmet") /\ UNCHANGED <<awaiting, versions, reached>>
        ELSE /\ versions' = [versions EXCEPT ![n] = found]
             /\ IF local /\ reached[n] # {extras}
                THEN /\ reached' = [reached EXCEPT ![n] = {extras}]
                     /\ awaiting' = (awaiting \ {r}) \cup
                          {q \in Asks(d, n, found, extras) : slice \in q.active}
                ELSE awaiting' = awaiting \ {r} /\ UNCHANGED reached
             /\ UNCHANGED <<step, verdict>>
  /\ UNCHANGED <<declared, edits, saved, snapshot, planned, slices, slice>>

\* _check_constraints ends a slice, and the last slice ends the check.
EndSlice ==
  /\ step = "walk" /\ awaiting = {}
  /\ IF \E c \in snapshot.constraints :
          slice \in c.active /\ versions[c.name] \notin c.allowed \cup {Missing}
     THEN Say("unmet")
     ELSE IF slices = {} THEN Say("accepted")
     ELSE step' = "slice" /\ UNCHANGED verdict
  /\ UNCHANGED <<declared, edits, saved, snapshot, planned>> /\ Quiet

LockNext ==
  \/ \E d \in Declarations : Edit(d)
  \/ Tamper \/ BeginLock \/ Resolve \/ ResolveFails \/ Attach \/ BeginCheck \/ PlanInputs
  \/ \E e \in Environments : BeginSlice(e)
  \/ \E r \in awaiting : Visit(r)
  \/ EndSlice

LockSpec == LockInit /\ [][LockNext]_checking
-----------------------------------------------------------------------------
\* The inputs a verdict is about, when they stood still while it was reached.
Steady == planned = snapshot
MeetsWith(e, members) ==
  Meets(snapshot, Selection(snapshot, lock.pins[e], members), e, snapshot.roots)

\* A lock is accepted only if its pins, with the local projects as they are and
\* those of the members left out of it that are needed, meet what the inputs say
\* now: whatever was edited since, while the lock was made or before the check, and
\* also when the fingerprints settle the matter alone.
AcceptedMeans ==
  verdict = "accepted" /\ Steady =>
    \A e \in Environments : \E members \in SUBSET snapshot.excluded : MeetsWith(e, members)

\* A lock refused for an unmet bound does not meet the inputs, with every member in
\* place, in whatever order the walk took them.
UnmetMeans ==
  verdict = "unmet" /\ Steady => \E e \in Environments : ~MeetsWith(e, snapshot.excluded)

\* The two together: what the check says is so.
VerdictHolds == AcceptedMeans /\ UnmetMeans
=============================================================================
