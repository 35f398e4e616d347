------------------------------ MODULE Problems ------------------------------
(* The problems TLC resolves: three packages, each released at the first and *)
(* at the last point of the version space; points between, where a run has   *)
(* any, are unreleased.                                                      *)
EXTENDS Problem

CONSTANTS app, lib, util

Old == {Min(Version)}
New == {Max(Version)}
Released == Old \cup New

NoDeps == [d \in {} |-> Version]
Dep(d, range) == [x \in {d} |-> range]
Deps(d, r, e, s) == [x \in {d, e} |-> IF x = d THEN r ELSE s]
Total(f) == [d \in {app, lib, util} |-> IF d \in DOMAIN f THEN f[d] ELSE NoRange]
Pair(old, new) ==
  [v \in Version |-> Total(IF v \in Old THEN old
                           ELSE IF v \in New THEN new ELSE NoDeps)]

MakeProblem(a1, a2, b1, b2, c1, c2, root, released, allowed) ==
  [avail |-> released, root |-> root, constraints |-> allowed,
   deps |-> [p \in {app, lib, util} |-> CASE p = app -> Pair(a1, a2)
                                   [] p = lib -> Pair(b1, b2)
                                   [] p = util -> Pair(c1, c2)]]

Everything == [p \in {app, lib, util} |-> Released]
Except(p, range) == [Everything EXCEPT ![p] = range]
Need(p, range) == [package |-> p, constraint |-> range]
NeedA == <<Need(app, Version)>>
NeedAB == <<Need(app, Version), Need(lib, Version)>>

\* Every released version may be used: conflicts come from the requirements.
OpenProblems ==
  {MakeProblem(NoDeps, Deps(lib, New, util, New), lib1, Dep(util, Old), util1,
               NoDeps, NeedAB, Everything, Everything) :
     lib1 \in {Dep(util, Version), Dep(util, New)},
     util1 \in {NoDeps, Dep(app, Old)}}
  \cup
  {MakeProblem(Dep(lib, Old), Dep(lib, Old), Dep(util, New), Dep(util, Old),
               Dep(app, New), Dep(app, New), NeedAB, Everything, Everything)}

\* Three released versions of util, so that a range can shrink in two steps.
Mid == Version \ Released
ThreeProblems ==
  {[avail |-> [p \in {app, lib, util} |-> IF p = util THEN Version ELSE Released],
    root |-> NeedAB, constraints |-> [p \in {app, lib, util} |-> Version],
    deps |-> [p \in {app, lib, util} |->
       CASE p = app -> Pair(NoDeps, Dep(util, Old \cup Mid))
         [] p = lib -> Pair(b1, Dep(util, Mid \cup New))
         [] p = util -> [v \in Version |-> Total(IF v \in Mid THEN mid ELSE NoDeps)]]] :
     b1 \in {NoDeps, Dep(util, New)}, mid \in {Dep(app, Old), Dep(lib, Old)}}

\* Unreleased points, user constraints, requirements a version has on itself,
\* and root requirements that overlap or exclude one another.
NarrowProblems ==
  {MakeProblem(NoDeps, a2, b1, NoDeps, NoDeps, NoDeps, root, supply[1], supply[2]) :
     a2 \in {Dep(util, Old), Dep(app, Old)},
     b1 \in {Dep(lib, New), Deps(app, New, util, New)},
     root \in {NeedAB, <<Need(app, New), Need(lib, Version), Need(lib, Old)>>},
     supply \in {<<Everything, Everything>>, <<Except(util, New), Everything>>,
                 <<Except(lib, Old), Everything>>, <<Except(app, {}), Everything>>,
                 <<Everything, Except(lib, Old)>>}}

\* Requirements no version meets, of a version and of the project.
EmptyProblems ==
  {MakeProblem(Dep(util, Old), Deps(lib, New, util, New),
               Dep(util, {}), Deps(app, {}, util, Old),
               c1, NoDeps, <<Need(app, Version), Need(lib, r)>>, Everything,
               Everything) :
     c1 \in {NoDeps, Dep(util, {})}, r \in {New, {}}}

CoreProblems ==
  OpenProblems \cup ThreeProblems \cup NarrowProblems \cup EmptyProblems

\* No solution, and many ways to find that out: conflicts follow on conflicts
\* through backjumps and a restart.
HardProblem ==
  MakeProblem(Dep(lib, Old), Deps(lib, New, util, New), Dep(util, New), Dep(util, Old),
              Dep(app, New), Dep(app, New), NeedAB, Everything, Everything)

SearchProblems == CoreProblems \cup {HardProblem}

\* Few problems, for the runs whose provider may answer in many ways: what the newer
\* app asks for conflicts with what lib or util asks for in turn, or with app itself.
ScanProblem(a2, c1, root) ==
  MakeProblem(NoDeps, a2, Dep(util, New), Dep(util, Old), c1, NoDeps, root,
              Everything, Everything)
NeedNewA == <<Need(lib, Version), Need(app, New)>>

ScanProblems ==
  {ScanProblem(Deps(lib, Old, app, Old), NoDeps, NeedNewA),
   ScanProblem(Deps(lib, New, util, New), Dep(app, Old), NeedA),
   ScanProblem(Deps(lib, New, util, New), NoDeps, <<Need(app, New)>>),
   ScanProblem(Dep(util, New), Dep(app, Old), NeedAB),
   ScanProblem(Dep(lib, New), Dep(app, Old), NeedA),
   ScanProblem(Dep(lib, New), NoDeps, NeedNewA),
   ScanProblem(Dep(lib, New), Dep(app, New), NeedAB)}
=============================================================================
