------------------------------ MODULE MCMetadata ------------------------------
(* What a candidate's metadata is taken from, and when a yanked candidate's   *)
(* may be, side by side for TLC: a behaviour takes one of the two through its *)
(* steps and leaves the variables of the other alone.                         *)
EXTENDS MetadataLadder, YankedResolution, TLC

VARIABLE part   \* which one

climbing == <<release, targets, read, resolved, at, want, unreadable, queued, known,
              answer, asks>>
both == <<part, climbing, yanking>>

-----------------------------------------------------------------------------
(* A release: a wheel with a sidecar, a bare one and a local one, a ZIP and a *)
(* tar, which serve, lack or fail to serve their metadata; the bare wheel may *)
(* also come as a body that is not what was published.                        *)

Listed(kind, serves, deps, foreign, says, python, project, built) ==
  [kind |-> kind, serves |-> serves, deps |-> deps, foreign |-> foreign,
   says |-> says, python |-> python, project |-> project, built |-> built]
Wheel(kind, serves, deps, foreign, python) ==
  Listed(kind, serves, deps, foreign, "static", python, "none", 0)
Serves == {"text", "absent", "failed"}
BareServes == Serves \cup {"corrupt"}
Both == {"a", "b"}
WheelsThat(sidecar, foreign, python, bare, deps, local) ==
  <<Wheel("sidecar", sidecar, 1, foreign, python), Wheel("bare", bare, deps, FALSE, Both),
    Wheel("local", local, 3, FALSE, Both)>>
SdistsThat(tar, foreign, says, python, project, built) ==
  <<Listed("zip", "text", 4, FALSE, "static", Both, "none", 0),
    Listed("tar", tar, 5, foreign, says, python, project, built)>>

MCReleases ==
  {WheelsThat("text", f, py, "text", d, "absent")
     \o SdistsThat("text", FALSE, "old", Both, "none", 6) :
     f \in BOOLEAN, py \in {{"b"}, Both}, d \in {1, 2}}
  \cup
  {WheelsThat(s, FALSE, Both, t, 2, u) \o SdistsThat("text", FALSE, "old", Both, "static", 0) :
     s \in Serves, t \in Serves, u \in Serves}
  \cup
  {WheelsThat("absent", FALSE, Both, "absent", 2, u) \o SdistsThat(t, f, "old", {"a"}, pr, b) :
     u \in {"absent", "failed"}, t \in Serves, f \in BOOLEAN,
     pr \in {"none", "static", "bad"}, b \in {0, 6}}
  \cup
  {WheelsThat("absent", FALSE, Both, t, 2, "text")
     \o SdistsThat("text", FALSE, st, {"a"}, "none", 6) : t \in BareServes,
     st \in {"static", "old", "dynamic"}}

\* What two targets admit, how they rank it and what they allow.
Admits(listing, rank, trust, assume, build, complete) ==
  [listing |-> listing, rank |-> rank, trust |-> trust, assume |-> assume,
   build |-> build, complete |-> complete]
Same == [f \in 1..5 |-> 1]
Up == [f \in 1..5 |-> f]
Down == [f \in 1..5 |-> 6 - f]
MCMatrices ==
  {[t \in Both |-> IF t = "a" THEN Admits({1, 2, 4, 5}, Same, FALSE, FALSE, TRUE, FALSE)
                   ELSE other] :
     other \in {Admits({3, 5}, Up, FALSE, TRUE, TRUE, FALSE),
                Admits({2, 3, 5}, Up, TRUE, FALSE, FALSE, FALSE),
                Admits({3, 4, 5}, Same, FALSE, FALSE, FALSE, FALSE),
                Admits({4, 5}, Same, FALSE, TRUE, FALSE, FALSE),
                Admits({1, 3}, Down, FALSE, FALSE, FALSE, FALSE),
                Admits({1}, Same, FALSE, FALSE, FALSE, TRUE)}}

-----------------------------------------------------------------------------
(* Candidates of three packages, yanked ones among them, and what they ask.  *)

Candidate(package, version, withdrawn) ==
  [of |-> package, at |-> version, withdrawn |-> withdrawn]
Pin(package, version) == [of |-> package, at |-> version]
App1 == Candidate("app", 1, FALSE)
App2 == Candidate("app", 2, FALSE)
Lib1 == Candidate("lib", 1, FALSE)
Lib1y == Candidate("lib", 1, TRUE)
Lib2y == Candidate("lib", 2, TRUE)
Tool1 == Candidate("tool", 1, FALSE)
Tool2 == Candidate("tool", 2, FALSE)
Tool2y == Candidate("tool", 2, TRUE)
MCCandidates == {App1, App2, Lib1, Lib1y, Lib2y, Tool1, Tool2, Tool2y}
World(choices, roots, pinned, deps, pins, meta) ==
  [choices |-> choices, roots |-> roots, pinned |-> pinned,
   deps |-> deps @@ [c \in MCCandidates |-> << >>],
   pins |-> pins @@ [c \in MCCandidates |-> {}],
   meta |-> meta @@ [c \in MCCandidates |-> "read"]]
Either == {1, 2}
On(package, versions) == package :> versions

\* The live lib needs the older tool, and one of the two may fail.
LiveWorlds ==
  {World({Lib1, Lib1y, Tool1, Tool2}, "lib" :> {1} @@ "tool" :> Either, {Pin("lib", 1)},
         Lib1 :> On("tool", {1}), << >>, Lib1 :> m @@ Tool1 :> n) :
     m \in {"read", "unavailable"}, n \in {"read", "rejected"}}
\* Pins of selected parents, which end in a tool that cannot be had.
ParentWorlds ==
  {World({App1, App2, Lib1, Lib2y, Tool2, Tool2y}, "app" :> Either, {},
         App2 :> On("lib", {2}) @@ App1 :> On("lib", Either) @@ Lib2y :> On("tool", {2}),
         App2 :> {Pin("lib", 2)} @@ Lib2y :> {Pin("tool", 2)},
         Tool2 :> m @@ Lib1 :> "rejected") : m \in {"rejected", "unavailable"}}
\* Two yanked candidates that pin each other, with and without a pin from outside.
PairWorlds ==
  {World({Lib2y, Tool2y, Tool2}, "lib" :> {2} @@ "tool" :> {2}, pinned,
         Lib2y :> On("tool", {2}) @@ Tool2y :> On("lib", {2}),
         Lib2y :> {Pin("tool", 2)} @@ Tool2y :> {Pin("lib", 2)}, Tool2 :> "rejected") :
     pinned \in {{}, {Pin("tool", 2)}}}
\* A live query within a live query.
NestedWorlds ==
  {World({Lib1, Lib1y, Tool2, Tool2y}, "tool" :> Either @@ "lib" :> {1},
         {Pin("lib", 1)} \cup w[1], Tool2 :> On("lib", {2}) @@ Lib1y :> On("tool", {2}),
         Lib1y :> {Pin("tool", 2)}, Lib1 :> w[2]) :
     w \in {<<{}, "unavailable">>, <<{Pin("tool", 2)}, "read">>}}
\* What one parent permitted is known when the other, which does not, is tried.
KnownWorlds ==
  {World({App1, App2, Lib2y, Tool2y}, "app" :> Either, {},
         App2 :> ("lib" :> {2} @@ "tool" :> {2}) @@ App1 :> ("lib" :> {2} @@ "tool" :> {2})
           @@ Tool2y :> ("lib" :> {2} @@ "app" :> {1}) @@ Lib2y :> On("tool", {2}),
         App2 :> {Pin("lib", 2)} @@ Lib2y :> {Pin("tool", 2)} @@ Tool2y :> {Pin("lib", 2)},
         << >>)}

MCWorlds == LiveWorlds \cup ParentWorlds \cup PairWorlds \cup NestedWorlds \cup KnownWorlds

-----------------------------------------------------------------------------
LadderOff ==
  /\ LadderInit /\ release = (CHOOSE files \in Releases : TRUE)
  /\ targets = (CHOOSE matrix \in Matrices : TRUE)
YankedOff == YankedInit /\ world = (CHOOSE one \in Worlds : TRUE)

Init ==
  \/ part = "ladder" /\ LadderInit /\ YankedOff
  \/ part = "yanked" /\ YankedInit /\ LadderOff

Climb == part = "ladder" /\ LadderNext /\ UNCHANGED <<part, yanking>>
Resolve == part = "yanked" /\ YankedNext /\ UNCHANGED <<part, climbing>>

Next == Climb \/ Resolve

Fairness ==
  /\ \A t \in Target : WF_both(part = "ladder" /\ Turn(t) /\ UNCHANGED <<part, yanking>>)
  /\ WF_both(/\ part = "ladder" /\ (\E f \in 1..5 : Land(f))
             /\ UNCHANGED <<part, yanking>>)
  /\ WF_both(part = "yanked" /\ Search /\ UNCHANGED <<part, climbing>>)

Spec == Init /\ [][Next]_both /\ Fairness

-----------------------------------------------------------------------------
\* Every query of a release's metadata is answered (MetadataLadder), and the search
\* for a selection ends (YankedResolution).
QueriesEnd ==
  /\ \A t \in Target : (part = "ladder" /\ Asking(t)) ~> (part = "ladder" /\ ~Asking(t))
  /\ part = "yanked" ~> (part = "yanked" /\ ~Searching)
=============================================================================
