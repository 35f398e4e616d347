----------------------------- MODULE LockInputs -----------------------------
(* What TLC locks and checks: a local project "core", in the workspace or    *)
(* excluded from the lock, with two releases and the published plug and tool. *)
EXTENDS Integers, TLC

LockEnvironments == {1, 2}
LockProjects == {"core", "plug", "tool"}
Requiring(name, allowed, extras, active) ==
  [name |-> name, allowed |-> allowed, extras |-> extras, active |-> active]
Needs(name, allowed) == Requiring(name, allowed, {}, LockEnvironments)

\* The newer plug asks for the tool in one environment, and may ask for core too.
LockPublished(back) ==
  [n \in LockProjects |-> [v \in {1, 2} |->
     IF n = "plug" /\ v = 2 THEN {Requiring("tool", {1, 2}, {}, {1})} \cup back ELSE {}]]

\* A core that needs a range of the tool with its extra, and the plug elsewhere.
Core(version, tools, dynamic) ==
  "core" :> [version |-> version, dynamic |-> dynamic, overridden |-> FALSE,
             requires |-> {[need |-> Needs("tool", tools), extra |-> {"x"}],
                           [need |-> Requiring("plug", {1, 2}, {}, {2}), extra |-> {}]}]
Declared(roots, constraints, policy, excluded, core) ==
  [roots |-> roots, constraints |-> constraints, policy |-> policy,
   excluded |-> excluded, local |-> core]
CoreX(allowed) == Requiring("core", allowed, {"x"}, LockEnvironments)

LockDeclarations ==
  {Declared({CoreX({1, 2})}, {}, 1, {}, Core(v, tools, FALSE)) :
     v \in {1, 2}, tools \in {{1}, {2}}}
  \cup
  {Declared({Needs("plug", {2})}, {Requiring("plug", {1}, {}, {2})}, 1, {},
            Core(1, {2}, FALSE)),
   Declared({CoreX({1, 2})}, {Needs("plug", {1})}, 1, {}, Core(1, {2}, FALSE)),
   Declared({Requiring("plug", {1, 2}, {}, {1}), CoreX({1})}, {}, 1, {"core"},
            Core(1, {2}, FALSE)),
   Declared({Requiring("plug", {2}, {}, {1}), CoreX({1, 2})}, {}, 1, {"core"},
            Core(2, {1}, FALSE)),
   Declared({Requiring("plug", {2}, {}, {1}), Needs("core", {1, 2})}, {}, 2, {"core"},
            Core(2, {1}, TRUE))}
  \cup  \* a member nothing asks for
  {Declared({Requiring("plug", plugs, {}, {1})}, {}, 1, {"core"}, Core(1, {2}, FALSE)) :
     plugs \in {{1}, {1, 2}}}
=============================================================================
