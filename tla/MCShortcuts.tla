----------------------------- MODULE MCShortcuts -----------------------------
(* Three ways to be spared work, side by side for TLC: the pins of a former   *)
(* lock kept as they are (PreferredTrial), the keys of the decision queue     *)
(* (DecisionQueue), and a lock accepted without resolving (LockCheck).  A     *)
(* behaviour takes one of them through its steps and leaves the others.       *)
EXTENDS PreferredTrial, DecisionQueue, LockCheck, Problems, LockInputs

VARIABLE part   \* which one

all == <<part, trying, deciding, checking>>

-----------------------------------------------------------------------------
(* Pins that fit and pins that do not, of all the packages or of some.        *)

MCPreferences ==
  [{app, lib, util} -> {Min(Version), Max(Version)}]
  \cup {[p \in {app, lib, util} |-> IF p = util THEN Absent ELSE Max(Version)]}
TrialProblems == CoreProblems \cup ScanProblems

(* Two packages and the extras proxy of one.                                  *)

MCBaseOf == "p" :> "p" @@ "p[x]" :> "p" @@ "q" :> "q"
MCMatching == "p" :> (1 :> 1 @@ 2 :> 2) @@ "q" :> (1 :> 0 @@ 2 :> 2)
MCPlace == "p[x]" :> 0 @@ "p" :> 1 @@ "q" :> 2

(* A project with a local package, locked and checked while it is edited.     *)

MCPublished == LockPublished({})

-----------------------------------------------------------------------------
QueueOff ==
  /\ QueueInit /\ settling = FALSE /\ undecided = {}
CheckOff ==
  LockInit /\ declared = (CHOOSE inputs \in Declarations : TRUE)
TrialOff ==
  /\ Init /\ problem = (CHOOSE P \in Problems : TRUE)
  /\ preferred = (CHOOSE chosen \in Preferences : TRUE)

PartInit ==
  \/ part = "trial" /\ Init /\ QueueOff /\ CheckOff
  \/ part = "queue" /\ QueueInit /\ TrialOff /\ CheckOff
  \/ part = "check" /\ LockInit /\ TrialOff /\ QueueOff

Try == part = "trial" /\ Next /\ UNCHANGED <<part, deciding, checking>>
Decide == part = "queue" /\ QueueNext /\ UNCHANGED <<part, trying, checking>>
Verify == part = "check" /\ LockNext /\ UNCHANGED <<part, trying, deciding>>

PartNext == Try \/ Decide \/ Verify

PartSpec == PartInit /\ [][PartNext]_all
=============================================================================
