------------------------------ MODULE MCNetwork ------------------------------
(* The clients of the index side by side, for TLC: a behaviour takes one of   *)
(* RangeReads, Freshness, MultiIndex and Download through its steps and leaves *)
(* the variables of the others as they are.                                    *)
EXTENDS RangeReads, Freshness, MultiIndex, Download, TLC

VARIABLE part            \* which one

all == <<part, routing, reading, fresh, downloading>>

-----------------------------------------------------------------------------
(* Two indexes under three names, one of them twice in the configuration. *)

MCClientOf == "main" :> "c1" @@ "alias" :> "c1" @@ "extra" :> "c2"
MCOrder == <<"main", "extra">>
MCPinned == "b" :> "extra"

(* A large wheel that is not genuine and a small one that is, on one host. *)

MCWheel ==
  "a" :> [length |-> 3, directory |-> 2, hashed |-> TRUE, genuine |-> FALSE] @@
  "b" :> [length |-> 1, directory |-> 1, hashed |-> TRUE, genuine |-> TRUE]

(* Lifetimes by Expires, by max-age and by default; ages; dates that are none. *)

No == -10
Header(control, maxage, bars, expires, date, age) ==
  [control |-> control, maxage |-> maxage, bars |-> bars, expires |-> expires,
   date |-> date, age |-> age]
MCHeaders ==
  {Header(FALSE, No, FALSE, e, d, a) : e \in {No - 1, 4, 9}, d \in {No, 2}, a \in {No, 1}}
  \cup {Header(FALSE, No, FALSE, No, 0, 2), Header(TRUE, 9, FALSE, No, 0, 2)}
  \cup {Header(TRUE, m, b, 4, 0, a) : m \in {No, 2}, b \in BOOLEAN, a \in {No, 1}}
MCShifts == {-2, 0, 1}
MCFloors == {No, 2}

(* Locks with an artefact twice, two for one file, two that disagree, one that *)
(* is unsafe and three plain ones.                                             *)

Entry(url, file, content, algo, safe, local) ==
  [url |-> url, file |-> file, safe |-> safe, algo |-> algo, content |-> content,
   local |-> local]
Plain(url, file, content) == Entry(url, file, content, "a", TRUE, FALSE)
MCLocks ==
  {<<Plain(1, "x", 1), Entry(2, "y", 2, "a", TRUE, TRUE), Plain(1, "x", 1)>>,
   <<Plain(1, "x", 1), Plain(2, "x", 1), Plain(3, "y", 2)>>,
   <<Plain(1, "x", 1), Entry(2, "x", 1, "b", TRUE, FALSE)>>,
   <<Plain(1, "x", 1), Entry(2, "y", 2, "a", FALSE, FALSE), Plain(3, "z", 3)>>,
   <<Plain(1, "x", 1), Plain(2, "y", 2), Plain(3, "z", 3)>>}
MCPresent == {[f \in File |-> IF f = "x" THEN c ELSE NoFile] : c \in {NoFile, 1, 3}}

-----------------------------------------------------------------------------
FreshOff ==
  /\ time = 0 /\ shift = 0 /\ sets = 0 /\ offline = FALSE /\ floor = NoField
  /\ page = NoPolicy /\ absent = NoPolicy /\ used = Nothing
DownloadOff ==
  /\ lock = (CHOOSE l \in Locks : TRUE) /\ task = << >>
  /\ original = [f \in File |-> NoFile] /\ directory = original
  /\ crew = "out" /\ disconnected = FALSE /\ client = "open"

PartInit ==
  /\ Init /\ RoutingInit
  /\ \/ part \in {"routing", "ranges"} /\ FreshOff /\ DownloadOff
     \/ part = "fresh" /\ FreshInit /\ DownloadOff
     \/ part = "download" /\ FreshOff /\ DownloadInit

Route == part = "routing" /\ RoutingNext /\ UNCHANGED <<part, reading, fresh, downloading>>
Read == part = "ranges" /\ Next /\ UNCHANGED <<part, routing, fresh, downloading>>
Look == part = "fresh" /\ FreshNext /\ UNCHANGED <<part, routing, reading, downloading>>
Fetch == part = "download" /\ DownloadNext /\ UNCHANGED <<part, routing, reading, fresh>>

PartNext == Route \/ Read \/ Look \/ Fetch

Fairness ==
  /\ \A r \in Reader :
       WF_all(/\ part = "ranges" /\ ReadStep(r)
              /\ UNCHANGED <<part, routing, fresh, downloading>>)
  /\ WF_all(/\ part = "download" /\ Progress
            /\ UNCHANGED <<part, routing, reading, fresh>>)

PartSpec == PartInit /\ [][PartNext]_all /\ Fairness

-----------------------------------------------------------------------------
\* Every range read comes to an end (RangeReads), and so does a download command,
\* whose client is then closed (Download).
CallsEnd ==
  /\ ReadsReturn
  /\ part = "download" ~> (part = "download" /\ Ended)
=============================================================================
