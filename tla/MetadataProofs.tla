--------------------------- MODULE MetadataProofs ---------------------------
(***************************************************************************)
(* What holds of MetadataLadder for any files, targets and number of       *)
(* queries, and of YankedResolution for any candidates and worlds.         *)
(***************************************************************************)
EXTENDS MetadataLadder, YankedResolution, FiniteSetTheorems, SequenceTheorems,
        WellFoundedInduction, TLAPS

----------------------------------------------------------------------------
(* MetadataLadder. *)

\* What a read has brought is what the file serves.
ReadsServed == \A f \in File : read[f] \in {"unread", "asked", release[f].serves}

\* What is kept of an sdist is what its own pyproject.toml says.
StaticKept ==
  \A s \in File : resolved[s] # 0 =>
    release[s].project = "static" /\ resolved[s] = Declared(s)

\* The wheel that a target picks leaves the answer to its sdist.
LeftToSdist(t) ==
  /\ ~targets[t].complete
  /\ Pick(t) \in Wheels(t) =>
       \/ release[Pick(t)].serves = "absent"
       \/ release[Pick(t)].serves = "failed" /\ release[Pick(t)].kind = "local"

\* The text of the sdist sends the target to the other files of the release.
MayBorrow(t, s) ==
  /\ s \in File /\ Readable(s) /\ ~release[s].foreign /\ NeedsDynamic(t, s)
  /\ release[s].project = "none" /\ targets[t].assume

\* The order of FirstOf.
Precedes(g, f) ==
  \/ release[g].kind = "sidecar" /\ release[f].kind # "sidecar"
  \/ (release[g].kind = "sidecar" <=> release[f].kind = "sidecar") /\ g < f

\* What brought a target to a stage of the ladder, where it waits for file f.
Rung(t, stage, f, unread) ==
  /\ stage # "idle" => f \in File
  /\ stage = "prefetch" => ~targets[t].complete /\ release[Pick(t)].kind = "sidecar"
  /\ stage = "wheel" => ~targets[t].complete /\ f = Pick(t) /\ f \in Wheels(t) /\ ~unread
  /\ stage = "sdist" =>
       /\ LeftToSdist(t) /\ f = FindSdist(t)
       /\ unread <=> Pick(t) \in Wheels(t) /\ release[Pick(t)].serves = "failed"
  /\ stage = "borrow" =>
       /\ LeftToSdist(t) /\ MayBorrow(t, FindSdist(t)) /\ f \in Lenders(t)
       /\ \A g \in Lenders(t) : Precedes(g, f) => release[g].serves = "absent"

Standing(t) ==
  /\ Rung(t, at[t], want[t], unreadable[t])
  /\ at[t] # "idle" => read[want[t]] # "unread"
  /\ queued[t] => ~targets[t].complete /\ release[Pick(t)].kind = "sidecar"
  /\ known[t] # Nothing => known[t] = Alone(t)

LadderInv ==
  /\ LadderSound /\ ReadsServed /\ StaticKept
  /\ \A t \in Target : Standing(t)

\* A query of t is over, with the answer it would get alone or a divergence.
Ended(t) ==
  /\ at' = [at EXCEPT ![t] = "idle"] /\ want' = [want EXCEPT ![t] = NoFile]
  /\ \E a \in Answers : /\ answer' = [answer EXCEPT ![t] = a]
                        /\ a = Alone(t) \/ (a = Diverged /\ Diverges(t))
  /\ \/ known' = known
     \/ Alone(t) \in Answers /\ known' = [known EXCEPT ![t] = Alone(t)]
  /\ read' = read
  /\ \/ resolved' = resolved
     \/ \E s \in File : /\ release[s].project = "static"
                        /\ resolved' = [resolved EXCEPT ![s] = Declared(s)]

\* A query of t asks for a file it needs next.
Waits(t, unread) ==
  /\ \E stage \in Stages \ {"idle"}, f \in File :
       Request(t, f, stage) /\ Rung(t, stage, f, unread)
  /\ UNCHANGED <<known, answer, resolved>>

\* A non-empty set of naturals has a least element, and Min is it.
LEMMA MinExists ==
  ASSUME NEW S \in SUBSET Nat, S # {}
  PROVE  Min(S) \in S /\ \A x \in S : Min(S) <= x
<1> DEFINE R == {ss \in Nat \X Nat : ss[1] < ss[2]}
<1>1. OpToRel(<, Nat) = R
  BY DEF OpToRel
<1>2. IsWellFoundedOn(R, Nat)
  BY <1>1, NatLessThanWellFounded
<1> HIDE DEF R
<1>3. PICK m \in S : \A x \in S : ~(<<x, m>> \in R)
  BY <1>2, WFMin
<1> USE DEF R
<1>4. ASSUME NEW x \in S PROVE m <= x
  <2>1. SUFFICES ASSUME x < m PROVE FALSE
    OBVIOUS
  <2>2. <<x, m>> \in Nat \X Nat /\ <<x, m>>[1] = x /\ <<x, m>>[2] = m
    OBVIOUS
  <2>3. <<x, m>> \in R
    BY <2>1, <2>2
  <2>4. QED BY <1>3, <2>3
<1>5. QED BY <1>4 DEF Min

\* What the assumptions say of the files and of a target.
LEMMA FilesForm ==
  ASSUME LadderTypeOK
  PROVE  /\ Cardinality(File) \in Nat /\ File = 1..Cardinality(File)
         /\ \A f \in File :
              /\ f \in Nat \ {0} /\ release[f].deps \in Nat /\ release[f].built \in Nat
              /\ release[f].kind \in {"sidecar", "bare", "local", "tar", "zip"}
              /\ release[f].serves \in {"text", "absent", "failed", "corrupt"}
              /\ release[f].serves = "corrupt" => release[f].kind = "bare"
              /\ release[f].says \in {"static", "old", "dynamic"}
              /\ release[f].project \in {"none", "static", "bad"}
              /\ release[f].foreign \in BOOLEAN
         /\ \A t \in Target :
              /\ targets[t].listing \subseteq File /\ targets[t].listing # {}
              /\ targets[t].rank \in [File -> Nat]
              /\ targets[t].trust \in BOOLEAN /\ targets[t].assume \in BOOLEAN
              /\ targets[t].build \in BOOLEAN /\ targets[t].complete \in BOOLEAN
<1>1. IsFiniteSet(File) /\ release \in Releases /\ targets \in Matrices
  BY LadderAssumption DEF LadderTypeOK, File
<1>2. Cardinality(File) \in Nat
  BY <1>1, FS_CardinalityType
<1>3. File = 1..Cardinality(File)
  BY <1>1, LadderAssumption DEF File
<1>4. ASSUME NEW f \in File
      PROVE  /\ f \in Nat \ {0} /\ release[f].deps \in Nat /\ release[f].built \in Nat
             /\ release[f].kind \in {"sidecar", "bare", "local", "tar", "zip"}
             /\ release[f].serves \in {"text", "absent", "failed", "corrupt"}
             /\ release[f].serves = "corrupt" => release[f].kind = "bare"
             /\ release[f].says \in {"static", "old", "dynamic"}
             /\ release[f].project \in {"none", "static", "bad"}
             /\ release[f].foreign \in BOOLEAN
  <2> DEFINE F == [kind : {"sidecar", "bare", "local", "tar", "zip"},
                   serves : {"text", "absent", "failed", "corrupt"}, deps : Nat,
                   foreign : BOOLEAN, says : {"static", "old", "dynamic"},
                   python : SUBSET Target, project : {"none", "static", "bad"}, built : Nat]
  <2>1. f \in Nat \ {0}
    BY <1>2, <1>3
  <2>2. \A files \in Releases :
          /\ files \in [1..Cardinality(DOMAIN files) -> F]
          /\ \A g \in DOMAIN files : files[g].serves = "corrupt" => files[g].kind = "bare"
    BY LadderAssumption
  <2>3. release[f] \in F /\ (release[f].serves = "corrupt" => release[f].kind = "bare")
    <3> HIDE DEF F
    <3>1. QED BY <1>1, <1>3, <1>4, <2>2 DEF File
  <2>4. QED BY <2>1, <2>3
<1>5. ASSUME NEW t \in Target
      PROVE  /\ targets[t].listing \subseteq File /\ targets[t].listing # {}
             /\ targets[t].rank \in [File -> Nat]
             /\ targets[t].trust \in BOOLEAN /\ targets[t].assume \in BOOLEAN
             /\ targets[t].build \in BOOLEAN /\ targets[t].complete \in BOOLEAN
  <2>1. targets[t] \in [listing : (SUBSET File) \ {{}}, rank : [File -> Nat],
                        trust : BOOLEAN, assume : BOOLEAN, build : BOOLEAN,
                        complete : BOOLEAN]
    BY <1>1, LadderAssumption DEF File
  <2>2. QED BY <2>1
<1>6. QED BY <1>2, <1>3, <1>4, <1>5

\* The sdist a target finds is one that it admits, and there is one unless it admits
\* wheels only.
LEMMA FindSdistForm ==
  ASSUME LadderTypeOK, NEW t \in Target
  PROVE  /\ Sdists(t) # {} => FindSdist(t) \in Sdists(t)
         /\ Sdists(t) = {} => FindSdist(t) = NoFile
<1>1. Sdists(t) \subseteq Nat
  BY FilesForm DEF Sdists
<1>2. QED BY <1>1, MinExists DEF FindSdist

\* The file a target picks is a wheel if it admits one, and else its sdist.
LEMMA PickForm ==
  ASSUME LadderTypeOK, NEW t \in Target
  PROVE  /\ Pick(t) \in File /\ 0 \notin File
         /\ FindSdist(t) \in File \cup {NoFile} /\ FindSdist(t) \notin Wheels(t)
         /\ Pick(t) \notin Wheels(t) => Pick(t) = FindSdist(t)
<1> DEFINE W == Wheels(t)
           best == {f \in W : \A g \in W : targets[t].rank[f] <= targets[t].rank[g]}
           sidecars == {f \in best : release[f].kind = "sidecar"}
<1>1. W \subseteq File /\ Sdists(t) \subseteq File \ W /\ File \subseteq Nat /\ 0 \notin File
  BY FilesForm DEF Wheels, Sdists
<1>2. FindSdist(t) \in (File \ W) \cup {NoFile}
  BY <1>1, FindSdistForm
<1>3. CASE W = {}
  <2>1. Sdists(t) # {}
    BY <1>3, FilesForm DEF Wheels, Sdists
  <2>2. Pick(t) = FindSdist(t)
    BY <1>3 DEF Pick
  <2>3. QED BY <1>1, <1>2, <2>1, <2>2, FindSdistForm, <1>3
<1>4. CASE W # {}
  <2>1. {targets[t].rank[f] : f \in W} \in SUBSET Nat
    BY <1>1, FilesForm
  <2>. DEFINE ranks == {targets[t].rank[f] : f \in W}
  <2>0. ranks # {}
    BY <1>4
  <2>. HIDE DEF ranks
  <2>2. PICK r \in ranks : \A q \in ranks : r <= q
    BY <2>0, <2>1, MinExists DEF ranks
  <2>3. PICK f \in W : r = targets[t].rank[f]
    BY <2>2 DEF ranks
  <2>4. f \in best
    BY <2>2, <2>3 DEF ranks
  <2>5. Pick(t) \in W
    <3>1. Min(best) \in best
      BY <2>4, <1>1, MinExists
    <3>2. sidecars # {} => Min(sidecars) \in sidecars
      BY <1>1, MinExists
    <3>3. Pick(t) = IF sidecars # {} THEN Min(sidecars) ELSE Min(best)
      BY <1>4 DEF Pick
    <3>4. QED BY <3>1, <3>2, <3>3
  <2>6. QED BY <1>1, <1>2, <2>5, LadderAssumption
<1>5. QED BY <1>3, <1>4

\* The first file to borrow from is preceded by none.
LEMMA FirstOfForm ==
  ASSUME LadderTypeOK, NEW fs \in SUBSET File, fs # {}
  PROVE  FirstOf(fs) \in fs /\ \A g \in fs : ~Precedes(g, FirstOf(fs))
<1> DEFINE sidecars == {f \in fs : release[f].kind = "sidecar"}
<1>1. fs \subseteq Nat
  BY FilesForm
<1>2. CASE sidecars # {}
  <2>1. Min(sidecars) \in sidecars /\ \A g \in sidecars : Min(sidecars) <= g
    BY <1>1, <1>2, MinExists
  <2>2. FirstOf(fs) = Min(sidecars)
    BY <1>2 DEF FirstOf
  <2>3. PICK m \in fs : /\ release[m].kind = "sidecar" /\ FirstOf(fs) = m
                        /\ \A g \in fs : release[g].kind = "sidecar" => m <= g
    BY <2>1, <2>2
  <2>4. QED BY <1>1, <2>3 DEF Precedes
<1>3. CASE sidecars = {}
  <2>1. Min(fs) \in fs /\ \A g \in fs : Min(fs) <= g
    BY <1>1, MinExists
  <2>2. FirstOf(fs) = Min(fs)
    BY <1>3 DEF FirstOf
  <2>3. PICK m \in fs : FirstOf(fs) = m /\ \A g \in fs : m <= g
    BY <2>1, <2>2
  <2>4. QED BY <1>1, <1>3, <2>3 DEF Precedes
<1>4. QED BY <1>2, <1>3

\* The only lender to be reached is one that all who come before it send on.
LEMMA LentForm ==
  ASSUME LadderTypeOK, NEW t \in Target, NEW s, NEW f \in Lenders(t),
         release[f].serves # "absent",
         \A g \in Lenders(t) : Precedes(g, f) => release[g].serves = "absent"
  PROVE  Lent(t, s) = {f}
<1> DEFINE n == Cardinality(File)
           order(g) == IF release[g].kind = "sidecar" THEN g ELSE g + n
           full == {g \in Lenders(t) : release[g].serves # "absent"}
<1>1. File = 1..n /\ n \in Nat /\ full \subseteq File /\ f \in full
  BY FilesForm DEF Lenders
<1>2. ASSUME NEW g \in full PROVE order(f) <= order(g)
  BY <1>1, <1>2 DEF Precedes
<1>3. ASSUME NEW g \in full, order(g) <= order(f) PROVE g = f
  BY <1>1, <1>2, <1>3
<1> HIDE DEF order, full
<1>4. f = CHOOSE g \in full : \A h \in full : order(g) <= order(h)
  BY <1>1, <1>2, <1>3
<1>5. full # {}
  BY <1>1
<1>6. QED BY <1>4, <1>5 DEF Lent, order, full

LEMMA NoneLent ==
  ASSUME NEW t, NEW s, \A g \in Lenders(t) : release[g].serves = "absent"
  PROVE  Lent(t, s) = {}
BY DEF Lent

----------------------------------------------------------------------------
(* What the operations of a query bring. *)

LEMMA JudgeType ==
  ASSUME NEW t, NEW n \in Nat, NEW python
  PROVE  /\ Judge(t, n, python) \in Answers /\ Skip \in Answers /\ Abort \in Answers
         /\ Diverged \in Answers /\ Overridden \in Answers
BY DEF Judge, Answers, Deps, Skip, Abort, Diverged, Overridden

\* _parse_and_cache_metadata_guarded records what the target would get alone.
LEMMA RefuseEnds ==
  ASSUME NEW t, Refuse(t), Alone(t) = Skip
  PROVE  Ended(t)
BY JudgeType, 0 \in Nat DEF Refuse, Record, Return, Ended, shared

LEMMA FinishEnds ==
  ASSUME NEW t, NEW n \in Nat, NEW python, Finish(t, n, python),
         Alone(t) = Judge(t, n, python),
         \/ resolved' = resolved
         \/ \E s \in File : /\ release[s].project = "static"
                            /\ resolved' = [resolved EXCEPT ![s] = Declared(s)]
  PROVE  Ended(t)
<1>1. Judge(t, n, python) \in Answers /\ Diverged \in Answers
  BY JudgeType
<1>2. QED BY <1>1 DEF Finish, Return, Ended

\* Alone, when the answer is left to the sdist and it can be read.
LEMMA AloneFromSdist ==
  ASSUME LadderTypeOK, NEW t \in Target, LeftToSdist(t), FindSdist(t) \in File,
         Readable(FindSdist(t))
  PROVE  Alone(t) = FromSdist(t, FindSdist(t))
<1>1. FindSdist(t) # NoFile
  BY PickForm, LadderAssumption
<1>2. Pick(t) \in Wheels(t) => ~Readable(Pick(t))
  BY DEF LeftToSdist, Readable
<1>3. Pick(t) \in Wheels(t) /\ release[Pick(t)].serves \in {"failed", "corrupt"} =>
        release[Pick(t)].kind = "local"
  BY DEF LeftToSdist
<1>4. ~targets[t].complete
  BY DEF LeftToSdist
<1>5. QED BY <1>1, <1>2, <1>3, <1>4 DEF Alone

\* What FromSdist says when nothing static is to be had.
LEMMA FromDynamic ==
  ASSUME LadderTypeOK, NEW t \in Target, NEW s \in File, ~release[s].foreign,
         NeedsDynamic(t, s), release[s].project = "none"
  PROVE  /\ targets[t].assume /\ Lent(t, s) # {} =>
              FromSdist(t, s) = LET f == CHOOSE f \in Lent(t, s) : TRUE IN
                                IF release[f].serves = "failed" THEN Abort
                                ELSE IF release[f].serves = "corrupt" \/ release[f].foreign
                                THEN Skip
                                ELSE Judge(t, release[f].deps, release[s].python)
         /\ ~targets[t].assume \/ Lent(t, s) = {} =>
              FromSdist(t, s) = IF targets[t].build /\ release[s].built # 0
                                THEN Judge(t, release[s].built, release[s].python)
                                ELSE Skip
<1>1. release[s].says # "static" /\ ~(targets[t].trust /\ release[s].says # "dynamic")
  BY FilesForm DEF NeedsDynamic
<1>2. release[s].project # "static" /\ release[s].project # "bad"
  OBVIOUS
<1>3. QED BY <1>1, <1>2 DEF FromSdist

\* resolve_dynamic_sdist, where it ends in a build or in nothing.
LEMMA UnborrowedEnds ==
  ASSUME LadderInv, NEW t \in Target, LeftToSdist(t), NEW s \in File,
         s = FindSdist(t), Readable(s), ~release[s].foreign, NeedsDynamic(t, s),
         release[s].project = "none", ~targets[t].assume \/ Lent(t, s) = {},
         Unborrowed(t, s)
  PROVE  Ended(t)
<1>1. LadderTypeOK
  BY DEF LadderInv, LadderSound
<1>2. Alone(t) = IF targets[t].build /\ release[s].built # 0
                 THEN Judge(t, release[s].built, release[s].python) ELSE Skip
  BY <1>1, AloneFromSdist, FromDynamic
<1>3. CASE targets[t].build /\ release[s].built # 0
  <2>1. Finish(t, release[s].built, release[s].python) /\ resolved' = resolved
    BY <1>3 DEF Unborrowed, Build
  <2>2. release[s].built \in Nat
    BY <1>1, FilesForm
  <2>3. Alone(t) = Judge(t, release[s].built, release[s].python)
    BY <1>2, <1>3
  <2>4. QED BY <2>1, <2>2, <2>3, FinishEnds
<1>4. CASE ~(targets[t].build /\ release[s].built # 0)
  BY <1>2, <1>4, RefuseEnds DEF Unborrowed, Build
<1>5. QED BY <1>3, <1>4

\* _assumed_wheel_dependencies, of the lender that is reached.
LEMMA LendEnds ==
  ASSUME LadderInv, NEW t \in Target, LeftToSdist(t), MayBorrow(t, FindSdist(t)),
         NEW f \in Lenders(t), release[f].serves = "text",
         \A g \in Lenders(t) : Precedes(g, f) => release[g].serves = "absent",
         Lend(t, FindSdist(t), f)
  PROVE  Ended(t)
<1> DEFINE s == FindSdist(t)
<1>1. LadderTypeOK
  BY DEF LadderInv, LadderSound
<1>2. Lent(t, s) = {f}
  BY <1>1, LentForm
<1>3. Alone(t) = IF release[f].foreign THEN Skip
                 ELSE Judge(t, release[f].deps, release[s].python)
  <2>1. FromSdist(t, s) = Alone(t)
    BY <1>1, AloneFromSdist DEF MayBorrow
  <2>2. (CHOOSE x \in Lent(t, s) : TRUE) = f
    BY <1>2
  <2>3. QED BY <1>1, <1>2, <2>1, <2>2, FromDynamic DEF MayBorrow
<1>4. CASE release[f].foreign
  BY <1>3, <1>4, RefuseEnds DEF Lend
<1>5. CASE ~release[f].foreign
  <2>1. Finish(t, release[f].deps, release[s].python) /\ resolved' = resolved
    BY <1>5 DEF Lend
  <2>2. release[f].deps \in Nat
    BY <1>1, FilesForm DEF Lenders
  <2>3. Alone(t) = Judge(t, release[f].deps, release[s].python)
    BY <1>3, <1>5
  <2>4. QED BY <2>1, <2>2, <2>3, FinishEnds
<1>6. QED BY <1>4, <1>5

\* Borrowing from the rest, when those before have nothing.
LEMMA BorrowEndsOrWaits ==
  ASSUME LadderInv, NEW t \in Target, LeftToSdist(t), MayBorrow(t, FindSdist(t)),
         NEW rest \in SUBSET Lenders(t), NEW unread \in BOOLEAN,
         \A g \in Lenders(t) \ rest : release[g].serves = "absent",
         Borrow(t, FindSdist(t), rest)
  PROVE  Ended(t) \/ Waits(t, unread)
<1> DEFINE s == FindSdist(t)
           f == FirstOf(rest)
<1>1. LadderTypeOK /\ rest \in SUBSET File /\ 0 \notin File
  BY PickForm DEF LadderInv, LadderSound, Lenders
<1>2. CASE rest = {}
  <2>1. f = NoFile
    BY <1>2 DEF FirstOf
  <2>2. Unborrowed(t, s)
    BY <2>1 DEF Borrow
  <2>3. Lent(t, s) = {}
    BY <1>2, NoneLent
  <2>4. QED BY <2>2, <2>3, UnborrowedEnds DEF MayBorrow
<1>3. CASE rest # {}
  <2>1. f \in rest /\ \A g \in rest : ~Precedes(g, f)
    BY <1>1, <1>3, FirstOfForm
  <2>2. f # NoFile /\ f \in Lenders(t) /\ f \in File
    BY <1>1, <2>1, LadderAssumption
  <2>3. \A g \in Lenders(t) : Precedes(g, f) => release[g].serves = "absent"
    BY <2>1
  <2>4. CASE read[f] = "text"
    <3>1. release[f].serves = "text"
      BY <2>2, <2>4 DEF LadderInv, ReadsServed
    <3>2. Lend(t, s, f)
      BY <2>2, <2>4 DEF Borrow
    <3>3. QED BY <2>2, <2>3, <3>1, <3>2, LendEnds
  <2>5. CASE read[f] # "text"
    <3>1. Request(t, f, "borrow") /\ UNCHANGED <<known, answer, resolved>>
      BY <2>2, <2>5 DEF Borrow
    <3>2. Rung(t, "borrow", f, unread)
      BY <2>2, <2>3 DEF Rung
    <3>3. QED BY <2>2, <3>1, <3>2 DEF Waits, Stages
  <2>6. QED BY <2>4, <2>5
<1>4. QED BY <1>2, <1>3

\* resolve_dynamic_sdist.
LEMMA DynamicEndsOrWaits ==
  ASSUME LadderInv, NEW t \in Target, LeftToSdist(t), NEW s \in File,
         s = FindSdist(t), Readable(s), ~release[s].foreign, NeedsDynamic(t, s),
         NEW unread \in BOOLEAN, Dynamic(t, s)
  PROVE  Ended(t) \/ Waits(t, unread)
<1>1. LadderTypeOK /\ Alone(t) = FromSdist(t, s)
  BY AloneFromSdist DEF LadderInv, LadderSound
<1>2. /\ Declared(s) \in Nat /\ Declared(s) # 0 /\ resolved[s] \in Nat
      /\ release[s].project \in {"none", "static", "bad"}
  BY <1>1, FilesForm DEF Declared, LadderTypeOK
<1>3. ~(release[s].says = "static" \/ (targets[t].trust /\ release[s].says # "dynamic"))
  BY <1>1, FilesForm DEF NeedsDynamic
<1>4. release[s].project = "static" => Alone(t) = Judge(t, Declared(s), release[s].python)
  BY <1>1, <1>3 DEF FromSdist
<1>5. CASE resolved[s] # 0
  <2>1. release[s].project = "static" /\ resolved[s] = Declared(s)
    BY <1>5 DEF LadderInv, StaticKept
  <2>2. Finish(t, Declared(s), release[s].python) /\ resolved' = resolved
    BY <1>5, <2>1 DEF Dynamic
  <2>3. QED BY <1>2, <1>4, <2>1, <2>2, FinishEnds
<1>6. CASE resolved[s] = 0 /\ release[s].project = "static"
  <2>1. /\ Finish(t, Declared(s), release[s].python)
        /\ resolved' = [resolved EXCEPT ![s] = Declared(s)]
    BY <1>6 DEF Dynamic
  <2>2. QED BY <1>2, <1>4, <1>6, <2>1, FinishEnds
<1>7. CASE resolved[s] = 0 /\ release[s].project = "bad"
  <2>1. Refuse(t)
    BY <1>7 DEF Dynamic
  <2>2. Alone(t) = Skip
    BY <1>1, <1>3, <1>7 DEF FromSdist
  <2>3. QED BY <2>1, <2>2, RefuseEnds
<1>8. CASE resolved[s] = 0 /\ release[s].project = "none"
  <2>1. IF targets[t].assume THEN Borrow(t, s, Lenders(t)) ELSE Unborrowed(t, s)
    BY <1>8 DEF Dynamic
  <2>2. CASE targets[t].assume
    <3>1. MayBorrow(t, s)
      BY <1>8, <2>2 DEF MayBorrow
    <3>2. QED BY <2>1, <2>2, <3>1, BorrowEndsOrWaits
  <2>3. CASE ~targets[t].assume
    BY <1>8, <2>1, <2>3, UnborrowedEnds
  <2>4. QED BY <2>2, <2>3
<1>9. QED BY <1>2, <1>5, <1>6, <1>7, <1>8

\* parse_and_cache_metadata, of a wheel a target picked or of the sdist after it.
LEMMA ParseEndsOrWaits ==
  ASSUME LadderInv, NEW t \in Target, ~targets[t].complete, NEW f \in File,
         Readable(f), NEW unread \in BOOLEAN, Parse(t, f),
         \/ f = Pick(t) /\ f \in Wheels(t)
         \/ f = FindSdist(t) /\ LeftToSdist(t)
  PROVE  Ended(t) \/ Waits(t, unread)
<1>1. LadderTypeOK /\ f \in File /\ release[f].deps \in Nat
  BY FilesForm DEF LadderInv, LadderSound
<1>2. CASE f = Pick(t) /\ f \in Wheels(t)
  <2>1. Alone(t) = IF release[f].foreign THEN Skip
                   ELSE Judge(t, release[f].deps, release[f].python)
    BY <1>2 DEF Alone
  <2>2. \/ release[f].foreign /\ Refuse(t)
        \/ /\ ~release[f].foreign /\ resolved' = resolved
           /\ Finish(t, release[f].deps, release[f].python)
    BY <1>2 DEF Parse
  <2>3. QED BY <1>1, <2>1, <2>2, RefuseEnds, FinishEnds
<1>3. CASE f = FindSdist(t) /\ LeftToSdist(t)
  <2>1. Alone(t) = FromSdist(t, f) /\ f \notin Wheels(t)
    BY <1>1, <1>3, AloneFromSdist, PickForm
  <2>2. CASE release[f].foreign
    BY <2>1, <2>2, RefuseEnds DEF Parse, FromSdist
  <2>3. CASE ~release[f].foreign /\ NeedsDynamic(t, f)
    <3>1. Dynamic(t, f)
      BY <2>1, <2>3 DEF Parse
    <3>2. QED BY <1>1, <1>3, <2>3, <3>1, DynamicEndsOrWaits
  <2>4. CASE ~release[f].foreign /\ ~NeedsDynamic(t, f)
    <3>1. Finish(t, release[f].deps, release[f].python) /\ resolved' = resolved
      BY <2>1, <2>4 DEF Parse
    <3>2. release[f].says = "static" \/ (targets[t].trust /\ release[f].says # "dynamic")
      BY <1>1, <2>4, FilesForm DEF NeedsDynamic
    <3>3. FromSdist(t, f) = Judge(t, release[f].deps, release[f].python)
      BY <2>4, <3>2 DEF FromSdist
    <3>4. QED BY <1>1, <2>1, <3>1, <3>3, FinishEnds
  <2>5. QED BY <2>2, <2>3, <2>4
<1>4. QED BY <1>2, <1>3

\* fetch_sdist_metadata, after the wheel or without one.
LEMMA SdistRungEndsOrWaits ==
  ASSUME LadderInv, NEW t \in Target, LeftToSdist(t), NEW unread \in BOOLEAN,
         unread <=> Pick(t) \in Wheels(t) /\ release[Pick(t)].serves = "failed",
         SdistRung(t, unread)
  PROVE  Ended(t) \/ Waits(t, unread)
<1>1. LadderTypeOK
  BY DEF LadderInv, LadderSound
<1>2. CASE FindSdist(t) = NoFile
  <2>1. Return(t, IF unread THEN Abort ELSE Skip) /\ UNCHANGED <<known, shared>>
    BY <1>2 DEF SdistRung, LadderFails
  <2>2. Alone(t) = IF unread THEN Abort ELSE Skip
    BY <1>1, <1>2, FilesForm, PickForm DEF Alone, LeftToSdist, Readable
  <2>3. QED BY <2>1, <2>2, JudgeType, 0 \in Nat DEF Return, Ended, shared
<1>3. CASE FindSdist(t) # NoFile
  <2>1. Request(t, FindSdist(t), "sdist") /\ UNCHANGED <<known, answer, resolved>>
    BY <1>3 DEF SdistRung
  <2>2. FindSdist(t) \in File
    BY <1>1, <1>3, PickForm
  <2>3. Rung(t, "sdist", FindSdist(t), unread)
    BY <2>2 DEF Rung
  <2>4. QED BY <2>1, <2>2, <2>3 DEF Waits, Stages
<1>4. QED BY <1>2, <1>3

----------------------------------------------------------------------------
(* What a step leaves as it was. *)

\* The files and what targets admit never change, and what rests on them neither.
LEMMA SettingStands ==
  ASSUME UNCHANGED setting, NEW t
  PROVE  /\ File' = File /\ Wheels(t)' = Wheels(t) /\ Lenders(t)' = Lenders(t)
         /\ Pick(t)' = Pick(t) /\ FindSdist(t)' = FindSdist(t)
         /\ LeftToSdist(t)' = LeftToSdist(t)
         /\ \A s : MayBorrow(t, s)' = MayBorrow(t, s)
         /\ \A g, f : Precedes(g, f)' = Precedes(g, f)
         /\ Alone(t)' = Alone(t)
<1>1. release' = release /\ targets' = targets
  BY DEF setting
<1>2. File' = File /\ Wheels(t)' = Wheels(t) /\ Lenders(t)' = Lenders(t)
  BY <1>1 DEF File, Wheels, Lenders
<1>3. Sdists(t)' = Sdists(t)
  BY <1>1, <1>2 DEF Sdists
<1>4. FindSdist(t)' = FindSdist(t)
  BY <1>1, <1>3 DEF FindSdist
<1>5. Pick(t)' = Pick(t)
  BY <1>1, <1>2, <1>4 DEF Pick
<1>6. LeftToSdist(t)' = LeftToSdist(t)
  BY <1>1, <1>2, <1>5 DEF LeftToSdist
<1>7. \A s : MayBorrow(t, s)' = MayBorrow(t, s)
  BY <1>1, <1>2 DEF MayBorrow, Readable, NeedsDynamic
<1>8. \A g, f : Precedes(g, f)' = Precedes(g, f)
  BY <1>1 DEF Precedes
<1>9. \A s : Lent(t, s)' = Lent(t, s)
  BY <1>1, <1>2 DEF Lent
<1>10. \A s : FromSdist(t, s)' = FromSdist(t, s)
  BY <1>1, <1>9 DEF FromSdist, Judge, Declared, Readable
<1>11. Alone(t)' = Alone(t)
  BY <1>1, <1>2, <1>4, <1>5, <1>10 DEF Alone, Judge, Readable
<1>12. QED BY <1>2, <1>4, <1>5, <1>6, <1>7, <1>8, <1>11

\* A rung stands whatever the others do.
LEMMA RungStands ==
  ASSUME UNCHANGED setting, NEW t, NEW stage, NEW f, NEW unread, Rung(t, stage, f, unread)
  PROVE  Rung(t, stage, f, unread)'
<1>1. release' = release /\ targets' = targets
  BY DEF setting
<1>2. QED BY <1>1, SettingStands DEF Rung
LEMMA StandingKept ==
  ASSUME UNCHANGED setting, NEW t, Standing(t), at'[t] = at[t], want'[t] = want[t],
         unreadable'[t] = unreadable[t], queued'[t] => queued[t], known'[t] = known[t],
         at[t] # "idle" => read'[want[t]] # "unread"
  PROVE  Standing(t)'
<1>1. Rung(t, at[t], want[t], unreadable[t])'
  <2>1. Rung(t, at[t], want[t], unreadable[t])
    BY DEF Standing
  <2>2. release' = release /\ targets' = targets
    BY DEF setting
  <2>3. QED BY <2>1, <2>2, SettingStands DEF Rung
<1>2. (queued[t] => ~targets[t].complete /\ release[Pick(t)].kind = "sidecar")'
  BY SettingStands DEF setting, Standing
<1>3. (known[t] # Nothing => known[t] = Alone(t))'
  BY SettingStands DEF Standing, Nothing
<1>4. QED BY <1>1, <1>2, <1>3 DEF Standing

\* What holds of the answer a target has.
AnswerSound(t) ==
  /\ answer[t] \notin {Nothing, Diverged} => answer[t] = Alone(t)
  /\ answer[t] = Diverged =>
       \E g \in Wheels(t) : /\ targets[t].rank[g] = targets[t].rank[Pick(t)]
                            /\ t \in release[g].python /\ ~release[g].foreign
                            /\ release[g].deps # release[Pick(t)].deps

LEMMA AnswersSound ==
  (AnsweredAlone /\ DivergenceIsReal) <=> \A t \in Target : AnswerSound(t)
BY DEF AnsweredAlone, DivergenceIsReal, AnswerSound

LEMMA AnswerKept ==
  ASSUME UNCHANGED setting, NEW t, AnswerSound(t), answer'[t] = answer[t]
  PROVE  AnswerSound(t)'
BY SettingStands DEF setting, AnswerSound, Nothing, Diverged

\* No target that is alone meets a divergence.
LEMMA AloneNotDiverged ==
  ASSUME NEW t
  PROVE  Alone(t) # Diverged
<1>1. \A n, python : Judge(t, n, python) # Diverged
  BY DEF Judge, Deps, Skip, Diverged
<1>2. Skip # Diverged /\ Abort # Diverged /\ Overridden # Diverged
  BY DEF Skip, Abort, Overridden, Deps, Diverged
<1>3. \A s : FromSdist(t, s) # Diverged
  BY <1>1, <1>2 DEF FromSdist
<1>4. QED BY <1>1, <1>2, <1>3 DEF Alone

LEMMA AnswerGiven ==
  ASSUME UNCHANGED setting, NEW t, answer'[t] = Alone(t) \/ (answer'[t] = Diverged /\ Diverges(t))
  PROVE  AnswerSound(t)'
<1>1. release' = release /\ targets' = targets /\ Diverged' = Diverged
  BY DEF setting, Diverged
<1>2. CASE answer'[t] = Alone(t)
  BY <1>1, <1>2, SettingStands, AloneNotDiverged DEF AnswerSound
<1>3. CASE answer'[t] = Diverged /\ Diverges(t)
  <2>1. \E g \in Wheels(t) : /\ targets[t].rank[g] = targets[t].rank[Pick(t)]
                             /\ t \in release[g].python /\ ~release[g].foreign
                             /\ release[g].deps # release[Pick(t)].deps
    BY <1>3 DEF Diverges, Compared, Tied
  <2>2. QED BY <1>1, <1>3, <2>1, SettingStands DEF AnswerSound
<1>4. QED BY <1>2, <1>3

\* What Request and Land may do to what has been read.
LEMMA ReadKept ==
  ASSUME LadderTypeOK, ReadsServed, UNCHANGED setting,
         \/ read' = read
         \/ \E f \in File : /\ read' = [read EXCEPT ![f] = "asked"] /\ read[f] = "unread"
         \/ \E f \in File : read' = [read EXCEPT ![f] = release[f].serves]
  PROVE  /\ ReadsServed' /\ read' \in [File -> Reads]
         /\ \A f \in File : read[f] # "unread" => read'[f] # "unread"
<1>1. release' = release /\ File' = File
  BY SettingStands DEF setting
<1>2. read \in [File -> Reads] 
      /\ \A f \in File : release[f].serves \in {"text", "absent", "failed", "corrupt"}
  BY FilesForm DEF LadderTypeOK
<1>3. QED BY <1>1, <1>2 DEF ReadsServed, Reads

\* A query that ends, or waits, keeps the invariant.
LEMMA TurnKept ==
  ASSUME LadderInv, NEW t \in Target, UNCHANGED setting, Ended(t) \/ Waits(t, unreadable'[t]),
         queued' = queued \/ queued' = [queued EXCEPT ![t] = FALSE],
         \/ unreadable' = unreadable
         \/ \E b \in BOOLEAN : unreadable' = [unreadable EXCEPT ![t] = b],
         \/ asks' = asks
         \/ asks[t] < MaxAsks /\ asks' = [asks EXCEPT ![t] = @ + 1]
  PROVE  LadderInv'
<1>1. LadderTypeOK /\ ReadsServed /\ StaticKept /\ \A u \in Target : Standing(u)
  BY DEF LadderInv, LadderSound
<1>2. release' = release /\ targets' = targets /\ File' = File
  BY SettingStands DEF setting
<1>3. /\ at \in [Target -> Stages] /\ want \in [Target -> File \cup {NoFile}]
      /\ unreadable \in [Target -> BOOLEAN] /\ queued \in [Target -> BOOLEAN]
      /\ known \in [Target -> Answers] /\ answer \in [Target -> Answers]
      /\ asks \in [Target -> 0..MaxAsks] /\ resolved \in [File -> Nat]
      /\ read \in [File -> Reads]
  BY <1>1 DEF LadderTypeOK
<1>4. ReadsServed' /\ read' \in [File -> Reads]
      /\ \A f \in File : read[f] # "unread" => read'[f] # "unread"
  <2>1. \/ read' = read
        \/ \E f \in File : /\ read' = [read EXCEPT ![f] = "asked"] /\ read[f] = "unread"
    BY DEF Ended, Waits, Request
  <2>2. QED BY <1>1, <2>1, ReadKept
<1>5. StaticKept' /\ resolved' \in [File -> Nat]
  <2>1. \A s \in File : Declared(s) \in Nat
    BY <1>1, FilesForm DEF Declared
  <2>2. \A s : Declared(s)' = Declared(s)
    BY <1>2 DEF Declared
  <2>3. \/ resolved' = resolved
        \/ \E s \in File : /\ release[s].project = "static"
                           /\ resolved' = [resolved EXCEPT ![s] = Declared(s)]
    BY DEF Ended, Waits
  <2>4. QED BY <1>1, <1>2, <1>3, <2>1, <2>2, <2>3 DEF StaticKept
<1>6. /\ queued' \in [Target -> BOOLEAN] /\ unreadable' \in [Target -> BOOLEAN]
      /\ \A u \in Target : /\ queued'[u] => queued[u]
                           /\ u # t => unreadable'[u] = unreadable[u]
  BY <1>3
<1>7. asks' \in [Target -> 0..MaxAsks]
  <2>1. asks[t] < MaxAsks => asks[t] + 1 \in 0..MaxAsks
    BY <1>3, LadderAssumption
  <2>2. QED BY <1>3, <2>1
<1>8. CASE Ended(t)
  <2>1. PICK a \in Answers : /\ answer' = [answer EXCEPT ![t] = a]
                             /\ a = Alone(t) \/ (a = Diverged /\ Diverges(t))
    BY <1>8 DEF Ended
  <2>2. at' = [at EXCEPT ![t] = "idle"] /\ want' = [want EXCEPT ![t] = NoFile]
    BY <1>8 DEF Ended
  <2>3. \/ known' = known
        \/ Alone(t) \in Answers /\ known' = [known EXCEPT ![t] = Alone(t)]
    BY <1>8 DEF Ended
  <2>4. LadderTypeOK'
    <3>1. at' \in [Target -> Stages] /\ want' \in [Target -> File \cup {NoFile}]
      BY <1>3, <2>2 DEF Stages
    <3>2. known' \in [Target -> Answers] /\ answer' \in [Target -> Answers]
      BY <1>3, <2>1, <2>3
    <3>3. QED BY <1>1, <1>2, <1>4, <1>5, <1>6, <1>7, <3>1, <3>2 DEF LadderTypeOK
  <2>5. ASSUME NEW u \in Target PROVE AnswerSound(u)'
    <3>1. AnswerSound(u)
      BY AnswersSound DEF LadderInv, LadderSound
    <3>2. CASE u = t
      <4>1. answer'[u] = a
        BY <1>3, <2>1, <3>2
      <4>2. QED BY <2>1, <3>2, <4>1, AnswerGiven
    <3>3. CASE u # t
      <4>1. answer'[u] = answer[u]
        BY <1>3, <2>1, <3>3
      <4>2. QED BY <3>1, <4>1, AnswerKept
    <3>4. QED BY <3>2, <3>3
  <2>6. ASSUME NEW u \in Target PROVE Standing(u)'
    <3>1. CASE u = t
      <4>1. at'[t] = "idle"
        BY <1>3, <2>2
      <4>2. (queued[t] => ~targets[t].complete /\ release[Pick(t)].kind = "sidecar")'
        BY <1>1, <1>2, <1>6, SettingStands DEF Standing
      <4>3. (known[t] # Nothing => known[t] = Alone(t))'
        BY <1>1, <1>3, <2>3, SettingStands DEF Standing, Nothing
      <4>4. QED BY <3>1, <4>1, <4>2, <4>3 DEF Standing, Rung
    <3>2. CASE u # t
      <4>1. /\ at'[u] = at[u] /\ want'[u] = want[u] /\ known'[u] = known[u]
            /\ unreadable'[u] = unreadable[u] /\ (queued'[u] => queued[u])
        BY <1>3, <1>6, <2>2, <2>3, <3>2
      <4>2. Standing(u) /\ (at[u] # "idle" => read[want[u]] # "unread" /\ want[u] \in File)
        BY <1>1 DEF Standing, Rung
      <4>3. at[u] # "idle" => read'[want[u]] # "unread"
        BY <1>4, <4>2
      <4>4. QED BY <4>1, <4>2, <4>3, StandingKept
    <3>3. QED BY <3>1, <3>2
  <2>7. (AnsweredAlone /\ DivergenceIsReal)'
    BY <2>5, AnswersSound DEF AnsweredAlone, DivergenceIsReal, AnswerSound
  <2>8. QED BY <1>4, <1>5, <2>4, <2>6, <2>7 DEF LadderInv, LadderSound
<1>9. CASE Waits(t, unreadable'[t])
  <2>1. PICK stage \in Stages \ {"idle"}, f \in File :
          Request(t, f, stage) /\ Rung(t, stage, f, unreadable'[t])
    BY <1>9 DEF Waits
  <2>2. /\ at' = [at EXCEPT ![t] = stage] /\ want' = [want EXCEPT ![t] = f]
        /\ read' = IF read[f] = "unread" THEN [read EXCEPT ![f] = "asked"] ELSE read
    BY <2>1 DEF Request
  <2>3. known' = known /\ answer' = answer
    BY <1>9 DEF Waits
  <2>4. LadderTypeOK'
    BY <1>1, <1>2, <1>3, <1>4, <1>5, <1>6, <1>7, <2>2, <2>3 DEF LadderTypeOK, Stages
  <2>5. (AnsweredAlone /\ DivergenceIsReal)'
    <3>1. \A u \in Target : AnswerSound(u)'
      BY <2>3, AnswersSound, AnswerKept DEF LadderInv, LadderSound
    <3>2. QED BY <3>1 DEF AnsweredAlone, DivergenceIsReal, AnswerSound
  <2>6. ASSUME NEW u \in Target PROVE Standing(u)'
    <3>1. CASE u = t
      <4>1. at'[t] = stage /\ want'[t] = f /\ read'[f] # "unread"
        BY <1>3, <2>2
      <4>2. (queued[t] => ~targets[t].complete /\ release[Pick(t)].kind = "sidecar")'
        BY <1>1, <1>2, <1>6, SettingStands DEF Standing
      <4>3. (known[t] # Nothing => known[t] = Alone(t))'
        BY <1>1, <2>3, SettingStands DEF Standing, Nothing
      <4>4. Rung(t, at[t], want[t], unreadable[t])'
        BY <1>2, <2>1, <4>1, SettingStands DEF Rung
      <4>5. QED BY <3>1, <4>1, <4>2, <4>3, <4>4 DEF Standing
    <3>2. CASE u # t
      <4>1. /\ at'[u] = at[u] /\ want'[u] = want[u] /\ known'[u] = known[u]
            /\ unreadable'[u] = unreadable[u] /\ (queued'[u] => queued[u])
        BY <1>3, <1>6, <2>2, <2>3, <3>2
      <4>2. Standing(u) /\ (at[u] # "idle" => read[want[u]] # "unread" /\ want[u] \in File)
        BY <1>1 DEF Standing, Rung
      <4>3. at[u] # "idle" => read'[want[u]] # "unread"
        BY <1>4, <4>2
      <4>4. QED BY <4>1, <4>2, <4>3, StandingKept
    <3>3. QED BY <3>1, <3>2
  <2>7. QED BY <1>4, <1>5, <2>4, <2>5, <2>6 DEF LadderInv, LadderSound
<1>10. QED BY <1>8, <1>9

----------------------------------------------------------------------------
(* The steps. *)

LEMMA PrefetchKept ==
  ASSUME LadderInv, NEW t \in Target, Prefetch(t)
  PROVE  LadderInv'
<1>1. Pick(t) \in File
  BY PickForm DEF LadderInv, LadderSound
<1>2. Rung(t, "prefetch", Pick(t), unreadable'[t])
  BY <1>1 DEF Prefetch, Rung
<1>3. Waits(t, unreadable'[t])
  BY <1>1, <1>2 DEF Prefetch, Waits, Stages
<1>4. UNCHANGED setting /\ queued' = queued /\ unreadable' = unreadable /\ asks' = asks
  BY DEF Prefetch, setting
<1>5. QED BY <1>3, <1>4, TurnKept

\* get_dependencies and the first rung.
LEMMA AskKept ==
  ASSUME LadderInv, NEW t \in Target, Ask(t)
  PROVE  LadderInv'
<1> DEFINE f == Pick(t)
<1>1. LadderTypeOK /\ f \in File /\ Standing(t) /\ known[t] \in Answers
  BY PickForm DEF LadderInv, LadderSound, LadderTypeOK
<1>2. /\ UNCHANGED setting /\ queued' = [queued EXCEPT ![t] = FALSE] /\ asks[t] < MaxAsks
      /\ unreadable' = [unreadable EXCEPT ![t] = FALSE]
      /\ asks' = [asks EXCEPT ![t] = @ + 1]
  BY DEF Ask, setting
<1>3. unreadable'[t] = FALSE
  BY <1>1, <1>2 DEF LadderTypeOK
<1>4. read[f] = "text" => Readable(f)
  BY <1>1 DEF LadderInv, ReadsServed, Readable
<1>5. Ended(t) \/ Waits(t, FALSE)
  <2>1. CASE known[t] # Nothing
    <3>1. Return(t, known[t]) /\ UNCHANGED <<known, shared>>
      BY <2>1 DEF Ask
    <3>2. known[t] = Alone(t)
      BY <1>1, <2>1 DEF Standing
    <3>3. QED BY <1>1, <3>1, <3>2 DEF Return, Ended, shared
  <2>2. CASE known[t] = Nothing /\ Prefetched(t)
    <3>1. Record(t, Deps(release[f].deps)) /\ UNCHANGED shared
      BY <2>2 DEF Ask
    <3>2. ~targets[t].complete /\ f \in Wheels(t) /\ Readable(f)
      <4>1. release[f].kind = "sidecar" /\ ~targets[t].complete
        BY <1>1, <2>2 DEF Prefetched, Standing
      <4>2. f \in Wheels(t)
        <5>1. SUFFICES ASSUME f \notin Wheels(t) PROVE FALSE
          OBVIOUS
        <5>2. f = FindSdist(t) /\ f # NoFile
          BY <1>1, <5>1, PickForm, LadderAssumption
        <5>3. f \in Sdists(t)
          BY <1>1, <5>2, FindSdistForm
        <5>4. QED BY <4>1, <5>1, <5>3 DEF Wheels, Sdists
      <4>3. QED BY <1>4, <2>2, <4>1, <4>2 DEF Prefetched
    <3>3. Alone(t) = Deps(release[f].deps)
      BY <2>2, <3>2 DEF Alone, Prefetched, Judge
    <3>4. Deps(release[f].deps) \in Answers
      BY <1>1, FilesForm DEF Deps, Answers
    <3>5. QED BY <3>1, <3>3, <3>4 DEF Record, Return, Ended, shared
  <2>3. CASE known[t] = Nothing /\ ~Prefetched(t) /\ targets[t].complete
    <3>1. Record(t, Overridden) /\ UNCHANGED shared
      BY <2>3 DEF Ask
    <3>2. Alone(t) = Overridden
      BY <2>3 DEF Alone
    <3>3. Overridden \in Answers
      BY JudgeType, 0 \in Nat
    <3>4. QED BY <3>1, <3>2, <3>3 DEF Record, Return, Ended, shared
  <2>4. CASE known[t] = Nothing /\ ~Prefetched(t) /\ ~targets[t].complete
    <3>1. CASE read[f] = "text"
      <4>1. Parse(t, f)
        BY <2>4, <3>1 DEF Ask
      <4>2. f \notin Wheels(t) => f = FindSdist(t) /\ LeftToSdist(t)
        BY <1>1, <2>4, PickForm DEF LeftToSdist
      <4>3. QED BY <1>1, <1>4, <2>4, <3>1, <4>1, <4>2, ParseEndsOrWaits
    <3>2. CASE read[f] # "text" /\ f \in Wheels(t)
      <4>1. Request(t, f, "wheel") /\ UNCHANGED <<known, answer, resolved>>
        BY <2>4, <3>2 DEF Ask
      <4>2. Rung(t, "wheel", f, FALSE)
        BY <1>1, <2>4, <3>2 DEF Rung
      <4>3. QED BY <1>1, <4>1, <4>2 DEF Waits, Stages
    <3>3. CASE read[f] # "text" /\ f \notin Wheels(t)
      <4>1. SdistRung(t, FALSE)
        BY <2>4, <3>3 DEF Ask
      <4>2. LeftToSdist(t)
        BY <2>4, <3>3 DEF LeftToSdist
      <4>3. QED BY <3>3, <4>1, <4>2, SdistRungEndsOrWaits
    <3>4. QED BY <3>1, <3>2, <3>3
  <2>5. QED BY <2>1, <2>2, <2>3, <2>4
<1>6. QED BY <1>2, <1>3, <1>5, TurnKept

\* What a read has landed for a target that waits.
LEMMA LandedForm ==
  ASSUME LadderInv, NEW t \in Target, NEW stage, stage # "idle", Landed(t, stage)
  PROVE  /\ want[t] \in File /\ read[want[t]] = release[want[t]].serves
         /\ read[want[t]] \in {"text", "absent", "failed", "corrupt"}
         /\ Rung(t, stage, want[t], unreadable[t])
BY DEF LadderInv, ReadsServed, Standing, Rung, Landed

\* Rungs 2 to 4.
LEMMA WheelRungKept ==
  ASSUME LadderInv, NEW t \in Target, WheelRung(t)
  PROVE  LadderInv'
<1> DEFINE f == want[t]
<1>1. /\ f \in File /\ read[f] = release[f].serves /\ f \in Wheels(t) /\ f = Pick(t)
      /\ read[f] \in {"text", "absent", "failed", "corrupt"} /\ ~targets[t].complete
      /\ ~unreadable[t]
  BY LandedForm DEF WheelRung, Rung
<1>2. UNCHANGED setting /\ queued' = queued /\ asks' = asks /\ LadderTypeOK
  BY DEF WheelRung, setting, LadderInv, LadderSound
<1>3. unreadable \in [Target -> BOOLEAN]
  BY <1>2 DEF LadderTypeOK
<1>4. CASE read[f] = "text"
  <2>1. Parse(t, f) /\ unreadable' = unreadable
    BY <1>4 DEF WheelRung
  <2>2. Readable(f)
    BY <1>1, <1>4 DEF Readable
  <2>3. Ended(t) \/ Waits(t, unreadable'[t])
    BY <1>1, <1>3, <2>1, <2>2, ParseEndsOrWaits
  <2>4. QED BY <1>2, <2>1, <2>3, TurnKept
<1>5. CASE read[f] = "absent"
  <2>1. SdistRung(t, FALSE) /\ unreadable' = unreadable
    BY <1>5 DEF WheelRung
  <2>2. LeftToSdist(t)
    BY <1>1, <1>5 DEF LeftToSdist
  <2>3. Ended(t) \/ Waits(t, FALSE)
    BY <1>1, <1>5, <2>1, <2>2, SdistRungEndsOrWaits
  <2>4. unreadable'[t] = FALSE
    BY <1>1, <1>3, <2>1
  <2>5. QED BY <1>2, <2>1, <2>3, <2>4, TurnKept
<1>6. CASE read[f] = "failed" /\ release[f].kind = "local"
  <2>1. SdistRung(t, TRUE) /\ unreadable' = [unreadable EXCEPT ![t] = TRUE]
    BY <1>6 DEF WheelRung
  <2>2. LeftToSdist(t)
    BY <1>1, <1>6 DEF LeftToSdist
  <2>3. Ended(t) \/ Waits(t, TRUE)
    BY <1>1, <1>6, <2>1, <2>2, SdistRungEndsOrWaits
  <2>4. unreadable'[t] = TRUE
    BY <1>3, <2>1
  <2>5. QED BY <1>2, <2>1, <2>3, <2>4, TurnKept
<1>7. CASE read[f] \in {"failed", "corrupt"} /\ release[f].kind # "local"
  <2>1. Return(t, Abort) /\ UNCHANGED <<known, shared, unreadable>>
    BY <1>7 DEF WheelRung
  <2>2. Alone(t) = Abort
    BY <1>1, <1>7 DEF Alone, Readable
  <2>3. Ended(t)
    BY <2>1, <2>2, JudgeType, 0 \in Nat DEF Return, Ended, shared
  <2>4. QED BY <1>2, <2>1, <2>3, TurnKept
<1>8. read[f] = "corrupt" => release[f].kind # "local"
  BY <1>1, <1>2, FilesForm
<1>9. QED BY <1>1, <1>4, <1>5, <1>6, <1>7, <1>8

\* Rung 5.
LEMMA SdistArrivesKept ==
  ASSUME LadderInv, NEW t \in Target, SdistArrives(t)
  PROVE  LadderInv'
<1> DEFINE s == want[t]
<1>1. /\ s \in File /\ read[s] = release[s].serves /\ s = FindSdist(t) /\ LeftToSdist(t)
      /\ read[s] \in {"text", "absent", "failed", "corrupt"}
      /\ unreadable[t] <=> Pick(t) \in Wheels(t) /\ release[Pick(t)].serves = "failed"
  BY LandedForm DEF SdistArrives, Rung
<1>2. /\ UNCHANGED setting /\ queued' = queued /\ asks' = asks /\ unreadable' = unreadable
      /\ LadderTypeOK /\ s # NoFile /\ ~targets[t].complete
  BY <1>1, PickForm, LadderAssumption
  DEF SdistArrives, setting, LadderInv, LadderSound, LeftToSdist
<1>3. unreadable[t] \in BOOLEAN
  BY <1>2 DEF LadderTypeOK
<1>4. CASE read[s] = "text"
  <2>1. Parse(t, s)
    BY <1>4 DEF SdistArrives
  <2>2. Readable(s)
    BY <1>1, <1>4 DEF Readable
  <2>3. Ended(t) \/ Waits(t, unreadable'[t])
    BY <1>1, <1>2, <1>3, <2>1, <2>2, ParseEndsOrWaits
  <2>4. QED BY <1>2, <2>3, TurnKept
<1>5. CASE read[s] = "absent"
  <2>1. Return(t, IF unreadable[t] THEN Abort ELSE Skip) /\ UNCHANGED <<known, shared>>
    BY <1>5 DEF SdistArrives, LadderFails
  <2>2. Alone(t) = IF unreadable[t] THEN Abort ELSE Skip
    BY <1>1, <1>2, <1>5 DEF Alone, LeftToSdist, Readable
  <2>3. Ended(t)
    BY <2>1, <2>2, JudgeType, 0 \in Nat DEF Return, Ended, shared
  <2>4. QED BY <1>2, <2>3, TurnKept
<1>6. CASE read[s] = "failed"
  <2>1. Return(t, Abort) /\ UNCHANGED <<known, shared>>
    BY <1>6 DEF SdistArrives
  <2>2. Alone(t) = Abort
    BY <1>1, <1>2, <1>6 DEF Alone, LeftToSdist, Readable
  <2>3. Ended(t)
    BY <2>1, <2>2, JudgeType, 0 \in Nat DEF Return, Ended, shared
  <2>4. QED BY <1>2, <2>3, TurnKept
<1>7. read[s] # "corrupt"
  <2>1. s \in Sdists(t)
    BY <1>1, <1>2, FindSdistForm
  <2>2. release[s].kind # "bare"
    BY <2>1 DEF Sdists, Wheels
  <2>3. QED BY <1>1, <1>2, <2>2, FilesForm
<1>8. QED BY <1>1, <1>4, <1>5, <1>6, <1>7

LEMMA LenderArrivesKept ==
  ASSUME LadderInv, NEW t \in Target, LenderArrives(t)
  PROVE  LadderInv'
<1> DEFINE f == want[t]
           s == FindSdist(t)
           later == {g \in Lenders(t) :
                       IF release[f].kind = "sidecar"
                       THEN release[g].kind # "sidecar" \/ g > f
                       ELSE release[g].kind # "sidecar" /\ g > f}
<1>1. /\ f \in File /\ read[f] = release[f].serves /\ LeftToSdist(t) /\ MayBorrow(t, s)
      /\ read[f] \in {"text", "absent", "failed", "corrupt"} /\ f \in Lenders(t)
      /\ \A g \in Lenders(t) : Precedes(g, f) => release[g].serves = "absent"
  BY LandedForm DEF LenderArrives, Rung
<1>2. /\ UNCHANGED setting /\ queued' = queued /\ asks' = asks /\ unreadable' = unreadable
      /\ LadderTypeOK
  BY DEF LenderArrives, setting, LadderInv, LadderSound
<1>3. unreadable[t] \in BOOLEAN /\ Lenders(t) \subseteq File /\ File \subseteq Nat
  BY <1>2, FilesForm DEF LadderTypeOK, Lenders
<1>4. CASE read[f] = "text"
  <2>1. Lend(t, s, f)
    BY <1>4 DEF LenderArrives
  <2>2. Ended(t)
    BY <1>1, <1>4, <2>1, LendEnds
  <2>3. QED BY <1>2, <2>2, TurnKept
<1>5. CASE read[f] = "absent"
  <2>1. Borrow(t, s, later)
    BY <1>5 DEF LenderArrives
  <2>2. ASSUME NEW g \in Lenders(t) \ later PROVE release[g].serves = "absent"
    <3>1. g \in Nat /\ f \in Nat
      BY <1>1, <1>3
    <3>2. g = f \/ Precedes(g, f)
      BY <3>1 DEF Precedes
    <3>3. QED BY <1>1, <1>5, <3>2
  <2>3. later \in SUBSET Lenders(t)
    OBVIOUS
  <2> HIDE DEF later
  <2>4. Ended(t) \/ Waits(t, unreadable'[t])
    BY <1>1, <1>2, <1>3, <2>1, <2>2, <2>3, BorrowEndsOrWaits
  <2>5. QED BY <1>2, <2>4, TurnKept
<1>6. ASSUME read[f] # "absent"
      PROVE  Alone(t) = IF read[f] = "failed" THEN Abort
                        ELSE IF read[f] = "corrupt" \/ release[f].foreign THEN Skip
                        ELSE Judge(t, release[f].deps, release[s].python)
  <2>1. Lent(t, s) = {f}
    BY <1>1, <1>2, <1>6, LentForm
  <2>2. (CHOOSE x \in Lent(t, s) : TRUE) = f
    BY <2>1
  <2>3. Alone(t) = FromSdist(t, s)
    BY <1>1, <1>2, AloneFromSdist DEF MayBorrow
  <2>4. QED BY <1>1, <1>2, <2>1, <2>2, <2>3, FromDynamic DEF MayBorrow
<1>7. CASE read[f] = "failed"
  <2>1. Return(t, Abort) /\ UNCHANGED <<known, shared>>
    BY <1>7 DEF LenderArrives
  <2>2. Ended(t)
    BY <1>6, <1>7, <2>1, JudgeType, 0 \in Nat DEF Return, Ended, shared
  <2>3. QED BY <1>2, <2>2, TurnKept
<1>8. CASE read[f] = "corrupt"
  <2>1. Refuse(t)
    BY <1>8 DEF LenderArrives
  <2>2. Ended(t)
    BY <1>6, <1>8, <2>1, RefuseEnds
  <2>3. QED BY <1>2, <2>2, TurnKept
<1>9. QED BY <1>1, <1>4, <1>5, <1>7, <1>8

LEMMA PrefetchLandsKept ==
  ASSUME LadderInv, NEW t \in Target, PrefetchLands(t)
  PROVE  LadderInv'
<1>1. /\ UNCHANGED setting /\ UNCHANGED shared /\ unreadable' = unreadable /\ known' = known
      /\ answer' = answer /\ asks' = asks /\ LadderTypeOK /\ at[t] = "prefetch"
      /\ queued' = [queued EXCEPT ![t] = read[want[t]] # "failed"]
      /\ at' = [at EXCEPT ![t] = "idle"] /\ want' = [want EXCEPT ![t] = NoFile]
  BY DEF PrefetchLands, setting, LadderInv, LadderSound
<1>2. /\ release' = release /\ targets' = targets /\ File' = File /\ read' = read
      /\ resolved' = resolved
  BY <1>1, SettingStands DEF setting, shared
<1>3. /\ at \in [Target -> Stages] /\ want \in [Target -> File \cup {NoFile}]
      /\ queued \in [Target -> BOOLEAN]
  BY <1>1 DEF LadderTypeOK
<1>4. LadderTypeOK'
  <2>1. /\ at' \in [Target -> Stages] /\ want' \in [Target -> File \cup {NoFile}]
        /\ queued' \in [Target -> BOOLEAN]
    BY <1>1, <1>3 DEF Stages
  <2>2. QED BY <1>1, <1>2, <2>1 DEF LadderTypeOK
<1>5. (AnsweredAlone /\ DivergenceIsReal)'
  <2>1. \A u \in Target : AnswerSound(u)'
    BY <1>1, AnswersSound, AnswerKept DEF LadderInv, LadderSound
  <2>2. QED BY <2>1 DEF AnsweredAlone, DivergenceIsReal, AnswerSound
<1>6. ReadsServed' /\ StaticKept'
  BY <1>2 DEF LadderInv, ReadsServed, StaticKept, Declared
<1>7. ASSUME NEW u \in Target PROVE Standing(u)'
  <2>1. Standing(u) /\ (at[u] # "idle" => read'[want[u]] # "unread")
    BY <1>2 DEF LadderInv, Standing
  <2>2. CASE u = t
    <3>1. at'[t] = "idle"
      BY <1>1, <1>3
    <3>2. ~targets[t].complete /\ release[Pick(t)].kind = "sidecar"
      BY <1>1, <2>1, <2>2 DEF Standing, Rung
    <3>3. (known[t] # Nothing => known[t] = Alone(t))'
      BY <1>1, <2>1, <2>2, SettingStands DEF Standing, Nothing
    <3>4. QED BY <1>1, <1>2, <2>2, <3>1, <3>2, <3>3, SettingStands DEF Standing, Rung
  <2>3. CASE u # t
    <3>1. at'[u] = at[u] /\ want'[u] = want[u] /\ queued'[u] = queued[u]
      BY <1>1, <1>3, <2>3
    <3>2. QED BY <1>1, <2>1, <3>1, StandingKept
  <2>4. QED BY <2>2, <2>3
<1>8. QED BY <1>4, <1>5, <1>6, <1>7 DEF LadderInv, LadderSound

LEMMA LandKept ==
  ASSUME LadderInv, NEW f \in File, Land(f)
  PROVE  LadderInv'
<1>1. /\ UNCHANGED setting /\ resolved' = resolved /\ at' = at /\ want' = want
      /\ unreadable' = unreadable /\ queued' = queued /\ known' = known /\ answer' = answer
      /\ asks' = asks /\ LadderTypeOK /\ ReadsServed
      /\ read' = [read EXCEPT ![f] = release[f].serves]
  BY DEF Land, setting, LadderInv, LadderSound
<1>2. release' = release /\ targets' = targets /\ File' = File
  BY <1>1, SettingStands DEF setting
<1>3. /\ ReadsServed' /\ read' \in [File -> Reads]
      /\ \A g \in File : read[g] # "unread" => read'[g] # "unread"
  BY <1>1, ReadKept
<1>4. LadderTypeOK'
  BY <1>1, <1>2, <1>3 DEF LadderTypeOK
<1>5. (AnsweredAlone /\ DivergenceIsReal)'
  <2>1. \A u \in Target : AnswerSound(u)'
    BY <1>1, AnswersSound, AnswerKept DEF LadderInv, LadderSound
  <2>2. QED BY <2>1 DEF AnsweredAlone, DivergenceIsReal, AnswerSound
<1>6. StaticKept'
  BY <1>1, <1>2 DEF LadderInv, StaticKept, Declared
<1>7. ASSUME NEW u \in Target PROVE Standing(u)'
  <2>1. Standing(u) /\ (at[u] # "idle" => read[want[u]] # "unread" /\ want[u] \in File)
    BY DEF LadderInv, Standing, Rung
  <2>2. QED BY <1>1, <1>3, <2>1, StandingKept
<1>8. QED BY <1>3, <1>4, <1>5, <1>6, <1>7 DEF LadderInv, LadderSound

LEMMA LadderInitially == LadderInit => LadderInv
<1> SUFFICES ASSUME LadderInit PROVE LadderInv
  OBVIOUS
<1>1. LadderTypeOK
  BY LadderAssumption
  DEF LadderInit, LadderTypeOK, Reads, Stages, Answers, Nothing
<1>2. \A t \in Target : at[t] = "idle" /\ queued[t] = FALSE /\ known[t] = Nothing
                        /\ answer[t] = Nothing
  BY DEF LadderInit
<1>3. AnsweredAlone /\ DivergenceIsReal
  BY <1>2 DEF AnsweredAlone, DivergenceIsReal, Nothing, Diverged
<1>4. ReadsServed /\ StaticKept
  BY DEF LadderInit, ReadsServed, StaticKept
<1>5. \A t \in Target : Standing(t)
  BY <1>2 DEF Standing, Rung
<1>6. QED BY <1>1, <1>3, <1>4, <1>5 DEF LadderInv, LadderSound

LEMMA LadderStep == LadderInv /\ [LadderNext]_ladder => LadderInv'
<1> SUFFICES ASSUME LadderInv, [LadderNext]_ladder PROVE LadderInv'
  OBVIOUS
<1>1. ASSUME NEW t \in Target, Prefetch(t) \/ Ask(t) \/ Turn(t) PROVE LadderInv'
  BY <1>1, PrefetchKept, AskKept, PrefetchLandsKept, WheelRungKept, SdistArrivesKept,
     LenderArrivesKept DEF Turn
<1>2. ASSUME NEW f \in File, Land(f) PROVE LadderInv'
  BY <1>2, LandKept
<1>3. CASE UNCHANGED ladder
  <2>1. /\ UNCHANGED setting /\ read' = read /\ resolved' = resolved /\ at' = at
        /\ want' = want /\ unreadable' = unreadable /\ queued' = queued /\ known' = known
        /\ answer' = answer /\ asks' = asks /\ LadderTypeOK
    BY <1>3 DEF ladder, shared, LadderInv, LadderSound
  <2>2. release' = release /\ targets' = targets /\ File' = File
    BY <2>1, SettingStands DEF setting
  <2>3. LadderTypeOK' /\ ReadsServed' /\ StaticKept'
    BY <2>1, <2>2
    DEF LadderInv, LadderTypeOK, ReadsServed, StaticKept, Declared
  <2>4. (AnsweredAlone /\ DivergenceIsReal)'
    <3>1. \A u \in Target : AnswerSound(u)'
      BY <2>1, AnswersSound, AnswerKept DEF LadderInv, LadderSound
    <3>2. QED BY <3>1 DEF AnsweredAlone, DivergenceIsReal, AnswerSound
  <2>5. \A u \in Target : Standing(u)'
    <3>1. \A u \in Target : Standing(u) /\ (at[u] # "idle" => read'[want[u]] # "unread")
      BY <2>1 DEF LadderInv, Standing
    <3>2. QED BY <2>1, <3>1, StandingKept
  <2>6. QED BY <2>3, <2>4, <2>5 DEF LadderInv, LadderSound
<1>4. QED BY <1>1, <1>2, <1>3 DEF LadderNext, LadderOver

\* Every answer of the ladder is the one the target would get alone, and a reported
\* divergence is one (LadderSound), for any files, targets, policies and queries.
THEOREM AnsweredAsIfAlone == LadderSpec => []LadderSound
<1>1. LadderInv => LadderSound
  BY DEF LadderInv
<1>2. QED BY <1>1, LadderInitially, LadderStep, PTL DEF LadderSpec

----------------------------------------------------------------------------
(* YankedResolution: least sets, which grow with what they are taken from. *)

\* The candidates of S that what is known of S demands, step by step.
Needed(S, seen) == Least(S, LAMBDA c, B : c.of \in Demanded(B \cap seen))

\* Parents, for any set of known candidates.
ParentsBy(c, S, seen) ==
  LET expanded == Ground({d \in S : d.of # c.of}, seen) \cap seen
  IN Least(expanded, LAMBDA d, B : DOMAIN world.deps[d] \cap ({c.of} \cup Packages(B)) # {})

LEMMA ParentsAre == \A c, S : Parents(c, S) = ParentsBy(c, S, Known)
BY DEF Parents, ParentsBy

LEMMA DemandedGrows ==
  ASSUME NEW S, NEW T, S \subseteq T
  PROVE  /\ Demanded(S) \subseteq Demanded(T) /\ Packages(S) \subseteq Packages(T)
         /\ \A c : Permitted(c, S) => Permitted(c, T)
BY DEF Demanded, Packages, Permitted, Pinned

LEMMA NeededForm ==
  ASSUME NEW S, NEW seen
  PROVE  LET N == Needed(S, seen) IN
         /\ N \subseteq S
         /\ \A c \in S \ N : c.of \notin Demanded(N \cap seen)
<1> DEFINE N == Needed(S, seen)
           Closed(B) == \A c \in S \ B : c.of \notin Demanded(B \cap seen)
<1>1. N = {c \in S : \A B \in {B \in SUBSET S : Closed(B)} : c \in B}
  BY DEF Needed, Least
<1> HIDE DEF N
<1>2. ASSUME NEW B \in SUBSET S, Closed(B) PROVE N \subseteq B
  BY <1>1, <1>2
<1>3. ASSUME NEW c \in S \ N PROVE c.of \notin Demanded(N \cap seen)
  <2>1. PICK B \in SUBSET S : Closed(B) /\ c \notin B
    BY <1>1, <1>3
  <2>2. N \cap seen \subseteq B \cap seen
    BY <1>2, <2>1
  <2>3. QED BY <1>3, <2>1, <2>2, DemandedGrows
<1>4. N \subseteq S
  BY <1>1
<1>5. QED BY <1>3, <1>4 DEF N

LEMMA GroundForm ==
  ASSUME NEW S, NEW seen
  PROVE  LET G == Ground(S, seen) IN
         /\ G \subseteq S
         /\ \A c \in S \ G : ~(c.of \in Demanded(G \cap seen) /\ Permitted(c, G \cap seen))
<1> DEFINE G == Ground(S, seen)
           Closed(B) == \A c \in S \ B :
                          ~(c.of \in Demanded(B \cap seen) /\ Permitted(c, B \cap seen))
<1>1. G = {c \in S : \A B \in {B \in SUBSET S : Closed(B)} : c \in B}
  BY DEF Ground, Least
<1> HIDE DEF G
<1>2. ASSUME NEW B \in SUBSET S, Closed(B) PROVE G \subseteq B
  BY <1>1, <1>2
<1>3. ASSUME NEW c \in S \ G
      PROVE  ~(c.of \in Demanded(G \cap seen) /\ Permitted(c, G \cap seen))
  <2>1. PICK B \in SUBSET S : Closed(B) /\ c \notin B
    BY <1>1, <1>3
  <2>2. G \cap seen \subseteq B \cap seen
    BY <1>2, <2>1
  <2>3. QED BY <1>3, <2>1, <2>2, DemandedGrows
<1>4. G \subseteq S
  BY <1>1
<1>5. QED BY <1>3, <1>4 DEF G

LEMMA GroundLeast ==
  ASSUME NEW S, NEW seen, NEW B \in SUBSET S,
         \A c \in S \ B : ~(c.of \in Demanded(B \cap seen) /\ Permitted(c, B \cap seen))
  PROVE  Ground(S, seen) \subseteq B
<1>1. B \in {X \in SUBSET S : \A c \in S \ X :
               ~(c.of \in Demanded(X \cap seen) /\ Permitted(c, X \cap seen))}
  OBVIOUS
<1>2. QED BY <1>1 DEF Ground, Least

\* Established candidates stay established when more is selected or known.
LEMMA GroundGrows ==
  ASSUME NEW S, NEW T, S \subseteq T, NEW seen, NEW more, seen \subseteq more
  PROVE  Ground(S, seen) \subseteq Ground(T, more)
<1> DEFINE B == Ground(T, more) \cap S
<1>1. B \cap seen \subseteq Ground(T, more) \cap more
  OBVIOUS
<1>2. ASSUME NEW c \in S \ B
      PROVE  ~(c.of \in Demanded(B \cap seen) /\ Permitted(c, B \cap seen))
  <2>1. c \in T \ Ground(T, more)
    OBVIOUS
  <2>2. ~(/\ c.of \in Demanded(Ground(T, more) \cap more)
          /\ Permitted(c, Ground(T, more) \cap more))
    BY <2>1, GroundForm
  <2>3. QED BY <1>1, <2>2, DemandedGrows
<1>3. B \in SUBSET S
  OBVIOUS
<1> HIDE DEF B
<1>4. Ground(S, seen) \subseteq B
  BY <1>2, <1>3, GroundLeast
<1>5. QED BY <1>4 DEF B

LEMMA ParentsForm ==
  ASSUME NEW c, NEW S, NEW seen
  PROVE  LET P == ParentsBy(c, S, seen)
             E == Ground({d \in S : d.of # c.of}, seen) \cap seen
         IN /\ P \subseteq E
            /\ \A d \in E \ P : DOMAIN world.deps[d] \cap ({c.of} \cup Packages(P)) = {}
<1> DEFINE P == ParentsBy(c, S, seen)
           E == Ground({d \in S : d.of # c.of}, seen) \cap seen
           Closed(B) == \A d \in E \ B :
                          DOMAIN world.deps[d] \cap ({c.of} \cup Packages(B)) = {}
<1>1. P = {d \in E : \A B \in {B \in SUBSET E : Closed(B)} : d \in B}
  BY DEF ParentsBy, Least
<1> HIDE DEF P, E
<1>2. ASSUME NEW B \in SUBSET E, Closed(B) PROVE P \subseteq B
  BY <1>1, <1>2
<1>3. ASSUME NEW d \in E \ P
      PROVE  DOMAIN world.deps[d] \cap ({c.of} \cup Packages(P)) = {}
  <2>1. PICK B \in SUBSET E : Closed(B) /\ d \notin B
    BY <1>1, <1>3
  <2>2. Packages(P) \subseteq Packages(B)
    BY <1>2, <2>1, DemandedGrows
  <2>3. QED BY <1>3, <2>1, <2>2
<1>4. P \subseteq E
  BY <1>1
<1>5. QED BY <1>3, <1>4 DEF P, E

LEMMA ParentsLeast ==
  ASSUME NEW c, NEW S, NEW seen,
         NEW B \in SUBSET (Ground({d \in S : d.of # c.of}, seen) \cap seen),
         \A d \in (Ground({d \in S : d.of # c.of}, seen) \cap seen) \ B :
           DOMAIN world.deps[d] \cap ({c.of} \cup Packages(B)) = {}
  PROVE  ParentsBy(c, S, seen) \subseteq B
<1> DEFINE E == Ground({d \in S : d.of # c.of}, seen) \cap seen
<1>1. B \in {X \in SUBSET E : \A d \in E \ X :
               DOMAIN world.deps[d] \cap ({c.of} \cup Packages(X)) = {}}
  OBVIOUS
<1>2. QED BY <1>1 DEF ParentsBy, Least

LEMMA NeededLeast ==
  ASSUME NEW S, NEW seen, NEW B \in SUBSET S,
         \A c \in S \ B : c.of \notin Demanded(B \cap seen)
  PROVE  Needed(S, seen) \subseteq B
<1>1. B \in {X \in SUBSET S : \A c \in S \ X : c.of \notin Demanded(X \cap seen)}
  OBVIOUS
<1>2. QED BY <1>1 DEF Needed, Least

LEMMA ParentsGrow ==
  ASSUME NEW c, NEW S, NEW T, S \subseteq T, NEW seen, NEW more, seen \subseteq more
  PROVE  ParentsBy(c, S, seen) \subseteq ParentsBy(c, T, more)
<1> DEFINE E == Ground({d \in S : d.of # c.of}, seen) \cap seen
           F == Ground({d \in T : d.of # c.of}, more) \cap more
           P == ParentsBy(c, T, more)
           B == P \cap E
<1>1. E \subseteq F
  <2>1. {d \in S : d.of # c.of} \subseteq {d \in T : d.of # c.of}
    OBVIOUS
  <2>2. QED BY <2>1, GroundGrows
<1>2. P \subseteq F /\ \A d \in F \ P : DOMAIN world.deps[d] \cap ({c.of} \cup Packages(P)) = {}
  BY ParentsForm
<1>3. Packages(B) \subseteq Packages(P)
  BY DEF Packages
<1>4. \A d \in E \ B : DOMAIN world.deps[d] \cap ({c.of} \cup Packages(B)) = {}
  BY <1>1, <1>2, <1>3
<1>5. B \in SUBSET E
  OBVIOUS
<1> HIDE DEF P, B, F
<1>6. ParentsBy(c, S, seen) \subseteq B
  BY <1>4, <1>5, ParentsLeast
<1>7. QED BY <1>6 DEF B, P

----------------------------------------------------------------------------
(* What solves a scope. *)

\* A selection that leaves nothing it is asked for undone.
Whole(T, seen) ==
  /\ \A c, d \in T : c.of = d.of => c = d
  /\ Meets(T, world.roots) /\ \A c \in T \cap seen : Meets(T, world.deps[c])

LEMMA ObeysForm ==
  ASSUME NEW S, NEW seen
  PROVE  Obeys(S, seen) <=> Whole(S, seen) /\ S = Needed(S, seen)
BY DEF Obeys, Whole, Needed

\* What the known candidates of a whole selection demand obeys their clauses.
LEMMA NeededObeys ==
  ASSUME NEW T, NEW seen, Whole(T, seen)
  PROVE  Obeys(Needed(T, seen), seen) /\ Needed(T, seen) \subseteq T
<1> DEFINE N == Needed(T, seen)
<1>1. N \subseteq T /\ \A c \in T \ N : c.of \notin Demanded(N \cap seen)
  BY NeededForm
<1> HIDE DEF N
<1>2. ASSUME NEW p \in Demanded(N \cap seen), NEW c \in T, c.of = p PROVE c \in N
  BY <1>1, <1>2
<1>3. Meets(N, world.roots)
  <2>1. \A p \in DOMAIN world.roots : p \in Demanded(N \cap seen)
    BY DEF Demanded
  <2>2. QED BY <1>2, <2>1 DEF Whole, Meets
<1>4. ASSUME NEW c \in N \cap seen PROVE Meets(N, world.deps[c])
  <2>1. \A p \in DOMAIN world.deps[c] : p \in Demanded(N \cap seen)
    BY DEF Demanded
  <2>2. Meets(T, world.deps[c])
    BY <1>1 DEF Whole
  <2>3. QED BY <1>2, <2>1, <2>2 DEF Meets
<1>5. \A c, d \in N : c.of = d.of => c = d
  BY <1>1 DEF Whole
<1>6. N = Needed(N, seen)
  <2> DEFINE B == Needed(N, seen)
  <2>1. B \subseteq N /\ \A c \in N \ B : c.of \notin Demanded(B \cap seen)
    BY NeededForm
  <2> HIDE DEF B
  <2>2. \A c \in T \ B : c.of \notin Demanded(B \cap seen)
    <3>1. Demanded(B \cap seen) \subseteq Demanded(N \cap seen)
      <4>1. B \cap seen \subseteq N \cap seen
        BY <2>1
      <4>2. QED BY <4>1, DemandedGrows
    <3>2. QED BY <1>1, <2>1, <3>1
  <2>3. B \in SUBSET T
    BY <1>1, <2>1
  <2>4. N \subseteq B
    BY <2>2, <2>3, NeededLeast DEF N
  <2>5. QED BY <2>1, <2>4 DEF B
<1>7. QED BY <1>1, <1>3, <1>4, <1>5, <1>6, ObeysForm DEF Whole, N

\* The parents of an established candidate are in every whole selection that leaves
\* them as they are, and so is the candidate's package.
LEMMA ParentsStay ==
  ASSUME NEW S, NEW seen, NEW c \in Ground(S, seen), NEW T, Whole(T, T),
         \A d \in S : d.of = c.of => d = c,
         \A d \in T : \A f \in ParentsBy(c, S, seen) : d.of = f.of => d = f
  PROVE  ParentsBy(c, S, seen) \subseteq T /\ c.of \in Packages(T)
<1> DEFINE others == {d \in S : d.of # c.of}
           G == Ground(others, seen)
           E == G \cap seen
           P == ParentsBy(c, S, seen)
<1>1. P \subseteq E /\ \A d \in E \ P : DOMAIN world.deps[d] \cap ({c.of} \cup Packages(P)) = {}
  BY ParentsForm
<1>2. G \subseteq others
      /\ \A d \in others \ G : ~(d.of \in Demanded(E) /\ Permitted(d, E))
  BY GroundForm
<1>3. c.of \in Demanded(E)
  <2>1. SUFFICES ASSUME c.of \notin Demanded(E) PROVE FALSE
    OBVIOUS
  <2>2. \A d \in S \ G : ~(d.of \in Demanded(G \cap seen) /\ Permitted(d, G \cap seen))
    <3>1. TAKE d \in S \ G
    <3>2. CASE d.of = c.of
      BY <2>1, <3>2
    <3>3. CASE d.of # c.of
      BY <1>2, <3>3
    <3>4. QED BY <3>2, <3>3
  <2>3. G \in SUBSET S
    BY <1>2
  <2> HIDE DEF G
  <2>4. Ground(S, seen) \subseteq G
    BY <2>2, <2>3, GroundLeast
  <2>5. c \notin G
    BY <1>2
  <2>6. QED BY <2>4, <2>5
<1>4. P \subseteq T
  <2> DEFINE B == {x \in G : x \in P => x \in T}
  <2>1. ASSUME NEW x \in others \ B
        PROVE  ~(x.of \in Demanded(B \cap seen) /\ Permitted(x, B \cap seen))
    <3>1. CASE x \notin G
      <4>1. B \cap seen \subseteq E
        OBVIOUS
      <4>2. ~(x.of \in Demanded(E) /\ Permitted(x, E))
        BY <1>2, <3>1
      <4>3. QED BY <4>1, <4>2, DemandedGrows
    <3>2. CASE x \in P /\ x \notin T
      <4>1. SUFFICES ASSUME x.of \in Demanded(B \cap seen) PROVE FALSE
        OBVIOUS
      <4>2. \E y \in T : y.of = x.of
        <5>1. CASE x.of \in DOMAIN world.roots
          BY <5>1 DEF Whole, Meets
        <5>2. CASE x.of \notin DOMAIN world.roots
          <6>1. PICK z \in B \cap seen : x.of \in DOMAIN world.deps[z]
            BY <4>1, <5>2 DEF Demanded
          <6>2. x.of \in Packages(P)
            BY <3>2 DEF Packages
          <6>3. z \in E
            BY <6>1
          <6>4. z \in P
            BY <1>1, <6>1, <6>2, <6>3
          <6>5. z \in T
            BY <6>1, <6>4
          <6>6. Meets(T, world.deps[z])
            BY <6>5 DEF Whole
          <6>7. QED BY <6>1, <6>6 DEF Meets
        <5>3. QED BY <5>1, <5>2
      <4>3. QED BY <3>2, <4>2
    <3>3. QED BY <2>1, <3>1, <3>2
  <2>2. B \in SUBSET others
    BY <1>2
  <2> HIDE DEF B
  <2>3. G \subseteq B
    BY <2>1, <2>2, GroundLeast
  <2>4. QED BY <1>1, <2>3 DEF B
<1>5. c.of \in Packages(T)
  <2>1. CASE c.of \in DOMAIN world.roots
    BY <2>1 DEF Whole, Meets, Packages
  <2>2. CASE c.of \notin DOMAIN world.roots
    <3>1. PICK d \in E : c.of \in DOMAIN world.deps[d]
      BY <1>3, <2>2 DEF Demanded
    <3>2. d \in P
      BY <1>1, <3>1
    <3>3. Meets(T, world.deps[d])
      BY <1>4, <3>2 DEF Whole
    <3>4. QED BY <3>1, <3>3 DEF Meets, Packages
  <2>3. QED BY <2>1, <2>2
<1>6. QED BY <1>4, <1>5

----------------------------------------------------------------------------
(* The invariant of the preference search. *)

Scopes == [fixed : SUBSET Candidates, live : SUBSET Packages(Candidates),
           target : Packages(Candidates) \cup {NoPackage}]
Contexts == Scopes \X SUBSET Candidates
Decisions == [selected : SUBSET Candidates, met : SUBSET Candidates]

SearchTyped ==
  /\ world \in Worlds /\ stack \in Seq(Scopes) /\ stack # << >>
  /\ path \in Seq(Decisions) /\ path # << >>
  /\ learned \subseteq Known /\ incomplete \in BOOLEAN
  /\ facts \subseteq Candidates /\ result \subseteq Candidates
  /\ proofs \in [impossible : SUBSET Scopes, unknown : SUBSET Scopes,
                 refuted : SUBSET Contexts, possible : SUBSET (Contexts \X Nat)]

\* Metadata that could not be read is no fact.
FactsRead == \A c \in facts : world.meta[c] # "unavailable"

\* A query that looks for a live candidate cannot lose its package.
Keeps(T, fixed) == \A d \in T : \A f \in fixed : d.of = f.of => d = f
Targeted(q) ==
  \A T \in SUBSET world.choices : Whole(T, T) /\ Keeps(T, q.fixed) => q.target \in Packages(T)
ScopesRight ==
  /\ stack[1] = RootScope
  /\ \A i \in DOMAIN stack : stack[i].target # NoPackage => Targeted(stack[i])

\* Metadata was used of established candidates, and of yanked ones where nothing
\* live would do.
DecisionRight(d) ==
  /\ \A c \in d.selected : c \in world.choices /\ Eligible(c, Scope)
  /\ d.met \subseteq d.selected /\ d.met \subseteq learned
  /\ d.met \subseteq Ground(d.selected, Known)
  /\ \A c \in d.met : c.withdrawn => ~Solvable(LiveQuery(c, d.selected))

\* What is ruled out solves nothing, as long as nothing was left unread.
BlocksRight ==
  ~incomplete =>
    \A T \in SUBSET world.choices : Solution(T, Scope) => \A b \in blocked : ~ b \subseteq T

SearchInv ==
  /\ SearchTyped /\ FactsRead /\ ScopesRight /\ BlocksRight
  /\ \A i \in DOMAIN path : DecisionRight(path[i])
  /\ RefusalsHold /\ LastResort

----------------------------------------------------------------------------
(* What stands while the world does. *)

LEMMA GroundStands ==
  ASSUME UNCHANGED world
  PROVE  \A S, seen : Ground(S, seen)' = Ground(S, seen)
BY DEF Ground, Least, Demanded, Permitted, Pinned

LEMMA ParentsStand ==
  ASSUME UNCHANGED world
  PROVE  \A c, S : Parents(c, S)' = ParentsBy(c, S, Known')
<1>1. \A S, seen : Ground(S, seen)' = Ground(S, seen)
  BY GroundStands
<1>2. QED BY <1>1 DEF Parents, ParentsBy, Least, Packages

LEMMA ObeysStands ==
  ASSUME UNCHANGED world
  PROVE  /\ \A S, seen : Whole(S, seen)' = Whole(S, seen)
         /\ \A S, seen : Obeys(S, seen)' = Obeys(S, seen)
         /\ \A S : Founded(S)' = Founded(S)
BY DEF Whole, Obeys, Founded, Least, Meets, Demanded, Permitted, Pinned

LEMMA ScopesStand ==
  ASSUME UNCHANGED world
  PROVE  /\ \A S, q : Solution(S, q)' = Solution(S, q)
         /\ \A q : Solvable(q)' = Solvable(q)
         /\ \A q : Targeted(q)' = Targeted(q)
<1>1. \A S, seen : Whole(S, seen)' = Whole(S, seen)
  BY ObeysStands
<1>2. \A S, seen : Obeys(S, seen)' = Obeys(S, seen)
  BY ObeysStands
<1>3. \A S : Founded(S)' = Founded(S)
  BY ObeysStands
<1>4. QED
  BY <1>1, <1>2, <1>3 DEF Solvable, Solution, Eligible, Targeted, Packages, Keeps

\* More is fixed or live, and less solves the scope.
LEMMA SolvableShrinks ==
  ASSUME NEW q, NEW r, q.fixed \subseteq r.fixed, q.live \subseteq r.live, Solvable(r)
  PROVE  Solvable(q)
BY DEF Solvable, Solution, Eligible

LEMMA KnownGrows ==
  ASSUME UNCHANGED world, facts \subseteq facts'
  PROVE  Known \subseteq Known'
BY DEF Known

LEMMA RefusedLonger ==
  ASSUME UNCHANGED world, UNCHANGED Scope, Known \subseteq Known',
         NEW c, NEW S, NEW T, S \subseteq T, ~Solvable(LiveQuery(c, S))
  PROVE  ~Solvable(LiveQuery(c, T))'
<1> DEFINE q == LiveQuery(c, S)
           r == [fixed |-> ParentsBy(c, T, Known'), target |-> c.of,
                 live |-> Scope.live \cup {c.of} \cup Packages({d \in T : ~d.withdrawn})]
<1>1. q.fixed \subseteq r.fixed
  BY ParentsGrow, ParentsAre DEF LiveQuery
<1>2. q.live \subseteq r.live
  BY DEF LiveQuery, Packages
<1>3. ~Solvable(r)
  <2> HIDE DEF q, r
  <2>1. QED BY <1>1, <1>2, SolvableShrinks DEF q
<1>4. LiveQuery(c, T)' = r
  <2>1. \A d, S1 : Parents(d, S1)' = ParentsBy(d, S1, Known')
    BY ParentsStand
  <2>2. QED BY <2>1 DEF LiveQuery, Packages
<1> HIDE DEF r
<1>5. \A x : Solvable(x)' = Solvable(x)
  BY ScopesStand
<1>6. QED BY <1>3, <1>4, <1>5

LEMMA DecisionsKept ==
  ASSUME UNCHANGED world, UNCHANGED Scope, Known \subseteq Known', learned \subseteq learned'
  PROVE  \A d : DecisionRight(d) => DecisionRight(d)'
<1> SUFFICES ASSUME NEW d, DecisionRight(d) PROVE DecisionRight(d)'
  OBVIOUS
<1>1. \A c \in d.selected : (c \in world.choices /\ Eligible(c, Scope))'
  BY DEF DecisionRight, Eligible
<1>2. (d.met \subseteq d.selected /\ d.met \subseteq learned)'
  BY DEF DecisionRight
<1>3. (d.met \subseteq Ground(d.selected, Known))'
  <2>1. \A S, seen : Ground(S, seen)' = Ground(S, seen)
    BY GroundStands
  <2>2. Ground(d.selected, Known) \subseteq Ground(d.selected, Known')
    BY GroundGrows
  <2>3. QED BY <2>1, <2>2 DEF DecisionRight
<1>4. ASSUME NEW c \in d.met, c.withdrawn PROVE ~Solvable(LiveQuery(c, d.selected))'
  <2>1. ~Solvable(LiveQuery(c, d.selected))
    BY <1>4 DEF DecisionRight
  <2>2. QED BY <2>1, RefusedLonger
<1>5. QED BY <1>1, <1>2, <1>3, <1>4 DEF DecisionRight

\* A step within a query.
LEMMA QueryGoesOn ==
  ASSUME SearchInv, Searching, UNCHANGED <<world, stack, proofs, verdict, result>>,
         SearchTyped', FactsRead', BlocksRight', 
         (\A i \in DOMAIN path : DecisionRight(path[i]))'
  PROVE  SearchInv'
<1>1. \A q : Solvable(q)' = Solvable(q)
  BY ScopesStand
<1>2. \A q : Targeted(q)' = Targeted(q)
  BY ScopesStand
<1>3. ScopesRight'
  BY <1>2 DEF SearchInv, ScopesRight, RootScope
<1>4. RefusalsHold'
  BY <1>1 DEF SearchInv, RefusalsHold, RootScope
<1>5. YankedTypeOK'
  BY DEF SearchTyped, DecisionRight, YankedTypeOK
<1>6. LastResort'
  BY <1>5 DEF LastResort, PermittedLast, Searching
<1>7. QED BY <1>3, <1>4, <1>6 DEF SearchInv

\* A query begun anew.
LEMMA QueryBegins ==
  ASSUME SearchInv, UNCHANGED <<world, facts, result>>, NewQuery,
         SearchTyped', ScopesRight', RefusalsHold', verdict' # "solved"
  PROVE  SearchInv'
<1>1. FactsRead'
  BY DEF SearchInv, FactsRead
<1>2. BlocksRight'
  BY DEF BlocksRight, NewQuery
<1>3. (\A i \in DOMAIN path : DecisionRight(path[i]))'
  BY DEF DecisionRight, NewQuery, FirstStep
<1>4. YankedTypeOK'
  BY <1>3 DEF SearchTyped, DecisionRight, YankedTypeOK
<1>5. LastResort'
  BY <1>4 DEF LastResort, PermittedLast
<1>6. QED BY <1>1, <1>2, <1>3, <1>5 DEF SearchInv

----------------------------------------------------------------------------
(* What the search knows where it stands. *)

LEMMA SolutionWhole ==
  ASSUME SearchTyped, NEW q, NEW T \in SUBSET world.choices, Solution(T, q), NEW seen
  PROVE  Whole(T, T) /\ Whole(T, seen)
<1>1. T \subseteq Candidates
  BY WorldAssumption DEF SearchTyped
<1>2. Obeys(T, Candidates)
  BY DEF Solution
<1>3. QED BY <1>1, <1>2 DEF Obeys, Whole

LEMMA HereTyped ==
  ASSUME SearchInv
  PROVE  /\ Scope \in Scopes /\ Selected \in SUBSET Candidates /\ Met \in SUBSET Candidates
         /\ Selected \subseteq world.choices /\ world.choices \subseteq Candidates
         /\ \A c \in Selected : Eligible(c, Scope)
         /\ Met \subseteq Selected /\ Met \subseteq learned /\ learned \subseteq Known
         /\ Met \subseteq Ground(Selected, Known)
         /\ \A c \in Met : c.withdrawn => ~Solvable(LiveQuery(c, Selected))
<1>1. Len(stack) \in DOMAIN stack /\ Len(path) \in DOMAIN path
  BY DEF SearchInv, SearchTyped
<1>2. Scope \in Scopes /\ path[Len(path)] \in Decisions /\ DecisionRight(path[Len(path)])
  BY <1>1 DEF SearchInv, SearchTyped, Scope
<1>3. world.choices \subseteq Candidates /\ learned \subseteq Known
  BY WorldAssumption DEF SearchInv, SearchTyped
<1>4. QED BY <1>2, <1>3 DEF DecisionRight, Decisions, Selected, Met

LEMMA LiveQueryTyped ==
  ASSUME SearchInv, NEW c \in world.choices
  PROVE  LiveQuery(c, Selected) \in Scopes
<1>1. Parents(c, Selected) \subseteq Selected
  <2>1. ParentsBy(c, Selected, Known) \subseteq Ground({d \in Selected : d.of # c.of}, Known)
    BY ParentsForm
  <2>2. Ground({d \in Selected : d.of # c.of}, Known) \subseteq {d \in Selected : d.of # c.of}
    BY GroundForm
  <2>3. QED BY <2>1, <2>2, ParentsAre
<1>2. Packages({d \in Selected : ~d.withdrawn}) \subseteq Packages(Candidates)
  BY HereTyped DEF Packages
<1>3. c.of \in Packages(Candidates)
  BY HereTyped DEF Packages
<1>4. QED BY <1>1, <1>2, <1>3, HereTyped DEF LiveQuery, Scopes

LEMMA ParentsFound ==
  ASSUME SearchInv, NEW c \in world.choices, Preparing(c), NEW T, Whole(T, T),
         Keeps(T, Parents(c, Selected))
  PROVE  Parents(c, Selected) \subseteq T /\ c.of \in Packages(T)
<1>1. c \in Ground(Selected, Known) /\ \A d \in Selected : d.of = c.of => d = c
  BY DEF Preparing, Deciding, Decided, Obeys
<1>2. \A d \in T : \A f \in ParentsBy(c, Selected, Known) : d.of = f.of => d = f
  BY ParentsAre DEF Keeps
<1>3. ParentsBy(c, Selected, Known) \subseteq T /\ c.of \in Packages(T)
  BY <1>1, <1>2, ParentsStay
<1>4. QED BY <1>3, ParentsAre

LEMMA TargetStays ==
  ASSUME SearchInv, NEW c \in world.choices, Preparing(c)
  PROVE  Targeted(LiveQuery(c, Selected))
<1>1. ASSUME NEW T \in SUBSET world.choices, Whole(T, T), Keeps(T, Parents(c, Selected))
      PROVE  c.of \in Packages(T)
  BY <1>1, ParentsFound
<1>2. QED BY <1>1 DEF Targeted, LiveQuery

\* With no live choice in range, no solution has one.
LEMMA NothingLive ==
  ASSUME SearchInv, NEW c \in world.choices, Preparing(c), ~LiveChoice(c)
  PROVE  ~Solvable(LiveQuery(c, Selected))
<1> DEFINE q == LiveQuery(c, Selected)
<1>1. SUFFICES ASSUME NEW T \in SUBSET world.choices, Solution(T, q) PROVE FALSE
  BY DEF Solvable
<1>2. Whole(T, T)
  BY <1>1, SolutionWhole DEF SearchInv
<1>3. \A d \in T : Eligible(d, q)
  BY <1>1 DEF Solution
<1>4. Keeps(T, Parents(c, Selected))
  BY <1>3 DEF Keeps, Eligible, LiveQuery
<1>5. Parents(c, Selected) \subseteq T /\ c.of \in Packages(T)
  BY <1>2, <1>4, ParentsFound
<1>6. PICK d \in T : d.of = c.of
  BY <1>5 DEF Packages
<1>7. ~d.withdrawn
  BY <1>3, <1>6 DEF Eligible, LiveQuery
<1>8. d \in Allowed(c, Parents(c, Selected))
  <2>1. Within(d, world.roots) /\ \A e \in T : Within(d, world.deps[e])
    BY <1>2 DEF Whole, Meets, Within
  <2>2. QED BY <1>1, <1>5, <1>6, <2>1 DEF Allowed
<1>9. QED BY <1>7, <1>8 DEF LiveChoice

----------------------------------------------------------------------------
(* What is ruled out solves nothing. *)

\* A selection with nothing left that could be permitted.
LEMMA Unpermitted ==
  ASSUME SearchInv, Deciding, Selected # Met, Ground(Selected, Known) \subseteq Met,
         NEW T \in SUBSET world.choices, Solution(T, Scope), Selected \subseteq T
  PROVE  FALSE
<1>1. Met \subseteq Selected /\ Met \subseteq learned /\ Met \subseteq Known
      /\ Met \subseteq Ground(Selected, Known)
  BY HereTyped
<1>2. T \ Met # {} /\ T \ (T \ Met) = Met
  BY <1>1
<1>3. PICK c \in T \ Met : c.of \in Demanded(Met) /\ Permitted(c, Met)
  BY <1>2 DEF Solution, Founded
<1>4. c \in Selected
  <2>1. \E d \in Selected : d.of = c.of
    <3>1. CASE c.of \in DOMAIN world.roots
      BY <3>1 DEF Deciding, Decided, Obeys, Meets
    <3>2. CASE c.of \notin DOMAIN world.roots
      <4>1. PICK e \in Met : c.of \in DOMAIN world.deps[e]
        BY <1>3, <3>2 DEF Demanded
      <4>2. Meets(Selected, world.deps[e])
        BY <1>1, <4>1 DEF Deciding, Decided, Obeys
      <4>3. QED BY <4>1, <4>2 DEF Meets
    <3>3. QED BY <3>1, <3>2
  <2>2. Whole(T, T)
    BY SolutionWhole DEF SearchInv
  <2>3. QED BY <1>3, <2>1, <2>2 DEF Whole
<1>5. Met = Ground(Selected, Known) /\ Met \cap Known = Met
  BY <1>1
<1>6. QED BY <1>3, <1>4, <1>5, GroundForm

\* A yanked candidate out of the range of its parents.
LEMMA OutOfRange ==
  ASSUME SearchInv, NEW c \in world.choices, Preparing(c), ~InRange(c),
         NEW T \in SUBSET world.choices, Solution(T, Scope), Selected \subseteq T
  PROVE  FALSE
<1>1. Whole(T, T) /\ c \in T
  BY SolutionWhole DEF SearchInv, Preparing
<1>2. Keeps(T, Parents(c, Selected))
  <2>1. Parents(c, Selected) \subseteq T
    <3>1. ParentsBy(c, Selected, Known) \subseteq Ground({d \in Selected : d.of # c.of}, Known)
      BY ParentsForm
    <3>2. Ground({d \in Selected : d.of # c.of}, Known) \subseteq {d \in Selected : d.of # c.of}
      BY GroundForm
    <3>3. QED BY <3>1, <3>2, ParentsAre
  <2>2. QED BY <1>1, <2>1 DEF Whole, Keeps
<1>3. Parents(c, Selected) \subseteq T
  BY <1>1, <1>2, ParentsFound
<1>4. Within(c, world.roots) /\ \A e \in T : Within(c, world.deps[e])
  BY <1>1 DEF Whole, Meets, Within
<1>5. c \in Allowed(c, Parents(c, Selected))
  BY <1>3, <1>4 DEF Allowed
<1>6. QED BY <1>5 DEF InRange

\* A context that was refuted.
LEMMA RefutedContext ==
  ASSUME SearchInv, Context \in proofs.refuted,
         NEW T \in SUBSET world.choices, Solution(T, Scope), Selected \subseteq T
  PROVE  FALSE
<1> DEFINE q == [Scope EXCEPT !.fixed = @ \cup Selected]
<1>1. ~Solvable(q)
  BY DEF SearchInv, RefusalsHold, Context
<1>2. Whole(T, T)
  BY SolutionWhole DEF SearchInv
<1>3. q.fixed = Scope.fixed \cup Selected /\ q.live = Scope.live
  BY HereTyped DEF Scopes
<1>4. \A d \in T : Eligible(d, q)
  <2>1. \A d \in T : Eligible(d, Scope)
    BY DEF Solution
  <2>2. QED BY <1>2, <1>3, <2>1 DEF Eligible, Whole
<1> HIDE DEF q
<1>5. Solution(T, q)
  BY <1>4 DEF Solution
<1>6. QED BY <1>1, <1>5 DEF Solvable

\* What the facts do not leave open.
LEMMA Inconsistent ==
  ASSUME SearchInv, ~Consistent(Scope, Selected)
  PROVE  ~Solvable([Scope EXCEPT !.fixed = @ \cup Selected])
<1> DEFINE q == [Scope EXCEPT !.fixed = @ \cup Selected]
<1> SUFFICES ASSUME NEW T \in SUBSET world.choices, Solution(T, q) PROVE FALSE
  BY DEF Solvable
<1> HIDE DEF q
<1>1. Whole(T, Known)
  BY SolutionWhole DEF SearchInv
<1>2. Obeys(Needed(T, Known), Known) /\ Needed(T, Known) \subseteq T
  BY <1>1, NeededObeys
<1>3. \A c \in T : Eligible(c, q) /\ (c \in facts => c \in Known)
  <2>1. \A c \in Candidates : world.meta[c] \in {"read", "rejected", "unavailable"}
    BY WorldAssumption DEF SearchInv, SearchTyped
  <2>2. \A c \in T : Eligible(c, q) /\ world.meta[c] # "rejected"
    BY DEF Solution
  <2>3. QED BY <2>1, <2>2 DEF SearchInv, SearchTyped, FactsRead, Known
<1>4. QED BY <1>2, <1>3 DEF Consistent, q

\* A query that read all it met and has nothing left to try.
LEMMA Exhausted ==
  ASSUME SearchInv, Completions({}) = {}, ~incomplete
  PROVE  ~Solvable(Scope)
<1> SUFFICES ASSUME NEW T \in SUBSET world.choices, Solution(T, Scope) PROVE FALSE
  BY DEF Solvable
<1>1. Whole(T, learned)
  BY SolutionWhole DEF SearchInv
<1>2. Obeys(Needed(T, learned), learned) /\ Needed(T, learned) \subseteq T
  BY <1>1, NeededObeys
<1>3. \A c \in T : Eligible(c, Scope)
  BY DEF Solution
<1>4. \A b \in blocked : ~ b \subseteq T
  BY DEF SearchInv, BlocksRight
<1>5. Needed(T, learned) \in Completions({})
  BY <1>2, <1>3, <1>4 DEF Completions
<1>6. QED BY <1>5

\* A selection whose metadata was all read and permitted.
LEMMA SelectionSolves ==
  ASSUME SearchInv, Deciding, Met = Selected
  PROVE  Solution(Selected, Scope)
<1>1. Selected \subseteq learned /\ Selected \subseteq Known /\ Selected \subseteq Candidates
      /\ Selected \subseteq Ground(Selected, Known)
  BY HereTyped
<1>2. \A c \in Selected : Eligible(c, Scope) /\ world.meta[c] # "rejected"
  BY <1>1, HereTyped DEF Known
<1>3. Obeys(Selected, Candidates)
  <2>1. Whole(Selected, learned) /\ Selected = Needed(Selected, learned)
    BY ObeysForm DEF Deciding, Decided
  <2>2. Whole(Selected, Candidates)
    BY <1>1, <2>1 DEF Whole
  <2> DEFINE N == Needed(Selected, Candidates)
  <2>3. N \subseteq Selected /\ \A c \in Selected \ N : c.of \notin Demanded(N \cap Candidates)
    BY NeededForm
  <2> HIDE DEF N
  <2>4. N \cap Candidates = N \cap learned
    BY <1>1, <2>3
  <2>5. Needed(Selected, learned) \subseteq N
    BY <2>3, <2>4, NeededLeast
  <2>6. Selected = N
    BY <2>1, <2>3, <2>5
  <2>7. QED BY <2>2, <2>6, ObeysForm DEF N
<1>4. ASSUME NEW U \in (SUBSET Selected) \ {{}}
      PROVE  \E c \in U : c.of \in Demanded(Selected \ U) /\ Permitted(c, Selected \ U)
  <2> SUFFICES ASSUME \A c \in U : ~(/\ c.of \in Demanded(Selected \ U)
                                     /\ Permitted(c, Selected \ U))
               PROVE  FALSE
    OBVIOUS
  <2> DEFINE B == Selected \ U
  <2>1. B \cap Known = B /\ Selected \ B = U /\ B \in SUBSET Selected
    BY <1>1
  <2>2. Ground(Selected, Known) \subseteq B
    <3>1. \A c \in Selected \ B : ~(c.of \in Demanded(B \cap Known) /\ Permitted(c, B \cap Known))
      BY <2>1
    <3> HIDE DEF B
    <3>2. QED BY <2>1, <3>1, GroundLeast
  <2>3. QED BY <1>1, <2>2
<1>5. QED BY <1>2, <1>3, <1>4 DEF Solution, Founded

----------------------------------------------------------------------------
(* The steps. *)

LEMMA Appended ==
  ASSUME NEW X, NEW s \in Seq(X), NEW e \in X
  PROVE  /\ Append(s, e) \in Seq(X) /\ Append(s, e) # << >>
         /\ Append(s, e)[1] = IF s = << >> THEN e ELSE s[1]
         /\ \A i \in DOMAIN Append(s, e) :
              Append(s, e)[i] = e \/ (i \in DOMAIN s /\ Append(s, e)[i] = s[i])
<1>1. Len(s) \in Nat /\ DOMAIN s = 1..Len(s) /\ (s = << >> <=> Len(s) = 0)
  OBVIOUS
<1>2. QED BY <1>1, AppendProperties

LEMMA BlocksGrow ==
  ASSUME SearchInv, UNCHANGED <<world, stack, incomplete>>, NEW b,
         blocked' = blocked \cup {b},
         \A T \in SUBSET world.choices : Solution(T, Scope) => ~ b \subseteq T
  PROVE  BlocksRight'
<1>1. \A S, q : Solution(S, q)' = Solution(S, q)
  BY ScopesStand
<1>2. Scope' = Scope
  BY DEF Scope
<1>3. QED BY <1>1, <1>2 DEF SearchInv, BlocksRight

LEMMA BlocksStand ==
  ASSUME SearchInv, UNCHANGED <<world, stack, incomplete, blocked>>
  PROVE  BlocksRight'
<1>1. \A S, q : Solution(S, q)' = Solution(S, q)
  BY ScopesStand
<1>2. Scope' = Scope
  BY DEF Scope
<1>3. QED BY <1>1, <1>2 DEF SearchInv, BlocksRight

LEMMA ChooseKept == SearchInv /\ Choose => SearchInv'
<1> SUFFICES ASSUME SearchInv, Choose PROVE SearchInv'
  OBVIOUS
<1>1. PICK S \in Completions(Selected) : path' = Append(path, [selected |-> S, met |-> Met])
  BY DEF Choose
<1> DEFINE d == [selected |-> S, met |-> Met]
<1>2. UNCHANGED <<world, stack, learned, blocked, incomplete, facts, proofs, verdict, result>>
  BY DEF Choose
<1>3. Scope' = Scope /\ Known' = Known
  BY <1>2 DEF Scope, Known
<1>4. /\ S \subseteq world.choices /\ \A c \in S : c \in world.choices /\ Eligible(c, Scope)
      /\ Selected \subseteq S
  BY DEF Completions
<1>5. d \in Decisions
  BY <1>4, HereTyped DEF Decisions
<1>6. SearchTyped'
  <2>1. path' \in Seq(Decisions) /\ path' # << >>
    BY <1>1, <1>5 DEF SearchInv, SearchTyped
  <2>2. QED BY <1>2, <1>3, <2>1 DEF SearchInv, SearchTyped
<1>7. DecisionRight(d)
  <2>1. Met \subseteq S /\ Met \subseteq learned
    BY <1>4, HereTyped
  <2>2. Met \subseteq Ground(S, Known)
    BY <1>4, HereTyped, GroundGrows
  <2>3. ASSUME NEW c \in Met, c.withdrawn PROVE ~Solvable(LiveQuery(c, S))
    <3>1. ~Solvable(LiveQuery(c, Selected))
      BY <2>3, HereTyped
    <3>2. /\ LiveQuery(c, Selected).fixed \subseteq LiveQuery(c, S).fixed
          /\ LiveQuery(c, Selected).live \subseteq LiveQuery(c, S).live
      BY <1>4, ParentsGrow, ParentsAre DEF LiveQuery, Packages
    <3>3. QED BY <3>1, <3>2, SolvableShrinks
  <2>4. QED BY <1>4, <2>1, <2>2, <2>3 DEF DecisionRight
<1>8. \A x : DecisionRight(x) => DecisionRight(x)'
  BY <1>2, <1>3, DecisionsKept
<1> HIDE DEF d
<1>9. \A i \in DOMAIN path' : DecisionRight(path'[i])
  <2>1. \A i \in DOMAIN path' : path'[i] = d \/ (i \in DOMAIN path /\ path'[i] = path[i])
    BY <1>1, <1>5, Appended DEF SearchInv, SearchTyped, d
  <2>2. QED BY <1>7, <2>1 DEF SearchInv
<1>10. (\A i \in DOMAIN path : DecisionRight(path[i]))'
  BY <1>8, <1>9
<1>11. BlocksRight' /\ FactsRead' /\ Searching
  BY <1>2, BlocksStand DEF SearchInv, FactsRead, Choose
<1>12. QED BY <1>2, <1>6, <1>10, <1>11, QueryGoesOn

\* A step that adds no decision.
LEMMA NothingDecided ==
  ASSUME SearchInv, Searching, UNCHANGED <<world, stack, proofs, verdict, result>>,
         path' \in Seq(Decisions), path' # << >>,
         \A i \in DOMAIN path' : i \in DOMAIN path /\ path'[i] = path[i],
         learned' = learned, incomplete' \in BOOLEAN, BlocksRight',
         facts \subseteq facts', facts' \subseteq Candidates, FactsRead'
  PROVE  SearchInv'
<1>1. Scope' = Scope /\ Known \subseteq Known'
  BY KnownGrows DEF Scope
<1>2. \A d : DecisionRight(d) => DecisionRight(d)'
  BY <1>1, DecisionsKept
<1>3. \A i \in DOMAIN path' : DecisionRight(path'[i])
  BY DEF SearchInv
<1>4. (\A i \in DOMAIN path : DecisionRight(path[i]))'
  BY <1>2, <1>3
<1>5. SearchTyped'
  BY <1>1 DEF SearchInv, SearchTyped
<1>6. QED BY <1>4, <1>5, QueryGoesOn

LEMMA BackjumpKept == SearchInv /\ Backjump => SearchInv'
<1> SUFFICES ASSUME SearchInv, Backjump PROVE SearchInv'
  OBVIOUS
<1>1. PICK k \in 1..Len(path) - 1 : path' = SubSeq(path, 1, k)
  BY DEF Backjump
<1>2. path \in Seq(Decisions)
  BY DEF SearchInv, SearchTyped
<1>3. k \in Nat /\ k <= Len(path) /\ Len(path) \in Nat /\ k >= 1
  BY <1>2
<1>4. /\ path' \in Seq(Decisions) /\ path' # << >>
      /\ \A i \in DOMAIN path' : i \in DOMAIN path /\ path'[i] = path[i]
  BY <1>1, <1>2, <1>3
<1>5. Searching /\ UNCHANGED <<world, stack, learned, blocked, incomplete, facts, proofs,
                              verdict, result>>
  BY DEF Backjump
<1>6. BlocksRight' /\ FactsRead' /\ facts' \subseteq Candidates /\ incomplete' \in BOOLEAN
  BY <1>5, BlocksStand DEF SearchInv, FactsRead, SearchTyped
<1>7. QED BY <1>4, <1>5, <1>6, NothingDecided

\* A selection is blocked that solves nothing.
LEMMA ContextBlocked ==
  ASSUME SearchInv, Deciding, BlockContext,
         UNCHANGED <<world, stack, path, learned, incomplete, facts, proofs, verdict, result>>,
         \A T \in SUBSET world.choices : Solution(T, Scope) => ~ Selected \subseteq T
  PROVE  SearchInv'
<1>1. BlocksRight'
  BY BlocksGrow DEF BlockContext
<1>2. FactsRead' /\ facts' \subseteq Candidates /\ incomplete' \in BOOLEAN
      /\ path' \in Seq(Decisions) /\ path' # << >> /\ Searching
  BY DEF SearchInv, FactsRead, SearchTyped, Deciding
<1>3. QED BY <1>1, <1>2, NothingDecided

LEMMA NotReadyKept == SearchInv /\ NotReady => SearchInv'
<1> SUFFICES ASSUME SearchInv, NotReady PROVE SearchInv'
  OBVIOUS
<1>1. \A T \in SUBSET world.choices : Solution(T, Scope) => ~ Selected \subseteq T
  BY Unpermitted DEF NotReady
<1>2. QED BY <1>1, ContextBlocked DEF NotReady

LEMMA UnpreparableKept ==
  ASSUME SearchInv, NEW c \in world.choices, Unpreparable(c)
  PROVE  SearchInv'
<1>1. Preparing(c) /\ Deciding /\ BlockContext
      /\ UNCHANGED <<world, stack, path, learned, facts, proofs, verdict, result>>
  BY DEF Unpreparable, Checking, Preparing
<1>2. CASE ~InRange(c) /\ UNCHANGED incomplete
  <2>1. \A T \in SUBSET world.choices : Solution(T, Scope) => ~ Selected \subseteq T
    BY <1>1, <1>2, OutOfRange
  <2>2. QED BY <1>1, <1>2, <2>1, ContextBlocked
<1>3. CASE incomplete' = TRUE
  <2>1. BlocksRight'
    BY <1>3 DEF BlocksRight
  <2>2. FactsRead' /\ facts' \subseteq Candidates /\ Searching
        /\ path' \in Seq(Decisions) /\ path' # << >>
    BY <1>1 DEF SearchInv, FactsRead, SearchTyped, Deciding
  <2>3. QED BY <1>1, <1>3, <2>1, <2>2, NothingDecided
<1>4. CASE Context \in proofs.refuted /\ UNCHANGED incomplete
  <2>1. \A T \in SUBSET world.choices : Solution(T, Scope) => ~ Selected \subseteq T
    BY <1>4, RefutedContext
  <2>2. QED BY <1>1, <1>4, <2>1, ContextBlocked
<1>5. QED BY <1>2, <1>3, <1>4 DEF Unpreparable

LEMMA OneMoreMet ==
  ASSUME UNCHANGED world, UNCHANGED Scope, Known \subseteq Known', NEW c, NEW b, NEW d,
         DecisionRight(b), b.selected = d.selected, d.met = b.met \cup {c},
         c \in d.selected, c \in Ground(d.selected, Known),
         c.withdrawn => ~Solvable(LiveQuery(c, d.selected)), learned' = learned \cup {c}
  PROVE  DecisionRight(d)'
<1>1. DecisionRight(b)'
  BY DecisionsKept
<1>2. (c \in Ground(d.selected, Known))'
  <2>1. \A S, seen : Ground(S, seen)' = Ground(S, seen)
    BY GroundStands
  <2>2. c \in Ground(d.selected, Known')
    BY GroundGrows
  <2>3. QED BY <2>1, <2>2
<1>3. c.withdrawn => ~Solvable(LiveQuery(c, d.selected))'
  BY RefusedLonger
<1>4. ASSUME NEW e \in d.met, e.withdrawn PROVE ~Solvable(LiveQuery(e, d.selected))'
  <2>1. CASE e = c
    BY <1>3, <1>4, <2>1
  <2>2. CASE e \in b.met
    BY <1>1, <1>4, <2>2 DEF DecisionRight
  <2>3. QED BY <1>4, <2>1, <2>2
<1>5. QED BY <1>1, <1>2, <1>4 DEF DecisionRight

\* Metadata is used where it was permitted, and a yanked candidate's where nothing live
\* would do.
LEMMA PrepareKept ==
  ASSUME SearchInv, NEW c \in world.choices, Preparing(c), Prepare(c),
         c.withdrawn => ~Solvable(LiveQuery(c, Selected))
  PROVE  SearchInv'
<1>1. UNCHANGED <<world, stack, proofs, verdict, result>> /\ Searching /\ c \in Candidates
      /\ world.choices \subseteq Candidates
  BY HereTyped DEF Prepare, Preparing, Deciding
<1>2. path \in Seq(Decisions) /\ path # << >> /\ facts \subseteq Candidates
      /\ incomplete \in BOOLEAN /\ Len(path) \in DOMAIN path
  BY DEF SearchInv, SearchTyped
<1>3. /\ facts \subseteq facts' /\ facts' \subseteq Candidates
      /\ \A d \in facts' : d \in facts \/ (d = c /\ world.meta[c] # "unavailable")
  BY <1>1, <1>2 DEF Prepare
<1>4. FactsRead'
  BY <1>1, <1>3 DEF SearchInv, FactsRead
<1>5. CASE world.meta[c] = "read"
  <2>1. PICK d : d = [selected |-> Selected, met |-> Met \cup {c}]
    OBVIOUS
  <2>2. path' = Append(path, d) /\ learned' = learned \cup {c}
        /\ UNCHANGED <<blocked, incomplete>> /\ c \in facts'
    BY <1>5, <2>1 DEF Prepare
  <2>3. Scope' = Scope /\ Known \subseteq Known' /\ learned' \subseteq Known'
    <3>1. Known \subseteq Known' /\ c \in Known'
      BY <1>1, <1>3, <1>5, <2>2, KnownGrows DEF Known
    <3>2. QED BY <1>1, <2>2, <3>1, HereTyped DEF Scope
  <2>4. d \in Decisions
    BY <1>1, <2>1, HereTyped DEF Decisions
  <2>5. path' \in Seq(Decisions) /\ path' # << >>
        /\ \A i \in DOMAIN path' : path'[i] = d \/ (i \in DOMAIN path /\ path'[i] = path[i])
    BY <1>2, <2>2, <2>4, Appended
  <2>6. \A x : DecisionRight(x) => DecisionRight(x)'
    BY <1>1, <2>2, <2>3, DecisionsKept
  <2>7. DecisionRight(d)'
    <3>1. PICK b : b = path[Len(path)]
      OBVIOUS
    <3>2. DecisionRight(b) /\ b.selected = d.selected /\ d.met = b.met \cup {c}
      <4>1. DecisionRight(b)
        BY <1>2, <3>1 DEF SearchInv
      <4>2. b.selected = Selected /\ b.met = Met
        BY <3>1 DEF Selected, Met
      <4>3. d.selected = Selected /\ d.met = Met \cup {c}
        BY <2>1
      <4>4. QED BY <4>1, <4>2, <4>3
    <3>3. c \in d.selected /\ c \in Ground(d.selected, Known)
          /\ (c.withdrawn => ~Solvable(LiveQuery(c, d.selected)))
      BY <2>1 DEF Preparing
    <3>4. QED BY <1>1, <2>2, <2>3, <3>2, <3>3, OneMoreMet
  <2>8. (\A i \in DOMAIN path : DecisionRight(path[i]))'
    <3>1. \A i \in DOMAIN path' : path'[i] = d \/ DecisionRight(path'[i])
      BY <2>5 DEF SearchInv
    <3>2. QED BY <2>6, <2>7, <3>1
  <2>9. SearchTyped'
    BY <1>1, <1>2, <1>3, <2>2, <2>3, <2>5 DEF SearchInv, SearchTyped
  <2>10. BlocksRight'
    BY <1>1, <2>2, BlocksStand
  <2>11. QED BY <1>1, <1>4, <2>8, <2>9, <2>10, QueryGoesOn
<1>6. CASE world.meta[c] # "read"
  <2>1. UNCHANGED <<path, learned>> /\ blocked' = blocked \cup {{c}}
        /\ incomplete' = (incomplete \/ world.meta[c] = "unavailable")
    BY <1>6 DEF Prepare
  <2>2. BlocksRight'
    <3>1. CASE world.meta[c] = "unavailable"
      BY <2>1, <3>1 DEF BlocksRight
    <3>2. CASE world.meta[c] # "unavailable"
      <4>1. world.meta[c] = "rejected"
        BY <1>1, <1>6, <3>2, WorldAssumption DEF SearchInv, SearchTyped
      <4>2. \A T \in SUBSET world.choices : Solution(T, Scope) => ~ {c} \subseteq T
        BY <4>1 DEF Solution
      <4>3. UNCHANGED incomplete
        BY <1>2, <2>1, <3>2
      <4>4. QED BY <1>1, <2>1, <4>2, <4>3, BlocksGrow
    <3>3. QED BY <3>1, <3>2
  <2>3. path' \in Seq(Decisions) /\ path' # << >> /\ learned' = learned /\ incomplete' \in BOOLEAN
        /\ \A i \in DOMAIN path' : i \in DOMAIN path /\ path'[i] = path[i]
    BY <1>2, <2>1
  <2>4. QED BY <1>1, <1>3, <1>4, <2>2, <2>3, NothingDecided
<1>7. QED BY <1>5, <1>6

LEMMA PrepareYankedKept ==
  ASSUME SearchInv, NEW c \in world.choices, PrepareYanked(c)
  PROVE  SearchInv'
<1>1. Preparing(c) /\ Prepare(c)
  BY DEF PrepareYanked, Checking
<1>2. ~Solvable(LiveQuery(c, Selected))
  <2>1. CASE LiveChoice(c)
    BY <2>1 DEF PrepareYanked, SearchInv, RefusalsHold
  <2>2. CASE ~LiveChoice(c)
    BY <1>1, <2>2, NothingLive
  <2>3. QED BY <2>1, <2>2
<1>3. QED BY <1>1, <1>2, PrepareKept

LEMMA NewQueryTyped ==
  ASSUME SearchInv, NewQuery, UNCHANGED <<world, facts, result>>,
         stack' \in Seq(Scopes), stack' # << >>,
         proofs' \in [impossible : SUBSET Scopes, unknown : SUBSET Scopes,
                      refuted : SUBSET Contexts, possible : SUBSET (Contexts \X Nat)]
  PROVE  SearchTyped'
<1>1. path' \in Seq(Decisions) /\ path' # << >>
  BY DEF NewQuery, FirstStep, Decisions
<1>2. learned' \subseteq Known' /\ incomplete' \in BOOLEAN
  BY DEF NewQuery
<1>3. QED BY <1>1, <1>2 DEF SearchInv, SearchTyped

\* A live proof is asked of a scope with more live packages, and its target cannot go.
LEMMA NeedLiveProofKept ==
  ASSUME SearchInv, NEW c \in world.choices, NeedLiveProof(c)
  PROVE  SearchInv'
<1> DEFINE q == LiveQuery(c, Selected)
<1>1. c.withdrawn /\ Preparing(c) /\ Searching /\ NewQuery
      /\ UNCHANGED <<world, facts, proofs, result>>
  BY DEF NeedLiveProof, Contested, Checking, Preparing, Deciding
<1>2. c.of \notin Scope.live
  BY <1>1, HereTyped DEF Preparing, Eligible
<1>3. Scope.live \subseteq q.live /\ Scope.live # q.live
  BY <1>2 DEF LiveQuery
<1>4. q \in Scopes /\ Targeted(q)
  BY <1>1, LiveQueryTyped, TargetStays
<1> HIDE DEF q
<1>5. stack' = Append(stack, q) /\ verdict' = verdict
  BY <1>3 DEF NeedLiveProof, q
<1>6. /\ stack' \in Seq(Scopes) /\ stack' # << >> /\ stack'[1] = stack[1]
      /\ \A i \in DOMAIN stack' : stack'[i] = q \/ (i \in DOMAIN stack /\ stack'[i] = stack[i])
  BY <1>4, <1>5, Appended DEF SearchInv, SearchTyped
<1>7. SearchTyped'
  BY <1>1, <1>6, NewQueryTyped DEF SearchInv, SearchTyped
<1>8. \A x : Targeted(x)' = Targeted(x)
  BY <1>1, ScopesStand
<1>9. \A x : Solvable(x)' = Solvable(x)
  BY <1>1, ScopesStand
<1>10. ScopesRight'
  <2>1. \A i \in DOMAIN stack' : stack'[i].target # NoPackage => Targeted(stack'[i])
    BY <1>4, <1>6 DEF SearchInv, ScopesRight
  <2>2. stack'[1] = RootScope
    BY <1>6 DEF SearchInv, ScopesRight
  <2>3. QED BY <1>8, <2>1, <2>2 DEF ScopesRight, RootScope
<1>11. RefusalsHold'
  BY <1>1, <1>5, <1>9 DEF SearchInv, RefusalsHold, RootScope
<1>12. verdict' # "solved"
  BY <1>1, <1>5 DEF Searching
<1>13. QED BY <1>1, <1>7, <1>10, <1>11, <1>12, QueryBegins

\* The same query again, with what a context's facts leave open decided.
LEMMA NeedContextProofKept ==
  ASSUME SearchInv, NEW c \in world.choices, NeedContextProof(c)
  PROVE  SearchInv'
<1>1. Searching /\ NewQuery /\ UNCHANGED <<world, stack, facts, verdict, result>>
  BY DEF NeedContextProof, Contested, Checking, Preparing, Deciding
<1>2. Context \in Contexts /\ Cardinality(facts) \in Nat
  <2>1. IsFiniteSet(facts)
    BY WorldAssumption, FS_Subset DEF SearchInv, SearchTyped
  <2>2. QED BY <2>1, HereTyped, FS_CardinalityType DEF Context, Contexts
<1>3. \A x : Solvable(x)' = Solvable(x)
  BY <1>1, ScopesStand
<1>4. \A x : Targeted(x)' = Targeted(x)
  BY <1>1, ScopesStand
<1>5. ScopesRight'
  BY <1>1, <1>4 DEF SearchInv, ScopesRight, RootScope
<1>6. proofs \in [impossible : SUBSET Scopes, unknown : SUBSET Scopes,
                  refuted : SUBSET Contexts, possible : SUBSET (Contexts \X Nat)]
  BY DEF SearchInv, SearchTyped
<1>7. CASE Consistent(Scope, Selected)
  <2>1. proofs' = [proofs EXCEPT !.possible = @ \cup {<<Context, Cardinality(facts)>>}]
    BY <1>7 DEF NeedContextProof
  <2>2. SearchTyped'
    <3>1. proofs' \in [impossible : SUBSET Scopes, unknown : SUBSET Scopes,
                         refuted : SUBSET Contexts, possible : SUBSET (Contexts \X Nat)]
      BY <1>2, <1>6, <2>1
    <3>2. stack' \in Seq(Scopes) /\ stack' # << >>
      BY <1>1 DEF SearchInv, SearchTyped
    <3>3. QED BY <1>1, <3>1, <3>2, NewQueryTyped
  <2>3. proofs'.impossible = proofs.impossible /\ proofs'.refuted = proofs.refuted
    BY <1>6, <2>1
  <2>4. RefusalsHold'
    BY <1>1, <1>3, <2>3 DEF SearchInv, RefusalsHold, RootScope
  <2>5. QED BY <1>1, <1>5, <2>2, <2>4, QueryBegins DEF Searching
<1>8. CASE ~Consistent(Scope, Selected)
  <2>1. proofs' = [proofs EXCEPT !.refuted = @ \cup {Context}]
    BY <1>8 DEF NeedContextProof
  <2>2. SearchTyped'
    <3>1. proofs' \in [impossible : SUBSET Scopes, unknown : SUBSET Scopes,
                         refuted : SUBSET Contexts, possible : SUBSET (Contexts \X Nat)]
      BY <1>2, <1>6, <2>1
    <3>2. stack' \in Seq(Scopes) /\ stack' # << >>
      BY <1>1 DEF SearchInv, SearchTyped
    <3>3. QED BY <1>1, <3>1, <3>2, NewQueryTyped
  <2>3. proofs'.impossible = proofs.impossible /\ proofs'.refuted = proofs.refuted \cup {Context}
    BY <1>6, <2>1
  <2>4. ~Solvable([Context[1] EXCEPT !.fixed = @ \cup Context[2]])
    BY <1>8, Inconsistent DEF Context
  <2>5. \A x \in proofs'.refuted : ~Solvable([x[1] EXCEPT !.fixed = @ \cup x[2]])
    BY <2>3, <2>4 DEF SearchInv, RefusalsHold
  <2>6. RefusalsHold'
    BY <1>1, <1>3, <2>3, <2>5 DEF SearchInv, RefusalsHold, RootScope
  <2>7. QED BY <1>1, <1>5, <2>2, <2>6, QueryBegins DEF Searching
<1>9. QED BY <1>7, <1>8

LEMMA QueryFailsKept == SearchInv /\ QueryFails => SearchInv'
<1> SUFFICES ASSUME SearchInv, QueryFails PROVE SearchInv'
  OBVIOUS
<1>1. Searching /\ UNCHANGED <<world, facts, result>>
  BY DEF QueryFails
<1>2. ~incomplete => ~Solvable(Scope)
  BY Exhausted DEF QueryFails
<1>3. Scope \in Scopes
  BY HereTyped
<1>4. proofs \in [impossible : SUBSET Scopes, unknown : SUBSET Scopes,
                  refuted : SUBSET Contexts, possible : SUBSET (Contexts \X Nat)]
  BY DEF SearchInv, SearchTyped
<1>5. \A x : Solvable(x)' = Solvable(x)
  BY <1>1, ScopesStand
<1>6. \A x : Targeted(x)' = Targeted(x)
  BY <1>1, ScopesStand
<1>7. CASE Len(stack) = 1
  <2>1. verdict' = (IF incomplete THEN "incomplete" ELSE "failed")
        /\ UNCHANGED <<stack, proofs, path, learned, blocked, incomplete>>
    BY <1>7 DEF QueryFails, query
  <2>2. Scope = RootScope
    BY <1>7 DEF Scope, SearchInv, ScopesRight
  <2>3. verdict' = "failed" => ~Solvable(RootScope)
    BY <1>2, <2>1, <2>2
  <2>4. RefusalsHold'
    BY <1>1, <1>5, <2>1, <2>3 DEF SearchInv, RefusalsHold, RootScope
  <2>5. ScopesRight'
    BY <1>6, <2>1 DEF SearchInv, ScopesRight, RootScope
  <2>6. SearchTyped' /\ FactsRead'
    BY <1>1, <2>1 DEF SearchInv, SearchTyped, FactsRead, Known
  <2>7. BlocksRight'
    BY <1>1, <2>1, BlocksStand
  <2>8. (\A i \in DOMAIN path : DecisionRight(path[i]))'
    <3>1. \A x : DecisionRight(x) => DecisionRight(x)'
      BY <1>1, <2>1, DecisionsKept DEF Known, Scope
    <3>2. \A i \in DOMAIN path' : DecisionRight(path'[i])
      BY <2>1 DEF SearchInv
    <3>3. QED BY <3>1, <3>2
  <2>9. YankedTypeOK'
    BY <2>6, <2>8 DEF SearchTyped, DecisionRight, YankedTypeOK
  <2>10. LastResort'
    BY <2>1, <2>9 DEF LastResort, PermittedLast
  <2>11. QED BY <2>4, <2>5, <2>6, <2>7, <2>8, <2>10 DEF SearchInv
<1>8. CASE Len(stack) # 1
  <2>1. proofs' = Failed(Scope) /\ stack' = SubSeq(stack, 1, Len(stack) - 1)
        /\ NewQuery /\ UNCHANGED verdict
    BY <1>8 DEF QueryFails
  <2>2. stack \in Seq(Scopes) /\ stack # << >>
    BY DEF SearchInv, SearchTyped
  <2>3. PICK k \in Nat : k = Len(stack) - 1 /\ k >= 1 /\ k <= Len(stack)
    <3>1. PICK n \in Nat : n = Len(stack)
      BY <2>2
    <3>2. n # 0 /\ n # 1
      BY <1>8, <2>2, <3>1
    <3>3. n - 1 \in Nat /\ n - 1 >= 1 /\ n - 1 <= n
      BY <3>2
    <3>4. QED BY <3>1, <3>3
  <2>4. /\ stack' \in Seq(Scopes) /\ stack' # << >> /\ stack'[1] = stack[1]
        /\ \A i \in DOMAIN stack' : i \in DOMAIN stack /\ stack'[i] = stack[i]
    <3>1. stack' = SubSeq(stack, 1, k)
      BY <2>1, <2>3
    <3>2. /\ stack' \in Seq(Scopes) /\ Len(stack') = k
          /\ \A i \in 1..k : stack'[i] = stack[i]
      BY <2>2, <2>3, <3>1
    <3>3. DOMAIN stack' = 1..k /\ DOMAIN stack = 1..Len(stack) /\ Len(stack) \in Nat
      BY <2>2, <3>2
    <3>4. \A i \in 1..k : i \in DOMAIN stack
      BY <2>3, <3>3
    <3>5. 1 \in 1..k /\ stack' # << >>
      BY <2>3, <3>2, <3>3
    <3>6. QED BY <3>2, <3>3, <3>4, <3>5
  <2>5. /\ proofs' \in [impossible : SUBSET Scopes, unknown : SUBSET Scopes,
                        refuted : SUBSET Contexts, possible : SUBSET (Contexts \X Nat)]
        /\ proofs'.refuted = proofs.refuted
        /\ \A x \in proofs'.impossible : x \in proofs.impossible \/ (x = Scope /\ ~incomplete)
    <3>1. CASE incomplete
      BY <1>3, <1>4, <2>1, <3>1 DEF Failed
    <3>2. CASE ~incomplete
      BY <1>3, <1>4, <2>1, <3>2 DEF Failed
    <3>3. QED BY <3>1, <3>2
  <2>6. SearchTyped'
    BY <1>1, <2>1, <2>4, <2>5, NewQueryTyped
  <2>7. RefusalsHold'
    <3>1. \A x \in proofs'.impossible : ~Solvable(x)
      BY <1>2, <2>5 DEF SearchInv, RefusalsHold
    <3>2. QED BY <1>1, <1>5, <2>1, <2>5, <3>1 DEF SearchInv, RefusalsHold, RootScope
  <2>8. ScopesRight'
    <3>1. \A i \in DOMAIN stack' : stack'[i].target # NoPackage => Targeted(stack'[i])
      BY <2>4 DEF SearchInv, ScopesRight
    <3>2. stack'[1] = RootScope
      BY <2>4 DEF SearchInv, ScopesRight
    <3>3. QED BY <1>6, <3>1, <3>2 DEF ScopesRight, RootScope
  <2>9. verdict' # "solved"
    BY <1>1, <2>1 DEF Searching
  <2>10. QED BY <1>1, <2>1, <2>6, <2>7, <2>8, <2>9, QueryBegins
<1>9. QED BY <1>7, <1>8

LEMMA QuerySolvedKept == SearchInv /\ QuerySolved => SearchInv'
<1> SUFFICES ASSUME SearchInv, QuerySolved PROVE SearchInv'
  OBVIOUS
<1>1. Deciding /\ Searching /\ Met = Selected
      /\ UNCHANGED <<world, stack, path, learned, blocked, incomplete, facts, proofs>>
  BY DEF QuerySolved, Deciding, query
<1>2. Solution(Selected, Scope) /\ Selected \in SUBSET world.choices
      /\ Selected \subseteq Candidates
  BY <1>1, SelectionSolves, HereTyped
<1>3. Scope.target = NoPackage \/ Scope.target \in Packages(Selected)
  <2>1. Whole(Selected, Selected)
    BY <1>2, SolutionWhole DEF SearchInv
  <2>2. Keeps(Selected, Scope.fixed)
    BY <1>2 DEF Solution, Eligible, Keeps
  <2>3. Scope.target # NoPackage => Targeted(Scope)
    <3>1. Len(stack) \in DOMAIN stack
      BY DEF SearchInv, SearchTyped
    <3>2. QED BY <3>1 DEF SearchInv, ScopesRight, Scope
  <2>4. QED BY <1>2, <2>1, <2>2, <2>3 DEF Targeted
<1>4. verdict' = "solved" /\ result' = Selected
  BY <1>3 DEF QuerySolved
<1>5. \A c \in Selected : c.withdrawn => ~Solvable(LiveQuery(c, Selected))
  BY <1>1, HereTyped
<1>6. UNCHANGED <<Scope, Known>>
  BY <1>1 DEF Scope, Known
<1>7. PICK S : S = Selected
  OBVIOUS
<1>8. SearchTyped' /\ FactsRead'
  BY <1>1, <1>2, <1>4 DEF SearchInv, SearchTyped, FactsRead, Known
<1>9. \A x : Solvable(x)' = Solvable(x)
  BY <1>1, ScopesStand
<1>10. RefusalsHold'
  BY <1>1, <1>4, <1>9 DEF SearchInv, RefusalsHold, RootScope
<1>11. ScopesRight'
  <2>1. \A x : Targeted(x)' = Targeted(x)
    BY <1>1, ScopesStand
  <2>2. QED BY <1>1, <2>1 DEF SearchInv, ScopesRight, RootScope
<1>12. BlocksRight'
  BY <1>1, BlocksStand
<1>13. (\A i \in DOMAIN path : DecisionRight(path[i]))'
  <2>1. \A x : DecisionRight(x) => DecisionRight(x)'
    BY <1>1, <1>6, DecisionsKept
  <2>2. \A i \in DOMAIN path' : DecisionRight(path'[i])
    BY <1>1 DEF SearchInv
  <2>3. QED BY <2>1, <2>2
<1>14. YankedTypeOK'
  BY <1>8, <1>13 DEF SearchTyped, DecisionRight, YankedTypeOK
<1>15. PermittedLast'
  <2>1. Solution(S, Scope)'
    <3>1. \A T, x : Solution(T, x)' = Solution(T, x)
      BY <1>1, ScopesStand
    <3>2. QED BY <1>2, <1>6, <1>7, <3>1
  <2>2. ASSUME NEW c \in S, c.withdrawn PROVE ~Solvable(LiveQuery(c, S))'
    <3>1. ~Solvable(LiveQuery(c, S))
      BY <1>5, <1>7, <2>2
    <3>2. QED BY <1>1, <1>6, <3>1, RefusedLonger
  <2>3. result' = S
    BY <1>4, <1>7
  <2>4. QED BY <2>1, <2>2, <2>3 DEF PermittedLast
<1>16. QED BY <1>8, <1>10, <1>11, <1>12, <1>13, <1>14, <1>15 DEF SearchInv, LastResort

LEMMA OutOfStepsKept == SearchInv /\ OutOfSteps => SearchInv'
<1> SUFFICES ASSUME SearchInv, OutOfSteps PROVE SearchInv'
  OBVIOUS
<1>1. verdict' = "limit" /\ stack' = <<RootScope>> /\ NewQuery
      /\ UNCHANGED <<world, facts, proofs, result>>
  BY DEF OutOfSteps
<1>2. stack' \in Seq(Scopes) /\ stack' # << >>
  BY <1>1 DEF Scopes, RootScope
<1>3. SearchTyped'
  BY <1>1, <1>2, NewQueryTyped DEF SearchInv, SearchTyped
<1>4. ScopesRight'
  BY <1>1 DEF ScopesRight, RootScope
<1>5. \A x : Solvable(x)' = Solvable(x)
  BY <1>1, ScopesStand
<1>6. RefusalsHold'
  BY <1>1, <1>5 DEF SearchInv, RefusalsHold
<1>7. QED BY <1>1, <1>3, <1>4, <1>6, QueryBegins

LEMMA SearchStutters == SearchInv /\ UNCHANGED yanking => SearchInv'
<1> SUFFICES ASSUME SearchInv, UNCHANGED yanking PROVE SearchInv'
  OBVIOUS
<1>1. UNCHANGED <<world, stack, path, learned, blocked, incomplete, facts, proofs, verdict,
                 result>>
  BY DEF yanking, query
<1>2. UNCHANGED <<Scope, Known>>
  BY <1>1 DEF Scope, Known
<1>3. \A x : Solvable(x)' = Solvable(x)
  BY <1>1, ScopesStand
<1>4. SearchTyped' /\ FactsRead' /\ RefusalsHold'
  BY <1>1, <1>2, <1>3 DEF SearchInv, SearchTyped, FactsRead, RefusalsHold, RootScope
<1>5. ScopesRight'
  <2>1. \A x : Targeted(x)' = Targeted(x)
    BY <1>1, ScopesStand
  <2>2. QED BY <1>1, <2>1 DEF SearchInv, ScopesRight, RootScope
<1>6. BlocksRight'
  BY <1>1, BlocksStand
<1>7. (\A i \in DOMAIN path : DecisionRight(path[i]))'
  <2>1. \A x : DecisionRight(x) => DecisionRight(x)'
    BY <1>1, <1>2, DecisionsKept
  <2>2. \A i \in DOMAIN path' : DecisionRight(path'[i])
    BY <1>1 DEF SearchInv
  <2>3. QED BY <2>1, <2>2
<1>8. YankedTypeOK'
  BY <1>4, <1>7 DEF SearchTyped, DecisionRight, YankedTypeOK
<1>9. PermittedLast'
  <2>1. CASE verdict = "solved"
    <3>1. PICK S : S = result
      OBVIOUS
    <3>2. Solution(S, Scope) /\ \A c \in S : c.withdrawn => ~Solvable(LiveQuery(c, S))
      BY <2>1, <3>1 DEF SearchInv, LastResort, PermittedLast
    <3>3. Solution(S, Scope)'
      <4>1. \A T, x : Solution(T, x)' = Solution(T, x)
        BY <1>1, ScopesStand
      <4>2. QED BY <1>2, <3>2, <4>1
    <3>4. \A c \in S : c.withdrawn => ~Solvable(LiveQuery(c, S))'
      BY <1>1, <1>2, <3>2, RefusedLonger
    <3>5. result' = S
      BY <1>1, <3>1
    <3>6. QED BY <3>3, <3>4, <3>5 DEF PermittedLast
  <2>2. CASE verdict # "solved"
    BY <1>1, <2>2 DEF PermittedLast
  <2>3. QED BY <2>1, <2>2
<1>10. QED BY <1>4, <1>5, <1>6, <1>7, <1>8, <1>9 DEF SearchInv, LastResort

LEMMA SearchInitially == YankedInit => SearchInv
<1> SUFFICES ASSUME YankedInit PROVE SearchInv
  OBVIOUS
<1>1. RootScope \in Scopes /\ path \in Seq(Decisions) /\ stack \in Seq(Scopes)
  BY DEF RootScope, Scopes, YankedInit, FirstStep, Decisions
<1>2. SearchTyped
  BY <1>1 DEF YankedInit, FirstStep, SearchTyped
<1>3. FactsRead /\ ScopesRight /\ BlocksRight /\ RefusalsHold
  BY DEF YankedInit, FactsRead, ScopesRight, BlocksRight, RefusalsHold, RootScope
<1>4. \A i \in DOMAIN path : DecisionRight(path[i])
  BY DEF YankedInit, FirstStep, DecisionRight
<1>5. LastResort
  BY <1>2, <1>4 DEF LastResort, YankedTypeOK, PermittedLast, SearchTyped, DecisionRight,
                    YankedInit
<1>6. QED BY <1>2, <1>3, <1>4, <1>5 DEF SearchInv

LEMMA SearchStep == SearchInv /\ [YankedNext]_yanking => SearchInv'
<1> SUFFICES ASSUME SearchInv, [YankedNext]_yanking PROVE SearchInv'
  OBVIOUS
<1>1. CASE Choose
  BY <1>1, ChooseKept
<1>2. CASE Backjump
  BY <1>2, BackjumpKept
<1>3. CASE NotReady
  BY <1>3, NotReadyKept
<1>4. CASE QueryFails
  BY <1>4, QueryFailsKept
<1>5. CASE QuerySolved
  BY <1>5, QuerySolvedKept
<1>6. ASSUME NEW c \in world.choices, PrepareLive(c) PROVE SearchInv'
  BY <1>6, PrepareKept DEF PrepareLive
<1>7. ASSUME NEW c \in world.choices, Unpreparable(c) PROVE SearchInv'
  BY <1>7, UnpreparableKept
<1>8. ASSUME NEW c \in world.choices, NeedLiveProof(c) PROVE SearchInv'
  BY <1>8, NeedLiveProofKept
<1>9. ASSUME NEW c \in world.choices, NeedContextProof(c) PROVE SearchInv'
  BY <1>9, NeedContextProofKept
<1>10. ASSUME NEW c \in world.choices, PrepareYanked(c) PROVE SearchInv'
  BY <1>10, PrepareYankedKept
<1>11. CASE OutOfSteps
  BY <1>11, OutOfStepsKept
<1>12. CASE YankingOver
  BY <1>12, SearchStutters DEF YankingOver
<1>13. CASE UNCHANGED yanking
  BY <1>13, SearchStutters
<1>14. QED
  BY <1>1, <1>2, <1>3, <1>4, <1>5, <1>6, <1>7, <1>8, <1>9, <1>10, <1>11, <1>12, <1>13
     DEF YankedNext, Search

\* For every set of candidates and every world of theirs: what the search holds
\* impossible is (the proofs yanked_resolution.py keeps), and it neither asks for a
\* query that is running nor loses the package a query is about.
THEOREM RefusalsAlwaysHold == YankedSpec => []RefusalsHold
<1>1. SearchInv => RefusalsHold
  BY DEF SearchInv
<1>2. QED BY <1>1, SearchInitially, SearchStep, PTL DEF YankedSpec

\* For every set of candidates and every world of theirs: the answer is a solution, in
\* which each yanked release is permitted and nothing live would do in its place.
THEOREM YankedAsLastResort == YankedSpec => []LastResort
<1>1. SearchInv => LastResort
  BY DEF SearchInv
<1>2. QED BY <1>1, SearchInitially, SearchStep, PTL DEF YankedSpec
=============================================================================
