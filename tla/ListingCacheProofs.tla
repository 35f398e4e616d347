------------------------- MODULE ListingCacheProofs -------------------------
(***************************************************************************)
(* Proofs about ListingCache, for a cache that one process uses at a time, *)
(* however many writes are refused and whenever the process dies.          *)
(*                                                                         *)
(* That a 304 is never answered with the records of another listing is an  *)
(* argument about order.  What a policy claims, its ETag and its digest,   *)
(* is never newer than the body beside it; what a blob holds is never      *)
(* older than the digest it carries.  So when the index confirms the       *)
(* newest ETag, body and blob are squeezed to that listing.                *)
(*                                                                         *)
(* On that order rest two more: a remembered 404 is looked at only where   *)
(* no policy is on disk, and an entry nothing has disturbed is described   *)
(* by its policy everywhere but between the two halves of put_simple.      *)
(***************************************************************************)
EXTENDS ListingCache, TLAPS

\* Nothing a policy claims is newer than the body, or than the index.
Claims(q) == {q.etag, q.digest} \ {None}

Covered(q) ==
  /\ \A c \in Claims(q) : c <= newest /\ (body \in Listing => c <= body)
  /\ (q.etag # None /\ q.digest # None) => q.etag <= q.digest

DiskOK ==
  /\ body \in Listing => body <= newest
  /\ policy # None => Covered(policy)
  /\ blob # None => blob.digest <= blob.listing /\ blob.listing <= newest

\* The policy a read has in hand is as good as the one on disk.
HandOK(p) ==
  /\ pc[p] \in {"peek_blob", "blob", "body", "rehash", "check", "refresh"} =>
       pol[p] # None /\ Covered(pol[p])
  /\ pc[p] = "rehash" =>
       got[p] # None /\ pol[p].digest = None /\ body = got[p].listing
  /\ writing[p] # None => pc[p] \in {"settling", "closing"} /\ Covered(writing[p])

\* Records about to go into a blob are no older than the digest that binds it.
KeepOK(p) ==
  pc[p] = "keep" =>
    /\ got[p] # None /\ pol[p] # None /\ pol[p].digest # None
    /\ pol[p].digest <= got[p].listing /\ got[p].listing <= newest

\* An answer being stored is no older than what it replaces.
StoreOK(p) ==
  /\ pc[p] \in {"put", "stamp"} =>
       /\ got[p] # None /\ pol[p] # None
       /\ pol[p].etag \in {got[p].listing, None} /\ pol[p].digest = None
       /\ got[p].listing <= newest
  /\ pc[p] = "put" =>
       /\ body \in Listing => body <= got[p].listing
       /\ policy # None => \A c \in Claims(policy) : c <= got[p].listing
  /\ pc[p] = "stamp" => body = got[p].listing

\* Between a 304 and its records, nothing on disk is another listing.
ConfirmOK(p) ==
  /\ pc[p] \in {"confirm", "confirm_entry", "confirm_body"} =>
       /\ pol[p] # None /\ pol[p].etag # None /\ Covered(pol[p])
       /\ body \in Listing => body = pol[p].etag
       /\ pol[p].digest # None => pol[p].digest = pol[p].etag
       /\ blob # None => blob.listing <= pol[p].etag
  /\ pc[p] = "refresh" => got[p] # None /\ got[p].listing = pol[p].etag

ProcessOK(p) == HandOK(p) /\ KeepOK(p) /\ StoreOK(p) /\ ConfirmOK(p)

IInv(p) == TypeOK /\ DiskOK /\ ProcessOK(p)


----------------------------------------------------------------------------
(* What the parts of a step leave behind. *)

LEMMA GotoForm ==
  ASSUME ReadTypes, NEW p \in Process, NEW s \in Stages, Goto(p, s)
  PROVE  pc' \in [Process -> Stages] /\ pc'[p] = s
BY DEF ReadTypes, Goto

\* A new policy, or new records, in hand.
LEMMA PolForm ==
  ASSUME ReadTypes, NEW p \in Process, NEW q \in Policy \cup {None},
         pol' = [pol EXCEPT ![p] = q]
  PROVE  pol' \in [Process -> Policy \cup {None}] /\ pol'[p] = q
BY DEF ReadTypes

LEMMA GotForm ==
  ASSUME ReadTypes, NEW p \in Process, NEW r \in Records \cup {None},
         got' = [got EXCEPT ![p] = r]
  PROVE  got' \in [Process -> Records \cup {None}] /\ got'[p] = r
BY DEF ReadTypes

\* The policy of a read, and its digest replaced.
LEMMA Restamped ==
  ASSUME NEW q \in Policy, NEW d \in Listing
  PROVE  /\ [q EXCEPT !.digest = d] \in Policy
         /\ [q EXCEPT !.digest = d].digest = d
         /\ [q EXCEPT !.digest = d].etag = q.etag
BY DEF Policy

\* A read that ends keeps nothing in hand that could be wrong.
LEMMA EndKeeps ==
  ASSUME ReadTypes, NEW p \in Process, NEW how \in Results, End(p, how),
         writing'[p] = None
  PROVE  ReadTypes' /\ ProcessOK(p)'
<1>1. pc' = [pc EXCEPT ![p] = "idle"] /\ "idle" \in Stages
  BY DEF End, Goto, Stages
<1>2. /\ result' = [result EXCEPT ![p] = how] /\ pol' = [pol EXCEPT ![p] = None]
      /\ got' = [got EXCEPT ![p] = None] /\ asked' = [asked EXCEPT ![p] = FALSE]
  BY DEF End
<1>3. ReadTypes' /\ pc'[p] = "idle"
  BY <1>1, <1>2 DEF ReadTypes
<1>4. QED
  BY <1>3 DEF ProcessOK, HandOK, KeepOK, StoreOK, ConfirmOK

\* Between the stages in which something is claimed of what is in hand.
Loose == {"idle", "peek", "begin", "entry", "sentinel", "ask", "drop", "deny"}

LEMMA LooseKeeps ==
  ASSUME NEW p \in Process, pc'[p] \in Loose, writing'[p] = None
  PROVE  ProcessOK(p)'
BY DEF Loose, ProcessOK, HandOK, KeepOK, StoreOK, ConfirmOK

LEMMA FinishKeeps ==
  ASSUME ReadTypes, NEW p \in Process, Finish(p), writing'[p] = None
  PROVE  ReadTypes' /\ ProcessOK(p)'
<1>1. CASE asked[p]
  <2>1. Goto(p, "drop") /\ UNCHANGED <<hand, result>> /\ "drop" \in Stages
    BY <1>1 DEF Finish, Stages
  <2>2. ReadTypes' /\ pc'[p] = "drop"
    BY <2>1, GotoForm DEF ReadTypes, hand
  <2>3. QED BY <2>2, LooseKeeps DEF Loose
<1>2. CASE ~asked[p]
  BY <1>2, EndKeeps DEF Finish, Results
<1>3. QED BY <1>1, <1>2

\* Nothing is being written in the background of a read that is not waiting.
LEMMA NotWriting ==
  ASSUME NEW p \in Process, ProcessOK(p), pc[p] \notin {"settling", "closing"}
  PROVE  writing[p] = None
BY DEF ProcessOK, HandOK

\* Files and index that stay as they are stay right.
LEMMA SameDisk ==
  ASSUME TypeOK, DiskOK, UNCHANGED <<disk, index, last, faults>>
  PROVE  FileTypes' /\ DiskOK'
BY DEF TypeOK, FileTypes, DiskOK, Covered, Claims, disk, index

----------------------------------------------------------------------------
(* A read from the cache. *)

LEMMA StartKeeps ==
  ASSUME NEW p \in Process, IInv(p), Start(p)
  PROVE  IInv(p)'
<1> USE DEF IInv
<1>1. PICK s \in {"peek", "begin"} : Goto(p, s)
  BY DEF Start
<1>2. pc' \in [Process -> Stages] /\ pc'[p] \in Loose
  BY <1>1, GotoForm DEF TypeOK, Stages, Loose
<1>3. writing'[p] = None
  BY NotWriting DEF Start
<1>4. ReadTypes' /\ ThreadTypes'
  BY <1>2 DEF Start, TypeOK, ReadTypes, ThreadTypes, hand, Results
<1>5. FileTypes' /\ DiskOK'
  BY SameDisk DEF Start
<1>6. QED BY <1>2, <1>3, <1>4, <1>5, LooseKeeps DEF TypeOK

LEMMA PeekKeeps ==
  ASSUME NEW p \in Process, IInv(p), Peek(p)
  PROVE  IInv(p)'
<1> USE DEF IInv
<1>1. writing'[p] = None
  BY NotWriting DEF Peek
<1>2. FileTypes' /\ DiskOK' /\ ThreadTypes'
  BY SameDisk DEF Peek, TypeOK, ThreadTypes
<1>3. CASE Goto(p, "begin") /\ UNCHANGED pol
  <2>1. pc' \in [Process -> Stages] /\ pc'[p] \in Loose
    BY <1>3, GotoForm DEF TypeOK, Stages, Loose
  <2>2. ReadTypes'
    BY <1>3, <2>1 DEF Peek, TypeOK, ReadTypes
  <2>3. QED BY <1>1, <1>2, <2>1, <2>2, LooseKeeps DEF TypeOK
<1>4. CASE policy # None /\ Goto(p, "peek_blob") /\ pol' = [pol EXCEPT ![p] = policy]
  <2>1. pc' \in [Process -> Stages] /\ pc'[p] = "peek_blob"
    BY <1>4, GotoForm DEF TypeOK, Stages
  <2>2. pol' \in [Process -> Policy \cup {None}] /\ pol'[p] = policy
    BY <1>4, PolForm DEF TypeOK, FileTypes
  <2>3. ReadTypes'
    BY <2>1, <2>2 DEF Peek, TypeOK, ReadTypes
  <2>4. policy' = policy /\ policy # None
    BY <1>4 DEF Peek, disk
  <2>5. pol'[p] # None /\ Covered(pol[p])'
    BY <2>2, <2>4, <1>2 DEF DiskOK, Covered, Claims
  <2>6. ProcessOK(p)'
    BY <2>1, <2>5, <1>1 DEF ProcessOK, HandOK, KeepOK, StoreOK, ConfirmOK
  <2>7. QED BY <1>2, <2>3, <2>6 DEF TypeOK
<1>5. QED BY <1>3, <1>4 DEF Peek

LEMMA PeekBlobKeeps ==
  ASSUME NEW p \in Process, IInv(p), PeekBlob(p)
  PROVE  IInv(p)'
<1> USE DEF IInv
<1>1. writing'[p] = None
  BY NotWriting DEF PeekBlob
<1>2. FileTypes' /\ DiskOK' /\ ThreadTypes'
  BY SameDisk DEF PeekBlob, TypeOK, ThreadTypes
<1>3. CASE End(p, "listing")
  BY <1>1, <1>2, <1>3, EndKeeps DEF TypeOK, Results
<1>4. CASE /\ Goto(p, "begin") /\ pol' = [pol EXCEPT ![p] = None]
           /\ UNCHANGED <<got, asked, result>>
  <2>1. pc' \in [Process -> Stages] /\ pc'[p] \in Loose
    BY <1>4, GotoForm DEF TypeOK, Stages, Loose
  <2>2. ReadTypes'
    BY <1>4, <2>1, PolForm DEF TypeOK, ReadTypes
  <2>3. QED BY <1>1, <1>2, <2>1, <2>2, LooseKeeps DEF TypeOK
<1>5. QED BY <1>3, <1>4 DEF PeekBlob

\* The policy just read from its file, in hand.
LEMMA PolicyInHand ==
  ASSUME NEW p \in Process, TypeOK, DiskOK', policy # None,
         pol' = [pol EXCEPT ![p] = policy], UNCHANGED policy
  PROVE  /\ pol' \in [Process -> Policy \cup {None}]
         /\ pol'[p] # None /\ Covered(pol[p])'
<1>1. pol' \in [Process -> Policy \cup {None}] /\ pol'[p] = policy
  BY PolForm DEF TypeOK, FileTypes
<1>2. Covered(policy)'
  BY DEF DiskOK
<1>3. QED BY <1>1, <1>2 DEF Covered, Claims

LEMMA BeginKeeps ==
  ASSUME NEW p \in Process, IInv(p), Begin(p)
  PROVE  IInv(p)'
<1> USE DEF IInv
<1>1. writing'[p] = None
  BY NotWriting DEF Begin
<1>2. FileTypes' /\ DiskOK' /\ ThreadTypes'
  BY SameDisk DEF Begin, TypeOK, ThreadTypes
<1>3. CASE Goto(p, "sentinel") /\ UNCHANGED pol
  <2>1. pc' \in [Process -> Stages] /\ pc'[p] \in Loose
    BY <1>3, GotoForm DEF TypeOK, Stages, Loose
  <2>2. ReadTypes'
    BY <1>3, <2>1 DEF Begin, TypeOK, ReadTypes
  <2>3. QED BY <1>1, <1>2, <2>1, <2>2, LooseKeeps DEF TypeOK
<1>4. CASE /\ policy # None /\ pol' = [pol EXCEPT ![p] = policy]
           /\ Goto(p, "blob") \/ Goto(p, "check")
  <2>1. pc' \in [Process -> Stages] /\ pc'[p] \in {"blob", "check"}
    BY <1>4, GotoForm DEF TypeOK, Stages
  <2>2. /\ pol' \in [Process -> Policy \cup {None}]
        /\ pol'[p] # None /\ Covered(pol[p])'
    BY <1>2, <1>4, PolicyInHand DEF Begin, disk
  <2>3. ReadTypes'
    BY <2>1, <2>2 DEF Begin, TypeOK, ReadTypes
  <2>4. ProcessOK(p)'
    BY <2>1, <2>2, <1>1 DEF ProcessOK, HandOK, KeepOK, StoreOK, ConfirmOK
  <2>5. QED BY <1>2, <2>3, <2>4 DEF TypeOK
<1>5. QED BY <1>3, <1>4 DEF Begin

LEMMA ReadBlobKeeps ==
  ASSUME NEW p \in Process, IInv(p), ReadBlob(p)
  PROVE  IInv(p)'
<1> USE DEF IInv
<1>1. writing'[p] = None
  BY NotWriting DEF ReadBlob
<1>2. FileTypes' /\ DiskOK' /\ ThreadTypes'
  BY SameDisk DEF ReadBlob, TypeOK, ThreadTypes
<1>3. CASE End(p, "listing")
  BY <1>1, <1>2, <1>3, EndKeeps DEF TypeOK, Results
<1>4. CASE Goto(p, "entry") /\ UNCHANGED <<hand, result>>
  <2>1. pc' \in [Process -> Stages] /\ pc'[p] \in Loose
    BY <1>4, GotoForm DEF TypeOK, Stages, Loose
  <2>2. ReadTypes'
    BY <1>4, <2>1 DEF TypeOK, ReadTypes, hand
  <2>3. QED BY <1>1, <1>2, <2>1, <2>2, LooseKeeps DEF TypeOK
<1>5. QED BY <1>3, <1>4 DEF ReadBlob

LEMMA ReadEntryKeeps ==
  ASSUME NEW p \in Process, IInv(p), ReadEntry(p)
  PROVE  IInv(p)'
<1> USE DEF IInv
<1>1. writing'[p] = None
  BY NotWriting DEF ReadEntry
<1>2. FileTypes' /\ DiskOK' /\ ThreadTypes'
  BY SameDisk DEF ReadEntry, TypeOK, ThreadTypes
<1>3. CASE Goto(p, "sentinel") /\ UNCHANGED pol
  <2>1. pc' \in [Process -> Stages] /\ pc'[p] \in Loose
    BY <1>3, GotoForm DEF TypeOK, Stages, Loose
  <2>2. ReadTypes'
    BY <1>3, <2>1 DEF ReadEntry, TypeOK, ReadTypes
  <2>3. QED BY <1>1, <1>2, <2>1, <2>2, LooseKeeps DEF TypeOK
<1>4. CASE policy # None /\ Goto(p, "body") /\ pol' = [pol EXCEPT ![p] = policy]
  <2>1. pc' \in [Process -> Stages] /\ pc'[p] = "body"
    BY <1>4, GotoForm DEF TypeOK, Stages
  <2>2. /\ pol' \in [Process -> Policy \cup {None}]
        /\ pol'[p] # None /\ Covered(pol[p])'
    BY <1>2, <1>4, PolicyInHand DEF ReadEntry, disk
  <2>3. ReadTypes'
    BY <2>1, <2>2 DEF ReadEntry, TypeOK, ReadTypes
  <2>4. ProcessOK(p)'
    BY <2>1, <2>2, <1>1 DEF ProcessOK, HandOK, KeepOK, StoreOK, ConfirmOK
  <2>5. QED BY <1>2, <2>3, <2>4 DEF TypeOK
<1>5. QED BY <1>3, <1>4 DEF ReadEntry

LEMMA ReadBodyKeeps ==
  ASSUME NEW p \in Process, IInv(p), ReadBody(p)
  PROVE  IInv(p)'
<1> USE DEF IInv
<1>1. writing'[p] = None
  BY NotWriting DEF ReadBody
<1>2. FileTypes' /\ DiskOK' /\ ThreadTypes'
  BY SameDisk DEF ReadBody, TypeOK, ThreadTypes
<1>3. CASE End(p, "failed") \/ End(p, "listing")
  BY <1>1, <1>2, <1>3, EndKeeps DEF TypeOK, Results
<1>4. CASE /\ Goto(p, "sentinel") \/ Goto(p, "ask")
           /\ UNCHANGED <<hand, result>>
  <2>1. pc' \in [Process -> Stages] /\ pc'[p] \in Loose
    BY <1>4, GotoForm DEF TypeOK, Stages, Loose
  <2>2. ReadTypes'
    BY <1>4, <2>1 DEF TypeOK, ReadTypes, hand
  <2>3. QED BY <1>1, <1>2, <2>1, <2>2, LooseKeeps DEF TypeOK
<1>5. CASE /\ body \in Listing \ Empty
           /\ Goto(p, IF pol[p].digest = None THEN "rehash" ELSE "keep")
           /\ got' = [got EXCEPT ![p] = [listing |-> body, page |-> pol[p].page]]
           /\ UNCHANGED <<pol, asked, result>>
  <2> DEFINE r == [listing |-> body, page |-> pol[p].page]
  <2>1. pol[p] \in Policy /\ Covered(pol[p])
    BY DEF ReadBody, ProcessOK, HandOK, TypeOK, ReadTypes
  <2>2. r \in Records
    BY <1>5, <2>1 DEF Records, Policy
  <2>3. got' \in [Process -> Records \cup {None}] /\ got'[p] = r
    BY <1>5, <2>2, GotForm DEF TypeOK
  <2>4. got'[p] # None /\ got'[p].listing = body
    <3>1. r.listing = body OBVIOUS
    <3>2. r # None
      BY <2>2, NoneAssumption
    <3>3. QED BY <2>3, <3>1, <3>2
  <2>5. pc' \in [Process -> Stages] /\
        pc'[p] = IF pol[p].digest = None THEN "rehash" ELSE "keep"
    BY <1>5, GotoForm DEF TypeOK, Stages
  <2>6. ReadTypes'
    BY <1>5, <2>3, <2>5 DEF TypeOK, ReadTypes
  <2>7. UNCHANGED <<body, newest, pol>>
    BY <1>5 DEF ReadBody, disk, index
  <2>8. pol[p].digest # None => pol[p].digest <= body
    BY <1>5, <2>1 DEF Covered, Claims
  <2>9. body <= newest
    BY <1>5 DEF DiskOK
  <2>10. ProcessOK(p)'
    <3>1. CASE pol[p].digest = None
      <4>1. pc'[p] = "rehash" /\ pol'[p] = pol[p] /\ Covered(pol[p])'
        BY <3>1, <2>1, <2>5, <2>7 DEF Covered, Claims
      <4>2. QED
        BY <4>1, <3>1, <1>1, <2>4, <2>7, NoneAssumption, <2>1
           DEF ProcessOK, HandOK, KeepOK, StoreOK, ConfirmOK
    <3>2. CASE pol[p].digest # None
      <4>1. pc'[p] = "keep" /\ pol'[p] = pol[p] /\ pol[p] # None
        BY <3>2, <2>1, <2>5, <2>7, NoneAssumption
      <4>2. QED
        BY <4>1, <3>2, <1>1, <2>4, <2>7, <2>8, <2>9
           DEF ProcessOK, HandOK, KeepOK, StoreOK, ConfirmOK
    <3>3. QED BY <3>1, <3>2
  <2>11. QED BY <1>2, <2>6, <2>10 DEF TypeOK
<1>6. QED BY <1>3, <1>4, <1>5 DEF ReadBody

\* The file that is replaced by a policy that covers nothing the body does not.
LEMMA PolicyOnDisk ==
  ASSUME TypeOK, DiskOK, NEW q \in Policy, Covered(q),
         \/ policy' = q /\ Landed
         \/ UNCHANGED policy /\ Refused,
         UNCHANGED <<body, blob, neg, index, last>>
  PROVE  FileTypes' /\ DiskOK' /\ Covered(q)'
<1>1. policy' \in Policy \cup {None} /\ faults' \in 0..MaxFaults
  BY FaultAssumption DEF Landed, Refused, Fault, TypeOK, FileTypes
<1>2. Covered(q)'
  BY DEF Covered, Claims, index
<1>3. policy' # None => Covered(policy)'
  BY <1>2 DEF DiskOK, Covered, Claims, index
<1>4. QED
  BY <1>1, <1>2, <1>3 DEF TypeOK, FileTypes, DiskOK, index

LEMMA RehashKeeps ==
  ASSUME NEW p \in Process, IInv(p), Rehash(p)
  PROVE  IInv(p)'
<1> USE DEF IInv
<1> DEFINE stamped == [pol[p] EXCEPT !.digest = got[p].listing]
<1>1. writing'[p] = None
  BY NotWriting DEF Rehash
<1>2. /\ pol[p] \in Policy /\ got[p] \in Records /\ Covered(pol[p])
      /\ pol[p].digest = None /\ body = got[p].listing /\ got[p] # None
  BY DEF Rehash, ProcessOK, HandOK, TypeOK, ReadTypes
<1>3. got[p].listing \in Listing
  BY <1>2 DEF Records
<1>4. /\ stamped \in Policy /\ stamped.digest = body /\ stamped.etag = pol[p].etag
      /\ stamped # None
  BY <1>2, <1>3, Restamped, NoneAssumption
<1>5. body <= newest /\ body \in Int /\ newest \in Int
  BY <1>2, <1>3 DEF DiskOK, TypeOK, FileTypes, Listing
<1>6. Covered(stamped)
  <2>1. Claims(stamped) \subseteq {pol[p].etag, body} \ {None}
    BY <1>4 DEF Claims
  <2>2. pol[p].etag # None => pol[p].etag <= newest /\ pol[p].etag <= body
    BY <1>2, <1>3 DEF Covered, Claims
  <2>3. QED BY <2>1, <2>2, <1>4, <1>5 DEF Covered
<1> HIDE DEF stamped
<1>7. FileTypes' /\ DiskOK'
  BY <1>4, <1>6, PolicyOnDisk DEF Rehash, stamped, TypeOK
<1>8. pol' \in [Process -> Policy \cup {None}] /\ pol'[p] = stamped
  BY <1>4, PolForm DEF Rehash, stamped, TypeOK
<1>9. pc' \in [Process -> Stages] /\ pc'[p] = "keep"
  BY GotoForm DEF Rehash, TypeOK, Stages
<1>10. ReadTypes' /\ ThreadTypes'
  BY <1>8, <1>9 DEF Rehash, TypeOK, ReadTypes, ThreadTypes
<1>11. ProcessOK(p)'
  <2>1. UNCHANGED <<body, newest, got>>
    BY DEF Rehash, index
  <2>2. KeepOK(p)'
    BY <1>2, <1>3, <1>4, <1>5, <1>8, <2>1, ValueAssumption DEF KeepOK
  <2>3. QED
    BY <1>1, <1>9, <2>2 DEF ProcessOK, HandOK, StoreOK, ConfirmOK
<1>12. QED BY <1>7, <1>10, <1>11 DEF TypeOK

LEMMA KeepKeeps ==
  ASSUME NEW p \in Process, IInv(p), Keep(p)
  PROVE  IInv(p)'
<1> USE DEF IInv
<1> DEFINE b == [digest |-> pol[p].digest, listing |-> got[p].listing,
                 page |-> got[p].page]
<1>1. writing'[p] = None
  BY NotWriting DEF Keep
<1>2. /\ pol[p] \in Policy /\ got[p] \in Records /\ pol[p].digest # None
      /\ pol[p].digest <= got[p].listing /\ got[p].listing <= newest
  BY DEF Keep, ProcessOK, KeepOK, TypeOK, ReadTypes
<1>3. b \in Blob /\ b.digest <= b.listing /\ b.listing <= newest
  BY <1>2 DEF Blob, Policy, Records
<1>4. \/ blob' = b /\ Landed
      \/ UNCHANGED blob /\ Refused
  BY DEF Keep
<1> HIDE DEF b
<1>5. FileTypes'
  BY <1>3, <1>4, FaultAssumption
     DEF Keep, Landed, Refused, Fault, index, TypeOK, FileTypes
<1>6. DiskOK'
  BY <1>3, <1>4 DEF Keep, DiskOK, Covered, Claims, index
<1>7. ReadTypes' /\ ProcessOK(p)' /\ ThreadTypes'
  BY <1>1, FinishKeeps DEF Keep, TypeOK, ThreadTypes
<1>8. QED BY <1>5, <1>6, <1>7 DEF TypeOK

LEMMA SentinelKeeps ==
  ASSUME NEW p \in Process, IInv(p), Sentinel(p)
  PROVE  IInv(p)'
<1> USE DEF IInv
<1>1. writing'[p] = None
  BY NotWriting DEF Sentinel
<1>2. FileTypes' /\ DiskOK' /\ ThreadTypes'
  BY SameDisk DEF Sentinel, TypeOK, ThreadTypes
<1>3. CASE End(p, "remembered") \/ End(p, "failed")
  BY <1>1, <1>2, <1>3, EndKeeps DEF TypeOK, Results
<1>4. CASE Goto(p, "ask") /\ UNCHANGED <<hand, result>>
  <2>1. pc' \in [Process -> Stages] /\ pc'[p] \in Loose
    BY <1>4, GotoForm DEF TypeOK, Stages, Loose
  <2>2. ReadTypes'
    BY <1>4, <2>1 DEF TypeOK, ReadTypes, hand
  <2>3. QED BY <1>1, <1>2, <2>1, <2>2, LooseKeeps DEF TypeOK
<1>5. QED BY <1>3, <1>4 DEF Sentinel

----------------------------------------------------------------------------
(* Answers of the index. *)

LEMMA RequestFailsKeeps ==
  ASSUME NEW p \in Process, IInv(p), RequestFails(p)
  PROVE  IInv(p)'
<1> USE DEF IInv
<1>1. writing'[p] = None
  BY NotWriting DEF RequestFails
<1>2. FileTypes' /\ DiskOK' /\ ThreadTypes'
  BY SameDisk DEF RequestFails, TypeOK, ThreadTypes
<1>3. QED
  BY <1>1, <1>2, EndKeeps DEF RequestFails, TypeOK, Results

LEMMA NotFoundKeeps ==
  ASSUME NEW p \in Process, IInv(p), NotFound(p)
  PROVE  IInv(p)'
<1> USE DEF IInv
<1>1. writing'[p] = None
  BY NotWriting DEF NotFound
<1>2. FileTypes' /\ DiskOK' /\ ThreadTypes'
  BY SameDisk DEF NotFound, TypeOK, ThreadTypes
<1>3. pc' \in [Process -> Stages] /\ pc'[p] \in Loose
  BY GotoForm DEF NotFound, TypeOK, Stages, Loose
<1>4. ReadTypes'
  BY <1>3 DEF NotFound, TypeOK, ReadTypes, hand
<1>5. QED BY <1>1, <1>2, <1>3, <1>4, LooseKeeps DEF TypeOK

\* A 200 is at least as new as anything on disk.
LEMMA ServedKeeps ==
  ASSUME NEW p \in Process, IInv(p), Served(p)
  PROVE  IInv(p)'
<1> USE DEF IInv
<1>1. writing'[p] = None
  BY NotWriting DEF Served
<1>2. FileTypes' /\ DiskOK' /\ ThreadTypes' /\ newest \in Listing
  BY SameDisk DEF Served, TypeOK, FileTypes, ThreadTypes
<1>3. PICK page \in Page, etag \in {newest, None} :
        /\ pol' = [pol EXCEPT ![p] = [etag |-> etag, digest |-> None, page |-> page]]
        /\ got' = [got EXCEPT ![p] = [listing |-> newest, page |-> page]]
  BY DEF Served
<1> DEFINE q == [etag |-> etag, digest |-> None, page |-> page]
           r == [listing |-> newest, page |-> page]
<1>4. q \in Policy /\ q.etag \in {newest, None} /\ q.digest = None
  BY <1>2 DEF Policy
<1>5. r \in Records /\ r.listing = newest
  BY <1>2 DEF Records
<1> HIDE DEF q, r
<1>6. pol' \in [Process -> Policy \cup {None}] /\ pol'[p] = q
  BY <1>3, <1>4, PolForm DEF q, TypeOK
<1>7. got' \in [Process -> Records \cup {None}] /\ got'[p] = r
  BY <1>3, <1>5, GotForm DEF r, TypeOK
<1>8. pc' \in [Process -> Stages] /\ pc'[p] = "put"
  BY GotoForm DEF Served, TypeOK, Stages
<1>9. ReadTypes'
  BY <1>6, <1>7, <1>8 DEF Served, TypeOK, ReadTypes
<1>10. StoreOK(p)'
  <2>1. UNCHANGED <<body, policy, newest>> /\ newest \in Int
    BY <1>2 DEF Served, disk, index, Listing
  <2>2. q # None /\ r # None
    BY <1>4, <1>5, NoneAssumption
  <2>3. policy' # None => \A c \in Claims(policy)' : c <= newest
    BY <2>1 DEF DiskOK, Covered, Claims
  <2>4. body' \in Listing => body' <= newest
    BY <2>1 DEF DiskOK
  <2>5. QED
    BY <1>4, <1>5, <1>6, <1>7, <1>8, <2>1, <2>2, <2>3, <2>4 DEF StoreOK, Claims
<1>11. ProcessOK(p)'
  BY <1>1, <1>8, <1>10 DEF ProcessOK, HandOK, KeepOK, ConfirmOK
<1>12. QED BY <1>2, <1>9, <1>11 DEF TypeOK

\* A 304 squeezes body and blob to the listing it confirms.
LEMMA NotModifiedKeeps ==
  ASSUME NEW p \in Process, IInv(p), NotModified(p)
  PROVE  IInv(p)'
<1> USE DEF IInv
<1>1. writing'[p] = None
  BY NotWriting DEF NotModified
<1>2. FileTypes' /\ DiskOK' /\ ThreadTypes'
  BY SameDisk DEF NotModified, TypeOK, ThreadTypes
<1>3. PICK page \in Page :
        pol' = [pol EXCEPT ![p] =
                  [@ EXCEPT !.page = page, !.digest = CarriedDigest(pol[p], page)]]
  BY DEF NotModified
<1> DEFINE d == CarriedDigest(pol[p], page)
           q == [pol[p] EXCEPT !.page = page, !.digest = d]
<1>4. /\ pol[p] \in Policy /\ Covered(pol[p])
      /\ pol[p].etag = newest /\ newest \in Listing
  BY DEF NotModified, ProcessOK, HandOK, TypeOK, ReadTypes, FileTypes
<1>5. newest \in Int /\ newest # None
  BY <1>4, ValueAssumption DEF Listing
<1>6. d \in {pol[p].digest, None}
  BY DEF CarriedDigest
<1>7. q \in Policy /\ q.etag = newest /\ q.digest = d
  BY <1>4, <1>6 DEF Policy
<1>8. q # None
  BY <1>7, NoneAssumption
<1>9. /\ body \in Listing => body = newest
      /\ pol[p].digest # None => pol[p].digest = newest
      /\ blob # None => blob.listing <= newest
  <2>1. body \in Listing => body <= newest /\ newest <= body /\ body \in Int
    BY <1>4, <1>5 DEF DiskOK, Covered, Claims, Listing
  <2>2. pol[p].digest # None =>
          pol[p].digest <= newest /\ newest <= pol[p].digest /\ pol[p].digest \in Int
    BY <1>4, <1>5 DEF Covered, Claims, Listing, Policy
  <2>3. QED BY <1>5, <2>1, <2>2 DEF DiskOK
<1>10. UNCHANGED <<body, blob, newest>>
  BY DEF NotModified, disk, index
<1> HIDE DEF q, d
<1>11. pol' \in [Process -> Policy \cup {None}] /\ pol'[p] = q
  <2>1. pol' = [pol EXCEPT ![p] = q]
    BY <1>3 DEF q, d, TypeOK, ReadTypes
  <2>2. QED BY <2>1, <1>7, PolForm DEF TypeOK
<1>12. pc' \in [Process -> Stages] /\ pc'[p] = "confirm"
  BY GotoForm DEF NotModified, TypeOK, Stages
<1>13. ReadTypes'
  BY <1>11, <1>12 DEF NotModified, TypeOK, ReadTypes
<1>14. Covered(pol[p])'
  BY <1>4, <1>5, <1>6, <1>7, <1>9, <1>10, <1>11 DEF Covered, Claims
<1>15. ConfirmOK(p)'
  BY <1>5, <1>6, <1>7, <1>8, <1>9, <1>10, <1>11, <1>12, <1>14 DEF ConfirmOK
<1>16. ProcessOK(p)'
  BY <1>1, <1>12, <1>15 DEF ProcessOK, HandOK, KeepOK, StoreOK
<1>17. QED BY <1>2, <1>13, <1>16 DEF TypeOK

\* Records that are those the 304 confirmed, in hand.
LEMMA ConfirmedInHand ==
  ASSUME NEW p \in Process, IInv(p), writing'[p] = None,
         pc[p] \in {"confirm", "confirm_body"}, Goto(p, "refresh"),
         NEW r \in Records, r.listing = pol[p].etag, got' = [got EXCEPT ![p] = r],
         UNCHANGED <<disk, index, pol, asked, result>>
  PROVE  ReadTypes' /\ ProcessOK(p)'
<1> USE DEF IInv
<1>1. pc' \in [Process -> Stages] /\ pc'[p] = "refresh"
  BY GotoForm DEF TypeOK, Stages
<1>2. got' \in [Process -> Records \cup {None}] /\ got'[p] = r /\ r # None
  BY GotForm, NoneAssumption DEF TypeOK
<1>3. pol[p] # None /\ Covered(pol[p])'
  BY DEF ProcessOK, ConfirmOK, Covered, Claims, disk, index
<1>4. ReadTypes'
  BY <1>1, <1>2 DEF TypeOK, ReadTypes
<1>5. QED
  BY <1>1, <1>2, <1>3, <1>4 DEF ProcessOK, HandOK, KeepOK, StoreOK, ConfirmOK

LEMMA ConfirmKeeps ==
  ASSUME NEW p \in Process, IInv(p), Confirm(p)
  PROVE  IInv(p)'
<1> USE DEF IInv
<1>1. writing'[p] = None
  BY NotWriting DEF Confirm
<1>2. FileTypes' /\ DiskOK' /\ ThreadTypes'
  BY SameDisk DEF Confirm, TypeOK, ThreadTypes
<1>3. ConfirmOK(p) /\ pc[p] = "confirm" /\ pol[p] \in Policy
  BY DEF Confirm, ProcessOK, ConfirmOK, TypeOK, ReadTypes
<1>4. CASE Binds(pol[p]) /\ Goto(p, "refresh") /\ got' = [got EXCEPT ![p] = BlobRecords]
  <2>1. blob \in Blob /\ blob.digest = pol[p].digest /\ pol[p].digest # None
    BY <1>4 DEF Binds, TypeOK, FileTypes
  <2>2. BlobRecords \in Records /\ BlobRecords.listing = blob.listing
    BY <2>1 DEF BlobRecords, Records, Blob
  <2>3. /\ blob.digest = pol[p].etag /\ blob.digest <= blob.listing
        /\ blob.listing <= pol[p].etag
    BY <1>3, <2>1, NoneAssumption DEF ConfirmOK, DiskOK
  <2>4. blob.digest \in Int /\ blob.listing \in Int
    BY <2>1 DEF Blob, Listing
  <2>5. BlobRecords.listing = pol[p].etag
    BY <2>2, <2>3, <2>4
  <2>6. ReadTypes' /\ ProcessOK(p)'
    BY <1>1, <1>3, <1>4, <2>2, <2>5, ConfirmedInHand DEF Confirm
  <2>7. QED BY <1>2, <2>6 DEF TypeOK
<1>5. CASE Goto(p, "confirm_entry") /\ UNCHANGED got
  <2>1. pc' \in [Process -> Stages] /\ pc'[p] = "confirm_entry"
    BY <1>5, GotoForm DEF TypeOK, Stages
  <2>2. ReadTypes'
    BY <1>5, <2>1 DEF Confirm, TypeOK, ReadTypes
  <2>3. ProcessOK(p)'
    BY <1>1, <1>3, <2>1
       DEF Confirm, ProcessOK, HandOK, KeepOK, StoreOK, ConfirmOK, Covered, Claims,
           disk, index
  <2>4. QED BY <1>2, <2>2, <2>3 DEF TypeOK
<1>6. QED BY <1>4, <1>5 DEF Confirm

LEMMA ConfirmEntryKeeps ==
  ASSUME NEW p \in Process, IInv(p), ConfirmEntry(p)
  PROVE  IInv(p)'
<1> USE DEF IInv
<1>1. writing'[p] = None
  BY NotWriting DEF ConfirmEntry
<1>2. FileTypes' /\ DiskOK' /\ ThreadTypes'
  BY SameDisk DEF ConfirmEntry, TypeOK, ThreadTypes
<1>3. pc' \in [Process -> Stages] /\ pc'[p] \in {"ask", "confirm_body"}
  BY GotoForm DEF ConfirmEntry, TypeOK, Stages
<1>4. ReadTypes'
  BY <1>3 DEF ConfirmEntry, TypeOK, ReadTypes, hand
<1>5. ProcessOK(p)'
  BY <1>1, <1>3
     DEF ConfirmEntry, ProcessOK, HandOK, KeepOK, StoreOK, ConfirmOK, Covered, Claims,
         disk, index, hand
<1>6. QED BY <1>2, <1>4, <1>5 DEF TypeOK

LEMMA ConfirmBodyKeeps ==
  ASSUME NEW p \in Process, IInv(p), ConfirmBody(p)
  PROVE  IInv(p)'
<1> USE DEF IInv
<1>1. writing'[p] = None
  BY NotWriting DEF ConfirmBody
<1>2. FileTypes' /\ DiskOK' /\ ThreadTypes'
  BY SameDisk DEF ConfirmBody, TypeOK, ThreadTypes
<1>3. ConfirmOK(p) /\ pc[p] = "confirm_body" /\ pol[p] \in Policy
  BY DEF ConfirmBody, ProcessOK, ConfirmOK, TypeOK, ReadTypes
<1>4. CASE /\ body \in Listing /\ Goto(p, "refresh")
           /\ got' = [got EXCEPT ![p] = [listing |-> body, page |-> pol[p].page]]
  <2> DEFINE r == [listing |-> body, page |-> pol[p].page]
  <2>1. r \in Records /\ r.listing = pol[p].etag
    BY <1>3, <1>4 DEF Records, Policy, ConfirmOK
  <2> HIDE DEF r
  <2>2. ReadTypes' /\ ProcessOK(p)'
    BY <1>1, <1>3, <1>4, <2>1, ConfirmedInHand DEF ConfirmBody, r
  <2>3. QED BY <1>2, <2>2 DEF TypeOK
<1>5. CASE Goto(p, "ask") /\ UNCHANGED got
  <2>1. pc' \in [Process -> Stages] /\ pc'[p] \in Loose
    BY <1>5, GotoForm DEF TypeOK, Stages, Loose
  <2>2. ReadTypes'
    BY <1>5, <2>1 DEF ConfirmBody, TypeOK, ReadTypes
  <2>3. QED BY <1>1, <1>2, <2>1, <2>2, LooseKeeps DEF TypeOK
<1>6. QED BY <1>4, <1>5 DEF ConfirmBody

----------------------------------------------------------------------------
(* What is stored. *)

LEMMA RefreshKeeps ==
  ASSUME NEW p \in Process, IInv(p), Refresh(p)
  PROVE  IInv(p)'
<1> USE DEF IInv
<1>1. pol[p] \in Policy /\ Covered(pol[p])
  BY DEF Refresh, ProcessOK, HandOK, TypeOK, ReadTypes
<1>2. FileTypes' /\ DiskOK'
  BY SameDisk DEF Refresh
<1>3. writing' \in [Process -> Policy \cup {None}] /\ writing'[p] = pol[p]
  BY <1>1 DEF Refresh, TypeOK, ThreadTypes
<1>4. pc' \in [Process -> Stages] /\ pc'[p] = "settling"
  BY GotoForm DEF Refresh, TypeOK, Stages
<1>5. ReadTypes' /\ ThreadTypes'
  BY <1>3, <1>4 DEF Refresh, TypeOK, ReadTypes, ThreadTypes, hand
<1>6. Covered(writing[p])'
  BY <1>1, <1>3 DEF Refresh, Covered, Claims, disk, index
<1>7. ProcessOK(p)'
  BY <1>4, <1>6 DEF ProcessOK, HandOK, KeepOK, StoreOK, ConfirmOK
<1>8. QED BY <1>2, <1>5, <1>7 DEF TypeOK

LEMMA BackgroundWriteKeeps ==
  ASSUME NEW p \in Process, IInv(p), BackgroundWrite(p)
  PROVE  IInv(p)'
<1> USE DEF IInv
<1>1. writing[p] \in Policy /\ Covered(writing[p]) /\ pc[p] \in {"settling", "closing"}
  BY DEF BackgroundWrite, ProcessOK, HandOK, TypeOK, ThreadTypes
<1>2. FileTypes' /\ DiskOK'
  BY <1>1, PolicyOnDisk DEF BackgroundWrite
<1>3. writing' \in [Process -> Policy \cup {None}] /\ writing'[p] = None
  BY DEF BackgroundWrite, TypeOK, ThreadTypes
<1>4. ReadTypes' /\ ThreadTypes' /\ pc'[p] \in {"settling", "closing"}
  BY <1>1, <1>3 DEF BackgroundWrite, TypeOK, ReadTypes, ThreadTypes, hand
<1>5. ProcessOK(p)'
  BY <1>3, <1>4 DEF ProcessOK, HandOK, KeepOK, StoreOK, ConfirmOK
<1>6. QED BY <1>2, <1>4, <1>5 DEF TypeOK

LEMMA SettledKeeps ==
  ASSUME NEW p \in Process, IInv(p), Settled(p)
  PROVE  IInv(p)'
<1> USE DEF IInv
<1>1. writing'[p] = None
  BY DEF Settled
<1>2. FileTypes' /\ DiskOK' /\ ThreadTypes'
  BY SameDisk DEF Settled, TypeOK, ThreadTypes
<1>3. QED BY <1>1, <1>2, EndKeeps DEF Settled, TypeOK, Results

LEMMA PutKeeps ==
  ASSUME NEW p \in Process, IInv(p), Put(p)
  PROVE  IInv(p)'
<1> USE DEF IInv
<1>1. writing'[p] = None
  BY NotWriting DEF Put
<1>2. StoreOK(p) /\ pc[p] = "put" /\ got[p] \in Records
  BY DEF Put, ProcessOK, StoreOK, TypeOK, ReadTypes
<1>3. got[p].listing \in Listing /\ got[p].listing <= newest
  BY <1>2 DEF Records, StoreOK
<1>4. FileTypes'
  BY <1>3, FaultAssumption
     DEF Put, Landed, Refused, Fault, index, TypeOK, FileTypes
<1>5. ThreadTypes'
  BY DEF Put, TypeOK, ThreadTypes
<1>6. CASE UNCHANGED body /\ Finish(p)
  <2>1. DiskOK'
    BY <1>6 DEF Put, index, DiskOK, Covered, Claims
  <2>2. QED BY <1>1, <1>4, <1>5, <1>6, <2>1, FinishKeeps DEF TypeOK
<1>7. CASE body' = got[p].listing /\ Goto(p, "stamp") /\ UNCHANGED <<hand, result>>
  <2>1. policy # None => Covered(policy)'
    BY <1>2, <1>3, <1>7 DEF Put, index, DiskOK, StoreOK, Covered, Claims
  <2>2. DiskOK'
    BY <1>3, <1>7, <2>1 DEF Put, index, DiskOK
  <2>3. pc' \in [Process -> Stages] /\ pc'[p] = "stamp"
    BY <1>7, GotoForm DEF TypeOK, Stages
  <2>4. ReadTypes'
    BY <1>7, <2>3 DEF TypeOK, ReadTypes, hand
  <2>5. StoreOK(p)'
    BY <1>2, <1>7, <2>3 DEF Put, StoreOK, hand, index
  <2>6. ProcessOK(p)'
    BY <1>1, <2>3, <2>5 DEF ProcessOK, HandOK, KeepOK, ConfirmOK
  <2>7. QED BY <1>4, <1>5, <2>2, <2>4, <2>6 DEF TypeOK
<1>8. QED BY <1>6, <1>7 DEF Put

LEMMA StampKeeps ==
  ASSUME NEW p \in Process, IInv(p), Stamp(p)
  PROVE  IInv(p)'
<1> USE DEF IInv
<1> DEFINE stamped == [pol[p] EXCEPT !.digest = got[p].listing]
<1>1. writing'[p] = None
  BY NotWriting DEF Stamp
<1>2. /\ pol[p] \in Policy /\ got[p] \in Records
      /\ pol[p].etag \in {got[p].listing, None} /\ got[p].listing <= newest
      /\ body = got[p].listing /\ got[p] # None
  BY DEF Stamp, ProcessOK, StoreOK, TypeOK, ReadTypes
<1>3. got[p].listing \in Listing /\ body \in Int /\ newest \in Int
  BY <1>2 DEF Records, Listing, TypeOK, FileTypes
<1>4. /\ stamped \in Policy /\ stamped.digest = body /\ stamped.etag = pol[p].etag
      /\ stamped # None
  BY <1>2, <1>3, Restamped, NoneAssumption
<1> HIDE DEF stamped
<1>5. Covered(stamped)
  BY <1>2, <1>3, <1>4 DEF Covered, Claims
<1>6. FileTypes' /\ DiskOK'
  BY <1>4, <1>5, PolicyOnDisk DEF Stamp, stamped
<1>7. ThreadTypes'
  BY DEF Stamp, TypeOK, ThreadTypes
<1>8. CASE Finish(p)
  BY <1>1, <1>6, <1>7, <1>8, FinishKeeps DEF TypeOK
<1>9. CASE /\ Goto(p, "keep") /\ pol' = [pol EXCEPT ![p] = stamped]
           /\ UNCHANGED <<got, asked, result>>
  <2>1. pol' \in [Process -> Policy \cup {None}] /\ pol'[p] = stamped
    BY <1>4, <1>9, PolForm DEF TypeOK
  <2>2. pc' \in [Process -> Stages] /\ pc'[p] = "keep"
    BY <1>9, GotoForm DEF TypeOK, Stages
  <2>3. ReadTypes'
    BY <1>9, <2>1, <2>2 DEF TypeOK, ReadTypes
  <2>4. KeepOK(p)'
    BY <1>2, <1>3, <1>4, <1>9, <2>1, ValueAssumption DEF Stamp, KeepOK, index
  <2>5. ProcessOK(p)'
    BY <1>1, <2>2, <2>4 DEF ProcessOK, HandOK, StoreOK, ConfirmOK
  <2>6. QED BY <1>6, <1>7, <2>3, <2>5 DEF TypeOK
<1>10. QED BY <1>8, <1>9 DEF Stamp, stamped

\* The sentinel is no part of what is claimed of body, policy and blob.
LEMMA OnlySentinel ==
  ASSUME TypeOK, DiskOK, neg' \in BOOLEAN, last' \in {"unknown", "listing", "absent"},
         Landed \/ Refused, UNCHANGED <<body, policy, blob, index>>
  PROVE  FileTypes' /\ DiskOK'
BY FaultAssumption
   DEF Landed, Refused, Fault, TypeOK, FileTypes, DiskOK, Covered, Claims, index

LEMMA DropKeeps ==
  ASSUME NEW p \in Process, IInv(p), Drop(p)
  PROVE  IInv(p)'
<1> USE DEF IInv
<1>1. writing'[p] = None
  BY NotWriting DEF Drop
<1>2. FileTypes' /\ DiskOK' /\ ThreadTypes'
  BY OnlySentinel DEF Drop, TypeOK, FileTypes, ThreadTypes
<1>3. QED BY <1>1, <1>2, EndKeeps DEF Drop, TypeOK, Results

LEMMA DenyKeeps ==
  ASSUME NEW p \in Process, IInv(p), Deny(p)
  PROVE  IInv(p)'
<1> USE DEF IInv
<1>1. writing'[p] = None
  BY NotWriting DEF Deny
<1>2. FileTypes' /\ DiskOK' /\ ThreadTypes'
  BY OnlySentinel DEF Deny, TypeOK, FileTypes, ThreadTypes
<1>3. QED BY <1>1, <1>2, EndKeeps DEF Deny, TypeOK, Results

----------------------------------------------------------------------------
(* Interruptions, and the index. *)

LEMMA CancelKeeps ==
  ASSUME NEW p \in Process, IInv(p), Cancel(p)
  PROVE  IInv(p)'
<1> USE DEF IInv
<1>1. FileTypes' /\ DiskOK' /\ ThreadTypes'
  BY SameDisk DEF Cancel, TypeOK, ThreadTypes
<1>2. pc' \in [Process -> Stages] /\ pc'[p] = "closing"
  BY GotoForm DEF Cancel, TypeOK, Stages
<1>3. ReadTypes'
  BY <1>2 DEF Cancel, TypeOK, ReadTypes, hand
<1>4. writing'[p] # None => Covered(writing[p])'
  BY DEF Cancel, ProcessOK, HandOK, Covered, Claims, disk, index
<1>5. ProcessOK(p)'
  BY <1>2, <1>4 DEF ProcessOK, HandOK, KeepOK, StoreOK, ConfirmOK
<1>6. QED BY <1>1, <1>3, <1>5 DEF TypeOK

LEMMA CloseKeeps ==
  ASSUME NEW p \in Process, IInv(p), Close(p)
  PROVE  IInv(p)'
<1> USE DEF IInv
<1>1. writing'[p] = None
  BY DEF Close
<1>2. FileTypes' /\ DiskOK' /\ ThreadTypes'
  BY SameDisk DEF Close, TypeOK, ThreadTypes
<1>3. QED BY <1>1, <1>2, EndKeeps DEF Close, TypeOK, Results

LEMMA DieKeeps ==
  ASSUME NEW p \in Process, IInv(p), Die(p)
  PROVE  IInv(p)'
<1> USE DEF IInv
<1>1. writing' \in [Process -> Policy \cup {None}] /\ writing'[p] = None
  BY DEF Die, TypeOK, ThreadTypes
<1>2. FileTypes' /\ DiskOK'
  BY FaultAssumption
     DEF Die, Fault, TypeOK, FileTypes, DiskOK, Covered, Claims, disk, index
<1>3. ThreadTypes'
  BY <1>1 DEF Die, TypeOK, ThreadTypes
<1>4. QED BY <1>1, <1>2, <1>3, EndKeeps DEF Die, TypeOK, Results

\* A newer listing makes nothing that was true of the older ones false.
LEMMA PublishKeeps ==
  ASSUME NEW p \in Process, IInv(p), Publish
  PROVE  IInv(p)'
<1> USE DEF IInv
<1>1. /\ newest \in Int /\ newest' = newest + 1 /\ newest' \in Listing
      /\ UNCHANGED <<body, policy, blob, neg, pc, offline, pol, got, asked, writing,
                     result, last, faults>>
  BY ListingAssumption DEF Publish, TypeOK, FileTypes, Listing, disk, hand
<1>2. TypeOK'
  BY <1>1 DEF Publish, TypeOK, FileTypes, ReadTypes, ThreadTypes
<1>3. \A n \in Int : n <= newest => n <= newest'
  BY <1>1
<1>4. \A q \in Policy : Covered(q) => Covered(q)'
  BY <1>1, <1>3 DEF Covered, Claims, Policy, Listing
<1>5. DiskOK'
  BY <1>1, <1>3, <1>4 DEF DiskOK, TypeOK, FileTypes, Listing, Blob
<1>6. pol[p] # None => pol[p] \in Policy
  BY DEF TypeOK, ReadTypes
<1>7. writing[p] # None => writing[p] \in Policy
  BY DEF TypeOK, ThreadTypes
<1>8. got[p] # None => got[p].listing \in Int
  BY DEF TypeOK, ReadTypes, Records, Listing
<1>9. HandOK(p)'
  BY <1>1, <1>4, <1>6, <1>7 DEF ProcessOK, HandOK
<1>10. KeepOK(p)' /\ StoreOK(p)'
  BY <1>1, <1>3, <1>8 DEF ProcessOK, KeepOK, StoreOK, Claims
<1>11. ConfirmOK(p)'
  BY <1>1, <1>4, <1>6 DEF ProcessOK, ConfirmOK
<1>12. QED BY <1>2, <1>5, <1>9, <1>10, <1>11 DEF ProcessOK

LEMMA StandingKeeps ==
  ASSUME NEW p \in Process, IInv(p), gone' \in BOOLEAN,
         UNCHANGED <<disk, newest, pc, offline, hand, writing, result, last, faults>>
  PROVE  IInv(p)'
<1>1. TypeOK'
  BY DEF IInv, TypeOK, FileTypes, ReadTypes, ThreadTypes, disk, hand
<1>2. DiskOK'
  BY DEF IInv, DiskOK, Covered, Claims, disk
<1>3. ProcessOK(p)'
  BY DEF IInv, ProcessOK, HandOK, KeepOK, StoreOK, ConfirmOK, Covered, Claims, disk, hand
<1>4. QED BY <1>1, <1>2, <1>3 DEF IInv

----------------------------------------------------------------------------
(* The theorems. *)

LEMMA InitOK ==
  ASSUME Init, NEW p \in Process
  PROVE  IInv(p)
<1>1. TypeOK
  BY ListingAssumption, FaultAssumption
     DEF Init, TypeOK, FileTypes, ReadTypes, ThreadTypes, Stages, Results, Policy
<1>2. DiskOK
  BY ValueAssumption, NoneAssumption DEF Init, DiskOK, Covered, Claims, Listing
<1>3. ProcessOK(p)
  BY DEF Init, ProcessOK, HandOK, KeepOK, StoreOK, ConfirmOK
<1>4. QED BY <1>1, <1>2, <1>3 DEF IInv

LEMMA StepKeeps ==
  ASSUME NEW p \in Process, IInv(p), Step(p)
  PROVE  IInv(p)'
<1>1. CASE Peek(p) \/ PeekBlob(p) \/ Begin(p) \/ ReadBlob(p) \/ ReadEntry(p) \/ ReadBody(p)
  BY <1>1, PeekKeeps, PeekBlobKeeps, BeginKeeps, ReadBlobKeeps, ReadEntryKeeps,
     ReadBodyKeeps
<1>2. CASE Rehash(p) \/ Keep(p) \/ Sentinel(p)
  BY <1>2, RehashKeeps, KeepKeeps, SentinelKeeps
<1>3. CASE RequestFails(p) \/ NotFound(p) \/ Served(p) \/ NotModified(p)
  BY <1>3, RequestFailsKeeps, NotFoundKeeps, ServedKeeps, NotModifiedKeeps
<1>4. CASE Confirm(p) \/ ConfirmEntry(p) \/ ConfirmBody(p)
  BY <1>4, ConfirmKeeps, ConfirmEntryKeeps, ConfirmBodyKeeps
<1>5. CASE Refresh(p) \/ BackgroundWrite(p) \/ Settled(p)
  BY <1>5, RefreshKeeps, BackgroundWriteKeeps, SettledKeeps
<1>6. CASE Put(p) \/ Stamp(p) \/ Drop(p) \/ Deny(p) \/ Close(p)
  BY <1>6, PutKeeps, StampKeeps, DropKeeps, DenyKeeps, CloseKeeps
<1>7. QED BY <1>1, <1>2, <1>3, <1>4, <1>5, <1>6 DEF Step

LEMMA NextKeeps ==
  ASSUME NEW p, Process = {p}, IInv(p), [Next]_vars
  PROVE  IInv(p)'
<1>1. CASE Start(p) \/ Step(p) \/ Cancel(p) \/ Die(p)
  BY <1>1, StartKeeps, StepKeeps, CancelKeeps, DieKeeps
<1>2. CASE Publish
  BY <1>2, PublishKeeps
<1>3. CASE Withdraw
  BY <1>3, StandingKeeps DEF Withdraw, IInv, TypeOK, FileTypes
<1>4. CASE UNCHANGED vars
  BY <1>4, StandingKeeps DEF vars, index, IInv, TypeOK, FileTypes
<1>5. QED BY <1>1, <1>2, <1>3, <1>4 DEF Next

\* The invariant holds in every state of a cache that one process uses: what
\* policies claim, what the body is and what a blob holds stay in order
\* (cached_client.py, cache.py).
THEOREM Invariance ==
  ASSUME NEW p, Process = {p}
  PROVE  Spec => []IInv(p)
<1>1. Init => IInv(p)
  BY InitOK
<1>2. IInv(p) /\ [Next]_vars => IInv(p)'
  BY NextKeeps
<1>3. QED BY <1>1, <1>2, PTL DEF Spec

\* Every file and every local of get_files has the type the code gives it: a
\* blob, in particular, is never bound to no digest.
THEOREM TypeCorrect ==
  ASSUME NEW p, Process = {p}
  PROVE  Spec => []TypeOK
<1>1. IInv(p) => TypeOK
  BY DEF IInv
<1>2. QED BY <1>1, Invariance, PTL

\* A 304 is answered with the records of the listing whose ETag the index has
\* confirmed, for any number of listings, pages, refused writes and deaths
\* (_revalidate_simple, _unmodified_records).
THEOREM ConfirmedListingServed ==
  ASSUME NEW p, Process = {p}
  PROVE  Spec => []NotModifiedConfirms
<1>1. IInv(p) => NotModifiedConfirms
  BY DEF IInv, ProcessOK, ConfirmOK, NotModifiedConfirms
<1>2. QED BY <1>1, Invariance, PTL

----------------------------------------------------------------------------
(* What a remembered 404 answers, and what an undisturbed entry holds.     *)

\* Stages a read reaches only when a policy is on disk.
Grounded == {"peek_blob", "blob", "entry", "body", "rehash", "check", "confirm",
             "confirm_entry", "confirm_body", "refresh", "settling"}

\* The sentinel is looked at only without a policy, and then no listing has been
\* put to use while it stood.
FilesAbsent ==
  /\ policy # None => body # None
  /\ neg /\ last = "listing" => policy # None

AbsenceOK(p) ==
  /\ pc[p] \in Grounded => policy # None
  /\ pc[p] = "put" /\ ~asked[p] => policy # None
  /\ writing[p] # None => policy # None
  /\ pc[p] = "sentinel" => policy = None
  /\ result[p] = "remembered" => pc[p] = "idle" /\ last # "listing"

\* A policy issued for the body there is.
Describes(q) == q.etag \in {body, None} /\ q.digest \in {body, None}

\* Only between the two halves of put_simple does the body have another's policy.
EntryOK(p) ==
  /\ blob # None => blob.digest = blob.listing
  /\ body \in Listing =>
       /\ pc[p] # "stamp" => policy # None /\ Describes(policy)
       /\ pc[p] \in Grounded \ {"entry"} => Describes(pol[p])
       /\ writing[p] # None => Describes(writing[p])
  /\ pc[p] = "keep" => pol[p].digest = got[p].listing

Undisturbed(p) == faults = 0 => EntryOK(p)

\* How a read that ends, goes on, or drops the sentinel first leaves its locals.
LEMMA EndForm ==
  ASSUME ReadTypes, NEW p \in Process, NEW how, End(p, how)
  PROVE  /\ pc'[p] = "idle" /\ result'[p] = how /\ ~asked'[p]
         /\ pol'[p] = None /\ got'[p] = None
BY DEF ReadTypes, End, Goto

LEMMA StageForm ==
  ASSUME ReadTypes, NEW p \in Process, NEW s, Goto(p, s)
  PROVE  pc'[p] = s
BY DEF ReadTypes, Goto

LEMMA FinishForm ==
  ASSUME ReadTypes, NEW p \in Process, Finish(p)
  PROVE  pc'[p] \in {"drop", "idle"} /\ result'[p] \in {result[p], "listing"}
BY EndForm DEF ReadTypes, Finish, Goto

\* A step that leaves the files alone.
LEMMA AbsenceQuiet ==
  ASSUME NEW p \in Process, AbsenceOK(p), FilesAbsent, pc[p] # "idle",
         writing'[p] # None => policy # None,
         UNCHANGED <<disk, last>>,
         pc'[p] \in Grounded => policy # None,
         pc'[p] = "sentinel" => policy = None,
         pc'[p] = "put" => asked'[p] \/ policy # None,
         result'[p] = "remembered" =>
           \/ result[p] = "remembered"
           \/ pc[p] = "sentinel" /\ neg /\ pc'[p] = "idle"
  PROVE  AbsenceOK(p)' /\ FilesAbsent'
<1>1. UNCHANGED <<body, policy, neg, last>>
  BY DEF disk
<1>2. result[p] # "remembered"
  BY DEF AbsenceOK
<1>3. FilesAbsent'
  BY <1>1 DEF FilesAbsent
<1>4. result'[p] = "remembered" => pc'[p] = "idle" /\ last' # "listing"
  BY <1>1, <1>2 DEF AbsenceOK, FilesAbsent
<1>5. QED BY <1>1, <1>3, <1>4 DEF AbsenceOK

\* What a step that leaves the files alone must see to, whatever else it does.
Harmless(p) ==
  /\ pc'[p] \in Grounded => policy # None
  /\ pc'[p] = "sentinel" => policy = None
  /\ pc'[p] = "put" => asked'[p] \/ policy # None
  /\ result'[p] = "remembered" =>
       \/ result[p] = "remembered"
       \/ pc[p] = "sentinel" /\ neg /\ pc'[p] = "idle"

LEMMA AbsenceWhileReading ==
  ASSUME NEW p \in Process, IInv(p), AbsenceOK(p), FilesAbsent,
         \/ Peek(p) \/ PeekBlob(p) \/ Begin(p) \/ ReadBlob(p) \/ ReadEntry(p)
         \/ ReadBody(p) \/ Sentinel(p)
  PROVE  AbsenceOK(p)' /\ FilesAbsent'
<1>1. ReadTypes /\ pc[p] # "idle" /\ UNCHANGED <<disk, last, writing>>
  BY DEF IInv, TypeOK, Peek, PeekBlob, Begin, ReadBlob, ReadEntry, ReadBody, Sentinel
<1>2. Peek(p) => Harmless(p)
  BY <1>1, StageForm DEF Peek, Grounded, Harmless
<1>3. PeekBlob(p) => Harmless(p)
  BY <1>1, StageForm, EndForm DEF PeekBlob, Grounded, Harmless
<1>4. Begin(p) => Harmless(p)
  BY <1>1, StageForm DEF Begin, Grounded, Harmless
<1>5. ReadBlob(p) => Harmless(p)
  BY <1>1, StageForm, EndForm DEF ReadBlob, Grounded, AbsenceOK, Harmless
<1>6. ReadEntry(p) => Harmless(p)
  BY <1>1, StageForm DEF ReadEntry, Grounded, Harmless
<1>7. ReadBody(p) => Harmless(p)
  BY <1>1, StageForm, EndForm
     DEF ReadBody, Grounded, AbsenceOK, FilesAbsent, Harmless
<1>8. Sentinel(p) => Harmless(p)
  BY <1>1, StageForm, EndForm DEF Sentinel, Grounded, Harmless
<1>9. writing'[p] # None => policy # None
  BY <1>1 DEF AbsenceOK
<1>10. Harmless(p)
  BY <1>2, <1>3, <1>4, <1>5, <1>6, <1>7, <1>8
<1>11. QED BY <1>1, <1>9, <1>10, AbsenceQuiet DEF Harmless

LEMMA AbsenceWhileAsking ==
  ASSUME NEW p \in Process, IInv(p), AbsenceOK(p), FilesAbsent,
         \/ RequestFails(p) \/ NotFound(p) \/ Served(p) \/ NotModified(p)
         \/ Confirm(p) \/ ConfirmEntry(p) \/ ConfirmBody(p) \/ Refresh(p) \/ Settled(p)
         \/ Cancel(p) \/ Close(p)
  PROVE  AbsenceOK(p)' /\ FilesAbsent'
<1>1. ReadTypes /\ pc[p] # "idle" /\ UNCHANGED <<disk, last>>
  BY DEF IInv, TypeOK, RequestFails, NotFound, Served, NotModified, Confirm,
         ConfirmEntry, ConfirmBody, Refresh, Settled, Cancel, Close
<1>2. RequestFails(p) \/ NotFound(p) => Harmless(p)
  BY <1>1, StageForm, EndForm DEF RequestFails, NotFound, Grounded, Harmless, AbsenceOK
<1>3. Served(p) => Harmless(p)
  BY <1>1, StageForm DEF Served, Grounded, Harmless, AbsenceOK, ReadTypes
<1>4. NotModified(p) => Harmless(p)
  BY <1>1, StageForm DEF NotModified, Grounded, Harmless, AbsenceOK
<1>5. Confirm(p) => Harmless(p)
  BY <1>1, StageForm DEF Confirm, Grounded, Harmless, AbsenceOK
<1>6. ConfirmEntry(p) \/ ConfirmBody(p) => Harmless(p)
  BY <1>1, StageForm DEF ConfirmEntry, ConfirmBody, Grounded, Harmless, AbsenceOK
<1>7. Refresh(p) \/ Settled(p) => Harmless(p)
  BY <1>1, StageForm, EndForm DEF Refresh, Settled, Grounded, Harmless, AbsenceOK
<1>8. Cancel(p) \/ Close(p) => Harmless(p)
  BY <1>1, StageForm, EndForm DEF Cancel, Close, Grounded, Harmless, AbsenceOK
<1>9. writing'[p] # None => policy # None
  <2>1. Refresh(p) => policy # None
    BY DEF Refresh, AbsenceOK, Grounded
  <2>2. ~Refresh(p) => writing'[p] = writing[p]
    BY DEF RequestFails, NotFound, Served, NotModified, Confirm,
           ConfirmEntry, ConfirmBody, Settled, Cancel, Close
  <2>3. QED BY <2>1, <2>2 DEF AbsenceOK
<1>10. Harmless(p)
  BY <1>2, <1>3, <1>4, <1>5, <1>6, <1>7, <1>8
<1>11. QED BY <1>1, <1>9, <1>10, AbsenceQuiet DEF Harmless

\* The policy that put_simple and _rebuild_parsed write, and the body it is for.
LEMMA StampInHand ==
  ASSUME NEW p \in Process, IInv(p), pc[p] \in {"rehash", "stamp"}
  PROVE  /\ [pol[p] EXCEPT !.digest = got[p].listing] # None
         /\ body # None /\ body = got[p].listing
<1>1. pol[p] # None /\ got[p] # None /\ body = got[p].listing
  BY DEF IInv, ProcessOK, HandOK, StoreOK
<1>2. pol[p] \in Policy /\ got[p] \in Records
  BY <1>1 DEF IInv, TypeOK, ReadTypes
<1>3. got[p].listing \in Listing
  BY <1>2 DEF Records
<1>4. QED BY <1>1, <1>2, <1>3, Restamped, NoneAssumption, ValueAssumption

\* A step that replaces a file of the entry.
LEMMA AbsenceWhileStoring ==
  ASSUME NEW p \in Process, IInv(p), AbsenceOK(p), FilesAbsent,
         Rehash(p) \/ Keep(p) \/ BackgroundWrite(p) \/ Put(p) \/ Stamp(p)
  PROVE  AbsenceOK(p)' /\ FilesAbsent'
<1>1. ReadTypes /\ ThreadTypes
  BY DEF IInv, TypeOK
<1>2. pc[p] \notin {"settling", "closing"} => writing[p] = None
  BY NotWriting DEF IInv
<1>3. CASE Rehash(p)
  <2>1. policy' # None /\ UNCHANGED <<body, last, neg, result, writing>>
    BY <1>3, StampInHand DEF Rehash, AbsenceOK, Grounded
  <2>2. pc'[p] = "keep" /\ pc[p] = "rehash" /\ body # None
    BY <1>1, <1>3, StageForm, StampInHand DEF Rehash
  <2>3. QED BY <2>1, <2>2 DEF AbsenceOK, FilesAbsent, Grounded
<1>4. CASE Keep(p)
  BY <1>1, <1>2, <1>4, FinishForm DEF Keep, Grounded, AbsenceOK, FilesAbsent
<1>5. CASE BackgroundWrite(p)
  <2>1. /\ policy' # None /\ policy # None /\ writing'[p] = None
        /\ UNCHANGED <<body, last, neg, result, pc, asked>>
    BY <1>1, <1>5 DEF BackgroundWrite, AbsenceOK, ThreadTypes, hand
  <2>2. pc[p] \in {"settling", "closing"}
    BY <1>2, <1>5 DEF BackgroundWrite
  <2>3. QED BY <2>1, <2>2 DEF AbsenceOK, FilesAbsent, Grounded
<1>6. CASE Put(p)
  <2>1. /\ pc[p] = "put" /\ got[p] \in Records
        /\ UNCHANGED <<policy, neg, writing>>
    BY <1>1, <1>6 DEF Put, IInv, ProcessOK, StoreOK, ReadTypes
  <2>2. /\ pc'[p] \in {"drop", "idle", "stamp"} 
        /\ result'[p] \in {result[p], "listing"}
    BY <1>1, <1>6, FinishForm, StageForm DEF Put
  <2>3. body' # None \/ body' = body
    BY <2>1, <1>6, ValueAssumption DEF Put, Records
  <2>4. last' = "listing" => policy # None \/ last' = last
    BY <1>6, <2>1 DEF Put, AbsenceOK
  <2>5. QED BY <1>2, <2>1, <2>2, <2>3, <2>4 DEF AbsenceOK, FilesAbsent, Grounded
<1>7. CASE Stamp(p)
  <2>1. /\ pc'[p] \in {"drop", "idle", "keep"} /\ pc[p] = "stamp"
        /\ result'[p] \in {result[p], "listing"}
        /\ UNCHANGED <<body, neg, writing, last>>
    BY <1>1, <1>7, FinishForm, StageForm DEF Stamp
  <2>2. body # None /\ (policy' # None \/ policy' = policy)
    BY <1>7, StampInHand DEF Stamp
  <2>3. QED BY <1>2, <2>1, <2>2 DEF AbsenceOK, FilesAbsent, Grounded
<1>8. QED BY <1>3, <1>4, <1>5, <1>6, <1>7

LEMMA AbsenceWhileEnding ==
  ASSUME NEW p \in Process, IInv(p), AbsenceOK(p), FilesAbsent,
         Start(p) \/ Drop(p) \/ Deny(p) \/ Die(p)
  PROVE  AbsenceOK(p)' /\ FilesAbsent'
<1> USE DEF IInv, TypeOK
<1>1. CASE Start(p)
  BY <1>1, StageForm DEF Start, Grounded, AbsenceOK, FilesAbsent, disk, hand, ReadTypes
<1>2. CASE Drop(p)
  BY <1>2, EndForm DEF Drop, Grounded, AbsenceOK, FilesAbsent
<1>3. CASE Deny(p)
  BY <1>3, EndForm DEF Deny, Grounded, AbsenceOK, FilesAbsent
<1>4. CASE Die(p)
  BY <1>4, EndForm DEF Die, Grounded, AbsenceOK, FilesAbsent, disk, ThreadTypes
<1>5. QED BY <1>1, <1>2, <1>3, <1>4

LEMMA AbsenceKeeps ==
  ASSUME NEW p, Process = {p}, IInv(p), AbsenceOK(p), FilesAbsent, [Next]_vars
  PROVE  AbsenceOK(p)' /\ FilesAbsent'
<1>1. CASE Start(p) \/ Drop(p) \/ Deny(p) \/ Die(p)
  BY <1>1, AbsenceWhileEnding
<1>2. CASE Rehash(p) \/ Keep(p) \/ BackgroundWrite(p) \/ Put(p) \/ Stamp(p)
  BY <1>2, AbsenceWhileStoring
<1>3. CASE \/ RequestFails(p) \/ NotFound(p) \/ Served(p) \/ NotModified(p)
           \/ Confirm(p) \/ ConfirmEntry(p) \/ ConfirmBody(p) \/ Refresh(p)
           \/ Settled(p) \/ Cancel(p) \/ Close(p)
  BY <1>3, AbsenceWhileAsking
<1>4. CASE \/ Peek(p) \/ PeekBlob(p) \/ Begin(p) \/ ReadBlob(p) \/ ReadEntry(p)
           \/ ReadBody(p) \/ Sentinel(p)
  BY <1>4, AbsenceWhileReading
<1>5. CASE Publish \/ Withdraw \/ UNCHANGED vars
  BY <1>5 DEF Publish, Withdraw, vars, disk, hand, AbsenceOK, FilesAbsent
<1>6. QED BY <1>1, <1>2, <1>3, <1>4, <1>5 DEF Next, Step

----------------------------------------------------------------------------
(* An entry that nothing has disturbed. *)

\* What a step that leaves the files alone must see to.
Matching(p) ==
  /\ body \in Listing =>
       /\ pc'[p] # "stamp" => pc[p] # "stamp"
       /\ pc'[p] \in Grounded \ {"entry"} => Describes(pol'[p])
       /\ writing'[p] # None => Describes(writing'[p])
  /\ pc'[p] = "keep" => pol'[p].digest = got'[p].listing

LEMMA EntryQuiet ==
  ASSUME NEW p \in Process, EntryOK(p), Matching(p), UNCHANGED disk
  PROVE  EntryOK(p)'
BY DEF EntryOK, Matching, Describes, disk

LEMMA EntryWhileReading ==
  ASSUME NEW p \in Process, IInv(p), EntryOK(p),
         \/ Start(p) \/ Peek(p) \/ PeekBlob(p) \/ Begin(p) \/ ReadBlob(p) \/ ReadEntry(p)
         \/ ReadBody(p) \/ Sentinel(p)
  PROVE  EntryOK(p)'
<1>1. ReadTypes /\ UNCHANGED <<disk, writing>> /\ writing[p] = None
  BY NotWriting DEF IInv, TypeOK, Start, Peek, PeekBlob, Begin, ReadBlob, ReadEntry,
                    ReadBody, Sentinel
<1>2. Start(p) => Matching(p)
  BY <1>1, StageForm DEF Start, Matching, Grounded, Describes
<1>3. Peek(p) => Matching(p)
  BY <1>1, StageForm DEF Peek, Matching, Grounded, Describes, EntryOK, ReadTypes
<1>4. PeekBlob(p) => Matching(p)
  BY <1>1, StageForm, EndForm DEF PeekBlob, Matching, Grounded
<1>5. Begin(p) => Matching(p)
  BY <1>1, StageForm DEF Begin, Matching, Grounded, Describes, EntryOK, ReadTypes
<1>6. ReadBlob(p) => Matching(p)
  BY <1>1, StageForm, EndForm DEF ReadBlob, Matching, Grounded
<1>7. ReadEntry(p) => Matching(p)
  BY <1>1, StageForm DEF ReadEntry, Matching, Grounded, Describes, EntryOK, ReadTypes
<1>8. ReadBody(p) => Matching(p)
  <2> SUFFICES ASSUME ReadBody(p) PROVE Matching(p)
    OBVIOUS
  <2>1. CASE pc'[p] \notin {"rehash", "keep"}
    BY <1>1, <2>1, StageForm, EndForm DEF ReadBody, Matching, Grounded
  <2>2. CASE /\ body \in Listing \ Empty
             /\ Goto(p, IF pol[p].digest = None THEN "rehash" ELSE "keep")
             /\ got' = [got EXCEPT ![p] = [listing |-> body, page |-> pol[p].page]]
             /\ UNCHANGED <<pol, asked, result>>
    <3>1. /\ pc'[p] = IF pol[p].digest = None THEN "rehash" ELSE "keep"
          /\ got'[p].listing = body /\ pol'[p] = pol[p]
      BY <1>1, <2>2, StageForm DEF ReadTypes
    <3>2. Describes(pol[p]) /\ pc[p] = "body"
      BY <2>2 DEF ReadBody, EntryOK, Grounded
    <3>3. QED BY <1>1, <3>1, <3>2 DEF Matching, Grounded, Describes
  <2>3. QED BY <1>1, <2>1, <2>2, StageForm, EndForm DEF ReadBody
<1>9. Sentinel(p) => Matching(p)
  BY <1>1, StageForm, EndForm DEF Sentinel, Matching, Grounded
<1>10. QED BY <1>1, <1>2, <1>3, <1>4, <1>5, <1>6, <1>7, <1>8, <1>9, EntryQuiet

LEMMA EntryWhileAsking ==
  ASSUME NEW p \in Process, IInv(p), EntryOK(p),
         \/ RequestFails(p) \/ NotFound(p) \/ Served(p) \/ NotModified(p)
         \/ Confirm(p) \/ ConfirmEntry(p) \/ ConfirmBody(p) \/ Refresh(p) \/ Settled(p)
         \/ Cancel(p) \/ Close(p)
  PROVE  EntryOK(p)'
<1>1. ReadTypes /\ UNCHANGED disk /\ ThreadTypes
  BY DEF IInv, TypeOK, RequestFails, NotFound, Served, NotModified, Confirm,
         ConfirmEntry, ConfirmBody, Refresh, Settled, Cancel, Close
<1>2. RequestFails(p) \/ NotFound(p) => Matching(p)
  BY <1>1, StageForm, EndForm DEF RequestFails, NotFound, Grounded, Matching, EntryOK
<1>3. Served(p) => Matching(p)
  BY <1>1, StageForm DEF Served, Grounded, Matching, EntryOK
<1>4. NotModified(p) => Matching(p)
  <2> SUFFICES ASSUME NotModified(p) PROVE Matching(p)
    OBVIOUS
  <2>1. pc'[p] = "confirm" /\ pc[p] = "check" /\ pol[p] \in Policy
    BY <1>1, StageForm DEF NotModified, IInv, ProcessOK, HandOK, ReadTypes
  <2>2. PICK page \in Page :
          pol' = [pol EXCEPT ![p] =
                    [@ EXCEPT !.page = page, !.digest = CarriedDigest(pol[p], page)]]
    BY DEF NotModified
  <2>3. pol'[p].etag = pol[p].etag /\ pol'[p].digest \in {pol[p].digest, None}
    BY <1>1, <2>1, <2>2 DEF CarriedDigest, ReadTypes, Policy
  <2>4. QED
    BY <2>1, <2>3 DEF NotModified, Grounded, Matching, EntryOK, Describes
<1>5. Confirm(p) => Matching(p)
  BY <1>1, StageForm DEF Confirm, Grounded, Matching, EntryOK, Describes
<1>6. ConfirmEntry(p) \/ ConfirmBody(p) => Matching(p)
  BY <1>1, StageForm
     DEF ConfirmEntry, ConfirmBody, Grounded, Matching, EntryOK, hand, Describes
<1>7. Refresh(p) \/ Settled(p) => Matching(p)
  BY <1>1, StageForm, EndForm
     DEF Refresh, Settled, Grounded, Matching, EntryOK, hand, Describes, ThreadTypes
<1>8. Cancel(p) \/ Close(p) => Matching(p)
  BY <1>1, StageForm, EndForm DEF Cancel, Close, Grounded, Matching, EntryOK, Describes
<1>9. QED BY <1>1, <1>2, <1>3, <1>4, <1>5, <1>6, <1>7, <1>8, EntryQuiet

\* A write that lands.
LEMMA NothingRefused ==
  ASSUME TypeOK, faults' = 0, Landed \/ Refused
  PROVE  Landed /\ ~Refused /\ faults = 0
BY DEF TypeOK, FileTypes, Landed, Refused, Fault

LEMMA EntryWhileStoring ==
  ASSUME NEW p \in Process, IInv(p), EntryOK(p), faults' = 0,
         \/ Rehash(p) \/ Keep(p) \/ BackgroundWrite(p) \/ Put(p) \/ Stamp(p)
         \/ Drop(p) \/ Deny(p)
  PROVE  EntryOK(p)'
<1>1. ReadTypes /\ ThreadTypes /\ TypeOK
  BY DEF IInv, TypeOK
<1>2. pc[p] \notin {"settling", "closing"} => writing[p] = None
  BY NotWriting DEF IInv
<1>3. CASE Rehash(p)
  <2> DEFINE stamped == [pol[p] EXCEPT !.digest = got[p].listing]
  <2>1. policy' = stamped /\ UNCHANGED <<body, blob, got, writing>>
    BY <1>1, <1>3, NothingRefused DEF Rehash
  <2>2. pc'[p] = "keep" /\ pc[p] = "rehash" /\ pol'[p] = stamped
    BY <1>1, <1>3, StageForm DEF Rehash, ReadTypes
  <2>3. body = got[p].listing /\ stamped # None
    BY <2>2, StampInHand
  <2>4. stamped.etag = pol[p].etag /\ stamped.digest = got[p].listing
    BY <1>1, <1>3, Restamped DEF Rehash, IInv, ProcessOK, HandOK, ReadTypes, Policy
  <2>5. body \in Listing => Describes(stamped)'
    BY <2>1, <2>2, <2>3, <2>4 DEF EntryOK, Grounded, Describes
  <2> HIDE DEF stamped
  <2>6. QED
    BY <1>2, <2>1, <2>2, <2>3, <2>4, <2>5 DEF EntryOK, Grounded, Describes
<1>4. CASE Keep(p)
  <2>1. pc'[p] \in {"drop", "idle"} /\ pc[p] = "keep" /\ UNCHANGED <<body, policy, writing>>
    BY <1>1, <1>4, FinishForm DEF Keep
  <2>2. blob'.digest = blob'.listing
    BY <1>1, <1>4, <2>1, NothingRefused DEF Keep, EntryOK
  <2>3. QED BY <1>2, <2>1, <2>2 DEF EntryOK, Grounded, Describes
<1>5. CASE BackgroundWrite(p)
  <2>1. /\ policy' = writing[p] /\ writing[p] # None /\ writing'[p] = None
        /\ UNCHANGED <<body, blob, pc, pol, got>>
    BY <1>1, <1>5, NothingRefused DEF BackgroundWrite, ThreadTypes, hand
  <2>2. pc[p] \in {"settling", "closing"}
    BY <1>2, <2>1
  <2>3. QED BY <2>1, <2>2 DEF EntryOK, Grounded, Describes
<1>6. CASE Put(p)
  <2>1. pc'[p] = "stamp" /\ UNCHANGED <<blob, writing>>
    BY <1>1, <1>6, NothingRefused, StageForm DEF Put
  <2>2. writing[p] = None
    BY <1>2, <1>6 DEF Put
  <2>3. QED BY <2>1, <2>2 DEF EntryOK, Grounded
<1>7. CASE Stamp(p)
  <2> DEFINE stamped == [pol[p] EXCEPT !.digest = got[p].listing]
  <2>1. policy' = stamped /\ UNCHANGED <<body, blob, writing>> /\ pc[p] = "stamp"
    BY <1>1, <1>7, NothingRefused DEF Stamp
  <2>2. \/ pc'[p] \in {"drop", "idle"}
        \/ pc'[p] = "keep" /\ pol'[p] = stamped /\ got' = got
    BY <1>1, <1>7, NothingRefused, StageForm, FinishForm DEF Stamp, ReadTypes
  <2>3. body = got[p].listing /\ stamped # None
    BY <2>1, StampInHand
  <2>4. stamped.etag = pol[p].etag /\ stamped.digest = got[p].listing
    BY <1>1, <1>7, Restamped DEF Stamp, IInv, ProcessOK, StoreOK, ReadTypes, Policy
  <2>5. pol[p].etag \in {got[p].listing, None}
    BY <1>7 DEF Stamp, IInv, ProcessOK, StoreOK
  <2> HIDE DEF stamped
  <2>6. QED
    BY <1>2, <2>1, <2>2, <2>3, <2>4, <2>5 DEF EntryOK, Grounded, Describes
<1>8. CASE Drop(p) \/ Deny(p)
  BY <1>1, <1>2, <1>8, EndForm DEF Drop, Deny, EntryOK, Grounded, Describes
<1>9. QED BY <1>3, <1>4, <1>5, <1>6, <1>7, <1>8

LEMMA UndisturbedKeeps ==
  ASSUME NEW p, Process = {p}, IInv(p), Undisturbed(p), [Next]_vars
  PROVE  Undisturbed(p)'
<1> SUFFICES ASSUME faults' = 0 PROVE EntryOK(p)'
  BY DEF Undisturbed
<1>1. faults = 0 /\ ~Die(p)
  <2>1. faults \in Nat
    BY DEF IInv, TypeOK, FileTypes
  <2>2. UNCHANGED faults \/ faults' = faults + 1
    BY DEF Next, Step, vars, Start, Peek, PeekBlob, Begin, ReadBlob, ReadEntry, ReadBody,
           Rehash, Keep, Sentinel, RequestFails, NotFound, Served, NotModified, Confirm,
           ConfirmEntry, ConfirmBody, Refresh, BackgroundWrite, Settled, Put, Stamp,
           Drop, Deny, Close, Cancel, Die, Publish, Withdraw, Landed, Refused, Fault
  <2>3. QED BY <2>1, <2>2 DEF Die, Fault
<1>2. EntryOK(p)
  BY <1>1 DEF Undisturbed
<1>3. CASE \/ Start(p) \/ Peek(p) \/ PeekBlob(p) \/ Begin(p) \/ ReadBlob(p)
           \/ ReadEntry(p) \/ ReadBody(p) \/ Sentinel(p)
  BY <1>2, <1>3, EntryWhileReading
<1>4. CASE \/ RequestFails(p) \/ NotFound(p) \/ Served(p) \/ NotModified(p)
           \/ Confirm(p) \/ ConfirmEntry(p) \/ ConfirmBody(p) \/ Refresh(p)
           \/ Settled(p) \/ Cancel(p) \/ Close(p)
  BY <1>2, <1>4, EntryWhileAsking
<1>5. CASE \/ Rehash(p) \/ Keep(p) \/ BackgroundWrite(p) \/ Put(p) \/ Stamp(p)
           \/ Drop(p) \/ Deny(p)
  BY <1>2, <1>5, EntryWhileStoring
<1>6. CASE Publish \/ Withdraw \/ UNCHANGED vars
  BY <1>2, <1>6 DEF Publish, Withdraw, vars, disk, hand, EntryOK, Describes
<1>7. QED BY <1>1, <1>3, <1>4, <1>5, <1>6 DEF Next, Step

\* A remembered 404 never hides a listing that was put to use after it, for any
\* number of listings, refused writes and deaths (get_files, drop_negative).
THEOREM AbsenceCurrent ==
  ASSUME NEW p, Process = {p}
  PROVE  Spec => []AbsenceIsCurrent
<1>1. Init => AbsenceOK(p) /\ FilesAbsent
  BY ValueAssumption DEF Init, AbsenceOK, FilesAbsent, Grounded
<1>2. IInv(p) /\ AbsenceOK(p) /\ FilesAbsent /\ [Next]_vars
        => AbsenceOK(p)' /\ FilesAbsent'
  BY AbsenceKeeps
<1>3. AbsenceOK(p) => AbsenceIsCurrent
  BY DEF AbsenceOK, AbsenceIsCurrent
<1>4. QED BY <1>1, <1>2, <1>3, Invariance, PTL DEF Spec

\* An entry that no refused write and no death has disturbed holds the policy of
\* its body, and a blob its digest admits is that body's, between any two reads
\* and after any cancelled one (put_simple, _rebuild_parsed, aclose).
THEOREM EntriesCoherent ==
  ASSUME NEW p, Process = {p}
  PROVE  Spec => []EntryCoherent
<1>1. Init => Undisturbed(p)
  BY ValueAssumption DEF Init, Undisturbed, EntryOK, Grounded, Listing
<1>2. IInv(p) /\ Undisturbed(p) /\ [Next]_vars => Undisturbed(p)'
  BY UndisturbedKeeps
<1>3. Undisturbed(p) => EntryCoherent
  BY DEF Undisturbed, EntryOK, EntryCoherent, AtRest, Describes
<1>4. QED BY <1>1, <1>2, <1>3, Invariance, PTL DEF Spec
=============================================================================
