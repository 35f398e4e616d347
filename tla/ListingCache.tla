---------------------------- MODULE ListingCache ----------------------------
(***************************************************************************)
(* The listing of one package at one index, as CachedAsyncSimpleClient     *)
(* (cached_client.py) keeps it in OnDiskCache (cache.py): four files, the  *)
(* body, its policy, the parsed blob and the sentinel of a 404, each       *)
(* replaced by a rename, none replaced together with another.              *)
(*                                                                         *)
(* One action is one file operation, one answer of the index or one step   *)
(* the event loop can be cancelled at.  A write may be refused and a       *)
(* process may die between any two steps.  Time is not counted: an entry   *)
(* may be found fresh or stale whenever it is read, and the read-time      *)
(* floor is one more way of finding it fresh.                              *)
(*                                                                         *)
(* The index numbers what it publishes, and never publishes an old listing *)
(* again: a body's number stands for its bytes, its sha256 and its ETag.   *)
(***************************************************************************)
EXTENDS Integers

CONSTANTS
  Process,      \* nab processes that share the cache root
  MaxListing,   \* bound: listings the index publishes
  Empty,        \* the listings that hold no file nab reads
  Page,         \* URLs the project page is served from
  MaxFaults,    \* bound: refused writes and deaths of a process
  None, Corrupt \* no file or no value; a body that does not decode

Listing == 1..MaxListing

ASSUME ListingAssumption == MaxListing \in Nat /\ Empty \subseteq Listing
ASSUME FaultAssumption == MaxFaults \in Nat
ASSUME ValueAssumption ==
  None # Corrupt /\ None \notin Listing /\ Corrupt \notin Listing

VARIABLES
  body, policy, blob, neg,  \* the files
  newest, gone,             \* what the index serves: a listing, or a 404
  pc, offline,              \* where a process stands in get_files
  pol, got,                 \* the policy and the records it has in hand
  asked,                    \* whether its request was unconditional
  writing,                  \* the policy a background thread is writing
  result,                   \* how its last read ended
  last,                     \* the last answer of the index put to use
  faults

disk == <<body, policy, blob, neg>>
index == <<newest, gone>>
hand == <<pol, got, asked>>
vars == <<disk, index, pc, offline, hand, writing, result, last, faults>>

Policy == [etag : Listing \cup {None}, digest : Listing \cup {None}, page : Page]
Records == [listing : Listing, page : Page]
Blob == [digest : Listing, listing : Listing, page : Page]

ASSUME NoneAssumption == None \notin Policy \cup Records \cup Blob

Stages == {"idle", "peek", "peek_blob", "begin", "blob", "entry", "body", "rehash",
           "keep", "sentinel", "ask", "check", "confirm", "confirm_entry",
           "confirm_body", "refresh", "settling", "put", "stamp", "drop", "deny",
           "closing"}

Results == {"none", "listing", "remembered", "absent", "failed", "cancelled", "died"}

\* A cold cache, or an entry whose body was damaged since it was stored.
Init ==
  /\ newest \in Listing /\ gone \in BOOLEAN
  /\ \/ body = None /\ policy = None
     \/ /\ body = Corrupt
        /\ policy \in [etag : {newest, None}, digest : {newest}, page : Page]
  /\ blob = None /\ neg \in BOOLEAN
  /\ pc = [p \in Process |-> "idle"]
  /\ offline = [p \in Process |-> FALSE]
  /\ pol = [p \in Process |-> None] /\ got = [p \in Process |-> None]
  /\ asked = [p \in Process |-> FALSE]
  /\ writing = [p \in Process |-> None]
  /\ result = [p \in Process |-> "none"]
  /\ last = "unknown" /\ faults = 0

----------------------------------------------------------------------------
(* Steps of a read. *)

Goto(p, stage) == pc' = [pc EXCEPT ![p] = stage]

\* The read ends; nothing of it is kept in hand.
End(p, how) ==
  /\ Goto(p, "idle")
  /\ result' = [result EXCEPT ![p] = how]
  /\ pol' = [pol EXCEPT ![p] = None] /\ got' = [got EXCEPT ![p] = None]
  /\ asked' = [asked EXCEPT ![p] = FALSE]

Fault == faults < MaxFaults /\ faults' = faults + 1

\* _store and _atomic_write: the file is replaced, or left as it was.
Landed == UNCHANGED faults
Refused == Fault

HasFiles(listing) == listing \notin Empty

\* parsed_listing.decode gives records: the blob is of the policy's body.
Binds(q) ==
  /\ blob # None /\ q.digest # None
  /\ blob.digest = q.digest /\ HasFiles(blob.listing)

BlobRecords == [listing |-> blob.listing, page |-> blob.page]

\* request_listing on the caller's thread, or get_files on the loop.
Start(p) ==
  /\ pc[p] = "idle"
  /\ \E stage \in {"peek", "begin"} : Goto(p, stage)
  /\ \E off \in BOOLEAN : offline' = [offline EXCEPT ![p] = off]
  /\ result' = [result EXCEPT ![p] = "none"]
  /\ UNCHANGED <<disk, index, hand, writing, last, faults>>

\* read_fresh_parsed_listing, which writes nothing and leaves the rest to get_files.
Peek(p) ==
  /\ pc[p] = "peek"
  /\ \/ (policy = None \/ ~offline[p]) /\ Goto(p, "begin") /\ UNCHANGED pol
     \/ /\ policy # None
        /\ Goto(p, "peek_blob") /\ pol' = [pol EXCEPT ![p] = policy]
  /\ UNCHANGED <<disk, index, offline, got, asked, writing, result, last, faults>>

PeekBlob(p) ==
  /\ pc[p] = "peek_blob"
  /\ IF Binds(pol[p])
     THEN End(p, "listing")
     ELSE Goto(p, "begin") /\ pol' = [pol EXCEPT ![p] = None]
          /\ UNCHANGED <<got, asked, result>>
  /\ UNCHANGED <<disk, index, offline, writing, last, faults>>

\* get_files reads the policy and decides what answers.
Begin(p) ==
  /\ pc[p] = "begin"
  /\ \/ policy = None /\ Goto(p, "sentinel") /\ UNCHANGED pol
     \/ /\ policy # None /\ pol' = [pol EXCEPT ![p] = policy]
        /\ \/ Goto(p, "blob")
           \/ ~offline[p] /\ Goto(p, "check")
  /\ UNCHANGED <<disk, index, offline, got, asked, writing, result, last, faults>>

\* _parsed_hit for a read from the cache.
ReadBlob(p) ==
  /\ pc[p] = "blob"
  /\ IF Binds(pol[p])
     THEN End(p, "listing")
     ELSE Goto(p, "entry") /\ UNCHANGED <<hand, result>>
  /\ UNCHANGED <<disk, index, offline, writing, last, faults>>

\* get_simple reads the policy again, then the body.
ReadEntry(p) ==
  /\ pc[p] = "entry"
  /\ \/ policy = None /\ Goto(p, "sentinel") /\ UNCHANGED pol
     \/ policy # None /\ Goto(p, "body") /\ pol' = [pol EXCEPT ![p] = policy]
  /\ UNCHANGED <<disk, index, offline, got, asked, writing, result, last, faults>>

\* Mutant: get_files treats a damaged body as any other miss.
DamageIsAMiss(p) ==
  /\ pc[p] = "body"
  /\ \/ body \in {None, Corrupt} /\ Goto(p, "sentinel") /\ UNCHANGED <<hand, result>>
     \/ body \in Empty /\ End(p, "listing")
     \/ /\ body \in Listing \ Empty
        /\ Goto(p, IF pol[p].digest = None THEN "rehash" ELSE "keep")
        /\ got' = [got EXCEPT ![p] = [listing |-> body, page |-> pol[p].page]]
        /\ UNCHANGED <<pol, asked, result>>
  /\ UNCHANGED <<disk, index, offline, writing, last, faults>>

\* A damaged body is fetched again, whatever the sentinel says.
ReadBody(p) ==
  /\ pc[p] = "body"
  /\ \/ body = None /\ Goto(p, "sentinel") /\ UNCHANGED <<hand, result>>
     \/ body = Corrupt /\ offline[p] /\ End(p, "failed")
     \/ body = Corrupt /\ ~offline[p] /\ Goto(p, "ask") /\ UNCHANGED <<hand, result>>
     \/ body \in Empty /\ End(p, "listing")
     \/ /\ body \in Listing \ Empty
        /\ Goto(p, IF pol[p].digest = None THEN "rehash" ELSE "keep")
        /\ got' = [got EXCEPT ![p] = [listing |-> body, page |-> pol[p].page]]
        /\ UNCHANGED <<pol, asked, result>>
  /\ UNCHANGED <<disk, index, offline, writing, last, faults>>

\* Mutant: _rebuild_parsed never stamps a digest of its own.
NeverRehash(p) ==
  /\ pc[p] = "rehash"
  /\ Goto(p, "keep")
  /\ UNCHANGED <<disk, index, offline, hand, writing, result, last, faults>>

\* _rebuild_parsed stamps a policy without a digest with that of the body read.
Rehash(p) ==
  /\ pc[p] = "rehash"
  /\ LET stamped == [pol[p] EXCEPT !.digest = got[p].listing] IN
     /\ pol' = [pol EXCEPT ![p] = stamped]
     /\ (policy' = stamped /\ Landed) \/ (UNCHANGED policy /\ Refused)
  /\ Goto(p, "keep")
  /\ UNCHANGED <<body, blob, neg, index, offline, got, asked, writing, result, last>>

\* What a read that has its records does next: an unconditional fetch drops the
\* sentinel before it returns them.
Finish(p) ==
  IF asked[p] THEN Goto(p, "drop") /\ UNCHANGED <<hand, result>>
              ELSE End(p, "listing")

\* _store_parsed, for records that are worth a blob.
Keep(p) ==
  /\ pc[p] = "keep"
  /\ \/ /\ blob' = [digest |-> pol[p].digest, listing |-> got[p].listing,
                     page |-> got[p].page]
        /\ Landed
     \/ UNCHANGED blob /\ Refused
  /\ Finish(p)
  /\ UNCHANGED <<body, policy, neg, index, offline, writing, last>>

\* get_negative, after a positive miss.
Sentinel(p) ==
  /\ pc[p] = "sentinel"
  /\ \/ neg /\ End(p, "remembered")
     \/ ~neg /\ offline[p] /\ End(p, "failed")
     \/ ~offline[p] /\ Goto(p, "ask") /\ UNCHANGED <<hand, result>>
  /\ UNCHANGED <<disk, index, offline, writing, last, faults>>

----------------------------------------------------------------------------
(* Answers of the index. *)

\* The transport raises, the status is an error or the body is malformed: all of
\* them before anything is stored.
RequestFails(p) ==
  /\ pc[p] \in {"ask", "check"}
  /\ End(p, "failed")
  /\ UNCHANGED <<disk, index, offline, writing, last, faults>>

NotFound(p) ==
  /\ pc[p] \in {"ask", "check"} /\ gone
  /\ Goto(p, "deny")
  /\ UNCHANGED <<disk, index, offline, hand, writing, result, last, faults>>

\* A 200, with or without an ETag.
Served(p) ==
  /\ pc[p] \in {"ask", "check"} /\ ~gone
  /\ \E page \in Page, etag \in {newest, None} :
       /\ pol' = [pol EXCEPT ![p] = [etag |-> etag, digest |-> None, page |-> page]]
       /\ got' = [got EXCEPT ![p] = [listing |-> newest, page |-> page]]
  /\ asked' = [asked EXCEPT ![p] = pc[p] = "ask"]
  /\ Goto(p, "put")
  /\ UNCHANGED <<disk, index, offline, writing, result, last, faults>>

\* _carried_digest: a move of the page retires the blob.
CarriedDigest(q, page) == IF page = q.page THEN q.digest ELSE None

\* A 304 to the ETag that was sent.
NotModified(p) ==
  /\ pc[p] = "check" /\ ~gone /\ pol[p].etag = newest
  /\ \E page \in Page :
       pol' = [pol EXCEPT ![p] =
                 [@ EXCEPT !.page = page, !.digest = CarriedDigest(pol[p], page)]]
  /\ Goto(p, "confirm")
  /\ UNCHANGED <<disk, index, offline, got, asked, writing, result, last, faults>>

----------------------------------------------------------------------------
(* What is done with them. *)

\* _unmodified_records: the blob, else the body, else nothing.
Confirm(p) ==
  /\ pc[p] = "confirm"
  /\ IF Binds(pol[p])
     THEN Goto(p, "refresh") /\ got' = [got EXCEPT ![p] = BlobRecords]
     ELSE Goto(p, "confirm_entry") /\ UNCHANGED got
  /\ UNCHANGED <<disk, index, offline, pol, asked, writing, result, last, faults>>

\* Mutant: a 304 for a body that is lost revalidates again.
RevalidateAgain(p) ==
  /\ pc[p] = "confirm_body"
  /\ IF body \in Listing
     THEN Goto(p, "refresh")
          /\ got' = [got EXCEPT ![p] = [listing |-> body, page |-> pol[p].page]]
     ELSE Goto(p, "check") /\ UNCHANGED got
  /\ UNCHANGED <<disk, index, offline, pol, asked, writing, result, last, faults>>

\* The policy get_simple reads is only one it must find.
ConfirmEntry(p) ==
  /\ pc[p] = "confirm_entry"
  /\ Goto(p, IF policy = None THEN "ask" ELSE "confirm_body")
  /\ UNCHANGED <<disk, index, offline, hand, writing, result, last, faults>>

ConfirmBody(p) ==
  /\ pc[p] = "confirm_body"
  /\ IF body \in Listing
     THEN Goto(p, "refresh")
          /\ got' = [got EXCEPT ![p] = [listing |-> body, page |-> pol[p].page]]
     ELSE Goto(p, "ask") /\ UNCHANGED got
  /\ UNCHANGED <<disk, index, offline, pol, asked, writing, result, last, faults>>

\* _refresh_simple_policy hands the write to a thread and waits for it.
Refresh(p) ==
  /\ pc[p] = "refresh"
  /\ writing' = [writing EXCEPT ![p] = pol[p]]
  /\ Goto(p, "settling")
  /\ UNCHANGED <<disk, index, offline, hand, result, last, faults>>

BackgroundWrite(p) ==
  /\ writing[p] # None
  /\ (policy' = writing[p] /\ Landed) \/ (UNCHANGED policy /\ Refused)
  /\ writing' = [writing EXCEPT ![p] = None]
  /\ UNCHANGED <<body, blob, neg, index, pc, offline, hand, result, last>>

Settled(p) ==
  /\ pc[p] = "settling" /\ writing[p] = None
  /\ End(p, "listing")
  /\ UNCHANGED <<disk, index, offline, writing, last, faults>>

\* Mutant: put_simple writes the policy even when the body was refused.
PutRegardless(p) ==
  /\ pc[p] = "put"
  /\ (body' = got[p].listing /\ Landed) \/ (UNCHANGED body /\ Refused)
  /\ Goto(p, "stamp")
  /\ last' = IF asked[p] THEN last ELSE "listing"
  /\ UNCHANGED <<policy, blob, neg, index, offline, hand, writing, result>>

\* put_simple, first half: the body.  Only a full fetch still has to drop the
\* sentinel before the answer counts as used.
Put(p) ==
  /\ pc[p] = "put"
  /\ \/ /\ body' = got[p].listing /\ Landed
        /\ Goto(p, "stamp") /\ UNCHANGED <<hand, result>>
     \/ UNCHANGED body /\ Refused /\ Finish(p)
  /\ last' = IF asked[p] THEN last ELSE "listing"
  /\ UNCHANGED <<policy, blob, neg, index, offline, writing>>

\* put_simple, second half: the policy, with the digest of the body that landed.
Stamp(p) ==
  /\ pc[p] = "stamp"
  /\ LET stamped == [pol[p] EXCEPT !.digest = got[p].listing] IN
     \/ /\ policy' = stamped /\ Landed
        /\ IF HasFiles(got[p].listing)
           THEN /\ Goto(p, "keep") /\ pol' = [pol EXCEPT ![p] = stamped]
                /\ UNCHANGED <<got, asked, result>>
           ELSE Finish(p)
     \/ UNCHANGED policy /\ Refused /\ Finish(p)
  /\ UNCHANGED <<body, blob, neg, index, offline, writing, last>>

\* drop_negative, whether or not the listing could be stored.
Drop(p) ==
  /\ pc[p] = "drop"
  /\ \/ neg' = FALSE /\ Landed /\ last' = "listing"
     \/ UNCHANGED neg /\ Refused /\ last' = "unknown"
  /\ End(p, "listing")
  /\ UNCHANGED <<body, policy, blob, index, offline, writing>>

\* put_negative.  A positive entry stays where it is.
Deny(p) ==
  /\ pc[p] = "deny"
  /\ (neg' = TRUE /\ Landed) \/ (UNCHANGED neg /\ Refused)
  /\ last' = "absent"
  /\ End(p, "absent")
  /\ UNCHANGED <<body, policy, blob, index, offline, writing>>

----------------------------------------------------------------------------
(* Interruptions, and the index. *)

\* Mutant: aclose does not wait for the policy writes.
CloseAtOnce(p) ==
  /\ pc[p] = "closing"
  /\ End(p, "cancelled")
  /\ UNCHANGED <<disk, index, offline, writing, last, faults>>

\* The run ends while the read waits: aclose lets the background write finish.
Cancel(p) ==
  /\ pc[p] \in {"ask", "check", "settling"}
  /\ Goto(p, "closing")
  /\ UNCHANGED <<disk, index, offline, hand, writing, result, last, faults>>

Close(p) ==
  /\ pc[p] = "closing" /\ writing[p] = None
  /\ End(p, "cancelled")
  /\ UNCHANGED <<disk, index, offline, writing, last, faults>>

\* The process dies, and its background write with it.
Die(p) ==
  /\ pc[p] # "idle" /\ Fault
  /\ End(p, "died")
  /\ writing' = [writing EXCEPT ![p] = None]
  /\ UNCHANGED <<disk, index, offline, last>>

Publish ==
  /\ newest < MaxListing
  /\ newest' = newest + 1 /\ gone' = FALSE
  /\ UNCHANGED <<disk, pc, offline, hand, writing, result, last, faults>>

\* The project is taken down, or put back as it was.
Withdraw ==
  /\ gone' = ~gone
  /\ UNCHANGED <<disk, newest, pc, offline, hand, writing, result, last, faults>>

\* What the process does by itself once a read has begun.
Step(p) ==
  \/ Peek(p) \/ PeekBlob(p) \/ Begin(p) \/ ReadBlob(p) \/ ReadEntry(p) \/ ReadBody(p)
  \/ Rehash(p) \/ Keep(p) \/ Sentinel(p)
  \/ RequestFails(p) \/ NotFound(p) \/ Served(p) \/ NotModified(p)
  \/ Confirm(p) \/ ConfirmEntry(p) \/ ConfirmBody(p)
  \/ Refresh(p) \/ BackgroundWrite(p) \/ Settled(p)
  \/ Put(p) \/ Stamp(p) \/ Drop(p) \/ Deny(p) \/ Close(p)

Next ==
  \/ \E p \in Process : Start(p) \/ Step(p) \/ Cancel(p) \/ Die(p)
  \/ Publish \/ Withdraw

\* The event loop and the disk go on, and a request is answered or times out.
Fairness == \A p \in Process : WF_vars(Step(p))

Spec == Init /\ [][Next]_vars /\ Fairness

----------------------------------------------------------------------------
(* Properties. *)

FileTypes ==
  /\ body \in Listing \cup {None, Corrupt} /\ policy \in Policy \cup {None}
  /\ blob \in Blob \cup {None} /\ neg \in BOOLEAN
  /\ newest \in Listing /\ gone \in BOOLEAN
  /\ last \in {"unknown", "listing", "absent"} /\ faults \in 0..MaxFaults

ReadTypes ==
  /\ pc \in [Process -> Stages] /\ result \in [Process -> Results]
  /\ pol \in [Process -> Policy \cup {None}] /\ got \in [Process -> Records \cup {None}]
  /\ asked \in [Process -> BOOLEAN]

ThreadTypes ==
  offline \in [Process -> BOOLEAN] /\ writing \in [Process -> Policy \cup {None}]

\* Every variable has the values the code gives it; a blob is never bound to no body.
TypeOK == FileTypes /\ ReadTypes /\ ThreadTypes

\* The records a 304 is answered with are those of the listing whose ETag the
\* index has just confirmed: whatever was refused or interrupted before, body,
\* policy and blob never make the cache present one listing as another that is
\* still current (_revalidate_simple, _unmodified_records).
NotModifiedConfirms ==
  \A p \in Process : pc[p] = "refresh" => got[p].listing = pol[p].etag

AtRest == \A p \in Process : pc[p] = "idle"

\* The part of it that keeps a listing from staying out of date for good: nothing
\* older than what the index has confirmed is served as confirmed ("a 304 Not
\* Modified, where the cached body is still valid", cache.py:386).
NothingOlderConfirmed ==
  \A p \in Process : pc[p] = "refresh" => got[p].listing >= pol[p].etag

\* With nothing refused and nobody dead, a body the cache can read is the one its
\* policy was issued for, between any two reads and after any cancelled one: the
\* ETag is that body's, and so is the digest that a blob must carry
\* (put_simple, _rebuild_parsed, aclose).
EntryCoherent ==
  (AtRest /\ faults = 0 /\ body \in Listing) =>
    /\ policy # None
    /\ policy.etag \in {body, None} /\ policy.digest \in {body, None}
    /\ blob # None /\ blob.digest = body => blob.listing = body

\* A read is answered by a remembered 404 only if a 404 is what the index last
\* answered: no listing that was fetched since, stored or not, is hidden by it
\* (get_files, _fetch_simple, drop_negative).
AbsenceIsCurrent ==
  \A p \in Process : result[p] = "remembered" => last # "listing"

\* Every read ends, also the one whose 304 confirms a body the cache has lost
\* (_revalidate_simple, _unmodified_records, aclose).
ReadsEnd == \A p \in Process : pc[p] # "idle" ~> pc[p] = "idle"

\* Between reads, a blob that the policy's digest admits was parsed from the page
\* the policy names: its relative URLs are resolved against that page ("A
\* revalidation that lands on a different page retires the blob too",
\* docs/reference/cache.md:99; _carried_digest, _store_parsed).
BlobFitsPage ==
  (AtRest /\ policy # None) => (Binds(policy) => blob.page = policy.page)

=============================================================================
