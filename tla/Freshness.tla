------------------------------- MODULE Freshness -------------------------------
(***************************************************************************)
(* How long a stored listing is used without asking (cached_client.py,     *)
(* CachePolicy of cache.py): the window a response opens, from its         *)
(* Cache-Control, Expires, Date and Age, read against a clock of the       *)
(* client's own that may be wrong and may be set.                          *)
(*                                                                         *)
(* Times are small integers of the true clock; the client reads it with a  *)
(* shift.  What an entry holds is ListingCache's matter; here an entry is  *)
(* its policy, and remembers in ghosts when it was really received.        *)
(***************************************************************************)
EXTENDS Integers

CONSTANTS
  Headers,     \* the header fields a response may have:
               \* [control, maxage, bars, expires, date, age]
  Shifts,      \* by how much the client's clock may be off
  Floors,      \* what assume-fresh-seconds may be: NoField or a number
  Ceiling,     \* _SECONDS_CEILING
  DefaultAge,  \* _DEFAULT_MAX_AGE
  MaxTime,     \* bound: the true clock
  MaxSets,     \* bound: how often the client's clock is set
  NoField      \* a field that is not there; it is less than any number

Bad == NoField - 1          \* a date that is none

VARIABLES
  time,        \* the true clock
  shift,       \* what the client's clock shows beyond it
  sets,        \* how often it was set
  offline, floor,
  page,        \* the policy of the stored listing
  absent,      \* the policy of the negative sentinel
  used         \* how the last read was answered

clocks == <<time, shift, sets>>
options == <<offline, floor>>
fresh == <<clocks, options, page, absent, used>>

Now == time + shift
Lesser(i, j) == IF i < j THEN i ELSE j

\* A policy, with its ghosts: when it was received, with what age and by what clock,
\* and the window that was stated.
NoPolicy == [there |-> FALSE, start |-> 0, window |-> 0,
             received |-> 0, age |-> 0, shown |-> 0, stated |-> 0]
Nothing == [how |-> "none", policy |-> NoPolicy]
Policies == [there : BOOLEAN, start : Int, window : 0..Ceiling,
             received : 0..MaxTime, age : Nat, shown : Int, stated : 0..Ceiling]

FreshTypeOK ==
  /\ time \in 0..MaxTime /\ shift \in Shifts /\ sets \in 0..MaxSets
  /\ offline \in BOOLEAN /\ floor \in Floors
  /\ page \in Policies /\ absent \in Policies
  /\ used.how \in {"none", "fresh", "offline", "floor", "asked"}
  /\ used.policy \in Policies

FreshInit ==
  /\ time = 0 /\ shift \in Shifts /\ sets = 0
  /\ offline \in BOOLEAN /\ floor \in Floors
  /\ page = NoPolicy /\ absent = NoPolicy /\ used = Nothing

-----------------------------------------------------------------------------
(* The window of a response. *)

\* _parse_seconds and _parse_age: as much as can be counted; no age is none.
Seconds(n) == Lesser(n, Ceiling)
AgeOf(h) == IF h.age = NoField THEN 0 ELSE Seconds(h.age)

\* Mutant: the window is measured from arrival although there is a Date.
ExpiresFromArrival(h) ==
  IF h.expires = Bad \/ h.expires < Now THEN 0 ELSE Seconds(h.expires - Now)

\* _expires_lifetime: what is no date has expired; without a Date the window is
\* measured from arrival, by the client's clock.
ExpiresLifetime(h) ==
  LET from == IF h.date \in {NoField, Bad} THEN Now ELSE h.date
      left == h.expires - from
  IN IF h.expires = Bad \/ left < 0 THEN 0 ELSE Seconds(left)

\* _freshness_lifetime: a bar on reuse first, then max-age, then Expires; only a
\* response that states none of them gets the default.
FreshnessLifetime(h) ==
  IF h.control /\ h.bars THEN 0
  ELSE IF h.control /\ h.maxage # NoField THEN Seconds(h.maxage)
  ELSE IF h.expires # NoField THEN ExpiresLifetime(h)
  ELSE DefaultAge

\* _states_freshness
StatesFreshness(h) == h.control \/ h.expires # NoField

\* A policy made of a response: _freshness_start is when it was received less its Age.
Policy(h, window, stated) ==
  [there |-> TRUE, start |-> Now - AgeOf(h), window |-> window,
   received |-> time, age |-> AgeOf(h), shown |-> shift, stated |-> stated]

\* What a response states, in RFC 9111's terms.
Stated(h) ==
  CASE h.control /\ h.bars -> 0
    [] h.control /\ ~h.bars /\ h.maxage >= 0 -> Seconds(h.maxage)
    [] OTHER ->
         IF h.expires = NoField THEN DefaultAge
         ELSE IF h.expires = Bad THEN 0
         ELSE LET from == IF h.date >= 0 THEN h.date ELSE Now
              IN CHOOSE n \in 0..Ceiling :
                   \/ n = h.expires - from
                   \/ n = 0 /\ h.expires <= from
                   \/ n = Ceiling /\ h.expires - from > Ceiling

-----------------------------------------------------------------------------
(* Time. *)

Tick ==
  /\ time < MaxTime /\ time' = time + 1 /\ used' = Nothing
  /\ UNCHANGED <<shift, sets, options, page, absent>>

\* The client's clock is set, forward or back.
SetClock(s) ==
  /\ sets < MaxSets /\ s # shift /\ shift' = s /\ sets' = sets + 1 /\ used' = Nothing
  /\ UNCHANGED <<time, options, page, absent>>

-----------------------------------------------------------------------------
(* A read. *)

\* is_fresh, and _floor_keeps_fresh after it.
IsFresh(p) == Now - p.start < p.window
FloorKeeps(p) == floor # NoField /\ Now - p.start < floor

Usable(p) == IsFresh(p) \/ offline \/ FloorKeeps(p)
Use(p) ==
  /\ used' = [how |-> IF IsFresh(p) THEN "fresh" ELSE IF offline THEN "offline"
                      ELSE "floor",
              policy |-> p]
  /\ UNCHANGED <<clocks, options, page, absent>>

\* get_files: a stored listing is used or revalidated; only without one is the sentinel
\* looked at.
ReadPage == page.there /\ Usable(page) /\ Use(page)
ReadAbsent == ~page.there /\ absent.there /\ Usable(absent) /\ Use(absent)

Asked == used' = [how |-> "asked", policy |-> NoPolicy]
Ask == ~offline /\ UNCHANGED <<clocks, options>>

\* A 404 leaves the listing as it is, and the sentinel with at most the default window.
NotFound(h) ==
  /\ absent' = Policy(h, Lesser(FreshnessLifetime(h), DefaultAge),
                      Lesser(Stated(h), DefaultAge))
  /\ Asked /\ UNCHANGED page

\* _fetch_simple drops the sentinel.
FetchSimple(h) ==
  /\ Ask /\ ~page.there /\ ~(absent.there /\ Usable(absent))
  /\ \/ /\ page' = Policy(h, FreshnessLifetime(h), Stated(h))
        /\ absent' = NoPolicy /\ Asked
     \/ NotFound(h)

\* _revalidate_simple: a 304 that states nothing keeps the window there was.
RevalidateSimple(h) ==
  /\ Ask /\ page.there /\ ~Usable(page)
  /\ \/ /\ page' = IF StatesFreshness(h) THEN Policy(h, FreshnessLifetime(h), Stated(h))
                   ELSE Policy(h, page.window, page.stated)
        /\ UNCHANGED absent /\ Asked
     \/ /\ page' = Policy(h, FreshnessLifetime(h), Stated(h))
        /\ UNCHANGED absent /\ Asked
     \/ NotFound(h)

\* Offline, with nothing stored, a read fails.
ReadOffline ==
  /\ offline /\ ~page.there /\ ~absent.there /\ used' = Nothing
  /\ UNCHANGED <<clocks, options, page, absent>>

FreshNext ==
  \/ Tick \/ ReadPage \/ ReadAbsent \/ ReadOffline
  \/ \E s \in Shifts : SetClock(s)
  \/ \E h \in Headers : FetchSimple(h) \/ RevalidateSimple(h)

FreshSpec == FreshInit /\ [][FreshNext]_fresh

-----------------------------------------------------------------------------
\* What was used unasked is, by the true clock, no older than the window its last
\* response stated, counted from when the response was made: Age, Date, an early end
\* of Expires or a bar on reuse never lengthen it.  A clock set back since lengthens it
\* by as much as it was set back, and one set forward never does; so what is barred
\* from reuse is never used unasked by a clock that was not set back.
UsedWithinWindow ==
  used.how = "fresh" =>
    LET p == used.policy
        setback == p.shown - shift
    IN p.age + (time - p.received) < p.stated + (IF setback > 0 THEN setback ELSE 0)

\* With the types: windows are what responses stated.
WindowsHold == FreshTypeOK /\ UsedWithinWindow
=============================================================================
