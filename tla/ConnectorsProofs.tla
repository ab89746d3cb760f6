-------------------------- MODULE ConnectorsProofs --------------------------
(***************************************************************************)
(* The polling connectors, for any runs, limits and numbers of changes and *)
(* faults.  GBrain is treated here; the other two are instances of         *)
(* MarkerPollersProofs.                                                    *)
(***************************************************************************)
EXTENDS MCConnectors, FiniteSetTheorems, WellFoundedInduction, TLAPS

\* A row that was listed, as it was then.
Rows == (1..MaxChanges) \X Runs

\* A run as GBrain lists it now.
Row(r) == <<updated[r], r>>

Handling == pc \in {"details", "output", "publish"}
InHand   == IF Handling THEN {entry} ELSE {}

\* The clock is moved by every change, and a run that has a timestamp was
\* changed.
ClockInv ==
  /\ now <= changes /\ after <= now
  /\ \A r \in Runs : updated[r] <= now /\ (verified[r] => updated[r] > 0)

Stamps == runs \cup {entry, cursor, checkpoint.cursor}

\* Every timestamp in the connector was one of GBrain's.
RowsInv ==
  /\ runs \cup InHand \subseteq Rows /\ Stamps \subseteq Rows \cup {NoEntry}
  /\ \A x \in Stamps : x[1] <= now

\* Each timestamp belongs to one run.
NoTiesInv ==
  /\ \A q, r \in Runs : updated[q] = updated[r] /\ updated[r] > 0 => q = r
  /\ \A x \in Stamps : \A r \in Runs : updated[r] = x[1] /\ x # NoEntry => x[2] = r

TextInv == pc = "publish" => text \in Outputs /\ text # 0 /\ <<entry[2], text>> \notin seen

SafeInv == SeenWasReceived /\ seen \subseteq received

\* A poll that lists has what was saved, and an end of a poll leaves nothing.
FreshInv ==
  /\ pc = "idle" => runs = {}
  /\ pc = "list" => cursor = checkpoint.cursor /\ seen = checkpoint.seen

\* The part of the listing that is left: all rows after the saved cursor up
\* to where the next page begins.
ListingInv ==
  pc = "list" =>
    /\ checkpoint.cursor[1] <= after
    /\ \A r \in Runs :
         updated[r] > 0 /\ updated[r] <= after /\ Before(checkpoint.cursor, Row(r)) => Row(r) \in runs

\* The row in hand is before those that are left, and what was read of its
\* run is what it is now, unless the run has changed since.
EntryInv ==
  Handling =>
    /\ \A x \in runs : Before(entry, x)
    /\ \A r \in Runs : Row(r) = entry /\ pc = "publish" => text = output[r]

Got(r) == <<r, output[r]>> \in received

\* While rows are handled, what may be published and is after the saved
\* cursor is still to be handled, or was taken, or has changed since the
\* listing.
HandledInv ==
  pc \in {"next", "details", "output", "publish"} =>
    \A r \in Runs :
      Publishable(r) /\ Before(checkpoint.cursor, Row(r)) =>
        \/ Row(r) \in runs \cup InHand
        \/ Got(r)
        \/ \A x \in runs \cup {entry} : Before(x, Row(r))

\* The next cursor is not past work that is left.
CursorInv ==
  pc # "idle" => \A r \in Runs : Publishable(r) /\ ~Before(cursor, Row(r)) => Got(r)

SendsInv ==
  Cardinality(received) <= SeenLimit =>
    \A k \in Keys :
      sends[k] <= faults + (IF k \in (IF pc = "idle" THEN checkpoint.seen ELSE seen) THEN 1 ELSE 0)

TypedInv   == TypeOK /\ ClockInv /\ RowsInv /\ TextInv /\ SafeInv /\ FreshInv
SkipInv    == NoTiesInv /\ ListingInv /\ EntryInv /\ HandledInv /\ CursorInv /\ NothingIsSkipped

----------------------------------------------------------------------------
(* The page of a listing. *)

\* A set of naturals that is not empty has a least one.
LEMMA LeastNat ==
  ASSUME NEW T \in SUBSET Nat, T # {}
  PROVE  \E x \in T : \A y \in T : x <= y
<1> DEFINE R == {ss \in Nat \X Nat : ss[1] < ss[2]}
<1>1. OpToRel(<,Nat) = R
  BY DEF OpToRel
<1>2. IsWellFoundedOn(R, Nat)
  BY <1>1, NatLessThanWellFounded
<1>3. PICK x \in T : \A y \in T : ~ (<<y, x>> \in R)
  <2> HIDE DEF R
  <2> QED
    BY <1>2, WFMin
<1>4. ASSUME NEW y \in T PROVE x <= y
  <2>1. <<y, x>> \in Nat \X Nat /\ ~(<<y, x>> \in R)
    BY <1>3
  <2>2. ~(y < x)
    BY <2>1
  <2> QED
    BY <2>2
<1> QED
  BY <1>4

\* One that is bounded has a greatest one too.
LEMMA GreatestNat ==
  ASSUME NEW n \in Nat, NEW T \in SUBSET (0..n), T # {}
  PROVE  \E x \in T : \A y \in T : y <= x
<1> DEFINE U == {n - y : y \in T}
<1>1. U \in SUBSET Nat /\ U # {}
  <2>1. \A y \in T : n - y \in Nat
    OBVIOUS
  <2> QED
    BY <2>1
<1>2. PICK u \in U : \A v \in U : u <= v
  <2> HIDE DEF U
  <2> QED
    BY <1>1, LeastNat
<1>3. PICK x \in T : u = n - x
  OBVIOUS
<1>4. ASSUME NEW y \in T PROVE y <= x
  <2>1. n - x <= n - y
    BY <1>2, <1>3
  <2> QED
    BY <2>1
<1> QED
  BY <1>4

\* What GBrain lists are runs with the timestamps that they have.
LEMMA MatchingIs ==
  ASSUME TypeOK, ClockInv
  PROVE  /\ \A r \in Runs : Row(r) \in Matching <=> updated[r] > after \/ (inclusive /\ updated[r] = after /\ after > 0)
         /\ \A x \in Matching : x \in Rows /\ x[2] \in Runs /\ x = Row(x[2]) /\ after <= x[1] /\ x[1] <= now
         /\ IsFiniteSet(Matching)
<1>1. \A r \in Runs : Row(r) \in Matching <=> updated[r] > after \/ (inclusive /\ updated[r] = after /\ after > 0)
  BY DEF Matching, Row
<1>2. ASSUME NEW x \in Matching
      PROVE  x \in Rows /\ x[2] \in Runs /\ x = Row(x[2]) /\ after <= x[1] /\ x[1] <= now
  <2>1. PICK r \in Runs : x = <<updated[r], r>> /\ (updated[r] > after \/ (updated[r] = after /\ after > 0))
    BY <1>2 DEF Matching
  <2>2. updated[r] \in 0..MaxChanges /\ after \in 0..MaxChanges /\ updated[r] <= now /\ MaxChanges \in Nat
    BY PollerAssumption DEF TypeOK, ClockInv
  <2>3. updated[r] \in 1..MaxChanges /\ after <= updated[r]
    BY <2>1, <2>2
  <2> QED
    BY <2>1, <2>2, <2>3 DEF Rows, Row
<1>3. IsFiniteSet(Matching)
  <2>1. IsFiniteSet(1..MaxChanges) /\ IsFiniteSet(Runs)
    BY PollerAssumption, FS_Interval
  <2>2. IsFiniteSet(Rows)
    BY <2>1, FS_Product DEF Rows
  <2> QED
    BY <1>2, <2>2, FS_Subset
<1> QED
  BY <1>1, <1>2, <1>3

Earlier(x) == {y \in Matching : Before(y, x)}

\* Pages, and what precedes a row, are finite.
LEMMA PageIs ==
  ASSUME TypeOK, ClockInv
  PROVE  /\ Page \subseteq Matching /\ IsFiniteSet(Page) /\ Cardinality(Page) \in Nat
         /\ \A x \in Matching : x \in Page <=> Cardinality(Earlier(x)) < PageLimit
         /\ \A x \in Matching : IsFiniteSet(Earlier(x)) /\ Cardinality(Earlier(x)) \in Nat
<1>1. Page \subseteq Matching /\ \A x \in Matching : x \in Page <=> Cardinality(Earlier(x)) < PageLimit
  BY DEF Page, Earlier
<1>2. \A x \in Matching : Earlier(x) \subseteq Matching
  BY DEF Earlier
<1>3. ASSUME NEW S \in SUBSET Matching PROVE IsFiniteSet(S) /\ Cardinality(S) \in Nat
  BY MatchingIs, FS_Subset, FS_CardinalityType
<1> QED
  BY <1>1, <1>2, <1>3

\* The rows with one timestamp are one, so of what is listed a page has all
\* up to its last timestamp.
LEMMA PageIsDown ==
  ASSUME TypeOK, ClockInv, NoTiesInv, NEW x \in Matching, NEW y \in Page, x[1] <= y[1]
  PROVE  x \in Page
<1>1. y \in Matching /\ x[1] \in Int /\ y[1] \in Int
  BY PageIs, MatchingIs DEF Rows
<1>2. CASE x[1] = y[1]
  <2>1. updated[x[2]] = updated[y[2]] /\ updated[y[2]] > 0 /\ x[2] \in Runs /\ y[2] \in Runs
    <3>1. x[1] = updated[x[2]] /\ y[1] = updated[y[2]] /\ y[1] \in 1..MaxChanges
      BY <1>1, MatchingIs DEF Row, Rows
    <3>2. x[2] \in Runs /\ y[2] \in Runs
      BY <1>1, MatchingIs
    <3>3. y[1] > 0
      BY <3>1, PollerAssumption
    <3> QED
      BY <1>2, <3>1, <3>2, <3>3
  <2>2. x = y
    BY <1>1, <2>1, MatchingIs DEF NoTiesInv
  <2> QED
    BY <2>2
<1>3. CASE x[1] < y[1]
  <2>1. Earlier(x) \subseteq Earlier(y)
    <3> SUFFICES ASSUME NEW z \in Matching, Before(z, x) PROVE Before(z, y)
      BY DEF Earlier
    <3>1. z[1] \in Int /\ z[1] <= x[1]
      BY <1>1, MatchingIs DEF Rows, Before
    <3> QED
      BY <1>1, <1>3, <3>1 DEF Before
  <2>2. Cardinality(Earlier(x)) <= Cardinality(Earlier(y))
    BY <1>1, <2>1, PageIs, FS_Subset
  <2>3. Cardinality(Earlier(y)) < PageLimit /\ PageLimit \in Int
    BY <1>1, PageIs, PollerAssumption
  <2>4. Cardinality(Earlier(x)) < PageLimit
    BY <1>1, <2>2, <2>3, PageIs
  <2> QED
    BY <2>4, PageIs
<1> QED
  BY <1>1, <1>2, <1>3

\* A page that is not full is all there is.
LEMMA PageIsAll ==
  ASSUME TypeOK, ClockInv, NoTiesInv, Cardinality(Page) < PageLimit
  PROVE  Page = Matching
<1> SUFFICES ASSUME Matching \ Page # {} PROVE FALSE
  BY PageIs
<1> DEFINE T == {x[1] : x \in Matching \ Page}
<1>1. T \in SUBSET Nat /\ T # {}
  BY MatchingIs DEF Rows
<1>2. PICK t \in T : \A u \in T : t <= u
  <2> HIDE DEF T
  <2> QED
    BY <1>1, LeastNat
<1>3. PICK x \in Matching \ Page : x[1] = t
  OBVIOUS
<1>4. Earlier(x) \subseteq Page
  <2> SUFFICES ASSUME NEW y \in Matching, Before(y, x), y \notin Page PROVE FALSE
    BY DEF Earlier
  <2>1. x[1] <= y[1] /\ x[1] \in 1..MaxChanges /\ y[1] \in Int
    BY <1>2, <1>3, MatchingIs DEF Rows
  <2>2. y[1] = x[1] /\ y[2] < x[2]
    BY <2>1 DEF Before
  <2>3. x[1] = updated[x[2]] /\ y[1] = updated[y[2]] /\ x[2] \in Runs /\ y[2] \in Runs
    BY MatchingIs DEF Row
  <2>4. x[2] = y[2] /\ x[2] \in Int
    <3>1. x[1] > 0
      BY <2>1, PollerAssumption
    <3>2. x[2] \in Int
      <4>1. Runs \subseteq Int
        BY PollerAssumption
      <4> QED
        BY <2>3, <4>1
    <3> QED
      BY <2>2, <2>3, <3>1, <3>2 DEF NoTiesInv
  <2> QED
    BY <2>2, <2>4
<1>5. Cardinality(Earlier(x)) <= Cardinality(Page)
  BY <1>4, PageIs, FS_Subset
<1>6. ~(Cardinality(Earlier(x)) < PageLimit) /\ Cardinality(Earlier(x)) \in Nat
  BY <1>3, PageIs
<1> QED
  BY <1>5, <1>6, PageIs, PollerAssumption

\* The last row of a full page is listed, and later than no other.
LEMMA NewestIs ==
  ASSUME TypeOK, ClockInv, ~(Cardinality(Page) < PageLimit)
  PROVE  /\ \E y \in Page : Newest(Page) = y[1]
         /\ \A x \in Page : x[1] <= Newest(Page)
         /\ Newest(Page) \in 0..MaxChanges /\ after <= Newest(Page) /\ Newest(Page) <= now
<1>1. Page # {}
  <2>1. Cardinality({}) = 0
    BY FS_EmptySet
  <2> QED
    BY <2>1, PollerAssumption
<1> DEFINE T == {x[1] : x \in Page}
<1>2. T \in SUBSET (0..MaxChanges) /\ T # {}
  BY <1>1, PageIs, MatchingIs DEF Rows
<1>3. \E t \in T : \A u \in T : u <= t
  <2> HIDE DEF T
  <2> QED
    BY <1>2, GreatestNat, PollerAssumption
<1>4. \E t \in T : \A x \in Page : x[1] <= t
  BY <1>3
<1>5. Newest(Page) \in T /\ \A x \in Page : x[1] <= Newest(Page)
  BY <1>4 DEF Newest
<1>6. PICK y \in Page : Newest(Page) = y[1]
  BY <1>5
<1> QED
  BY <1>2, <1>5, <1>6, PageIs, MatchingIs
----------------------------------------------------------------------------
(* Types and repeats, also with equal timestamps. *)

\* GBrain is not touched by the connector.
LEMMA GBrainStays ==
  ASSUME TypeOK, ClockInv, UNCHANGED gbrain
  PROVE  /\ now' \in 0..MaxChanges /\ changes' \in 0..MaxChanges /\ inclusive' \in BOOLEAN
         /\ updated' \in [Runs -> 0..MaxChanges] /\ verified' \in [Runs -> BOOLEAN]
         /\ output' \in [Runs -> Outputs]
BY DEF TypeOK, gbrain

Polling == {"idle", "list", "next", "details", "output", "publish"}

\* The part of the type that a poll works on.
Locals ==
  /\ pc \in Polling /\ after \in 0..MaxChanges /\ text \in Outputs \cup {0}
  /\ runs \subseteq Entries /\ entry \in Entries /\ cursor \in Entries /\ seen \subseteq Keys

Saved ==
  /\ checkpoint \in [cursor : Entries, seen : SUBSET Keys]
  /\ Cardinality(checkpoint.seen) <= SeenLimit

LEMMA NothingIs ==
  /\ NoEntry \in Entries /\ 0 \in 0..MaxChanges
  /\ Rows \subseteq Entries /\ \A x \in Rows : x[1] \in 1..MaxChanges /\ x[2] \in Runs
  /\ NoEntry[1] = 0
BY PollerAssumption DEF NoEntry, Entries, Rows

LEMMA ForgetTyped ==
  ASSUME Forget, pc' = "idle"
  PROVE  Locals'
BY NothingIs DEF Forget, Locals, Polling

\* What is sent has a key.
LEMMA KeyIs ==
  ASSUME TypeOK, RowsInv, TextInv, pc = "publish"
  PROVE  <<entry[2], text>> \in Keys /\ entry \in Rows /\ entry[1] <= now
<1>1. entry \in Rows
  BY DEF RowsInv, InHand, Handling
<1> QED
  BY <1>1 DEF Rows, TextInv, Keys, RowsInv, Stamps

LEMMA SendTyped ==
  ASSUME TypeOK, RowsInv, TextInv, pc = "publish", Send
  PROVE  /\ sends' \in [Keys -> Nat]
         /\ sends'[<<entry[2], text>>] = sends[<<entry[2], text>>] + 1
         /\ \A k \in Keys : k # <<entry[2], text>> => sends'[k] = sends[k]
<1>1. <<entry[2], text>> \in Keys
  BY KeyIs
<1> QED
  BY <1>1 DEF Send, TypeOK

\* A checkpoint keeps markers of the poll, all of them if they fit.
LEMMA SavedIs ==
  ASSUME TypeOK, Save
  PROVE  /\ Saved' /\ checkpoint'.cursor = cursor /\ checkpoint'.seen \subseteq seen
         /\ Cardinality(seen) <= SeenLimit => checkpoint'.seen = seen
<1>1. PICK kept \in SUBSET seen :
        /\ IF Cardinality(seen) <= SeenLimit THEN kept = seen ELSE Cardinality(kept) = SeenLimit
        /\ checkpoint' = [cursor |-> cursor, seen |-> kept]
  BY DEF Save
<1>2. Cardinality(kept) <= SeenLimit
  BY <1>1, PollerAssumption
<1> QED
  BY <1>1, <1>2 DEF TypeOK, Saved

\* The steps of a poll keep the types.
LEMMA PollTyped ==
  ASSUME TypeOK, ClockInv, RowsInv, TextInv, [Next]_vars
  PROVE  TypeOK'
<1> DEFINE Service == /\ now \in 0..MaxChanges /\ changes \in 0..MaxChanges /\ inclusive \in BOOLEAN
                      /\ updated \in [Runs -> 0..MaxChanges] /\ verified \in [Runs -> BOOLEAN]
                      /\ output \in [Runs -> Outputs]
<1> DEFINE Taken   == received \subseteq Keys /\ sends \in [Keys -> Nat] /\ faults \in 0..MaxFaults
<1>1. Service' /\ Taken' /\ Locals' /\ Saved' => TypeOK'
  BY DEF TypeOK, Locals, Saved, Polling
<1>2. Taken /\ Locals /\ Saved
  BY DEF TypeOK, Locals, Saved, Polling
<1>3. UNCHANGED gbrain => Service'
  BY GBrainStays
<1>4. UNCHANGED <<received, sends, faults>> => Taken'
  BY <1>2
<1>5. checkpoint' = checkpoint => Saved'
  BY <1>2 DEF Saved
<1>6. faults' = faults + 1 /\ faults < MaxFaults => faults' \in 0..MaxFaults
  BY <1>2, PollerAssumption
<1> HIDE DEF Service
<1>7. CASE Load
  <2>1. checkpoint.cursor \in Entries /\ checkpoint.seen \subseteq Keys /\ checkpoint.cursor[1] \in 0..MaxChanges
    BY <1>2 DEF Saved, Entries
  <2>2. Locals'
    BY <1>2, <1>7, <2>1 DEF Load, Locals, Polling
  <2> QED
    BY <1>1, <1>3, <1>4, <1>5, <1>7, <2>2 DEF Load
<1>8. CASE ListPage
  <2>1. Page \subseteq Entries
    BY PageIs, MatchingIs, NothingIs
  <2>2. ~(Cardinality(Page) < PageLimit) => Newest(Page) \in 0..MaxChanges
    BY NewestIs
  <2>3. Locals'
    BY <1>2, <1>8, <2>1, <2>2, ForgetTyped DEF ListPage, Locals, Polling
  <2> QED
    BY <1>1, <1>3, <1>4, <1>5, <1>8, <2>3 DEF ListPage
<1>9. CASE TakeEntry
  <2>1. Locals'
    BY <1>2, <1>9 DEF TakeEntry, Locals, Polling
  <2> QED
    BY <1>1, <1>3, <1>4, <1>5, <1>9, <2>1 DEF TakeEntry
<1>10. CASE Details
  <2>1. Locals'
    BY <1>2, <1>10 DEF Details, Locals, Polling, locals
  <2> QED
    BY <1>1, <1>3, <1>4, <1>5, <1>10, <2>1 DEF Details
<1>11. CASE ReadOutput
  <2>1. entry[2] \in Runs
    BY <1>11, NothingIs DEF ReadOutput, RowsInv, InHand, Handling
  <2>2. text' \in Outputs
    BY <1>11, <2>1 DEF ReadOutput, TypeOK
  <2>3. Locals'
    BY <1>2, <1>11, <2>2 DEF ReadOutput, Locals, Polling
  <2> QED
    BY <1>1, <1>3, <1>4, <1>5, <1>11, <2>3 DEF ReadOutput
<1>12. CASE Publish
  <2>1. Locals'
    BY <1>2, <1>12, KeyIs, NothingIs DEF Publish, Locals, Polling
  <2>2. Taken'
    BY <1>2, <1>12, KeyIs, SendTyped DEF Publish
  <2> QED
    BY <1>1, <1>3, <1>5, <1>12, <2>1, <2>2 DEF Publish
<1>13. CASE PublishFails
  <2>1. Locals'
    BY <1>13, ForgetTyped DEF PublishFails
  <2>2. Taken'
    BY <1>2, <1>6, <1>13, KeyIs, SendTyped DEF PublishFails
  <2> QED
    BY <1>1, <1>3, <1>5, <1>13, <2>1, <2>2 DEF PublishFails
<1>14. CASE Save
  BY <1>1, <1>3, <1>4, <1>14, SavedIs, ForgetTyped DEF Save
<1>15. CASE Fail
  <2>1. Taken'
    BY <1>2, <1>6, <1>15 DEF Fail
  <2> QED
    BY <1>1, <1>3, <1>5, <1>15, <2>1, ForgetTyped DEF Fail
<1>16. ASSUME NEW r \in Runs, Change(r) PROVE TypeOK'
  <2>1. now' \in {now, now + 1} /\ updated' = [updated EXCEPT ![r] = now'] /\ changes' = changes + 1 /\ changes < MaxChanges
    BY <1>16 DEF Change
  <2>2. now' \in 0..MaxChanges /\ changes' \in 0..MaxChanges
    BY <2>1, PollerAssumption DEF TypeOK, ClockInv
  <2>3. updated' \in [Runs -> 0..MaxChanges]
    BY <2>1, <2>2 DEF TypeOK
  <2>4. verified' \in [Runs -> BOOLEAN] /\ output' \in [Runs -> Outputs] /\ inclusive' \in BOOLEAN
    BY <1>16 DEF Change, TypeOK
  <2>5. Service'
    BY <2>2, <2>3, <2>4 DEF Service
  <2>6. Locals'
    BY <1>2, <1>16 DEF Change, locals, Locals
  <2> QED
    BY <1>1, <1>4, <1>5, <1>16, <2>5, <2>6 DEF Change
<1>17. CASE UNCHANGED vars
  <2>1. Locals'
    BY <1>2, <1>17 DEF vars, locals, Locals
  <2> QED
    BY <1>1, <1>3, <1>4, <1>5, <1>17, <2>1 DEF vars
<1> QED
  BY <1>7, <1>8, <1>9, <1>10, <1>11, <1>12, <1>13, <1>14, <1>15, <1>16, <1>17 DEF Next, Poll
\* The end of a poll leaves nothing that could be listed or in hand.
LEMMA ForgetIs ==
  ASSUME Forget, pc' = "idle"
  PROVE  /\ runs' = {} /\ InHand' = {} /\ entry' = NoEntry /\ cursor' = NoEntry /\ after' = 0 /\ seen' = {}
         /\ ~Handling'
BY DEF Forget, InHand, Handling

\* Where the timestamps of the connector come from.
LEMMA ClockNext ==
  ASSUME TypeOK, ClockInv, RowsInv, [Next]_vars
  PROVE  ClockInv'
<1>1. ASSUME UNCHANGED gbrain, after' <= now PROVE ClockInv'
  BY <1>1 DEF ClockInv, gbrain
<1>2. 0 <= now /\ after <= now
  BY PollerAssumption DEF TypeOK, ClockInv
<1>3. CASE Load
  <2>1. checkpoint.cursor[1] <= now
    BY DEF RowsInv, Stamps
  <2> QED
    BY <1>1, <1>3, <2>1 DEF Load
<1>4. CASE ListPage
  <2>1. after' <= now
    BY <1>2, <1>4, NewestIs DEF ListPage, Forget
  <2> QED
    BY <1>1, <1>4, <2>1 DEF ListPage
<1>5. CASE TakeEntry \/ Details \/ ReadOutput \/ Publish
  BY <1>1, <1>2, <1>5 DEF TakeEntry, Details, ReadOutput, Publish, locals
<1>6. CASE PublishFails \/ Fail \/ Save
  BY <1>1, <1>2, <1>6 DEF PublishFails, Fail, Save, Forget
<1>7. ASSUME NEW r \in Runs, Change(r) PROVE ClockInv'
  <2>1. /\ now' \in {now, now + 1} /\ updated' = [updated EXCEPT ![r] = now'] /\ changes' = changes + 1
        /\ (now' = now + 1 \/ updated[r] < now)
    BY <1>7 DEF Change
  <2>2. now \in Nat /\ changes \in Nat /\ updated[r] \in Nat /\ after \in Nat
    BY PollerAssumption DEF TypeOK
  <2>3. now <= now' /\ now' <= changes' /\ after' <= now' /\ now' > 0
    <3>1. after' = after
      BY <1>7 DEF Change, locals
    <3> QED
      BY <2>1, <2>2, <3>1 DEF ClockInv
  <2>4. ASSUME NEW q \in Runs PROVE updated'[q] <= now' /\ (verified'[q] => updated'[q] > 0)
    <3>1. CASE q = r
      <4>1. updated'[q] = now'
        BY <2>1, <3>1 DEF TypeOK
      <4> QED
        BY <2>1, <2>2, <2>3, <4>1
    <3>2. CASE q # r
      <4>1. updated'[q] = updated[q] /\ verified'[q] = verified[q] /\ updated[q] \in Nat
        BY <1>7, <2>1, <3>2, PollerAssumption DEF TypeOK, Change
      <4> QED
        BY <2>1, <2>2, <2>3, <4>1 DEF ClockInv
    <3> QED
      BY <3>1, <3>2
  <2> QED
    BY <2>3, <2>4 DEF ClockInv
<1>8. CASE UNCHANGED vars
  BY <1>1, <1>2, <1>8 DEF vars, locals
<1> QED
  BY <1>3, <1>4, <1>5, <1>6, <1>7, <1>8 DEF Next, Poll

\* Timestamps are those of GBrain, through every step.
LEMMA RowsNext ==
  ASSUME TypeOK, ClockInv, RowsInv, [Next]_vars
  PROVE  RowsInv'
<1> DEFINE Hand == runs \cup InHand
<1>1. ASSUME Hand' \subseteq Hand \cup Matching, Stamps' \subseteq Stamps \cup {NoEntry} \cup Matching, now' = now
      PROVE  RowsInv'
  <2>1. \A x \in Matching : x \in Rows /\ x[1] <= now
    BY MatchingIs
  <2>2. NoEntry[1] <= now
    BY NothingIs, PollerAssumption DEF TypeOK
  <2>3. \A x \in Stamps' : x[1] <= now
    BY <1>1, <2>1, <2>2 DEF RowsInv
  <2>4. Stamps' \subseteq Rows \cup {NoEntry} /\ Hand' \subseteq Rows
    BY <1>1, <2>1 DEF RowsInv
  <2> QED
    BY <1>1, <2>3, <2>4 DEF RowsInv, Rows
<1>2. CASE Load
  BY <1>1, <1>2 DEF Load, Stamps, InHand, Handling, gbrain
<1>3. CASE ListPage
  BY <1>1, <1>3, PageIs, ForgetIs DEF ListPage, Stamps, InHand, Handling, gbrain
<1>4. CASE TakeEntry
  BY <1>1, <1>4 DEF TakeEntry, Stamps, InHand, Handling, gbrain
<1>5. CASE Details
  BY <1>1, <1>5 DEF Details, Stamps, InHand, Handling, gbrain, locals
<1>6. CASE ReadOutput
  BY <1>1, <1>6 DEF ReadOutput, Stamps, InHand, Handling, gbrain
<1>7. CASE Publish
  BY <1>1, <1>7 DEF Publish, Stamps, InHand, Handling, gbrain
<1>8. CASE PublishFails \/ Fail
  BY <1>1, <1>8, ForgetIs DEF PublishFails, Fail, Stamps, gbrain
<1>9. CASE Save
  BY <1>1, <1>9, ForgetIs, SavedIs DEF Save, Stamps, gbrain
<1>10. ASSUME NEW r \in Runs, Change(r) PROVE RowsInv'
  <2>1. Hand' = Hand /\ Stamps' = Stamps
    BY <1>10 DEF Change, Stamps, InHand, Handling, locals
  <2>2. now <= now' /\ now \in Int /\ now' \in Int
    BY <1>10 DEF Change, TypeOK
  <2>3. \A x \in Stamps : x[1] <= now'
    <3>1. \A x \in Stamps : x[1] \in Int /\ x[1] <= now
      BY NothingIs DEF RowsInv
    <3> QED
      BY <2>2, <3>1
  <2> QED
    BY <2>1, <2>3 DEF RowsInv, Rows
<1>11. CASE UNCHANGED vars
  BY <1>1, <1>11 DEF vars, Stamps, InHand, Handling, locals, gbrain
<1> QED
  BY <1>2, <1>3, <1>4, <1>5, <1>6, <1>7, <1>8, <1>9, <1>10, <1>11 DEF Next, Poll

\* A text is published only if its key was not seen; a key is seen only when
\* it was taken.
LEMMA SeenNext ==
  ASSUME TypedInv, [Next]_vars
  PROVE  TextInv' /\ SafeInv' /\ FreshInv'
<1> USE DEF TypedInv, SafeInv, SeenWasReceived, FreshInv
<1>1. CASE Load
  BY <1>1 DEF Load, TextInv
<1>2. CASE ListPage
  BY <1>2, ForgetIs DEF ListPage, TextInv
<1>3. CASE TakeEntry
  BY <1>3 DEF TakeEntry, TextInv
<1>4. CASE Details
  BY <1>4 DEF Details, TextInv, locals
<1>5. CASE ReadOutput
  <2>1. entry[2] \in Runs
    BY <1>5, NothingIs DEF ReadOutput, RowsInv, InHand, Handling
  <2>2. text' \in Outputs
    BY <1>5, <2>1 DEF ReadOutput, TypeOK
  <2> QED
    BY <1>5, <2>2 DEF ReadOutput, TextInv
<1>6. CASE Publish
  BY <1>6 DEF Publish, TextInv
<1>7. CASE PublishFails \/ Fail
  BY <1>7, ForgetIs DEF PublishFails, Fail, TextInv
<1>8. CASE Save
  BY <1>8, ForgetIs, SavedIs DEF Save, TextInv
<1>9. ASSUME NEW r \in Runs, Change(r) PROVE TextInv' /\ SafeInv' /\ FreshInv'
  BY <1>9 DEF Change, TextInv, locals
<1>10. CASE UNCHANGED vars
  BY <1>10 DEF vars, TextInv, locals
<1> QED
  BY <1>1, <1>2, <1>3, <1>4, <1>5, <1>6, <1>7, <1>8, <1>9, <1>10 DEF Next, Poll

\* What holds with and without ties is kept by every step.
LEMMA TypedNext ==
  ASSUME TypedInv, [Next]_vars
  PROVE  TypedInv'
BY PollTyped, ClockNext, RowsNext, SeenNext DEF TypedInv

\* What was taken is never forgotten, so what fits after a step did before it.
LEMMA FitsBefore ==
  ASSUME TypeOK, TypeOK', [Next]_vars, Cardinality(received') <= SeenLimit
  PROVE  Cardinality(received) <= SeenLimit /\ (seen \subseteq received => Cardinality(seen) <= SeenLimit)
<1>1. received \subseteq received'
  BY DEF Next, Poll, Load, ListPage, TakeEntry, Details, ReadOutput, Publish, PublishFails, Save,
      Fail, Change, vars
<1>2. IsFiniteSet(Keys)
  BY PollerAssumption, FS_Product DEF Keys
<1>3. IsFiniteSet(received') /\ Cardinality(received') \in Nat
  BY <1>2, FS_Subset, FS_CardinalityType DEF TypeOK
<1>4. ASSUME NEW S \in SUBSET received' PROVE Cardinality(S) <= SeenLimit
  <2>1. Cardinality(S) <= Cardinality(received') /\ IsFiniteSet(S)
    BY <1>3, FS_Subset
  <2>2. Cardinality(S) \in Nat
    BY <2>1, FS_CardinalityType
  <2> QED
    BY <1>3, <2>1, <2>2, PollerAssumption
<1> QED
  BY <1>1, <1>4

Noted == IF pc = "idle" THEN checkpoint.seen ELSE seen

\* Each call of publish but the one whose key was noted is made up for by a
\* failure.
LEMMA SendsNext ==
  ASSUME TypedInv, SendsInv, [Next]_vars
  PROVE  SendsInv'
<1> USE DEF TypedInv
<1> SUFFICES ASSUME Cardinality(received') <= SeenLimit, NEW k \in Keys
             PROVE  sends'[k] <= faults' + (IF k \in Noted' THEN 1 ELSE 0)
  BY DEF SendsInv, Noted
<1>1. Cardinality(received) <= SeenLimit /\ Cardinality(seen) <= SeenLimit
  BY FitsBefore, TypedNext DEF SafeInv
<1>2. sends[k] <= faults + (IF k \in Noted THEN 1 ELSE 0)
  BY <1>1 DEF SendsInv, Noted
<1>3. faults \in Int /\ sends[k] \in Int
  BY DEF TypeOK
<1>4. ASSUME sends' = sends, faults' = faults, Noted' = Noted
      PROVE  sends'[k] <= faults' + (IF k \in Noted' THEN 1 ELSE 0)
  BY <1>2, <1>4
<1>5. CASE Load
  BY <1>4, <1>5 DEF Load, Noted
<1>6. CASE ListPage
  BY <1>4, <1>6 DEF ListPage, Noted, FreshInv
<1>7. CASE TakeEntry \/ Details \/ ReadOutput
  BY <1>4, <1>7 DEF TakeEntry, Details, ReadOutput, Noted, locals
<1>8. CASE Publish
  <2> DEFINE key == <<entry[2], text>>
  <2>1. /\ pc = "publish" /\ Send /\ faults' = faults /\ Noted = seen /\ Noted' = seen \cup {key}
        /\ key \notin seen
    BY <1>8 DEF Publish, Noted, TextInv
  <2>2. CASE k = key
    <3>1. sends[k] <= faults
      BY <1>2, <1>3, <2>1, <2>2
    <3>2. sends'[k] = sends[k] + 1
      BY <2>1, <2>2, SendTyped
    <3> QED
      BY <1>3, <2>1, <2>2, <3>1, <3>2
  <2>3. CASE k # key
    <3>1. sends'[k] = sends[k]
      BY <2>1, <2>3, SendTyped
    <3> QED
      BY <1>2, <2>1, <2>3, <3>1
  <2> QED
    BY <2>2, <2>3
<1>9. CASE PublishFails
  <2> DEFINE key == <<entry[2], text>>
  <2>1. pc = "publish" /\ Send /\ faults' = faults + 1 /\ Noted = seen /\ key \notin seen
    BY <1>9 DEF PublishFails, Noted, TextInv
  <2>2. CASE k = key
    <3>1. sends[k] <= faults
      BY <1>2, <1>3, <2>1, <2>2
    <3>2. sends'[k] = sends[k] + 1
      BY <2>1, <2>2, SendTyped
    <3> QED
      BY <1>3, <2>1, <3>1, <3>2
  <2>3. CASE k # key
    <3>1. sends'[k] = sends[k]
      BY <2>1, <2>3, SendTyped
    <3> QED
      BY <1>2, <1>3, <2>1, <3>1
  <2> QED
    BY <2>2, <2>3
<1>10. CASE Save
  BY <1>1, <1>4, <1>10, SavedIs DEF Save, Noted
<1>11. CASE Fail
  BY <1>2, <1>3, <1>11 DEF Fail
<1>12. ASSUME NEW r \in Runs, Change(r) PROVE sends'[k] <= faults' + (IF k \in Noted' THEN 1 ELSE 0)
  BY <1>4, <1>12 DEF Change, Noted, locals
<1>13. CASE UNCHANGED vars
  BY <1>4, <1>13 DEF vars, Noted, locals
<1> QED
  BY <1>5, <1>6, <1>7, <1>8, <1>9, <1>10, <1>11, <1>12, <1>13 DEF Next, Poll
----------------------------------------------------------------------------
(* No work is skipped, if no two runs carry the same timestamp. *)

Order == Int \X Int

\* _run_key is a strict total order.
LEMMA BeforeIs ==
  ASSUME NEW x \in Order, NEW y \in Order, NEW z \in Order
  PROVE  /\ ~Before(x, x)
         /\ Before(x, y) => ~Before(y, x)
         /\ ~Before(x, y) /\ ~Before(y, x) => x = y
         /\ Before(x, y) /\ Before(y, z) => Before(x, z)
<1>1. x = <<x[1], x[2]>> /\ y = <<y[1], y[2]>> /\ x[1] \in Int /\ x[2] \in Int /\ y[1] \in Int /\ y[2] \in Int /\
      z[1] \in Int /\ z[2] \in Int
  BY DEF Order
<1>2. x[1] = y[1] /\ x[2] = y[2] => x = y
  BY <1>1
<1> QED
  BY <1>1, <1>2 DEF Before

\* All rows can be compared.
LEMMA Ordered ==
  ASSUME TypeOK, RowsInv
  PROVE  /\ \A r \in Runs : Row(r) \in Order
         /\ \A x \in Stamps \cup InHand : x \in Order
         /\ Rows \subseteq Order /\ Entries \subseteq Order
<1>1. Entries \subseteq Order /\ Rows \subseteq Order
  <2>1. 0..MaxChanges \subseteq Int /\ 1..MaxChanges \subseteq Int /\ Runs \cup {0} \subseteq Int
    BY PollerAssumption
  <2> QED
    BY <2>1 DEF Entries, Rows, Order
<1>2. \A r \in Runs : Row(r) \in Order
  BY PollerAssumption DEF Row, Order, TypeOK
<1>3. Stamps \cup InHand \subseteq Entries
  BY NothingIs DEF RowsInv
<1> QED
  BY <1>1, <1>2, <1>3

\* A step of the connector leaves the runs as they are.
LEMMA SameRuns ==
  ASSUME UNCHANGED gbrain
  PROVE  \A r \in Runs : /\ Row(r)' = Row(r) /\ (Publishable(r)' <=> Publishable(r))
                         /\ updated'[r] = updated[r] /\ output'[r] = output[r]
BY DEF gbrain, Row, Publishable

\* A run that changes becomes the latest of all, and one of its own.
LEMMA ChangeIs ==
  ASSUME TypedInv, Ties = FALSE, NEW c \in Runs, Change(c)
  PROVE  /\ now' = now + 1 /\ updated'[c] = now + 1 /\ Row(c)' = <<now + 1, c>>
         /\ \A q \in Runs \ {c} : /\ updated'[q] = updated[q] /\ Row(q)' = Row(q) /\ output'[q] = output[q]
                                  /\ Publishable(q)' <=> Publishable(q)
         /\ UNCHANGED <<received, checkpoint, pc, locals, Stamps, Handling, InHand>>
         /\ \A x \in Stamps : Before(x, Row(c)') /\ x # Row(c)' /\ x[1] # now + 1
<1> USE DEF TypedInv
<1>1. now' = now + 1 /\ updated' = [updated EXCEPT ![c] = now + 1]
  BY DEF Change
<1>2. updated'[c] = now + 1 /\ Row(c)' = <<now + 1, c>>
  BY <1>1 DEF TypeOK, Row
<1>3. ASSUME NEW q \in Runs \ {c}
      PROVE  /\ updated'[q] = updated[q] /\ Row(q)' = Row(q) /\ output'[q] = output[q]
             /\ Publishable(q)' <=> Publishable(q)
  <2>1. updated'[q] = updated[q] /\ verified'[q] = verified[q] /\ output'[q] = output[q]
    BY <1>1 DEF Change, TypeOK
  <2> QED
    BY <2>1 DEF Row, Publishable
<1>4. UNCHANGED <<received, checkpoint, pc, locals>>
  BY DEF Change
<1>5. UNCHANGED <<Stamps, Handling, InHand>>
  BY <1>4 DEF locals, Stamps, Handling, InHand
<1>6. ASSUME NEW x \in Stamps PROVE Before(x, Row(c)') /\ x # Row(c)' /\ x[1] # now + 1
  <2>1. x[1] <= now /\ x[1] \in Int /\ now \in Int
    BY Ordered DEF RowsInv, TypeOK, Order
  <2>2. x[1] < now + 1 /\ x[1] # now + 1
    BY <2>1
  <2> QED
    BY <1>2, <2>2 DEF Before
<1> QED
  BY <1>1, <1>2, <1>3, <1>4, <1>5, <1>6

\* Without ties the timestamps stay apart.
LEMMA NoTiesNext ==
  ASSUME TypedInv, Ties = FALSE, NoTiesInv, [Next]_vars
  PROVE  NoTiesInv'
<1> USE DEF TypedInv
<1>1. ASSUME Stamps' \subseteq Stamps \cup {NoEntry} \cup Matching, UNCHANGED gbrain
      PROVE  NoTiesInv'
  <2>1. \A q, r \in Runs : updated'[q] = updated'[r] /\ updated'[r] > 0 => q = r
    BY <1>1, SameRuns DEF NoTiesInv
  <2>2. ASSUME NEW x \in Matching, NEW r \in Runs, updated[r] = x[1] PROVE x[2] = r
    <3>1. x[2] \in Runs /\ x[1] = updated[x[2]] /\ x[1] > 0
      BY MatchingIs, NothingIs, PollerAssumption DEF Row
    <3> QED
      BY <2>2, <3>1 DEF NoTiesInv
  <2>3. \A x \in Stamps' : \A r \in Runs : updated'[r] = x[1] /\ x # NoEntry => x[2] = r
    BY <1>1, <2>2, SameRuns DEF NoTiesInv
  <2> QED
    BY <2>1, <2>3 DEF NoTiesInv, NoEntry
<1>2. CASE Load
  BY <1>1, <1>2 DEF Load, Stamps
<1>3. CASE ListPage
  BY <1>1, <1>3, PageIs, ForgetIs DEF ListPage, Stamps
<1>4. CASE TakeEntry
  BY <1>1, <1>4 DEF TakeEntry, Stamps
<1>5. CASE Details
  BY <1>1, <1>5 DEF Details, Stamps, locals
<1>6. CASE ReadOutput \/ Publish
  BY <1>1, <1>6 DEF ReadOutput, Publish, Stamps
<1>7. CASE PublishFails \/ Fail
  BY <1>1, <1>7, ForgetIs DEF PublishFails, Fail, Stamps
<1>8. CASE Save
  BY <1>1, <1>8, ForgetIs, SavedIs DEF Save, Stamps
<1>9. ASSUME NEW c \in Runs, Change(c) PROVE NoTiesInv'
  <2>1. updated'[c] = now + 1 /\ (\A q \in Runs \ {c} : updated'[q] = updated[q]) /\ Stamps' = Stamps
    BY <1>9, ChangeIs
  <2>2. \A x \in Stamps : x[1] # now + 1
    BY <1>9, ChangeIs
  <2>3. \A p \in Runs : updated[p] <= now /\ updated[p] \in Int /\ now \in Int
    BY DEF TypeOK, ClockInv
  <2>4. \A p \in Runs : updated[p] # now + 1
    BY <2>3
  <2>5. ASSUME NEW q \in Runs, NEW r \in Runs, updated'[q] = updated'[r], updated'[r] > 0 PROVE q = r
    BY <2>1, <2>4, <2>5 DEF NoTiesInv
  <2>6. ASSUME NEW x \in Stamps, NEW r \in Runs, updated'[r] = x[1], x # NoEntry PROVE x[2] = r
    BY <2>1, <2>2, <2>6 DEF NoTiesInv
  <2> QED
    BY <2>1, <2>5, <2>6 DEF NoTiesInv, NoEntry
<1>10. CASE UNCHANGED vars
  BY <1>1, <1>10 DEF vars, Stamps, locals
<1> QED
  BY <1>2, <1>3, <1>4, <1>5, <1>6, <1>7, <1>8, <1>9, <1>10 DEF Next, Poll
SkipInductive == TypedInv /\ Ties = FALSE /\ SkipInv

\* While it lists, a poll has all rows after the saved cursor up to where the
\* next page begins: a run that changes goes beyond that.
LEMMA ListingNext ==
  ASSUME SkipInductive, [Next]_vars
  PROVE  ListingInv'
<1> USE DEF SkipInductive, TypedInv, SkipInv
<1> DEFINE cc == checkpoint.cursor
<1>1. CASE Load
  <2>1. cc \in Stamps /\ cc \in Order
    BY Ordered DEF Stamps
  <2>2. ASSUME NEW r \in Runs, updated[r] > 0, updated[r] <= cc[1], Before(cc, Row(r)) PROVE FALSE
    <3>1. updated[r] = cc[1] /\ cc[2] < r /\ cc # NoEntry
      BY <2>1, <2>2, NothingIs, PollerAssumption DEF Before, Row, TypeOK, Order
    <3>2. cc[2] = r
      BY <2>1, <3>1 DEF NoTiesInv
    <3> QED
      BY <3>1, <3>2, PollerAssumption
  <2>3. checkpoint' = checkpoint /\ after' = cc[1] /\ cc[1] \in Int
    BY <1>1, <2>1 DEF Load, Order
  <2>4. \A r \in Runs : Row(r)' = Row(r) /\ updated'[r] = updated[r]
    BY <1>1, SameRuns DEF Load
  <2> QED
    BY <2>2, <2>3, <2>4 DEF ListingInv
<1>2. CASE ListPage
  <2> SUFFICES ASSUME pc' = "list" PROVE ListingInv'
    BY DEF ListingInv
  <2>1. /\ pc = "list" /\ ~(Cardinality(Page) < PageLimit) /\ checkpoint' = checkpoint
        /\ runs' = runs \cup Page /\ after' = Newest(Page)
    BY <1>2 DEF ListPage
  <2>2. cc[1] <= after'
    <3>1. cc[1] \in Int /\ after \in Int /\ Newest(Page) \in Int /\ after <= Newest(Page) /\ cc[1] <= after
      BY <2>1, NewestIs, Ordered DEF ListingInv, TypeOK, Stamps, Order
    <3> QED
      BY <2>1, <3>1
  <2>3. ASSUME NEW r \in Runs, updated[r] > 0, updated[r] <= Newest(Page), Before(cc, Row(r))
        PROVE  Row(r) \in runs \cup Page
    <3>1. updated[r] \in Int /\ after \in Int
      BY DEF TypeOK
    <3>2. CASE updated[r] <= after
      BY <2>1, <2>3, <3>2 DEF ListingInv
    <3>3. CASE updated[r] > after
      <4>1. Row(r) \in Matching
        BY <3>3, MatchingIs
      <4>2. PICK y \in Page : Newest(Page) = y[1]
        BY <2>1, NewestIs
      <4>3. Row(r)[1] <= y[1]
        BY <2>3, <4>2 DEF Row
      <4> QED
        BY <4>1, <4>2, <4>3, PageIsDown
    <3> QED
      BY <3>1, <3>2, <3>3
  <2>4. \A r \in Runs : Row(r)' = Row(r) /\ updated'[r] = updated[r]
    BY <1>2, SameRuns DEF ListPage
  <2> QED
    BY <2>1, <2>2, <2>3, <2>4 DEF ListingInv
<1>3. CASE TakeEntry \/ Details \/ ReadOutput \/ Publish \/ PublishFails \/ Save \/ Fail
  BY <1>3 DEF TakeEntry, Details, ReadOutput, Publish, PublishFails, Save, Fail, ListingInv
<1>4. ASSUME NEW c \in Runs, Change(c) PROVE ListingInv'
  <2> SUFFICES ASSUME pc = "list"
               PROVE  ListingInv'
    BY <1>4, ChangeIs DEF ListingInv
  <2>1. updated'[c] = now + 1 /\ \A q \in Runs \ {c} : updated'[q] = updated[q] /\ Row(q)' = Row(q)
    BY <1>4, ChangeIs
  <2>2. UNCHANGED <<after, runs, checkpoint>>
    BY <1>4, ChangeIs DEF locals
  <2>3. ~(updated'[c] <= after)
    BY <2>1 DEF ClockInv, TypeOK
  <2> QED
    BY <2>1, <2>2, <2>3 DEF ListingInv
<1>5. CASE UNCHANGED vars
  <2>1. UNCHANGED <<pc, after, runs, checkpoint>> /\ \A r \in Runs : Row(r)' = Row(r) /\ updated'[r] = updated[r]
    BY <1>5, SameRuns DEF vars, locals
  <2> QED
    BY <2>1 DEF ListingInv
<1> QED
  BY <1>1, <1>2, <1>3, <1>4, <1>5 DEF Next, Poll

\* The row in hand comes first, and its text is that of its run.
LEMMA EntryNext ==
  ASSUME SkipInductive, [Next]_vars
  PROVE  EntryInv'
<1> USE DEF SkipInductive, TypedInv, SkipInv
<1>1. CASE TakeEntry
  BY <1>1 DEF TakeEntry, InOrder, EntryInv, Handling
<1>2. CASE Details
  BY <1>2 DEF Details, locals, EntryInv, Handling
<1>3. CASE ReadOutput
  <2>1. Handling /\ text' = output[entry[2]] /\ runs' = runs /\ entry' = entry
    BY <1>3 DEF ReadOutput, Handling
  <2>2. \A r \in Runs : Row(r)' = Row(r) /\ output'[r] = output[r]
    BY <1>3, SameRuns DEF ReadOutput
  <2>3. ASSUME NEW r \in Runs, Row(r) = entry PROVE text' = output[r]
    BY <2>1, <2>3 DEF Row
  <2> QED
    BY <2>1, <2>2, <2>3 DEF EntryInv
<1>4. CASE Load \/ ListPage \/ Publish \/ PublishFails \/ Save \/ Fail
  BY <1>4, ForgetIs DEF Load, ListPage, Publish, PublishFails, Save, Fail, EntryInv, Handling
<1>5. ASSUME NEW c \in Runs, Change(c) PROVE EntryInv'
  <2>1. UNCHANGED <<pc, runs, entry, text, Handling>>
    BY <1>5, ChangeIs DEF locals
  <2>2. Row(c)' # entry /\ \A q \in Runs \ {c} : Row(q)' = Row(q) /\ output'[q] = output[q]
    BY <1>5, ChangeIs DEF Stamps
  <2> QED
    BY <2>1, <2>2 DEF EntryInv
<1>6. CASE UNCHANGED vars
  <2>1. UNCHANGED <<pc, runs, entry, text, Handling>> /\ \A r \in Runs : Row(r)' = Row(r) /\ output'[r] = output[r]
    BY <1>6, SameRuns DEF vars, locals, Handling
  <2> QED
    BY <2>1 DEF EntryInv
<1> QED
  BY <1>1, <1>2, <1>3, <1>4, <1>5, <1>6 DEF Next, Poll
\* A run that was listed and has not changed is still to be handled, or taken.
Kept(r) ==
  \/ Row(r) \in runs \cup InHand
  \/ Got(r)
  \/ \A x \in runs \cup {entry} : Before(x, Row(r))

Working == {"next", "details", "output", "publish"}

\* Nothing listed is passed over while rows are handled.
LEMMA HandledNext ==
  ASSUME SkipInductive, [Next]_vars
  PROVE  HandledInv'
<1> USE DEF SkipInductive, TypedInv, SkipInv
<1> DEFINE Due(r) == Publishable(r) /\ Before(checkpoint.cursor, Row(r))
<1>1. (\A r \in Runs : Due(r)' => Kept(r)') => HandledInv'
  BY DEF HandledInv, Kept
<1>2. pc' \notin Working => HandledInv'
  BY DEF HandledInv, Working
<1>3. ASSUME pc \in Working, NEW r \in Runs, Due(r) PROVE Kept(r)
  BY <1>3 DEF HandledInv, Kept, Working
<1>4. ASSUME UNCHANGED <<gbrain, checkpoint>>, NEW r \in Runs
      PROVE  /\ Due(r)' <=> Due(r)
             /\ Row(r)' = Row(r) /\ (received \subseteq received' /\ Got(r) => Got(r)')
  BY <1>4, SameRuns DEF Got
<1> HIDE DEF Due
<1>5. CASE Load \/ PublishFails \/ Save \/ Fail
  BY <1>2, <1>5, ForgetIs DEF Load, PublishFails, Save, Fail, Working
<1>6. CASE ListPage
  <2>1. CASE Cardinality(Page) < PageLimit
    <3>1. pc = "list" /\ runs' = runs \cup Page /\ UNCHANGED <<gbrain, checkpoint>>
      BY <1>6, <2>1 DEF ListPage
    <3>2. ASSUME NEW r \in Runs, Due(r) PROVE Row(r) \in runs \cup Page
      <4>1. updated[r] > 0 /\ updated[r] \in Int /\ after \in Int /\ Before(checkpoint.cursor, Row(r))
        BY <3>2 DEF Due, Publishable, ClockInv, TypeOK
      <4>2. CASE updated[r] <= after
        BY <3>1, <4>1, <4>2 DEF ListingInv
      <4>3. CASE updated[r] > after
        BY <2>1, <4>3, MatchingIs, PageIsAll
      <4> QED
        BY <4>1, <4>2, <4>3
    <3> QED
      BY <1>1, <1>4, <3>1, <3>2 DEF Kept
  <2>2. CASE ~(Cardinality(Page) < PageLimit)
    BY <1>2, <1>6, <2>2 DEF ListPage, Working
  <2> QED
    BY <2>1, <2>2
<1>7. CASE TakeEntry
  <2>1. PICK x \in runs :
          /\ InOrder(x) /\ runs' = runs \ {x}
          /\ IF checkpoint.cursor # NoEntry /\ ~Before(checkpoint.cursor, x)
             THEN UNCHANGED <<pc, entry>> ELSE pc' = "details" /\ entry' = x
    BY <1>7 DEF TakeEntry
  <2>2. pc = "next" /\ UNCHANGED <<gbrain, checkpoint, received>> /\ InHand = {}
    BY <1>7 DEF TakeEntry, InHand, Handling
  <2> SUFFICES ASSUME NEW r \in Runs, Due(r) PROVE Kept(r)'
    BY <1>1, <1>4, <2>2
  <2>3. Row(r) \in runs \/ Got(r) \/ \A y \in runs \cup {entry} : Before(y, Row(r))
    BY <1>3, <2>2 DEF Kept, Working
  <2>4. Row(r)' = Row(r) /\ (Got(r) => Got(r)')
    BY <1>4, <2>2
  <2>5. CASE checkpoint.cursor # NoEntry /\ ~Before(checkpoint.cursor, x)
    <3>1. Row(r) # x
      BY <2>5 DEF Due
    <3>2. entry' = entry /\ InHand' = {} /\ runs' = runs \ {x}
      BY <2>1, <2>2, <2>5 DEF InHand, Handling
    <3> QED
      BY <2>3, <2>4, <3>1, <3>2 DEF Kept
  <2>6. CASE ~(checkpoint.cursor # NoEntry /\ ~Before(checkpoint.cursor, x))
    <3>1. entry' = x /\ InHand' = {x} /\ runs' = runs \ {x}
      BY <2>1, <2>6 DEF InHand, Handling
    <3> QED
      BY <2>3, <2>4, <3>1 DEF Kept
  <2> QED
    BY <2>5, <2>6
<1>8. CASE Details
  <2>1. pc = "details" /\ UNCHANGED <<gbrain, checkpoint, received, runs, entry>> /\ InHand = {entry}
    BY <1>8 DEF Details, locals, InHand, Handling
  <2> SUFFICES ASSUME NEW r \in Runs, Due(r) PROVE Kept(r)'
    BY <1>1, <1>4, <2>1
  <2>2. Kept(r) /\ Row(r)' = Row(r) /\ (Got(r) => Got(r)')
    BY <1>3, <1>4, <2>1 DEF Working
  <2>3. CASE Row(r) = entry
    <3>1. pc' = "output"
      BY <1>8, <2>3 DEF Details, Due, Publishable, Row
    <3>2. InHand' = {entry}
      BY <2>1, <3>1 DEF InHand, Handling
    <3> QED
      BY <2>2, <2>3, <3>2 DEF Kept
  <2>4. CASE Row(r) # entry
    BY <2>1, <2>2, <2>4 DEF Kept
  <2> QED
    BY <2>3, <2>4
<1>9. CASE ReadOutput
  <2>1. /\ pc = "output" /\ UNCHANGED <<gbrain, checkpoint, received, runs, entry>> /\ InHand = {entry}
        /\ text' = output[entry[2]] /\ pc' = IF text' = 0 \/ <<entry[2], text'>> \in seen THEN "next" ELSE "publish"
    BY <1>9 DEF ReadOutput, InHand, Handling
  <2> SUFFICES ASSUME NEW r \in Runs, Due(r) PROVE Kept(r)'
    BY <1>1, <1>4, <2>1
  <2>2. Kept(r) /\ Row(r)' = Row(r) /\ (Got(r) => Got(r)')
    BY <1>3, <1>4, <2>1 DEF Working
  <2>3. CASE Row(r) = entry
    <3>1. entry[2] = r /\ text' = output[r] /\ output[r] # 0
      BY <2>1, <2>3 DEF Row, Due, Publishable
    <3>2. CASE pc' = "publish"
      <4>1. InHand' = {entry}
        BY <2>1, <3>2 DEF InHand, Handling
      <4> QED
        BY <2>2, <2>3, <4>1 DEF Kept
    <3>3. CASE pc' # "publish"
      <4>1. <<r, output[r]>> \in seen
        BY <2>1, <3>1, <3>3
      <4>2. Got(r)
        BY <4>1 DEF SafeInv, Got
      <4> QED
        BY <2>2, <4>2 DEF Kept
    <3> QED
      BY <3>2, <3>3
  <2>4. CASE Row(r) # entry
    BY <2>1, <2>2, <2>4 DEF Kept
  <2> QED
    BY <2>3, <2>4
<1>10. CASE Publish
  <2>1. /\ pc = "publish" /\ UNCHANGED <<gbrain, checkpoint, runs, entry>> /\ InHand = {entry} /\ Handling
        /\ received' = received \cup {<<entry[2], text>>}
    BY <1>10 DEF Publish, InHand, Handling
  <2> SUFFICES ASSUME NEW r \in Runs, Due(r) PROVE Kept(r)'
    BY <1>1, <1>4, <2>1
  <2>2. Kept(r) /\ Row(r)' = Row(r) /\ (Got(r) => Got(r)')
    BY <1>3, <1>4, <2>1 DEF Working
  <2>3. CASE Row(r) = entry
    <3>1. entry[2] = r /\ text = output[r] /\ output'[r] = output[r]
      BY <2>1, <2>3, SameRuns DEF EntryInv, Row
    <3>2. Got(r)'
      BY <2>1, <3>1 DEF Got
    <3> QED
      BY <3>2 DEF Kept
  <2>4. CASE Row(r) # entry
    BY <2>1, <2>2, <2>4 DEF Kept
  <2> QED
    BY <2>3, <2>4
<1>11. ASSUME NEW c \in Runs, Change(c) PROVE HandledInv'
  <2> SUFFICES ASSUME pc \in Working, NEW r \in Runs, Due(r)' PROVE Kept(r)'
    BY <1>1, <1>2, <1>11, ChangeIs
  <2>1. UNCHANGED <<pc, received, checkpoint, runs, entry, InHand>>
    BY <1>11, ChangeIs DEF locals
  <2>2. CASE r = c
    <3>1. \A x \in runs \cup {entry} : Before(x, Row(c)')
      BY <1>11, ChangeIs DEF Stamps
    <3> QED
      BY <2>1, <2>2, <3>1 DEF Kept
  <2>3. CASE r # c
    <3>1. Row(r)' = Row(r) /\ output'[r] = output[r] /\ (Publishable(r)' <=> Publishable(r))
      BY <1>11, <2>3, ChangeIs
    <3>2. Due(r)
      BY <2>1, <3>1 DEF Due
    <3> QED
      BY <1>3, <2>1, <3>1, <3>2 DEF Kept, Got
  <2> QED
    BY <2>2, <2>3
<1>12. CASE UNCHANGED vars
  <2>1. UNCHANGED <<gbrain, checkpoint, pc, received, runs, entry, InHand>>
    BY <1>12 DEF vars, locals, InHand, Handling
  <2> QED
    BY <1>1, <1>2, <1>3, <1>4, <2>1 DEF Kept
<1> QED
  BY <1>5, <1>6, <1>7, <1>8, <1>9, <1>10, <1>11, <1>12 DEF Next, Poll

\* The cursor goes to the row in hand when its run, as it is, was taken: all
\* rows before it were handled, or have changed.
LEMMA CursorMoves ==
  ASSUME SkipInductive, Handling, NEW r \in Runs, Publishable(r), ~Before(entry, Row(r)), Row(r) # entry
  PROVE  Got(r)
<1> USE DEF SkipInductive, TypedInv, SkipInv
<1>1. /\ Row(r) \in Order /\ entry \in Order /\ \A x \in runs : x \in Order
      /\ pc \in {"next", "details", "output", "publish"} /\ InHand = {entry}
  BY Ordered DEF Stamps, InHand, Handling
<1>2. CASE ~Before(checkpoint.cursor, Row(r))
  BY <1>2 DEF NothingIsSkipped, Got, Row
<1>3. CASE Before(checkpoint.cursor, Row(r))
  <2>1. Row(r) \notin runs
    BY DEF EntryInv
  <2> QED
    BY <1>1, <1>3, <2>1 DEF HandledInv
<1> QED
  BY <1>2, <1>3

\* The cursor moves past a row only when its work is done.
LEMMA CursorNext ==
  ASSUME SkipInductive, [Next]_vars
  PROVE  CursorInv' /\ NothingIsSkipped'
<1> USE DEF SkipInductive, TypedInv, SkipInv
<1>1. ASSUME UNCHANGED gbrain, received \subseteq received'
      PROVE  \A r \in Runs : Row(r)' = Row(r) /\ (Publishable(r)' <=> Publishable(r)) /\ (Got(r) => Got(r)')
  BY <1>1, SameRuns DEF Got
<1>2. NothingIsSkipped <=> \A r \in Runs : Publishable(r) /\ ~Before(checkpoint.cursor, Row(r)) => Got(r)
  BY DEF NothingIsSkipped, Got, Row
<1>3. NothingIsSkipped' <=> \A r \in Runs : Publishable(r)' /\ ~Before(checkpoint'.cursor, Row(r)') => Got(r)'
  BY DEF NothingIsSkipped, Got, Row, Before
<1>4. CursorInv' <=> (pc' # "idle" => \A r \in Runs : Publishable(r)' /\ ~Before(cursor', Row(r)') => Got(r)')
  BY DEF CursorInv, Before
<1>5. ASSUME UNCHANGED <<gbrain, checkpoint>>, received \subseteq received' PROVE NothingIsSkipped'
  BY <1>1, <1>2, <1>3, <1>5
<1>6. ASSUME UNCHANGED <<gbrain, cursor>>, received \subseteq received', pc # "idle" PROVE CursorInv'
  BY <1>1, <1>4, <1>6 DEF CursorInv
<1>7. ASSUME UNCHANGED gbrain, received \subseteq received', Handling, cursor' = entry,
             \A r \in Runs : Publishable(r) /\ Row(r) = entry => Got(r)'
      PROVE  CursorInv'
  BY <1>1, <1>4, <1>7, CursorMoves
<1>8. CASE Load
  <2>1. UNCHANGED <<gbrain, checkpoint, received>> /\ cursor' = checkpoint.cursor
    BY <1>8 DEF Load
  <2> QED
    BY <1>1, <1>2, <1>4, <1>5, <2>1
<1>9. CASE ListPage
  <2>1. UNCHANGED <<gbrain, checkpoint, received>> /\ pc # "idle" /\ (pc' = "idle" \/ UNCHANGED cursor)
    BY <1>9 DEF ListPage
  <2> QED
    BY <1>4, <1>5, <1>6, <2>1
<1>10. CASE TakeEntry \/ Details
  <2>1. UNCHANGED <<gbrain, checkpoint, received, cursor>> /\ pc # "idle"
    BY <1>10 DEF TakeEntry, Details, locals
  <2> QED
    BY <1>5, <1>6, <2>1
<1>11. CASE ReadOutput
  <2>1. /\ UNCHANGED <<gbrain, checkpoint, received>> /\ pc # "idle" /\ Handling
        /\ \/ UNCHANGED cursor
           \/ cursor' = entry /\ <<entry[2], output[entry[2]]>> \in seen
    BY <1>11 DEF ReadOutput, Handling
  <2>2. CASE UNCHANGED cursor
    BY <1>5, <1>6, <2>1, <2>2
  <2>3. CASE cursor' = entry /\ <<entry[2], output[entry[2]]>> \in seen
    <3>1. ASSUME NEW r \in Runs, Row(r) = entry PROVE Got(r)
      <4>1. entry[2] = r
        BY <3>1 DEF Row
      <4> QED
        BY <2>3, <4>1 DEF SafeInv, Got
    <3> QED
      BY <1>1, <1>5, <1>7, <2>1, <2>3, <3>1
  <2> QED
    BY <2>1, <2>2, <2>3
<1>12. CASE Publish
  <2>1. /\ UNCHANGED <<gbrain, checkpoint>> /\ pc = "publish" /\ Handling /\ cursor' = entry
        /\ received' = received \cup {<<entry[2], text>>}
    BY <1>12 DEF Publish, Handling
  <2>2. ASSUME NEW r \in Runs, Row(r) = entry PROVE Got(r)'
    <3>1. entry[2] = r /\ text = output[r] /\ output'[r] = output[r]
      BY <2>1, <2>2, SameRuns DEF EntryInv, Row
    <3> QED
      BY <2>1, <3>1 DEF Got
  <2> QED
    BY <1>5, <1>7, <2>1, <2>2
<1>13. CASE PublishFails \/ Fail
  <2>1. UNCHANGED <<gbrain, checkpoint>> /\ received \subseteq received' /\ pc' = "idle"
    BY <1>13 DEF PublishFails, Fail
  <2> QED
    BY <1>4, <1>5, <2>1
<1>14. CASE Save
  <2>1. UNCHANGED <<gbrain, received>> /\ pc # "idle" /\ pc' = "idle" /\ checkpoint'.cursor = cursor
    BY <1>14, SavedIs DEF Save
  <2> QED
    BY <1>1, <1>3, <1>4, <2>1 DEF CursorInv
<1>15. ASSUME NEW c \in Runs, Change(c) PROVE CursorInv' /\ NothingIsSkipped'
  <2>1. UNCHANGED <<pc, received, checkpoint, cursor>>
    BY <1>15, ChangeIs DEF locals
  <2>2. Before(checkpoint.cursor, Row(c)') /\ Before(cursor, Row(c)')
    BY <1>15, ChangeIs DEF Stamps
  <2>3. \A q \in Runs \ {c} : Row(q)' = Row(q) /\ (Publishable(q)' <=> Publishable(q)) /\ (Got(q) => Got(q)')
    BY <1>15, <2>1, ChangeIs DEF Got
  <2>4. NothingIsSkipped'
    BY <1>2, <1>3, <2>1, <2>2, <2>3
  <2>5. CursorInv'
    BY <1>4, <2>1, <2>2, <2>3 DEF CursorInv
  <2> QED
    BY <2>4, <2>5
<1>16. CASE UNCHANGED vars
  <2>1. UNCHANGED <<gbrain, checkpoint, received, pc, cursor>>
    BY <1>16 DEF vars, locals
  <2> QED
    BY <1>1, <1>4, <1>5, <2>1 DEF CursorInv
<1> QED
  BY <1>8, <1>9, <1>10, <1>11, <1>12, <1>13, <1>14, <1>15, <1>16 DEF Next, Poll
----------------------------------------------------------------------------
(* GBrain. *)

GBrainInv == TypedInv /\ SendsInv /\ (Ties = FALSE => SkipInv)

\* The invariant of GBrain holds at the start.
LEMMA GBrainStart == Init => GBrainInv
<1> SUFFICES ASSUME Init PROVE GBrainInv
  OBVIOUS
<1>1. IsFiniteSet({}) /\ Cardinality({}) = 0
  BY FS_EmptySet
<1>2. Locals /\ NoEntry \in Entries
  BY NothingIs DEF Init, Locals, Polling
<1>3. TypeOK
  <2>1. Cardinality(checkpoint.seen) <= SeenLimit /\ checkpoint \in [cursor : Entries, seen : SUBSET Keys]
    BY <1>1, <1>2, PollerAssumption DEF Init
  <2> QED
    BY <1>2, <2>1, PollerAssumption DEF Init, TypeOK, Locals, Polling
<1>4. ClockInv /\ TextInv /\ SafeInv /\ FreshInv
  BY DEF Init, ClockInv, TextInv, SafeInv, SeenWasReceived, FreshInv
<1>5. RowsInv /\ NoTiesInv
  BY DEF Init, RowsInv, NoTiesInv, Stamps, InHand, Handling, NoEntry
<1>6. SendsInv
  BY DEF Init, SendsInv
<1>7. ListingInv /\ EntryInv /\ HandledInv /\ CursorInv /\ NothingIsSkipped
  BY DEF Init, ListingInv, EntryInv, Handling, HandledInv, CursorInv, NothingIsSkipped, Publishable
<1> QED
  BY <1>3, <1>4, <1>5, <1>6, <1>7 DEF GBrainInv, TypedInv, SkipInv

\* Every step of GBrain and its connector keeps it.
LEMMA GBrainStep == GBrainInv /\ [Next]_vars => GBrainInv'
<1> SUFFICES ASSUME GBrainInv, [Next]_vars PROVE GBrainInv'
  OBVIOUS
<1>1. TypedInv' /\ SendsInv'
  BY TypedNext, SendsNext DEF GBrainInv
<1>2. ASSUME Ties = FALSE PROVE SkipInv'
  <2>1. SkipInductive
    BY <1>2 DEF SkipInductive, GBrainInv
  <2>2. NoTiesInv'
    BY <1>2, NoTiesNext DEF GBrainInv, SkipInv
  <2> QED
    BY <2>1, <2>2, ListingNext, EntryNext, HandledNext, CursorNext DEF SkipInv
<1> QED
  BY <1>1, <1>2 DEF GBrainInv

\* What the invariant says of the properties.
LEMMA GBrainMeans ==
  ASSUME GBrainInv
  PROVE  TypeOK /\ RepeatsNeedFaults /\ SeenWasReceived /\ (Ties = FALSE => NothingIsSkipped)
<1>1. ASSUME Cardinality(received) <= SeenLimit, NEW k \in Keys PROVE sends[k] <= 1 + faults
  <2>1. sends[k] <= faults + (IF k \in (IF pc = "idle" THEN checkpoint.seen ELSE seen) THEN 1 ELSE 0)
    BY <1>1 DEF GBrainInv, SendsInv
  <2>2. faults \in Int /\ sends[k] \in Int
    BY DEF GBrainInv, TypedInv, TypeOK
  <2> QED
    BY <2>1, <2>2
<1> QED
  BY <1>1 DEF GBrainInv, TypedInv, SafeInv, SkipInv, RepeatsNeedFaults

----------------------------------------------------------------------------
(* The other two. *)

MulticaProofs ==
  INSTANCE MarkerPollersProofs WITH
    Items <- Runs, Sources <- {1, 2}, SourceOf <- [r \in Runs |-> IF r = 3 THEN 2 ELSE 1], Program <- "multica",
    ListLimit <- PageLimit, InitialLimit <- 1

ReleasesProofs ==
  INSTANCE MarkerPollersProofs WITH
    Items <- Runs, Sources <- {1}, SourceOf <- [r \in Runs |-> 1], Program <- "releases",
    ListLimit <- PageLimit, InitialLimit <- 1

\* MulticaProofs and ReleasesProofs are about the connectors of MCConnectors:
\* what they call by the same name is the same.
LEMMA MulticaSame ==
  /\ MulticaProofs!MarkerAssumption
  /\ Multica!Init <=> MulticaProofs!Init
  /\ Multica!Next <=> MulticaProofs!Next
<1>1. MulticaProofs!MarkerAssumption
  BY PollerAssumption DEF MulticaProofs!MarkerAssumption, IsFiniteSet, MulticaProofs!IsFiniteSet
<1>2. Multica!Init <=> MulticaProofs!Init
  BY DEF Multica!Init, MulticaProofs!Init, Multica!Events, MulticaProofs!Events, Multica!NoEntry,
      MulticaProofs!NoEntry
<1>3. Multica!Next <=> MulticaProofs!Next
  BY DEF Multica!Next, MulticaProofs!Next, Multica!Poll, MulticaProofs!Poll, Multica!Load,
      MulticaProofs!Load, Multica!List, MulticaProofs!List, Multica!Take, MulticaProofs!Take,
      Multica!EndOfList, MulticaProofs!EndOfList, Multica!Publish, MulticaProofs!Publish,
      Multica!PublishFails, MulticaProofs!PublishFails, Multica!Save, MulticaProofs!Save,
      Multica!Fail, MulticaProofs!Fail, Multica!Change, MulticaProofs!Change, Multica!Forget,
      MulticaProofs!Forget, Multica!Send, MulticaProofs!Send, Multica!Page, MulticaProofs!Page,
      Multica!NewestOf, MulticaProofs!NewestOf, Multica!OldestIn, MulticaProofs!OldestIn,
      Multica!Before, MulticaProofs!Before, Multica!Known, MulticaProofs!Known, Multica!Mark,
      MulticaProofs!Mark, Multica!SetOf, MulticaProofs!SetOf, Multica!Releases,
      MulticaProofs!Releases, Multica!NoEntry, MulticaProofs!NoEntry, Multica!Events,
      MulticaProofs!Events, Multica!service, MulticaProofs!service, Multica!locals,
      MulticaProofs!locals, Multica!vars, MulticaProofs!vars, Multica!Cardinality,
      MulticaProofs!Cardinality
<1> QED
  BY <1>1, <1>2, <1>3

\* The invariant of the Multica instance gives its properties.
LEMMA MulticaMeans ==
  ASSUME MulticaProofs!MarkerInv
  PROVE  Multica!TypeOK /\ Multica!CheckpointIsSafe /\ Multica!RepeatsNeedFaults
<1>1. MulticaProofs!TypeOK /\ MulticaProofs!CheckpointIsSafe /\ MulticaProofs!RepeatsNeedFaults
  BY MulticaSame, MulticaProofs!MarkerMeans
<1>2. MulticaProofs!TypeOK => Multica!TypeOK
  BY DEF Multica!TypeOK, MulticaProofs!TypeOK, Multica!Events, MulticaProofs!Events,
      Multica!NoEntry, MulticaProofs!NoEntry
<1>3. MulticaProofs!CheckpointIsSafe => Multica!CheckpointIsSafe
  BY DEF Multica!CheckpointIsSafe, MulticaProofs!CheckpointIsSafe, Multica!SetOf, MulticaProofs!SetOf
<1>4. MulticaProofs!RepeatsNeedFaults => Multica!RepeatsNeedFaults
  BY DEF Multica!RepeatsNeedFaults, MulticaProofs!RepeatsNeedFaults, Multica!Events,
      MulticaProofs!Events, Multica!Cardinality, MulticaProofs!Cardinality
<1> QED
  BY <1>1, <1>2, <1>3, <1>4

\* The same of the release instance.
LEMMA ReleasesSame ==
  /\ ReleasesProofs!MarkerAssumption
  /\ Releases!Init <=> ReleasesProofs!Init
  /\ Releases!Next <=> ReleasesProofs!Next
<1>1. ReleasesProofs!MarkerAssumption
  BY PollerAssumption DEF ReleasesProofs!MarkerAssumption, IsFiniteSet, ReleasesProofs!IsFiniteSet
<1>2. Releases!Init <=> ReleasesProofs!Init
  BY DEF Releases!Init, ReleasesProofs!Init, Releases!Events, ReleasesProofs!Events,
      Releases!NoEntry, ReleasesProofs!NoEntry
<1>3. Releases!Next <=> ReleasesProofs!Next
  BY DEF Releases!Next, ReleasesProofs!Next, Releases!Poll, ReleasesProofs!Poll, Releases!Load,
      ReleasesProofs!Load, Releases!List, ReleasesProofs!List, Releases!Take, ReleasesProofs!Take,
      Releases!EndOfList, ReleasesProofs!EndOfList, Releases!Publish, ReleasesProofs!Publish,
      Releases!PublishFails, ReleasesProofs!PublishFails, Releases!Save, ReleasesProofs!Save,
      Releases!Fail, ReleasesProofs!Fail, Releases!Change, ReleasesProofs!Change, Releases!Forget,
      ReleasesProofs!Forget, Releases!Send, ReleasesProofs!Send, Releases!Page, ReleasesProofs!Page,
      Releases!NewestOf, ReleasesProofs!NewestOf, Releases!OldestIn, ReleasesProofs!OldestIn,
      Releases!Before, ReleasesProofs!Before, Releases!Known, ReleasesProofs!Known, Releases!Mark,
      ReleasesProofs!Mark, Releases!SetOf, ReleasesProofs!SetOf, Releases!Releases,
      ReleasesProofs!Releases, Releases!NoEntry, ReleasesProofs!NoEntry, Releases!Events,
      ReleasesProofs!Events, Releases!service, ReleasesProofs!service, Releases!locals,
      ReleasesProofs!locals, Releases!vars, ReleasesProofs!vars, Releases!Cardinality,
      ReleasesProofs!Cardinality
<1> QED
  BY <1>1, <1>2, <1>3

\* The invariant of the release instance gives its properties.
LEMMA ReleasesMeans ==
  ASSUME ReleasesProofs!MarkerInv
  PROVE  Releases!TypeOK /\ Releases!CheckpointIsSafe /\ Releases!RepeatsNeedFaults
<1>1. ReleasesProofs!TypeOK /\ ReleasesProofs!CheckpointIsSafe /\ ReleasesProofs!RepeatsNeedFaults
  BY ReleasesSame, ReleasesProofs!MarkerMeans
<1>2. ReleasesProofs!TypeOK => Releases!TypeOK
  BY DEF Releases!TypeOK, ReleasesProofs!TypeOK, Releases!Events, ReleasesProofs!Events,
      Releases!NoEntry, ReleasesProofs!NoEntry
<1>3. ReleasesProofs!CheckpointIsSafe => Releases!CheckpointIsSafe
  BY DEF Releases!CheckpointIsSafe, ReleasesProofs!CheckpointIsSafe, Releases!SetOf, ReleasesProofs!SetOf
<1>4. ReleasesProofs!RepeatsNeedFaults => Releases!RepeatsNeedFaults
  BY DEF Releases!RepeatsNeedFaults, ReleasesProofs!RepeatsNeedFaults, Releases!Events,
      ReleasesProofs!Events, Releases!Cardinality, ReleasesProofs!Cardinality
<1> QED
  BY <1>1, <1>2, <1>3, <1>4

----------------------------------------------------------------------------
(* The theorems. *)

EachInv ==
  \/ program = "gbrain" /\ GBrainInv
  \/ program = "multica" /\ MulticaProofs!MarkerInv
  \/ program = "releases" /\ ReleasesProofs!MarkerInv

\* A behaviour is that of one of the three and keeps the invariant of that one.
LEMMA EachStart == EachInit => EachInv
BY GBrainStart, MulticaSame, MulticaProofs!MarkerStart, ReleasesSame, ReleasesProofs!MarkerStart DEF EachInit, EachInv

LEMMA EachStep == EachInv /\ [EachNext]_union => EachInv'
<1> SUFFICES ASSUME EachInv, [EachNext]_union PROVE EachInv'
  OBVIOUS
<1>1. program' = program
  BY DEF EachNext, union
<1>2. CASE program = "gbrain"
  <2>1. [Next]_vars
    BY <1>2 DEF EachNext, union
  <2> QED
    BY <1>1, <1>2, <2>1, GBrainStep DEF EachInv
<1>3. CASE program = "multica"
  <2>1. Multica!Next \/ UNCHANGED <<vars, others>>
    BY <1>3 DEF EachNext, union
  <2>2. UNCHANGED <<vars, others>> => UNCHANGED MulticaProofs!vars
    BY DEF vars, gbrain, locals, others, MulticaProofs!vars, MulticaProofs!service, MulticaProofs!locals
  <2>3. MulticaProofs!MarkerInv'
    BY <1>3, <2>1, <2>2, MulticaSame, MulticaProofs!MarkerStep DEF EachInv
  <2> QED
    BY <1>1, <1>3, <2>3 DEF EachInv
<1>4. CASE program = "releases"
  <2>1. Releases!Next \/ UNCHANGED <<vars, others>>
    BY <1>4 DEF EachNext, union
  <2>2. UNCHANGED <<vars, others>> => UNCHANGED ReleasesProofs!vars
    BY DEF vars, gbrain, locals, others, ReleasesProofs!vars, ReleasesProofs!service, ReleasesProofs!locals
  <2>3. ReleasesProofs!MarkerInv'
    BY <1>4, <2>1, <2>2, ReleasesSame, ReleasesProofs!MarkerStep DEF EachInv
  <2> QED
    BY <1>1, <1>4, <2>3 DEF EachInv
<1> QED
  BY <1>2, <1>3, <1>4 DEF EachInv

\* The invariant of the union holds always.
LEMMA EachAlways == EachSpec => []EachInv
BY EachStart, EachStep, PTL DEF EachSpec

\* The variables of each connector keep their types.
THEOREM ConnectorsAreTyped == EachSpec => []EachTypeOK
<1>1. EachInv => EachTypeOK
  BY GBrainMeans, MulticaMeans, ReleasesMeans DEF EachInv, EachTypeOK
<1> QED
  BY <1>1, EachAlways, PTL

\* No saved checkpoint claims what PulseRelay has not got, whatever changes
\* in the services between two calls and wherever a poll fails, if no two
\* runs of GBrain carry the same timestamp.
THEOREM NoWorkIsSkipped == Ties = FALSE => (EachSpec => []CheckpointsAreSafe)
<1> SUFFICES ASSUME Ties = FALSE PROVE EachSpec => []CheckpointsAreSafe
  OBVIOUS
<1>1. EachInv => CheckpointsAreSafe
  BY GBrainMeans, MulticaMeans, ReleasesMeans DEF EachInv, CheckpointsAreSafe
<1> QED
  BY <1>1, EachAlways, PTL

\* As long as the keys fit into a checkpoint, an event is published again only
\* after a failure, with equal timestamps too.
THEOREM RepeatsAreFaults == EachSpec => []RepeatsNeedFaultsEach
<1>1. EachInv => RepeatsNeedFaultsEach
  BY GBrainMeans, MulticaMeans, ReleasesMeans DEF EachInv, RepeatsNeedFaultsEach
<1> QED
  BY <1>1, EachAlways, PTL
=============================================================================
