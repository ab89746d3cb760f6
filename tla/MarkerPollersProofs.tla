------------------------- MODULE MarkerPollersProofs -------------------------
(***************************************************************************)
(* The two connectors with markers, for any items, sources and limits: the *)
(* types, that a checkpoint claims nothing that PulseRelay has not got,    *)
(* and that an event is sent again only after a failure.  They are stated  *)
(* of Spec under MarkerAssumption, since each connector is an instance.    *)
(***************************************************************************)
EXTENDS MarkerPollers, FiniteSetTheorems, FunctionTheorems, SequenceTheorems, TLAPS

\* A change moves the clock, so no item is younger than the last change.
ClockInv == now = changes /\ \A i \in Items : time[i] <= now

\* What is marked was taken.
SafeInv == SetOf(checkpoint) \subseteq received /\ SetOf(seen) \subseteq received

\* The listed items that are not yet marked; the one in hand is of Events.
InHand == IF pc = "publish" THEN {entry} ELSE {}
Listed == items \cup InHand

\* No marker and no listed item is ahead of the item as it is now.
StampInv == \A x \in SetOf(checkpoint) \cup SetOf(seen) \cup Listed : x[1] <= time[x[2]]

\* A marker of the same item, as late or later: the item is not published
\* again as it was in e.
Covered(e, s) == \E m \in SetOf(s) : m[2] = e[2] /\ e[1] <= m[1]

\* What is listed is new, and one of its item: marking one of them does not
\* make another one old.
ListedInv ==
  /\ pc = "idle" => items = {}
  /\ Listed \subseteq Events
  /\ \A x \in Listed : ~Covered(x, seen)
  /\ \A x, y \in Listed : x[2] = y[2] => x = y
  /\ InHand \cap items = {}

Ids    == {e[2] : e \in received}
Within == Cardinality(Ids) <= SeenLimit

\* A release is saved at once: the poll works on what is saved.
SavedInv ==
  Within /\ Releases /\ pc \in {"list", "next", "publish"} => SetOf(seen) = SetOf(checkpoint)

Marked == IF pc = "idle" THEN checkpoint ELSE seen

\* Each call of publish but one is made up for by a failure, and the one only
\* if the item is marked.
SendsInv ==
  Within => \A e \in Events : sends[e] <= faults + (IF Covered(e, Marked) THEN 1 ELSE 0)

MarkerInv ==
  TypeOK /\ ClockInv /\ SafeInv /\ StampInv /\ ListedInv /\ SavedInv /\ SendsInv

----------------------------------------------------------------------------
(* Markers. *)

\* One marker per item.
Unique(s) == \A i, j \in DOMAIN s : i # j => s[i][2] # s[j][2]

\* A mark takes the place of that of the same item, or the next one.
LEMMA MarkIs ==
  ASSUME NEW s \in Seq(Events), Unique(s), NEW x \in Events
  PROVE  /\ Mark(s, x) \in Seq(Events) /\ Unique(Mark(s, x))
         /\ x \in SetOf(Mark(s, x))
         /\ SetOf(Mark(s, x)) \subseteq SetOf(s) \cup {x}
         /\ \A m \in SetOf(s) : m[2] # x[2] => m \in SetOf(Mark(s, x))
<1>1. DOMAIN s = 1..Len(s) /\ Len(s) \in Nat /\ \A i \in 1..Len(s) : s[i] \in Events
  BY LenProperties, ElementOfSeq
<1>2. CASE \E i \in DOMAIN s : s[i][2] = x[2]
  <2> DEFINE t == [i \in 1..Len(s) |-> IF s[i][2] = x[2] THEN x ELSE s[i]]
  <2>1. Mark(s, x) = t
    BY <1>1, <1>2 DEF Mark
  <2>2. \A i \in 1..Len(s) : t[i] \in Events /\ t[i][2] = s[i][2]
    BY <1>1
  <2>3. t \in Seq(Events) /\ DOMAIN t = 1..Len(s)
    <3>1. t \in [1..Len(s) -> Events]
      BY <2>2
    <3> QED
      BY <3>1, <1>1, SeqDef
  <2>4. Unique(t)
    BY <2>2, <2>3, <1>1 DEF Unique
  <2>5. x \in SetOf(t) /\ SetOf(t) \subseteq SetOf(s) \cup {x}
    BY <1>1, <1>2, <2>3 DEF SetOf
  <2>6. \A m \in SetOf(s) : m[2] # x[2] => m \in SetOf(t)
    BY <1>1, <2>3 DEF SetOf
  <2> QED
    BY <2>1, <2>3, <2>4, <2>5, <2>6
<1>3. CASE ~ \E i \in DOMAIN s : s[i][2] = x[2]
  <2> DEFINE t == Append(s, x)
  <2>1. Mark(s, x) = t
    BY <1>3 DEF Mark
  <2>2. /\ t \in Seq(Events) /\ DOMAIN t = 1..(Len(s) + 1)
        /\ t[Len(s) + 1] = x /\ \A i \in 1..Len(s) : t[i] = s[i]
    BY <1>1, AppendProperties, LenProperties
  <2> HIDE DEF t
  <2>3. \A i \in 1..(Len(s) + 1) : i = Len(s) + 1 \/ i \in 1..Len(s)
    BY <1>1
  <2>4. Unique(t)
    BY <2>2, <2>3, <1>1, <1>3 DEF Unique
  <2>5. x \in SetOf(t) /\ SetOf(t) \subseteq SetOf(s) \cup {x} /\ SetOf(s) \subseteq SetOf(t)
    BY <1>1, <2>2, <2>3 DEF SetOf
  <2> QED
    BY <2>1, <2>2, <2>4, <2>5
<1> QED
  BY <1>2, <1>3

\* What is published was not marked as it is, so the mark covers at least
\* what was covered, and the entry.
LEMMA MarkCovers ==
  ASSUME NEW s \in Seq(Events), Unique(s), NEW x \in Events, ~Covered(x, s), MarkerAssumption
  PROVE  /\ Covered(x, Mark(s, x))
         /\ \A e \in Events : Covered(e, s) => Covered(e, Mark(s, x))
         /\ \A e \in Events : Covered(e, Mark(s, x)) => Covered(e, s) \/ e[2] = x[2]
<1>1. SetOf(s) \subseteq Events
  BY LenProperties, ElementOfSeq DEF SetOf
<1>2. \A e \in Events : e[1] \in Int
  BY DEF Events, MarkerAssumption
<1>3. Covered(x, Mark(s, x))
  <2>1. x[1] <= x[1]
    BY <1>2
  <2> QED
    BY <2>1, MarkIs DEF Covered
<1>4. ASSUME NEW e \in Events, Covered(e, s) PROVE Covered(e, Mark(s, x))
  <2>1. PICK m \in SetOf(s) : m[2] = e[2] /\ e[1] <= m[1]
    BY <1>4 DEF Covered
  <2>2. CASE m[2] # x[2]
    BY <2>1, <2>2, MarkIs DEF Covered
  <2>3. CASE m[2] = x[2]
    <3>1. m[1] < x[1]
      BY <1>1, <1>2, <2>3 DEF Covered
    <3>2. e[1] <= x[1] /\ x[2] = e[2]
      BY <1>1, <1>2, <2>1, <2>3, <3>1
    <3> QED
      BY <3>2, MarkIs DEF Covered
  <2> QED
    BY <2>2, <2>3
<1>5. \A e \in Events : Covered(e, Mark(s, x)) => Covered(e, s) \/ e[2] = x[2]
  BY MarkIs DEF Covered
<1> QED
  BY <1>3, <1>4, <1>5

\* A checkpoint has room for the markers of what was taken, if the items of
\* that are not too many.
LEMMA MarkersFit ==
  ASSUME MarkerAssumption, NEW s \in Seq(Events), Unique(s), SetOf(s) \subseteq received,
         received \subseteq Events, Within
  PROVE  Len(s) <= SeenLimit
<1>1. DOMAIN s = 1..Len(s) /\ Len(s) \in Nat /\ \A i \in 1..Len(s) : s[i] \in Events
  BY LenProperties, ElementOfSeq
<1>2. Ids \subseteq Items /\ IsFiniteSet(Ids)
  <2>1. Ids \subseteq Items
    BY DEF Ids, Events
  <2> QED
    BY <2>1, FS_Subset DEF MarkerAssumption
<1> DEFINE f == [i \in 1..Len(s) |-> s[i][2]]
<1>3. f \in [1..Len(s) -> Ids]
  BY <1>1 DEF Ids, SetOf
<1>4. \A i, j \in 1..Len(s) : f[i] = f[j] => i = j
  BY <1>1 DEF Unique
<1>5. f \in Injection(1..Len(s), Ids)
  <2> HIDE DEF f
  <2> QED
    BY <1>3, <1>4, Fun_IsInj
<1>6. Cardinality(1..Len(s)) <= Cardinality(Ids)
  <2> HIDE DEF f
  <2> QED
    BY <1>2, <1>5, FS_Injection
<1>7. Cardinality(1..Len(s)) = Len(s)
  <2>1. Cardinality(1..Len(s)) = IF 1 > Len(s) THEN 0 ELSE Len(s) - 1 + 1
    BY <1>1, FS_Interval
  <2> QED
    BY <1>1, <2>1
<1>8. Cardinality(Ids) \in Nat
  BY <1>2, FS_CardinalityType
<1> QED
  BY <1>1, <1>6, <1>7, <1>8 DEF Within, MarkerAssumption

\* The markers of a checkpoint that is saved: those of the poll, all of them
\* if they fit.
LEMMA KeptIs ==
  ASSUME MarkerAssumption, seen \in Seq(Events), Unique(seen), Save
  PROVE  /\ checkpoint' \in Seq(Events) /\ Unique(checkpoint') /\ Len(checkpoint') <= SeenLimit
         /\ SetOf(checkpoint') \subseteq SetOf(seen)
         /\ Len(seen) <= SeenLimit => SetOf(checkpoint') = SetOf(seen)
<1>1. DOMAIN seen = 1..Len(seen) /\ Len(seen) \in Nat /\ \A i \in 1..Len(seen) : seen[i] \in Events
  BY LenProperties, ElementOfSeq
<1> DEFINE n == IF Len(seen) <= SeenLimit THEN Len(seen) ELSE SeenLimit
<1>2. n \in Nat /\ n <= SeenLimit
  BY <1>1 DEF MarkerAssumption
<1>3. PICK kept \in [1..n -> DOMAIN seen] :
        /\ \A i, j \in 1..n : i < j => kept[i] < kept[j]
        /\ checkpoint' = [i \in 1..n |-> seen[kept[i]]]
  BY DEF Save
<1> HIDE DEF n
<1>4. checkpoint' \in [1..n -> Events]
  BY <1>1, <1>3
<1>5. checkpoint' \in Seq(Events) /\ DOMAIN checkpoint' = 1..n
  BY <1>2, <1>4, SeqDef
<1>6. Len(checkpoint') = n
  BY <1>2, <1>5, LenProperties
<1>7. \A i, j \in 1..n : kept[i] = kept[j] => i = j
  <2> SUFFICES ASSUME NEW i \in 1..n, NEW j \in 1..n, kept[i] = kept[j] PROVE i = j
    OBVIOUS
  <2>1. kept[i] \in Int /\ kept[j] \in Int
    BY <1>1, <1>3
  <2>2. ~(i < j) /\ ~(j < i)
    BY <1>3, <2>1
  <2> QED
    BY <2>2, <1>2
<1>8. Unique(checkpoint')
  BY <1>3, <1>5, <1>7 DEF Unique
<1>9. SetOf(checkpoint') \subseteq SetOf(seen)
  BY <1>3, <1>5 DEF SetOf
<1>10. ASSUME Len(seen) <= SeenLimit PROVE SetOf(seen) \subseteq SetOf(checkpoint')
  <2>1. n = Len(seen)
    BY <1>10 DEF n
  <2>2. kept \in Injection(1..n, 1..n)
    BY <1>1, <1>3, <1>7, <2>1, Fun_IsInj
  <2>3. kept \in Surjection(1..n, 1..n)
    BY <1>2, <2>2, FS_Injection, FS_Interval
  <2>4. \A i \in 1..n : \E j \in 1..n : kept[j] = i
    BY <2>3 DEF Surjection
  <2>5. ASSUME NEW i \in 1..n PROVE \E j \in 1..n : checkpoint'[j] = seen[i]
    BY <1>3, <2>4
  <2>6. DOMAIN checkpoint' = 1..n /\ DOMAIN seen = 1..n
    BY <1>1, <1>5, <2>1
  <2> QED
    BY <2>5, <2>6 DEF SetOf
<1> QED
  BY <1>2, <1>5, <1>6, <1>8, <1>9, <1>10

----------------------------------------------------------------------------
(* Type correctness. *)

\* What a list of markers holds is typed.
LEMMA MarkersTyped ==
  ASSUME TypeOK
  PROVE  /\ checkpoint \in Seq(Events) /\ Unique(checkpoint)
         /\ seen \in Seq(Events) /\ Unique(seen)
         /\ SetOf(checkpoint) \subseteq Events /\ SetOf(seen) \subseteq Events
<1>1. checkpoint \in Seq(Events) /\ Unique(checkpoint) /\ seen \in Seq(Events) /\ Unique(seen)
  BY DEF TypeOK, Unique
<1>2. ASSUME NEW s \in Seq(Events) PROVE SetOf(s) \subseteq Events
  BY LenProperties, ElementOfSeq DEF SetOf
<1> QED
  BY <1>1, <1>2

LEMMA NothingMarked ==
  <<>> \in Seq(Events) /\ Unique(<<>>) /\ SetOf(<<>>) = {}
<1>1. <<>> \in Seq(Events) /\ DOMAIN <<>> = 1..0
  BY EmptySeq, LenProperties
<1> QED
  BY <1>1 DEF Unique, SetOf

\* A listing consists of items as they are now.
LEMMA PageIs ==
  ASSUME MarkerAssumption, TypeOK, NEW src, NEW x \in Page(src)
  PROVE  x \in Events /\ x[1] = time[x[2]]
<1>1. PICK i \in Items : time[i] > 0 /\ x = <<time[i], i>>
  BY DEF Page, NewestOf
<1>2. time[i] \in 1..MaxChanges
  BY <1>1 DEF TypeOK, MarkerAssumption
<1> QED
  BY <1>1, <1>2 DEF Events

\* What a poll lists is new.
LEMMA ListIs ==
  ASSUME MarkerAssumption, TypeOK, List
  PROVE  /\ items' \subseteq Events
         /\ \A x \in items' : x[1] = time[x[2]] /\ ~Known(x, seen)
<1>1. PICK src \in sources :
        LET unseen == {x \in Page(src) : done[x[2]] /\ ~Known(x, seen)}
        IN  items' = IF Releases /\ checkpoint = <<>> THEN NewestOf(InitialLimit, unseen) ELSE unseen
  BY DEF List
<1>2. items' \subseteq {x \in Page(src) : done[x[2]] /\ ~Known(x, seen)}
  BY <1>1 DEF NewestOf
<1> QED
  BY <1>2, PageIs

\* Each call, failure and change keeps every variable typed, and the clock at
\* the number of changes.
LEMMA TypeNext ==
  ASSUME MarkerAssumption, TypeOK, ClockInv, ListedInv, [Next]_vars
  PROVE  TypeOK' /\ ClockInv'
<1> DEFINE Service == /\ now \in 0..MaxChanges /\ changes \in 0..MaxChanges /\ ClockInv
                      /\ time \in [Items -> 0..MaxChanges] /\ done \in [Items -> BOOLEAN]
<1> DEFINE Taken   == received \subseteq Events /\ sends \in [Events -> 0..2 + MaxFaults]
<1> DEFINE Local   == /\ pc \in {"idle", "list", "next", "publish", "save"}
                      /\ sources \subseteq Sources /\ items \subseteq Events
                      /\ entry \in Events \cup {NoEntry} /\ faults \in 0..MaxFaults
<1>1. Service' /\ Taken' /\ Local' /\ Unique(checkpoint') /\ Unique(seen') /\
      checkpoint' \in Seq(Events) /\ seen' \in Seq(Events) /\ Len(checkpoint') <= SeenLimit => TypeOK' /\ ClockInv'
  BY DEF TypeOK, Unique
<1>2. Service /\ Taken /\ Local /\ Len(checkpoint) <= SeenLimit
  BY DEF TypeOK
<1>3. ASSUME Service, UNCHANGED service PROVE Service'
  BY <1>3 DEF service, ClockInv
<1> USE MarkersTyped, NothingMarked
<1>4. ASSUME Forget PROVE /\ sources' \subseteq Sources /\ items' \subseteq Events
                          /\ entry' \in Events \cup {NoEntry} /\ Unique(seen') /\ seen' \in Seq(Events)
  BY <1>4 DEF Forget
<1>5. ASSUME Send, entry \in Events PROVE sends' \in [Events -> 0..2 + MaxFaults]
  <2>1. sends[entry] \in 0..2 + MaxFaults /\ MaxFaults \in Nat
    BY <1>2, <1>5 DEF MarkerAssumption
  <2>2. (IF sends[entry] > 1 + MaxFaults THEN sends[entry] ELSE sends[entry] + 1) \in 0..2 + MaxFaults
    BY <2>1
  <2> QED
    BY <1>2, <1>5, <2>2 DEF Send
<1>6. pc = "publish" => entry \in Events
  BY DEF ListedInv, Listed, InHand
<1>7. ASSUME faults' = faults + 1, faults < MaxFaults PROVE faults' \in 0..MaxFaults
  BY <1>2, <1>7 DEF MarkerAssumption
<1>8. CASE Load
  BY <1>1, <1>2, <1>3, <1>8 DEF Load
<1>9. CASE List
  BY <1>1, <1>2, <1>3, <1>9, ListIs DEF List
<1>10. CASE Take
  BY <1>1, <1>2, <1>3, <1>10 DEF Take
<1>11. CASE EndOfList
  BY <1>1, <1>2, <1>3, <1>4, <1>11 DEF EndOfList, locals
<1>12. CASE Publish
  BY <1>1, <1>2, <1>3, <1>5, <1>6, <1>12, MarkIs DEF Publish
<1>13. CASE PublishFails
  BY <1>1, <1>2, <1>3, <1>4, <1>5, <1>6, <1>7, <1>13 DEF PublishFails
<1>14. CASE Save
  <2>1. checkpoint' \in Seq(Events) /\ Unique(checkpoint') /\ Len(checkpoint') <= SeenLimit
    BY <1>14, KeptIs
  <2>2. Local' /\ Taken' /\ Unique(seen') /\ seen' \in Seq(Events)
    BY <1>2, <1>4, <1>14 DEF Save, locals
  <2> QED
    BY <1>1, <1>2, <1>3, <1>14, <2>1, <2>2 DEF Save
<1>15. CASE Fail
  BY <1>1, <1>2, <1>3, <1>4, <1>7, <1>15 DEF Fail
<1>16. ASSUME NEW i \in Items, Change(i) PROVE TypeOK' /\ ClockInv'
  <2>1. Service'
    <3>1. now + 1 \in 0..MaxChanges /\ now' = now + 1 /\ changes' = changes + 1
      BY <1>2, <1>16 DEF Change, MarkerAssumption, ClockInv
    <3>2. time' \in [Items -> 0..MaxChanges]
      BY <1>2, <1>16, <3>1 DEF Change
    <3>3. done' \in [Items -> BOOLEAN]
      BY <1>2, <1>16 DEF Change
    <3>4. \A k \in Items : time'[k] <= now'
      BY <1>2, <1>16, <3>1 DEF Change, ClockInv
    <3> QED
      BY <1>2, <3>1, <3>2, <3>3, <3>4 DEF ClockInv
  <2> QED
    BY <1>1, <1>2, <1>16, <2>1 DEF Change, locals
<1>17. CASE UNCHANGED vars
  BY <1>1, <1>2, <1>3, <1>17 DEF vars, locals
<1> QED
  BY <1>8, <1>9, <1>10, <1>11, <1>12, <1>13, <1>14, <1>15, <1>16, <1>17 DEF Next, Poll

----------------------------------------------------------------------------
(* Checkpoints, and what is listed. *)

\* The end of a poll.
LEMMA ForgetIs ==
  ASSUME Forget, pc' = "idle"
  PROVE  Listed' = {} /\ SetOf(seen') = {} /\ items' = {} /\ InHand' = {}
BY NothingMarked DEF Forget, Listed, InHand

\* A key is marked only when its event was taken.
LEMMA SafeNext ==
  ASSUME MarkerAssumption, MarkerInv, [Next]_vars
  PROVE  SafeInv'
<1> USE MarkersTyped DEF MarkerInv
<1>1. CASE Load
  BY <1>1 DEF Load, SafeInv
<1>2. CASE List \/ Take
  BY <1>2 DEF List, Take, SafeInv
<1>3. CASE EndOfList
  BY <1>3, ForgetIs DEF EndOfList, SafeInv, locals
<1>4. CASE Publish
  <2>1. entry \in Events
    BY <1>4 DEF Publish, ListedInv, Listed, InHand
  <2>2. SetOf(seen') \subseteq SetOf(seen) \cup {entry}
    BY <1>4, <2>1, MarkIs DEF Publish
  <2> QED
    BY <1>4, <2>2 DEF Publish, SafeInv
<1>5. CASE PublishFails \/ Fail
  BY <1>5, ForgetIs DEF PublishFails, Fail, SafeInv
<1>6. CASE Save
  BY <1>6, KeptIs, ForgetIs DEF Save, SafeInv, locals
<1>7. ASSUME NEW i \in Items, Change(i) PROVE SafeInv'
  BY <1>7 DEF Change, SafeInv, locals
<1>8. CASE UNCHANGED vars
  BY <1>8 DEF vars, locals, SafeInv
<1> QED
  BY <1>1, <1>2, <1>3, <1>4, <1>5, <1>6, <1>7, <1>8 DEF Next, Poll

\* Stamps are taken from the items, whose times only grow.
LEMMA StampNext ==
  ASSUME MarkerAssumption, MarkerInv, [Next]_vars
  PROVE  StampInv'
<1> USE MarkersTyped DEF MarkerInv
<1> DEFINE Marks == SetOf(checkpoint) \cup SetOf(seen) \cup Listed
<1>1. ASSUME Marks' \subseteq Marks, time' = time PROVE StampInv'
  BY <1>1 DEF StampInv
<1>2. CASE Load
  BY <1>1, <1>2 DEF Load, service, Listed, InHand
<1>3. CASE List
  <2>1. \A x \in items' : x[1] = time[x[2]] /\ x \in Events
    BY <1>3, ListIs
  <2>2. \A x \in items' : x[1] <= time[x[2]]
    BY <2>1 DEF Events, MarkerAssumption
  <2>3. Listed' = items' /\ time' = time /\ seen' = seen /\ checkpoint' = checkpoint
    BY <1>3 DEF List, Listed, InHand, service
  <2> QED
    BY <2>2, <2>3 DEF StampInv
<1>4. CASE Take
  BY <1>1, <1>4 DEF Take, service, Listed, InHand
<1>5. CASE EndOfList
  BY <1>1, <1>5, ForgetIs DEF EndOfList, service, locals, Listed, InHand
<1>6. CASE Publish
  <2>1. entry \in Events /\ entry \in Listed
    BY <1>6 DEF Publish, ListedInv, Listed, InHand
  <2>2. SetOf(seen') \subseteq SetOf(seen) \cup {entry}
    BY <1>6, <2>1, MarkIs DEF Publish
  <2>3. Listed' \subseteq Listed /\ checkpoint' = checkpoint /\ time' = time
    BY <1>6 DEF Publish, Listed, InHand, service
  <2> QED
    BY <1>1, <2>1, <2>2, <2>3
<1>7. CASE PublishFails \/ Fail
  BY <1>1, <1>7, ForgetIs DEF PublishFails, Fail, service
<1>8. CASE Save
  <2>1. SetOf(checkpoint') \subseteq SetOf(seen) /\ SetOf(seen') \subseteq SetOf(seen)
    BY <1>8, KeptIs, ForgetIs DEF Save, locals
  <2>2. Listed' \subseteq Listed /\ time' = time
    BY <1>8, ForgetIs DEF Save, Listed, InHand, service, locals
  <2> QED
    BY <1>1, <2>1, <2>2
<1>9. ASSUME NEW i \in Items, Change(i) PROVE StampInv'
  <2>1. checkpoint' = checkpoint /\ seen' = seen /\ Listed' = Listed
    BY <1>9 DEF Change, locals, Listed, InHand
  <2>2. Marks \subseteq Events
    BY DEF ListedInv
  <2>3. ASSUME NEW k \in Items PROVE time[k] <= time'[k] /\ time[k] \in Int /\ time'[k] \in Int
    BY <1>9 DEF Change, TypeOK, ClockInv
  <2>4. ASSUME NEW x \in Marks PROVE x[1] <= time'[x[2]]
    <3>1. x[1] <= time[x[2]] /\ x[1] \in Int /\ x[2] \in Items
      BY <2>2, <2>4 DEF StampInv, Events
    <3> QED
      BY <2>3, <3>1
  <2> QED
    BY <2>1, <2>4 DEF StampInv
<1>10. CASE UNCHANGED vars
  BY <1>1, <1>10 DEF vars, locals, service, Listed, InHand
<1> QED
  BY <1>2, <1>3, <1>4, <1>5, <1>6, <1>7, <1>8, <1>9, <1>10 DEF Next, Poll

\* What a listing returns that is not known is not covered by a marker.
LEMMA ListUncovered ==
  ASSUME MarkerAssumption, MarkerInv, List
  PROVE  \A x \in items' : ~Covered(x, seen)
<1> SUFFICES ASSUME NEW x \in items', NEW m \in SetOf(seen), m[2] = x[2], x[1] <= m[1] PROVE FALSE
  BY DEF Covered
<1> USE MarkersTyped DEF MarkerInv
<1>1. x \in Events /\ x[1] = time[x[2]] /\ ~Known(x, seen) /\ m \in Events
  BY ListIs
<1>2. m[1] <= time[m[2]]
  BY DEF StampInv
<1>3. m[1] = x[1]
  BY <1>1, <1>2 DEF Events, TypeOK
<1>4. m = x
  BY <1>1, <1>3 DEF Events
<1> QED
  BY <1>1, <1>4 DEF Known

\* What is listed stays new until it is marked.
LEMMA ListedNext ==
  ASSUME MarkerAssumption, MarkerInv, [Next]_vars
  PROVE  ListedInv'
<1> USE MarkersTyped DEF MarkerInv
<1>1. ASSUME Listed' = Listed, seen' = seen, InHand' = InHand, items' = items, pc' = "idle" => pc = "idle" PROVE ListedInv'
  BY <1>1 DEF ListedInv, Covered
<1>2. ASSUME Listed' = {} PROVE ListedInv'
  BY <1>2 DEF ListedInv, Listed
<1>3. CASE Load
  BY <1>2, <1>3 DEF Load, Listed, InHand, ListedInv
<1>4. CASE List
  <2>1. Listed' = items' /\ InHand' = {} /\ seen' = seen /\ pc' # "idle"
    BY <1>4 DEF List, Listed, InHand
  <2>2. \A x \in items' : x \in Events /\ x[1] = time[x[2]] /\ ~Covered(x, seen)
    BY <1>4, ListIs, ListUncovered
  <2>3. ASSUME NEW x \in items', NEW y \in items', x[2] = y[2] PROVE x = y
    <3>1. x \in (1..MaxChanges) \X Items /\ y \in (1..MaxChanges) \X Items
      BY <2>2 DEF Events
    <3>2. x = <<x[1], x[2]>> /\ y = <<y[1], y[2]>>
      BY <3>1
    <3>3. x[1] = y[1]
      BY <2>2, <2>3
    <3> QED
      BY <2>3, <3>2, <3>3
  <2> QED
    BY <2>1, <2>2, <2>3 DEF ListedInv, Covered
<1>5. CASE Take
  <2>1. PICK x \in items : items' = items \ {x} /\ entry' = x
    BY <1>5 DEF Take
  <2>2. InHand' = {x} /\ Listed' = Listed /\ seen' = seen /\ pc' # "idle"
    BY <1>5, <2>1 DEF Take, Listed, InHand
  <2> QED
    BY <2>1, <2>2 DEF ListedInv, Covered
<1>6. CASE EndOfList
  BY <1>2, <1>6, ForgetIs DEF EndOfList, locals, Listed, InHand
<1>7. CASE Publish
  <2>1. entry \in Events /\ ~Covered(entry, seen) /\ Listed = items \cup {entry} /\ entry \notin items
    BY <1>7 DEF Publish, ListedInv, Listed, InHand
  <2>2. seen' = Mark(seen, entry) /\ Listed' = items /\ InHand' = {} /\ items' = items /\ pc' # "idle"
    BY <1>7 DEF Publish, Listed, InHand
  <2>3. ASSUME NEW x \in items PROVE ~Covered(x, seen')
    <3>1. x \in Events /\ ~Covered(x, seen) /\ x[2] # entry[2]
      BY <2>1, <2>3 DEF ListedInv
    <3> QED
      BY <2>1, <2>2, <3>1, MarkCovers
  <2>4. ListedInv' <=> \A x \in items : x \in Events /\ ~Covered(x, seen') /\ \A y \in items : x[2] = y[2] => x = y
    BY <2>2 DEF ListedInv, Covered
  <2> QED
    BY <2>1, <2>3, <2>4 DEF ListedInv
<1>8. CASE PublishFails \/ Fail
  BY <1>2, <1>8, ForgetIs DEF PublishFails, Fail
<1>9. CASE Save
  <2>1. CASE Releases /\ items # {}
    BY <1>1, <1>9, <2>1 DEF Save, locals, Listed, InHand
  <2> QED
    BY <1>2, <1>9, <2>1, ForgetIs DEF Save
<1>10. ASSUME NEW i \in Items, Change(i) PROVE ListedInv'
  BY <1>1, <1>10 DEF Change, locals, Listed, InHand
<1>11. CASE UNCHANGED vars
  BY <1>1, <1>11 DEF vars, locals, Listed, InHand
<1> QED
  BY <1>3, <1>4, <1>5, <1>6, <1>7, <1>8, <1>9, <1>10, <1>11 DEF Next, Poll

----------------------------------------------------------------------------
(* Repeats. *)

\* What was taken is never forgotten, so what fits after a step did before it.
LEMMA WithinBefore ==
  ASSUME MarkerAssumption, TypeOK, TypeOK', [Next]_vars, Within'
  PROVE  Within
<1>1. received \subseteq received'
  BY DEF Next, Poll, Load, List, Take, EndOfList, Publish, PublishFails, Save, Fail, Change, vars
<1>2. Ids \subseteq Ids' /\ Ids' \subseteq Items
  BY <1>1 DEF Ids, TypeOK, Events
<1>3. IsFiniteSet(Ids') /\ IsFiniteSet(Ids)
  BY <1>2, FS_Subset DEF MarkerAssumption
<1>4. Cardinality(Ids) <= Cardinality(Ids')
  BY <1>2, <1>3, FS_Subset
<1>5. Cardinality(Ids) \in Nat /\ Cardinality(Ids') \in Nat
  BY <1>3, FS_CardinalityType
<1> QED
  BY <1>4, <1>5 DEF Within, MarkerAssumption

\* As long as the markers fit, a save keeps all of them.
LEMMA AllKept ==
  ASSUME MarkerAssumption, MarkerInv, Within, Save
  PROVE  SetOf(checkpoint') = SetOf(seen)
BY MarkersTyped, MarkersFit, KeptIs DEF MarkerInv, SafeInv, TypeOK

\* my-source works on what it has saved.
LEMMA SavedNext ==
  ASSUME MarkerAssumption, MarkerInv, TypeOK', [Next]_vars
  PROVE  SavedInv'
<1> USE DEF MarkerInv
<1> SUFFICES ASSUME Within', Releases, pc' \in {"list", "next", "publish"}
             PROVE  SetOf(seen') = SetOf(checkpoint')
  BY DEF SavedInv, Releases
<1>1. Within
  BY WithinBefore
<1>2. CASE Load
  BY <1>2 DEF Load
<1>3. CASE List \/ Take
  BY <1>1, <1>3 DEF List, Take, SavedInv
<1>4. CASE EndOfList
  BY <1>1, <1>4 DEF EndOfList, SavedInv, locals
<1>5. CASE Publish \/ PublishFails \/ Fail
  BY <1>5 DEF Publish, PublishFails, Fail
<1>6. CASE Save
  BY <1>1, <1>6, AllKept DEF Save, locals
<1>7. ASSUME NEW i \in Items, Change(i) PROVE SetOf(seen') = SetOf(checkpoint')
  BY <1>1, <1>7 DEF Change, SavedInv, locals
<1>8. CASE UNCHANGED vars
  BY <1>1, <1>8 DEF vars, SavedInv, locals
<1> QED
  BY <1>2, <1>3, <1>4, <1>5, <1>6, <1>7, <1>8 DEF Next, Poll

\* A call of publish, for what is not covered by the marks.
LEMMA SendIs ==
  ASSUME MarkerAssumption, MarkerInv, Send, pc = "publish"
  PROVE  /\ entry \in Events /\ ~Covered(entry, seen)
         /\ \A e \in Events : e # entry => sends'[e] = sends[e]
         /\ sends'[entry] <= sends[entry] + 1
<1> USE DEF MarkerInv
<1>1. entry \in Events /\ ~Covered(entry, seen)
  BY DEF ListedInv, Listed, InHand
<1>2. sends[entry] \in Int /\ sends \in [Events -> 0..2 + MaxFaults]
  BY <1>1 DEF TypeOK, MarkerAssumption
<1>3. \A e \in Events : e # entry => sends'[e] = sends[e]
  BY <1>2 DEF Send
<1>4. sends'[entry] = IF sends[entry] > 1 + MaxFaults THEN sends[entry] ELSE sends[entry] + 1
  BY <1>1, <1>2 DEF Send
<1> QED
  BY <1>1, <1>2, <1>3, <1>4

\* Each call of publish but the one that marked the item is made up for by a
\* failure.
LEMMA SendsNext ==
  ASSUME MarkerAssumption, MarkerInv, TypeOK', [Next]_vars
  PROVE  SendsInv'
<1> USE DEF MarkerInv
<1> SUFFICES ASSUME Within', NEW e \in Events
             PROVE  sends'[e] <= faults' + (IF Covered(e, Marked)' THEN 1 ELSE 0)
  BY DEF SendsInv
<1>1. Within
  BY WithinBefore
<1>2. sends[e] <= faults + (IF Covered(e, Marked) THEN 1 ELSE 0)
  BY <1>1 DEF SendsInv
<1>3. faults \in Int /\ sends[e] \in Int /\ MaxFaults \in Int
  BY DEF TypeOK, MarkerAssumption
<1>4. ASSUME sends' = sends, faults' = faults, Covered(e, Marked)' <=> Covered(e, Marked)
      PROVE  sends'[e] <= faults' + (IF Covered(e, Marked)' THEN 1 ELSE 0)
  BY <1>2, <1>4
<1>5. ASSUME sends' = sends, faults' = faults + 1
      PROVE  sends'[e] <= faults' + (IF Covered(e, Marked)' THEN 1 ELSE 0)
  BY <1>2, <1>3, <1>5
<1>6. ASSUME Marked' = Marked PROVE Covered(e, Marked)' <=> Covered(e, Marked)
  BY <1>6 DEF Covered
<1>7. ASSUME SetOf(Marked') = SetOf(Marked) PROVE Covered(e, Marked)' <=> Covered(e, Marked)
  BY <1>7 DEF Covered, SetOf
<1>8. CASE Load \/ List \/ Take
  BY <1>4, <1>6, <1>8 DEF Load, List, Take, Marked
<1>9. CASE EndOfList
  <2>1. CASE sources = {} /\ Releases
    <3>1. SetOf(Marked') = SetOf(Marked)
      BY <1>1, <1>9, <2>1 DEF EndOfList, Marked, SavedInv
    <3> QED
      BY <1>4, <1>7, <1>9, <3>1 DEF EndOfList
  <2>2. CASE ~(sources = {} /\ Releases)
    BY <1>4, <1>6, <1>9, <2>2 DEF EndOfList, Marked, locals
  <2> QED
    BY <2>1, <2>2
<1>10. CASE Publish
  <2>1. pc = "publish" /\ Send /\ seen' = Mark(seen, entry) /\ Marked' = seen' /\ Marked = seen /\ faults' = faults
    BY <1>10 DEF Publish, Marked
  <2>2. Covered(entry, seen') /\ (Covered(e, seen) => Covered(e, seen'))
    BY <2>1, SendIs, MarkersTyped, MarkCovers
  <2>3. CASE e = entry
    <3>1. sends[e] <= faults
      BY <1>2, <1>3, <2>1, <2>3, SendIs
    <3>2. sends'[e] <= faults + 1
      <4>1. sends'[e] <= sends[e] + 1
        BY <2>1, <2>3, SendIs
      <4>2. sends'[e] \in Int
        BY DEF TypeOK, MarkerAssumption
      <4> QED
        BY <1>3, <3>1, <4>1, <4>2
    <3>3. Covered(e, Marked)'
      BY <2>1, <2>2, <2>3 DEF Covered
    <3> QED
      BY <2>1, <3>2, <3>3
  <2>4. CASE e # entry
    <3>1. sends'[e] = sends[e]
      BY <2>1, <2>4, SendIs
    <3>2. Covered(e, Marked) => Covered(e, Marked)'
      BY <2>1, <2>2 DEF Covered
    <3> QED
      BY <1>2, <1>3, <2>1, <3>1, <3>2
  <2> QED
    BY <2>3, <2>4
<1>11. CASE PublishFails
  <2>1. pc = "publish" /\ Send /\ Marked = seen /\ faults' = faults + 1
    BY <1>11 DEF PublishFails, Marked
  <2>2. CASE e = entry
    <3>1. sends[e] <= faults
      BY <1>2, <1>3, <2>1, <2>2, SendIs
    <3>2. sends'[e] <= sends[e] + 1
      BY <2>1, <2>2, SendIs
    <3>3. sends'[e] \in Int
      BY DEF TypeOK, MarkerAssumption
    <3> QED
      BY <1>3, <2>1, <3>1, <3>2, <3>3
  <2>3. CASE e # entry
    <3>1. sends'[e] = sends[e]
      BY <2>1, <2>3, SendIs
    <3> QED
      BY <1>2, <1>3, <2>1, <3>1
  <2> QED
    BY <2>2, <2>3
<1>12. CASE Save
  <2>1. SetOf(Marked') = SetOf(Marked)
    BY <1>1, <1>12, AllKept DEF Save, Marked, locals
  <2> QED
    BY <1>4, <1>7, <1>12, <2>1 DEF Save
<1>13. CASE Fail
  BY <1>5, <1>13 DEF Fail
<1>14. ASSUME NEW i \in Items, Change(i) PROVE sends'[e] <= faults' + (IF Covered(e, Marked)' THEN 1 ELSE 0)
  BY <1>4, <1>6, <1>14 DEF Change, Marked, locals
<1>15. CASE UNCHANGED vars
  BY <1>4, <1>6, <1>15 DEF vars, Marked, locals
<1> QED
  BY <1>8, <1>9, <1>10, <1>11, <1>12, <1>13, <1>14, <1>15 DEF Next, Poll

----------------------------------------------------------------------------
(* The theorems. *)

\* MarkerInv holds at the start.
LEMMA MarkerStart ==
  ASSUME MarkerAssumption, Init
  PROVE  MarkerInv
<1> USE NothingMarked
<1>1. Listed = {} /\ SetOf(checkpoint) = {} /\ SetOf(seen) = {}
  BY DEF Init, Listed, InHand
<1>2. TypeOK
  <2>1. Len(checkpoint) = 0
    BY DEF Init
  <2> QED
    BY <2>1 DEF Init, TypeOK, MarkerAssumption, Unique
<1>3. \A e \in Events : ~Covered(e, Marked)
  BY <1>1 DEF Init, Marked, Covered
<1>4. SendsInv
  BY <1>3 DEF Init, SendsInv
<1> QED
  BY <1>1, <1>2, <1>4 DEF MarkerInv, Init, ClockInv, SafeInv, StampInv, ListedInv, SavedInv, InHand

\* Every step keeps MarkerInv.
LEMMA MarkerStep ==
  ASSUME MarkerAssumption, MarkerInv, [Next]_vars
  PROVE  MarkerInv'
<1>1. TypeOK' /\ ClockInv'
  BY TypeNext DEF MarkerInv
<1> QED
  BY <1>1, SafeNext, StampNext, ListedNext, SavedNext, SendsNext DEF MarkerInv

\* What the invariant says of the properties.
LEMMA MarkerMeans ==
  ASSUME MarkerAssumption, MarkerInv
  PROVE  TypeOK /\ CheckpointIsSafe /\ RepeatsNeedFaults
<1>1. \A e \in Events : Within => sends[e] <= 1 + faults
  BY DEF MarkerInv, SendsInv, TypeOK, MarkerAssumption
<1> QED
  BY <1>1 DEF MarkerInv, SafeInv, CheckpointIsSafe, RepeatsNeedFaults, Within, Ids

\* MarkerInv holds always.
LEMMA MarkersAlways ==
  ASSUME MarkerAssumption
  PROVE  Spec => []MarkerInv
<1> USE DEF MarkerAssumption
<1>1. Init => MarkerInv
  BY MarkerStart
<1>2. MarkerInv /\ [Next]_vars => MarkerInv'
  BY MarkerStep
<1> QED
  BY <1>1, <1>2, PTL DEF Spec

\* A checkpoint claims nothing that PulseRelay has not got, and an event is
\* sent again only after a failure as long as the markers fit.
THEOREM MarkersAreSafe ==
  ASSUME MarkerAssumption
  PROVE  Spec => [](TypeOK /\ CheckpointIsSafe /\ RepeatsNeedFaults)
<1>1. MarkerInv => TypeOK /\ CheckpointIsSafe /\ RepeatsNeedFaults
  BY MarkerMeans
<1> QED
  BY <1>1, MarkersAlways, PTL
=============================================================================
