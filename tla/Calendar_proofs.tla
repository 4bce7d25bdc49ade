-------------------------- MODULE Calendar_proofs --------------------------
(***************************************************************************)
(* Theorems about Calendar, for any guides, days, minutes, viewports,      *)
(* offsets of a drag and number of optimistic moves.                       *)
(***************************************************************************)
EXTENDS Calendar, FiniteSetTheorems, TLAPS

(* Finite sets of numbers have a greatest and a least.                     *)
LEMMA MaxFacts ==
  ASSUME NEW S \in SUBSET Int, S # {}, IsFiniteSet(S)
  PROVE  Max(S) \in S /\ \A y \in S : Max(S) >= y
<1> DEFINE More(x) == {y \in S : y > x}
<1>1. PICK T : T = {More(x) : x \in S}
  OBVIOUS
<1>2. T \subseteq FiniteSubsetsOf(S) /\ T # {}
  <2>1. \A x \in S : More(x) \in SUBSET S
    OBVIOUS
  <2>2. \A x \in S : IsFiniteSet(More(x))
    BY <2>1, FS_Subset
  <2> QED BY <1>1, <2>1, <2>2 DEF FiniteSubsetsOf
<1>3. \E s \in T : \A y \in T : ~(<<y, s>> \in StrictSubsetOrdering(S))
  BY <1>2, WFMin, FS_StrictSubsetOrderingWellFounded
<1>4. PICK x \in S : \A y \in T : ~(<<y, More(x)>> \in StrictSubsetOrdering(S))
  BY <1>1, <1>3
<1>5. ASSUME NEW y \in S, y > x
      PROVE  FALSE
  <2>1. More(y) \subseteq More(x) /\ y \in More(x) /\ y \notin More(y)
    <3>1. x \in Int /\ y \in Int
      OBVIOUS
    <3>2. \A z \in S : z > y => z > x
      BY <1>5, <3>1
    <3>3. ~(y > y)
      BY <3>1
    <3> QED BY <1>5, <3>2, <3>3
  <2>2. More(y) \in T /\ More(y) \in SUBSET S /\ More(x) \in SUBSET S
    BY <1>1
  <2> QED BY <1>4, <2>1, <2>2 DEF StrictSubsetOrdering
<1>6. \A y \in S : x >= y
  BY <1>5
<1> QED BY <1>6 DEF Max

LEMMA MinFacts ==
  ASSUME NEW S \in SUBSET Int, S # {}, IsFiniteSet(S)
  PROVE  Min(S) \in S /\ \A y \in S : Min(S) <= y
<1> DEFINE Less(x) == {y \in S : y < x}
<1>1. PICK T : T = {Less(x) : x \in S}
  OBVIOUS
<1>2. T \subseteq FiniteSubsetsOf(S) /\ T # {}
  <2>1. \A x \in S : Less(x) \in SUBSET S
    OBVIOUS
  <2>2. \A x \in S : IsFiniteSet(Less(x))
    BY <2>1, FS_Subset
  <2> QED BY <1>1, <2>1, <2>2 DEF FiniteSubsetsOf
<1>3. \E s \in T : \A y \in T : ~(<<y, s>> \in StrictSubsetOrdering(S))
  BY <1>2, WFMin, FS_StrictSubsetOrderingWellFounded
<1>4. PICK x \in S : \A y \in T : ~(<<y, Less(x)>> \in StrictSubsetOrdering(S))
  BY <1>1, <1>3
<1>5. ASSUME NEW y \in S, y < x
      PROVE  FALSE
  <2>1. Less(y) \subseteq Less(x) /\ y \in Less(x) /\ y \notin Less(y)
    <3>1. x \in Int /\ y \in Int
      OBVIOUS
    <3>2. \A z \in S : z < y => z < x
      BY <1>5, <3>1
    <3>3. ~(y < y)
      BY <3>1
    <3> QED BY <1>5, <3>2, <3>3
  <2>2. Less(y) \in T /\ Less(y) \in SUBSET S /\ Less(x) \in SUBSET S
    BY <1>1
  <2> QED BY <1>4, <2>1, <2>2 DEF StrictSubsetOrdering
<1>6. \A y \in S : x <= y
  BY <1>5
<1> QED BY <1>6 DEF Min

LEMMA PairFacts ==
  ASSUME NEW a \in Int, NEW b \in Int
  PROVE  /\ Max({a, b}) = IF a >= b THEN a ELSE b
         /\ Min({a, b}) = IF a <= b THEN a ELSE b
BY DEF Max, Min

(* Hours and quarters of an hour.                                          *)
LEMMA HourFacts ==
  ASSUME NEW m \in Int
  PROVE  /\ HourOf(m) \in Int /\ HourOf(m) <= m /\ m < HourOf(m) + 60 /\ HourOf(m) % 60 = 0
         /\ HourUp(m) \in Int /\ HourUp(m) >= m /\ m > HourUp(m) - 60 /\ HourUp(m) % 60 = 0
BY DEF HourOf, HourUp

LEMMA QuarterFacts ==
  ASSUME NEW m \in Int
  PROVE  /\ (m \div 15) * 15 \in Int /\ (m \div 15) * 15 <= m /\ ((m \div 15) * 15) % 15 = 0
         /\ \A n \in Int : n % 15 = 0 /\ n <= m => n <= (m \div 15) * 15
         /\ m % 60 = 0 => m % 15 = 0
         /\ m % 15 = 0 => \E j \in Int : m = 15 * j
BY SMTT(60)

(* snap15 is the nearest quarter.                                          *)
LEMMA SnapFacts ==
  ASSUME NEW n \in Int, NEW d \in Nat \ {0}
  PROVE  \E k \in Int : /\ Snap15(n, d) = 15 * k
                        /\ 30 * (d * k) <= 2 * n + 15 * d
                        /\ 2 * n + 15 * d < 30 * (d * k) + 30 * d
<1>1. PICK y \in Nat \ {0} : y = 30 * d
  OBVIOUS
<1>2. PICK x \in Int : x = 2 * n + 15 * d
  OBVIOUS
<1>3. PICK k \in Int : k = x \div y
  OBVIOUS
<1>4. y * k <= x /\ x < y * k + y
  BY <1>3
<1>5. y * k = 30 * (d * k)
  BY <1>1
<1> QED BY <1>1, <1>2, <1>3, <1>4, <1>5 DEF Snap15

(* A distance, in the pixels of Away.                                      *)
Apart(a, b) == IF a - b < 0 THEN -(a - b) ELSE a - b

LEMMA TimesFacts ==
  ASSUME NEW px \in Nat \ {0}, NEW a \in Int, NEW b \in Int
  PROVE  /\ px * a \in Int /\ a * px = px * a
         /\ a <= b => px * a <= px * b
         /\ a < b => px * a + px <= px * b
<1>1. px * a \in Int /\ a * px = px * a
  OBVIOUS
<1>2. a <= b => px * a <= px * b
  OBVIOUS
<1>3. a < b => px * a + px <= px * b
  <2> SUFFICES ASSUME a < b
               PROVE  px * a + px <= px * b
    OBVIOUS
  <2>1. PICK c \in Nat : b = a + 1 + c
    <3>1. b - a - 1 \in Nat /\ b = a + 1 + (b - a - 1)
      OBVIOUS
    <3> QED BY <3>1
  <2>2. px * b = px * a + px + px * c /\ px * c \in Nat
    BY <2>1
  <2> QED BY <2>2
<1> QED BY <1>1, <1>2, <1>3

(* Where a drop lands is a slot, if there is one, and none is nearer; and  *)
(* it is where the ghost stands, if that is one.                           *)
Lands(s, dy, px, dur, w) ==
  LET start == DropStart(s, dy, px, w, dur)
      Slot  == {m \in w.start..(w.end - dur) : m % 15 = 0}
      n     == Dragged(s, dy, px)
  IN  /\ start \in Int
      /\ \A m \in Slot : start \in Slot /\ Apart(start * px, n) <= Apart(m * px, n)
      /\ GhostStart(s, dy, px) \in Slot => start = GhostStart(s, dy, px)

LEMMA DropFacts ==
  ASSUME NEW s \in Int, NEW dy \in Int, NEW px \in Nat \ {0}, NEW dur \in Int,
         NEW w, w.start \in Int, w.end \in Int, w.start % 15 = 0
  PROVE  Lands(s, dy, px, dur, w)
<1>1. PICK n : n = Dragged(s, dy, px)
  OBVIOUS
<1>2. n \in Int
  BY <1>1 DEF Dragged
<1>3. PICK k \in Int : /\ Snap15(n, px) = 15 * k
                       /\ 30 * (px * k) <= 2 * n + 15 * px
                       /\ 2 * n + 15 * px < 30 * (px * k) + 30 * px
  BY <1>2, SnapFacts
<1>4. PICK room : room = w.end - dur
  OBVIOUS
<1>5. PICK last : last = (room \div 15) * 15
  OBVIOUS
<1>6. /\ room \in Int /\ last \in Int /\ last <= room /\ last % 15 = 0
      /\ \A m \in Int : m % 15 = 0 /\ m <= room => m <= last
  <2>1. room \in Int
    BY <1>4
  <2> QED BY <1>5, <2>1, QuarterFacts
<1>7. PICK snapped \in Int : snapped = 15 * k /\ snapped = GhostStart(s, dy, px)
  BY <1>1, <1>3 DEF GhostStart
<1>8. PICK start : start = DropStart(s, dy, px, w, dur)
  OBVIOUS
<1>9. /\ start \in Int
      /\ snapped < w.start => start = IF w.start <= last THEN w.start ELSE last
      /\ snapped >= w.start => start = IF snapped <= last THEN snapped ELSE last
  <2>1. start = Min({Max({snapped, w.start}), last})
    BY <1>1, <1>3, <1>4, <1>5, <1>7, <1>8 DEF DropStart
  <2>2. PICK held \in Int : /\ held = Max({snapped, w.start})
                            /\ held = IF snapped >= w.start THEN snapped ELSE w.start
    BY <1>7, PairFacts
  <2>3. start = Min({held, last})
    BY <2>1, <2>2
  <2>4. Min({held, last}) = IF held <= last THEN held ELSE last
    BY <1>6, PairFacts
  <2> QED BY <1>6, <2>2, <2>3, <2>4
<1>10. snapped \in w.start..room => start = snapped
  <2> SUFFICES ASSUME snapped \in w.start..room
               PROVE  start = snapped
    OBVIOUS
  <2>1. snapped % 15 = 0
    BY <1>7
  <2> QED BY <1>6, <1>7, <1>9, <2>1
<1>11. ASSUME NEW m \in w.start..room, m % 15 = 0
       PROVE  /\ start \in w.start..room /\ start % 15 = 0
              /\ Apart(start * px, n) <= Apart(m * px, n)
  <2>1. m \in Int /\ w.start <= m /\ m <= last
    BY <1>6, <1>11
  <2>2. start \in w.start..room /\ start % 15 = 0
    <3>1. snapped % 15 = 0
      BY <1>7
    <3> QED BY <1>6, <1>7, <1>9, <2>1, <3>1
  <2>3. PICK j \in Int : m = 15 * j
    BY <1>11, <2>1, QuarterFacts
  <2>4. PICK a \in Int : w.start = 15 * a
    BY QuarterFacts
  <2>5. PICK b \in Int : last = 15 * b
    BY <1>6, QuarterFacts
  <2>6. /\ m * px = 15 * (px * j) /\ snapped * px = 15 * (px * k)
        /\ w.start * px = 15 * (px * a) /\ last * px = 15 * (px * b)
    BY <1>7, <2>3, <2>4, <2>5
  <2>7. px * j \in Int /\ px * k \in Int /\ px * a \in Int /\ px * b \in Int
    OBVIOUS
  <2>8. CASE snapped < w.start
    <3>1. start = w.start /\ k < a /\ a <= j
      BY <1>7, <1>9, <2>1, <2>3, <2>4, <2>8
    <3>2. px * k + px <= px * a /\ px * a <= px * j
      BY <3>1, TimesFacts
    <3>3. n < 15 * (px * a) /\ 15 * (px * a) <= 15 * (px * j)
      BY <1>2, <1>3, <2>7, <3>2
    <3> QED BY <1>2, <2>2, <2>6, <2>7, <3>1, <3>3 DEF Apart
  <2>9. CASE snapped > last
    <3>1. start = last /\ b < k /\ j <= b
      BY <1>6, <1>7, <1>9, <2>1, <2>3, <2>5, <2>9
    <3>2. px * b + px <= px * k /\ px * j <= px * b
      BY <3>1, TimesFacts
    <3>3. n > 15 * (px * b) /\ 15 * (px * j) <= 15 * (px * b)
      BY <1>2, <1>3, <2>7, <3>2
    <3> QED BY <1>2, <2>2, <2>6, <2>7, <3>1, <3>3 DEF Apart
  <2>10. CASE w.start <= snapped /\ snapped <= last
    <3>1. start = snapped
      BY <1>7, <1>9, <2>10
    <3>2. CASE j = k
      BY <1>2, <1>7, <2>2, <2>3, <2>6, <2>7, <3>1, <3>2 DEF Apart
    <3>3. CASE j > k
      <4>1. px * k + px <= px * j
        BY <3>3, TimesFacts
      <4> QED BY <1>2, <1>3, <2>2, <2>6, <2>7, <3>1, <4>1 DEF Apart
    <3>4. CASE j < k
      <4>1. px * j + px <= px * k
        BY <3>4, TimesFacts
      <4> QED BY <1>2, <1>3, <2>2, <2>6, <2>7, <3>1, <4>1 DEF Apart
    <3> QED BY <3>2, <3>3, <3>4
  <2> QED BY <1>6, <1>7, <2>2, <2>8, <2>9, <2>10
<1> QED BY <1>1, <1>4, <1>7, <1>8, <1>9, <1>10, <1>11 DEF Lands
-----------------------------------------------------------------------------
(* The week's window: every pick in it, and no hour at either end without  *)
(* one.                                                                    *)
LEMMA PicksFacts ==
  ASSUME NEW g, IsGuide(g)
  PROVE  IsFiniteSet(Picks(g)) /\ \A it \in Picks(g) : it \in ItemType /\ it.start < it.end
<1>1. PICK items \in Seq(ItemType) : items = g.items
  BY DEF IsGuide
<1>2. PICK n \in Nat : items \in [1..n -> ItemType] /\ DOMAIN items = 1..n
  BY <1>1
<1>3. ToSet(items) \in SUBSET ItemType
  BY <1>2 DEF ToSet
<1>4. IsFiniteSet(ToSet(items))
  <2>1. items \in Surjection(1..n, ToSet(items))
    BY <1>2 DEF Surjection, ToSet
  <2>2. IsFiniteSet(1..n)
    BY FS_Interval
  <2> QED BY <2>1, <2>2, FS_Surjection
<1>5. Picks(g) \in SUBSET ToSet(items)
  BY <1>1 DEF Picks
<1>6. IsFiniteSet(Picks(g))
  BY <1>4, <1>5, FS_Subset
<1> QED BY <1>1, <1>3, <1>5, <1>6 DEF IsGuide

LEMMA WindowFacts ==
  ASSUME NEW g, IsGuide(g)
  PROVE  LET w == Window(g) IN
         /\ w.start \in Int /\ w.end \in Int /\ w.start % 60 = 0 /\ w.end % 60 = 0
         /\ \A it \in Picks(g) : w.start <= it.start /\ it.end <= w.end
         /\ Picks(g) # {} => /\ \E it \in Picks(g) : it.start < w.start + 60
                             /\ \E it \in Picks(g) : it.end > w.end - 60
         /\ WindowHours(g) \in Nat
<1>1. PICK w : w = Window(g)
  OBVIOUS
<1>2. CASE Picks(g) = {}
  <2>1. w = [start |-> 0, end |-> 0]
    BY <1>1, <1>2 DEF Window
  <2> QED BY <1>1, <1>2, <2>1 DEF WindowHours
<1>3. CASE Picks(g) # {}
  <2>1. PICK starts : starts = {it.start : it \in Picks(g)}
    OBVIOUS
  <2>2. PICK ends : ends = {it.end : it \in Picks(g)}
    OBVIOUS
  <2>3. /\ IsFiniteSet(Picks(g))
        /\ \A it \in Picks(g) : it.start \in Int /\ it.end \in Int /\ it.start < it.end
    BY PicksFacts DEF ItemType
  <2>4. starts \in SUBSET Int /\ starts # {} /\ ends \in SUBSET Int /\ ends # {}
    BY <1>3, <2>1, <2>2, <2>3
  <2>5. IsFiniteSet(starts)
    <3>1. PICK f : f = [it \in Picks(g) |-> it.start]
      OBVIOUS
    <3>2. f \in Surjection(Picks(g), starts)
      BY <2>1, <3>1 DEF Surjection
    <3> QED BY <2>3, <3>2, FS_Surjection
  <2>6. IsFiniteSet(ends)
    <3>1. PICK f : f = [it \in Picks(g) |-> it.end]
      OBVIOUS
    <3>2. f \in Surjection(Picks(g), ends)
      BY <2>2, <3>1 DEF Surjection
    <3> QED BY <2>3, <3>2, FS_Surjection
  <2>7. PICK first \in Picks(g) : Min(starts) = first.start /\ \A y \in starts : Min(starts) <= y
    BY <2>1, <2>4, <2>5, MinFacts
  <2>8. PICK final \in Picks(g) : Max(ends) = final.end /\ \A y \in ends : Max(ends) >= y
    BY <2>2, <2>4, <2>6, MaxFacts
  <2>9. w = [start |-> HourOf(first.start), end |-> HourUp(final.end)]
    BY <1>1, <1>3, <2>1, <2>2, <2>7, <2>8 DEF Window
  <2>10. first.start \in Int /\ final.end \in Int
    BY <2>3
  <2>11. /\ w.start \in Int /\ w.start <= first.start /\ first.start < w.start + 60
         /\ w.end \in Int /\ w.end >= final.end /\ final.end > w.end - 60
         /\ w.start % 60 = 0 /\ w.end % 60 = 0
    BY <2>9, <2>10, HourFacts
  <2>12. \A it \in Picks(g) : w.start <= it.start /\ it.end <= w.end
    <3> SUFFICES ASSUME NEW it \in Picks(g)
                 PROVE  w.start <= it.start /\ it.end <= w.end
      OBVIOUS
    <3>1. first.start <= it.start /\ it.end <= final.end /\ it.start \in Int /\ it.end \in Int
      BY <2>1, <2>2, <2>3, <2>7, <2>8
    <3> QED BY ONLY <2>10, <2>11, <3>1
  <2>13. w.start < w.end
    <3>1. first.start < first.end /\ first.end <= w.end /\ first.end \in Int
      BY <2>3, <2>12
    <3> QED BY ONLY <2>10, <2>11, <3>1
  <2>14. (w.end - w.start) \div 60 \in Nat
    BY ONLY <2>11, <2>13
  <2> QED BY <1>1, <1>3, <2>11, <2>12, <2>14 DEF WindowHours
<1> QED BY <1>2, <1>3

LEMMA HourPxFacts ==
  ASSUME NEW pixels \in Nat \ {0}, NEW hours \in Nat, NEW old \in Nat \ {0}
  PROVE  HourPx(pixels, hours, old) \in Nat \ {0}
<1>1. CASE hours = 0
  BY <1>1 DEF HourPx
<1>2. CASE hours # 0
  <2>1. pixels \div hours \in Int
    BY <1>2
  <2>2. Max({pixels \div hours, MinHourPx}) = IF pixels \div hours >= MinHourPx
                                              THEN pixels \div hours ELSE MinHourPx
    BY <2>1, PairFacts DEF MinHourPx
  <2> QED BY <1>2, <2>1, <2>2 DEF HourPx, MinHourPx
<1> QED BY <1>1, <1>2

(* An optimistic move leaves a guide.                                      *)
LEMMA MovedFacts ==
  ASSUME NEW g, IsGuide(g), NEW id, NEW date \in Int, NEW start \in Int
  PROVE  IsGuide(Moved(g, id, date, start))
<1>1. PICK items \in Seq(ItemType) : items = g.items
  BY DEF IsGuide
<1>2. PICK n \in Nat : items \in [1..n -> ItemType] /\ DOMAIN items = 1..n
  BY <1>1
<1> DEFINE Changed(it) == [it EXCEPT !.date = date, !.start = start, !.end = start + Duration(it)]
<1>3. \A k \in 1..n : items[k] \in ItemType /\ items[k].start < items[k].end
  BY <1>1, <1>2 DEF IsGuide, ToSet
<1>4. \A k \in 1..n : /\ Changed(items[k]) \in ItemType
                       /\ Changed(items[k]).start < Changed(items[k]).end
  <2> SUFFICES ASSUME NEW it \in ItemType, it.start < it.end
               PROVE  Changed(it) \in ItemType /\ Changed(it).start < Changed(it).end
    BY <1>3
  <2>1. /\ it.start \in Int /\ it.end \in Int
        /\ start + Duration(it) \in Int /\ start < start + Duration(it)
    BY DEF ItemType, Duration
  <2>2. PICK end \in Int : end = start + Duration(it) /\ start < end
    BY <2>1
  <2>3. Changed(it) = [it EXCEPT !.date = date, !.start = start, !.end = end]
    BY <2>2
  <2>4. [it EXCEPT !.date = date, !.start = start, !.end = end] \in ItemType
    BY <2>2 DEF ItemType
  <2>5. /\ [it EXCEPT !.date = date, !.start = start, !.end = end].start = start
        /\ [it EXCEPT !.date = date, !.start = start, !.end = end].end = end
    BY <2>2 DEF ItemType
  <2> QED BY <2>2, <2>3, <2>4, <2>5
<1>5. PICK after : after = [k \in DOMAIN items |-> IF items[k].id = id THEN Changed(items[k])
                                                                       ELSE items[k]]
  OBVIOUS
<1>6. Moved(g, id, date, start) = [g EXCEPT !.items = after]
  BY <1>1, <1>5 DEF Moved
<1>7. Moved(g, id, date, start) = [first |-> g.first, last |-> g.last, items |-> after]
  BY <1>6 DEF IsGuide
<1> HIDE DEF Changed
<1>8. after \in [1..n -> ItemType] /\ \A k \in 1..n : after[k].start < after[k].end
  BY <1>2, <1>3, <1>4, <1>5
<1>9. after \in Seq(ItemType)
  BY <1>8
<1>10. \A it \in ToSet(after) : it.start < it.end
  BY <1>8 DEF ToSet
<1>11. \A k \in 1..n : after[k].id = items[k].id
  <2> SUFFICES ASSUME NEW k \in 1..n
               PROVE  after[k].id = items[k].id
    OBVIOUS
  <2>1. items[k] \in ItemType
    BY <1>3
  <2>2. Changed(items[k]).id = items[k].id
    BY <2>1 DEF Changed, ItemType
  <2> QED BY <1>2, <1>5, <2>2
<1>12. \A j, k \in DOMAIN after : after[j].id = after[k].id => j = k
  <2>1. \A j, k \in 1..n : items[j].id = items[k].id => j = k
    BY <1>1, <1>2 DEF IsGuide
  <2>2. DOMAIN after = 1..n
    BY <1>8
  <2> QED BY <1>11, <2>1, <2>2
<1> QED BY <1>7, <1>9, <1>10, <1>12 DEF IsGuide

(* A card that has not been dragged yet would land where it is, or in the  *)
(* window, whatever the scale.                                             *)
LEMMA ScaleFacts ==
  ASSUME NEW s \in Int, NEW px \in Nat \ {0}, NEW w, NEW dur
  PROVE  DropStart(s, 0, 1, w, dur) = DropStart(s, 0, px, w, dur)
<1>1. Dragged(s, 0, 1) = s /\ Dragged(s, 0, px) = px * s /\ px * s \in Int
  BY DEF Dragged
<1>2. PICK k \in Int : /\ Snap15(s, 1) = 15 * k
                       /\ 30 * (1 * k) <= 2 * s + 15 * 1
                       /\ 2 * s + 15 * 1 < 30 * (1 * k) + 30 * 1
  BY SnapFacts
<1>3. PICK l \in Int : /\ Snap15(px * s, px) = 15 * l
                       /\ 30 * (px * l) <= 2 * (px * s) + 15 * px
                       /\ 2 * (px * s) + 15 * px < 30 * (px * l) + 30 * px
  BY <1>1, SnapFacts
<1>4. PICK a \in Int : a = 2 * s + 15 /\ px * a = 2 * (px * s) + 15 * px /\ px * a \in Int
  OBVIOUS
<1>5. PICK b \in Int : b = 30 * k /\ px * b = 30 * (px * k) /\ px * k \in Int /\ px * l \in Int
  OBVIOUS
<1>6. PICK c \in Int : c = 30 * k + 30 /\ px * c = 30 * (px * k) + 30 * px
  OBVIOUS
<1>7. px * b <= px * a /\ px * a + px <= px * c
  <2>1. b <= a /\ a < c
    BY <1>2, <1>4, <1>5, <1>6
  <2> QED BY <2>1, TimesFacts
<1>8. ~(l < k)
  <2>1. l < k => px * l + px <= px * k
    BY TimesFacts
  <2> QED BY ONLY <1>3, <1>4, <1>5, <1>7, <2>1, px \in Nat \ {0}
<1>9. ~(k < l)
  <2>1. k < l => px * k + px <= px * l
    BY TimesFacts
  <2> QED BY ONLY <1>3, <1>4, <1>5, <1>6, <1>7, <2>1, px \in Nat \ {0}
<1>10. k = l
  BY <1>8, <1>9
<1> QED BY <1>1, <1>2, <1>3, <1>10 DEF DropStart
-----------------------------------------------------------------------------
(* What the page renders is a guide on a grid with a scale; a drag began   *)
(* on a day that was not past then, and its pill tells where it would land *)
(* unless something was rendered since.                                    *)
PageInv ==
  /\ IsGuide(guide) /\ today \in Int /\ clock \in [date : Dates, min : Minutes]
  /\ height \in Heights /\ hourPx \in Nat \ {0}

DragType == [item : ItemType, dy : Int, pill : Int, since : Int, settled : BOOLEAN]

DragInv ==
  drag # NoCell => /\ drag \in DragType /\ drag.since <= drag.item.date
                   /\ drag.settled => drag.pill = Landing(drag.dy)

IInv == PageInv /\ DragInv

LEMMA RenderedFacts ==
  ASSUME PageInv, NEW g, IsGuide(g), NEW n, Rendered(g, n), UNCHANGED <<clock, height>>
  PROVE  PageInv'
<1>1. WindowHours(g) \in Nat /\ height \in Nat \ {0} /\ clock.date \in Int
  <2>1. WindowHours(g) \in Nat
    BY WindowFacts
  <2>2. height \in Nat \ {0}
    BY ScaleAssumption DEF PageInv
  <2>3. clock.date \in Dates /\ Dates \subseteq Int
    BY CalendarAssumption DEF PageInv
  <2> QED BY <2>1, <2>2, <2>3
<1>2. HourPx(height, WindowHours(g), hourPx) \in Nat \ {0}
  BY <1>1, HourPxFacts DEF PageInv
<1> QED BY <1>1, <1>2 DEF PageInv, Rendered

LEMMA UnsettledFacts ==
  ASSUME DragInv, drag' = Unsettled
  PROVE  DragInv'
BY DEF DragInv, Unsettled, DragType

(* A landing is a time, a slot if there is one.                            *)
LEMMA LandingFacts ==
  ASSUME PageInv, DragInv, drag # NoCell, NEW dy \in Int
  PROVE  /\ Landing(dy) \in Int
         /\ dy = drag.dy => LandsNearest(Landing(dy)) /\ LandsAsTold(Landing(dy))
<1>1. PICK w : w = Window(guide)
  OBVIOUS
<1>2. w.start \in Int /\ w.end \in Int /\ w.start % 15 = 0
  BY <1>1, WindowFacts, QuarterFacts DEF PageInv
<1>3. PICK it \in ItemType : it = drag.item
  BY DEF DragInv, DragType
<1>4. it.start \in Int /\ Duration(it) \in Int
  BY DEF ItemType, Duration
<1>5. PICK start : start = DropStart(it.start, dy, hourPx, w, Duration(it))
  OBVIOUS
<1>6. PICK slots : slots = {m \in w.start..(w.end - Duration(it)) : m % 15 = 0}
  OBVIOUS
<1>7. PICK n : n = Dragged(it.start, dy, hourPx)
  OBVIOUS
<1>8. hourPx \in Nat \ {0}
  BY DEF PageInv
<1>9. /\ start \in Int
      /\ \A m \in slots : start \in slots /\ Apart(start * hourPx, n) <= Apart(m * hourPx, n)
      /\ GhostStart(it.start, dy, hourPx) \in slots => start = GhostStart(it.start, dy, hourPx)
  <2>1. Lands(it.start, dy, hourPx, Duration(it), w)
    BY <1>2, <1>4, <1>8, DropFacts
  <2> QED BY <1>5, <1>6, <1>7, <2>1 DEF Lands
<1>10. start = Landing(dy) /\ slots = Slots(drag.item)
  BY <1>1, <1>3, <1>5, <1>6 DEF Landing, Slots
<1>11. ASSUME dy = drag.dy
       PROVE  LandsNearest(start) /\ LandsAsTold(start)
  <2>1. \A m : Away(m) = Apart(m * hourPx, n)
    BY <1>3, <1>7, <1>11 DEF Away, Apart
  <2>2. LandsNearest(start)
    BY <1>9, <1>10, <2>1 DEF LandsNearest
  <2>3. LandsAsTold(start)
    BY <1>3, <1>9, <1>10, <1>11 DEF LandsAsTold, DragInv
  <2> QED BY <2>2, <2>3
<1> QED BY <1>9, <1>10, <1>11

LEMMA InitInv ==
  ASSUME Init
  PROVE  IInv
<1>1. IsGuide(guide) /\ height \in Nat \ {0} /\ clock.date \in Int
  BY GuidesAssumption, ScaleAssumption, CalendarAssumption DEF Init
<1>2. WindowHours(guide) \in Nat /\ MinHourPx \in Nat \ {0}
  BY <1>1, WindowFacts DEF MinHourPx
<1>3. hourPx \in Nat \ {0}
  BY <1>1, <1>2, HourPxFacts DEF Init
<1> QED BY <1>1, <1>3 DEF Init, IInv, PageInv, DragInv

LEMMA ReceiveKeeps ==
  ASSUME IInv, NEW g \in Guides, Receive(g)
  PROVE  IInv'
<1>1. IsGuide(g) /\ Rendered(g, 0) /\ UNCHANGED <<clock, height>> /\ drag' = Unsettled
  BY GuidesAssumption DEF Receive
<1> QED BY <1>1, RenderedFacts, UnsettledFacts DEF IInv

LEMMA ResizeKeeps ==
  ASSUME IInv, NEW pixels \in Heights, Resize(pixels)
  PROVE  IInv'
<1>1. WindowHours(guide) \in Nat /\ pixels \in Nat \ {0} /\ hourPx \in Nat \ {0}
  BY WindowFacts, ScaleAssumption DEF IInv, PageInv
<1>2. hourPx' \in Nat \ {0}
  BY <1>1, HourPxFacts DEF Resize
<1>3. PageInv'
  BY <1>2 DEF Resize, IInv, PageInv
<1>4. DragInv'
  BY UnsettledFacts DEF Resize, IInv
<1> QED BY <1>3, <1>4 DEF IInv

LEMMA DragStartKeeps ==
  ASSUME IInv, NEW it \in Picks(guide), DragStart(it)
  PROVE  IInv'
<1>1. PageInv' /\ Window(guide)' = Window(guide) /\ hourPx' = hourPx
  BY DEF DragStart, IInv, PageInv, Window, Picks
<1>2. it \in ItemType /\ it.start \in Int /\ it.date \in Int /\ Duration(it) \in Int
  BY PicksFacts DEF IInv, PageInv, ItemType, Duration
<1>3. today <= it.date /\ today \in Int
  <2>1. ~(it.date < today)
    BY DEF DragStart, Draggable, DayOfGrid
  <2> QED BY <1>2, <2>1 DEF IInv, PageInv
<1>4. PICK pill : pill = DropStart(it.start, 0, 1, Window(guide), Duration(it))
  OBVIOUS
<1>5. pill \in Int
  <2>1. /\ Window(guide).start \in Int /\ Window(guide).end \in Int
        /\ Window(guide).start % 15 = 0
    BY WindowFacts, QuarterFacts DEF IInv, PageInv
  <2>2. 0 \in Int /\ 1 \in Nat \ {0}
    OBVIOUS
  <2> QED BY <1>2, <1>4, <2>1, <2>2, DropFacts DEF Lands
<1>6. drag' = [item |-> it, dy |-> 0, since |-> today, settled |-> TRUE, pill |-> pill]
  BY <1>4 DEF DragStart
<1>7. pill = DropStart(it.start, 0, hourPx, Window(guide), Duration(it))
  BY <1>2, <1>4, ScaleFacts DEF IInv, PageInv
<1>8. Landing(0)' = pill
  BY <1>1, <1>6, <1>7 DEF Landing
<1>9. drag' \in DragType
  BY <1>2, <1>3, <1>5, <1>6 DEF DragType
<1>10. DragInv'
  BY <1>3, <1>6, <1>8, <1>9 DEF DragInv
<1> QED BY <1>1, <1>10 DEF IInv

LEMMA DragMoveKeeps ==
  ASSUME IInv, NEW dy \in Offsets, DragMove(dy)
  PROVE  IInv'
<1>1. PageInv' /\ Window(guide)' = Window(guide) /\ hourPx' = hourPx
  BY DEF DragMove, IInv, PageInv, Window, Picks
<1>2. dy \in Int /\ drag # NoCell
  BY CalendarAssumption DEF DragMove
<1>3. PICK pill \in Int : pill = Landing(dy)
  BY <1>2, LandingFacts DEF IInv
<1>4. drag' = [drag EXCEPT !.dy = dy, !.pill = pill, !.settled = TRUE]
  BY <1>3 DEF DragMove, Pill
<1>5. drag \in DragType /\ drag.since <= drag.item.date
  BY <1>2 DEF IInv, DragInv
<1>6. /\ drag' \in DragType /\ drag'.item = drag.item /\ drag'.since = drag.since
      /\ drag'.dy = dy /\ drag'.pill = pill
  BY <1>2, <1>3, <1>4, <1>5 DEF DragType
<1>7. Landing(dy)' = pill
  BY <1>1, <1>3, <1>6 DEF Landing
<1> QED BY <1>1, <1>5, <1>6, <1>7 DEF IInv, DragInv

LEMMA DropKeeps ==
  ASSUME IInv, NEW over \in Days(guide) \cup {NoCell}, Drop(over)
  PROVE  IInv'
<1>1. drag # NoCell /\ drag' = NoCell /\ UNCHANGED <<clock, height>>
  BY DEF Drop
<1>2. drag \in DragType /\ IsGuide(guide)
  BY <1>1 DEF IInv, DragInv, PageInv
<1>3. PICK date : date = IF over = NoCell THEN drag.item.date ELSE over
  OBVIOUS
<1>4. PICK start : start = Landing(drag.dy)
  OBVIOUS
<1>5. date \in Int
  BY <1>2, <1>3 DEF DragType, ItemType, Days, IsGuide
<1>6. start \in Int
  BY <1>1, <1>2, <1>4, LandingFacts DEF IInv, DragType
<1>7. CASE date = drag.item.date /\ start = drag.item.start
  BY <1>1, <1>3, <1>4, <1>7 DEF Drop, IInv, PageInv, DragInv
<1>8. CASE ~(date = drag.item.date /\ start = drag.item.start)
  <2>1. Rendered(Moved(guide, drag.item.id, date, start), drops + 1)
    BY <1>3, <1>4, <1>8 DEF Drop
  <2>2. IsGuide(Moved(guide, drag.item.id, date, start))
    BY <1>2, <1>5, <1>6, MovedFacts
  <2>3. PageInv'
    BY <1>1, <2>1, <2>2, RenderedFacts DEF IInv
  <2> QED BY <1>1, <2>3 DEF IInv, DragInv
<1> QED BY <1>7, <1>8

(* What neither renders nor drags.                                         *)
LEMMA OthersKeep ==
  ASSUME IInv, UNCHANGED <<guide, today, height, hourPx>>,
         clock' \in [date : Dates, min : Minutes], drag' = drag \/ drag' = NoCell
  PROVE  IInv'
<1>1. PageInv'
  BY DEF IInv, PageInv
<1>2. drag' = drag => Landing(drag.dy)' = Landing(drag.dy)
  BY DEF Landing, Window, Picks
<1> QED BY <1>1, <1>2 DEF IInv, DragInv

THEOREM Invariance == Spec => []IInv
<1>1. Init => IInv
  BY InitInv
<1>2. IInv /\ [Next]_vars => IInv'
  <2> SUFFICES ASSUME IInv, [Next]_vars
               PROVE  IInv'
    OBVIOUS
  <2>1. clock \in [date : Dates, min : Minutes]
    BY DEF IInv, PageInv
  <2>2. CASE \E g \in Guides : Receive(g)
    BY <2>2, ReceiveKeeps
  <2>3. CASE \E d \in Dates, m \in Minutes : Tick(d, m)
    BY <2>3, OthersKeep DEF Tick
  <2>4. CASE \E h \in Heights : Resize(h)
    BY <2>4, ResizeKeeps
  <2>5. CASE Toggle \/ \E d \in Days(guide) : Choose(d)
    BY <2>1, <2>5, OthersKeep DEF Toggle, Choose
  <2>6. CASE \E c \in Board(guide, chosen).cells : Swap(c)
    BY <2>1, <2>6, OthersKeep DEF Swap
  <2>7. CASE \E it \in Picks(guide) : DragStart(it)
    BY <2>7, DragStartKeeps
  <2>8. CASE \E dy \in Offsets : DragMove(dy)
    BY <2>8, DragMoveKeeps
  <2>9. CASE DragCancel
    BY <2>1, <2>9, OthersKeep DEF DragCancel
  <2>10. CASE \E d \in {e \in Days(guide) : Droppable(e)} \cup {NoCell} : Drop(d)
    BY <2>10, DropKeeps
  <2>11. CASE UNCHANGED vars
    BY <2>1, <2>11, OthersKeep DEF vars
  <2> QED BY <2>2, <2>3, <2>4, <2>5, <2>6, <2>7, <2>8, <2>9, <2>10, <2>11 DEF Next
<1> QED BY <1>1, <1>2, PTL DEF Spec
-----------------------------------------------------------------------------
(* The week's window holds all of every pick, and not an hour more at      *)
(* either end, whatever has been moved.                                    *)
THEOREM WindowIsRight == Spec => []WindowFits
<1>1. IInv => WindowFits
  BY WindowFacts DEF IInv, PageInv, WindowFits
<1> QED BY <1>1, Invariance, PTL

(* A step sends a move only if it is a drop.                               *)
LEMMA MoveIsDrop ==
  ASSUME Next, sent' # NoCell, sent'.op = "move"
  PROVE  \E over \in {e \in Days(guide) : Droppable(e)} \cup {NoCell} :
           /\ drag # NoCell /\ sent'.start = Landing(drag.dy)
           /\ sent'.date = IF over = NoCell THEN drag.item.date ELSE over
           /\ guide' = Moved(guide, drag.item.id, sent'.date, sent'.start)
<1>1. \A c \in Board(guide, chosen).cells : ~Swap(c)
  BY DEF Swap
<1>2. PICK over \in {e \in Days(guide) : Droppable(e)} \cup {NoCell} : Drop(over)
  BY <1>1 DEF Next, Receive, Tick, Resize, Toggle, Choose, DragStart, DragMove, DragCancel
<1> QED BY <1>2 DEF Drop, Rendered

(* A dropped card lands on the nearest quarter of an hour that has room    *)
(* for it, where the preview said (guide.ts:191, GridDragPreview.tsx:33).  *)
THEOREM DropsAreTrue == Spec => DropsLand
<1>1. IInv /\ [Next]_vars =>
        [sent' # NoCell /\ sent'.op = "move" =>
           LandsNearest(sent'.start) /\ LandsAsTold(sent'.start)]_vars
  <2> SUFFICES ASSUME IInv, Next, sent' # NoCell, sent'.op = "move"
               PROVE  LandsNearest(sent'.start) /\ LandsAsTold(sent'.start)
    OBVIOUS
  <2>1. drag # NoCell /\ sent'.start = Landing(drag.dy)
    BY MoveIsDrop
  <2>2. drag.dy \in Int
    BY <2>1 DEF IInv, DragInv, DragType
  <2> QED BY <2>1, <2>2, LandingFacts DEF IInv
<1> QED BY <1>1, Invariance, PTL DEF Spec, DropsLand

(* Nothing moves into a past day, unless it was not past when the drag     *)
(* began (DayColumn.tsx:46, GridItemCard.tsx:52).                          *)
THEOREM PastStaysLocked == Spec => PastDaysLocked
<1>1. IInv /\ [Next]_vars =>
        [sent' # NoCell /\ sent'.op = "move" /\ sent'.date < today => drag.since < today]_vars
  <2> SUFFICES ASSUME IInv, Next, sent' # NoCell, sent'.op = "move", sent'.date < today
               PROVE  drag.since < today
    OBVIOUS
  <2>1. PICK over \in {e \in Days(guide) : Droppable(e)} \cup {NoCell} :
          /\ drag # NoCell
          /\ sent'.date = IF over = NoCell THEN drag.item.date ELSE over
    BY MoveIsDrop
  <2>2. over = NoCell
    BY <2>1 DEF Droppable, DayOfGrid
  <2>3. /\ drag.item.date < today /\ drag.since <= drag.item.date
        /\ drag.item.date \in Int /\ drag.since \in Int /\ today \in Int
    BY <2>1, <2>2 DEF IInv, PageInv, DragInv, DragType, ItemType
  <2> QED BY <2>3
<1> QED BY <1>1, Invariance, PTL DEF Spec, PastDaysLocked
-----------------------------------------------------------------------------
(* The picks begin on their day, and are over by the end of the next.      *)
OnTheClock(g) == \A it \in Picks(g) : 0 <= it.start /\ it.end <= 2880

(* A minute of an evening that is over by the end of the next day is of    *)
(* the day or of the next.                                                 *)
LEMMA MinuteFacts ==
  ASSUME NEW date \in Int, NEW tick \in 0..1439, NEW own \in Int,
         NEW start \in Int, NEW end \in Int, NEW m,
         m = tick + 1440 * (date - own), 0 <= start, end <= 2880, start <= m, m < end
  PROVE  /\ m \in Int
         /\ (own = date /\ m = tick) \/ (own = date - 1 /\ own # date /\ m = tick + 1440)
<1>1. PICK days \in Int : days = date - own
  OBVIOUS
<1>2. m = tick + 1440 * days
  BY <1>1
<1>3. days \in {0, 1}
  BY <1>2, SMTT(30)
<1> QED BY <1>1, <1>2, <1>3

(* The now line crosses every pick that is on, at its minute, also before  *)
(* the page has rendered the new day (CalendarView.tsx:83).                *)
THEOREM NowLineIsRight == Spec => [](OnTheClock(guide) => NowCrossesWhatIsOn)
<1>1. IInv => (OnTheClock(guide) => NowCrossesWhatIsOn)
  <2> SUFFICES ASSUME IInv, OnTheClock(guide), NEW it \in Picks(guide), NEW m,
                      m = clock.min + 1440 * (clock.date - it.date), During(it, m)
               PROVE  NowLineOf(it.date) = m - Window(guide).start
    BY DEF NowCrossesWhatIsOn
  <2>1. /\ it.date \in Int /\ it.start \in Int /\ it.end \in Int
        /\ 0 <= it.start /\ it.end <= 2880
    BY PicksFacts DEF IInv, PageInv, ItemType, OnTheClock
  <2>2. PICK date, tick : date = clock.date /\ tick = clock.min
    OBVIOUS
  <2>6. date \in Int /\ tick \in 0..1439
    <3>1. date \in Dates /\ tick \in Minutes
      BY <2>2 DEF IInv, PageInv
    <3>2. Dates \subseteq Int /\ Minutes \subseteq 0..1439
      BY ONLY CalendarAssumption DEF CalendarAssumption
    <3> QED BY ONLY <3>1, <3>2
  <2>3. it.start <= m /\ m < it.end
    BY DEF During
  <2>4. PICK w : w = Window(guide)
    OBVIOUS
  <2>5. w.start \in Int /\ w.end \in Int /\ w.start <= it.start /\ it.end <= w.end
    BY <2>4, WindowFacts DEF IInv, PageInv
  <2>7. m = tick + 1440 * (date - it.date)
    BY <2>2
  <2>8. PICK own \in Int, start \in Int, end \in Int :
          own = it.date /\ start = it.start /\ end = it.end
    BY <2>1
  <2>9. /\ m = tick + 1440 * (date - own) /\ 0 <= start /\ end <= 2880
        /\ start <= m /\ m < end
    BY ONLY <2>1, <2>3, <2>7, <2>8, SMTT(30)
  <2>10. /\ m \in Int
         /\ (own = date /\ m = tick) \/ (own = date - 1 /\ own # date /\ m = tick + 1440)
    BY <2>6, <2>9, MinuteFacts, SMTT(30)
  <2>11. w.start <= m /\ m < w.end
    <3>1. PICK ws \in Int, we \in Int : ws = w.start /\ we = w.end
      BY <2>5
    <3>2. ws <= start /\ end <= we
      BY <2>5, <2>8, <3>1
    <3>3. ws <= m /\ m < we
      BY ONLY <2>9, <2>10, <3>2
    <3> QED BY <3>1, <3>3
  <2>12. NowLine(m, w) = m - w.start
    BY ONLY <2>5, <2>10, <2>11 DEF NowLine
  <2>13. NowLineOf(it.date) = NowLine(m, w)
    BY <2>2, <2>4, <2>6, <2>8, <2>10 DEF NowLineOf
  <2> QED BY <2>4, <2>12, <2>13
<1> QED BY <1>1, Invariance, PTL

(* The item lasts what it lasted when it was picked up.                    *)
LengthKept ==
  \A it \in Picks(guide) : it.id = drag.item.id => Duration(it) = Duration(drag.item)

LEMMA MovedPicks ==
  ASSUME NEW g, IsGuide(g), NEW id, NEW date \in Int, NEW start \in Int,
         NEW it \in Picks(Moved(g, id, date, start))
  PROVE  \/ it \in Picks(g)
         \/ \E old \in Picks(g) : /\ old.id = id /\ it.id = id /\ it.start = start
                                  /\ it.end = start + Duration(old)
<1>1. PICK items \in Seq(ItemType) : items = g.items
  BY DEF IsGuide
<1>2. PICK n \in Nat : items \in [1..n -> ItemType] /\ DOMAIN items = 1..n
  BY <1>1
<1> DEFINE Changed(o) == [o EXCEPT !.date = date, !.start = start, !.end = start + Duration(o)]
<1>3. PICK after : after = [k \in DOMAIN items |-> IF items[k].id = id THEN Changed(items[k])
                                                                       ELSE items[k]]
  OBVIOUS
<1>4. Moved(g, id, date, start) = [g EXCEPT !.items = after]
  BY <1>1, <1>3 DEF Moved
<1>5. Moved(g, id, date, start).items = after
  BY <1>4 DEF IsGuide
<1>6. PICK k \in 1..n : it = after[k]
  BY <1>2, <1>3, <1>5, ZenonT(40) DEF Picks, ToSet
<1>7. it.plan
  BY DEF Picks
<1>8. PICK old \in ItemType : old = items[k]
  BY <1>2
<1>9. old.plan => old \in Picks(g)
  BY <1>1, <1>2, <1>8 DEF Picks, ToSet
<1>10. CASE old.id # id
  BY <1>2, <1>3, <1>6, <1>7, <1>8, <1>9, <1>10
<1>11. CASE old.id = id
  <2>1. it = Changed(old)
    BY <1>2, <1>3, <1>6, <1>8, <1>11
  <2>2. it.plan = old.plan /\ it.id = id /\ it.start = start /\ it.end = start + Duration(old)
    BY <1>11, <2>1 DEF ItemType
  <2> QED BY <1>7, <1>9, <1>11, <2>2
<1> QED BY <1>10, <1>11

LEMMA DropHasRoom ==
  ASSUME IInv, OnTheClock(guide), LengthKept, drag # NoCell,
         NEW old \in Picks(guide), old.id = drag.item.id
  PROVE  /\ Landing(drag.dy) \in Int /\ 0 <= Landing(drag.dy)
         /\ Duration(old) = Duration(drag.item) /\ Landing(drag.dy) + Duration(old) <= 2880
<1>1. Duration(old) = Duration(drag.item)
  BY DEF LengthKept
<1>2. /\ old.start \in Int /\ old.end \in Int /\ 0 <= old.start
      /\ \A it \in Picks(guide) : it.end \in Int /\ it.end <= 2880
  BY PicksFacts DEF IInv, PageInv, ItemType, OnTheClock
<1>3. PICK w : w = Window(guide)
  OBVIOUS
<1>4. /\ w.start \in Int /\ w.end \in Int /\ w.start % 60 = 0 /\ w.start % 15 = 0 /\ w.end % 60 = 0
      /\ w.start <= old.start /\ old.end <= w.end
      /\ \E it \in Picks(guide) : it.end > w.end - 60
      /\ \E it \in Picks(guide) : it.start < w.start + 60
  BY <1>3, WindowFacts, QuarterFacts DEF IInv, PageInv
<1>5. w.end <= 2880
  <2>1. w.end < 2880 + 60
    BY <1>2, <1>4
  <2> QED BY ONLY <1>4, <2>1
<1>6. 0 <= w.start
  <2>1. PICK it \in Picks(guide) : it.start < w.start + 60
    BY <1>4
  <2>2. it.start \in Int /\ 0 <= it.start
    BY PicksFacts DEF IInv, PageInv, ItemType, OnTheClock
  <2>3. -60 < w.start
    BY <1>4, <2>1, <2>2
  <2> QED BY ONLY <1>4, <2>3
<1>7. PICK dur \in Int : dur = Duration(old) /\ dur = old.end - old.start
  BY <1>2 DEF Duration
<1>8. Landing(drag.dy) \in Int /\ LandsNearest(Landing(drag.dy))
  <2>1. drag.dy \in Int
    BY DEF IInv, DragInv, DragType
  <2> QED BY <2>1, LandingFacts DEF IInv
<1>9. Slots(drag.item) = {m \in w.start..(w.end - dur) : m % 15 = 0}
  BY <1>1, <1>3, <1>7 DEF Slots
<1>10. w.start \in Slots(drag.item)
  BY <1>2, <1>4, <1>7, <1>9
<1>11. Landing(drag.dy) \in w.start..(w.end - dur)
  BY <1>8, <1>9, <1>10 DEF LandsNearest
<1> QED BY <1>1, <1>4, <1>5, <1>6, <1>7, <1>8, <1>11

(* A drop keeps the picks on the clock, wherever the pointer was let go,   *)
(* and so under the now line (guide.ts:191).  Only an item that a swap in  *)
(* another tab has made longer or shorter under the drag may leave it: the *)
(* drop leaves the room that the card took when it was picked up.          *)
THEOREM DropsStayOnTheClock ==
  Spec => [][sent' # NoCell /\ sent'.op = "move" /\ OnTheClock(guide) /\ LengthKept
               => OnTheClock(guide')]_vars
<1>1. IInv /\ [Next]_vars =>
        [sent' # NoCell /\ sent'.op = "move" /\ OnTheClock(guide) /\ LengthKept
           => OnTheClock(guide')]_vars
  <2> SUFFICES ASSUME IInv, Next, sent' # NoCell, sent'.op = "move", OnTheClock(guide), LengthKept,
                      NEW it \in Picks(guide')
               PROVE  0 <= it.start /\ it.end <= 2880
    BY DEF OnTheClock
  <2>1. PICK over \in {e \in Days(guide) : Droppable(e)} \cup {NoCell} :
          /\ drag # NoCell /\ sent'.start = Landing(drag.dy)
          /\ sent'.date = IF over = NoCell THEN drag.item.date ELSE over
          /\ guide' = Moved(guide, drag.item.id, sent'.date, sent'.start)
    BY MoveIsDrop
  <2>2. drag \in DragType /\ IsGuide(guide)
    BY <2>1 DEF IInv, PageInv, DragInv
  <2>3. PICK date, start : date = sent'.date /\ start = sent'.start
    OBVIOUS
  <2>4. date \in Int
    BY <2>1, <2>2, <2>3 DEF DragType, ItemType, Days, IsGuide
  <2>5. start \in Int
    BY <2>1, <2>2, <2>3, LandingFacts DEF IInv, DragType
  <2>6. CASE it \in Picks(guide)
    BY <2>6 DEF OnTheClock
  <2>7. CASE it \notin Picks(guide)
    <3>1. it \in Picks(Moved(guide, drag.item.id, date, start))
      BY <2>1, <2>3
    <3>2. PICK old \in Picks(guide) :
            /\ old.id = drag.item.id /\ it.id = drag.item.id /\ it.start = start
            /\ it.end = start + Duration(old)
      BY <2>2, <2>4, <2>5, <2>7, <3>1, MovedPicks
    <3>3. 0 <= start /\ start + Duration(old) <= 2880
      BY <2>1, <2>3, <3>2, DropHasRoom
    <3> QED BY <3>2, <3>3
  <2> QED BY <2>6, <2>7
<1> QED BY <1>1, Invariance, PTL DEF Spec
-----------------------------------------------------------------------------
(* Induction, over a set of numbers.                                       *)
LEMMA CountingUp ==
  ASSUME NEW B \in SUBSET Nat, 0 \in B, \A n \in B : n + 1 \in B
  PROVE  \A n \in Nat : n \in B
<1> SUFFICES ASSUME NEW m \in Nat, m \notin B
             PROVE  FALSE
  OBVIOUS
<1>1. PICK bad : bad = (0..m) \ B
  OBVIOUS
<1>2. bad \in SUBSET Int /\ bad # {} /\ bad \in SUBSET (0..m)
  BY <1>1
<1>3. IsFiniteSet(bad)
  <2>1. IsFiniteSet(0..m)
    BY FS_Interval
  <2> QED BY <1>2, <2>1, FS_Subset
<1>4. PICK k \in bad : \A y \in bad : k <= y
  BY <1>2, <1>3, MinFacts
<1>5. k \in 1..m /\ k \notin B
  BY <1>1, <1>4
<1>6. k - 1 \in 0..m /\ ~(k <= k - 1) /\ (k - 1) + 1 = k
  BY <1>5
<1>7. k - 1 \in B
  BY <1>1, <1>4, <1>6
<1> QED BY <1>5, <1>6, <1>7

(* Array.prototype.sort, as layout and board use it: every element of the  *)
(* set has one place, and the places are in the order.                     *)
THEOREM SortedIsASort ==
  ASSUME NEW S, IsFiniteSet(S), NEW R,
         \A x \in S : <<x, x>> \notin R,
         \A x, y, z \in S : <<x, y>> \in R /\ <<y, z>> \in R => <<x, z>> \in R,
         \A x, y \in S : x # y => <<x, y>> \in R \/ <<y, x>> \in R
  PROVE  /\ Cardinality(S) \in Nat
         /\ Sorted(S, R) \in [1..Cardinality(S) -> S]
         /\ \A x \in S : \E n \in 1..Cardinality(S) : Sorted(S, R)[n] = x
         /\ \A m, n \in 1..Cardinality(S) :
              m < n => <<Sorted(S, R)[m], Sorted(S, R)[n]>> \in R
<1> DEFINE Before(x) == {y \in S : <<y, x>> \in R}
<1>1. PICK N \in Nat : N = Cardinality(S)
  BY FS_CardinalityType
<1>2. PICK Rank : Rank = [x \in S |-> Cardinality(Before(x))]
  OBVIOUS
<1>3. \A x \in S : /\ Before(x) \in SUBSET S /\ IsFiniteSet(Before(x))
                   /\ Cardinality(Before(x)) \in Nat
  <2> SUFFICES ASSUME NEW x \in S
               PROVE  Before(x) \in SUBSET S /\ IsFiniteSet(Before(x))
                      /\ Cardinality(Before(x)) \in Nat
    OBVIOUS
  <2>1. Before(x) \in SUBSET S
    OBVIOUS
  <2>2. IsFiniteSet(Before(x))
    BY <2>1, FS_Subset
  <2> QED BY <2>1, <2>2, FS_CardinalityType
<1>4. \A x \in S : Rank[x] \in 0..(N - 1)
  <2> SUFFICES ASSUME NEW x \in S
               PROVE  Rank[x] \in 0..(N - 1)
    OBVIOUS
  <2>1. PICK b \in SUBSET S : b = Before(x)
    BY <1>3
  <2>2. b # S
    BY <2>1
  <2>3. Cardinality(b) <= N /\ Cardinality(b) # N /\ Cardinality(b) \in Nat
    BY <1>1, <1>3, <2>1, <2>2, FS_Subset
  <2>4. Rank[x] = Cardinality(b)
    BY <1>2, <2>1
  <2> QED BY <2>3, <2>4
<1>5. ASSUME NEW x \in S, NEW y \in S, <<x, y>> \in R
      PROVE  Rank[x] < Rank[y]
  <2>1. PICK a \in SUBSET S, b \in SUBSET S : a = Before(x) /\ b = Before(y)
    BY <1>3
  <2>2. a \in SUBSET b /\ a # b
    BY <1>5, <2>1
  <2>3. IsFiniteSet(b) /\ Cardinality(a) \in Nat /\ Cardinality(b) \in Nat
    BY <1>3, <2>1
  <2>4. Cardinality(a) <= Cardinality(b) /\ Cardinality(a) # Cardinality(b)
    BY <2>2, <2>3, FS_Subset
  <2>5. Rank[x] = Cardinality(a) /\ Rank[y] = Cardinality(b)
    BY <1>2, <2>1
  <2> QED BY <2>3, <2>4, <2>5
<1> HIDE DEF Before
<1>6. \A x, y \in S : Rank[x] = Rank[y] => x = y
  <2> SUFFICES ASSUME NEW x \in S, NEW y \in S, Rank[x] = Rank[y], x # y
               PROVE  FALSE
    OBVIOUS
  <2>1. Rank[x] < Rank[y] \/ Rank[y] < Rank[x]
    BY <1>5
  <2>2. Rank[x] \in Int /\ Rank[y] \in Int
    BY <1>4
  <2> QED BY <2>1, <2>2
<1>7. \A k \in 0..(N - 1) : \E x \in S : Rank[x] = k
  <2>1. Rank \in Injection(S, 0..(N - 1))
    BY <1>2, <1>4, <1>6 DEF Injection, IsInjective
  <2>2. IsFiniteSet(0..(N - 1)) /\ Cardinality(0..(N - 1)) = N
    BY FS_Interval
  <2>3. Rank \in Surjection(S, 0..(N - 1))
    BY <1>1, <2>1, <2>2, FS_Injection
  <2> QED BY <2>3 DEF Surjection
<1>8. PICK s : s = Sorted(S, R)
  OBVIOUS
<1> DEFINE At(n) == CHOOSE x \in S : Cardinality({y \in S : <<y, x>> \in R}) = n - 1
<1>9. s = [n \in 1..N |-> At(n)]
  BY ONLY <1>1, <1>8, Zenon DEF Sorted
<1> HIDE DEF At
<1>10. \A n \in 1..N : s[n] \in S /\ Rank[s[n]] = n - 1
  <2> SUFFICES ASSUME NEW n \in 1..N
               PROVE  s[n] \in S /\ Rank[s[n]] = n - 1
    OBVIOUS
  <2>1. n - 1 \in 0..(N - 1)
    OBVIOUS
  <2>2. \E x \in S : Cardinality(Before(x)) = n - 1
    BY <1>2, <1>7, <2>1
  <2>3. At(n) \in S /\ Cardinality(Before(At(n))) = n - 1
    BY <2>2, Zenon DEF At, Before
  <2> QED BY <1>2, <1>9, <2>3
<1>11. s \in [1..N -> S]
  BY <1>9, <1>10
<1>12. \A x \in S : \E n \in 1..N : s[n] = x
  <2> SUFFICES ASSUME NEW x \in S
               PROVE  \E n \in 1..N : s[n] = x
    OBVIOUS
  <2>1. PICK n \in 1..N : Rank[x] = n - 1
    <3>1. Rank[x] + 1 \in 1..N /\ Rank[x] = (Rank[x] + 1) - 1
      BY <1>4
    <3> QED BY <3>1
  <2> QED BY <1>6, <1>10, <2>1
<1>13. \A m, n \in 1..N : m < n => <<s[m], s[n]>> \in R
  <2> SUFFICES ASSUME NEW m \in 1..N, NEW n \in 1..N, m < n
               PROVE  <<s[m], s[n]>> \in R
    OBVIOUS
  <2>1. s[m] \in S /\ s[n] \in S /\ Rank[s[m]] = m - 1 /\ Rank[s[n]] = n - 1
    BY <1>10
  <2>2. ~(Rank[s[n]] < Rank[s[m]])
    BY <2>1
  <2>3. s[m] # s[n]
    BY <2>1
  <2> QED BY <1>5, <2>1, <2>2, <2>3
<1> QED BY <1>1, <1>8, <1>11, <1>12, <1>13
-----------------------------------------------------------------------------
(* The loop over the items, one at a time.                                 *)
LEMMA PackingFacts ==
  ASSUME NEW order, Len(order) \in Nat
  PROVE  /\ Packing(order)[0] = Nothing
         /\ \A n \in 1..Len(order) : Packing(order)[n] = Place(Packing(order)[n - 1], order[n])
<1> DEFINE Turn(f, n) == IF n = 0 THEN Nothing ELSE Place(f[n - 1], order[n])
           B == {m \in Nat : \E f : f = [n \in 0..m |-> Turn(f, n)]}
<1>1. 0 \in B
  <2>1. PICK f : f = [n \in 0..0 |-> Nothing]
    OBVIOUS
  <2>2. f = [n \in 0..0 |-> Turn(f, n)]
    BY <2>1
  <2> QED BY <2>2
<1>2. ASSUME NEW m \in B
      PROVE  m + 1 \in B
  <2>1. PICK f : f = [n \in 0..m |-> Turn(f, n)]
    OBVIOUS
  <2>2. PICK g : g = [n \in 0..(m + 1) |-> IF n = m + 1 THEN Place(f[m], order[m + 1]) ELSE f[n]]
    OBVIOUS
  <2>3. \A n \in 0..(m + 1) : g[n] = Turn(g, n)
    <3> SUFFICES ASSUME NEW n \in 0..(m + 1)
                 PROVE  g[n] = Turn(g, n)
      OBVIOUS
    <3>1. CASE n = 0
      BY <2>1, <2>2, <3>1
    <3>2. CASE n \in 1..m
      <4>1. /\ n \in 0..m /\ n - 1 \in 0..m /\ n - 1 \in 0..(m + 1)
            /\ n # m + 1 /\ n - 1 # m + 1 /\ n # 0
        BY <3>2
      <4>2. g[n] = f[n] /\ g[n - 1] = f[n - 1]
        BY <2>2, <4>1
      <4>3. f[n] = Turn(f, n)
        BY <2>1, <4>1
      <4> QED BY <4>1, <4>2, <4>3
    <3>3. CASE n = m + 1
      <4>1. m \in 0..(m + 1) /\ m # m + 1 /\ (m + 1) - 1 = m /\ m + 1 # 0 /\ m + 1 \in 0..(m + 1)
        OBVIOUS
      <4>2. g[m] = f[m] /\ g[m + 1] = Place(f[m], order[m + 1])
        BY <2>2, <4>1
      <4> QED BY <3>3, <4>1, <4>2
    <3> QED BY <3>1, <3>2, <3>3
  <2> HIDE DEF Turn
  <2>4. g = [n \in 0..(m + 1) |-> Turn(g, n)]
    BY <2>2, <2>3
  <2> QED BY <2>4
<1>3. Len(order) \in B
  <2>1. B \in SUBSET Nat
    OBVIOUS
  <2> HIDE DEF B
  <2> QED BY <1>1, <1>2, <2>1, CountingUp
<1>4. PICK h : h = Packing(order)
  OBVIOUS
<1>5. h = CHOOSE f : f = [n \in 0..Len(order) |-> Turn(f, n)]
  BY <1>4 DEF Packing
<1>6. h = [n \in 0..Len(order) |-> Turn(h, n)]
  BY <1>3, <1>5
<1> QED BY <1>4, <1>6
-----------------------------------------------------------------------------
(* What layoutDayColumns knows between two items: each of them stands in   *)
(* one column of one cluster; the clusters follow one another; ends has    *)
(* the columns of the last cluster; and whatever stands in a column, when  *)
(* it begins there runs an item in every column before.                    *)
PlacedType == [item : ItemType, col : Nat \ {0}, cluster : Nat]

PackType(s) == s \in [ends : Seq(Int), end : Int, cluster : Nat, placed : SUBSET PlacedType]

PackOnce(s, done) ==
  /\ IsFiniteSet(s.placed)
  /\ \A p \in s.placed : p.item \in done
  /\ \A it \in done : \E p \in s.placed : p.item = it
  /\ \A p, q \in s.placed : p.item = q.item => p = q

PackApart(s) ==
  /\ \A p \in s.placed : p.item.end <= s.end /\ p.cluster <= s.cluster
  /\ \A p, q \in s.placed : p.cluster < q.cluster => p.item.end <= q.item.start
  /\ s.cluster # 0 => \E p \in s.placed : p.cluster = s.cluster

PackEnds(s) ==
  /\ \A p \in s.placed : p.cluster = s.cluster =>
       p.col \in 1..Len(s.ends) /\ p.item.end <= s.ends[p.col]
  /\ \A c \in 1..Len(s.ends) : \E p \in s.placed :
       p.cluster = s.cluster /\ p.col = c /\ p.item.end = s.ends[c]

PackSingle(placed) ==
  \A p, q \in placed : p # q /\ p.cluster = q.cluster /\ p.col = q.col =>
    p.item.end <= q.item.start \/ q.item.end <= p.item.start

PackStacked(placed) ==
  \A q \in placed : \A c \in 1..q.col : \E p \in placed :
    p.cluster = q.cluster /\ p.col = c /\ During(p.item, q.item.start)

PackInv(s, done) ==
  /\ PackType(s) /\ PackOnce(s, done) /\ PackApart(s) /\ PackEnds(s)
  /\ PackSingle(s.placed) /\ PackStacked(s.placed)

(* The next item begins a cluster, or stands in the first free column of   *)
(* the last one.                                                           *)
NewCard(it, col, cluster) == [item |-> it, col |-> col, cluster |-> cluster]

Later(s, t, it) ==
  t.end \in Int /\ it.end <= t.end /\ (s.placed # {} => s.end <= t.end)

LEMMA CardFacts ==
  ASSUME NEW it \in ItemType, NEW col \in Nat \ {0}, NEW cluster \in Nat
  PROVE  /\ NewCard(it, col, cluster) \in PlacedType
         /\ NewCard(it, col, cluster).item = it
         /\ NewCard(it, col, cluster).col = col
         /\ NewCard(it, col, cluster).cluster = cluster
<1>1. PICK new : new = [item |-> it, col |-> col, cluster |-> cluster]
  OBVIOUS
<1>2. new \in [item : ItemType, col : Nat \ {0}, cluster : Nat]
  BY <1>1
<1> QED BY <1>1, <1>2 DEF NewCard, PlacedType

LEMMA SeqFacts ==
  ASSUME NEW S, NEW n \in Nat, NEW f \in [1..n -> S]
  PROVE  f \in Seq(S) /\ Len(f) = n
<1>1. f \in Seq(S)
  OBVIOUS
<1>2. Len(f) \in Nat /\ DOMAIN f = 1..Len(f)
  BY <1>1
<1> QED BY <1>1, <1>2

LEMMA PlaceApart ==
  ASSUME NEW s, PackType(s), NEW it \in ItemType, it.start < it.end,
         s.placed = {} \/ it.start >= s.end
  PROVE  /\ PackType(Place(s, it)) /\ Later(s, Place(s, it), it)
         /\ Place(s, it).cluster = s.cluster + 1
         /\ Place(s, it).placed = s.placed \cup {NewCard(it, 1, s.cluster + 1)}
         /\ Len(Place(s, it).ends) = 1 /\ Place(s, it).ends[1] = it.end
<1>1. PICK start \in Int, end \in Int : start = it.start /\ end = it.end
  BY DEF ItemType
<1>2. PICK until \in Int, number \in Nat, placed \in SUBSET PlacedType :
        until = s.end /\ number = s.cluster /\ placed = s.placed
  BY DEF PackType
<1>3. FreeColumn(<<>>, start) = 1
  <2>1. {c \in DOMAIN <<>> : <<>>[c] <= start} \cup {Len(<<>>) + 1} = {1}
    OBVIOUS
  <2>2. Min({1, 1}) = 1
    BY PairFacts
  <2>3. {1, 1} = {1}
    OBVIOUS
  <2> QED BY <2>1, <2>2, <2>3 DEF FreeColumn
<1>4. PICK ends : ends = [c \in {1} |-> end]
  OBVIOUS
<1>5. ends \in Seq(Int) /\ Len(ends) = 1 /\ ends[1] = end
  <2>1. {1} = 1..1
    OBVIOUS
  <2>2. ends \in [1..1 -> Int] /\ ends[1] = end
    BY <1>4, <2>1
  <2>3. ends \in Seq(Int) /\ Len(ends) = 1
    BY <2>2, SeqFacts
  <2> QED BY <2>2, <2>3
<1>6. PICK new \in PlacedType : new = NewCard(it, 1, number + 1)
  <2>1. 1 \in Nat \ {0} /\ number + 1 \in Nat
    OBVIOUS
  <2> QED BY <2>1, CardFacts
<1>7. Place(s, it) = [ends |-> ends, end |-> end, cluster |-> number + 1,
                      placed |-> placed \cup {new}]
  <2>1. DOMAIN <<>> \cup {1} = {1}
    OBVIOUS
  <2>2. [c \in {1} |-> IF c = 1 THEN end ELSE <<>>[c]] = ends
    BY <1>4
  <2> QED BY <1>1, <1>2, <1>3, <1>6, <2>1, <2>2 DEF Place, NewCard
<1> QED BY <1>1, <1>2, <1>5, <1>6, <1>7 DEF PackType, Later

InColumn(s, t, it, k) ==
  /\ t.placed = s.placed \cup {NewCard(it, k, s.cluster)}
  /\ Len(t.ends) = IF k <= Len(s.ends) THEN Len(s.ends) ELSE k
  /\ k <= Len(s.ends) => s.ends[k] <= it.start
  /\ \A c \in 1..Len(s.ends) : c < k => it.start < s.ends[c]
  /\ t.ends[k] = it.end
  /\ \A c \in 1..Len(s.ends) : c # k => t.ends[c] = s.ends[c]

LEMMA PlaceBeside ==
  ASSUME NEW s, PackType(s), NEW it \in ItemType, s.placed # {}, it.start < s.end
  PROVE  /\ PackType(Place(s, it)) /\ Later(s, Place(s, it), it)
         /\ Place(s, it).cluster = s.cluster
         /\ \E k \in 1..(Len(s.ends) + 1) : InColumn(s, Place(s, it), it, k)
<1>1. PICK start \in Int, end \in Int : start = it.start /\ end = it.end
  BY DEF ItemType
<1>2. PICK until \in Int, number \in Nat, placed \in SUBSET PlacedType, ends \in Seq(Int) :
        until = s.end /\ number = s.cluster /\ placed = s.placed /\ ends = s.ends
  BY DEF PackType
<1>3. PICK n \in Nat : n = Len(ends) /\ DOMAIN ends = 1..n /\ ends \in [1..n -> Int]
  BY <1>2
<1>4. PICK k \in 1..(n + 1) : /\ k = FreeColumn(ends, start)
                              /\ k <= n => ends[k] <= start
                              /\ \A c \in 1..n : c < k => start < ends[c]
  <2>1. PICK free : free = {c \in 1..n : ends[c] <= start} \cup {n + 1}
    OBVIOUS
  <2>2. free \in SUBSET Int /\ free # {} /\ free \in SUBSET (1..(n + 1))
    BY <2>1
  <2>3. IsFiniteSet(1..(n + 1))
    BY FS_Interval
  <2>4. IsFiniteSet(free)
    BY <2>2, <2>3, FS_Subset
  <2>5. Min(free) \in free /\ \A c \in free : Min(free) <= c
    BY <2>2, <2>4, MinFacts
  <2>6. PICK k \in free : k = FreeColumn(ends, start) /\ \A c \in free : k <= c
    BY <1>3, <2>1, <2>5 DEF FreeColumn
  <2>7. k \in 1..(n + 1)
    BY <2>2
  <2>8. k <= n => ends[k] <= start
    BY <2>1, <2>7
  <2>9. ASSUME NEW c \in 1..n, c < k
        PROVE  start < ends[c]
    <3>1. c \notin free
      BY <2>6, <2>7, <2>9
    <3>2. ends[c] \in Int
      BY <1>3
    <3> QED BY <2>1, <3>1, <3>2
  <2> QED BY <2>6, <2>7, <2>8, <2>9
<1>5. PICK later \in Int : later = ClusterEnd(s, it) /\ until <= later /\ end <= later
  <2>1. Max({until, end}) \in Int /\ until <= Max({until, end}) /\ end <= Max({until, end})
    BY PairFacts
  <2> QED BY <1>1, <1>2, <2>1 DEF ClusterEnd
<1>6. PICK after : after = [c \in 1..n \cup {k} |-> IF c = k THEN end ELSE ends[c]]
  OBVIOUS
<1>7. PICK m \in Nat : m = (IF k <= n THEN n ELSE k) /\ 1..n \cup {k} = 1..m
  <2>1. CASE k <= n
    BY <2>1
  <2>2. CASE ~(k <= n)
    <3>1. k = n + 1
      BY <2>2
    <3> QED BY <3>1
  <2> QED BY <2>1, <2>2
<1>8. /\ after \in Seq(Int) /\ Len(after) = m /\ after[k] = end
      /\ \A c \in 1..n : c # k => after[c] = ends[c]
  <2>1. after \in [1..m -> Int]
    <3>1. after = [c \in 1..m |-> IF c = k THEN end ELSE ends[c]]
      BY <1>6, <1>7, SMTT(30)
    <3>2. \A c \in 1..m : c # k => ends[c] \in Int
      BY <1>3, <1>7
    <3> QED BY <3>1, <3>2
  <2>2. after \in Seq(Int) /\ Len(after) = m
    BY <2>1, SeqFacts
  <2>3. after[k] = end /\ \A c \in 1..n : c # k => after[c] = ends[c]
    BY <1>6
  <2> QED BY <2>2, <2>3
<1>9. PICK new \in PlacedType : new = NewCard(it, k, number)
  <2>1. k \in Nat \ {0}
    BY <1>4
  <2> QED BY <2>1, CardFacts
<1>10. ~(placed = {} \/ start >= until)
  BY <1>1, <1>2
<1>11. Place(s, it) = [ends |-> after, end |-> later, cluster |-> number,
                       placed |-> placed \cup {new}]
  BY <1>1, <1>2, <1>3, <1>4, <1>5, <1>6, <1>9, <1>10 DEF Place, NewCard
<1>12. PICK t : t = Place(s, it)
  OBVIOUS
<1>13. t.ends = after /\ t.end = later /\ t.cluster = number /\ t.placed = placed \cup {new}
  BY <1>11, <1>12
<1>14. PackType(t) /\ Later(s, t, it)
  BY <1>1, <1>2, <1>5, <1>8, <1>11, <1>12 DEF PackType, Later
<1>15. InColumn(s, t, it, k)
  BY <1>1, <1>2, <1>3, <1>4, <1>7, <1>8, <1>9, <1>13 DEF InColumn
<1> QED BY <1>2, <1>3, <1>12, <1>13, <1>14, <1>15

(* So every item that is placed keeps what is known.                       *)
LEMMA PlaceKeeps ==
  ASSUME NEW s, NEW done, PackInv(s, done), NEW it \in ItemType, it.start < it.end,
         it \notin done, \A x \in done : x.start <= it.start
  PROVE  PackInv(Place(s, it), done \cup {it})
<1>1. PICK start \in Int, end \in Int : start = it.start /\ end = it.end /\ start < end
  BY DEF ItemType
<1>2. PICK until \in Int, last \in Nat, P \in SUBSET PlacedType, ends \in Seq(Int) :
        until = s.end /\ last = s.cluster /\ P = s.placed /\ ends = s.ends
  BY DEF PackInv, PackType
<1>3. PICK n \in Nat : n = Len(ends) /\ ends \in [1..n -> Int]
  BY <1>2
<1>4. \A p \in P : /\ p.item \in ItemType /\ p.item.start \in Int /\ p.item.end \in Int
                   /\ p.col \in Nat \ {0} /\ p.cluster \in Nat
  BY DEF PlacedType, ItemType
<1>5. \A p \in P : p.item.start <= start /\ p.item \in done /\ p.item.end <= until
                   /\ p.cluster <= last
  BY <1>1, <1>2 DEF PackInv, PackOnce, PackApart
<1>6. PICK t : t = Place(s, it)
  OBVIOUS
<1>7. PICK m \in Nat, k \in Nat \ {0}, new \in PlacedType, Q \in SUBSET PlacedType :
        /\ m = t.cluster /\ new.item = it /\ new.col = k /\ new.cluster = m
        /\ Q = t.placed /\ Q = P \cup {new}
        /\ PackType(t) /\ Later(s, t, it)
        /\ \/ /\ P = {} \/ start >= until
              /\ k = 1 /\ m = last + 1
              /\ Len(t.ends) = 1 /\ t.ends[1] = end
           \/ /\ P # {} /\ start < until /\ k \in 1..(n + 1) /\ m = last
              /\ Len(t.ends) = IF k <= n THEN n ELSE k
              /\ k <= n => ends[k] <= start
              /\ \A c \in 1..n : c < k => start < ends[c]
              /\ t.ends[k] = end
              /\ \A c \in 1..n : c # k => t.ends[c] = ends[c]
  <2>1. CASE P = {} \/ start >= until
    <3>1. PICK new \in PlacedType : /\ new = NewCard(it, 1, last + 1)
                                    /\ new.item = it /\ new.col = 1 /\ new.cluster = last + 1
      <4>1. 1 \in Nat \ {0} /\ last + 1 \in Nat
        OBVIOUS
      <4>2. /\ NewCard(it, 1, last + 1) \in PlacedType /\ NewCard(it, 1, last + 1).item = it
            /\ NewCard(it, 1, last + 1).col = 1 /\ NewCard(it, 1, last + 1).cluster = last + 1
        BY <4>1, CardFacts
      <4> QED BY <4>2
    <3>2. PackType(s) /\ (s.placed = {} \/ it.start >= s.end) /\ it.start < it.end
      BY <1>1, <1>2, <2>1 DEF PackInv
    <3>3. /\ PackType(t) /\ Later(s, t, it) /\ t.cluster = last + 1
          /\ t.placed = P \cup {new} /\ Len(t.ends) = 1 /\ t.ends[1] = end
      BY <1>1, <1>2, <1>6, <3>1, <3>2, PlaceApart
    <3>4. last + 1 \in Nat /\ 1 \in Nat \ {0} /\ P \cup {new} \in SUBSET PlacedType
      OBVIOUS
    <3> QED BY <2>1, <3>1, <3>3, <3>4
  <2>2. CASE P # {} /\ start < until
    <3>1. PackType(s) /\ s.placed # {} /\ it.start < s.end
      BY <1>1, <1>2, <2>2 DEF PackInv
    <3>2. /\ PackType(t) /\ Later(s, t, it) /\ t.cluster = last
          /\ \E k \in 1..(n + 1) : InColumn(s, t, it, k)
      BY <1>2, <1>3, <1>6, <3>1, PlaceBeside
    <3>3. PICK k \in 1..(n + 1) :
              /\ t.placed = P \cup {NewCard(it, k, last)}
              /\ Len(t.ends) = IF k <= n THEN n ELSE k
              /\ k <= n => ends[k] <= start
              /\ \A c \in 1..n : c < k => start < ends[c]
              /\ t.ends[k] = end
              /\ \A c \in 1..n : c # k => t.ends[c] = ends[c]
      BY <1>1, <1>2, <1>3, <3>2, SMTT(30) DEF InColumn
    <3>4. PICK new \in PlacedType : /\ new = NewCard(it, k, last)
                                    /\ new.item = it /\ new.col = k /\ new.cluster = last
      <4>1. k \in Nat \ {0}
        OBVIOUS
      <4>2. /\ NewCard(it, k, last) \in PlacedType /\ NewCard(it, k, last).item = it
            /\ NewCard(it, k, last).col = k /\ NewCard(it, k, last).cluster = last
        BY <4>1, CardFacts
      <4> QED BY <4>2
    <3>5. k \in Nat \ {0} /\ P \cup {new} \in SUBSET PlacedType
      OBVIOUS
    <3> QED BY <2>2, <3>2, <3>3, <3>4, <3>5
  <2> QED BY <2>1, <2>2
<1>8. new \notin P
  BY <1>5, <1>7
<1>9. \A q \in Q : q \in P \/ q = new
  BY <1>7
<1>10. PackOnce(t, done \cup {it})
  <2>1. IsFiniteSet(Q)
    BY <1>2, <1>7, FS_AddElement, SMTT(30) DEF PackInv, PackOnce
  <2> QED BY <1>2, <1>5, <1>7, <2>1 DEF PackInv, PackOnce
<1>11. \A p \in P : p.cluster < m => p.item.end <= start
  <2> SUFFICES ASSUME NEW p \in P, p.cluster < m
               PROVE  p.item.end <= start
    OBVIOUS
  <2>1. CASE P = {} \/ start >= until
    BY <1>4, <1>5, <2>1
  <2>2. CASE P # {} /\ start < until
    <3>1. m = last /\ p.cluster < last /\ last # 0
      BY <1>4, <1>7, <2>2
    <3>2. PICK q \in P : q.cluster = last
      BY <1>2, <3>1 DEF PackInv, PackApart
    <3>3. p.item.end <= q.item.start
      BY <1>2, <3>1, <3>2 DEF PackInv, PackApart
    <3> QED BY <1>4, <1>5, <3>3
  <2> QED BY <2>1, <2>2
<1>12. PackApart(t)
  <2>1. PICK until2 \in Int : until2 = t.end /\ end <= until2
                              /\ (P # {} => until <= until2)
    BY <1>1, <1>2, <1>7 DEF Later
  <2>2. \A p \in Q : p.item.end <= until2 /\ p.cluster <= m
    BY <1>1, <1>4, <1>5, <1>7, <1>9, <2>1, SMTT(30)
  <2>3. \A p, q \in Q : p.cluster < q.cluster => p.item.end <= q.item.start
    <3> SUFFICES ASSUME NEW p \in Q, NEW q \in Q, p.cluster < q.cluster
                 PROVE  p.item.end <= q.item.start
      OBVIOUS
    <3>1. CASE p \in P /\ q \in P
      BY <1>2, <3>1 DEF PackInv, PackApart
    <3>2. CASE p \in P /\ q = new
      BY <1>1, <1>7, <1>11, <3>2
    <3>3. CASE p = new
      BY <1>4, <1>5, <1>7, <1>9, <3>3
    <3> QED BY <1>9, <3>1, <3>2, <3>3
  <2> QED BY <1>7, <2>1, <2>2, <2>3 DEF PackApart
<1>13. PackEnds(t)
  <2>1. CASE P = {} \/ start >= until
    <3>1. m = last + 1 /\ k = 1 /\ Len(t.ends) = 1 /\ t.ends[1] = end
      BY <1>7, <2>1
    <3>2. \A p \in P : p.cluster # m
      BY <1>4, <1>5, <3>1
    <3>3. /\ new \in Q /\ new.cluster = m /\ new.col = 1 /\ new.item.end = end
          /\ m = t.cluster /\ Q = t.placed
      BY <1>1, <1>7, <3>1
    <3>4. \A p \in Q : p.cluster = m => p = new
      BY <1>9, <3>2
    <3>5. \A c \in 1..1 : c = 1
      OBVIOUS
    <3>6. 1 \in 1..1 /\ end <= end
      BY <1>1
    <3> QED BY ONLY <3>1, <3>3, <3>4, <3>5, <3>6 DEF PackEnds
  <2>2. CASE P # {} /\ start < until
    <3>1. \A p \in P : p.cluster = last => p.col \in 1..n /\ p.item.end <= ends[p.col]
      BY <1>2, <1>3 DEF PackInv, PackEnds
    <3>2. \A c \in 1..n : \E p \in P : p.cluster = last /\ p.col = c /\ p.item.end = ends[c]
      BY <1>2, <1>3 DEF PackInv, PackEnds
    <3>3. PICK l \in Nat : l = Len(t.ends) /\ l = IF k <= n THEN n ELSE k
      BY <1>7, <2>2
    <3>4. m = last /\ k \in 1..(n + 1) /\ t.ends[k] = end /\ (k <= n => ends[k] <= start)
          /\ \A c \in 1..n : c # k => t.ends[c] = ends[c]
      BY <1>7, <2>2, SMTT(30)
    <3>5. ASSUME NEW p \in Q, p.cluster = m
          PROVE  p.col \in 1..l /\ p.item.end <= t.ends[p.col]
      <4>1. CASE p = new
        <5>1. p.col = k /\ p.item.end = end /\ k \in 1..l /\ end <= end
          BY <1>1, <1>7, <3>3, <3>4, <4>1
        <5> QED BY <3>4, <5>1
      <4>2. CASE p \in P /\ p.col # k
        <5>1. p.col \in 1..n /\ p.item.end <= ends[p.col]
          BY <3>1, <3>4, <3>5, <4>2
        <5>2. p.col \in 1..l
          BY <3>3, <5>1
        <5>3. t.ends[p.col] = ends[p.col]
          BY <3>4, <4>2, <5>1
        <5> QED BY <5>1, <5>2, <5>3
      <4>3. CASE p \in P /\ p.col = k
        <5>1. k <= n /\ p.item.end <= ends[k]
          BY <3>1, <3>4, <3>5, <4>3
        <5>2. ends[k] \in Int /\ ends[k] <= start
          BY <1>3, <3>4, <5>1
        <5>3. k \in 1..l
          BY <3>3, <5>1
        <5>4. PICK e \in Int : e = p.item.end /\ e <= ends[k]
          BY <1>4, <4>3, <5>1
        <5>5. PICK f \in Int : f = ends[k] /\ f <= start
          BY <5>2
        <5>6. e <= end
          BY <1>1, <5>4, <5>5, SMTT(30)
        <5> QED BY <3>4, <4>3, <5>3, <5>4, <5>6
      <4> QED BY <1>9, <4>1, <4>2, <4>3
    <3>6. ASSUME NEW c \in 1..l
          PROVE  \E p \in Q : p.cluster = m /\ p.col = c /\ p.item.end = t.ends[c]
      <4>1. CASE c = k
        BY <1>1, <1>7, <3>4, <4>1
      <4>2. CASE c # k
        <5>1. c \in 1..n
          BY <3>3, <3>4, <4>2
        <5> QED BY <1>7, <3>2, <3>4, <4>2, <5>1, SMTT(30)
      <4> QED BY <4>1, <4>2
    <3> QED BY <1>7, <3>3, <3>5, <3>6 DEF PackEnds
  <2> QED BY <2>1, <2>2
<1>14. \A p \in P : p.cluster = m /\ p.col = k => p.item.end <= start
  <2> SUFFICES ASSUME NEW p \in P, p.cluster = m, p.col = k
               PROVE  p.item.end <= start
    OBVIOUS
  <2>1. CASE P = {} \/ start >= until
    BY <1>4, <1>5, <2>1
  <2>2. CASE P # {} /\ start < until
    <3>1. k \in 1..n /\ p.item.end <= ends[k]
      BY <1>2, <1>3, <1>7, <2>2 DEF PackInv, PackEnds
    <3>2. ends[k] \in Int /\ ends[k] <= start
      BY <1>3, <1>7, <2>2, <3>1
    <3> QED BY <1>4, <3>1, <3>2
  <2> QED BY <2>1, <2>2
<1>15. PackSingle(Q)
  <2> SUFFICES ASSUME NEW p \in Q, NEW q \in Q, p # q, p.cluster = q.cluster, p.col = q.col
               PROVE  p.item.end <= q.item.start \/ q.item.end <= p.item.start
    BY DEF PackSingle
  <2>1. CASE p \in P /\ q \in P
    BY <1>2, <2>1 DEF PackInv, PackSingle
  <2>2. CASE p \in P /\ q = new
    BY <1>1, <1>7, <1>14, <2>2
  <2>3. CASE p = new /\ q \in P
    BY <1>1, <1>7, <1>14, <2>3
  <2> QED BY <1>9, <2>1, <2>2, <2>3
<1>16. PackStacked(Q)
  <2> SUFFICES ASSUME NEW q \in Q, NEW c \in 1..q.col
               PROVE  \E p \in Q : p.cluster = q.cluster /\ p.col = c
                                   /\ During(p.item, q.item.start)
    BY DEF PackStacked
  <2>1. CASE q \in P
    BY <1>2, <1>7, <2>1 DEF PackInv, PackStacked
  <2>2. CASE q = new /\ c = k
    BY <1>1, <1>7, <2>2 DEF During
  <2>3. CASE q = new /\ c # k
    <3>1. start < until /\ m = last /\ k \in 1..(n + 1) /\ c \in 1..n /\ c < k
      BY <1>7, <2>3
    <3>2. start < ends[c]
      BY <1>7, <3>1
    <3>3. PICK p \in P : p.cluster = last /\ p.col = c /\ p.item.end = ends[c]
      BY <1>2, <1>3, <3>1 DEF PackInv, PackEnds
    <3>4. p.item.start <= start
      BY <1>5
    <3> QED BY <1>1, <1>7, <2>3, <3>1, <3>2, <3>3, <3>4 DEF During
  <2> QED BY <1>9, <2>1, <2>2, <2>3
<1> QED BY <1>6, <1>7, <1>10, <1>12, <1>13, <1>15, <1>16 DEF PackInv

(* Picks of a day in the order of the layout: by start, the longer first,  *)
(* and by id.                                                              *)
LEMMA LayoutBeforeFacts ==
  ASSUME NEW day \in SUBSET ItemType, \A a, b \in day : a.id = b.id => a = b
  PROVE  /\ \A a \in day : ~LayoutBefore(a, a)
         /\ \A a, b, c \in day : LayoutBefore(a, b) /\ LayoutBefore(b, c) => LayoutBefore(a, c)
         /\ \A a, b \in day : a # b => LayoutBefore(a, b) \/ LayoutBefore(b, a)
         /\ \A a, b \in day : LayoutBefore(a, b) => a.start <= b.start
<1>1. \A a \in day : a.start \in Int /\ Duration(a) \in Int /\ a.id \in Int
  BY DEF ItemType, Duration
<1>2. \A a \in day : ~LayoutBefore(a, a)
  BY <1>1 DEF LayoutBefore
<1>3. \A a, b, c \in day : LayoutBefore(a, b) /\ LayoutBefore(b, c) => LayoutBefore(a, c)
  BY <1>1 DEF LayoutBefore
<1>4. \A a, b \in day : a # b => LayoutBefore(a, b) \/ LayoutBefore(b, a)
  BY <1>1 DEF LayoutBefore
<1>5. \A a, b \in day : LayoutBefore(a, b) => a.start <= b.start
  BY <1>1 DEF LayoutBefore
<1> QED BY <1>2, <1>3, <1>4, <1>5

LEMMA NothingPacked == PackInv(Nothing, {})
<1>1. <<>> \in Seq(Int) /\ Len(<<>>) = 0
  OBVIOUS
<1>2. PackType(Nothing)
  BY <1>1 DEF PackType, Nothing
<1>3. PackOnce(Nothing, {})
  BY FS_EmptySet DEF PackOnce, Nothing
<1>4. PackApart(Nothing) /\ PackSingle(Nothing.placed) /\ PackStacked(Nothing.placed)
  BY DEF PackApart, PackSingle, PackStacked, Nothing
<1>5. PackEnds(Nothing)
  BY <1>1 DEF PackEnds, Nothing
<1> QED BY <1>2, <1>3, <1>4, <1>5 DEF PackInv

LEMMA DayPacked ==
  ASSUME NEW day \in SUBSET ItemType, IsFiniteSet(day), \A it \in day : it.start < it.end,
         \A a, b \in day : a.id = b.id => a = b
  PROVE  PackInv(Packing(LayoutOrder(day))[Cardinality(day)], day)
<1>1. PICK R : R = {p \in day \X day : LayoutBefore(p[1], p[2])}
  OBVIOUS
<1>2. \A a, b \in day : <<a, b>> \in R <=> LayoutBefore(a, b)
  BY <1>1
<1>3. PICK order : order = LayoutOrder(day)
  OBVIOUS
<1>4. order = Sorted(day, R)
  BY <1>1, <1>3 DEF LayoutOrder
<1>5. PICK N \in Nat : N = Cardinality(day)
  BY FS_CardinalityType
<1>6. /\ order \in [1..N -> day]
      /\ \A it \in day : \E n \in 1..N : order[n] = it
      /\ \A m, n \in 1..N : m < n => <<order[m], order[n]>> \in R
  <2>1. \A a \in day : <<a, a>> \notin R
    BY <1>2, LayoutBeforeFacts
  <2>2. \A a, b, c \in day : <<a, b>> \in R /\ <<b, c>> \in R => <<a, c>> \in R
    BY <1>2, LayoutBeforeFacts
  <2>3. \A a, b \in day : a # b => <<a, b>> \in R \/ <<b, a>> \in R
    BY <1>2, LayoutBeforeFacts
  <2> QED BY <1>4, <1>5, <2>1, <2>2, <2>3, SortedIsASort
<1>7. Len(order) = N
  BY <1>6, SeqFacts
<1>8. PICK after : after = Packing(order)
  OBVIOUS
<1>9. after[0] = Nothing /\ \A n \in 1..N : after[n] = Place(after[n - 1], order[n])
  BY <1>7, <1>8, PackingFacts
<1> DEFINE Done(n) == {order[m] : m \in 1..n}
           B == {n \in Nat : n <= N => PackInv(after[n], Done(n))}
<1>10. 0 \in B
  <2>1. Done(0) = {}
    OBVIOUS
  <2> QED BY <1>9, <2>1, NothingPacked
<1>11. ASSUME NEW n \in B
       PROVE  n + 1 \in B
  <2> SUFFICES ASSUME n + 1 <= N
               PROVE  PackInv(after[n + 1], Done(n + 1))
    OBVIOUS
  <2>1. n \in Nat /\ n <= N /\ n + 1 \in 1..N /\ (n + 1) - 1 = n
    OBVIOUS
  <2>2. PackInv(after[n], Done(n))
    BY <2>1
  <2>3. PICK it \in day : it = order[n + 1]
    BY <1>6, <2>1
  <2>4. after[n + 1] = Place(after[n], it)
    BY <1>9, <2>1, <2>3
  <2>5. Done(n + 1) = Done(n) \cup {it}
    <3>1. 1..(n + 1) = 1..n \cup {n + 1}
      BY <2>1
    <3> QED BY <2>3, <3>1
  <2>6. \A x \in Done(n) : x \in day /\ <<x, it>> \in R
    BY <1>6, <2>1, <2>3, SMTT(30)
  <2>7. it \notin Done(n) /\ \A x \in Done(n) : x.start <= it.start
    BY <1>2, <2>6, LayoutBeforeFacts
  <2>8. it \in ItemType /\ it.start < it.end
    OBVIOUS
  <2> HIDE DEF Done
  <2> QED BY <2>2, <2>4, <2>5, <2>7, <2>8, PlaceKeeps
<1>12. N \in B
  <2>1. B \in SUBSET Nat
    OBVIOUS
  <2> HIDE DEF B
  <2> QED BY <1>10, <1>11, <2>1, CountingUp
<1>13. Done(N) = day
  BY <1>6
<1> QED BY <1>3, <1>5, <1>8, <1>12, <1>13

(* A card is as wide as the last column of its cluster allows.             *)
Cluster(P, p) == {q \in P : q.cluster = p.cluster}
Cols(P, p)    == Max({q.col : q \in Cluster(P, p)})
Card(P, p)    == [item |-> p.item, col |-> p.col, cols |-> Cols(P, p)]

LEMMA ColsFacts ==
  ASSUME NEW P \in SUBSET PlacedType, IsFiniteSet(P), NEW p \in P
  PROVE  /\ Cols(P, p) \in Nat \ {0}
         /\ \E q \in P : q.cluster = p.cluster /\ q.col = Cols(P, p)
         /\ \A q \in P : q.cluster = p.cluster => q.col <= Cols(P, p)
<1>1. PICK T \in SUBSET P : T = Cluster(P, p)
  BY DEF Cluster
<1>2. \A q \in P : q.col \in Nat \ {0}
  BY DEF PlacedType
<1>3. PICK cols \in SUBSET Int : cols = {q.col : q \in T}
  <2>1. \A q \in T : q.col \in Int
    BY <1>2
  <2> QED BY <2>1
<1>4. IsFiniteSet(cols)
  <2>1. PICK f : f = [q \in T |-> q.col]
    OBVIOUS
  <2>2. f \in Surjection(T, cols)
    BY <1>3, <2>1 DEF Surjection
  <2>3. IsFiniteSet(T)
    BY FS_Subset
  <2> QED BY <2>2, <2>3, FS_Surjection
<1>5. p \in T /\ cols # {}
  BY <1>1, <1>3 DEF Cluster
<1>6. Max(cols) \in cols /\ \A c \in cols : Max(cols) >= c
  BY <1>3, <1>4, <1>5, MaxFacts
<1>7. PICK C \in cols : C = Cols(P, p) /\ \A c \in cols : C >= c
  BY <1>1, <1>3, <1>6 DEF Cols
<1>8. PICK q \in T : q.col = C
  BY <1>3, <1>7
<1>9. \A r \in T : r.col <= C
  BY <1>2, <1>3, <1>7
<1> QED BY <1>1, <1>2, <1>7, <1>8, <1>9 DEF Cluster

LEMMA LayoutFacts ==
  ASSUME NEW day \in SUBSET ItemType, IsFiniteSet(day), \A it \in day : it.start < it.end,
         \A a, b \in day : a.id = b.id => a = b
  PROVE  \E s : PackInv(s, day) /\ Layout(day) = {Card(s.placed, p) : p \in s.placed}
<1>1. PICK s : s = Packing(LayoutOrder(day))[Cardinality(day)]
  OBVIOUS
<1>2. PackInv(s, day)
  BY <1>1, DayPacked
<1>3. Layout(day) = {Card(s.placed, p) : p \in s.placed}
  BY <1>1, Zenon DEF Layout, Card, Cols, Cluster
<1> QED BY <1>2, <1>3

(* Cards that stand in one cluster are of one width; those that overlap    *)
(* stand in one.                                                           *)
LEMMA ClusterFacts ==
  ASSUME NEW s, NEW day, PackInv(s, day), NEW p \in s.placed, NEW q \in s.placed
  PROVE  /\ p.item \in ItemType /\ q.item \in ItemType
         /\ p.cluster = q.cluster => Cols(s.placed, p) = Cols(s.placed, q)
         /\ p.item.start < q.item.end /\ q.item.start < p.item.end =>
              p.cluster = q.cluster /\ (p.col = q.col => p = q)
<1>1. /\ p.item \in ItemType /\ q.item \in ItemType /\ p.cluster \in Nat /\ q.cluster \in Nat
      /\ p.item.start \in Int /\ p.item.end \in Int /\ q.item.start \in Int /\ q.item.end \in Int
  BY DEF PackInv, PackType, PlacedType, ItemType
<1>2. p.cluster = q.cluster => Cols(s.placed, p) = Cols(s.placed, q)
  BY DEF Cols, Cluster
<1>3. ASSUME p.item.start < q.item.end, q.item.start < p.item.end
      PROVE  p.cluster = q.cluster /\ (p.col = q.col => p = q)
  <2>1. ~(p.cluster < q.cluster) /\ ~(q.cluster < p.cluster)
    BY <1>1, <1>3 DEF PackInv, PackApart
  <2>2. p.cluster = q.cluster
    BY <1>1, <2>1
  <2>3. p.col = q.col => p = q
    BY <1>1, <1>3, <2>2 DEF PackInv, PackSingle
  <2> QED BY <2>2, <2>3
<1> QED BY <1>1, <1>2, <1>3

(* None covers another, on a day of any picks.                             *)
LEMMA CardsApart ==
  ASSUME NEW day \in SUBSET ItemType, IsFiniteSet(day), \A it \in day : it.start < it.end,
         \A a, b \in day : a.id = b.id => a = b, NEW a \in Layout(day), NEW b \in Layout(day)
  PROVE  /\ a.col \in 1..a.cols
         /\ (a.item.id # b.item.id /\ a.item.start < b.item.end /\ b.item.start < a.item.end)
              => a.cols = b.cols /\ a.col # b.col
<1>1. PICK s : PackInv(s, day) /\ Layout(day) = {Card(s.placed, p) : p \in s.placed}
  BY LayoutFacts
<1>2. PICK p \in s.placed, q \in s.placed : a = Card(s.placed, p) /\ b = Card(s.placed, q)
  BY <1>1
<1>3. /\ a.item = p.item /\ a.col = p.col /\ a.cols = Cols(s.placed, p)
      /\ b.item = q.item /\ b.col = q.col /\ b.cols = Cols(s.placed, q)
  BY <1>2 DEF Card
<1>4. s.placed \in SUBSET PlacedType /\ IsFiniteSet(s.placed) /\ p.col \in Nat \ {0}
  BY <1>1 DEF PackInv, PackType, PackOnce, PlacedType
<1>5. p.col <= Cols(s.placed, p) /\ Cols(s.placed, p) \in Nat
  BY <1>4, ColsFacts
<1>6. p.item.start < q.item.end /\ q.item.start < p.item.end =>
        p.cluster = q.cluster /\ (p.col = q.col => p = q)
  BY <1>1, ClusterFacts
<1>7. p.cluster = q.cluster => Cols(s.placed, p) = Cols(s.placed, q)
  BY <1>1, ClusterFacts
<1> QED BY <1>3, <1>4, <1>5, <1>6, <1>7

(* A card shows a pick of its day.                                         *)
LEMMA CardOfDay ==
  ASSUME NEW day \in SUBSET ItemType, IsFiniteSet(day), \A it \in day : it.start < it.end,
         \A a, b \in day : a.id = b.id => a = b, NEW a \in Layout(day)
  PROVE  a.item \in day /\ a.cols \in Nat
<1>1. PICK s : PackInv(s, day) /\ Layout(day) = {Card(s.placed, p) : p \in s.placed}
  BY LayoutFacts
<1>2. PICK P \in SUBSET PlacedType : P = s.placed /\ IsFiniteSet(P)
  BY <1>1 DEF PackInv, PackType, PackOnce
<1>3. PICK p \in P : a = Card(P, p)
  BY <1>1, <1>2
<1>4. p.item \in day
  BY <1>1, <1>2 DEF PackInv, PackOnce
<1>5. Cols(P, p) \in Nat
  BY <1>2, ColsFacts
<1> QED BY <1>3, <1>4, <1>5 DEF Card

(* As many run at once, where the last column of a cluster begins, as it   *)
(* has columns.                                                            *)
WideAsMayBe(cards, a) ==
  \E b \in cards :
    /\ b.cols = a.cols
    /\ Cardinality({c \in cards : During(c.item, b.item.start)}) = a.cols

LEMMA CardsWide ==
  ASSUME NEW day \in SUBSET ItemType, IsFiniteSet(day), \A it \in day : it.start < it.end,
         \A a, b \in day : a.id = b.id => a = b, NEW a \in Layout(day)
  PROVE  WideAsMayBe(Layout(day), a)
<1>1. PICK s : PackInv(s, day) /\ Layout(day) = {Card(s.placed, p) : p \in s.placed}
  BY LayoutFacts
<1>2. PICK P \in SUBSET PlacedType : P = s.placed /\ IsFiniteSet(P)
  BY <1>1 DEF PackInv, PackType, PackOnce
<1>3. PICK p \in P : a = Card(P, p)
  BY <1>1, <1>2
<1>4. PICK C \in Nat \ {0}, q \in P : C = Cols(P, p) /\ q.cluster = p.cluster /\ q.col = C
  BY <1>2, <1>3, ColsFacts
<1>5. PICK b \in Layout(day) : b = Card(P, q)
  BY <1>1, <1>2
<1>6. a.cols = C /\ b.cols = C /\ b.item = q.item
  <2>1. Cols(P, q) = Cols(P, p)
    BY <1>1, <1>2, <1>4, ClusterFacts
  <2> QED BY <1>3, <1>4, <1>5, <2>1 DEF Card
<1>7. PICK start \in Int : start = q.item.start
  BY <1>4 DEF PlacedType, ItemType
<1>8. PICK running : running = {c \in Layout(day) : During(c.item, start)}
  OBVIOUS
<1>9. \A r \in P : /\ r.item.start \in Int /\ r.item.end \in Int /\ r.item.start < r.item.end
                   /\ r.col \in Nat \ {0} /\ Card(P, r).col = r.col /\ Card(P, r).item = r.item
  <2>1. \A r \in P : r.item \in day
    BY <1>1, <1>2 DEF PackInv, PackOnce
  <2> QED BY <2>1 DEF PlacedType, ItemType, Card
<1>10. ASSUME NEW r \in P, During(r.item, start)
       PROVE  r.cluster = q.cluster
  <2>1. r.item.start < q.item.end /\ q.item.start < r.item.end
    BY <1>7, <1>9, <1>10 DEF During
  <2> QED BY <1>1, <1>2, <2>1, ClusterFacts
<1>11. ASSUME NEW r \in P, NEW t \in P, During(r.item, start), During(t.item, start), r.col = t.col
       PROVE  r = t
  <2>1. r.item.start < t.item.end /\ t.item.start < r.item.end
    BY <1>7, <1>9, <1>11 DEF During
  <2> QED BY <1>1, <1>2, <1>11, <2>1, ClusterFacts
<1>12. PICK f : f = [c \in running |-> c.col]
  OBVIOUS
<1>13. f \in Bijection(running, 1..C)
  <2>1. \A c \in running : \E r \in P : c = Card(P, r) /\ During(r.item, start) /\ c.col = r.col
    BY <1>1, <1>2, <1>8, <1>9
  <2>2. f \in [running -> 1..C]
    <3> SUFFICES ASSUME NEW c \in running
                 PROVE  c.col \in 1..C
      BY <1>12
    <3>1. PICK r \in P : During(r.item, start) /\ c.col = r.col
      BY <2>1
    <3>2. r.cluster = p.cluster
      BY <1>4, <1>10, <3>1
    <3>3. r.col <= C
      BY <1>2, <1>4, <3>2, ColsFacts
    <3> QED BY <1>9, <3>1, <3>3
  <2>3. \A c, e \in running : f[c] = f[e] => c = e
    BY <1>11, <1>12, <2>1
  <2>4. ASSUME NEW k \in 1..C
        PROVE  \E c \in running : f[c] = k
    <3>1. PICK r \in P : r.cluster = q.cluster /\ r.col = k /\ During(r.item, start)
      BY <1>1, <1>2, <1>4, <1>7 DEF PackInv, PackStacked
    <3>2. Card(P, r) \in running
      BY <1>1, <1>2, <1>8, <1>9, <3>1
    <3> QED BY <1>9, <1>12, <3>1, <3>2
  <2> QED BY <2>2, <2>3, <2>4 DEF Bijection, Injection, Surjection, IsInjective
<1>14. Cardinality(running) = C
  <2>1. IsFiniteSet(running)
    <3>1. f \in Injection(running, 1..C)
      BY <1>13 DEF Bijection
    <3>2. IsFiniteSet(1..C)
      BY FS_Interval
    <3> QED BY <3>1, <3>2, FS_Injection
  <2>2. Cardinality(1..C) = C
    BY FS_Interval
  <2>3. ExistsBijection(running, 1..C)
    BY <1>13 DEF ExistsBijection
  <2> QED BY <2>1, <2>2, <2>3, FS_Bijection
<1> QED BY <1>5, <1>6, <1>7, <1>8, <1>14 DEF WideAsMayBe

(* The picks of a day have ids of their own.                               *)
PicksOf(g, d) == {it \in Picks(g) : it.date = d}

LEMMA DayFacts ==
  ASSUME NEW g, IsGuide(g), NEW d
  PROVE  /\ PicksOf(g, d) \in SUBSET ItemType /\ IsFiniteSet(PicksOf(g, d))
         /\ \A it \in PicksOf(g, d) : it.start < it.end
         /\ \A a, b \in PicksOf(g, d) : a.id = b.id => a = b
<1> DEFINE day == PicksOf(g, d)
<1>1. IsFiniteSet(Picks(g)) /\ \A it \in Picks(g) : it \in ItemType /\ it.start < it.end
  BY PicksFacts
<1>2. day \in SUBSET Picks(g)
  BY DEF PicksOf
<1>3. IsFiniteSet(day)
  BY <1>1, <1>2, FS_Subset
<1>4. \A it \in day : \E k \in DOMAIN g.items : it = g.items[k]
  BY DEF PicksOf, Picks, ToSet
<1>5. \A a, b \in day : a.id = b.id => a = b
  BY <1>4 DEF IsGuide
<1> QED BY <1>1, <1>2, <1>3, <1>5

(* A positive scale keeps the order.                                       *)
LEMMA ScaledOrder ==
  ASSUME NEW x \in Int, NEW y \in Int, NEW p \in Nat, p > 0
  PROVE  /\ x * p < y * p => x < y
         /\ x <= y => x * p <= y * p
<1>1. ASSUME x <= y
      PROVE  x * p <= y * p
  <2>1. PICK z \in Nat : y = x + z
    <3>1. y - x \in Nat /\ y = x + (y - x)
      BY <1>1
    <3> QED BY <3>1
  <2>2. y * p = x * p + z * p /\ z * p \in Nat /\ x * p \in Int
    BY <2>1
  <2> QED BY <2>2
<1>2. ASSUME y <= x
      PROVE  y * p <= x * p
  <2>1. PICK z \in Nat : x = y + z
    <3>1. x - y \in Nat /\ x = y + (x - y)
      BY <1>2
    <3> QED BY <3>1
  <2>2. x * p = y * p + z * p /\ z * p \in Nat /\ y * p \in Int
    BY <2>1
  <2> QED BY <2>2
<1> QED BY <1>1, <1>2

(* The boxes of cards in different parts of one width do not meet across.  *)
LEMMA PartsApart ==
  ASSUME NEW c \in Nat, NEW i \in 1..c, NEW j \in 1..c,
         (i - 1) * c < j * c, (j - 1) * c < i * c
  PROVE  i = j
<1>1. c > 0
  OBVIOUS
<1>2. \A x, y \in Int : x * c < y * c => x < y
  BY <1>1, ScaledOrder
<1>3. i - 1 < j /\ j - 1 < i
  BY <1>2
<1> QED BY <1>3

(* Down the grid boxes stand as their times do, unless one is raised.      *)
LEMMA BoxFacts ==
  ASSUME PageInv, NEW it \in ItemType, it.start < it.end
  PROVE  /\ CardTop(it) = (it.start - Window(guide).start) * hourPx
         /\ CardTop(it) \in Int
         /\ ~TooShort(it) => CardBottom(it) = (it.end - Window(guide).start) * hourPx
<1>1. PICK s \in Int, e \in Int, w \in Int, px \in Nat \ {0} :
        s = it.start /\ e = it.end /\ w = Window(guide).start /\ px = hourPx
  BY WindowFacts DEF PageInv, ItemType
<1>2. CardTop(it) = (s - w) * px /\ (s - w) * px \in Int
  BY <1>1 DEF CardTop
<1>3. ASSUME ~TooShort(it)
      PROVE  CardBottom(it) = (e - w) * px
  <2>1. CardHeight(it) = (e - s) * px
    BY <1>1, <1>3 DEF CardHeight, Duration
  <2>2. (s - w) * px + (e - s) * px = (e - w) * px
    OBVIOUS
  <2> QED BY <1>2, <2>1, <2>2 DEF CardBottom
<1> QED BY <1>1, <1>2, <1>3

(* The picks of the grid have cards that show all of them and cover none   *)
(* of the others, as wide as may be, whatever overlaps - but for cards     *)
(* raised to the least height, which hang over what begins when their pick *)
(* has ended, or the grid's end, and nothing else.                         *)
THEOREM CardsAreShown == Spec => []CardsShown
<1>1. IInv => CardsShown
  <2> SUFFICES ASSUME PageInv, IsGuide(guide)
               PROVE  CardsShown
    BY DEF IInv, PageInv
  <2>1. NoCardCovered
    <3> SUFFICES ASSUME NEW d \in Days(guide), NEW a \in DayItems(d), NEW b \in DayItems(d)
                 PROVE  /\ a.col \in 1..a.cols
                        /\ (a.item.id # b.item.id /\ a.item.start <= b.item.start /\ Covers(a, b))
                             => TooShort(a.item) /\ a.item.end <= b.item.start
      BY DEF NoCardCovered
    <3>1. PICK day : day = PicksOf(guide, d) /\ DayItems(d) = Layout(day)
      BY DEF DayItems, DayOfGrid, PicksOf
    <3>2. /\ day \in SUBSET ItemType /\ IsFiniteSet(day) /\ \A it \in day : it.start < it.end
          /\ \A x, y \in day : x.id = y.id => x = y
      BY <3>1, DayFacts
    <3>3. a \in Layout(day) /\ b \in Layout(day)
      BY <3>1
    <3>4. /\ a.item \in day /\ a.cols \in Nat /\ b.item \in day /\ b.cols \in Nat
      BY <3>2, <3>3, CardOfDay
    <3>5. /\ a.col \in 1..a.cols
          /\ b.col \in 1..b.cols
          /\ (a.item.id # b.item.id /\ a.item.start < b.item.end /\ b.item.start < a.item.end)
               => a.cols = b.cols /\ a.col # b.col
      BY <3>2, <3>3, CardsApart
    <3>6. ASSUME a.item.id # b.item.id, a.item.start <= b.item.start, Covers(a, b)
          PROVE  TooShort(a.item) /\ a.item.end <= b.item.start
      <4>1. a.item.end <= b.item.start
        <5> SUFFICES ASSUME b.item.start < a.item.end
                     PROVE  FALSE
          BY <3>2, <3>4 DEF ItemType
        <5>1. a.item.start < b.item.end
          BY <3>2, <3>4, <3>6 DEF ItemType
        <5>2. a.cols = b.cols /\ a.col # b.col
          BY <3>5, <3>6, <5>1
        <5>3. PICK c \in Nat : c = a.cols /\ c = b.cols
          BY <3>4, <5>2
        <5>4. PICK i \in 1..c, j \in 1..c : i = a.col /\ j = b.col
          BY <3>5, <5>3
        <5>5. (i - 1) * c < j * c /\ (j - 1) * c < i * c
          BY <3>6, <5>3, <5>4 DEF Covers
        <5>6. i = j
          BY <5>5, PartsApart
        <5> QED BY <5>2, <5>4, <5>6
      <4>2. ASSUME ~TooShort(a.item)
            PROVE  FALSE
        <5>1. PICK e \in Int, s \in Int, w \in Int, px \in Nat :
                /\ px > 0 /\ px = hourPx /\ w = Window(guide).start
                /\ e = a.item.end /\ s = b.item.start
          BY <3>2, <3>4, WindowFacts DEF PageInv, ItemType
        <5>2. CardBottom(a.item) = (e - w) * px /\ CardTop(b.item) = (s - w) * px
          BY <3>2, <3>4, <4>2, <5>1, BoxFacts
        <5>3. (e - w) * px <= (s - w) * px
          <6>1. e - w \in Int /\ s - w \in Int /\ e - w <= s - w
            BY <4>1, <5>1
          <6> QED BY <5>1, <6>1, ScaledOrder
        <5>4. CardTop(b.item) < CardBottom(a.item)
          BY <3>6 DEF Covers
        <5>5. (s - w) * px \in Int /\ (e - w) * px \in Int
          BY <5>1
        <5> QED BY <5>2, <5>3, <5>4, <5>5
      <4> QED BY <4>1, <4>2
    <3> QED BY <3>5, <3>6
  <2>2. NoCardNarrowed
    <3> SUFFICES ASSUME NEW d \in Days(guide), NEW a \in DayItems(d)
                 PROVE  WideAsMayBe(DayItems(d), a)
      BY DEF NoCardNarrowed, WideAsMayBe
    <3>1. PICK day : day = PicksOf(guide, d) /\ DayItems(d) = Layout(day)
      BY DEF DayItems, DayOfGrid, PicksOf
    <3>2. /\ day \in SUBSET ItemType /\ IsFiniteSet(day) /\ \A it \in day : it.start < it.end
          /\ \A x, y \in day : x.id = y.id => x = y
      BY <3>1, DayFacts
    <3>3. a \in Layout(day)
      BY <3>1
    <3> QED BY <3>1, <3>2, <3>3, CardsWide
  <2>3. WindowFits
    BY WindowFacts DEF WindowFits
  <2>4. NoCardCutOff
    <3> SUFFICES ASSUME NEW d \in Days(guide), NEW a \in DayItems(d)
                 PROVE  /\ 0 <= CardTop(a.item)
                        /\ ~TooShort(a.item) => CardBottom(a.item)
                                                 <= (Window(guide).end - Window(guide).start) * hourPx
      BY DEF NoCardCutOff
    <3>1. PICK day : day = PicksOf(guide, d) /\ DayItems(d) = Layout(day)
      BY DEF DayItems, DayOfGrid, PicksOf
    <3>2. /\ day \in SUBSET ItemType /\ IsFiniteSet(day) /\ \A it \in day : it.start < it.end
          /\ \A x, y \in day : x.id = y.id => x = y
      BY <3>1, DayFacts
    <3>3. a \in Layout(day)
      BY <3>1
    <3>4. a.item \in day
      BY <3>2, <3>3, CardOfDay
    <3>5. a.item \in Picks(guide)
      BY <3>1, <3>4 DEF PicksOf
    <3>6. PICK s \in Int, e \in Int, w \in Int, l \in Int, px \in Nat :
            /\ px > 0 /\ px = hourPx /\ w = Window(guide).start /\ l = Window(guide).end
            /\ s = a.item.start /\ e = a.item.end /\ w <= s /\ e <= l
      BY <3>2, <3>4, <3>5, WindowFacts DEF PageInv, ItemType
    <3>7. CardTop(a.item) = (s - w) * px /\ 0 <= (s - w) * px
      <4>1. s - w \in Int /\ 0 <= s - w /\ 0 * px = 0
        BY <3>6
      <4>2. 0 * px <= (s - w) * px
        BY <3>6, <4>1, ScaledOrder
      <4> QED BY <3>2, <3>4, <3>6, <4>1, <4>2, BoxFacts
    <3>8. ASSUME ~TooShort(a.item)
          PROVE  CardBottom(a.item) <= (l - w) * px
      <4>1. CardBottom(a.item) = (e - w) * px
        BY <3>2, <3>4, <3>6, <3>8, BoxFacts
      <4>2. e - w \in Int /\ l - w \in Int /\ e - w <= l - w
        BY <3>6
      <4>3. (e - w) * px <= (l - w) * px
        BY <3>6, <4>2, ScaledOrder
      <4> QED BY <4>1, <4>3
    <3> QED BY <3>6, <3>7, <3>8
  <2> QED BY <2>1, <2>2, <2>3, <2>4 DEF CardsShown
<1> QED BY <1>1, Invariance, PTL
-----------------------------------------------------------------------------
(* Positions of the payload in the order of their starts.                  *)
LEMMA ItemsFacts ==
  ASSUME NEW g, IsGuide(g)
  PROVE  /\ \A k \in DOMAIN g.items :
              k \in Int /\ g.items[k].start \in Int /\ g.items[k].id \in Nat
         /\ IsFiniteSet(DOMAIN g.items)
<1>1. PICK items \in Seq(ItemType) : items = g.items
  BY DEF IsGuide
<1>2. PICK n \in Nat : items \in [1..n -> ItemType] /\ DOMAIN items = 1..n
  BY <1>1
<1>3. IsFiniteSet(1..n)
  BY FS_Interval
<1>4. \A k \in 1..n : k \in Int /\ items[k].start \in Int /\ items[k].id \in Nat
  BY <1>2 DEF ItemType
<1> QED BY <1>1, <1>2, <1>3, <1>4

LEMMA ByStartFacts ==
  ASSUME NEW g, IsGuide(g), NEW S \in SUBSET DOMAIN g.items
  PROVE  \E N \in Nat :
           /\ ByStart(g, S) \in [1..N -> S]
           /\ \A k \in S : \E n \in 1..N : ByStart(g, S)[n] = k
           /\ \A m, n \in 1..N : m < n =>
                g.items[ByStart(g, S)[m]].start <= g.items[ByStart(g, S)[n]].start
           /\ \A m, n \in 1..N : m < n => Sooner(g, ByStart(g, S)[m], ByStart(g, S)[n])
<1>1. PICK R : R = {p \in S \X S : Sooner(g, p[1], p[2])}
  OBVIOUS
<1>2. \A k \in S : k \in Int /\ g.items[k].start \in Int
  BY ItemsFacts
<1>3. IsFiniteSet(S)
  BY ItemsFacts, FS_Subset
<1>4. \A j, k \in S : <<j, k>> \in R <=> Sooner(g, j, k)
  BY <1>1
<1>5. \A k \in S : <<k, k>> \notin R
  BY <1>2, <1>4 DEF Sooner
<1>6. \A j, k, l \in S : <<j, k>> \in R /\ <<k, l>> \in R => <<j, l>> \in R
  BY <1>2, <1>4 DEF Sooner
<1>7. \A j, k \in S : j # k => <<j, k>> \in R \/ <<k, j>> \in R
  BY <1>2, <1>4 DEF Sooner
<1>8. PICK s : s = Sorted(S, R)
  OBVIOUS
<1>9. PICK N \in Nat : N = Cardinality(S)
  BY <1>3, FS_CardinalityType
<1>10. /\ s \in [1..N -> S] /\ \A k \in S : \E m \in 1..N : s[m] = k
       /\ \A l, m \in 1..N : l < m => <<s[l], s[m]>> \in R
  BY <1>3, <1>5, <1>6, <1>7, <1>8, <1>9, SortedIsASort
<1>11. \A l, m \in 1..N : l < m => Sooner(g, s[l], s[m])
  BY <1>4, <1>10
<1>12. \A l, m \in 1..N : l < m => g.items[s[l]].start <= g.items[s[m]].start
  <2>1. \A j, k \in S : Sooner(g, j, k) => g.items[j].start <= g.items[k].start
    BY <1>2 DEF Sooner
  <2>2. \A n \in 1..N : s[n] \in S
    BY <1>10
  <2> QED BY <1>11, <2>1, <2>2
<1>13. s = ByStart(g, S)
  BY <1>1, <1>8 DEF ByStart
<1> QED BY <1>10, <1>11, <1>12, <1>13

LEMMA FirstFacts ==
  ASSUME NEW g, IsGuide(g), NEW S \in SUBSET DOMAIN g.items, S # {}
  PROVE  First(g, S) \in S /\ \A j \in S : g.items[First(g, S)].start <= g.items[j].start
<1>1. PICK s : s = ByStart(g, S)
  OBVIOUS
<1>2. PICK N \in Nat : /\ s \in [1..N -> S] /\ \A k \in S : \E n \in 1..N : s[n] = k
                       /\ \A m, n \in 1..N : m < n => Sooner(g, s[m], s[n])
  BY <1>1, ByStartFacts, SMTT(30)
<1>3. 1 \in 1..N /\ s[1] \in S
  BY <1>2
<1>4. \A j \in S \ {s[1]} : Sooner(g, s[1], j)
  BY <1>2, <1>3
<1>5. PICK k \in S : k = First(g, S) /\ \A j \in S \ {k} : Sooner(g, k, j)
  BY <1>3, <1>4 DEF First
<1>6. \A j \in S : g.items[j].start \in Int
  BY ItemsFacts
<1>7. \A j \in S : g.items[k].start <= g.items[j].start
  BY <1>5, <1>6 DEF Sooner
<1> QED BY <1>5, <1>7

(* An evening has its picks, in the order of their starts.                 *)
LEMMA EveningFacts ==
  ASSUME NEW g, IsGuide(g), NEW date
  PROVE  \E N \in Nat :
           /\ Evening(g, date) \in [1..N -> PlanOf(g, date)]
           /\ \A k \in PlanOf(g, date) : \E n \in 1..N : Evening(g, date)[n] = k
           /\ \A m, n \in 1..N : m < n =>
                g.items[Evening(g, date)[m]].start <= g.items[Evening(g, date)[n]].start
<1>1. PICK S \in SUBSET DOMAIN g.items : S = PlanOf(g, date)
  BY DEF PlanOf
<1>2. Evening(g, date) = ByStart(g, S)
  BY <1>1 DEF Evening
<1> QED BY <1>1, <1>2, ByStartFacts, SMTT(30)

(* A cell shows an item of its provider and hour: the first pick, or else  *)
(* the first alternate.                                                    *)
LEMMA ShownFacts ==
  ASSUME NEW g, IsGuide(g), NEW date, NEW provider, NEW hour, NEW found,
         found = Candidates(g, date, provider, hour), found # {}
  PROVE  /\ ShownItem(g, found) \in found
         /\ \A k \in found : g.items[k].plan =>
              /\ g.items[ShownItem(g, found)].plan
              /\ g.items[ShownItem(g, found)].start <= g.items[k].start
<1>1. found \in SUBSET DOMAIN g.items
  BY DEF Candidates
<1>2. PICK picks \in SUBSET DOMAIN g.items :
        picks = {k \in found : g.items[k].plan} /\ picks \in SUBSET found
  BY <1>1
<1>3. CASE picks # {}
  <2>1. ShownItem(g, found) = First(g, picks)
    BY <1>2, <1>3 DEF ShownItem
  <2>2. /\ First(g, picks) \in picks
        /\ \A k \in picks : g.items[First(g, picks)].start <= g.items[k].start
    BY <1>3, FirstFacts
  <2> QED BY <1>2, <2>1, <2>2
<1>4. CASE picks = {}
  <2>1. ShownItem(g, found) = First(g, found)
    BY <1>2, <1>4 DEF ShownItem
  <2>2. First(g, found) \in found
    BY <1>1, FirstFacts
  <2> QED BY <1>2, <1>4, <2>1, <2>2
<1> QED BY <1>3, <1>4

CellOf(g, date, it) ==
  [item |-> it, step |-> StepOf(g, Evening(g, date), it),
   target |-> SwapTarget(g, Evening(g, date), it)]

Slotted(g, date) ==
  {s \in {it.provider : it \in ToSet(g.items)} \X BoardHours(g, date) :
     Candidates(g, date, s[1], s[2]) # {}}

LEMMA BoardFacts ==
  ASSUME NEW g, NEW date
  PROVE  Board(g, date).cells =
           {CellOf(g, date, g.items[ShownItem(g, Candidates(g, date, s[1], s[2]))]) :
              s \in Slotted(g, date)}
BY SMTT(30) DEF Board, CellOf, Slotted

(* So a cell shows an item of its evening.                                 *)
LEMMA CellFacts ==
  ASSUME NEW g, IsGuide(g), NEW date, NEW c \in Board(g, date).cells
  PROVE  \E k \in DOMAIN g.items : /\ g.items[k].date = date
                                   /\ c = CellOf(g, date, g.items[k])
<1>1. PICK s \in Slotted(g, date) :
        c = CellOf(g, date, g.items[ShownItem(g, Candidates(g, date, s[1], s[2]))])
  BY BoardFacts
<1>2. PICK found : found = Candidates(g, date, s[1], s[2]) /\ found # {}
  BY DEF Slotted
<1>3. ShownItem(g, found) \in found
  BY <1>2, ShownFacts
<1> QED BY <1>1, <1>2, <1>3 DEF Candidates

(* A swap's target is a pick of the day and minute, and there is one if    *)
(* there is such a pick.                                                   *)
LEMMA TargetFacts ==
  ASSUME NEW g, IsGuide(g), NEW date, NEW it, ~it.plan, it.date = date, NEW replaced,
         replaced = {x \in Picks(g) : x.date = it.date /\ x.start = it.start}
  PROVE  LET target == SwapTarget(g, Evening(g, date), it)
         IN  IF target = NoCell THEN replaced = {} ELSE target \in {x.id : x \in replaced}
<1>1. PICK e : e = Evening(g, date)
  OBVIOUS
<1>2. PICK N \in Nat : /\ e \in [1..N -> PlanOf(g, date)] /\ DOMAIN e = 1..N
                       /\ \A k \in PlanOf(g, date) : \E n \in 1..N : e[n] = k
  BY <1>1, EveningFacts
<1>3. PICK sharing \in SUBSET (1..N) : sharing = {n \in DOMAIN e : g.items[e[n]].start = it.start}
  BY <1>2
<1>4. CASE sharing = {}
  <2>1. SwapTarget(g, e, it) = NoCell
    BY <1>3, <1>4 DEF SwapTarget
  <2>2. ASSUME NEW x \in replaced
        PROVE  FALSE
    <3>1. PICK k \in DOMAIN g.items : /\ x = g.items[k]
                                      /\ x.plan /\ x.date = date /\ x.start = it.start
      BY DEF Picks, ToSet
    <3>2. k \in PlanOf(g, date)
      BY <3>1 DEF PlanOf
    <3>3. PICK n \in 1..N : e[n] = k
      BY <1>2, <3>2
    <3> QED BY <1>2, <1>3, <1>4, <3>1, <3>3
  <2> QED BY <1>1, <2>1, <2>2
<1>5. CASE sharing # {}
  <2>1. IsFiniteSet(sharing)
    <3>1. IsFiniteSet(1..N)
      BY FS_Interval
    <3> QED BY <3>1, FS_Subset
  <2>2. sharing \in SUBSET Int
    OBVIOUS
  <2>3. PICK n \in sharing : n = Max(sharing)
    BY <1>5, <2>1, <2>2, MaxFacts
  <2>4. PICK k \in PlanOf(g, date) : k = e[n] /\ g.items[k].start = it.start
    BY <1>2, <1>3
  <2>5. SwapTarget(g, e, it) = g.items[k].id
    BY <1>3, <1>5, <2>3, <2>4 DEF SwapTarget
  <2>6. g.items[k].id \in Nat
    BY <2>4, ItemsFacts DEF PlanOf
  <2>7. g.items[k] \in replaced
    BY <2>4 DEF PlanOf, Picks, ToSet
  <2> QED BY <1>1, <2>5, <2>6, <2>7, NoCellAssumption
<1> QED BY <1>4, <1>5

(* A pick's step is its place in the evening.                              *)
LEMMA StepFacts ==
  ASSUME NEW g, IsGuide(g), NEW date, NEW k \in PlanOf(g, date)
  PROVE  /\ StepOf(g, Evening(g, date), g.items[k]) \in DOMAIN Evening(g, date)
         /\ Evening(g, date)[StepOf(g, Evening(g, date), g.items[k])] = k
<1>1. PICK e : e = Evening(g, date)
  OBVIOUS
<1>2. PICK N \in Nat : /\ e \in [1..N -> PlanOf(g, date)] /\ DOMAIN e = 1..N
                       /\ \A j \in PlanOf(g, date) : \E n \in 1..N : e[n] = j
  BY <1>1, EveningFacts
<1>3. \E n \in DOMAIN e : g.items[e[n]].id = g.items[k].id
  BY <1>2
<1>4. g.items[k].plan
  BY DEF PlanOf
<1>5. PICK n \in DOMAIN e : n = StepOf(g, e, g.items[k]) /\ g.items[e[n]].id = g.items[k].id
  BY <1>3, <1>4 DEF StepOf
<1>6. e[n] \in DOMAIN g.items /\ k \in DOMAIN g.items
  BY <1>2 DEF PlanOf
<1>7. e[n] = k
  BY <1>5, <1>6 DEF IsGuide
<1> QED BY <1>1, <1>5, <1>7

(* The board can be watched from and swapped on: a swap keeps the time, no *)
(* pick is hidden behind an alternate, and the steps are in order.         *)
THEOREM BoardIsSound == Spec => []BoardSound
<1>1. IInv => BoardSound
  <2> SUFFICES ASSUME IsGuide(guide)
               PROVE  BoardSound
    BY DEF IInv, PageInv
  <2>1. SwapKeepsTheTime
    <3> SUFFICES ASSUME NEW c \in Board(guide, chosen).cells, ~c.item.plan, NEW replaced,
                        replaced = {it \in Picks(guide) : it.date = c.item.date
                                                         /\ it.start = c.item.start}
                 PROVE  IF c.target = NoCell THEN replaced = {}
                        ELSE c.target \in {it.id : it \in replaced}
      BY DEF SwapKeepsTheTime
    <3>1. PICK k \in DOMAIN guide.items : /\ guide.items[k].date = chosen
                                          /\ c = CellOf(guide, chosen, guide.items[k])
      BY CellFacts
    <3>2. PICK it : it = guide.items[k] /\ c.item = it
                    /\ c.target = SwapTarget(guide, Evening(guide, chosen), it)
      BY <3>1 DEF CellOf
    <3> QED BY <3>1, <3>2, TargetFacts
  <2>2. BoardShowsPicks
    <3> DEFINE cells == Board(guide, chosen).cells
               steps == {c \in cells : c.item.plan}
    <3>1. ASSUME NEW c \in steps, NEW e \in steps, c.step < e.step
          PROVE  c.item.start <= e.item.start
      <4>1. PICK j \in DOMAIN guide.items : /\ guide.items[j].date = chosen
                                            /\ c = CellOf(guide, chosen, guide.items[j])
        BY CellFacts
      <4>2. PICK k \in DOMAIN guide.items : /\ guide.items[k].date = chosen
                                            /\ e = CellOf(guide, chosen, guide.items[k])
        BY CellFacts
      <4>3. PICK evening : evening = Evening(guide, chosen)
        OBVIOUS
      <4>4. /\ c.item = guide.items[j] /\ c.step = StepOf(guide, evening, guide.items[j])
            /\ e.item = guide.items[k] /\ e.step = StepOf(guide, evening, guide.items[k])
        BY <4>1, <4>2, <4>3 DEF CellOf
      <4>5. j \in PlanOf(guide, chosen) /\ k \in PlanOf(guide, chosen)
        BY <4>1, <4>2, <4>4 DEF PlanOf
      <4>6. /\ c.step \in DOMAIN evening /\ evening[c.step] = j
            /\ e.step \in DOMAIN evening /\ evening[e.step] = k
        BY <4>3, <4>4, <4>5, StepFacts
      <4>7. \A m, n \in DOMAIN evening : m < n =>
              guide.items[evening[m]].start <= guide.items[evening[n]].start
        BY <4>3, EveningFacts, SMTT(30)
      <4> QED BY <3>1, <4>4, <4>6, <4>7
    <3>2. ASSUME NEW it \in Picks(guide), it.date = chosen
          PROVE  \E c \in steps : /\ c.item.provider = it.provider
                                  /\ HourOf(c.item.start) = HourOf(it.start)
                                  /\ c.item.start <= it.start
      <4>1. PICK k \in DOMAIN guide.items : it = guide.items[k] /\ it.plan
        BY DEF Picks, ToSet
      <4>2. PICK found : found = Candidates(guide, chosen, it.provider, HourOf(it.start))
        OBVIOUS
      <4>3. k \in found
        BY <3>2, <4>1, <4>2 DEF Candidates
      <4>4. PICK slot \in Slotted(guide, chosen) : slot = <<it.provider, HourOf(it.start)>>
        <5>1. HourOf(it.start) \in BoardHours(guide, chosen)
          BY <3>2, <4>1 DEF BoardHours, PlanOf
        <5>2. it.provider \in {x.provider : x \in ToSet(guide.items)}
          BY <4>1 DEF ToSet
        <5>3. Candidates(guide, chosen, it.provider, HourOf(it.start)) # {}
          BY <4>2, <4>3
        <5> QED BY <5>1, <5>2, <5>3 DEF Slotted
      <4>5. PICK shown : /\ shown = ShownItem(guide, found) /\ shown \in found
                         /\ guide.items[shown].plan
                         /\ guide.items[shown].start <= it.start
        BY <4>1, <4>2, <4>3, ShownFacts
      <4>6. PICK c \in cells : c = CellOf(guide, chosen, guide.items[shown])
        BY <4>2, <4>4, <4>5, BoardFacts
      <4>7. c.item = guide.items[shown]
        BY <4>6 DEF CellOf
      <4> QED BY <4>2, <4>5, <4>7 DEF Candidates
    <3> QED BY <3>1, <3>2 DEF BoardShowsPicks
  <2> QED BY <2>1, <2>2 DEF BoardSound
<1> QED BY <1>1, Invariance, PTL
=============================================================================
