------------------------- MODULE SymbolTableProofs --------------------------
(***************************************************************************)
(* The symbol table keeps the order its searches rely on and every item it *)
(* was given, and implements interning: for any names, any hash function   *)
(* and any capacity.                                                       *)
(***************************************************************************)
EXTENDS SymbolTable, FiniteSetTheorems, TLAPS

(***************************************************************************)
(* The geometry of an array of c slots in which the last is followed by    *)
(* the first, apart from the variables.                                    *)
(***************************************************************************)
\* How far p is from the slot that an item with hash h desires.
Dist(c, h, p) == IF p >= h % c THEN p - (h % c) ELSE p + c - (h % c)

\* The slot j places before p, and the one after it.
Back(c, p, j) == IF p >= j THEN p - j ELSE p + c - j
Step1(c, p) == IF p + 1 = c THEN 0 ELSE p + 1

\* An item at distance d from home has items no nearer to theirs in the
\* slots from `first' to d places before p.
Resting(c, hs, d, p, first) ==
  \A j \in first .. d : /\ hs[Back(c, p, j)] # 0
                        /\ Dist(c, hs[Back(c, p, j)], Back(c, p, j)) >= d - j

Ordered(c, hs) ==
  \A p \in Slots(c) : hs[p] # 0 => Resting(c, hs, Dist(c, hs[p], p), p, 0)

-----------------------------------------------------------------------------
\* The old slots that have not been copied yet.
Left == { q \in old.next .. old.size - 1 : old.hashes[q] # 0 }

\* What is in the slot that is looked at, and in hand, is what it says.
Records ==
  /\ old = [hashes |-> old.hashes, entries |-> old.entries, size |-> old.size,
            next |-> old.next]
  /\ pc = "insert" => hand.hash = HashString(hand.key)

\* No symbol is in two places.
Apart ==
  /\ \A p, q \in Occupied : p # q => entries[p].value # entries[q].value
  /\ \A p, q \in Left : p # q => old.entries[p].value # old.entries[q].value
  /\ \A p \in Occupied, q \in Left : entries[p].value # old.entries[q].value
  /\ pc = "insert" =>
       /\ \A p \in Occupied : entries[p].value # hand.value
       /\ \A q \in Left : old.entries[q].value # hand.value

given == IF growing THEN item_count - 1 ELSE item_count

\* A symbol for each name and a name for each symbol given out.
Matching ==
  /\ \A a, b \in Items : a[1] = b[1] <=> a[2] = b[2]
  /\ \A n \in 1 .. given : \E a \in Items : a[2] = n
  /\ \A a \in Items : a[2] \in 1 .. given

\* _Find has passed only slots that cannot have the name, and it would have
\* been placed there or later.
Searching ==
  pc = "find" =>
    /\ dist = Dist(capacity, HashString(key), pos)
    /\ Resting(capacity, hashes, dist, pos, 1)
    /\ \A j \in 1 .. dist : entries[Back(capacity, pos, j)].key # key

\* The name that is being created is new, and is there once it is inserted.
Creating ==
  /\ growing => \A a \in Items : a[1] # key
  /\ pc = "insert" /\ ~growing => <<key, item_count>> \in Items

\* There is room for one more, and a table grows for a name.
Room == item_count < capacity /\ (growing => item_count > 0)

TableInv ==
  /\ TypeOK
  /\ Records
  /\ SlotsInOrder /\ HandInOrder
  /\ Apart
  /\ Matching
  /\ Searching
  /\ Creating
  /\ Room

-----------------------------------------------------------------------------
(***************************************************************************)
(* The geometry.                                                           *)
(***************************************************************************)
\* A desired position is a slot.
LEMMA DesiredIsASlot ==
  ASSUME NEW c \in Nat \ {0}, NEW h \in Nat
  PROVE  h % c \in Slots(c)
BY DEF Slots

\* Places before a slot are slots, and the place 0 before is the slot.
LEMMA BackIsASlot ==
  ASSUME NEW c \in Nat \ {0}, NEW p \in Slots(c), NEW j \in Slots(c)
  PROVE  /\ Back(c, p, j) \in Slots(c)
         /\ Back(c, p, 0) = p
         /\ j # 0 => Back(c, p, j) # p
BY DEF Slots, Back

\* Going back is injective.
LEMMA BackOnce ==
  ASSUME NEW c \in Nat \ {0}, NEW p \in Slots(c),
         NEW i \in Slots(c), NEW j \in Slots(c), Back(c, p, i) = Back(c, p, j)
  PROVE  i = j
BY DEF Slots, Back

\* Every slot is some way back from every other.
LEMMA BackReaches ==
  ASSUME NEW c \in Nat \ {0}, NEW p \in Slots(c), NEW q \in Slots(c)
  PROVE  Back(c, p, q) \in Slots(c) /\ Back(c, p, Back(c, p, q)) = q
BY DEF Slots, Back

\* Going on a slot and back one more is the same place.
LEMMA StepThenBack ==
  ASSUME NEW c \in Nat \ {0}, NEW p \in Slots(c), NEW j \in Slots(c),
         j + 1 \in Slots(c)
  PROVE  /\ Step1(c, p) \in Slots(c)
         /\ Back(c, Step1(c, p), j + 1) = Back(c, p, j)
BY DEF Slots, Back, Step1

\* A distance is less than the number of slots.
LEMMA DistInRange ==
  ASSUME NEW c \in Nat \ {0}, NEW h \in Nat, NEW p \in Slots(c)
  PROVE  Dist(c, h, p) \in Slots(c)
<1> DEFINE d == h % c
<1>1. d \in Slots(c)
  BY DesiredIsASlot
<1> HIDE DEF d
<1>2. (IF p >= d THEN p - d ELSE p + c - d) \in Slots(c)
  BY <1>1 DEF Slots
<1> QED
  BY <1>2 DEF Dist, d

\* The place that far back is the desired slot, whose distance is 0.
LEMMA DistOfHome ==
  ASSUME NEW c \in Nat \ {0}, NEW h \in Nat
  PROVE  Dist(c, h, h % c) = 0
BY DesiredIsASlot DEF Slots, Dist

\* One slot further on, an item is one place further from home.
LEMMA DistOfStep ==
  ASSUME NEW c \in Nat \ {0}, NEW h \in Nat, NEW p \in Slots(c),
         Dist(c, h, p) + 1 < c
  PROVE  Dist(c, h, Step1(c, p)) = Dist(c, h, p) + 1
<1> DEFINE d == h % c
<1>1. d \in Slots(c)
  BY DesiredIsASlot
<1>2. (IF p >= d THEN p - d ELSE p + c - d) + 1 < c
  BY DEF Dist
<1> HIDE DEF d
<1>3. LET q == IF p + 1 = c THEN 0 ELSE p + 1
      IN (IF q >= d THEN q - d ELSE q + c - d)
           = (IF p >= d THEN p - d ELSE p + c - d) + 1
  BY <1>1, <1>2 DEF Slots
<1> QED
  BY <1>3 DEF Dist, Step1, d

\* An item that is at distance d is at distance d - j, put j places back.
LEMMA DistOfBack ==
  ASSUME NEW c \in Nat \ {0}, NEW h \in Nat, NEW p \in Slots(c),
         NEW j \in 0 .. Dist(c, h, p)
  PROVE  Dist(c, h, Back(c, p, j)) = Dist(c, h, p) - j
<1> DEFINE d == h % c
<1>1. d \in Slots(c)
  BY DesiredIsASlot
<1>2. j \in 0 .. (IF p >= d THEN p - d ELSE p + c - d)
  BY DEF Dist
<1> HIDE DEF d
<1>3. LET q == IF p >= j THEN p - j ELSE p + c - j
      IN (IF q >= d THEN q - d ELSE q + c - d)
           = (IF p >= d THEN p - d ELSE p + c - d) - j
  BY <1>1, <1>2 DEF Slots
<1> QED
  BY <1>3 DEF Dist, Back, d


\* Items with the same hash at the same distance are in the same slot.
LEMMA DistOnce ==
  ASSUME NEW c \in Nat \ {0}, NEW h \in Nat,
         NEW p \in Slots(c), NEW q \in Slots(c), Dist(c, h, p) = Dist(c, h, q)
  PROVE  p = q
<1> DEFINE d == h % c
<1>1. d \in Slots(c)
  BY DesiredIsASlot
<1>2. (IF p >= d THEN p - d ELSE p + c - d)
        = (IF q >= d THEN q - d ELSE q + c - d)
  BY DEF Dist
<1> HIDE DEF d
<1> QED
  BY <1>1, <1>2 DEF Slots

-----------------------------------------------------------------------------
(***************************************************************************)
(* The order of the slots.                                                 *)
(***************************************************************************)
\* An item put where no item is further from home, and the items before it
\* let it rest, keeps the order.
LEMMA PutInOrder ==
  ASSUME NEW c \in Nat \ {0}, NEW hs \in [Slots(c) -> Nat],
         NEW p \in Slots(c), NEW h \in Nat \ {0},
         Ordered(c, hs), Resting(c, hs, Dist(c, h, p), p, 1),
         hs[p] # 0 => Dist(c, hs[p], p) < Dist(c, h, p)
  PROVE  Ordered(c, [hs EXCEPT ![p] = h])
<1> DEFINE hs2 == [hs EXCEPT ![p] = h]
           d == Dist(c, h, p)
<1>1. /\ hs2[p] = h /\ d \in Slots(c)
      /\ \A q \in Slots(c) : q # p => hs2[q] = hs[q]
  BY DistInRange
<1>2. ASSUME NEW j \in 0 .. d
      PROVE  /\ hs2[Back(c, p, j)] # 0
             /\ Dist(c, hs2[Back(c, p, j)], Back(c, p, j)) >= d - j
  <2>1. j \in Slots(c)
    BY <1>1 DEF Slots
  <2>2. CASE j = 0
    BY <1>1, <2>1, <2>2, BackIsASlot DEF Slots
  <2>3. CASE j # 0
    <3>1. j \in 1 .. d
      BY <2>3, <1>1 DEF Slots
    <3>2. hs2[Back(c, p, j)] = hs[Back(c, p, j)]
      BY <1>1, <2>1, <2>3, BackIsASlot
    <3> QED
      BY <3>1, <3>2 DEF Resting
  <2> QED
    BY <2>2, <2>3
<1>3. ASSUME NEW q \in Slots(c), q # p, hs[q] # 0,
             NEW j \in 0 .. Dist(c, hs[q], q)
      PROVE  /\ hs2[Back(c, q, j)] # 0
             /\ Dist(c, hs2[Back(c, q, j)], Back(c, q, j))
                  >= Dist(c, hs[q], q) - j
  <2> DEFINE b == Back(c, q, j)
             e == Dist(c, hs[q], q)
  <2>1. e \in Slots(c)
    BY DistInRange
  <2>2. j \in Slots(c)
    BY <2>1 DEF Slots
  <2>3. b \in Slots(c)
    BY <2>2, BackIsASlot
  <2>4. hs[b] # 0 /\ Dist(c, hs[b], b) >= e - j
    BY <1>3 DEF Ordered, Resting
  <2>5. CASE b = p
    <3>1. Dist(c, hs[b], b) \in Slots(c)
      BY <2>3, DistInRange
    <3>2. hs2[b] = h /\ Dist(c, hs2[b], b) = d /\ Dist(c, hs[b], b) < d
      BY <2>4, <2>5, <1>1
    <3> HIDE DEF hs2, d, b, e
    <3>3. hs2[b] # 0 /\ Dist(c, hs2[b], b) >= e - j
      BY <3>1, <3>2, <2>1, <2>2, <2>4, <1>1 DEF Slots
    <3> QED
      BY <3>3 DEF b, e
  <2>6. CASE b # p
    BY <1>1, <2>3, <2>4, <2>6
  <2> QED
    BY <2>5, <2>6
<1>4. ASSUME NEW q \in Slots(c), hs2[q] # 0
      PROVE  Resting(c, hs2, Dist(c, hs2[q], q), q, 0)
  <2>1. CASE q = p
    BY <2>1, <1>1, <1>2 DEF Resting
  <2>2. CASE q # p
    <3>1. hs2[q] = hs[q]
      BY <1>1, <2>2
    <3>2. hs[q] # 0
      BY <3>1, <1>4
    <3>3. Resting(c, hs2, Dist(c, hs[q], q), q, 0)
      BY <3>2, <2>2, <1>3 DEF Resting
    <3> QED
      BY <3>1, <3>3
  <2> QED
    BY <2>1, <2>2
<1> HIDE DEF hs2
<1>5. Ordered(c, hs2)
  BY <1>4 DEF Ordered
<1> QED
  BY <1>5 DEF hs2

\* An item that finds a slot taken by one at least as far from home may rest
\* in the next.
LEMMA MoveOn ==
  ASSUME NEW c \in Nat \ {0}, NEW hs \in [Slots(c) -> Nat],
         NEW p \in Slots(c), NEW d \in Nat, d + 1 < c,
         Resting(c, hs, d, p, 1), hs[p] # 0, Dist(c, hs[p], p) >= d
  PROVE  Resting(c, hs, d + 1, Step1(c, p), 1)
<1> SUFFICES ASSUME NEW j \in 1 .. d + 1
             PROVE  /\ hs[Back(c, Step1(c, p), j)] # 0
                    /\ Dist(c, hs[Back(c, Step1(c, p), j)],
                            Back(c, Step1(c, p), j)) >= (d + 1) - j
  BY DEF Resting
<1>1. PICK i \in 0 .. d : j = i + 1
  <2>1. j - 1 \in 0 .. d /\ j = (j - 1) + 1
    OBVIOUS
  <2> QED
    BY <2>1
<1>2. i \in Slots(c) /\ i + 1 \in Slots(c)
  BY DEF Slots
<1>3. Back(c, Step1(c, p), j) = Back(c, p, i)
  BY <1>1, <1>2, StepThenBack
<1>4. (d + 1) - j = d - i
  BY <1>1
<1>5. hs[Back(c, p, i)] # 0 /\ Dist(c, hs[Back(c, p, i)], Back(c, p, i)) >= d - i
  <2>1. CASE i = 0
    BY <2>1, BackIsASlot, <1>2
  <2>2. CASE i # 0
    <3>1. i \in 1 .. d
      BY <2>2
    <3> QED
      BY <3>1 DEF Resting
  <2> QED
    BY <2>1, <2>2
<1> QED
  BY <1>3, <1>4, <1>5

\* A search that has passed only taken slots has not come around while a slot
\* is empty.
LEMMA NotAround ==
  ASSUME NEW c \in Nat \ {0}, NEW hs \in [Slots(c) -> Nat],
         NEW p \in Slots(c), NEW d \in Slots(c),
         Resting(c, hs, d, p, 1), hs[p] # 0, \E q \in Slots(c) : hs[q] = 0
  PROVE  d + 1 < c
<1>1. PICK q \in Slots(c) : hs[q] = 0
  OBVIOUS
<1>2. SUFFICES ASSUME d + 1 >= c PROVE FALSE
  BY DEF Slots
<1>3. Back(c, p, q) \in Slots(c) /\ Back(c, p, Back(c, p, q)) = q
  BY BackReaches
<1>4. Back(c, p, q) \in 0 .. d
  BY <1>2, <1>3 DEF Slots
<1>5. CASE Back(c, p, q) = 0
  <2>1. q = p
    BY <1>3, <1>5, BackIsASlot
  <2> QED
    BY <2>1, <1>1
<1>6. CASE Back(c, p, q) # 0
  <2>1. Back(c, p, q) \in 1 .. d
    BY <1>4, <1>6
  <2> QED
    BY <2>1, <1>1, <1>3 DEF Resting
<1> QED
  BY <1>5, <1>6

\* An item evicted by one that lets it go may rest in the next slot.
LEMMA EvictedMoveOn ==
  ASSUME NEW c \in Nat \ {0}, NEW hs \in [Slots(c) -> Nat],
         NEW p \in Slots(c), NEW h \in Nat \ {0},
         Ordered(c, hs), hs[p] # 0, Dist(c, hs[p], p) < Dist(c, h, p)
  PROVE  /\ Dist(c, hs[p], p) + 1 < c
         /\ Resting(c, [hs EXCEPT ![p] = h], Dist(c, hs[p], p) + 1,
                    Step1(c, p), 1)
<1> DEFINE hs2 == [hs EXCEPT ![p] = h]
           e == Dist(c, hs[p], p)
<1>1. e \in Slots(c) /\ Dist(c, h, p) \in Slots(c)
  BY DistInRange
<1>2. e \in Nat /\ e + 1 < c
  BY <1>1 DEF Slots
<1>3. /\ hs2 \in [Slots(c) -> Nat] /\ hs2[p] = h
      /\ \A q \in Slots(c) : q # p => hs2[q] = hs[q]
  OBVIOUS
<1>4. Resting(c, hs, e, p, 0)
  BY DEF Ordered
<1>5. ASSUME NEW j \in 1 .. e
      PROVE  /\ hs2[Back(c, p, j)] # 0
             /\ Dist(c, hs2[Back(c, p, j)], Back(c, p, j)) >= e - j
  <2>1. j \in Slots(c) /\ j # 0 /\ j \in 0 .. e
    BY <1>1 DEF Slots
  <2>2. Back(c, p, j) \in Slots(c) /\ Back(c, p, j) # p
    BY <2>1, BackIsASlot
  <2>3. hs2[Back(c, p, j)] = hs[Back(c, p, j)]
    BY <2>2, <1>3
  <2> QED
    BY <2>1, <2>3, <1>4 DEF Resting
<1>6. Resting(c, hs2, e, p, 1)
  BY <1>5 DEF Resting
<1>7. hs2[p] # 0 /\ Dist(c, hs2[p], p) >= e
  BY <1>1, <1>3 DEF Slots
<1> HIDE DEF hs2, e
<1>8. Resting(c, hs2, e + 1, Step1(c, p), 1)
  BY <1>2, <1>3, <1>6, <1>7, MoveOn
<1> QED
  BY <1>2, <1>8 DEF hs2, e

\* Where a search stops, no slot holds an item with that hash that the search
\* has not passed.
LEMMA NowhereElse ==
  ASSUME NEW c \in Nat \ {0}, NEW hs \in [Slots(c) -> Nat],
         NEW p \in Slots(c), NEW h \in Nat \ {0}, Ordered(c, hs),
         hs[p] = 0 \/ Dist(c, h, p) > Dist(c, hs[p], p),
         NEW q \in Slots(c), hs[q] = h
  PROVE  \E j \in 1 .. Dist(c, h, p) : q = Back(c, p, j)
<1> DEFINE d == Dist(c, h, p)
           e == Dist(c, h, q)
<1>1. d \in Slots(c) /\ e \in Slots(c)
  BY DistInRange
<1>2. CASE e < d
  <2>1. /\ d - e \in 1 .. d /\ d - e \in 0 .. d /\ d - e \in Slots(c)
        /\ d - (d - e) = e
    BY <1>1, <1>2 DEF Slots
  <2>2. Dist(c, h, Back(c, p, d - e)) = e
    BY <2>1, DistOfBack
  <2>3. Back(c, p, d - e) \in Slots(c)
    BY <2>1, BackIsASlot
  <2>4. q = Back(c, p, d - e)
    BY <2>2, <2>3, DistOnce
  <2> QED
    BY <2>1, <2>4
<1>3. CASE e >= d
  <2>1. e - d \in 0 .. e /\ e - d \in Slots(c) /\ e - (e - d) = d
    BY <1>1, <1>3 DEF Slots
  <2>2. Dist(c, h, Back(c, q, e - d)) = d
    BY <2>1, DistOfBack
  <2>3. Back(c, q, e - d) \in Slots(c)
    BY <2>1, BackIsASlot
  <2>4. p = Back(c, q, e - d)
    BY <2>2, <2>3, DistOnce
  <2>5. Resting(c, hs, e, q, 0)
    BY DEF Ordered
  <2>6. hs[p] # 0 /\ Dist(c, hs[p], p) >= d
    BY <2>1, <2>4, <2>5 DEF Resting
  <2>7. Dist(c, hs[p], p) \in Slots(c)
    BY DistInRange
  <2> QED
    BY <2>6, <2>7, <1>1 DEF Slots
<1> QED
  BY <1>1, <1>2, <1>3 DEF Slots

\* Fewer numbers than slots leave a slot empty.
LEMMA OneIsEmpty ==
  ASSUME NEW c \in Nat \ {0}, NEW hs, NEW n \in Nat, n < c, NEW number,
         \A p \in Slots(c) : hs[p] # 0 => number[p] \in 1 .. n,
         \A p, q \in Slots(c) :
           hs[p] # 0 /\ hs[q] # 0 /\ p # q => number[p] # number[q]
  PROVE  \E p \in Slots(c) : hs[p] = 0
<1> SUFFICES ASSUME \A p \in Slots(c) : hs[p] # 0 PROVE FALSE
  OBVIOUS
<1> DEFINE f == [p \in Slots(c) |-> number[p]]
<1>1. f \in [Slots(c) -> 1 .. n]
  OBVIOUS
<1>2. IsFiniteSet(Slots(c)) /\ Cardinality(Slots(c)) = c
  BY FS_Interval DEF Slots
<1>3. IsFiniteSet(1 .. n) /\ Cardinality(1 .. n) = n
  BY FS_Interval
<1>4. PICK x \in Slots(c), y \in Slots(c) : x # y /\ f[x] = f[y]
  <2> HIDE DEF f
  <2> QED
    BY <1>1, <1>2, <1>3, FS_PigeonHole
<1> QED
  BY <1>4


-----------------------------------------------------------------------------
(***************************************************************************)
(* The operators of the module, in these terms.                            *)
(***************************************************************************)
\* A hash is a positive number.
LEMMA HashType == \A k \in Key : HashString(k) \in Nat \ {0}
<1> SUFFICES ASSUME NEW k \in Key PROVE HashString(k) \in Nat \ {0}
  OBVIOUS
<1>1. CityHash[k] \in Nat /\ HashLimit \in Nat \ {0}
  BY SymbolTableAssumption
<1>2. CityHash[k] % HashLimit \in Nat
  BY <1>1
<1> QED
  BY <1>2 DEF HashString

\* The order of the slots is that of the array.
LEMMA OrderIsOrdered ==
  ASSUME capacity \in Nat \ {0}, hashes \in [Slots(capacity) -> Nat]
  PROVE  SlotsInOrder <=> Ordered(capacity, hashes)
<1>1. /\ \A h, p : ProbeDistance(h, p) = Dist(capacity, h, p)
      /\ \A p, j : Before(p, j) = Back(capacity, p, j)
  BY DEF ProbeDistance, DesiredPosition, Dist, Before, Back
<1>2. ASSUME NEW p \in Slots(capacity),
             NEW j \in 0 .. Dist(capacity, hashes[p], p)
      PROVE  Back(capacity, p, j) \in DOMAIN hashes
  <2>1. Dist(capacity, hashes[p], p) \in Slots(capacity)
    BY DistInRange
  <2>2. j \in Slots(capacity)
    BY <2>1 DEF Slots
  <2> QED
    BY <2>2, BackIsASlot
<1>3. SlotsInOrder <=>
        \A p \in Slots(capacity) : hashes[p] # 0 =>
          \A j \in 0 .. Dist(capacity, hashes[p], p) :
            /\ Back(capacity, p, j) \in DOMAIN hashes
            /\ hashes[Back(capacity, p, j)] # 0
            /\ Dist(capacity, hashes[Back(capacity, p, j)], Back(capacity, p, j))
                 >= Dist(capacity, hashes[p], p) - j
  BY <1>1 DEF SlotsInOrder, Occupied
<1> QED
  BY <1>2, <1>3 DEF Ordered, Resting

\* The item in hand rests before its slot.
LEMMA HandIsResting ==
  ASSUME TypeOK
  PROVE  HandInOrder <=>
           (pc = "insert" => /\ dist = Dist(capacity, hand.hash, pos)
                             /\ Resting(capacity, hashes, dist, pos, 1))
<1>1. ASSUME pc = "insert", dist = Dist(capacity, hand.hash, pos)
      PROVE  dist \in Slots(capacity)
  BY <1>1, DistInRange DEF TypeOK, Item
<1>2. ASSUME pc = "insert", dist = Dist(capacity, hand.hash, pos),
             NEW j \in 1 .. dist
      PROVE  Back(capacity, pos, j) \in DOMAIN hashes
  <2>1. j \in Slots(capacity)
    BY <1>1, <1>2 DEF Slots, TypeOK
  <2> QED
    BY <1>2, <2>1, BackIsASlot DEF TypeOK
<1>3. /\ \A h, p : ProbeDistance(h, p) = Dist(capacity, h, p)
      /\ \A p, j : Before(p, j) = Back(capacity, p, j)
  BY DEF ProbeDistance, DesiredPosition, Dist, Before, Back
<1> QED
  BY <1>2, <1>3 DEF HandInOrder, Resting, Occupied

\* The items in some of the slots of two arrays.
InSlots(hs, es, S) ==
  { <<es[p].key, es[p].value>> : p \in { q \in S : hs[q] # 0 } }

InHand == IF pc = "insert" THEN {<<hand.key, hand.value>>} ELSE {}

\* What the operators of the module say, said of the arrays.
InTheseTerms ==
  /\ SlotsInOrder <=> Ordered(capacity, hashes)
  /\ HandInOrder <=>
       (pc = "insert" => /\ dist = Dist(capacity, hand.hash, pos)
                         /\ Resting(capacity, hashes, dist, pos, 1))
  /\ Items = InSlots(hashes, entries, Slots(capacity)) \union InHand
               \union InSlots(old.hashes, old.entries,
                              old.next .. old.size - 1)

\* So they do, in every state of the type.
LEMMA SaidOfArrays == TypeOK => InTheseTerms
<1> SUFFICES ASSUME TypeOK PROVE InTheseTerms
  OBVIOUS
<1>1. SlotsInOrder <=> Ordered(capacity, hashes)
  BY OrderIsOrdered DEF TypeOK
<1>2. HandInOrder <=>
       (pc = "insert" => /\ dist = Dist(capacity, hand.hash, pos)
                         /\ Resting(capacity, hashes, dist, pos, 1))
  BY HandIsResting
<1>3. Items = InSlots(hashes, entries, Slots(capacity)) \union InHand
               \union InSlots(old.hashes, old.entries,
                              old.next .. old.size - 1)
  BY DEF TypeOK, Items, InSlots, InHand, Occupied
<1> QED
  BY <1>1, <1>2, <1>3 DEF InTheseTerms

\* And after a step.
LEMMA SaidOfArraysThen == TypeOK' => InTheseTerms'
<1>1. (TypeOK => InTheseTerms)'
  BY SaidOfArrays, PTL
<1> QED
  BY <1>1

\* A slot more holds its item more, if any.
LEMMA OneSlotMore ==
  ASSUME NEW S, NEW hs, NEW es, NEW p
  PROVE  InSlots(hs, es, S \union {p})
           = InSlots(hs, es, S)
               \union (IF hs[p] # 0 THEN {<<es[p].key, es[p].value>>} ELSE {})
BY DEF InSlots

-----------------------------------------------------------------------------
(***************************************************************************)
(* What the invariant says of a state.                                     *)
(***************************************************************************)
\* A slot is empty.
LEMMA AnEmptySlot ==
  ASSUME TableInv
  PROVE  \E p \in Slots(capacity) : hashes[p] = 0
<1>1. /\ capacity \in Nat \ {0} /\ item_count \in Nat /\ item_count < capacity
      /\ hashes \in [Slots(capacity) -> Nat]
      /\ growing \in BOOLEAN
  BY DEF TableInv, TypeOK, Room
<1> DEFINE number == [p \in Slots(capacity) |-> entries[p].value]
<1>2. ASSUME NEW p \in Slots(capacity), hashes[p] # 0
      PROVE  number[p] \in 1 .. item_count
  <2>1. <<entries[p].key, entries[p].value>> \in Items
    BY <1>1, <1>2 DEF Items, Occupied
  <2>2. <<entries[p].key, entries[p].value>>[2] \in 1 .. given
    BY <2>1 DEF TableInv, Matching
  <2> QED
    BY <1>1, <2>2 DEF given
<1>3. \A p, q \in Slots(capacity) :
        hashes[p] # 0 /\ hashes[q] # 0 /\ p # q => number[p] # number[q]
  BY <1>1 DEF TableInv, Apart, Occupied
<1> HIDE DEF number
<1> QED
  BY <1>1, <1>2, <1>3, OneIsEmpty

\* A search that ends without the name shows that the name is new.
LEMMA MissingIsNew ==
  ASSUME TableInv, pc = "find", Missing
  PROVE  \A a \in Items : a[1] # key
<1>1. /\ capacity \in Nat \ {0} /\ hashes \in [Slots(capacity) -> Nat]
      /\ pos \in Slots(capacity) /\ key \in Key
      /\ old.size = 0 /\ old.next \in 0 .. old.size
  BY DEF TableInv, TypeOK
<1> DEFINE h == HashString(key)
<1>2. h \in Nat \ {0}
  BY <1>1, HashType
<1>3. Ordered(capacity, hashes)
  BY SaidOfArrays DEF TableInv, InTheseTerms
<1>4. dist = Dist(capacity, h, pos)
  BY DEF TableInv, Searching
<1>5. hashes[pos] = 0 \/ Dist(capacity, h, pos) > Dist(capacity, hashes[pos], pos)
  BY <1>4 DEF Missing, ProbeDistance, DesiredPosition, Dist
<1>6. ASSUME NEW q \in Slots(capacity), hashes[q] # 0 PROVE entries[q].key # key
  <2>1. SUFFICES ASSUME entries[q].key = key PROVE FALSE
    OBVIOUS
  <2>2. hashes[q] = h
    BY <1>1, <1>6, <2>1 DEF TableInv, TypeOK, Occupied
  <2> HIDE DEF h
  <2>3. PICK j \in 1 .. Dist(capacity, h, pos) : q = Back(capacity, pos, j)
    BY <1>1, <1>2, <1>3, <1>5, <2>2, NowhereElse
  <2> QED
    BY <1>4, <2>1, <2>3 DEF TableInv, Searching
<1>7. old.next .. old.size - 1 = {}
  BY <1>1
<1>8. Items = InSlots(hashes, entries, Slots(capacity))
  BY <1>7, SaidOfArrays DEF TableInv, InTheseTerms, InHand, InSlots
<1> QED
  BY <1>6, <1>8 DEF InSlots

\* A search or an insertion that goes on does not come around to its start.
LEMMA GoesOn ==
  ASSUME TableInv, pc = "find" \/ pc = "insert", hashes[pos] # 0,
         dist <= Dist(capacity, hashes[pos], pos)
  PROVE  /\ dist + 1 < capacity
         /\ Step1(capacity, pos) \in Slots(capacity)
         /\ Resting(capacity, hashes, dist + 1, Step1(capacity, pos), 1)
<1>1. /\ capacity \in Nat \ {0} /\ hashes \in [Slots(capacity) -> Nat]
      /\ pos \in Slots(capacity) /\ dist \in Nat
  BY DEF TableInv, TypeOK
<1>2. dist \in Slots(capacity) /\ Resting(capacity, hashes, dist, pos, 1)
  <2>1. CASE pc = "find"
    <3>1. HashString(key) \in Nat
      BY <2>1, HashType DEF TableInv, TypeOK
    <3> QED
      BY <1>1, <2>1, <3>1, DistInRange DEF TableInv, Searching
  <2>2. CASE pc = "insert"
    <3>1. hand.hash \in Nat
      BY <2>2 DEF TableInv, TypeOK, Item
    <3> QED
      BY <1>1, <2>2, <3>1, DistInRange, SaidOfArrays DEF TableInv, InTheseTerms
  <2> QED
    BY <2>1, <2>2
<1>3. dist + 1 < capacity
  BY <1>1, <1>2, AnEmptySlot, NotAround
<1>4. Dist(capacity, hashes[pos], pos) >= dist
  BY <1>1, DistInRange DEF Slots
<1>5. Resting(capacity, hashes, dist + 1, Step1(capacity, pos), 1)
  BY <1>1, <1>2, <1>3, <1>4, MoveOn
<1>6. Step1(capacity, pos) \in Slots(capacity)
  BY <1>1 DEF Step1, Slots
<1> QED
  BY <1>3, <1>5, <1>6


-----------------------------------------------------------------------------
(***************************************************************************)
(* Every step keeps the invariant.                                         *)
(***************************************************************************)
\* The type in three parts: of the table,
TypeOfTable ==
  /\ capacity \in Nat \ {0}
  /\ hashes \in [Slots(capacity) -> Nat]
  /\ entries \in [Slots(capacity) -> Entry]
  /\ item_count \in Nat
  /\ resize_threshold = ResizeThreshold(capacity)
  /\ \A p \in Slots(capacity) : hashes[p] # 0 =>
       /\ entries[p].key \in Key /\ entries[p].value # 0
       /\ hashes[p] = HashString(entries[p].key)

\* of the loop that runs,
TypeOfLoop ==
  /\ pc \in {"idle", "find", "rehash", "insert"}
  /\ key \in IF pc = "idle" THEN {NoKey} ELSE Key
  /\ result \in Nat
  /\ pos \in Nat /\ (pc \in {"find", "insert"} => pos \in Slots(capacity))
  /\ dist \in Nat
  /\ hand \in IF pc = "insert" THEN Item ELSE {NoItem}
  /\ growing \in BOOLEAN /\ (pc \in {"idle", "find"} => ~growing)
                         /\ (pc = "rehash" => growing)

\* and of the arrays the table grows from.
TypeOfOld ==
  /\ old.size \in Nat /\ old.next \in 0 .. old.size
  /\ old.hashes \in [Slots(old.size) -> Nat]
  /\ old.entries \in [Slots(old.size) -> Entry]
  /\ ~growing => old.size = 0
  /\ \A p \in Slots(old.size) : old.hashes[p] # 0 =>
       /\ old.entries[p].key \in Key /\ old.entries[p].value # 0
       /\ old.hashes[p] = HashString(old.entries[p].key)

\* They are the type.
LEMMA TypeInParts == TypeOK <=> TypeOfTable /\ TypeOfLoop /\ TypeOfOld
<1>1. ASSUME TypeOK PROVE TypeOfTable
  BY <1>1 DEF TypeOK, TypeOfTable, Occupied
<1>2. ASSUME TypeOK PROVE TypeOfLoop
  BY <1>2 DEF TypeOK, TypeOfLoop
<1>3. ASSUME TypeOK PROVE TypeOfOld
  BY <1>3 DEF TypeOK, TypeOfOld
<1>4. ASSUME TypeOfTable, TypeOfLoop, TypeOfOld PROVE TypeOK
  BY <1>4 DEF TypeOK, TypeOfTable, TypeOfLoop, TypeOfOld, Occupied
<1> QED
  BY <1>1, <1>2, <1>3, <1>4

\* And after a step.
LEMMA TypeInPartsThen == TypeOK' <=> TypeOfTable' /\ TypeOfLoop' /\ TypeOfOld'
<1>1. (TypeOK <=> TypeOfTable /\ TypeOfLoop /\ TypeOfOld)'
  BY TypeInParts, PTL
<1> QED
  BY <1>1

\* The table keeps its type as long as it stays, and so do the old arrays.
LEMMA SameTypes ==
  ASSUME TypeOK
  PROVE  /\ UNCHANGED table => TypeOfTable'
         /\ UNCHANGED <<old, growing>> => TypeOfOld'
<1>1. ASSUME UNCHANGED table PROVE TypeOfTable'
  BY <1>1, TypeInParts DEF table, TypeOfTable
<1>2. ASSUME UNCHANGED <<old, growing>> PROVE TypeOfOld'
  BY <1>2, TypeInParts DEF TypeOfOld
<1> QED
  BY <1>1, <1>2

\* The order of the slots depends on their hashes alone.
LEMMA SameOrder ==
  ASSUME SlotsInOrder, UNCHANGED <<capacity, hashes>>
  PROVE  SlotsInOrder'
BY DEF SlotsInOrder, Occupied, ProbeDistance, DesiredPosition, Before

\* The items match as long as they stay.
LEMMA SameMatching ==
  ASSUME Matching, Items' = Items, UNCHANGED <<item_count, growing>>
  PROVE  Matching'
BY DEF Matching, given

\* Symbols stay apart as long as they stay in their places.
LEMMA SameApart ==
  ASSUME Apart, UNCHANGED <<hashes, entries, old>>,
         pc' = "insert" => pc = "insert" /\ hand' = hand
  PROVE  Apart'
BY DEF Apart, Occupied, Left

\* A new name matches a new symbol.
LEMMA OneMatchMore ==
  ASSUME Matching, given \in Nat, given' = given + 1, NEW k,
         \A a \in Items : a[1] # k,
         Items' = Items \union {<<k, given + 1>>}
  PROVE  Matching'
<1> DEFINE new == <<k, given + 1>>
<1>1. new[1] = k /\ new[2] = given + 1
  OBVIOUS
<1>2. \A a \in Items : a[1] # new[1] /\ a[2] # new[2]
  <2>1. \A a \in Items : a[2] \in 1 .. given
    BY DEF Matching
  <2> QED
    BY <1>1, <2>1
<1> HIDE DEF new
<1>3. Items' = Items \union {new}
  BY DEF new
<1>4. \A a, b \in Items' : a[1] = b[1] <=> a[2] = b[2]
  BY <1>2, <1>3 DEF Matching
<1>5. \A n \in 1 .. given' : \E a \in Items' : a[2] = n
  <2> SUFFICES ASSUME NEW n \in 1 .. given + 1
               PROVE  \E a \in Items \union {new} : a[2] = n
    BY <1>3
  <2>1. CASE n = given + 1
    BY <2>1, <1>1
  <2>2. CASE n # given + 1
    <3>1. n \in 1 .. given
      BY <2>2
    <3> QED
      BY <3>1 DEF Matching
  <2> QED
    BY <2>1, <2>2
<1>6. \A a \in Items' : a[2] \in 1 .. given'
  BY <1>1, <1>3 DEF Matching
<1> QED
  BY <1>4, <1>5, <1>6 DEF Matching

\* SymbolTableCreate.
LEMMA CreateEmpty == Init => TableInv
<1> SUFFICES ASSUME Init PROVE TableInv
  OBVIOUS
<1>1. Occupied = {} /\ Left = {} /\ Items = {}
  BY DEF Init, Occupied, Left, Items, NoArrays
<1>2. TypeOK
  <2>1. Slots(0) = {}
    BY DEF Slots
  <2>2. /\ NoArrays.hashes \in [Slots(0) -> Nat]
        /\ NoArrays.entries \in [Slots(0) -> Entry]
        /\ NoArrays.size = 0 /\ NoArrays.next = 0
    BY <2>1 DEF NoArrays
  <2>3. old.size = 0 /\ old.next = 0
    BY <2>2 DEF Init
  <2>4. old.hashes \in [Slots(old.size) -> Nat]
    BY <2>2, <2>3 DEF Init
  <2>5. old.entries \in [Slots(old.size) -> Entry]
    BY <2>2, <2>3 DEF Init
  <2>6. /\ capacity \in Nat \ {0}
        /\ hashes \in [Slots(capacity) -> Nat]
        /\ entries \in [Slots(capacity) -> Entry]
    BY SymbolTableAssumption DEF Init, NoEntry, Entry
  <2> QED
    <3>1. TypeOfTable
      BY <2>6 DEF Init, TypeOfTable
    <3>2. TypeOfLoop
      BY DEF Init, TypeOfLoop
    <3>3. TypeOfOld
      BY <2>1, <2>3, <2>4, <2>5 DEF TypeOfOld
    <3> QED
      BY <3>1, <3>2, <3>3, TypeInParts
<1>3. Records
  BY DEF Init, Records, NoArrays
<1>4. SlotsInOrder /\ HandInOrder
  BY <1>1 DEF Init, SlotsInOrder, HandInOrder
<1>5. Apart
  BY <1>1 DEF Init, Apart
<1>6. Matching
  BY <1>1 DEF Init, Matching, given
<1>7. Searching /\ Creating
  BY DEF Init, Searching, Creating
<1>8. Room
  BY SymbolTableAssumption DEF Init, Room
<1> QED
  BY <1>2, <1>3, <1>4, <1>5, <1>6, <1>7, <1>8 DEF TableInv

\* A call begins.
LEMMA CallKeeps ==
  ASSUME TableInv, NEW k \in Key, FindOrCreateSymbol(k)
  PROVE  TableInv' /\ Items' = Items
<1> DEFINE h == HashString(k)
<1>1. /\ pc = "idle" /\ pc' = "find" /\ key' = k
      /\ pos' = h % capacity /\ dist' = 0
      /\ UNCHANGED <<capacity, hashes, entries, item_count, resize_threshold,
                     result, hand, old, growing>>
  BY DEF FindOrCreateSymbol, DesiredPosition, table
<1>2. h \in Nat \ {0} /\ capacity \in Nat \ {0}
  BY HashType DEF TableInv, TypeOK
<1>3. pos' \in Slots(capacity) /\ Dist(capacity, h, pos') = 0
  BY <1>1, <1>2, DesiredIsASlot, DistOfHome
<1>4. Occupied' = Occupied /\ Left' = Left /\ Items' = Items
  BY <1>1 DEF Occupied, Left, Items
<1>5. TypeOK'
  <2>1. TypeOfTable' /\ TypeOfOld'
    BY <1>1, SameTypes DEF TableInv, table
  <2>2. TypeOfLoop'
    BY <1>1, <1>3, TypeInParts DEF TableInv, TypeOfLoop, Slots
  <2> QED
    BY <2>1, <2>2, TypeInPartsThen
<1>6. Records'
  BY <1>1 DEF TableInv, Records
<1>7. SlotsInOrder' /\ HandInOrder'
  BY <1>1, SameOrder DEF TableInv, HandInOrder
<1>8. Apart' /\ Matching'
  BY <1>1, <1>4, SameApart, SameMatching DEF TableInv
<1>9. Searching'
  BY <1>1, <1>3 DEF Searching, Resting
<1>10. Creating'
  BY <1>1 DEF TableInv, TypeOK, Creating
<1>11. Room'
  BY <1>1 DEF TableInv, Room
<1> QED
  BY <1>4, <1>5, <1>6, <1>7, <1>8, <1>9, <1>10, <1>11 DEF TableInv

\* A call ends with the name found.
LEMMA FindHitKeeps ==
  ASSUME TableInv, FindHit
  PROVE  TableInv' /\ Items' = Items
<1>1. /\ pc = "find" /\ pc' = "idle" /\ key' = NoKey
      /\ result' = entries[pos].value
      /\ UNCHANGED <<capacity, hashes, entries, item_count, resize_threshold,
                     pos, dist, hand, old, growing>>
  BY DEF FindHit, table
<1>2. Occupied' = Occupied /\ Left' = Left /\ Items' = Items
  BY <1>1 DEF Occupied, Left, Items
<1>3. result' \in Nat
  BY <1>1 DEF TableInv, TypeOK, Entry
<1>4. TypeOK'
  BY <1>1, <1>2, <1>3 DEF TableInv, TypeOK
<1>5. Records'
  BY <1>1 DEF TableInv, Records
<1>6. SlotsInOrder' /\ HandInOrder'
  BY <1>1, SameOrder DEF TableInv, HandInOrder
<1>7. Apart' /\ Matching'
  BY <1>1, <1>2, SameApart, SameMatching DEF TableInv
<1>8. Searching' /\ Creating'
  BY <1>1 DEF TableInv, TypeOK, Searching, Creating
<1>9. Room'
  BY <1>1 DEF TableInv, Room
<1> QED
  BY <1>2, <1>4, <1>5, <1>6, <1>7, <1>8, <1>9 DEF TableInv

\* A search goes on to the next slot.
LEMMA FindNextKeeps ==
  ASSUME TableInv, FindNext
  PROVE  TableInv' /\ Items' = Items
<1>1. /\ pc = "find" /\ ~Missing /\ ~Found
      /\ pos' = Step1(capacity, pos) /\ dist' = dist + 1
      /\ UNCHANGED <<capacity, hashes, entries, item_count, resize_threshold,
                     pc, key, result, hand, old, growing>>
  BY DEF FindNext, NextSlot, Step1, table
<1>2. /\ capacity \in Nat \ {0} /\ hashes \in [Slots(capacity) -> Nat]
      /\ pos \in Slots(capacity) /\ dist \in Nat /\ key \in Key
      /\ HashString(key) \in Nat \ {0}
  BY <1>1, HashType DEF TableInv, TypeOK
<1>3. hashes[pos] # 0 /\ dist <= Dist(capacity, hashes[pos], pos)
  <2>1. hashes[pos] # 0 /\ ~(dist > Dist(capacity, hashes[pos], pos))
    BY <1>1 DEF Missing, ProbeDistance, DesiredPosition, Dist
  <2>2. Dist(capacity, hashes[pos], pos) \in Slots(capacity)
    BY <1>2, DistInRange
  <2> QED
    BY <1>2, <2>1, <2>2 DEF Slots
<1>4. /\ dist + 1 < capacity
      /\ pos' \in Slots(capacity)
      /\ Resting(capacity, hashes, dist', pos', 1)
  BY <1>1, <1>3, GoesOn
<1>5. Occupied' = Occupied /\ Left' = Left /\ Items' = Items
  BY <1>1 DEF Occupied, Left, Items
<1>6. TypeOK'
  <2>1. TypeOfTable' /\ TypeOfOld'
    BY <1>1, SameTypes DEF TableInv, table
  <2>2. TypeOfLoop'
    BY <1>1, <1>2, <1>4, TypeInParts DEF TableInv, TypeOfLoop, Slots
  <2> QED
    BY <2>1, <2>2, TypeInPartsThen
<1>7. Records'
  BY <1>1 DEF TableInv, Records
<1>8. SlotsInOrder' /\ HandInOrder'
  BY <1>1, SameOrder DEF TableInv, HandInOrder
<1>9. Apart' /\ Matching'
  BY <1>1, <1>5, SameApart, SameMatching DEF TableInv
<1>10. Searching'
  <2>1. dist = Dist(capacity, HashString(key), pos)
    BY <1>1 DEF TableInv, Searching
  <2>2. dist' = Dist(capacity, HashString(key), pos')
    BY <1>1, <1>2, <1>4, <2>1, DistOfStep
  <2>3. entries[pos].key # key
    <3>1. hashes[pos] = HashString(entries[pos].key)
      BY <1>2, <1>3 DEF TableInv, TypeOK, Occupied
    <3> QED
      BY <1>1, <3>1 DEF Found
  <2>4. ASSUME NEW j \in 1 .. dist + 1
        PROVE  entries[Back(capacity, Step1(capacity, pos), j)].key # key
    <3>1. PICK i \in 0 .. dist : j = i + 1
      <4>1. j - 1 \in 0 .. dist /\ j = (j - 1) + 1
        BY <1>2
      <4> QED
        BY <4>1
    <3>2. i \in Slots(capacity) /\ i + 1 \in Slots(capacity)
      BY <1>2, <1>4 DEF Slots
    <3>3. Back(capacity, Step1(capacity, pos), j) = Back(capacity, pos, i)
      BY <1>2, <3>1, <3>2, StepThenBack
    <3>4. CASE i = 0
      BY <1>2, <2>3, <3>2, <3>3, <3>4, BackIsASlot
    <3>5. CASE i # 0
      <4>1. i \in 1 .. dist
        BY <1>2, <3>5
      <4> QED
        BY <1>1, <3>3, <4>1 DEF TableInv, Searching
    <3> QED
      BY <3>4, <3>5
  <2> QED
    BY <1>1, <1>4, <2>2, <2>4 DEF Searching
<1>11. Creating'
  BY <1>1, <1>5 DEF TableInv, TypeOK, Creating
<1>12. Room'
  BY <1>1 DEF TableInv, Room
<1> QED
  BY <1>5, <1>6, <1>7, <1>8, <1>9, <1>10, <1>11, <1>12 DEF TableInv


\* An item taken in hand is put to the slot it desires.
LEMMA HandStarts ==
  ASSUME TypeOK', pos' = hand'.hash % capacity', dist' = 0, pc' = "insert"
  PROVE  HandInOrder'
<1>1. capacity' \in Nat \ {0} /\ hand'.hash \in Nat
  BY DEF TypeOK, Item
<1>2. Dist(capacity', hand'.hash, pos') = 0
  BY <1>1, DistOfHome
<1>3. Resting(capacity', hashes', dist', pos', 1)
  BY DEF Resting
<1> QED
  BY <1>2, <1>3, SaidOfArraysThen DEF InTheseTerms

\* A name gets the next symbol.
LEMMA CreateKeeps ==
  ASSUME TableInv, Create
  PROVE  TableInv' /\ Items' = Items \union {<<key, item_count + 1>>}
<1> DEFINE new == [hash |-> HashString(key), key |-> key,
                   value |-> item_count + 1]
<1>1. /\ pc = "find" /\ Missing /\ item_count + 1 < resize_threshold
      /\ item_count' = item_count + 1
      /\ pc' = "insert" /\ hand' = new
      /\ pos' = HashString(key) % capacity /\ dist' = 0
      /\ UNCHANGED <<capacity, hashes, entries, resize_threshold, key, result,
                     old, growing>>
  <2>1. ~(item_count + 1 >= resize_threshold)
    BY DEF Create, Overloaded
  <2>2. item_count + 1 < resize_threshold
    BY <2>1 DEF TableInv, TypeOK, ResizeThreshold
  <2> QED
    BY <2>2 DEF Create, StartInsert
<1>2. /\ capacity \in Nat \ {0} /\ item_count \in Nat /\ key \in Key
      /\ HashString(key) \in Nat \ {0} /\ ~growing
      /\ old.size = 0 /\ old.next \in 0 .. old.size
  BY <1>1, HashType DEF TableInv, TypeOK
<1>3. pos' \in Slots(capacity)
  BY <1>1, <1>2, DesiredIsASlot
<1>4. new \in Item
  BY <1>2 DEF Item
<1>5. TypeOK'
  <2>1. TypeOfOld'
    BY <1>1, SameTypes DEF TableInv
  <2>2. TypeOfTable'
    BY <1>1, TypeInParts DEF TableInv, TypeOfTable
  <2>3. TypeOfLoop'
    BY <1>1, <1>3, <1>4, TypeInParts DEF TableInv, TypeOfLoop, Slots
  <2> QED
    BY <2>1, <2>2, <2>3, TypeInPartsThen
<1>6. Records'
  BY <1>1 DEF TableInv, Records
<1>7. SlotsInOrder' /\ HandInOrder'
  BY <1>1, <1>5, SameOrder, HandStarts DEF TableInv
<1>8. Left = {} /\ Left' = {}
  BY <1>1, <1>2 DEF Left
<1>9. given = item_count /\ given' = given + 1
  BY <1>1, <1>2 DEF given
<1>10. Items' = Items \union {<<key, item_count + 1>>}
  <2>1. InHand = {} /\ InHand' = {<<key, item_count + 1>>}
    BY <1>1 DEF InHand
  <2> QED
    BY <1>1, <1>5, <2>1, SaidOfArrays, SaidOfArraysThen
       DEF TableInv, InTheseTerms
<1>11. Apart'
  <2>1. ASSUME NEW p \in Occupied PROVE entries[p].value # item_count + 1
    <3>1. <<entries[p].key, entries[p].value>>[2] \in 1 .. given
      BY DEF TableInv, Matching, Items
    <3> QED
      BY <3>1, <1>2, <1>9
  <2>2. Occupied' = Occupied
    BY <1>1 DEF Occupied
  <2> QED
    BY <1>1, <1>8, <2>1, <2>2 DEF TableInv, Apart
<1>12. Matching'
  BY <1>1, <1>2, <1>9, <1>10, MissingIsNew, OneMatchMore DEF TableInv
<1>13. Searching' /\ Creating'
  BY <1>1, <1>2, <1>10 DEF Searching, Creating
<1>14. Room'
  BY <1>1, <1>2 DEF TableInv, TypeOK, ResizeThreshold, Room
<1> QED
  BY <1>10, <1>5, <1>6, <1>7, <1>11, <1>12, <1>13, <1>14 DEF TableInv

\* The table grows.
LEMMA GrowKeeps ==
  ASSUME TableInv, Grow
  PROVE  TableInv' /\ Items' = Items
<1>1. /\ pc = "find" /\ Missing
      /\ item_count' = item_count + 1
      /\ capacity' = 2 * capacity
      /\ hashes' = [p \in Slots(2 * capacity) |-> 0]
      /\ entries' = [p \in Slots(2 * capacity) |-> NoEntry]
      /\ resize_threshold' = ResizeThreshold(2 * capacity)
      /\ old' = [hashes |-> hashes, entries |-> entries, size |-> capacity,
                 next |-> 0]
      /\ growing' = TRUE /\ pc' = "rehash"
      /\ UNCHANGED <<key, result, pos, dist, hand>>
  BY DEF Grow, OldArrays
<1>2. /\ capacity \in Nat \ {0} /\ item_count \in Nat /\ ~growing
      /\ hashes \in [Slots(capacity) -> Nat]
      /\ old.size = 0 /\ old.next \in 0 .. old.size
  BY <1>1 DEF TableInv, TypeOK
<1>3. TypeOK'
  <2>1. TypeOfTable'
    <3>1. NoEntry \in Entry
      BY DEF NoEntry, Entry
    <3>2. /\ capacity' \in Nat \ {0} /\ item_count' \in Nat
          /\ hashes' \in [Slots(capacity') -> Nat]
          /\ entries' \in [Slots(capacity') -> Entry]
          /\ resize_threshold' = ResizeThreshold(capacity')
          /\ \A p \in Slots(capacity') : hashes'[p] = 0
      BY <1>1, <1>2, <3>1
    <3> QED
      BY <3>2 DEF TypeOfTable
  <2>2. TypeOfLoop'
    BY <1>1, TypeInParts DEF TableInv, TypeOfLoop
  <2>3. TypeOfOld'
    <3>1. /\ old'.size = capacity /\ old'.next = 0
          /\ old'.hashes = hashes /\ old'.entries = entries
      BY <1>1
    <3>2. /\ entries \in [Slots(capacity) -> Entry]
          /\ \A p \in Slots(capacity) : hashes[p] # 0 =>
               /\ entries[p].key \in Key /\ entries[p].value # 0
               /\ hashes[p] = HashString(entries[p].key)
      BY TypeInParts DEF TableInv, TypeOfTable
    <3> QED
      BY <1>1, <1>2, <3>1, <3>2 DEF TypeOfOld
  <2> QED
    BY <2>1, <2>2, <2>3, TypeInPartsThen
<1>4. Records'
  BY <1>1 DEF Records
<1>5. Occupied' = {} /\ Left = {} /\ Left' = Occupied
  BY <1>1, <1>2 DEF Occupied, Left, Slots
<1>6. SlotsInOrder' /\ HandInOrder'
  BY <1>1, <1>5 DEF SlotsInOrder, HandInOrder
<1>7. Apart'
  <2>1. old'.entries = entries
    BY <1>1
  <2> QED
    BY <1>1, <1>5, <2>1 DEF TableInv, Apart
<1>8. Items' = Items
  <2>1. /\ InHand = {} /\ InHand' = {}
        /\ InSlots(hashes', entries', Slots(capacity')) = {}
        /\ InSlots(old.hashes, old.entries, old.next .. old.size - 1) = {}
    BY <1>1, <1>2 DEF InHand, InSlots
  <2>2. InSlots(old'.hashes, old'.entries, old'.next .. old'.size - 1)
          = InSlots(hashes, entries, Slots(capacity))
    BY <1>1 DEF Slots
  <2> QED
    BY <1>3, <2>1, <2>2, SaidOfArrays, SaidOfArraysThen
       DEF TableInv, InTheseTerms
<1>9. Matching'
  <2>1. given' = given
    BY <1>1, <1>2 DEF given
  <2> QED
    BY <1>8, <2>1 DEF TableInv, Matching
<1>10. Searching' /\ Creating'
  BY <1>1, <1>8, MissingIsNew DEF Searching, Creating
<1>11. Room'
  BY <1>1, <1>2 DEF TableInv, Room
<1> QED
  BY <1>8, <1>3, <1>4, <1>6, <1>7, <1>9, <1>10, <1>11 DEF TableInv

\* What is left to copy is one slot and what is left after it.
LEMMA NextIsLeft ==
  ASSUME TypeOK, old.next < old.size
  PROVE  /\ old.next .. old.size - 1
              = (old.next + 1 .. old.size - 1) \union {old.next}
         /\ old.next \in Slots(old.size)
BY DEF TypeOK, Slots

\* An empty old slot is passed over.
LEMMA RehashEmptyKeeps ==
  ASSUME TableInv, RehashEmpty
  PROVE  TableInv' /\ Items' = Items
<1>1. /\ pc = "rehash" /\ old.next < old.size /\ old.hashes[old.next] = 0
      /\ UNCHANGED <<capacity, hashes, entries, item_count, resize_threshold,
                     pc, key, result, pos, dist, hand, growing>>
  BY DEF RehashEmpty, table
<1>2. /\ old'.hashes = old.hashes /\ old'.entries = old.entries
      /\ old'.size = old.size /\ old'.next = old.next + 1
      /\ old' = [hashes |-> old.hashes, entries |-> old.entries,
                 size |-> old.size, next |-> old.next + 1]
  BY DEF TableInv, Records, RehashEmpty
<1>3. TypeOK'
  <2>1. TypeOfTable'
    BY <1>1, SameTypes DEF TableInv, table
  <2>2. TypeOfLoop'
    BY <1>1, TypeInParts DEF TableInv, TypeOfLoop
  <2>3. TypeOfOld'
    BY <1>1, <1>2, TypeInParts DEF TableInv, TypeOfOld
  <2> QED
    BY <2>1, <2>2, <2>3, TypeInPartsThen
<1>4. Records'
  BY <1>1, <1>2 DEF TableInv, Records
<1>5. SlotsInOrder' /\ HandInOrder'
  BY <1>1, SameOrder DEF TableInv, HandInOrder
<1>6. Occupied' = Occupied /\ Left' \subseteq Left
  BY <1>1, <1>2 DEF TableInv, TypeOK, Occupied, Left
<1>7. Apart'
  BY <1>1, <1>2, <1>6 DEF TableInv, Apart
<1>8. Items' = Items
  <2>1. InSlots(old.hashes, old.entries, old.next .. old.size - 1)
          = InSlots(old.hashes, old.entries, old.next + 1 .. old.size - 1)
    <3> DEFINE rest == old.next + 1 .. old.size - 1
    <3>1. InSlots(old.hashes, old.entries, rest \union {old.next})
            = InSlots(old.hashes, old.entries, rest)
                \union (IF old.hashes[old.next] # 0
                           THEN {<<old.entries[old.next].key,
                                   old.entries[old.next].value>>}
                           ELSE {})
      BY OneSlotMore
    <3>2. old.next .. old.size - 1 = rest \union {old.next}
      BY <1>1, NextIsLeft DEF TableInv
    <3> QED
      BY <1>1, <3>1, <3>2
  <2>2. InHand' = InHand
    BY <1>1 DEF InHand
  <2> QED
    BY <1>1, <1>2, <1>3, <2>1, <2>2, SaidOfArrays, SaidOfArraysThen
       DEF TableInv, InTheseTerms
<1>9. Matching'
  BY <1>1, <1>8, SameMatching DEF TableInv
<1>10. Searching' /\ Creating'
  BY <1>1, <1>8 DEF TableInv, Searching, Creating
<1>11. Room'
  BY <1>1 DEF TableInv, Room
<1> QED
  BY <1>8, <1>3, <1>4, <1>5, <1>7, <1>9, <1>10, <1>11 DEF TableInv

\* The item of an old slot is taken in hand.
LEMMA RehashItemKeeps ==
  ASSUME TableInv, RehashItem
  PROVE  TableInv' /\ Items' = Items
<1> DEFINE n == old.next
           item == [hash |-> old.hashes[n], key |-> old.entries[n].key,
                    value |-> old.entries[n].value]
<1>1. /\ pc = "rehash" /\ old.next < old.size /\ old.hashes[n] # 0
      /\ pc' = "insert" /\ hand' = item
      /\ pos' = old.hashes[n] % capacity /\ dist' = 0
      /\ UNCHANGED <<capacity, hashes, entries, item_count, resize_threshold,
                     key, result, growing>>
  BY DEF RehashItem, StartInsert, table
<1>2. /\ old'.hashes = old.hashes /\ old'.entries = old.entries
      /\ old'.size = old.size /\ old'.next = old.next + 1
      /\ old' = [hashes |-> old.hashes, entries |-> old.entries,
                 size |-> old.size, next |-> old.next + 1]
  BY DEF TableInv, Records, RehashItem
<1>3. /\ n \in Slots(old.size)
      /\ old.next .. old.size - 1
           = (old.next + 1 .. old.size - 1) \union {old.next}
  BY <1>1, NextIsLeft DEF TableInv
<1>4. /\ item \in Item /\ item.hash = HashString(item.key)
      /\ capacity \in Nat \ {0} /\ growing
  <2>1. /\ old.hashes[n] \in Nat \ {0} /\ old.entries[n].key \in Key
        /\ old.entries[n].value \in Nat \ {0}
        /\ old.hashes[n] = HashString(old.entries[n].key)
    BY <1>1, <1>3 DEF TableInv, TypeOK, Entry
  <2> QED
    BY <1>1, <2>1 DEF TableInv, TypeOK, Item
<1>5. TypeOK'
  <2>1. TypeOfTable'
    BY <1>1, SameTypes DEF TableInv, table
  <2>2. TypeOfLoop'
    <3>1. pos' \in Slots(capacity)
      BY <1>1, <1>4, DesiredIsASlot DEF Item
    <3> HIDE DEF item
    <3> QED
      BY <1>1, <1>4, <3>1, TypeInParts DEF TableInv, TypeOfLoop, Slots
  <2>3. TypeOfOld'
    BY <1>1, <1>2, TypeInParts DEF TableInv, TypeOfOld
  <2> QED
    BY <2>1, <2>2, <2>3, TypeInPartsThen
<1>6. Records'
  BY <1>1, <1>2, <1>4 DEF Records
<1>7. SlotsInOrder' /\ HandInOrder'
  BY <1>1, <1>5, SameOrder, HandStarts DEF TableInv
<1>8. Apart'
  <2>1. Occupied' = Occupied /\ Left' \subseteq Left /\ n \in Left /\ n \notin Left'
    BY <1>1, <1>2, <1>3 DEF TableInv, TypeOK, Occupied, Left
  <2>2. hand'.value = old.entries[n].value
    BY <1>1
  <2> QED
    BY <1>1, <1>2, <2>1, <2>2 DEF TableInv, Apart
<1>9. Items' = Items
  <2>1. InSlots(old.hashes, old.entries, old.next .. old.size - 1)
          = InSlots(old.hashes, old.entries, old.next + 1 .. old.size - 1)
              \union {<<old.entries[n].key, old.entries[n].value>>}
    <3> DEFINE rest == old.next + 1 .. old.size - 1
    <3>1. InSlots(old.hashes, old.entries, rest \union {old.next})
            = InSlots(old.hashes, old.entries, rest)
                \union (IF old.hashes[old.next] # 0
                           THEN {<<old.entries[old.next].key,
                                   old.entries[old.next].value>>}
                           ELSE {})
      BY OneSlotMore
    <3>2. old.next .. old.size - 1 = rest \union {old.next}
      BY <1>1, NextIsLeft DEF TableInv
    <3> QED
      BY <1>1, <3>1, <3>2
  <2>2. InHand' = {<<old.entries[n].key, old.entries[n].value>>} /\ InHand = {}
    BY <1>1 DEF InHand
  <2> QED
    BY <1>1, <1>2, <1>5, <2>1, <2>2, SaidOfArrays, SaidOfArraysThen
       DEF TableInv, InTheseTerms
<1>10. Matching'
  BY <1>1, <1>9, SameMatching DEF TableInv
<1>11. Searching' /\ Creating'
  BY <1>1, <1>4, <1>9 DEF TableInv, Searching, Creating
<1>12. Room'
  BY <1>1 DEF TableInv, Room
<1> QED
  BY <1>9, <1>5, <1>6, <1>7, <1>8, <1>10, <1>11, <1>12 DEF TableInv


\* The table has grown, and the new name is inserted.
LEMMA EndGrowKeeps ==
  ASSUME TableInv, EndGrow
  PROVE  TableInv' /\ Items' = Items \union {<<key, item_count>>}
<1> DEFINE new == [hash |-> HashString(key), key |-> key, value |-> item_count]
<1>1. /\ pc = "rehash" /\ old.next = old.size
      /\ old' = NoArrays /\ growing' = FALSE
      /\ pc' = "insert" /\ hand' = new
      /\ pos' = HashString(key) % capacity /\ dist' = 0
      /\ UNCHANGED <<capacity, hashes, entries, item_count, resize_threshold,
                     key, result>>
  BY DEF EndGrow, StartInsert, table
<1>2. /\ capacity \in Nat \ {0} /\ key \in Key /\ growing
      /\ HashString(key) \in Nat \ {0} /\ item_count \in Nat \ {0}
      /\ old.size \in Nat
  BY <1>1, HashType DEF TableInv, TypeOK, Room
<1>3. TypeOK'
  <2>1. TypeOfTable'
    BY <1>1, SameTypes DEF TableInv, table
  <2>2. TypeOfLoop'
    <3>1. pos' \in Slots(capacity)
      BY <1>1, <1>2, DesiredIsASlot
    <3>2. hand' \in Item
      BY <1>1, <1>2 DEF Item
    <3>3. result' \in Nat /\ pos' \in Nat
      BY <1>1, <1>2, <3>1, TypeInParts DEF TableInv, TypeOfLoop, Slots
    <3> QED
      BY <1>1, <1>2, <3>1, <3>2, <3>3 DEF TypeOfLoop
  <2>3. TypeOfOld'
    <3>1. Slots(0) = {}
      BY DEF Slots
    <3>2. /\ old'.size = 0 /\ old'.next = 0
          /\ old'.hashes \in [Slots(0) -> Nat]
          /\ old'.entries \in [Slots(0) -> Entry]
      BY <1>1, <3>1 DEF NoArrays
    <3> QED
      BY <3>1, <3>2 DEF TypeOfOld
  <2> QED
    BY <2>1, <2>2, <2>3, TypeInPartsThen
<1>4. Records'
  BY <1>1 DEF Records, NoArrays
<1>5. SlotsInOrder' /\ HandInOrder'
  BY <1>1, <1>3, SameOrder, HandStarts DEF TableInv
<1>6. /\ old.next .. old.size - 1 = {}
      /\ old'.next .. old'.size - 1 = {}
  BY <1>1, <1>2 DEF NoArrays
<1>7. Items' = Items \union {<<key, item_count>>}
  <2>1. InHand = {} /\ InHand' = {<<key, item_count>>}
    BY <1>1 DEF InHand
  <2>2. /\ InSlots(old.hashes, old.entries, old.next .. old.size - 1) = {}
        /\ InSlots(old'.hashes, old'.entries, old'.next .. old'.size - 1) = {}
    BY <1>6 DEF InSlots
  <2> QED
    BY <1>1, <1>3, <2>1, <2>2, SaidOfArrays, SaidOfArraysThen
       DEF TableInv, InTheseTerms
<1>8. given \in Nat /\ given' = given + 1 /\ given + 1 = item_count
  BY <1>1, <1>2 DEF given
<1>9. Apart'
  <2>1. ASSUME NEW p \in Occupied PROVE entries[p].value # item_count
    <3>1. <<entries[p].key, entries[p].value>>[2] \in 1 .. given
      BY DEF TableInv, Matching, Items
    <3> QED
      BY <3>1, <1>8
  <2>2. Occupied' = Occupied /\ Left' = {}
    BY <1>1, <1>6 DEF Occupied, Left
  <2> QED
    BY <1>1, <2>1, <2>2 DEF TableInv, Apart
<1>10. Matching'
  <2>1. \A a \in Items : a[1] # key
    BY <1>2 DEF TableInv, Creating
  <2> QED
    BY <1>7, <1>8, <2>1, OneMatchMore DEF TableInv
<1>11. Searching' /\ Creating'
  BY <1>1, <1>7 DEF Searching, Creating
<1>12. Room'
  BY <1>1 DEF TableInv, Room
<1> QED
  BY <1>7, <1>3, <1>4, <1>5, <1>9, <1>10, <1>11, <1>12 DEF TableInv

\* The slot the item in hand is put in: what both insertions rely on.
LEMMA HandIsPut ==
  ASSUME TableInv, pc = "insert", SetElement,
         hashes[pos] # 0 => Dist(capacity, hashes[pos], pos) < dist,
         UNCHANGED <<capacity, item_count, resize_threshold>>
  PROVE  /\ capacity \in Nat \ {0} /\ hashes \in [Slots(capacity) -> Nat]
         /\ entries \in [Slots(capacity) -> Entry] /\ pos \in Slots(capacity)
         /\ hand \in Item /\ hand.hash \in Nat \ {0}
         /\ dist = Dist(capacity, hand.hash, pos) /\ Ordered(capacity, hashes)
         /\ hashes' = [hashes EXCEPT ![pos] = hand.hash]
         /\ entries' = [entries EXCEPT ![pos] = [key |-> hand.key,
                                                 value |-> hand.value]]
         /\ TypeOfTable'
         /\ Ordered(capacity', hashes')
         /\ InSlots(hashes', entries', Slots(capacity'))
              = InSlots(hashes, entries, Slots(capacity) \ {pos})
                  \union {<<hand.key, hand.value>>}
<1>1. /\ capacity \in Nat \ {0} /\ hashes \in [Slots(capacity) -> Nat]
      /\ entries \in [Slots(capacity) -> Entry] /\ pos \in Slots(capacity)
      /\ hand \in Item /\ hand.hash = HashString(hand.key)
  BY DEF TableInv, TypeOK, Records
<1>2. /\ hand.hash \in Nat \ {0} /\ hand.key \in Key /\ hand.value \in Nat \ {0}
  BY <1>1 DEF Item
<1>3. /\ dist = Dist(capacity, hand.hash, pos)
      /\ Ordered(capacity, hashes) /\ Resting(capacity, hashes, dist, pos, 1)
  BY SaidOfArrays DEF TableInv, InTheseTerms
<1>4. /\ hashes' = [hashes EXCEPT ![pos] = hand.hash]
      /\ entries' = [entries EXCEPT ![pos] = [key |-> hand.key,
                                              value |-> hand.value]]
  BY DEF SetElement
<1>5. Ordered(capacity', hashes')
  <2>1. Ordered(capacity, [hashes EXCEPT ![pos] = hand.hash])
    BY <1>1, <1>2, <1>3, PutInOrder
  <2> QED
    BY <1>4, <2>1
<1>6. InSlots(hashes', entries', Slots(capacity'))
        = InSlots(hashes, entries, Slots(capacity) \ {pos})
            \union {<<hand.key, hand.value>>}
  <2>1. /\ hashes'[pos] # 0
        /\ entries'[pos].key = hand.key /\ entries'[pos].value = hand.value
        /\ \A q \in Slots(capacity) \ {pos} :
             hashes'[q] = hashes[q] /\ entries'[q] = entries[q]
    BY <1>1, <1>2, <1>4
  <2>2. InSlots(hashes', entries', Slots(capacity))
          = InSlots(hashes, entries, Slots(capacity) \ {pos})
              \union {<<entries'[pos].key, entries'[pos].value>>}
    BY <1>1, <2>1 DEF InSlots
  <2> QED
    BY <2>1, <2>2
<1>7. TypeOfTable'
  <2>1. [key |-> hand.key, value |-> hand.value] \in Entry
    BY <1>2 DEF Entry
  <2>2. /\ hashes' \in [Slots(capacity) -> Nat]
        /\ entries' \in [Slots(capacity) -> Entry]
        /\ hashes'[pos] = hand.hash /\ entries'[pos].key = hand.key
        /\ entries'[pos].value = hand.value
        /\ \A p \in Slots(capacity) :
             p # pos => hashes'[p] = hashes[p] /\ entries'[p] = entries[p]
    BY <1>1, <1>2, <1>4, <2>1
  <2>3. ASSUME NEW p \in Slots(capacity), hashes'[p] # 0
        PROVE  /\ entries'[p].key \in Key /\ entries'[p].value # 0
               /\ hashes'[p] = HashString(entries'[p].key)
    <3>1. CASE p = pos
      BY <1>1, <1>2, <2>2, <3>1
    <3>2. CASE p # pos
      BY <2>2, <2>3, <3>2, TypeInParts DEF TableInv, TypeOfTable
    <3> QED
      BY <3>1, <3>2
  <2> QED
    BY <2>2, <2>3, TypeInParts DEF TableInv, TypeOfTable
<1> QED
  BY <1>1, <1>2, <1>3, <1>4, <1>5, <1>6, <1>7

\* The item in hand is put in an empty slot.
LEMMA InsertEmptyKeeps ==
  ASSUME TableInv, InsertEmpty
  PROVE  TableInv' /\ Items' = Items
<1>1. /\ pc = "insert" /\ hashes[pos] = 0 /\ SetElement /\ hand' = NoItem
      /\ \/ growing /\ pc' = "rehash" /\ UNCHANGED <<key, result>>
         \/ ~growing /\ pc' = "idle" /\ key' = NoKey /\ result' = item_count
      /\ UNCHANGED <<capacity, item_count, resize_threshold, pos, dist, old,
                     growing>>
  BY DEF InsertEmpty
<1>2. /\ capacity \in Nat \ {0} /\ hashes \in [Slots(capacity) -> Nat]
      /\ entries \in [Slots(capacity) -> Entry] /\ pos \in Slots(capacity)
      /\ hand \in Item /\ hand.hash \in Nat \ {0}
      /\ hashes' = [hashes EXCEPT ![pos] = hand.hash]
      /\ entries' = [entries EXCEPT ![pos] = [key |-> hand.key,
                                              value |-> hand.value]]
      /\ TypeOfTable'
      /\ Ordered(capacity', hashes')
      /\ InSlots(hashes', entries', Slots(capacity'))
           = InSlots(hashes, entries, Slots(capacity) \ {pos})
               \union {<<hand.key, hand.value>>}
  BY <1>1, HandIsPut
<1>3. TypeOK'
  <2>1. TypeOfOld'
    BY <1>1, SameTypes DEF TableInv
  <2>2. TypeOfLoop'
    <3>1. key \in Key /\ item_count \in Nat
      BY <1>1, TypeInParts DEF TableInv, TypeOfLoop, TypeOfTable
    <3> QED
      BY <1>1, <3>1, TypeInParts DEF TableInv, TypeOfLoop
  <2> QED
    BY <1>2, <2>1, <2>2, TypeInPartsThen
<1>4. Records'
  BY <1>1 DEF TableInv, Records
<1>5. SlotsInOrder' /\ HandInOrder'
  BY <1>1, <1>2, <1>3, SaidOfArraysThen DEF InTheseTerms
<1>6. Items' = Items
  <2>1. InSlots(hashes, entries, Slots(capacity) \ {pos})
          = InSlots(hashes, entries, Slots(capacity))
    BY <1>1 DEF InSlots
  <2>2. InHand = {<<hand.key, hand.value>>} /\ InHand' = {}
    BY <1>1 DEF InHand
  <2>3. InSlots(old.hashes, old.entries, old.next .. old.size - 1)'
          = InSlots(old.hashes, old.entries, old.next .. old.size - 1)
    BY <1>1
  <2> QED
    BY <1>2, <1>3, <2>1, <2>2, <2>3, SaidOfArrays, SaidOfArraysThen
       DEF TableInv, InTheseTerms
<1>7. Apart'
  <2>1. Occupied' = Occupied \union {pos} /\ pos \notin Occupied /\ Left' = Left
    BY <1>1, <1>2 DEF Occupied, Left
  <2>2. /\ entries'[pos].value = hand.value
        /\ \A p \in Occupied : entries'[p] = entries[p]
    BY <1>2, <2>1 DEF Occupied
  <2>3. /\ \A p \in Occupied : entries[p].value # hand.value
        /\ \A q \in Left : old.entries[q].value # hand.value
    BY <1>1 DEF TableInv, Apart
  <2> QED
    BY <1>1, <2>1, <2>2, <2>3 DEF TableInv, Apart
<1>8. Matching'
  BY <1>1, <1>6, SameMatching DEF TableInv
<1>9. Searching' /\ Creating'
  BY <1>1, <1>6 DEF TableInv, Searching, Creating
<1>10. Room'
  BY <1>1 DEF TableInv, Room
<1> QED
  BY <1>3, <1>4, <1>5, <1>6, <1>7, <1>8, <1>9, <1>10 DEF TableInv

\* The item in hand and the one in the slot change places.
LEMMA InsertSwapKeeps ==
  ASSUME TableInv, InsertSwap
  PROVE  TableInv' /\ Items' = Items
<1> DEFINE h == hashes[pos]
           e == Dist(capacity, h, pos)
<1>1. /\ pc = "insert" /\ h # 0 /\ e < dist /\ SetElement
      /\ hand' = [hash |-> h, key |-> entries[pos].key,
                  value |-> entries[pos].value]
      /\ pos' = Step1(capacity, pos) /\ dist' = e + 1
      /\ UNCHANGED <<capacity, item_count, resize_threshold, pc, key, result,
                     old, growing>>
  BY DEF InsertSwap, Displaced, Evicted, EvictedDistance, NextSlot, Step1,
         ProbeDistance, DesiredPosition, Dist
<1>2. /\ capacity \in Nat \ {0} /\ hashes \in [Slots(capacity) -> Nat]
      /\ entries \in [Slots(capacity) -> Entry] /\ pos \in Slots(capacity)
      /\ hand \in Item /\ hand.hash \in Nat \ {0}
      /\ dist = Dist(capacity, hand.hash, pos) /\ Ordered(capacity, hashes)
      /\ hashes' = [hashes EXCEPT ![pos] = hand.hash]
      /\ entries' = [entries EXCEPT ![pos] = [key |-> hand.key,
                                              value |-> hand.value]]
      /\ TypeOfTable'
      /\ Ordered(capacity', hashes')
      /\ InSlots(hashes', entries', Slots(capacity'))
           = InSlots(hashes, entries, Slots(capacity) \ {pos})
               \union {<<hand.key, hand.value>>}
  BY <1>1, HandIsPut
<1>3. h \in Nat \ {0} /\ e \in Slots(capacity)
  BY <1>1, <1>2, DistInRange
<1>4. /\ e + 1 < capacity
      /\ Resting(capacity, hashes', e + 1, Step1(capacity, pos), 1)
  BY <1>1, <1>2, EvictedMoveOn
<1>5. /\ pos' \in Slots(capacity) /\ dist' = Dist(capacity, h, pos')
  <2>1. Step1(capacity, pos) \in Slots(capacity)
    BY <1>2 DEF Step1, Slots
  <2>2. Dist(capacity, h, Step1(capacity, pos)) = e + 1
    BY <1>2, <1>3, <1>4, DistOfStep
  <2> QED
    BY <1>1, <2>1, <2>2
<1>6. /\ entries[pos].key \in Key /\ entries[pos].value \in Nat \ {0}
      /\ h = HashString(entries[pos].key)
  BY <1>1, <1>2, TypeInParts DEF TableInv, TypeOfTable, Entry
<1>7. TypeOK'
  <2>1. TypeOfOld'
    BY <1>1, SameTypes DEF TableInv
  <2>2. TypeOfLoop'
    <3>1. hand' \in Item
      BY <1>1, <1>3, <1>6 DEF Item
    <3>2. dist' \in Nat
      BY <1>1, <1>2, <1>3 DEF Slots
    <3> HIDE DEF h, e
    <3> QED
      BY <1>1, <1>5, <3>1, <3>2, TypeInParts DEF TableInv, TypeOfLoop, Slots
  <2> QED
    BY <1>2, <2>1, <2>2, TypeInPartsThen
<1>8. Records'
  BY <1>1, <1>6 DEF TableInv, Records
<1>9. SlotsInOrder' /\ HandInOrder'
  <2>1. hand'.hash = h
    BY <1>1
  <2>2. dist' = Dist(capacity', hand'.hash, pos')
    BY <1>1, <1>5, <2>1
  <2>3. Resting(capacity', hashes', dist', pos', 1)
    BY <1>1, <1>4
  <2> QED
    BY <1>2, <1>7, <2>2, <2>3, SaidOfArraysThen DEF InTheseTerms
<1>10. Items' = Items
  <2>1. InSlots(hashes, entries, Slots(capacity))
          = InSlots(hashes, entries, Slots(capacity) \ {pos})
              \union {<<entries[pos].key, entries[pos].value>>}
    BY <1>1, <1>2 DEF InSlots
  <2>2. /\ InHand = {<<hand.key, hand.value>>}
        /\ InHand' = {<<entries[pos].key, entries[pos].value>>}
    BY <1>1 DEF InHand
  <2>3. InSlots(old.hashes, old.entries, old.next .. old.size - 1)'
          = InSlots(old.hashes, old.entries, old.next .. old.size - 1)
    BY <1>1
  <2> QED
    BY <1>2, <1>7, <2>1, <2>2, <2>3, SaidOfArrays, SaidOfArraysThen
       DEF TableInv, InTheseTerms
<1>11. Apart'
  <2>1. Occupied' = Occupied /\ pos \in Occupied /\ Left' = Left
    BY <1>1, <1>2 DEF Occupied, Left
  <2>2. /\ entries'[pos].value = hand.value
        /\ hand'.value = entries[pos].value
        /\ \A p \in Occupied \ {pos} : entries'[p] = entries[p]
    BY <1>1, <1>2 DEF Occupied
  <2>3. /\ \A p \in Occupied : entries[p].value # hand.value
        /\ \A q \in Left : old.entries[q].value # hand.value
        /\ \A p, q \in Occupied : p # q => entries[p].value # entries[q].value
        /\ \A p, q \in Left : p # q => old.entries[p].value # old.entries[q].value
        /\ \A p \in Occupied, q \in Left : entries[p].value # old.entries[q].value
    BY <1>1 DEF TableInv, Apart
  <2>4. \A p, q \in Occupied : p # q => entries'[p].value # entries'[q].value
    BY <2>1, <2>2, <2>3
  <2>5. \A p \in Occupied, q \in Left :
          entries'[p].value # old.entries[q].value
    BY <2>1, <2>2, <2>3
  <2>6. /\ \A p \in Occupied : entries'[p].value # hand'.value
        /\ \A q \in Left : old.entries[q].value # hand'.value
    BY <2>1, <2>2, <2>3
  <2> QED
    BY <1>1, <2>1, <2>3, <2>4, <2>5, <2>6 DEF Apart
<1>12. Matching'
  BY <1>1, <1>10, SameMatching DEF TableInv
<1>13. Searching' /\ Creating'
  BY <1>1, <1>10 DEF TableInv, Searching, Creating
<1>14. Room'
  BY <1>1 DEF TableInv, Room
<1> QED
  BY <1>7, <1>8, <1>9, <1>10, <1>11, <1>12, <1>13, <1>14 DEF TableInv

\* The item in hand goes on to the next slot.
LEMMA InsertNextKeeps ==
  ASSUME TableInv, InsertNext
  PROVE  TableInv' /\ Items' = Items
<1>1. /\ pc = "insert" /\ hashes[pos] # 0 /\ ~Displaced
      /\ pos' = Step1(capacity, pos) /\ dist' = dist + 1
      /\ UNCHANGED <<capacity, hashes, entries, item_count, resize_threshold,
                     pc, key, result, hand, old, growing>>
  BY DEF InsertNext, NextSlot, Step1, table
<1>2. /\ capacity \in Nat \ {0} /\ hashes \in [Slots(capacity) -> Nat]
      /\ pos \in Slots(capacity) /\ dist \in Nat /\ hand.hash \in Nat
      /\ dist = Dist(capacity, hand.hash, pos)
  BY <1>1, SaidOfArrays DEF TableInv, InTheseTerms, TypeOK, Item
<1>3. dist <= Dist(capacity, hashes[pos], pos)
  <2>1. ~(Dist(capacity, hashes[pos], pos) < dist)
    BY <1>1 DEF Displaced, ProbeDistance, DesiredPosition, Dist
  <2>2. Dist(capacity, hashes[pos], pos) \in Slots(capacity)
    BY <1>2, DistInRange
  <2> QED
    BY <1>2, <2>1, <2>2 DEF Slots
<1>4. /\ dist + 1 < capacity /\ pos' \in Slots(capacity)
      /\ Resting(capacity, hashes, dist', pos', 1)
  BY <1>1, <1>3, GoesOn
<1>5. dist' = Dist(capacity, hand.hash, pos')
  BY <1>1, <1>2, <1>4, DistOfStep
<1>6. Occupied' = Occupied /\ Left' = Left /\ Items' = Items
  BY <1>1 DEF Occupied, Left, Items
<1>7. TypeOK'
  <2>1. TypeOfTable' /\ TypeOfOld'
    BY <1>1, SameTypes DEF TableInv, table
  <2>2. TypeOfLoop'
    BY <1>1, <1>2, <1>4, TypeInParts DEF TableInv, TypeOfLoop, Slots
  <2> QED
    BY <2>1, <2>2, TypeInPartsThen
<1>8. Records'
  BY <1>1 DEF TableInv, Records
<1>9. SlotsInOrder' /\ HandInOrder'
  <2>1. Resting(capacity', hashes', dist', pos', 1)
    BY <1>1, <1>4
  <2> QED
    BY <1>1, <1>5, <1>7, <2>1, SameOrder, SaidOfArraysThen
       DEF TableInv, InTheseTerms
<1>10. Apart' /\ Matching'
  BY <1>1, <1>6, SameApart, SameMatching DEF TableInv
<1>11. Searching' /\ Creating'
  BY <1>1, <1>6 DEF TableInv, Searching, Creating
<1>12. Room'
  BY <1>1 DEF TableInv, Room
<1> QED
  BY <1>6, <1>7, <1>8, <1>9, <1>10, <1>11, <1>12 DEF TableInv

\* Nothing happens.
LEMMA StutterKeeps ==
  ASSUME TableInv, UNCHANGED vars
  PROVE  TableInv'
<1>1. /\ UNCHANGED <<capacity, hashes, entries, item_count, resize_threshold>>
      /\ UNCHANGED <<pc, key, result, pos, dist, hand, old, growing>>
  BY DEF vars, table
<1>2. Occupied' = Occupied /\ Left' = Left /\ Items' = Items
  BY <1>1 DEF Occupied, Left, Items
<1>3. TypeOK'
  <2>1. TypeOfTable' /\ TypeOfOld'
    BY <1>1, SameTypes DEF TableInv, table
  <2>2. TypeOfLoop'
    BY <1>1, TypeInParts DEF TableInv, TypeOfLoop
  <2> QED
    BY <2>1, <2>2, TypeInPartsThen
<1>4. Records'
  BY <1>1 DEF TableInv, Records
<1>5. SlotsInOrder' /\ HandInOrder'
  BY <1>1, SameOrder DEF TableInv, HandInOrder, Occupied, ProbeDistance,
                         DesiredPosition, Before
<1>6. Apart' /\ Matching'
  BY <1>1, <1>2, SameApart, SameMatching DEF TableInv
<1>7. Searching' /\ Creating' /\ Room'
  BY <1>1, <1>2 DEF TableInv, Searching, Resting, Creating, Room
<1> QED
  BY <1>3, <1>4, <1>5, <1>6, <1>7 DEF TableInv

\* Every step keeps the invariant.
LEMMA NextKeeps == TableInv /\ [Next]_vars => TableInv'
BY CallKeeps, FindHitKeeps, FindNextKeeps, CreateKeeps, GrowKeeps,
   RehashEmptyKeeps, RehashItemKeeps, EndGrowKeeps, InsertEmptyKeeps,
   InsertSwapKeeps, InsertNextKeeps, StutterKeeps DEF Next, Step

\* It holds in every state.
LEMMA TableInvHolds == Spec => []TableInv
BY CreateEmpty, NextKeeps, PTL DEF Spec

\* The table, the loop that runs and the arrays that are copied are what they
\* say, in whatever state a step leaves them: hashes are those of their keys,
\* and the slot looked at is in the table.
THEOREM TableTypeCorrect == Spec => []TypeOK
<1>1. TableInv => TypeOK
  BY DEF TableInv
<1> QED
  BY <1>1, TableInvHolds, PTL

\* The order that lets _Find stop early holds after every step of an
\* insertion and of a rehash, and a slot is always empty, where every probe
\* ends at the latest: for any hash function and any capacity.
THEOREM OrderAlwaysKept == Spec => []RobinHood
<1>1. TableInv => RobinHood
  BY AnEmptySlot DEF TableInv, RobinHood
<1> QED
  BY <1>1, TableInvHolds, PTL

\* How many items there are.
LEMMA ItemsCounted ==
  ASSUME TableInv
  PROVE  /\ given \in Nat
         /\ { item[2] : item \in Items } = 1 .. given
         /\ IsFiniteSet(Items) /\ Cardinality(Items) = given
         /\ Cardinality({ item[1] : item \in Items }) = given
<1>1. given \in Nat
  BY DEF TableInv, TypeOK, Room, given
<1>2. /\ \A a, b \in Items : a[1] = b[1] <=> a[2] = b[2]
      /\ \A n \in 1 .. given : \E a \in Items : a[2] = n
      /\ \A a \in Items : a[2] \in 1 .. given
  BY DEF TableInv, Matching
<1>3. \A a \in Items : a = <<a[1], a[2]>>
  BY DEF Items
<1>4. { item[2] : item \in Items } = 1 .. given
  BY <1>2
<1>5. IsFiniteSet(1 .. given) /\ Cardinality(1 .. given) = given
  BY <1>1, FS_Interval
<1>6. IsFiniteSet(Items) /\ Cardinality(Items) = given
  <2> DEFINE f == [a \in Items |-> a[2]]
  <2>1. f \in [Items -> 1 .. given]
    BY <1>2
  <2>2. \A a, b \in Items : f[a] = f[b] => a = b
    BY <1>2, <1>3
  <2>3. \A n \in 1 .. given : \E a \in Items : f[a] = n
    BY <1>2
  <2> HIDE DEF f
  <2>4. f \in Injection(Items, 1 .. given)
    BY <2>1, <2>2 DEF Injection, IsInjective
  <2>5. f \in Surjection(Items, 1 .. given)
    BY <2>1, <2>3 DEF Surjection
  <2> QED
    BY <1>5, <2>4, <2>5, FS_Injection
<1>7. Cardinality({ item[1] : item \in Items }) = given
  <2> DEFINE Names == { item[1] : item \in Items }
             g == [a \in Items |-> a[1]]
  <2>1. g \in [Items -> Names]
    OBVIOUS
  <2>2. \A a, b \in Items : g[a] = g[b] => a = b
    BY <1>2, <1>3
  <2>3. \A n \in Names : \E a \in Items : g[a] = n
    OBVIOUS
  <2> HIDE DEF g, Names
  <2>4. g \in Bijection(Items, Names)
    BY <2>1, <2>2, <2>3 DEF Bijection, Injection, Surjection, IsInjective
  <2>5. ExistsBijection(Items, Names)
    BY <2>4 DEF ExistsBijection
  <2>6. Cardinality(Names) = given
    BY <1>6, <2>5, FS_Bijection
  <2> QED
    BY <2>6 DEF Names
<1> QED
  BY <1>1, <1>4, <1>6, <1>7

\* No item is lost or doubled while items change places and while the table
\* grows: a symbol for each name, from 1 to item_count.
THEOREM ItemsNeverLost == Spec => []NoItemLost
<1>1. TableInv => NoItemLost
  BY ItemsCounted DEF NoItemLost, given
<1> QED
  BY <1>1, TableInvHolds, PTL

\* Whenever no call is running, FindSymbolKey gives the name of a symbol back,
\* although it looks at the slots in their order and knows nothing of hashes.
THEOREM SymbolsGiveNamesBack == Spec => []FindSymbolKeyInverts
<1>1. ASSUME TableInv PROVE FindSymbolKeyInverts
  <2> SUFFICES ASSUME pc = "idle", NEW item \in Items
               PROVE  FindSymbolKey(item[2]) = item[1]
    BY DEF FindSymbolKeyInverts
  <2> DEFINE holding == { p \in Occupied : entries[p].value = item[2] }
  <2>1. /\ hashes \in [Slots(capacity) -> Nat] /\ capacity \in Nat \ {0}
        /\ old.next .. old.size - 1 = {}
    BY <1>1 DEF TableInv, TypeOK
  <2>2. Items = { <<entries[p].key, entries[p].value>> : p \in Occupied }
    BY <2>1 DEF Items
  <2>3. PICK p \in holding : entries[p].key = item[1]
    BY <2>2
  <2>4. \A q \in holding : q = p
    BY <1>1, <2>3 DEF TableInv, Apart
  <2>5. holding = {p} /\ p <= p
    BY <2>1, <2>3, <2>4 DEF Occupied, Slots
  <2>6. (CHOOSE r \in holding : \A q \in holding : r <= q) = p
    BY <2>5
  <2> QED
    BY <2>3, <2>5, <2>6 DEF FindSymbolKey
<1> QED
  BY <1>1, TableInvHolds, PTL

-----------------------------------------------------------------------------
(***************************************************************************)
(* The table implements Interning: a call asks, and is answered by the     *)
(* step that finds the name or by the one that puts the last item of an    *)
(* insertion into its slot; what happens between changes nothing.          *)
(***************************************************************************)
\* Before the call has created anything, all items are known.
LEMMA KnownBefore ==
  ASSUME pc \notin {"rehash", "insert"}
  PROVE  Known = Items
BY DEF Known

\* A call begins.
LEMMA CallAsks ==
  ASSUME TableInv, NEW k \in Key, FindOrCreateSymbol(k)
  PROVE  Abstract!Ask(k)
<1>1. pc = "idle" /\ pc' = "find" /\ key' = k /\ UNCHANGED result
  BY DEF FindOrCreateSymbol
<1>2. Known' = Known
  BY <1>1, CallKeeps DEF Known
<1>3. key = NoKey
  BY <1>1 DEF TableInv, TypeOK
<1> QED
  BY <1>1, <1>2, <1>3 DEF Abstract!Ask

\* A search that finds the name answers with its symbol.
LEMMA FindHitAnswers ==
  ASSUME TableInv, FindHit
  PROVE  Abstract!Find
<1>1. /\ pc = "find" /\ ~Missing /\ Found
      /\ pc' = "idle" /\ key' = NoKey /\ result' = entries[pos].value
  BY DEF FindHit
<1>2. Known' = Known /\ Known = Items
  BY <1>1, FindHitKeeps DEF Known
<1>3. pos \in Occupied
  BY <1>1 DEF Missing, TableInv, TypeOK, Occupied
<1>4. /\ <<key, result'>> \in Known
      /\ <<key, result'>>[1] = key /\ <<key, result'>>[2] = result'
  BY <1>1, <1>2, <1>3 DEF Found, Items
<1> QED
  BY <1>1, <1>2, <1>4 DEF Abstract!Find

\* The symbol that is being created is not known while the item is on its way.
LEMMA CreateHides ==
  ASSUME TableInv, Create
  PROVE  Known' = Known /\ UNCHANGED <<key, result>>
<1>1. /\ pc = "find" /\ pc' = "insert" /\ item_count' = item_count + 1
      /\ UNCHANGED <<key, result>>
  BY DEF Create, StartInsert
<1>2. Items' = Items \union {<<key, item_count + 1>>}
  BY CreateKeeps
<1>3. \A a \in Items : a[2] # item_count + 1
  <2>1. item_count \in Nat /\ given = item_count
    BY <1>1 DEF TableInv, TypeOK, given
  <2> QED
    BY <2>1 DEF TableInv, Matching
<1>4. <<key, item_count + 1>>[2] = item_count + 1
  OBVIOUS
<1>5. Known = Items
  BY <1>1 DEF Known
<1>6. Known' = { a \in Items' : a[2] # item_count + 1 }
  BY <1>1 DEF Known
<1> QED
  BY <1>1, <1>2, <1>3, <1>4, <1>5, <1>6

\* Nor while the table grows for it.
LEMMA GrowHides ==
  ASSUME TableInv, Grow
  PROVE  Known' = Known /\ UNCHANGED <<key, result>>
<1>1. /\ pc = "find" /\ pc' = "rehash" /\ item_count' = item_count + 1
      /\ UNCHANGED <<key, result>>
  BY DEF Grow
<1>2. Items' = Items
  BY GrowKeeps
<1>3. \A a \in Items : a[2] # item_count + 1
  <2>1. item_count \in Nat /\ given = item_count
    BY <1>1 DEF TableInv, TypeOK, given
  <2> QED
    BY <2>1 DEF TableInv, Matching
<1> QED
  BY <1>1, <1>2, <1>3 DEF Known

\* Nor when the table has grown.
LEMMA EndGrowHides ==
  ASSUME TableInv, EndGrow
  PROVE  Known' = Known /\ UNCHANGED <<key, result>>
<1>1. /\ pc = "rehash" /\ pc' = "insert" /\ UNCHANGED <<item_count, key, result>>
  BY DEF EndGrow, StartInsert, table
<1>2. Items' = Items \union {<<key, item_count>>}
  BY EndGrowKeeps
<1>3. <<key, item_count>>[2] = item_count
  OBVIOUS
<1>4. /\ Known = { a \in Items : a[2] # item_count }
      /\ Known' = { a \in Items' : a[2] # item_count }
  BY <1>1 DEF Known
<1> QED
  BY <1>1, <1>2, <1>3, <1>4

\* The last item of an insertion is put in its slot: a new name is known.
LEMMA InsertEmptyAnswers ==
  ASSUME TableInv, InsertEmpty, ~growing
  PROVE  Abstract!Create
<1> DEFINE new == <<key, item_count>>
<1>1. /\ pc = "insert" /\ pc' = "idle" /\ key' = NoKey /\ result' = item_count
  BY DEF InsertEmpty
<1>2. key \in Key /\ key # NoKey /\ item_count \in Nat
  BY <1>1, SymbolTableAssumption DEF TableInv, TypeOK
<1>3. /\ new \in Items /\ new[1] = key /\ new[2] = item_count
      /\ \A a, b \in Items : a[1] = b[1] <=> a[2] = b[2]
      /\ \A a \in Items : a = <<a[1], a[2]>>
  BY <1>1 DEF TableInv, Creating, Matching, Items
<1>4. Known = Items \ {new}
  <2>1. Known = { a \in Items : a[2] # item_count }
    BY <1>1 DEF Known
  <2>2. \A a \in Items : a[2] = item_count <=> a = new
    BY <1>3
  <2> QED
    BY <2>1, <2>2
<1>5. \A pair \in Known : pair[1] # key
  BY <1>3, <1>4
<1>6. Cardinality(Known) + 1 = item_count
  <2>1. IsFiniteSet(Items) /\ Cardinality(Items) = item_count
    BY ItemsCounted DEF given
  <2>2. Cardinality(Known) = Cardinality(Items) - 1
    BY <1>3, <1>4, <2>1, FS_RemoveElement
  <2> QED
    BY <1>2, <2>1, <2>2
<1>7. Known' = Known \union {<<key, result'>>}
  <2>1. Known' = Items
    BY <1>1, InsertEmptyKeeps DEF Known
  <2> QED
    BY <1>1, <1>3, <1>4, <2>1
<1>8. Abstract!Cardinality(Known) = Cardinality(Known)
  BY DEF Abstract!Cardinality, Cardinality
<1> QED
  BY <1>1, <1>2, <1>5, <1>6, <1>7, <1>8 DEF Abstract!Create

\* Every step of the table is a step of Interning or changes nothing there.
LEMMA StepInterns ==
  ASSUME TableInv, [Next]_vars
  PROVE  [Abstract!Next]_<<Known, key, result>>
<1>1. ASSUME NEW k \in Key, FindOrCreateSymbol(k) PROVE Abstract!Next
  BY <1>1, CallAsks DEF Abstract!Next
<1>2. CASE FindHit
  BY <1>2, FindHitAnswers DEF Abstract!Next
<1>3. CASE FindNext
  <2>1. UNCHANGED <<pc, key, result, item_count>>
    BY <1>3 DEF FindNext, table
  <2> QED
    BY <1>3, <2>1, FindNextKeeps DEF Known
<1>4. CASE Create
  BY <1>4, CreateHides
<1>5. CASE Grow
  BY <1>5, GrowHides
<1>6. CASE RehashEmpty
  <2>1. UNCHANGED <<pc, key, result, item_count>>
    BY <1>6 DEF RehashEmpty, table
  <2> QED
    BY <1>6, <2>1, RehashEmptyKeeps DEF Known
<1>7. CASE RehashItem
  <2>1. pc = "rehash" /\ pc' = "insert" /\ UNCHANGED <<key, result, item_count>>
    BY <1>7 DEF RehashItem, StartInsert, table
  <2> QED
    BY <1>7, <2>1, RehashItemKeeps DEF Known
<1>8. CASE EndGrow
  BY <1>8, EndGrowHides
<1>9. CASE InsertEmpty
  <2>1. CASE growing
    <3>1. /\ pc = "insert" /\ pc' = "rehash"
          /\ UNCHANGED <<key, result, item_count>>
      BY <1>9, <2>1 DEF InsertEmpty
    <3> QED
      BY <1>9, <3>1, InsertEmptyKeeps DEF Known
  <2>2. CASE ~growing
    BY <1>9, <2>2, InsertEmptyAnswers DEF Abstract!Next
  <2> QED
    BY <2>1, <2>2
<1>10. CASE InsertSwap
  <2>1. UNCHANGED <<pc, key, result, item_count>>
    BY <1>10 DEF InsertSwap
  <2> QED
    BY <1>10, <2>1, InsertSwapKeeps DEF Known
<1>11. CASE InsertNext
  <2>1. UNCHANGED <<pc, key, result, item_count>>
    BY <1>11 DEF InsertNext, table
  <2> QED
    BY <1>11, <2>1, InsertNextKeeps DEF Known
<1>12. CASE UNCHANGED vars
  BY <1>12 DEF vars, table, Known, Items, Occupied
<1> QED
  BY <1>1, <1>2, <1>3, <1>4, <1>5, <1>6, <1>7, <1>8, <1>9, <1>10, <1>11, <1>12
     DEF Next, Step

\* FindOrCreateSymbol interns: the same name gets the same symbol, different
\* names different ones, and symbols are given out in order, whatever the
\* hashes, the moves of Robin Hood insertion and the growth of the table.
THEOREM TableInterns == Spec => Interns
<1>1. Init => Abstract!Init
  BY DEF Init, Abstract!Init, Known, Items, Occupied, NoArrays
<1>2. TableInv /\ [Next]_vars => [Abstract!Next]_<<Known, key, result>>
  BY StepInterns
<1> QED
  BY <1>1, <1>2, TableInvHolds, PTL DEF Spec, Interns, Abstract!Spec

=============================================================================
