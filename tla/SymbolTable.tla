---------------------------- MODULE SymbolTable -----------------------------
(***************************************************************************)
(* The symbol table (symboltable.c): a hash table with open addressing and *)
(* Robin Hood insertion, which hands out symbols for names.  Each step     *)
(* looks at one slot, so that the properties speak of the table while an   *)
(* item is on its way and while the table is being rehashed.               *)
(*                                                                         *)
(* Nothing marks a slot deleted (hashes have the top bit cleared), so      *)
(* _IsDeleted is false throughout.                                         *)
(***************************************************************************)
EXTENDS Integers, FiniteSets

CONSTANTS
  Key,              \* the contents of strings
  NoKey,            \* the null pointer
  CityHash,         \* MStringHash32 of each string
  HashLimit,        \* 2^31: one more than the mask that clears the top bit
  InitialCapacity,  \* 256
  MaxCapacity       \* bound of the model: no further growth

ASSUME SymbolTableAssumption ==
  /\ NoKey \notin Key
  /\ CityHash \in [Key -> Nat]
  /\ HashLimit \in Nat \ {0, 1}
  /\ InitialCapacity \in Nat \ {0}
  /\ MaxCapacity \in Nat

VARIABLES
  capacity, hashes, entries, item_count, resize_threshold,  \* the table
  pc,      \* which loop runs: "idle", "find", "rehash" or "insert"
  key,     \* argument of FindOrCreateSymbol
  result,  \* what it last returned
  pos,     \* the slot the loop looks at
  dist,    \* how far that is from the slot desired
  hand,    \* the item _InsertHelper has yet to place: [hash, key, value]
  old,     \* the arrays _Grow copies from: [hashes, entries, next slot]
  growing  \* whether _InsertHelper was called by _Grow

table == <<capacity, hashes, entries, item_count, resize_threshold>>
vars == <<table, pc, key, result, pos, dist, hand, old, growing>>

-----------------------------------------------------------------------------
HashString(k) ==
  LET hash == CityHash[k] % HashLimit IN IF hash = 0 THEN 1 ELSE hash

\* Capacities are powers of two in the code, where & mask is this %.
DesiredPosition(hash) == hash % capacity

\* slot + capacity - desired, modulo capacity.
ProbeDistance(hash, slot) ==
  LET desired == DesiredPosition(hash)
  IN IF slot >= desired THEN slot - desired ELSE slot + capacity - desired

\* Mutation: the last slot is not followed by the first.
NextSlotUnwrapped(slot) == slot + 1

NextSlot(slot) == IF slot + 1 = capacity THEN 0 ELSE slot + 1

ResizeThreshold(size) == (size * 90) \div 100

Slots(size) == 0 .. (size - 1)
NoEntry == [key |-> NoKey, value |-> 0]
NoItem == [hash |-> 0, key |-> NoKey, value |-> 0]
NoArrays == [hashes |-> <<>>, entries |-> <<>>, size |-> 0, next |-> 0]

\* SymbolTableCreate.
Init ==
  /\ capacity = InitialCapacity
  /\ hashes = [p \in Slots(InitialCapacity) |-> 0]
  /\ entries = [p \in Slots(InitialCapacity) |-> NoEntry]
  /\ item_count = 0
  /\ resize_threshold = ResizeThreshold(InitialCapacity)
  /\ pc = "idle"
  /\ key = NoKey
  /\ result = 0
  /\ pos = 0 /\ dist = 0
  /\ hand = NoItem
  /\ old = NoArrays
  /\ growing = FALSE

-----------------------------------------------------------------------------
\* FindOrCreateSymbol(k) is called, and calls _Find.
FindOrCreateSymbol(k) ==
  /\ pc = "idle"
  /\ pc' = "find"
  /\ key' = k
  /\ pos' = DesiredPosition(HashString(k))
  /\ dist' = 0
  /\ UNCHANGED <<table, result, hand, old, growing>>

\* _Find knows at this slot that the name is not in the table.
Missing == \/ hashes[pos] = 0
           \/ dist > ProbeDistance(hashes[pos], pos)

\* Mutation: strings with the same hash are taken to be the same.
FoundByHash == hashes[pos] = HashString(key)

Found == hashes[pos] = HashString(key) /\ entries[pos].key = key

FindHit ==
  /\ pc = "find"
  /\ ~Missing /\ Found
  /\ pc' = "idle"
  /\ key' = NoKey
  /\ result' = entries[pos].value
  /\ UNCHANGED <<table, pos, dist, hand, old, growing>>

FindNext ==
  /\ pc = "find"
  /\ ~Missing /\ ~Found
  /\ pos' = NextSlot(pos)
  /\ dist' = dist + 1
  /\ UNCHANGED <<table, pc, key, result, hand, old, growing>>

\* _InsertHelper is called with an item and the array size of the table.
StartInsert(item, size) ==
  /\ pc' = "insert"
  /\ hand' = item
  /\ pos' = item.hash % size
  /\ dist' = 0

\* Mutation: the old count is compared, and with `>'.
OverloadedLate == item_count > resize_threshold

\* One more item calls for more room.
Overloaded == item_count + 1 >= resize_threshold

\* The name gets the next symbol, and is inserted if there is room.
Create ==
  /\ pc = "find"
  /\ Missing
  /\ ~Overloaded
  /\ item_count' = item_count + 1
  /\ StartInsert([hash |-> HashString(key), key |-> key,
                  value |-> item_count + 1], capacity)
  /\ UNCHANGED <<capacity, hashes, entries, resize_threshold, key, result, old,
                 growing>>

\* Mutation: the last slot is not rehashed.
OldArraysButLast ==
  [hashes |-> hashes, entries |-> entries, size |-> capacity - 1, next |-> 0]

\* The arrays _Grow replaces, before the first slot is rehashed.
OldArrays ==
  [hashes |-> hashes, entries |-> entries, size |-> capacity, next |-> 0]

\* _Grow.
Grow ==
  /\ pc = "find"
  /\ Missing
  /\ Overloaded
  /\ 2 * capacity <= MaxCapacity
  /\ item_count' = item_count + 1
  /\ capacity' = 2 * capacity
  /\ hashes' = [p \in Slots(2 * capacity) |-> 0]
  /\ entries' = [p \in Slots(2 * capacity) |-> NoEntry]
  /\ resize_threshold' = ResizeThreshold(2 * capacity)
  /\ old' = OldArrays
  /\ growing' = TRUE
  /\ pc' = "rehash"
  /\ UNCHANGED <<key, result, pos, dist, hand>>

\* Mutation: the loop goes on with the same slot.
RehashEmptyAgain ==
  /\ pc = "rehash"
  /\ old.next < old.size /\ old.hashes[old.next] = 0
  /\ UNCHANGED vars

RehashEmpty ==
  /\ pc = "rehash"
  /\ old.next < old.size /\ old.hashes[old.next] = 0
  /\ old' = [old EXCEPT !.next = @ + 1]
  /\ UNCHANGED <<table, pc, key, result, pos, dist, hand, growing>>

RehashItem ==
  /\ pc = "rehash"
  /\ old.next < old.size /\ old.hashes[old.next] # 0
  /\ old' = [old EXCEPT !.next = @ + 1]
  /\ StartInsert([hash |-> old.hashes[old.next],
                  key |-> old.entries[old.next].key,
                  value |-> old.entries[old.next].value], capacity)
  /\ UNCHANGED <<table, key, result, growing>>

\* _Grow frees the old arrays; FindOrCreateSymbol inserts the new name.
EndGrow ==
  /\ pc = "rehash"
  /\ old.next = old.size
  /\ old' = NoArrays
  /\ growing' = FALSE
  /\ StartInsert([hash |-> HashString(key), key |-> key, value |-> item_count],
                 capacity)
  /\ UNCHANGED <<table, key, result>>

-----------------------------------------------------------------------------
\* _SetElement.
SetElement ==
  /\ hashes' = [hashes EXCEPT ![pos] = hand.hash]
  /\ entries' = [entries EXCEPT ![pos] = [key |-> hand.key, value |-> hand.value]]

InsertEmpty ==
  /\ pc = "insert"
  /\ hashes[pos] = 0
  /\ SetElement
  /\ hand' = NoItem
  /\ IF growing THEN pc' = "rehash" /\ UNCHANGED <<key, result>>
                ELSE pc' = "idle" /\ key' = NoKey /\ result' = item_count
  /\ UNCHANGED <<capacity, item_count, resize_threshold, pos, dist, old, growing>>

\* The item in the slot is closer to where it wants to be than the one in
\* hand, to which it loses the slot.
Displaced == ProbeDistance(hashes[pos], pos) < dist

\* Mutation: the items change places, but not their symbols.
EvictedWithoutValue ==
  [hash |-> hashes[pos], key |-> entries[pos].key, value |-> hand.value]

\* The item in the slot.
Evicted ==
  [hash |-> hashes[pos], key |-> entries[pos].key,
   value |-> entries[pos].value]

\* Mutation: the distance goes on counting from the first item.
EvictedDistanceKept == dist

\* Its distance from the slot it desires.
EvictedDistance == ProbeDistance(hashes[pos], pos)

\* The item in hand takes the slot of the other, which has to move on.
InsertSwap ==
  /\ pc = "insert"
  /\ hashes[pos] # 0
  /\ Displaced
  /\ SetElement
  /\ hand' = Evicted
  /\ pos' = NextSlot(pos)
  /\ dist' = EvictedDistance + 1
  /\ UNCHANGED <<capacity, item_count, resize_threshold, pc, key, result, old,
                 growing>>

InsertNext ==
  /\ pc = "insert"
  /\ hashes[pos] # 0
  /\ ~Displaced
  /\ pos' = NextSlot(pos)
  /\ dist' = dist + 1
  /\ UNCHANGED <<table, pc, key, result, hand, old, growing>>

\* One round of the loop that runs.
Step ==
  \/ FindHit \/ FindNext \/ Create \/ Grow
  \/ RehashEmpty \/ RehashItem \/ EndGrow
  \/ InsertEmpty \/ InsertSwap \/ InsertNext

Next == (\E k \in Key : FindOrCreateSymbol(k)) \/ Step

\* A call, once made, runs; the client may stop calling.
Spec == Init /\ [][Next]_vars /\ WF_vars(Step)

-----------------------------------------------------------------------------
Occupied == { p \in DOMAIN hashes : hashes[p] # 0 }

Item == [hash : Nat \ {0}, key : Key, value : Nat \ {0}]
Entry == [key : Key \union {NoKey}, value : Nat]

TypeOK ==
  /\ capacity \in Nat \ {0}
  /\ hashes \in [Slots(capacity) -> Nat]
  /\ entries \in [Slots(capacity) -> Entry]
  /\ item_count \in Nat
  /\ resize_threshold = ResizeThreshold(capacity)
  /\ pc \in {"idle", "find", "rehash", "insert"}
  /\ key \in IF pc = "idle" THEN {NoKey} ELSE Key
  /\ result \in Nat
  /\ pos \in Nat /\ (pc \in {"find", "insert"} => pos \in Slots(capacity))
  /\ dist \in Nat
  /\ hand \in IF pc = "insert" THEN Item ELSE {NoItem}
  /\ growing \in BOOLEAN /\ (pc \in {"idle", "find"} => ~growing)
                         /\ (pc = "rehash" => growing)
  /\ old.size \in Nat /\ old.next \in 0 .. old.size
  /\ old.hashes \in [Slots(old.size) -> Nat]
  /\ old.entries \in [Slots(old.size) -> Entry]
  /\ ~growing => old.size = 0
  /\ \A p \in Occupied : /\ entries[p].key \in Key /\ entries[p].value # 0
                         /\ hashes[p] = HashString(entries[p].key)
  /\ \A p \in Slots(old.size) : old.hashes[p] # 0 =>
       /\ old.entries[p].key \in Key /\ old.entries[p].value # 0
       /\ old.hashes[p] = HashString(old.entries[p].key)

\* The slot j places before slot p.
Before(p, j) == IF p >= j THEN p - j ELSE p + capacity - j

\* The order that lets _Find stop early: an item is as far from its desired
\* slot as the items before it in its probe sequence allow.  Between the
\* desired slot and the item no slot is empty, and none holds an item that
\* is closer to home than this item would be there.
SlotsInOrder ==
  \A p \in Occupied :
    \A j \in 0 .. ProbeDistance(hashes[p], p) :
      /\ Before(p, j) \in Occupied
      /\ ProbeDistance(hashes[Before(p, j)], Before(p, j))
           >= ProbeDistance(hashes[p], p) - j

\* The same for the item in hand, were it put at pos.
HandInOrder ==
  pc = "insert" =>
    /\ dist = ProbeDistance(hand.hash, pos)
    /\ \A j \in 1 .. dist :
         /\ Before(pos, j) \in Occupied
         /\ ProbeDistance(hashes[Before(pos, j)], Before(pos, j)) >= dist - j

\* The order holds after every step, also across the wrap-around, while items
\* move on and while the table is rehashed; and there is always an empty
\* slot, where every probe ends at the latest.
RobinHood ==
  /\ SlotsInOrder
  /\ HandInOrder
  /\ \E p \in Slots(capacity) : hashes[p] = 0

\* The items of the table, wherever they are: in a slot, in hand, or in an
\* old slot that has not been copied yet.
Items ==
  { <<entries[p].key, entries[p].value>> : p \in Occupied }
    \union (IF pc = "insert" THEN {<<hand.key, hand.value>>} ELSE {})
    \union { <<old.entries[p].key, old.entries[p].value>> :
               p \in { q \in old.next .. old.size - 1 : old.hashes[q] # 0 } }

\* No item is lost or doubled on the way: the symbols given out are 1 to
\* item_count, each to one name.  (While the table grows, the newest has
\* not been inserted.)
NoItemLost ==
  LET given == IF growing THEN item_count - 1 ELSE item_count
  IN /\ { item[2] : item \in Items } = 1 .. given
     /\ Cardinality(Items) = given
     /\ Cardinality({ item[1] : item \in Items }) = given

\* FindSymbolKey: the key in the first slot that has the symbol.
FindSymbolKey(symbol) ==
  LET holding == { p \in Occupied : entries[p].value = symbol }
  IN IF holding = {} THEN NoKey
     ELSE entries[CHOOSE p \in holding : \A q \in holding : p <= q].key

\* The symbol of a name gives the name back, whenever no call is running.
FindSymbolKeyInverts ==
  pc = "idle" =>
    \A item \in Items : FindSymbolKey(item[2]) = item[1]

\* A call of FindOrCreateSymbol returns.
CallsReturn == pc # "idle" ~> pc = "idle"

\* The table implements interning: the items are the names known, apart from
\* the one that is being created.
Known ==
  { item \in Items : pc \in {"rehash", "insert"} => item[2] # item_count }
Abstract == INSTANCE Interning
              WITH known <- Known, asked <- key, symbol <- result
Interns == Abstract!Spec

=============================================================================
