--------------------------- MODULE IdToObjectMap ---------------------------
(* emugl::IdToObjectMap: a hash table from ids to objects it owns.  Next to   *)
(* the table the module keeps the dictionary it stands for.                   *)
(* The table has a cell more than the code allocates: the mask in probeKeys() *)
(* lets slots equal to the capacity through, and what the heap has there is   *)
(* read and written like any other cell.                                      *)
EXTENDS Integers, Sequences

CONSTANTS
  Id,         \* the keys used
  Thing,      \* the objects
  Null,       \* no object
  MinShift,   \* kMinShift, 3 in the code
  MaxShift,   \* kMaxShift, 31 in the code
  Behind      \* what the memory behind a new key array may look like

ASSUME IdAssumption ==
  /\ Id \subseteq Nat /\ Null \notin Thing
  /\ MinShift \in Nat /\ MaxShift \in Nat /\ MinShift <= MaxShift

InvalidKey == -1
Tombstone == -2

VARIABLES
  mKeys, mValues,  \* functions from slots
  mShift,
  mEntries,        \* the table's mCount
  stuck,           \* a probe that never ends
  dict             \* history: what was set and not removed since

tableVars == <<mKeys, mValues, mShift, mEntries, stuck, dict>>

Capacity(shift) == 2^shift

IsValidKey(k) == k >= 0

NewKeys(shift, behind) ==
  [n \in 0..Capacity(shift) |-> IF n = Capacity(shift) THEN behind ELSE InvalidKey]
NewValues(shift) == [n \in 0..Capacity(shift) |-> Null]

TableInit ==
  /\ mShift = MinShift
  /\ \E b \in Behind : mKeys = NewKeys(MinShift, b)
  /\ mValues = NewValues(MinShift)
  /\ mEntries = 0 /\ stuck = FALSE
  /\ dict = [k \in Id |-> Null]

----------------------------------------------------------------------------
\* kPrimes: no prime exceeds the capacity it is for.
Prime(shift) ==
  <<1, 2, 3, 7, 13, 31, 61, 127, 251, 509, 1021, 2039, 4093, 8191, 16381, 32749,
    65521, 131071, 262139, 524287, 1048573, 2097143, 4194301, 8388593, 16777213,
    33554393, 67108859, 134217689, 268435399, 536870909, 1073741789,
    2147483647>>[shift + 1]

ASSUME PrimeAssumption ==
  \A shift \in MinShift..MaxShift :
    Capacity(shift) \in Nat /\ Prime(shift) \in 1..Capacity(shift)

\* A probe stops at an empty cell, at a removed one and at the key.
Stops(keys, slot, key) == keys[slot] \in {InvalidKey, Tombstone, key}

\* probeKeys().  After the first slot the mask leaves 0 and the capacity only,
\* and 0 comes first; if none of the three stops the probe it goes on for ever.
NoSlot == -1
ProbeKeys(keys, shift, key) ==
  LET probes == <<key % Prime(shift), 0, Capacity(shift)>>
      stops == {k \in 1..3 : Stops(keys, probes[k], key)}
  IN  IF stops = {} THEN NoSlot
      ELSE probes[CHOOSE k \in stops : \A j \in stops : k <= j]

Slot(key) == ProbeKeys(mKeys, mShift, key)

Contains(key) == IsValidKey(mKeys[Slot(key)])

Get(key) == IF Contains(key) THEN mValues[Slot(key)] ELSE Null

----------------------------------------------------------------------------
(* resize().                                                                *)

\* The load, in quarters of the capacity, is below one or above three.
TooLarge(shift, size) == Capacity(shift) > 4 * size
TooSmall(shift, size) == 3 * Capacity(shift) < 4 * size

\* The first size up that is large enough, or down that is small enough; the
\* largest and the smallest size have to do if no other does.
NewShift(shift, size) ==
  LET up == {s \in shift..MaxShift : s = MaxShift \/ ~TooSmall(s, size)}
      down == {s \in MinShift..shift : s = MinShift \/ ~TooLarge(s, size)}
  IN  IF TooSmall(shift, size)
      THEN CHOOSE s \in up : \A t \in up : s <= t
      ELSE CHOOSE s \in down : \A t \in down : t <= s

\* Faulty variant: the new table keeps the old one's slots.
RehashInPlace(keys, values, shift, newShift, behind) ==
  LET new == NewKeys(newShift, behind)
  IN  [keys |-> [n \in DOMAIN new |-> IF n < Capacity(shift) /\ n \in DOMAIN keys
                                      THEN keys[n] ELSE new[n]],
       values |-> [n \in DOMAIN new |-> IF n < Capacity(shift) /\ n \in DOMAIN keys
                                        THEN values[n] ELSE Null],
       stuck |-> FALSE]

\* The valid entries below the old capacity, put into new arrays one by one.
Rehash(keys, values, shift, newShift, behind) ==
  LET copied[n \in 0..Capacity(shift)] ==
        IF n = 0
        THEN [keys |-> NewKeys(newShift, behind),
              values |-> NewValues(newShift), stuck |-> FALSE]
        ELSE LET t == copied[n - 1]
                 key == keys[n - 1]
                 slot == ProbeKeys(t.keys, newShift, key)
             IN  IF ~IsValidKey(key) THEN t
                 ELSE IF slot = NoSlot THEN [t EXCEPT !.stuck = TRUE]
                 ELSE [t EXCEPT !.keys[slot] = key,
                                !.values[slot] = values[n - 1]]
  IN  copied[Capacity(shift)]

----------------------------------------------------------------------------
\* set() of a key that is there: the old object is deleted.
Replace(key, thing) ==
  /\ Slot(key) # NoSlot /\ Contains(key)
  /\ mValues' = [mValues EXCEPT ![Slot(key)] = thing]
  /\ dict' = [dict EXCEPT ![key] = thing]
  /\ UNCHANGED <<mKeys, mShift, mEntries, stuck>>

\* set() of another one, which may resize the table.
Enter(key, thing) ==
  LET keys == [mKeys EXCEPT ![Slot(key)] = key]
      values == [mValues EXCEPT ![Slot(key)] = thing]
      shift == NewShift(mShift, mEntries + 1)
  IN  /\ Slot(key) # NoSlot /\ ~Contains(key)
      /\ mEntries' = mEntries + 1
      /\ mShift' = shift
      /\ \E b \in Behind :
           LET t == IF shift = mShift
                    THEN [keys |-> keys, values |-> values, stuck |-> FALSE]
                    ELSE Rehash(keys, values, mShift, shift, b)
           IN  mKeys' = t.keys /\ mValues' = t.values /\ stuck' = t.stuck
      /\ dict' = [dict EXCEPT ![key] = thing]

\* remove(), or set() with NULL: a tombstone is left and the object deleted.
Discard(key) ==
  /\ Slot(key) # NoSlot /\ Contains(key)
  /\ mKeys' = [mKeys EXCEPT ![Slot(key)] = Tombstone]
  /\ mValues' = [mValues EXCEPT ![Slot(key)] = Null]
  /\ mEntries' = mEntries - 1
  /\ dict' = [dict EXCEPT ![key] = Null]
  /\ UNCHANGED <<mShift, stuck>>

\* clear(): the cells with a valid key are emptied; tombstones stay.
Clear ==
  /\ mEntries > 0
  /\ LET live == {n \in 0..(Capacity(mShift) - 1) : IsValidKey(mKeys[n])}
     IN  /\ mKeys' = [n \in DOMAIN mKeys |-> IF n \in live THEN InvalidKey
                                             ELSE mKeys[n]]
         /\ mValues' = [n \in DOMAIN mValues |-> IF n \in live THEN Null
                                                 ELSE mValues[n]]
  /\ mEntries' = 0
  /\ dict' = [k \in Id |-> Null]
  /\ UNCHANGED <<mShift, stuck>>

TableNext ==
  /\ ~stuck
  /\ \/ \E key \in Id : \/ \E thing \in Thing : Replace(key, thing) \/ Enter(key, thing)
                        \/ Discard(key)
     \/ Clear

TableSpec == TableInit /\ [][TableNext]_tableVars

----------------------------------------------------------------------------
\* The table is the dictionary: every object set is found under its id until it
\* is replaced or removed, and no other is, while the table grows, shrinks, is
\* cleared and fills up with tombstones.  It takes ids that do not collide.
FindsEveryObject ==
  ~stuck => \A key \in Id : Slot(key) # NoSlot /\ Get(key) = dict[key]

\* "Returns true iff the dictionary contains a value for |key|."
ContainsTellsTruth ==
  ~stuck => \A key \in Id : Slot(key) # NoSlot =>
    (Contains(key) <=> dict[key] # Null)
=============================================================================
