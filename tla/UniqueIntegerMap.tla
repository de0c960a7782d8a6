-------------------------- MODULE UniqueIntegerMap --------------------------
(* emugl::UniqueIntegerMap: keys get numbers of their own, which are recycled *)
(* when a key is deleted.  Two sorted vectors map one way and the other.      *)
EXTENDS PodVector

CONSTANTS
  Key,       \* the keys, integers; 0 is not refused
  ValueWord  \* values are integers modulo ValueWord

ASSUME MapAssumption == Key \subseteq Nat /\ ValueWord \in Nat \ {0}

VARIABLES
  forward,    \* mForwardPairs: <<key, value>>, sorted by key
  backward,   \* mBackwardPairs: <<value, key>>, sorted by value
  lastValue,  \* mLastValue
  freeValues  \* mFreeValues

mapVars == <<forward, backward, lastValue, freeValues>>

\* The constructor leaves mLastValue uninitialised.
MapInit ==
  /\ forward = EmptyVector /\ backward = EmptyVector
  /\ lastValue \in 0..(ValueWord - 1)
  /\ freeValues = EmptyVector

----------------------------------------------------------------------------
(* Binary search for x among the items' first components.                   *)

Middle(min, max) == min + (max - min) \div 2

\* findKeyIndexPlusOne(), findValueIndexPlusOne(): the item's index, or 0.
IndexPlusOne(v, x) ==
  LET search[range \in (0..v.count) \X (0..v.count)] ==
        LET min == range[1]
            max == range[2]
            mid == Middle(min, max)
            y == v.cells[mid + 1][1]
        IN  IF min >= max THEN 0
            ELSE IF y < x THEN search[<<mid + 1, max>>]
            ELSE IF y > x THEN search[<<min, mid>>]
            ELSE mid + 1
  IN  search[<<0, v.count>>]

\* add()'s searches: where x belongs.
InsertionPoint(v, x) ==
  LET search[range \in (0..v.count) \X (0..v.count)] ==
        LET min == range[1]
            max == range[2]
            mid == Middle(min, max)
        IN  IF min >= max THEN min + 1
            ELSE IF v.cells[mid + 1][1] < x THEN search[<<mid + 1, max>>]
            ELSE search[<<min, mid>>]
  IN  search[<<0, v.count>>]

Find(key) ==
  LET i == IndexPlusOne(forward, key)
  IN  IF i = 0 THEN 0 ELSE forward.cells[i][2]

FindKeyFor(value) ==
  LET i == IndexPlusOne(backward, value)
  IN  IF i = 0 THEN 0 ELSE backward.cells[i][2]

----------------------------------------------------------------------------
\* add() inserts both pairs; a key that is there is refused.
Insert(key, value) ==
  /\ forward' = InsertAt(forward, InsertionPoint(forward, key), <<key, value>>)
  /\ backward' = InsertAt(backward, InsertionPoint(backward, value), <<value, key>>)

\* allocValue(): the value that has been free longest ...
AddRecycled(key) ==
  /\ IndexPlusOne(forward, key) = 0 /\ freeValues.count > 0
  /\ Insert(key, freeValues.cells[1])
  /\ freeValues' = Popped(freeValues)
  /\ UNCHANGED lastValue

\* ... or a new one.
AddNew(key) ==
  /\ IndexPlusOne(forward, key) = 0 /\ freeValues.count = 0
  /\ lastValue' = (lastValue + 1) % ValueWord
  /\ Insert(key, lastValue')
  /\ UNCHANGED freeValues

\* Faulty variant: the newest value is given back both ways.
FreeValueTwice(value) ==
  /\ lastValue' = IF value = lastValue THEN (value - 1) % ValueWord ELSE lastValue
  /\ freeValues' = Appended(freeValues, value)

\* freeValue(): the newest value is taken back, an older one kept for reuse, and
\* 0 is dropped.
FreeValue(value) ==
  IF value = 0 THEN UNCHANGED <<lastValue, freeValues>>
  ELSE IF value = lastValue
  THEN lastValue' = (value - 1) % ValueWord /\ UNCHANGED freeValues
  ELSE /\ freeValues' = Appended(freeValues, value)
       /\ UNCHANGED lastValue

\* del().
Delete(key) ==
  LET i == IndexPlusOne(forward, key)
      value == forward.cells[i][2]
  IN  /\ i > 0
      /\ forward' = RemoveAt(forward, i)
      /\ backward' = RemoveAt(backward, IndexPlusOne(backward, value))
      /\ FreeValue(value)

MapNext == \E key \in Key : AddRecycled(key) \/ AddNew(key) \/ Delete(key)

MapSpec == MapInit /\ [][MapNext]_mapVars

----------------------------------------------------------------------------
\* No value is handed out twice: the values in use and those kept for reuse are
\* all different, from whatever number the map starts and across the wrap of
\* mLastValue.
ValuesDistinct ==
  LET used == [k \in 1..forward.count |-> forward.cells[k][2]]
      all == used \o Items(freeValues)
  IN  \A j, k \in DOMAIN all : all[j] = all[k] => j = k

\* The two vectors answer alike: a key's value is found, and the value's key,
\* through insertions, removals and changes of the blocks.  Nothing is asked of 0:
\* the header reserves it, but add() takes it as a key, and hands it out as a
\* value when mLastValue wraps.
PairsAgree ==
  /\ forward.count = backward.count
  /\ \A k \in 1..forward.count :
       LET key == forward.cells[k][1]
           value == forward.cells[k][2]
       IN  /\ key # 0 => Find(key) = value
           /\ value # 0 => FindKeyFor(value) = key
=============================================================================
