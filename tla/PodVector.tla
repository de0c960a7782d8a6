----------------------------- MODULE PodVector -----------------------------
(* emugl::PodVector as operators on vectors: a block of cells, of which the   *)
(* first ones are items.  An index counts from 1, as in a sequence.           *)
EXTENDS Integers, Sequences

CONSTANTS
  MinCapacity,  \* 256 bytes' worth of items: a smaller block never shrinks
  Slack,        \* what a growing block gets beyond a quarter more
  Zero          \* a cell filled by memset()

ASSUME VectorAssumption == MinCapacity \in Nat /\ Slack \in Nat \ {0}

EmptyVector == [cells |-> <<>>, count |-> 0]

ItemCapacity(v) == Len(v.cells)

Items(v) == SubSeq(v.cells, 1, v.count)

\* realloc() keeps what both blocks have room for; the rest is zeroed.
Reserve(v, n) ==
  [v EXCEPT !.cells =
     [k \in 1..n |-> IF k <= v.count /\ k <= ItemCapacity(v)
                     THEN v.cells[k] ELSE Zero]]

\* The capacity a block grows to from c for n items.
GrownCapacity(c, n) ==
  LET grow[k \in Nat] == IF k >= n THEN k ELSE grow[k + k \div 4 + Slack]
  IN  grow[c]

\* resize(): a block grows in steps, and shrinks only if it is far too large.
Resize(v, n) ==
  LET c == ItemCapacity(v)
      block == IF n > c THEN Reserve(v, GrownCapacity(c, n))
               ELSE IF n < c \div 2 /\ c > MinCapacity THEN Reserve(v, n)
               ELSE v
  IN  [block EXCEPT !.count = n]

\* Faulty variant: the items are moved down after the block was resized.
RemoveAtLate(v, pos) ==
  LET r == Resize(v, v.count - 1)
  IN  [r EXCEPT !.cells = [k \in DOMAIN r.cells |->
         IF pos <= k /\ k + 1 \in DOMAIN r.cells THEN r.cells[k + 1]
         ELSE r.cells[k]]]

\* The items behind pos move down, then the block is resized.
RemoveAt(v, pos) ==
  LET moved == [k \in DOMAIN v.cells |->
                  IF pos <= k /\ k < v.count THEN v.cells[k + 1] ELSE v.cells[k]]
  IN  Resize([v EXCEPT !.cells = moved], v.count - 1)

\* The block is resized, then the items from pos on move up and x is written.
InsertAt(v, pos, x) ==
  LET r == Resize(v, v.count + 1)
  IN  [r EXCEPT !.cells = [k \in DOMAIN r.cells |->
         CASE k = pos -> x
           [] pos < k /\ k <= r.count -> r.cells[k - 1]
           [] OTHER -> r.cells[k]]]

\* append(), push_back().
Appended(v, x) == InsertAt(v, v.count + 1, x)

\* pop() takes the first item.
Popped(v) == RemoveAt(v, 1)
=============================================================================
