------------------------------- MODULE TreeMath -------------------------------
(***************************************************************************)
(* The array-based complete binary tree of mls-rs/src/tree_kem/math.rs: a  *)
(* node is its index, leaf i is node 2i, the level of a node is the number *)
(* of trailing ones of its index.  The leaf count n is a power of two.     *)
(*                                                                         *)
(* The code manipulates the bits of a u32; here each operation is the      *)
(* arithmetic those bits amount to: at level k > 0, bit k-1 is set and bit *)
(* k is clear, so `x ^ (1 << (k-1))` subtracts 2^(k-1), `x ^ (3 << (k-1))` *)
(* adds it, `x | (1 << k)` adds 2^k.                                       *)
(***************************************************************************)
EXTENDS Integers, Sequences

CountOnes(x) == CHOOSE k \in 0 .. x + 1 : x % 2^(k + 1) = 2^k - 1

\* Those of small indices, which TLC computes once
SmallOnes == [x \in 0 .. 15 |-> CountOnes(x)]

\* u32::trailing_ones
TrailingOnes(x) == IF x <= 15 THEN SmallOnes[x] ELSE CountOnes(x)

Bit(x, k) == (x \div 2^k) % 2

\* TreeIndex for the unsigned integers
root(n) == n - 1
is_leaf(x) == x % 2 = 0
is_in_tree(x, r) == x <= 2 * r
left_unchecked(x) == x - 2^(TrailingOnes(x) - 1)
right_unchecked(x) == x + 2^(TrailingOnes(x) - 1)

\* (x & !(1 << (lvl + 1))) | (1 << lvl)
parent(x) ==
    LET lvl == TrailingOnes(x)
    IN  x - Bit(x, lvl + 1) * 2^(lvl + 1) + 2^lvl

sibling(x) ==
    IF x < parent(x) THEN right_unchecked(parent(x)) ELSE left_unchecked(parent(x))

\* parent_sibling is None at the root; direct_copath climbs until then, and is
\* empty for a node outside the tree.
direct_copath(x, n) ==
    LET Climb[y \in 0 .. 2 * root(n)] ==
            IF y = root(n) THEN <<>>
            ELSE <<[path |-> parent(y), copath |-> sibling(y)]>> \o Climb[parent(y)]
    IN  IF is_in_tree(x, root(n)) THEN Climb[x] ELSE <<>>

\* The leaf indices `left .. right - 1` below node x
subtree(x) ==
    LET breadth == 2^TrailingOnes(x)
        first   == (x + 1 - breadth) \div 2
        past    == (x + breadth) \div 2 + 1
    IN  [left |-> first, right |-> past]

\* Both arguments are shifted right until they agree.
leaf_lca_level(x, y) ==
    CHOOSE k \in 0 .. x + y :
        /\ x \div 2^k = y \div 2^k
        /\ \A j \in 0 .. k - 1 : x \div 2^j # y \div 2^j

\* BfsIterTopDown::new; trailing_zeros of a power of two is its exponent
NewIter(depth) ==
    [level |-> depth + 1, mask |-> 2^depth - 1, level_end |-> 1, ctr |-> 0]

\* The state `next` reads from: at the end of a level it first steps down.
Descended(it) ==
    IF it.ctr = it.level_end
      THEN [level     |-> it.level - 1,
            mask      |-> it.mask \div 2,
            level_end |-> 2 * it.level_end,
            ctr       |-> 0]
      ELSE it

\* The nodes that BfsIterTopDown yields for a tree of n = 2^depth leaves
BfsIterTopDown(depth) ==
    LET Iter[k \in 1 .. 2^(depth + 1) - 1] ==
            Descended(IF k = 1 THEN NewIter(depth)
                      ELSE [Iter[k - 1] EXCEPT !.ctr = @ + 1])
    IN  [k \in 1 .. 2^(depth + 1) - 1 |-> Iter[k].ctr * 2^Iter[k].level + Iter[k].mask]

===============================================================================
