------------------------------- MODULE Bitset -------------------------------
(***************************************************************************)
(* The growable bit mask of kernel/ecs/bitset.rs, as operators on its      *)
(* vector of words.  A word is the set of its bits that are 1.  Indices    *)
(* start at 0 as in the code, words at 1 as TLA+ sequences do.             *)
(***************************************************************************)
EXTENDS Naturals, Sequences

CONSTANT WordBits    \* 64 in the code

ASSUME WordBitsAssumption == WordBits \in Nat \ {0}

word_count(capacity) == (capacity + WordBits - 1) \div WordBits

\* try_reserve and ensure: words of zeros are added up to the index.
Reserved(words, i) ==
  words \o [w \in 1 .. (IF word_count(i + 1) > Len(words)
                        THEN word_count(i + 1) - Len(words) ELSE 0) |-> {}]

\* set, which grows the mask, and clear, which does not.
SetBit(words, i) ==
  [w \in 1 .. Len(Reserved(words, i)) |->
     IF w = i \div WordBits + 1 THEN Reserved(words, i)[w] \cup {i % WordBits}
     ELSE Reserved(words, i)[w]]

ClearBit(words, i) ==
  [w \in 1 .. Len(words) |->
     IF w = i \div WordBits + 1 THEN words[w] \ {i % WordBits} ELSE words[w]]

\* The word-by-word walk of for_each_entity: the indices whose bit is set.
Walk(words) == UNION {{(w - 1) * WordBits + bit : bit \in words[w]} : w \in 1 .. Len(words)}

\* The common words of collect_intersection: as many as the shorter mask has.
Intersection(a, b) ==
  [w \in 1 .. (IF Len(a) < Len(b) THEN Len(a) ELSE Len(b)) |-> a[w] \cap b[w]]
=============================================================================
