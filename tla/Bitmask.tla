------------------------------- MODULE Bitmask -------------------------------
(***************************************************************************)
(* The library bitmasks of the static trap-mapping registry                *)
(* (src/dyninstAPI_RT/src/RTlinux.c, lines 593-600 and 730-801): an array  *)
(* of NUM_LIBRARIES_BITMASK_SIZE = 1 + NUM_LIBRARIES / WORD_SIZE unsigned  *)
(* words, bit j in word j / WORD_SIZE.  get_next_set_bitmask and           *)
(* get_next_free_bitmask are transcribed loop for loop, including the      *)
(* skip of a whole word that is empty (or full).                           *)
(*                                                                         *)
(* ScansFindNextFor checks the two scans of a mask against a reference     *)
(* definition from every start position; MC_RTLib checks it for every mask.*)
(***************************************************************************)
EXTENDS Integers, FiniteSets, Bitwise

CONSTANTS
  NumLibraries,   \* NUM_LIBRARIES
  WordSize        \* WORD_SIZE, bits per unsigned word

ASSUME NumLibraries > 0 /\ WordSize > 0

Words == 0 .. NumLibraries \div WordSize      \* 1 + NUM_LIBRARIES / WORD_SIZE words
Slots == 0 .. NumLibraries - 1
AllOnes == 2^WordSize - 1                     \* (unsigned) -1

(* Lines 752-757.                                                          *)
clear_bitmask == [ i \in Words |-> 0 ]

(* Lines 730-740, with value 1 as every caller passes it.                  *)
set_bit(mask, bit) == [ mask EXCEPT ![bit \div WordSize] = @ | 2^(bit % WordSize) ]

(* The test "1 << (j % WORD_SIZE) & word", nonzero when bit j is set.      *)
BitIsSet(word, j) == (2^(j % WordSize) & word) # 0

(***************************************************************************)
(* Lines 759-801.  want is TRUE for get_next_set_bitmask, which skips a    *)
(* word equal to 0, and FALSE for get_next_free_bitmask, which skips a     *)
(* word equal to (unsigned) -1.  i is the word index, j the bit position.  *)
(***************************************************************************)
SkipWord(want) == IF want THEN 0 ELSE AllOnes

RECURSIVE NextFrom(_, _, _, _), WithinWord(_, _, _, _)
NextFrom(mask, want, i, j) ==
  IF j >= NumLibraries THEN NumLibraries
  ELSE IF mask[i] = SkipWord(want) THEN NextFrom(mask, want, i + 1, j + WordSize)
  ELSE WithinWord(mask, want, i, j)
WithinWord(mask, want, i, j) ==
  IF BitIsSet(mask[i], j) = want THEN j
  ELSE IF (j + 1) % WordSize = 0 THEN NextFrom(mask, want, i + 1, j + 1)
  ELSE WithinWord(mask, want, i, j + 1)

\* Mutant: the start word taken from last_pos rather than from j.
get_next_set_bitmask_lastword(mask, last_pos) ==
  NextFrom(mask, TRUE, IF last_pos < 0 THEN 0 ELSE last_pos \div WordSize, last_pos + 1)

get_next_set_bitmask(mask, last_pos) ==
  NextFrom(mask, TRUE, (last_pos + 1) \div WordSize, last_pos + 1)

get_next_free_bitmask(mask, last_pos) ==
  NextFrom(mask, FALSE, (last_pos + 1) \div WordSize, last_pos + 1)

-----------------------------------------------------------------------------
(* The slots whose bit is set.                                             *)
SetSlots(mask) == { j \in Slots : BitIsSet(mask[j \div WordSize], j) }

(* Reference: the least slot above last_pos with (or without) its bit set, *)
(* NUM_LIBRARIES if there is none.                                         *)
LeastAbove(S, last_pos) ==
  LET above == { j \in S : j > last_pos } IN
  IF above = {} THEN NumLibraries ELSE CHOOSE j \in above : \A k \in above : j <= k

(* The masks set_bit can leave: no bit at or past NUM_LIBRARIES.          *)
Masks == { m \in [Words -> 0 .. AllOnes] :
             \A j \in NumLibraries .. (Cardinality(Words) * WordSize - 1) :
               ~BitIsSet(m[j \div WordSize], j) }

(***************************************************************************)
(* For mask m, from every start the registry uses (-1, or a position the previous     *)
(* call returned, a set bit: lines 631 and 708), the set scan returns the  *)
(* next set slot, and the free scan from -1 the first free slot: no slot   *)
(* is skipped by the word-at-a-time fast path.                             *)
(***************************************************************************)
ScansFindNextFor(m) ==
  \A lastPos \in {-1} \cup SetSlots(m) :
    /\ get_next_set_bitmask(m, lastPos) = LeastAbove(SetSlots(m), lastPos)
    /\ get_next_free_bitmask(m, -1) = LeastAbove(Slots \ SetSlots(m), -1)
=============================================================================
