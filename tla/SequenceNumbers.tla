-------------------------- MODULE SequenceNumbers --------------------------
(***************************************************************************)
(* Sequence numbers (sequence.hpp) and ranges of them (sequence_range.hpp).*)
(*                                                                         *)
(* A sequence_t is an unsigned word that wraps.  The specifications hold,  *)
(* for every word, an integer congruent to it modulo SeqModulus; whatever  *)
(* the code can observe of words (their difference, whether two are equal, *)
(* the slot one selects) is computed here from residues only, so replacing *)
(* every integer by its residue gives exactly the machine's words.         *)
(***************************************************************************)
EXTENDS Integers, Sequences

CONSTANT HalfModulus    \* 2^63 in the program

ASSUME HalfModulusAssumption == HalfModulus \in Nat \ {0}

SeqModulus == 2 * HalfModulus

\* The machine word that an integer stands for (typedef uint64_t sequence_t).
Wrap(x) == x % SeqModulus

\* Mutant of difference: the words subtracted as if they did not wrap.
DifferenceNoWrap(a, b) == Wrap(a) - Wrap(b)

\* static_cast<sequence_diff_t>(a - b): the word a - b read as a signed number.
difference(a, b) ==
    LET d == (a - b) % SeqModulus
    IN  IF d < HalfModulus THEN d ELSE d - SeqModulus

\* operator== on two words.
SameWord(a, b) == (a - b) % SeqModulus = 0

Smaller(a, b) == IF b < a THEN b ELSE a

(***************************************************************************)
(* One iteration of each of the two loops over an array of sequences.  Both*)
(* load one sequence per iteration, so other threads may store between two *)
(* iterations; i is the loop index (0 for the load before the loop).       *)
(***************************************************************************)

\* Mutants of MinimumStep and MinDeltaStep: the comparison the wrong way round,
\* and a minDelta that forgets the barriers before this one.
MaximumStep(i, minimum, seq) ==
    IF i = 0 \/ difference(seq, minimum) > 0 THEN seq ELSE minimum
LastDeltaStep(i, minDelta, seq, floor) == difference(seq, floor)

\* minimum_sequence: the minimum after loading seq.
MinimumStep(i, minimum, seq) ==
    IF i = 0 \/ difference(seq, minimum) < 0 THEN seq ELSE minimum

\* minimum_sequence_after: minDelta after loading seq.
MinDeltaStep(i, minDelta, seq, floor) ==
    IF i = 0 THEN difference(seq, floor)
             ELSE Smaller(minDelta, difference(seq, floor))

(***************************************************************************)
(* sequence_range                                                          *)
(***************************************************************************)
RangeEnd(first, size)  == first + size
RangeLast(first, size) == RangeEnd(first, size) - 1
RangeAt(first, index)  == first + index

=============================================================================
