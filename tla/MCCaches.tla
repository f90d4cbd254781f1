----------------------------- MODULE MCCaches ------------------------------
(* What TLC needs to check Caches: the workers are interchangeable; the lengths
   of the contents of the file. *)
EXTENDS Caches, TLC

Workers == Permutations(Readers)

\* An empty file; one of two bytes; the same truncated, to be saved in place; saved.
SavedInPlace == [c \in Contents |-> CASE c = 1 -> 2 [] c = 3 -> 3 [] OTHER -> 0]

OneByteEach == [c \in Contents |-> 1]
=============================================================================
