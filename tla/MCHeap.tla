--------------------------------- MODULE MCHeap ---------------------------------
(* The heap on a small arena: 10 bytes, links of 2 bytes, lists up to 4.      *)
EXTENDS Heap, TLC

\* A byte, padded to a link; three bytes, which fill a class of four only in part;
\* four bytes, and two, that must be aligned to four; a request too large for the lists.
MCLayout ==
  {[size |-> 1, align |-> 1], [size |-> 3, align |-> 1],
   [size |-> 4, align |-> 4], [size |-> 2, align |-> 4], [size |-> 5, align |-> 2]}

Owners == Permutations(Owner)
================================================================================
