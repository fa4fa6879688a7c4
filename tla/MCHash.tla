------------------------------- MODULE MCHash -------------------------------
(* Small instances of MdMutexHash for TLC. *)
EXTENDS MdMutexHash, TLC

CONSTANT Crowded  \* the names of chain 0

\* Two chains: the names of Crowded collide, the others are in chain 1.
Chains == [f \in Name |-> IF f \in Crowded THEN 0 ELSE 1 % NHASH]

Symmetry == Permutations(Careful) \cup Permutations(Block)
              \cup Permutations(Crowded)
=============================================================================
