------------------------------- MODULE MCTable -------------------------------
(* Small instances of MdMutexTable for TLC. *)
EXTENDS MdMutexTable, TLC

\* Users of one kind and names are interchangeable.  Only safety is checked
\* under symmetry.
Symmetry == Permutations(Careful \ Mortal) \cup Permutations(Careful \cap Mortal)
              \cup Permutations(ModifyMd) \cup Permutations(File)
=============================================================================
