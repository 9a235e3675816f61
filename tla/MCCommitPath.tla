---------------------------- MODULE MCCommitPath ----------------------------
(***************************************************************************)
(* TLC instances of CommitPath.                                            *)
(***************************************************************************)
EXTENDS CommitPath, TLC

\* The artifact ids are interchangeable: they are only compared for equality.
IdSymmetry == Permutations(Id)
==============================================================================
