---------------------------- MODULE MCAuditChain ----------------------------
(* Two writers of one file for TLC; the writers are interchangeable.         *)
EXTENDS AuditChain, TLC

WriterSymmetry == Permutations(Writers)
=============================================================================
