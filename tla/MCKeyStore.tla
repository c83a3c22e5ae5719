----------------------------- MODULE MCKeyStore -----------------------------
(* Small instances of KeyStore for TLC.                                    *)
EXTENDS KeyStore, TLC

Symmetry == Permutations(Versions) \cup Permutations(Inodes)
=============================================================================
