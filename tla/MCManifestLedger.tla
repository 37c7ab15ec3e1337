-------------------------- MODULE MCManifestLedger --------------------------
(* Instances of ManifestLedger for TLC.                                    *)
EXTENDS ManifestLedger, TLC

LedgerSymmetry == Permutations(Writers)
=============================================================================
