----------------------------- MODULE MCImportRun -----------------------------
(***************************************************************************)
(* ImportRun for TLC: neither the two imports nor the two exports of the   *)
(* key are told apart by any action or property.                           *)
(***************************************************************************)
EXTENDS ImportRun, TLC

Interchangeable == Permutations(Imports) \cup Permutations(Versions)
=============================================================================
