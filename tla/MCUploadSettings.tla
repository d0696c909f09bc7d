-------------------------- MODULE MCUploadSettings --------------------------
(* Small instances of UploadSettings for TLC. *)
EXTENDS UploadSettings, TLC

Interchangeable ==
  Permutations(Instances) \cup Permutations(Puts)
    \cup Permutations(Limits) \cup Permutations(Lists)
=============================================================================
