--------------------------- MODULE MCFileLifecycle ---------------------------
(* Small instances of FileLifecycle for TLC. *)
EXTENDS FileLifecycle, TLC

Interchangeable ==
  Permutations(Uploads) \cup Permutations(Contents)
    \cup Permutations(Deleters) \cup Permutations(Sweepers)
=============================================================================
