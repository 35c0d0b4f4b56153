----------------------------- MODULE MCRecordDir -----------------------------
(* Small instances of RecordDir: files, ids, savers and valid values are interchangeable. *)
EXTENDS RecordDir, TLC

Symmetry ==
  Permutations(Files) \cup Permutations(Ids) \cup Permutations(Savers)
    \cup Permutations(Valid)
=============================================================================
