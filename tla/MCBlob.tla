------------------------------- MODULE MCBlob -------------------------------
(* Small instances of BlobChannel for TLC. *)
EXTENDS BlobChannel, TLC

Symmetry == Permutations(Devices) \cup Permutations(Blobs) \cup Permutations(Gets)
=============================================================================
