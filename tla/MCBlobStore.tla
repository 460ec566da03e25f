---------------------------- MODULE MCBlobStore ----------------------------
(* Blobs at a size TLC can search.                                          *)
EXTENDS BlobStore, TLC

Symmetry == Permutations(Digests) \cup Permutations(Requests)
=============================================================================
