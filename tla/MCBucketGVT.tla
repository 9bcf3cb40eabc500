---------------------------- MODULE MCBucketGVT ----------------------------
(***************************************************************************)
(* BucketGVT on two PEs.  MaxCount bounds by how much the sends of a PE in *)
(* one bucket exceed its receives, or the reverse.                         *)
(***************************************************************************)
EXTENDS BucketGVT

CONSTANTS p1, p2
=============================================================================
