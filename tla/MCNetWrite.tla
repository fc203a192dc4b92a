---------------------------- MODULE MCNetWrite ----------------------------
(* A buffer of a few bytes, packets that fill it, cross its end, and are   *)
(* split.                                                                  *)
EXTENDS NetWrite
=============================================================================
