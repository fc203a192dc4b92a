----------------------------- MODULE MCUuidShort -----------------------------
(* Instance of UuidShort for TLC: backends are interchangeable.              *)
EXTENDS UuidShort, TLC

BackendSymmetry == Permutations(Backends)
==============================================================================
