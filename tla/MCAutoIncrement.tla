-------------------------- MODULE MCAutoIncrement --------------------------
(* Two sessions on a sequence of a few values, a short log and a crash.    *)
EXTENDS AutoIncrement, TLC

CONSTANTS s1, s2

MCSymmetry == Permutations({s1, s2})
=============================================================================
