----------------------------- MODULE MCNetRead -----------------------------
(* Instance of NetRead for TLC.                                            *)
EXTENDS NetRead

MCLens == 1..max_allowed_packet + 2
=============================================================================
