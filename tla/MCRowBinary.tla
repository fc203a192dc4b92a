---------------------------- MODULE MCRowBinary ----------------------------
(* Instance of RowBinary for TLC: lengths on both sides of every boundary  *)
(* of the length encoding, and of one and of two packets.                  *)
EXTENDS RowBinary

MCColumns ==
    {[kind |-> "fixed", len |-> n, mod |-> 0] : n \in {1, 2}} \cup
    {[kind |-> "string", len |-> n, mod |-> 1] : n \in {0, 1, 2}} \cup
    {[kind |-> "bit", len |-> n, mod |-> n] : n \in {1, 2}} \cup
    {[kind |-> "large", len |-> n, mod |-> 0] : n \in {0, 1, 2, 4, 5} \cup 9..20 \cup 29..36}
=============================================================================
