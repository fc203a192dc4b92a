----------------------------- MODULE MCRowText -----------------------------
(* The lengths that matter against a maximum of 16: the boundaries of the  *)
(* length encoding, and values that fill a packet, nearly fill it, or take *)
(* two and three.                                                          *)
EXTENDS RowText

MCLens == {0, 1, 2, 4, 5, 7, 8, 12, 13, 15, 16, 17, 23, 39}
=============================================================================
