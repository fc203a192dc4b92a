------------------------------- MODULE Lenenc -------------------------------
(***************************************************************************)
(* The length of a length-encoded integer of the MySQL protocol, which     *)
(* adapter.c has twice: once to measure a row, once to write it.           *)
(***************************************************************************)
EXTENDS Naturals

CONSTANTS Len1, Len2, Len3      \* 251, 0xffff and 0xffffff in the code

(* Mutant: a boundary is on the other side.                                *)
CalcLenencIntLenOff(len) ==
    IF len <= Len1 THEN 1 ELSE IF len < Len2 THEN 3
    ELSE IF len < Len3 THEN 4 ELSE 9

(* calcLenencIntLen: what the first pass thinks a length takes.            *)
CalcLenencIntLen(len) ==
    IF len < Len1 THEN 1 ELSE IF len < Len2 THEN 3
    ELSE IF len < Len3 THEN 4 ELSE 9

(* assembleLenencUnsignedLong: what the second pass writes for it.         *)
AssembleLenencUnsignedLong(val) ==
    IF val < Len1 THEN 1 ELSE IF val < Len2 THEN 3
    ELSE IF val < Len3 THEN 4 ELSE 9
=============================================================================
