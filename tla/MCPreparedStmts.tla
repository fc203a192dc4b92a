-------------------------- MODULE MCPreparedStmts --------------------------
(* Three statements: one with a column and a mark in each kind of place,   *)
(* one with neither, and one whose quotes do not fit.  Commands are read   *)
(* just behind remainOffset, as readCommand does, or with room in front.   *)
EXTENDS PreparedStmts, TLC

CONSTANTS p, q, r, t1, t2

MCText == p :> <<"?", "squote", "?", "squote", "dquote", "?", "dquote",
                 "backslash", "?">>
          @@ q :> <<"other">>
          @@ r :> <<"dquote", "dquote", "backslash", "dquote", "dquote">>
MCColumns == p :> 1 @@ q :> 0 @@ r :> 0

(* Nothing is claimed once a PREPARE has found no free slot.               *)
MCNotFull == "full" \notin seen

MCSymmetry == Permutations({t1, t2})
=============================================================================
