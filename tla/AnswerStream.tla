---------------------------- MODULE AnswerStream ----------------------------
(***************************************************************************)
(* What netTransceiver.c promises to the code that writes answers: the     *)
(* bytes of an answer arrive in the order they were handed over and none   *)
(* but those, all of them before the next command is read, or the session  *)
(* ends.  Bytes are counted from the beginning of the answer.              *)
(***************************************************************************)
EXTENDS Naturals

VARIABLES
    mode,           \* "read" a command, "answer" it, or "gone"
    handed,         \* bytes of the answer handed over
    delivered       \* how many of them the client has

vars == <<mode, handed, delivered>>

Init == mode = "read" /\ handed = 0 /\ delivered = 0

Begin ==
    /\ mode = "read"
    /\ mode' = "answer"
    /\ UNCHANGED <<handed, delivered>>

Hand ==
    /\ mode = "answer"
    /\ handed' \in Nat /\ handed' >= handed
    /\ UNCHANGED <<mode, delivered>>

Deliver ==
    /\ mode = "answer"
    /\ delivered' \in delivered + 1 .. handed
    /\ UNCHANGED <<mode, handed>>

End ==
    /\ mode = "answer"
    /\ delivered = handed
    /\ mode' = "read"
    /\ handed' = 0 /\ delivered' = 0

Break ==
    /\ mode # "gone"
    /\ mode' = "gone"
    /\ handed' = 0 /\ delivered' = 0

Next == Begin \/ Hand \/ Deliver \/ End \/ Break

Spec == Init /\ [][Next]_vars

(* What was handed over does not stay: again and again the client has all. *)
CatchesUp == []<>(delivered = handed)
=============================================================================
