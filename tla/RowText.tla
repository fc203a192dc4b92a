------------------------------ MODULE RowText ------------------------------
(***************************************************************************)
(* One row of a text result set on the wire: printTupText (adapter.c).     *)
(*                                                                         *)
(* The row is measured first, column by column; then it is written behind  *)
(* one packet header, or, when it is longer than a packet may be, behind   *)
(* as many headers as it needs, a header being written when the packet     *)
(* before it is thought to be full.  The header says how many bytes        *)
(* follow, so the two passes and the arithmetic of the packets have to     *)
(* agree to the byte.  Only lengths are modelled.                          *)
(***************************************************************************)
EXTENDS Integers, Sequences, Lenenc

CONSTANTS
    MYS_MAX_PACKET_LENGTH,
    Null,               \* a column that is null
    Lens,               \* bound: the lengths a value may have
    MaxCols             \* bound: the columns of a row (1017 in the code)

ASSUME RowAssumption ==
    /\ MYS_MAX_PACKET_LENGTH \in Nat \ {0}
    /\ Len1 \in Nat /\ Len2 \in Nat /\ Len3 \in Nat
    /\ Null \notin Nat
    /\ Lens \subseteq Nat
    /\ MaxCols \in Nat

VARIABLES
    phase,          \* "measure", "write" or "done"
    cols,           \* the lengths of the columns, or Null
    ends,           \* history: ends[k + 1], the length of the first k columns
    rowRemainLen,
    packetFreeSize,
    split,          \* 1 if the row does not fit in one packet
    col,            \* the column being written
    piece,          \* "prefix", its lenenc length (or null mark), or "value"
    left,           \* the bytes of the piece still to be written
    packets,        \* the lengths the headers announced
    owed,           \* bytes announced by the last header and not yet written
    missing         \* history: bytes owed when a later header was written

vars == <<phase, cols, ends, rowRemainLen, packetFreeSize, split, col, piece,
          left, packets, owed, missing>>

TypeOK ==
    /\ phase \in {"measure", "write", "done"}
    /\ cols \in Seq(Nat \cup {Null})
    /\ ends \in Seq(Nat)
    /\ rowRemainLen \in Nat
    /\ packetFreeSize \in Nat
    /\ split \in {0, 1}
    /\ col \in Nat \ {0}
    /\ piece \in {"prefix", "value"}
    /\ left \in Nat
    /\ packets \in Seq(Nat)
    /\ owed \in Int
    /\ missing \in Int

Init ==
    /\ phase = "measure"
    /\ cols = <<>>
    /\ ends = <<0>>
    /\ rowRemainLen = 0
    /\ packetFreeSize = 0
    /\ split = 0
    /\ col = 1
    /\ piece = "prefix"
    /\ left = 0
    /\ packets = <<>>
    /\ owed = 0
    /\ missing = 0

-----------------------------------------------------------------------------
(* The bytes of a column, in the first pass.                               *)
Measured(c) == IF c = Null THEN 1 ELSE CalcLenencIntLen(c) + c

(* The bytes of the first piece of a column, in the second.                *)
Prefix(c) == IF c = Null THEN 1 ELSE AssembleLenencUnsignedLong(c)

(* The first pass, one column.                                             *)
Measure(c) ==
    /\ phase = "measure"
    /\ Len(cols) < MaxCols
    /\ cols' = Append(cols, c)
    /\ ends' = Append(ends, rowRemainLen + Measured(c))
    /\ rowRemainLen' = rowRemainLen + Measured(c)
    /\ UNCHANGED <<phase, packetFreeSize, split, col, piece, left, packets,
                   owed, missing>>

(* writePacketHeaderNoFlush(len), with paid bytes of the packet before it  *)
(* written in the same step.                                               *)
Header(len, paid) ==
    /\ packets' = Append(packets, len)
    /\ owed' = len
    /\ missing' = missing + (owed - paid)

(* The header in front of the second pass.                                 *)
Start ==
    /\ phase = "measure"
    /\ cols # <<>>
    /\ phase' = "write"
    /\ left' = Prefix(cols[1])
    /\ IF rowRemainLen <= MYS_MAX_PACKET_LENGTH
       THEN /\ Header(rowRemainLen, 0)
            /\ UNCHANGED <<split, packetFreeSize>>
       ELSE /\ Header(MYS_MAX_PACKET_LENGTH, 0)
            /\ split' = 1
            /\ packetFreeSize' = MYS_MAX_PACKET_LENGTH
    /\ UNCHANGED <<cols, ends, rowRemainLen, col, piece>>

(* The piece after the current one.                                        *)
Advance ==
    IF piece = "prefix" /\ cols[col] # Null
    THEN /\ piece' = "value"
         /\ left' = cols[col]
         /\ UNCHANGED <<phase, col>>
    ELSE IF col < Len(cols)
    THEN /\ piece' = "prefix"
         /\ col' = col + 1
         /\ left' = Prefix(cols[col + 1])
         /\ UNCHANGED phase
    ELSE /\ phase' = "done"
         /\ left' = 0
         /\ UNCHANGED <<piece, col>>

(* Mutant: one byte more than there is room for.                           *)
WriteRestOver ==
    /\ phase = "write"
    /\ split = 1 => left <= packetFreeSize + 1
    /\ owed' = owed - left
    /\ packetFreeSize' = IF split = 1 THEN packetFreeSize - left
                         ELSE packetFreeSize
    /\ Advance
    /\ UNCHANGED <<cols, ends, rowRemainLen, split, packets, missing>>

(* The rest of the piece fits.                                             *)
WriteRest ==
    /\ phase = "write"
    /\ split = 1 => left <= packetFreeSize
    /\ owed' = owed - left
    /\ packetFreeSize' = IF split = 1 THEN packetFreeSize - left
                         ELSE packetFreeSize
    /\ Advance
    /\ UNCHANGED <<cols, ends, rowRemainLen, split, packets, missing>>

(* Mutant: the header announces the rest of the value, not of the row.     *)
NextPacketOfValue ==
    /\ phase = "write"
    /\ split = 1
    /\ left > packetFreeSize
    /\ left' = left - packetFreeSize
    /\ packetFreeSize' = IF left' <= MYS_MAX_PACKET_LENGTH THEN left'
                         ELSE MYS_MAX_PACKET_LENGTH
    /\ Header(packetFreeSize', packetFreeSize)
    /\ UNCHANGED <<phase, cols, ends, rowRemainLen, split, col, piece>>

(* It does not: the packet is filled and the next one begun.               *)
NextPacket ==
    /\ phase = "write"
    /\ split = 1
    /\ left > packetFreeSize
    /\ left' = left - packetFreeSize
    /\ rowRemainLen' = rowRemainLen - MYS_MAX_PACKET_LENGTH
    /\ Header(IF rowRemainLen' <= MYS_MAX_PACKET_LENGTH THEN rowRemainLen'
              ELSE MYS_MAX_PACKET_LENGTH, packetFreeSize)
    /\ packetFreeSize' = MYS_MAX_PACKET_LENGTH
    /\ UNCHANGED <<phase, cols, ends, split, col, piece>>

Next ==
    \/ \E c \in Lens \cup {Null} : Measure(c)
    \/ Start \/ WriteRest \/ NextPacket

Spec == Init /\ [][Next]_vars

-----------------------------------------------------------------------------
(* Properties.                                                             *)

(* Every packet of the row holds exactly the bytes its header announced:   *)
(* none is cut short by the next header, and the last one is full when the *)
(* row has been written.                                                   *)
Framed ==
    /\ missing = 0
    /\ owed >= 0
    /\ phase = "done" => owed = 0

(* The packets before the last are all of the maximum length, so that a    *)
(* reader goes on reading; the last is shorter, unless the row's length is *)
(* a multiple of the maximum.                                              *)
Reassembles ==
    phase = "done" =>
      /\ \A k \in 1..Len(packets) - 1 :
           packets[k] = MYS_MAX_PACKET_LENGTH
      /\ ends[Len(ends)] % MYS_MAX_PACKET_LENGTH # 0 =>
           packets[Len(packets)] < MYS_MAX_PACKET_LENGTH
=============================================================================
