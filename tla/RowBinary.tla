----------------------------- MODULE RowBinary -----------------------------
(***************************************************************************)
(* One row of a binary result set, the answer to COM_STMT_EXECUTE, on the  *)
(* wire: printTupBinary (adapter.c).                                       *)
(*                                                                         *)
(* As in RowText the row is measured first and written second.  What       *)
(* differs is the middle: the header byte, the null bitmap and the columns *)
(* of small types are put in payloadBuf, and written when a column of a    *)
(* large type (VAR_STRING, BLOB) comes or the row ends; the large values   *)
(* are written directly.  Only lengths are modelled.                       *)
(***************************************************************************)
EXTENDS Integers, Sequences, Lenenc

CONSTANTS
    MYS_MAX_PACKET_LENGTH,
    PayloadBufSize,     \* sizeof(payloadBuf): 102400 in the code
    MaxAllocSize,       \* no value is longer: 1 GB (memutils.h)
    SizeT,              \* a size_t is below it: 2^64 in the code
    Null,               \* a column that is null
    Columns,            \* bound: the columns a row may have
    MaxCols             \* bound: how many (1017 in the code)

(* A column is of a fixed length, a string kept in payloadBuf, a BIT (kept *)
(* there too) or a string written directly; mod is the length that the     *)
(* column's type modifier would have as a BIT.                             *)
Kinds == {"fixed", "string", "bit", "large"}

(* The header byte and the null bitmap.                                    *)
NullBitmapLen(n) == (n + 9) \div 8
HeadLen(n) == 1 + NullBitmapLen(n)

(* payloadBuf is smaller than a packet, but not than the bitmap; and the   *)
(* length of a row is a size_t, whatever the lengths of its values are.    *)
ASSUME BinaryAssumption ==
    /\ MYS_MAX_PACKET_LENGTH \in Nat \ {0}
    /\ PayloadBufSize \in Nat /\ PayloadBufSize <= MYS_MAX_PACKET_LENGTH
    /\ MaxCols \in Nat /\ HeadLen(MaxCols) <= PayloadBufSize
    /\ MaxAllocSize \in Nat
    /\ SizeT \in Nat
    /\ HeadLen(MaxCols) + MaxCols * (9 + MaxAllocSize) < SizeT
    /\ Len1 \in Nat /\ Len2 \in Nat /\ Len3 \in Nat
    /\ Columns \subseteq [kind : Kinds, len : 0..MaxAllocSize, mod : Nat]
    /\ \A c \in Columns : c.kind = "bit" => c.mod = c.len
    /\ Null \notin Columns

VARIABLES
    phase,          \* "measure", "buffer", "flush", "value", "last", "done";
                    \* "overrun", payloadBuf is too small
    cols,
    att,            \* the last column measured that is not null
    rowRemainLen,
    packetFreeSize,
    split,          \* 1 if the row does not fit in one packet
    col,            \* the column being written
    payloadBufIndex,
    left,           \* the bytes of the large value still to be written
    owed,           \* bytes announced by the last header and not yet written
    misframed,      \* history: 1 if a header was written with bytes owed
    ends,           \* history: ends[k + 1], the length of the first k columns
    written         \* history: the bytes written

vars == <<phase, cols, att, rowRemainLen, packetFreeSize, split, col,
          payloadBufIndex, left, owed, misframed, ends, written>>

TypeOK ==
    /\ phase \in {"measure", "buffer", "flush", "value", "last", "done",
                  "overrun"}
    /\ cols \in Seq(Columns \cup {Null})
    /\ att \in Columns \cup {Null}
    /\ rowRemainLen \in 0..SizeT - 1
    /\ packetFreeSize \in 0..MYS_MAX_PACKET_LENGTH
    /\ split \in {0, 1}
    /\ col \in Nat
    /\ payloadBufIndex \in 0..PayloadBufSize
    /\ left \in Nat
    /\ owed \in Int
    /\ misframed \in {0, 1}
    /\ ends \in Seq(Nat) /\ written \in Nat

Init ==
    /\ phase = "measure"
    /\ cols = <<>> /\ att = Null
    /\ rowRemainLen = 0 /\ packetFreeSize = 0 /\ split = 0
    /\ col = 1
    /\ payloadBufIndex = 0
    /\ left = 0
    /\ owed = 0 /\ misframed = 0
    /\ ends = <<0>> /\ written = 0

-----------------------------------------------------------------------------
(* Mutant: the length in front of a string is forgotten.                   *)
MeasuredNoPrefix(c) == IF c = Null THEN 0 ELSE c.len

(* The first pass.                                                         *)
Measured(c) ==
    IF c = Null THEN 0
    ELSE IF c.kind = "fixed" THEN c.len ELSE CalcLenencIntLen(c.len) + c.len

Measure(c) ==
    /\ phase = "measure"
    /\ Len(cols) < MaxCols
    /\ cols' = Append(cols, c)
    /\ att' = IF c = Null THEN att ELSE c
    /\ rowRemainLen' = rowRemainLen + Measured(c)
    /\ ends' = Append(ends, rowRemainLen')
    /\ UNCHANGED <<phase, packetFreeSize, split, col, payloadBufIndex, left,
                   owed, misframed, written>>

(* n bytes of payload go out, and then a header announces len.             *)
WriteThenHeader(n, len) ==
    /\ written' = written + n
    /\ owed' = len
    /\ misframed' = IF owed # n THEN 1 ELSE misframed

(* n bytes of payload go out.                                              *)
Write(n) ==
    /\ written' = written + n
    /\ owed' = owed - n
    /\ UNCHANGED misframed

Min(a, b) == IF a <= b THEN a ELSE b

(* rowRemainLen at the next packet: unsigned, it wraps below zero.         *)
NextRemain == (rowRemainLen - MYS_MAX_PACKET_LENGTH) % SizeT

(* The header in front of the second pass.                                 *)
Start ==
    /\ phase = "measure"
    /\ cols # <<>>
    /\ phase' = "buffer"
    /\ LET row == HeadLen(Len(cols)) + rowRemainLen
       IN  /\ rowRemainLen' = row
           /\ WriteThenHeader(0, Min(row, MYS_MAX_PACKET_LENGTH))
           /\ IF row <= MYS_MAX_PACKET_LENGTH
              THEN UNCHANGED <<split, packetFreeSize>>
              ELSE /\ split' = 1
                   /\ packetFreeSize' =
                        MYS_MAX_PACKET_LENGTH - HeadLen(Len(cols))
    /\ payloadBufIndex' = HeadLen(Len(cols))
    /\ UNCHANGED <<cols, att, col, left, ends>>

-----------------------------------------------------------------------------
(* The second pass.                                                        *)

(* What a column takes in payloadBuf.  A BIT's length is worked out again  *)
(* when the row is split, from att, which the first pass has left.         *)
Kept(c) ==
    IF c = Null THEN 0
    ELSE IF c.kind = "fixed" THEN c.len
    ELSE IF c.kind = "large" THEN AssembleLenencUnsignedLong(c.len)
    ELSE LET n == IF c.kind = "bit" /\ split = 1 THEN att.mod ELSE c.len
         IN  AssembleLenencUnsignedLong(n) + n

IsLarge(c) == c # Null /\ c.kind = "large"

(* The next column.  Nothing tests whether it fits in payloadBuf: what     *)
(* becomes of a row that is too long for it is undefined, and not followed.*)
Buffer ==
    /\ phase = "buffer"
    /\ IF col > Len(cols)
       THEN phase' = "last" /\ UNCHANGED <<payloadBufIndex, col, left>>
       ELSE IF payloadBufIndex + Kept(cols[col]) > PayloadBufSize
       THEN phase' = "overrun" /\ UNCHANGED <<payloadBufIndex, col, left>>
       ELSE /\ payloadBufIndex' = payloadBufIndex + Kept(cols[col])
            /\ col' = col + 1
            /\ IF IsLarge(cols[col])
               THEN phase' = "flush" /\ left' = cols[col].len
               ELSE UNCHANGED <<phase, left>>
    /\ UNCHANGED <<cols, att, rowRemainLen, packetFreeSize, split, owed,
                   misframed, ends, written>>

(* Mutant: the buffer counts as empty when only part of it fitted.         *)
FlushDropsRest ==
    /\ phase = "flush"
    /\ phase' = "value"
    /\ payloadBufIndex' = 0
    /\ LET n == IF split = 1 THEN Min(payloadBufIndex, packetFreeSize)
                ELSE payloadBufIndex
       IN  /\ Write(n)
           /\ packetFreeSize' = IF split = 1 THEN packetFreeSize - n
                                ELSE packetFreeSize
    /\ UNCHANGED <<cols, att, rowRemainLen, split, col, left, ends>>

(* A large column: payloadBuf first, over the end of the packet if it must *)
(* be.                                                                     *)
Flush ==
    /\ phase = "flush"
    /\ phase' = "value"
    /\ payloadBufIndex' = 0
    /\ \/ /\ split = 0 \/ payloadBufIndex <= packetFreeSize
          /\ Write(payloadBufIndex)
          /\ packetFreeSize' = IF split = 1
                               THEN packetFreeSize - payloadBufIndex
                               ELSE packetFreeSize
          /\ UNCHANGED rowRemainLen
       \/ /\ split = 1 /\ payloadBufIndex > packetFreeSize
          /\ rowRemainLen' = NextRemain
          /\ LET rest == payloadBufIndex - packetFreeSize
             IN  /\ written' = written + payloadBufIndex
                 /\ owed' = Min(rowRemainLen', MYS_MAX_PACKET_LENGTH) - rest
                 /\ misframed' = IF owed # packetFreeSize THEN 1
                                 ELSE misframed
                 /\ packetFreeSize' = MYS_MAX_PACKET_LENGTH - rest
    /\ UNCHANGED <<cols, att, split, col, left, ends>>

(* Mutant: the packet is taken to hold one byte more.                      *)
WriteValueOver ==
    /\ phase = "value"
    /\ split = 1 => left <= packetFreeSize + 1
    /\ phase' = "buffer"
    /\ Write(left)
    /\ left' = 0
    /\ packetFreeSize' = IF split = 1 THEN packetFreeSize - left
                         ELSE packetFreeSize
    /\ UNCHANGED <<cols, att, rowRemainLen, split, col, payloadBufIndex, ends>>

(* The rest of the value fits ...                                          *)
WriteValue ==
    /\ phase = "value"
    /\ split = 1 => left <= packetFreeSize
    /\ phase' = "buffer"
    /\ Write(left)
    /\ left' = 0
    /\ packetFreeSize' = IF split = 1 THEN packetFreeSize - left
                         ELSE packetFreeSize
    /\ UNCHANGED <<cols, att, rowRemainLen, split, col, payloadBufIndex, ends>>

(* ... or the packet is filled and the next one begun.                     *)
NextPacket ==
    /\ phase = "value"
    /\ split = 1
    /\ left > packetFreeSize
    /\ left' = left - packetFreeSize
    /\ rowRemainLen' = NextRemain
    /\ WriteThenHeader(packetFreeSize,
                       Min(rowRemainLen', MYS_MAX_PACKET_LENGTH))
    /\ packetFreeSize' = MYS_MAX_PACKET_LENGTH
    /\ UNCHANGED <<phase, cols, att, split, col, payloadBufIndex, ends>>

(* What is left in payloadBuf.                                             *)
Finish ==
    /\ phase = "last"
    /\ phase' = "done"
    /\ \/ /\ split = 0 \/ payloadBufIndex <= packetFreeSize
          /\ Write(payloadBufIndex)
       \/ /\ split = 1 /\ payloadBufIndex > packetFreeSize
          /\ written' = written + payloadBufIndex
          /\ owed' = 0
          /\ misframed' = IF owed # packetFreeSize THEN 1 ELSE misframed
    /\ UNCHANGED <<cols, att, rowRemainLen, packetFreeSize, split, col,
                   payloadBufIndex, left, ends>>

Next ==
    \/ \E c \in Columns \cup {Null} : Measure(c)
    \/ Start \/ Buffer \/ Flush \/ WriteValue \/ NextPacket \/ Finish

Spec == Init /\ [][Next]_vars

-----------------------------------------------------------------------------
(* Properties.                                                             *)

(* Every packet holds exactly the bytes its header announced.              *)
FramedBinary ==
    /\ misframed = 0
    /\ phase = "done" => owed = 0

(* The same, for the rows that fit in one packet.                          *)
FramedInOnePacket == split = 0 => FramedBinary

(* The row's length, as the first pass has it.                             *)
Total == HeadLen(Len(cols)) + ends[Len(ends)]

(* A row that is split has no BIT column.                                  *)
NoBitSplit ==
    split = 1 => \A i \in 1..Len(cols) :
                   cols[i] # Null => cols[i].kind # "bit"

(* The row is written once and in full, over however many packets: the     *)
(* buffer and the large values take turns without a byte lost or sent      *)
(* twice.  Exception: a BIT column of a row that is split.                 *)
WrittenOnce == phase = "done" /\ NoBitSplit => written = Total
=============================================================================
