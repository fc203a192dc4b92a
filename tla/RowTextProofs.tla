--------------------------- MODULE RowTextProofs ---------------------------
(***************************************************************************)
(* Proof that printTupText frames a row of any columns, of any lengths, in *)
(* packets of any maximum length.                                          *)
(***************************************************************************)
EXTENDS RowText, SequenceTheorems, TLAPS

Max == MYS_MAX_PACKET_LENGTH

Value(c) == IF c = Null THEN 0 ELSE c

(* The row's bytes that are still to be written.                           *)
Total == ends[Len(ends)]
Pending == IF piece = "prefix" THEN Value(cols[col]) ELSE 0
Remaining == (Total - ends[col + 1]) + left + Pending

Announced == IF rowRemainLen <= Max THEN rowRemainLen ELSE Max

(* The lengths of the first pass are those of the second.                  *)
EndsInv ==
    /\ Len(ends) = Len(cols) + 1
    /\ ends[1] = 0
    /\ \A k \in 1..Len(cols) :
         ends[k + 1] = ends[k] + Prefix(cols[k]) + Value(cols[k])
    /\ \A k \in 1..Len(ends) : ends[k] <= Total

MeasureInv ==
    phase = "measure" =>
      /\ rowRemainLen = Total
      /\ split = 0 /\ col = 1 /\ piece = "prefix" /\ owed = 0 /\ missing = 0

(* The room left in the packet is the packet's length less what was        *)
(* written of it, and the row that remains is what remains to be written.  *)
WriteInv ==
    phase = "write" =>
      /\ col <= Len(cols)
      /\ missing = 0
      /\ split = 0 => owed = Remaining
      /\ split = 1 =>
           /\ packetFreeSize <= Max
           /\ Remaining = rowRemainLen - (Max - packetFreeSize)
           /\ owed = Announced - (Max - packetFreeSize)

DoneInv == phase = "done" => missing = 0 /\ owed = 0

RowInv == TypeOK /\ EndsInv /\ MeasureInv /\ WriteInv /\ DoneInv

LEMMA ColumnFacts ==
    ASSUME NEW c \in Nat \cup {Null}
    PROVE  /\ Measured(c) \in Nat /\ Prefix(c) \in Nat /\ Value(c) \in Nat
           /\ Measured(c) = Prefix(c) + Value(c)
           /\ c # Null => c \in Nat /\ Value(c) = c
BY RowAssumption DEF Measured, Prefix, Value, CalcLenencIntLen,
                     AssembleLenencUnsignedLong

(* What remains is at least the piece being written.                       *)
LEMMA RemainingFacts ==
    ASSUME RowInv, phase = "write"
    PROVE  /\ col \in 1..Len(cols)
           /\ cols[col] \in Nat \cup {Null}
           /\ Total \in Nat /\ ends[col + 1] \in Nat
           /\ ends[col + 1] <= Total
           /\ Remaining \in Nat /\ left <= Remaining
<1> USE DEF RowInv, TypeOK
<1>1. col \in 1..Len(cols) /\ Len(cols) \in Nat
  BY DEF WriteInv
<1>2. cols[col] \in Nat \cup {Null}
  BY <1>1
<1>3. Len(ends) = Len(cols) + 1 /\ col + 1 \in 1..Len(ends)
      /\ Len(ends) \in 1..Len(ends)
  BY <1>1 DEF EndsInv
<1>4. Total \in Nat /\ ends[col + 1] \in Nat
  BY <1>3 DEF Total
<1>5. ends[col + 1] <= Total
  BY <1>3 DEF EndsInv
<1>6. Pending \in Nat /\ left \in Nat
  BY <1>2, ColumnFacts DEF Pending
<1> DEFINE e == ends[col + 1]
<1>7. Remaining = (Total - e) + left + Pending
  BY DEF Remaining
<1>8. e \in Nat /\ e <= Total
  BY <1>4, <1>5
<1> HIDE DEF RowInv, TypeOK, e
<1>9. Remaining \in Nat /\ left <= Remaining
  BY <1>4, <1>6, <1>7, <1>8
<1> QED
  BY <1>1, <1>2, <1>4, <1>5, <1>9

LEMMA RowInit == Init => RowInv
<1> SUFFICES ASSUME Init PROVE RowInv
  OBVIOUS
<1>1. TypeOK
  BY DEF Init, TypeOK
<1>2. Len(cols) = 0 /\ Len(ends) = 1 /\ ends[1] = 0
  BY DEF Init
<1>3. EndsInv
  BY <1>2 DEF EndsInv, Total
<1> QED
  BY <1>1, <1>2, <1>3 DEF Init, RowInv, MeasureInv, WriteInv, DoneInv, Total

LEMMA MeasureStep ==
    ASSUME RowInv, NEW c \in Lens \cup {Null}, Measure(c)
    PROVE  RowInv'
<1> USE RowAssumption DEF RowInv, TypeOK
<1>1. c \in Nat \cup {Null} /\ Measured(c) \in Nat
      /\ Measured(c) = Prefix(c) + Value(c)
      /\ Prefix(c) \in Nat /\ Value(c) \in Nat
  BY ColumnFacts
<1>2. /\ Len(ends) \in Nat /\ Len(cols) \in Nat
      /\ Len(ends) = Len(cols) + 1
      /\ rowRemainLen = Total
      /\ split = 0 /\ col = 1 /\ piece = "prefix" /\ owed = 0 /\ missing = 0
  BY DEF EndsInv, MeasureInv, Measure
<1> DEFINE new == rowRemainLen + Measured(c)
<1>3. /\ ends' = Append(ends, new) /\ cols' = Append(cols, c)
      /\ new \in Nat
  <2>1. ends' = Append(ends, new) /\ cols' = Append(cols, c)
    BY DEF Measure
  <2>2. rowRemainLen \in Nat
    OBVIOUS
  <2> HIDE DEF RowInv, TypeOK
  <2>3. new \in Nat
    BY <1>1, <2>2
  <2> QED
    BY <2>1, <2>3
<1>4. /\ Len(ends') = Len(ends) + 1 /\ Len(cols') = Len(cols) + 1
      /\ \A k \in 1..Len(ends) : ends'[k] = ends[k]
      /\ ends'[Len(ends) + 1] = new
      /\ \A k \in 1..Len(cols) : cols'[k] = cols[k]
      /\ cols'[Len(cols) + 1] = c
  BY <1>2, <1>3
<1>5. Total' = new
  BY <1>4 DEF Total
<1>6. TypeOK'
  BY <1>1, <1>3 DEF Measure
<1>7. EndsInv'
  <2>1. \A k \in 1..Len(cols') :
          ends'[k + 1] = ends'[k] + Prefix(cols'[k]) + Value(cols'[k])
    <3> SUFFICES ASSUME NEW k \in 1..Len(cols')
                 PROVE  ends'[k + 1] = ends'[k] + Prefix(cols'[k])
                                        + Value(cols'[k])
      OBVIOUS
    <3>1. CASE k \in 1..Len(cols)
      BY <1>2, <1>4, <3>1 DEF EndsInv
    <3>2. CASE k = Len(cols) + 1
      <4>1. ends'[k] = Total /\ cols'[k] = c /\ ends'[k + 1] = new
        BY <1>2, <1>4, <3>2 DEF Total
      <4>2. Total \in Nat
        BY <1>2
      <4> QED
        BY <1>1, <1>2, <4>1, <4>2
    <3> QED
      BY <1>2, <1>4, <3>1, <3>2
  <2>2. \A k \in 1..Len(ends') : ends'[k] <= Total'
    <3> SUFFICES ASSUME NEW k \in 1..Len(ends') PROVE ends'[k] <= new
      BY <1>5
    <3>1. CASE k \in 1..Len(ends)
      <4>1. ends'[k] = ends[k] /\ ends[k] <= Total /\ ends[k] \in Nat
        BY <1>4, <3>1 DEF EndsInv
      <4> DEFINE e == ends[k]
                 m == Measured(c)
      <4>2. e \in Nat /\ m \in Nat /\ e <= rowRemainLen
            /\ rowRemainLen \in Nat
        BY <1>1, <1>2, <4>1
      <4> HIDE DEF RowInv, TypeOK, e, m
      <4>3. e <= rowRemainLen + m
        BY <4>2
      <4> QED
        BY <4>1, <4>3 DEF e, m
    <3>2. CASE k = Len(ends) + 1
      BY <1>3, <1>4, <3>2
    <3> QED
      BY <1>2, <1>4, <3>1, <3>2
  <2> QED
    BY <1>2, <1>4, <2>1, <2>2 DEF EndsInv
<1> QED
  BY <1>2, <1>5, <1>6, <1>7 DEF Measure, MeasureInv, WriteInv, DoneInv


LEMMA StartStep ==
    ASSUME RowInv, Start
    PROVE  RowInv'
<1> USE RowAssumption DEF RowInv, TypeOK
<1>0. Len(cols) \in Nat /\ Len(cols) >= 1
  <2>1. cols # <<>>
    BY DEF Start
  <2> QED
    BY <2>1, EmptySeq
<1>1. /\ phase = "measure" /\ Len(cols) \in Nat /\ Len(cols) >= 1
      /\ Len(ends) = Len(cols) + 1
      /\ rowRemainLen = Total
      /\ split = 0 /\ col = 1 /\ piece = "prefix" /\ owed = 0 /\ missing = 0
  <2>1. phase = "measure"
    BY DEF Start
  <2>2. Len(ends) = Len(cols) + 1
    BY DEF EndsInv
  <2> QED
    BY <1>0, <2>1, <2>2 DEF MeasureInv
<1>2. cols[1] \in Nat \cup {Null} /\ Prefix(cols[1]) \in Nat
      /\ Value(cols[1]) \in Nat
  <2>1. cols[1] \in Nat \cup {Null}
    BY <1>1
  <2> QED
    BY <2>1, ColumnFacts
<1>3. /\ phase' = "write" /\ left' = Prefix(cols[1])
      /\ cols' = cols /\ ends' = ends /\ rowRemainLen' = rowRemainLen
      /\ col' = 1 /\ piece' = "prefix"
  BY <1>1 DEF Start
<1>4. /\ owed' = Announced
      /\ packets' = Append(packets, Announced)
      /\ missing' = missing + (owed - 0)
      /\ split' \in {0, 1}
      /\ split' = 0 => rowRemainLen <= Max
      /\ split' = 1 => packetFreeSize' = Max
      /\ packetFreeSize' \in Nat
  BY <1>1 DEF Start, Header, Announced, Max
<1>5. Announced \in Nat
  BY DEF Announced, Max
<1>6. TypeOK'
  BY <1>1, <1>2, <1>3, <1>4, <1>5
<1>7. EndsInv'
  BY <1>3 DEF EndsInv, Total
<1>8. Remaining' = Total'
  <2>1. ends[2] = ends[1] + Prefix(cols[1]) + Value(cols[1]) /\ ends[1] = 0
    BY <1>1 DEF EndsInv
  <2>2. Pending' = Value(cols[1])
    BY <1>3 DEF Pending
  <2>3. Remaining' = (Total' - ends[2]) + Prefix(cols[1]) + Value(cols[1])
    BY <1>3, <2>2 DEF Remaining
  <2>4. Total' \in Nat
    BY <1>1, <1>3 DEF Total
  <2> QED
    BY <1>2, <2>1, <2>3, <2>4
<1>9. WriteInv'
  <2>1. Total' = rowRemainLen /\ Announced' = Announced
    BY <1>1, <1>3 DEF Total, Announced
  <2>2. col' <= Len(cols') /\ missing' = 0
    BY <1>1, <1>3, <1>4
  <2>3. split' = 0 => owed' = Remaining'
    BY <1>4, <1>8, <2>1 DEF Announced
  <2>4. Max' = Max /\ Max \in Nat /\ Announced \in Nat
    BY <1>5 DEF Max
  <2>5. ASSUME split' = 1
        PROVE  /\ packetFreeSize' <= Max'
               /\ Remaining' = rowRemainLen' - (Max' - packetFreeSize')
               /\ owed' = Announced' - (Max' - packetFreeSize')
    BY <1>3, <1>4, <1>8, <2>1, <2>4, <2>5
  <2> QED
    BY <2>2, <2>3, <2>5 DEF WriteInv
<1> QED
  BY <1>3, <1>6, <1>7, <1>9 DEF MeasureInv, DoneInv

(* The rest of the piece is written: what remains and what is owed shrink  *)
(* by the same length.                                                     *)
LEMMA AdvanceRemaining ==
    ASSUME RowInv, WriteRest
    PROVE  /\ phase' = "write" =>
                col' <= Len(cols) /\ Remaining' = Remaining - left
           /\ phase' = "done" => Remaining = left
           /\ phase' \in {"write", "done"}
           /\ col' \in Nat \ {0} /\ piece' \in {"prefix", "value"}
           /\ left' \in Nat
           /\ Total' = Total
<1> USE RowAssumption DEF RowInv, TypeOK
<1>1. /\ phase = "write" /\ cols' = cols /\ ends' = ends /\ Advance
  BY DEF WriteRest
<1>2. /\ col \in 1..Len(cols) /\ cols[col] \in Nat \cup {Null}
      /\ Total \in Nat /\ ends[col + 1] \in Nat /\ Remaining \in Nat
      /\ left \in Nat
  BY <1>1, RemainingFacts
<1>3. Total' = Total /\ Len(ends) = Len(cols) + 1 /\ Len(cols) \in Nat
  BY <1>1 DEF Total, EndsInv
<1>4. CASE piece = "prefix" /\ cols[col] # Null
  <2>1. /\ phase' = "write" /\ col' = col /\ piece' = "value"
        /\ left' = cols[col] /\ cols[col] \in Nat
    BY <1>1, <1>2, <1>4 DEF Advance
  <2>2. Pending = cols[col] /\ Pending' = 0
    BY <1>4, <2>1 DEF Pending, Value
  <2>3. Remaining' = Remaining - left
    <3> HIDE DEF RowInv, TypeOK
    <3>1. Remaining' = (Total - ends[col + 1]) + cols[col] + 0
      BY <1>1, <1>3, <2>1, <2>2 DEF Remaining
    <3>2. Remaining = (Total - ends[col + 1]) + left + cols[col]
      BY <2>2 DEF Remaining
    <3> DEFINE val == cols[col]
               e   == ends[col + 1]
    <3>3. val \in Nat /\ e \in Nat /\ Total \in Nat /\ left \in Nat
      BY <1>2, <2>1
    <3>4. /\ Remaining' = (Total - e) + val + 0
          /\ Remaining = (Total - e) + left + val
      BY <3>1, <3>2
    <3> HIDE DEF val, e
    <3> QED
      BY <3>3, <3>4
  <2> QED
    BY <1>2, <1>3, <2>1, <2>3
<1>5. CASE ~(piece = "prefix" /\ cols[col] # Null)
  <2>1. Pending = 0
    BY <1>5 DEF Pending, Value
  <2>2. CASE col < Len(cols)
    <3>1. /\ phase' = "write" /\ col' = col + 1 /\ piece' = "prefix"
          /\ left' = Prefix(cols[col + 1])
      BY <1>1, <1>5, <2>2 DEF Advance
    <3>2. col + 1 \in 1..Len(cols) /\ cols[col + 1] \in Nat \cup {Null}
      BY <1>2, <1>3, <2>2
    <3>3. /\ Prefix(cols[col + 1]) \in Nat /\ Value(cols[col + 1]) \in Nat
      BY <3>2, ColumnFacts
    <3>4. ends[col + 2] = ends[col + 1] + Prefix(cols[col + 1])
                            + Value(cols[col + 1])
      <4>1. ends[(col + 1) + 1] = ends[col + 1] + Prefix(cols[col + 1])
                                    + Value(cols[col + 1])
        BY <3>2 DEF EndsInv
      <4> QED
        BY <4>1, <1>2
    <3>5. Pending' = Value(cols[col + 1]) /\ ends'[col' + 1] = ends[col + 2]
      BY <1>1, <1>2, <3>1 DEF Pending
    <3>6. Remaining' = Remaining - left
      <4> HIDE DEF RowInv, TypeOK
      <4>1. Remaining' = (Total - ends[col + 2]) + Prefix(cols[col + 1])
                           + Value(cols[col + 1])
        BY <1>3, <3>1, <3>5 DEF Remaining
      <4>2. Remaining = (Total - ends[col + 1]) + left + 0
        BY <2>1 DEF Remaining
      <4> DEFINE pre == Prefix(cols[col + 1])
                 val == Value(cols[col + 1])
                 e   == ends[col + 1]
      <4>3. pre \in Nat /\ val \in Nat /\ e \in Nat /\ Total \in Nat
        BY <1>2, <3>3
      <4>4. Remaining' = (Total - (e + pre + val)) + pre + val
        BY <3>4, <4>1
      <4>5. Remaining = (Total - e) + left + 0
        BY <4>2
      <4> HIDE DEF pre, val, e
      <4> QED
        BY <1>2, <4>3, <4>4, <4>5
    <3> QED
      BY <1>2, <1>3, <3>1, <3>2, <3>3, <3>6
  <2>3. CASE col = Len(cols)
    <3>1. phase' = "done" /\ col' = col /\ piece' = piece /\ left' = 0
      BY <1>1, <1>3, <1>5, <2>3 DEF Advance
    <3>2. Remaining = left
      BY <1>2, <1>3, <2>1, <2>3 DEF Remaining, Total
    <3> QED
      BY <1>3, <3>1, <3>2
  <2> QED
    BY <1>2, <1>3, <2>2, <2>3
<1> QED
  BY <1>4, <1>5

LEMMA WriteRestStep ==
    ASSUME RowInv, WriteRest
    PROVE  RowInv'
<1> USE RowAssumption DEF RowInv, TypeOK
<1>1. /\ phase = "write" /\ cols' = cols /\ ends' = ends
      /\ rowRemainLen' = rowRemainLen /\ split' = split
      /\ packets' = packets /\ missing' = missing /\ owed' = owed - left
      /\ split = 1 => left <= packetFreeSize
                      /\ packetFreeSize' = packetFreeSize - left
      /\ split = 0 => packetFreeSize' = packetFreeSize
  BY DEF WriteRest
<1>2. /\ phase' = "write" =>
           col' <= Len(cols) /\ Remaining' = Remaining - left
      /\ phase' = "done" => Remaining = left
      /\ phase' \in {"write", "done"}
      /\ col' \in Nat \ {0} /\ piece' \in {"prefix", "value"}
      /\ left' \in Nat
      /\ Total' = Total
  BY AdvanceRemaining
<1>3. /\ Remaining \in Nat /\ left <= Remaining /\ Max \in Nat
      /\ Announced \in Nat /\ Max' = Max /\ Announced' = Announced
  BY <1>1, RemainingFacts DEF Max, Announced
<1>4. packetFreeSize' \in Nat /\ owed' \in Int
  BY <1>1
<1>5. TypeOK'
  BY <1>1, <1>2, <1>4
<1>6. EndsInv'
  BY <1>1, <1>2 DEF EndsInv
<1>7. /\ missing = 0
      /\ split = 0 => owed = Remaining
      /\ split = 1 =>
           /\ packetFreeSize <= Max
           /\ Remaining = rowRemainLen - (Max - packetFreeSize)
           /\ owed = Announced - (Max - packetFreeSize)
  BY <1>1 DEF WriteInv
<1>8. CASE phase' = "write"
  <2>1. split' = 0 => owed' = Remaining'
    BY <1>1, <1>2, <1>7, <1>8
  <2>2. ASSUME split' = 1
        PROVE  /\ packetFreeSize' <= Max'
               /\ Remaining' = rowRemainLen' - (Max' - packetFreeSize')
               /\ owed' = Announced' - (Max' - packetFreeSize')
    BY <1>1, <1>2, <1>3, <1>7, <1>8, <2>2
  <2>3. WriteInv'
    BY <1>1, <1>2, <1>7, <1>8, <2>1, <2>2 DEF WriteInv
  <2> QED
    BY <1>5, <1>6, <1>8, <2>3 DEF MeasureInv, DoneInv
<1>9. CASE phase' = "done"
  <2>1. Remaining = left
    BY <1>2, <1>9
  <2>2. CASE split = 0
    BY <1>1, <1>7, <2>1, <2>2, <1>5, <1>6, <1>9
       DEF MeasureInv, DoneInv, WriteInv
  <2>3. CASE split = 1
    <3>1. owed = left
      <4>1. rowRemainLen - (Max - packetFreeSize) <= packetFreeSize
        BY <1>1, <1>7, <2>1, <2>3
      <4>2. Announced = rowRemainLen
        BY <1>3, <1>7, <2>3, <4>1 DEF Announced
      <4> QED
        BY <1>7, <2>1, <2>3, <4>2
    <3> QED
      BY <1>1, <1>7, <3>1, <1>5, <1>6, <1>9
         DEF MeasureInv, DoneInv, WriteInv
  <2> QED
    BY <2>2, <2>3
<1> QED
  BY <1>2, <1>8, <1>9

(* A packet is filled only when the row has more than a packet left, so    *)
(* that its header announced the maximum, and it owes what is free in it.  *)
LEMMA NextPacketStep ==
    ASSUME RowInv, NextPacket
    PROVE  RowInv'
<1> USE RowAssumption DEF RowInv, TypeOK
<1>1. /\ phase = "write" /\ phase' = phase /\ cols' = cols /\ ends' = ends
      /\ split = 1 /\ split' = 1 /\ col' = col /\ piece' = piece
      /\ left > packetFreeSize /\ left' = left - packetFreeSize
      /\ rowRemainLen' = rowRemainLen - Max /\ packetFreeSize' = Max
      /\ owed' = Announced' /\ packets' = Append(packets, Announced')
      /\ missing' = missing + (owed - packetFreeSize)
  BY DEF NextPacket, Header, Max, Announced
<1>2. /\ col <= Len(cols) /\ missing = 0
      /\ packetFreeSize <= Max
      /\ Remaining = rowRemainLen - (Max - packetFreeSize)
      /\ owed = Announced - (Max - packetFreeSize)
  BY <1>1 DEF WriteInv
<1>3. /\ Remaining \in Nat /\ left <= Remaining /\ Max \in Nat
      /\ Total \in Nat /\ ends[col + 1] \in Nat
      /\ cols[col] \in Nat \cup {Null}
  BY <1>1, RemainingFacts DEF Max
<1>4. rowRemainLen > Max
  BY <1>1, <1>2, <1>3
<1>5. Announced = Max /\ owed = packetFreeSize
  BY <1>2, <1>3, <1>4 DEF Announced
<1>6. missing' = 0 /\ rowRemainLen' \in Nat /\ left' \in Nat
  BY <1>1, <1>2, <1>3, <1>4, <1>5
<1>7. Max' = Max /\ Announced' \in Nat
  BY <1>3, <1>6 DEF Announced, Max
<1>8. TypeOK'
  BY <1>1, <1>3, <1>6, <1>7
<1>9. EndsInv' /\ Total' = Total
  BY <1>1 DEF EndsInv, Total
<1>10. Remaining' = Remaining - packetFreeSize
  <2>1. Pending' = Pending /\ Pending \in Nat
    BY <1>1, <1>3, ColumnFacts DEF Pending
  <2>2. left \in Nat /\ packetFreeSize \in Nat
    OBVIOUS
  <2> HIDE DEF RowInv, TypeOK
  <2>3. Remaining' = (Total - ends[col + 1]) + (left - packetFreeSize)
                       + Pending
    BY <1>1, <1>9, <2>1 DEF Remaining
  <2> QED
    BY <1>3, <2>1, <2>2, <2>3 DEF Remaining
<1>11. WriteInv'
  <2>1. Remaining' = rowRemainLen' - (Max' - packetFreeSize')
    <3>1. packetFreeSize \in Nat /\ rowRemainLen \in Nat
      OBVIOUS
    <3> HIDE DEF RowInv, TypeOK
    <3> QED
      BY <1>1, <1>2, <1>3, <1>7, <1>10, <3>1
  <2>2. owed' = Announced' - (Max' - packetFreeSize')
    <3> HIDE DEF RowInv, TypeOK
    <3>1. owed' = Announced' /\ packetFreeSize' = Max /\ Max' = Max
      BY <1>1, <1>7
    <3>2. \A n \in Nat : n = n - (Max - Max)
      BY <1>3
    <3> QED
      BY <1>7, <3>1, <3>2
  <2>3. packetFreeSize' <= Max'
    BY <1>1, <1>3, <1>7
  <2> QED
    BY <1>1, <1>2, <1>6, <2>1, <2>2, <2>3 DEF WriteInv
<1> QED
  BY <1>1, <1>8, <1>9, <1>11 DEF MeasureInv, DoneInv

LEMMA RowStep == RowInv /\ [Next]_vars => RowInv'
<1> SUFFICES ASSUME RowInv, [Next]_vars PROVE RowInv'
  OBVIOUS
<1>1. CASE \E c \in Lens \cup {Null} : Measure(c)
  BY <1>1, MeasureStep
<1>2. CASE Start
  BY <1>2, StartStep
<1>3. CASE WriteRest
  BY <1>3, WriteRestStep
<1>4. CASE NextPacket
  BY <1>4, NextPacketStep
<1>5. CASE UNCHANGED vars
  BY <1>5 DEF vars, RowInv, TypeOK, EndsInv, MeasureInv, WriteInv, DoneInv,
              Total, Pending, Remaining, Announced, Max, Value
<1> QED
  BY <1>1, <1>2, <1>3, <1>4, <1>5 DEF Next

LEMMA RowAlways == Spec => []RowInv
<1> QED
  BY RowInit, RowStep, PTL DEF Spec

LEMMA RowFramed == RowInv => Framed
<1> SUFFICES ASSUME RowInv PROVE Framed
  OBVIOUS
<1>1. CASE phase = "measure"
  BY <1>1 DEF RowInv, MeasureInv, Framed
<1>2. CASE phase = "done"
  BY <1>2 DEF RowInv, DoneInv, Framed
<1>3. CASE phase = "write"
  <2>1. /\ Remaining \in Nat /\ rowRemainLen \in Nat /\ Max \in Nat
        /\ packetFreeSize \in Nat /\ split \in {0, 1}
    BY <1>3, RemainingFacts, RowAssumption DEF RowInv, TypeOK, Max
  <2>2. /\ missing = 0
        /\ split = 0 => owed = Remaining
        /\ split = 1 =>
             /\ packetFreeSize <= Max
             /\ Remaining = rowRemainLen - (Max - packetFreeSize)
             /\ owed = Announced - (Max - packetFreeSize)
    BY <1>3 DEF RowInv, WriteInv
  <2>3. owed >= 0
    BY <2>1, <2>2 DEF Announced
  <2> QED
    BY <1>3, <2>2, <2>3 DEF Framed
<1> QED
  BY <1>1, <1>2, <1>3 DEF RowInv, TypeOK

(* The two passes of printTupText agree to the byte, for every maximum     *)
(* packet length, every row and every boundary of the length encoding:     *)
(* each header is followed by exactly the bytes it announces.              *)
THEOREM RowFraming == Spec => []Framed
<1> QED
  BY RowAlways, RowFramed, PTL

(* packetFreeSize and rowRemainLen, unsigned in the code, never go below   *)
(* zero.                                                                   *)
THEOREM RowTyping == Spec => []TypeOK
<1>1. RowInv => TypeOK
  BY DEF RowInv
<1> QED
  BY RowAlways, <1>1, PTL

-----------------------------------------------------------------------------
(* The headers so far announced the maximum, all but the last, and the     *)
(* packets before the last are what the row has got shorter by.            *)
PacketsInv ==
    /\ phase = "measure" => packets = <<>>
    /\ phase # "measure" =>
         /\ packets # <<>>
         /\ \A k \in 1..Len(packets) - 1 : packets[k] = Max
         /\ packets[Len(packets)] = Announced
         /\ Total = rowRemainLen + (Len(packets) - 1) * Max
         /\ split = 0 \/ phase = "done" => rowRemainLen <= Max

(* One more packet of the maximum length.                                  *)
LEMMA OneMorePacket ==
    ASSUME NEW m \in Nat \ {0}, NEW k \in Nat
    PROVE  /\ (k + 1) * m = k * m + m
           /\ (k * m) % m = 0
  BY Z3

(* A header is added to those written.                                     *)
LEMMA OneMoreHeader ==
    ASSUME NEW p \in Seq(Nat), NEW n \in Nat
    PROVE  /\ Append(p, n) # <<>>
           /\ Len(Append(p, n)) = Len(p) + 1
           /\ \A k \in 1..Len(p) : Append(p, n)[k] = p[k]
           /\ Append(p, n)[Len(p) + 1] = n
  BY AppendProperties

LEMMA PacketsStart ==
    ASSUME RowInv, PacketsInv, Start
    PROVE  PacketsInv'
<1>1. /\ phase' = "write" /\ packets = <<>> /\ ends' = ends
      /\ rowRemainLen' = rowRemainLen /\ rowRemainLen = Total
      /\ packets' = Append(packets, Announced)
      /\ split' = 0 => rowRemainLen <= Max
  BY DEF Start, Header, Announced, Max, PacketsInv, RowInv, MeasureInv
<1>2. Announced \in Nat /\ Announced' = Announced /\ Max \in Nat /\ Max' = Max
      /\ Total' = Total /\ Total \in Nat
  BY <1>1, RowAssumption DEF Announced, Max, Total, RowInv, TypeOK
<1>3. Len(packets) = 0 /\ packets \in Seq(Nat)
  BY <1>1 DEF RowInv, TypeOK
<1>4. /\ packets' # <<>> /\ Len(packets') = 1
      /\ packets'[1] = Announced
  BY <1>1, <1>2, <1>3, OneMoreHeader
<1>5. Total = rowRemainLen + (1 - 1) * Max
  BY <1>1, <1>2
<1> QED
  BY <1>1, <1>2, <1>4, <1>5 DEF PacketsInv

LEMMA PacketsWriteRest ==
    ASSUME RowInv, PacketsInv, WriteRest
    PROVE  PacketsInv'
<1>1. /\ phase = "write" /\ ends' = ends /\ phase' \in {"write", "done"}
      /\ rowRemainLen' = rowRemainLen /\ split' = split
      /\ packets' = packets
      /\ split = 1 => left <= packetFreeSize
  BY AdvanceRemaining DEF WriteRest
<1>2. Announced' = Announced /\ Max' = Max /\ Total' = Total
  BY <1>1 DEF Announced, Max, Total
<1>3. ASSUME phase' = "done", split = 1 PROVE rowRemainLen <= Max
  <2>1. /\ Remaining = left /\ Remaining \in Nat
    BY <1>1, <1>3, AdvanceRemaining, RemainingFacts
  <2>2. /\ packetFreeSize <= Max
        /\ Remaining = rowRemainLen - (Max - packetFreeSize)
        /\ packetFreeSize \in Nat /\ rowRemainLen \in Nat /\ Max \in Nat
    BY <1>1, <1>3, RowAssumption DEF RowInv, WriteInv, TypeOK, Max
  <2> QED
    BY <1>1, <1>3, <2>1, <2>2
<1>4. split \in {0, 1}
  BY DEF RowInv, TypeOK
<1> QED
  BY <1>1, <1>2, <1>3, <1>4 DEF PacketsInv

LEMMA PacketsNextPacket ==
    ASSUME RowInv, PacketsInv, NextPacket
    PROVE  PacketsInv'
<1>1. /\ phase = "write" /\ phase' = "write" /\ ends' = ends
      /\ split = 1 /\ split' = 1 /\ left > packetFreeSize
      /\ rowRemainLen' = rowRemainLen - Max
      /\ packets' = Append(packets, Announced')
  BY DEF NextPacket, Header, Max, Announced
<1>2. /\ packetFreeSize \in Nat /\ rowRemainLen \in Nat /\ left \in Nat
      /\ Max \in Nat \ {0} /\ Max' = Max /\ packets \in Seq(Nat)
      /\ Total' = Total
  BY <1>1, RowAssumption DEF RowInv, TypeOK, Max, Total
<1>3. rowRemainLen > Max
  <2>1. Remaining \in Nat /\ left <= Remaining
        /\ packetFreeSize <= Max
        /\ Remaining = rowRemainLen - (Max - packetFreeSize)
    BY <1>1, RemainingFacts DEF RowInv, WriteInv
  <2> QED
    BY <1>1, <1>2, <2>1
<1>4. Announced = Max /\ Announced' \in Nat
  BY <1>1, <1>2, <1>3 DEF Announced
<1>5. /\ packets # <<>>
      /\ \A k \in 1..Len(packets) - 1 : packets[k] = Max
      /\ packets[Len(packets)] = Max
      /\ Total = rowRemainLen + (Len(packets) - 1) * Max
  BY <1>1, <1>4 DEF PacketsInv
<1>6. Len(packets) \in Nat /\ Len(packets) - 1 \in Nat
  BY <1>2, <1>5, EmptySeq
<1>7. /\ packets' # <<>> /\ Len(packets') = Len(packets) + 1
      /\ \A k \in 1..Len(packets) : packets'[k] = packets[k]
      /\ packets'[Len(packets) + 1] = Announced'
  BY <1>1, <1>2, <1>4, OneMoreHeader
<1>8. \A k \in 1..Len(packets') - 1 : packets'[k] = Max
  BY <1>5, <1>6, <1>7
<1>9. Total' = rowRemainLen' + (Len(packets') - 1) * Max
  <2> DEFINE n == Len(packets) - 1
             a == n * Max
             b == (n + 1) * Max
  <2>1. b = a + Max /\ a \in Nat
    BY <1>2, <1>6, OneMorePacket
  <2>2. Len(packets') - 1 = n + 1
    BY <1>6, <1>7
  <2>3. Total = rowRemainLen + a
    BY <1>5
  <2>4. rowRemainLen + a = (rowRemainLen - Max) + b
    <3> HIDE DEF a, b
    <3> QED BY <1>2, <2>1
  <2> QED
    BY <1>1, <1>2, <2>2, <2>3, <2>4
<1> QED
  BY <1>1, <1>2, <1>7, <1>8, <1>9 DEF PacketsInv

LEMMA PacketsStep == RowInv /\ PacketsInv /\ [Next]_vars => PacketsInv'
<1> SUFFICES ASSUME RowInv, PacketsInv, [Next]_vars PROVE PacketsInv'
  OBVIOUS
<1>1. CASE \E c \in Lens \cup {Null} : Measure(c)
  BY <1>1 DEF Measure, PacketsInv
<1>2. CASE Start
  BY <1>2, PacketsStart
<1>3. CASE WriteRest
  BY <1>3, PacketsWriteRest
<1>4. CASE NextPacket
  BY <1>4, PacketsNextPacket
<1>5. CASE UNCHANGED vars
  BY <1>5 DEF vars, PacketsInv, Total, Announced, Max
<1> QED
  BY <1>1, <1>2, <1>3, <1>4, <1>5 DEF Next

(* The client puts the packets of a row of any length together again: all  *)
(* but the last are of the maximum length, and the last is shorter unless  *)
(* the row's length is a multiple of it.                                   *)
THEOREM RowReassembles == Spec => []Reassembles
<1>1. Init => PacketsInv
  BY DEF Init, PacketsInv
<1>2. RowInv /\ PacketsInv => Reassembles
  <2> SUFFICES ASSUME RowInv, PacketsInv, phase = "done"
               PROVE  /\ \A k \in 1..Len(packets) - 1 : packets[k] = Max
                      /\ Total % Max # 0 => packets[Len(packets)] < Max
    BY DEF Reassembles, Total, Max
  <2>1. /\ \A k \in 1..Len(packets) - 1 : packets[k] = Max
        /\ packets[Len(packets)] = rowRemainLen
        /\ Total = rowRemainLen + (Len(packets) - 1) * Max
        /\ rowRemainLen <= Max /\ packets # <<>>
    BY DEF PacketsInv, Announced
  <2>2. /\ Max \in Nat \ {0} /\ rowRemainLen \in Nat
        /\ Len(packets) \in Nat /\ Len(packets) - 1 \in Nat
    BY <2>1, RowAssumption, EmptySeq DEF Max, RowInv, TypeOK
  <2>3. ASSUME rowRemainLen = Max PROVE Total % Max = 0
    <3> DEFINE n == Len(packets) - 1
    <3>1. Total = n * Max + Max
      BY <2>1, <2>2, <2>3
    <3>2. Total = (n + 1) * Max /\ n + 1 \in Nat
      BY <2>2, <3>1, OneMorePacket
    <3> HIDE DEF n
    <3> QED BY <2>2, <3>2, OneMorePacket
  <2> QED
    BY <2>1, <2>2, <2>3
<1> QED
  BY <1>1, <1>2, PacketsStep, RowAlways, PTL DEF Spec
=============================================================================
