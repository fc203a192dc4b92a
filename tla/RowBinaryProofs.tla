-------------------------- MODULE RowBinaryProofs --------------------------
(***************************************************************************)
(* Proofs about RowBinary: for every packet length, size of payloadBuf,    *)
(* boundaries of the length encoding and row, the row is written once and  *)
(* in full, and a row that fits in one packet is framed.                   *)
(*                                                                         *)
(* The inductive invariant keeps an account of the row: what has been      *)
(* written, what waits in payloadBuf, what is left of the large value and  *)
(* the columns still to come make up the length the first pass has         *)
(* measured (Account).                                                     *)
(***************************************************************************)
EXTENDS RowBinary, SequenceTheorems, TLAPS

-----------------------------------------------------------------------------
(* The inductive invariant.                                                *)

(* The most a column can take.                                             *)
Widest == 9 + MaxAllocSize

(* ends has the length of every prefix of the row, and att is a column if  *)
(* there is one that is not null.                                          *)
EndsInv ==
    /\ Len(ends) = Len(cols) + 1
    /\ ends[1] = 0
    /\ \A k \in 1..Len(cols) : ends[k + 1] = ends[k] + Measured(cols[k])
    /\ \A k \in 1..Len(cols) : cols[k] # Null => att # Null

(* The first pass: nothing is written, and rowRemainLen is in bounds.      *)
MeasureInv ==
    /\ Len(cols) <= MaxCols
    /\ phase = "measure" =>
         /\ rowRemainLen = ends[Len(ends)]
         /\ rowRemainLen <= Len(cols) * Widest
         /\ col = 1 /\ left = 0
         /\ owed = 0 /\ misframed = 0 /\ split = 0 /\ written = 0

(* The second pass is in the middle of the row.                            *)
Writing == phase \in {"buffer", "flush", "value", "last"}

(* What has not been written yet.                                          *)
Pending == payloadBufIndex + left + (ends[Len(ends)] - ends[col])

(* Where the second pass is, and the account of the row.                   *)
PlaceInv ==
    /\ col \in 1..Len(cols) + 1
    /\ phase \in {"buffer", "last"} => left = 0
    /\ phase = "last" => col = Len(cols) + 1

Account == Writing /\ NoBitSplit => written + Pending = Total

(* A row that fits in one packet is announced by its first header.         *)
OneHeader ==
    split = 0 =>
      /\ misframed = 0
      /\ Writing => owed = Total - written

BinaryInv ==
    TypeOK /\ EndsInv /\ MeasureInv /\ PlaceInv /\ Account /\ OneHeader
           /\ WrittenOnce /\ FramedInOnePacket

-----------------------------------------------------------------------------
(* The lengths of columns and of rows.                                     *)

LEMMA Constants ==
    /\ MYS_MAX_PACKET_LENGTH \in Nat /\ PayloadBufSize \in Nat
    /\ PayloadBufSize <= MYS_MAX_PACKET_LENGTH
    /\ MaxCols \in Nat /\ Widest \in Nat /\ SizeT \in Nat
    /\ HeadLen(MaxCols) <= PayloadBufSize
    /\ HeadLen(MaxCols) + MaxCols * Widest < SizeT
  BY BinaryAssumption DEF Widest

(* A column of the row, or none.                                           *)
LEMMA ColumnIs ==
    ASSUME NEW c \in Columns
    PROVE  /\ c # Null
           /\ c.kind \in Kinds /\ c.len \in Nat /\ c.len <= MaxAllocSize
           /\ c.mod \in Nat
  BY BinaryAssumption

LEMMA PrefixFacts ==
    ASSUME NEW n \in Nat
    PROVE  /\ CalcLenencIntLen(n) \in 1..9
           /\ AssembleLenencUnsignedLong(n) = CalcLenencIntLen(n)
  BY BinaryAssumption DEF CalcLenencIntLen, AssembleLenencUnsignedLong

LEMMA MeasuredFacts ==
    ASSUME NEW c \in Columns \cup {Null}
    PROVE  Measured(c) \in Nat /\ Measured(c) <= Widest
<1>1. CASE c = Null
  BY <1>1, Constants DEF Measured
<1>2. CASE c \in Columns
  <2> DEFINE n == c.len
             p == CalcLenencIntLen(c.len)
  <2>1. c # Null /\ n \in Nat /\ n <= MaxAllocSize /\ MaxAllocSize \in Nat
        /\ p \in 1..9
    BY <1>2, ColumnIs, PrefixFacts, BinaryAssumption
  <2>2. Measured(c) = n \/ Measured(c) = p + n
    BY <2>1 DEF Measured
  <2> HIDE DEF n, p
  <2> QED
    BY <2>1, <2>2 DEF Widest
<1> QED
  BY <1>1, <1>2

(* What a large column has that does not go through payloadBuf.            *)
Direct(c) == IF IsLarge(c) THEN c.len ELSE 0

(* The two passes agree on a column, except on a BIT of a split row.       *)
LEMMA KeptFacts ==
    ASSUME NEW c \in Columns \cup {Null}, att \in Columns \cup {Null},
           c # Null => att # Null
    PROVE  /\ Kept(c) \in Nat /\ Direct(c) \in Nat
           /\ ~(c # Null /\ c.kind = "bit" /\ split = 1)
                => Kept(c) + Direct(c) = Measured(c)
<1>1. CASE c = Null
  BY <1>1 DEF Kept, Direct, IsLarge, Measured
<1>2. CASE c \in Columns
  <2> DEFINE n == c.len
             p == CalcLenencIntLen(n)
             m == att.mod
             q == AssembleLenencUnsignedLong(m)
  <2>1. /\ c # Null /\ c.kind \in Kinds /\ n \in Nat /\ m \in Nat
    BY <1>2, ColumnIs
  <2>2. p \in Nat /\ q \in Nat /\ AssembleLenencUnsignedLong(n) = p
    BY <2>1, PrefixFacts
  <2>3. CASE c.kind = "fixed"
    BY <2>1, <2>3 DEF Kept, Direct, IsLarge, Measured
  <2>4. CASE c.kind = "large"
    BY <2>1, <2>2, <2>4 DEF Kept, Direct, IsLarge, Measured
  <2>5. CASE c.kind \in {"string", "bit"}
    <3>1. Direct(c) = 0 /\ Measured(c) = p + n
      BY <2>1, <2>5 DEF Direct, IsLarge, Measured
    <3>2. \/ Kept(c) = p + n
          \/ c.kind = "bit" /\ split = 1 /\ Kept(c) = q + m
      BY <2>1, <2>2, <2>5 DEF Kept
    <3> HIDE DEF n, p, m, q
    <3> QED
      BY <2>1, <2>2, <3>1, <3>2
  <2> QED
    BY <2>1, <2>3, <2>4, <2>5 DEF Kinds
<1> QED
  BY <1>1, <1>2

LEMMA HeadFacts ==
    ASSUME NEW n \in Nat, n <= MaxCols
    PROVE  HeadLen(n) \in Nat /\ HeadLen(n) <= HeadLen(MaxCols)
           /\ HeadLen(MaxCols) \in Nat
<1>1. \A a, b \in Nat : a <= b => (a + 9) \div 8 \in Nat
                                  /\ (a + 9) \div 8 <= (b + 9) \div 8
                                  /\ (b + 9) \div 8 \in Nat
  OBVIOUS
<1> QED
  BY <1>1, Constants DEF HeadLen, NullBitmapLen

(* One more column, and as many as there may be.                           *)
LEMMA RowBound ==
    /\ 0 * Widest = 0
    /\ \A n \in Nat : n * Widest \in Nat /\ (n + 1) * Widest = n * Widest + Widest
    /\ \A n \in Nat : n <= MaxCols => n * Widest <= MaxCols * Widest
<1>1. \A w \in Nat : 0 * w = 0
  OBVIOUS
<1>2. \A n, w \in Nat : n * w \in Nat /\ (n + 1) * w = n * w + w
  OBVIOUS
<1>3. \A n, m, w \in Nat : n <= m => n * w <= m * w
  <2> SUFFICES ASSUME NEW n \in Nat, NEW m \in Nat, NEW w \in Nat, n <= m
               PROVE  n * w <= m * w
    OBVIOUS
  <2> DEFINE d == m - n
  <2>1. d \in Nat /\ m = n + d
    OBVIOUS
  <2>2. m * w = n * w + d * w /\ d * w \in Nat /\ n * w \in Nat
    BY <2>1
  <2> QED
    BY <2>2
<1> QED
  BY <1>1, <1>2, <1>3, Constants

-----------------------------------------------------------------------------
(* The steps.                                                              *)

(* The lengths that the invariant speaks of.                               *)
LEMMA StateFacts ==
    ASSUME TypeOK, EndsInv, PlaceInv
    PROVE  /\ Len(cols) \in Nat
           /\ ends[Len(ends)] \in Nat /\ ends[col] \in Nat
           /\ HeadLen(Len(cols)) \in Nat
           /\ payloadBufIndex \in Nat /\ left \in Nat /\ written \in Nat
           /\ Pending \in Int /\ Total \in Nat
<1>1. Len(cols) \in Nat /\ Len(ends) = Len(cols) + 1 /\ ends \in Seq(Nat)
      /\ col \in 1..Len(ends)
  BY DEF TypeOK, EndsInv, PlaceInv
<1>2. ends[Len(ends)] \in Nat /\ ends[col] \in Nat
  BY <1>1
<1>3. HeadLen(Len(cols)) \in Nat
  BY <1>1 DEF HeadLen, NullBitmapLen
<1>4. payloadBufIndex \in Nat /\ left \in Nat /\ written \in Nat
  BY Constants DEF TypeOK
<1> QED
  BY <1>1, <1>2, <1>3, <1>4 DEF Pending, Total

LEMMA BinaryInit == Init => BinaryInv
<1> SUFFICES ASSUME Init PROVE BinaryInv
  OBVIOUS
<1>1. Len(cols) = 0 /\ Len(ends) = 1 /\ ends[1] = 0
  BY DEF Init
<1>2. TypeOK
  <2>1. 0 \in 0..SizeT - 1
    BY Constants, HeadFacts, RowBound
  <2>2. 0 \in 0..PayloadBufSize /\ 0 \in 0..MYS_MAX_PACKET_LENGTH
    BY Constants
  <2> QED
    BY <2>1, <2>2 DEF Init, TypeOK
<1>3. EndsInv
  BY <1>1 DEF EndsInv
<1>4. MeasureInv
  BY <1>1, Constants, RowBound DEF Init, MeasureInv
<1>5. PlaceInv
  BY <1>1 DEF Init, PlaceInv
<1> QED
  BY <1>2, <1>3, <1>4, <1>5
     DEF Init, BinaryInv, Account, OneHeader, Writing, WrittenOnce,
         FramedInOnePacket, FramedBinary

LEMMA MeasureStep ==
    ASSUME BinaryInv, NEW c \in Columns \cup {Null}, Measure(c)
    PROVE  BinaryInv'
<1> DEFINE new == rowRemainLen + Measured(c)
           n == Len(cols)
           row == n * Widest
<1>1. /\ phase = "measure" /\ phase' = "measure" /\ n < MaxCols
      /\ cols' = Append(cols, c) /\ rowRemainLen' = new
      /\ ends' = Append(ends, new)
      /\ c = Null => att' = att
      /\ c # Null => att' = c
      /\ UNCHANGED <<packetFreeSize, split, col, payloadBufIndex, left,
                     owed, misframed, written>>
  BY DEF Measure
<1>2. /\ rowRemainLen = ends[Len(ends)] /\ rowRemainLen <= row
      /\ col = 1 /\ left = 0
      /\ owed = 0 /\ misframed = 0 /\ split = 0 /\ written = 0
  BY <1>1 DEF BinaryInv, MeasureInv
<1>3. /\ n \in Nat /\ rowRemainLen \in Nat /\ Len(ends) = n + 1
      /\ ends \in Seq(Nat) /\ cols \in Seq(Columns \cup {Null})
  BY Constants DEF BinaryInv, TypeOK, EndsInv
<1>4. /\ Measured(c) \in Nat /\ Measured(c) <= Widest
      /\ row \in Nat /\ (n + 1) * Widest = row + Widest
  BY <1>3, MeasuredFacts, RowBound
<1>5. new \in Nat /\ new <= (n + 1) * Widest
  <2> DEFINE m == Measured(c)
  <2>1. m \in Nat /\ m <= Widest /\ Widest \in Nat
    BY <1>4, Constants
  <2> HIDE DEF m, row
  <2> QED
    BY <1>2, <1>3, <1>4, <2>1
<1>6. new \in 0..SizeT - 1
  <2> DEFINE a == (n + 1) * Widest
             b == MaxCols * Widest
  <2>1. a <= b /\ a \in Nat /\ b \in Nat
    <3>1. n + 1 \in Nat /\ n + 1 <= MaxCols /\ MaxCols \in Nat
      BY <1>1, <1>3, Constants
    <3> QED
      BY <3>1, RowBound
  <2>2. HeadLen(MaxCols) + b < SizeT /\ HeadLen(MaxCols) \in Nat
        /\ SizeT \in Nat
    BY Constants, HeadFacts
  <2>3. new \in Nat /\ new <= a
    BY <1>5
  <2> HIDE DEF a, b, new
  <2> QED
    BY <2>1, <2>2, <2>3
<1> HIDE DEF new
<1>7. /\ Len(ends') = n + 2 /\ Len(cols') = n + 1
      /\ \A k \in 1..n + 1 : ends'[k] = ends[k]
      /\ ends'[n + 2] = new
      /\ \A k \in 1..n : cols'[k] = cols[k]
      /\ cols'[n + 1] = c
  BY <1>1, <1>3, <1>5
<1>8. TypeOK'
  <2>1. /\ cols' \in Seq(Columns \cup {Null}) /\ ends' \in Seq(Nat)
    BY <1>1, <1>3, <1>5
  <2> QED
    BY <1>1, <1>6, <2>1 DEF BinaryInv, TypeOK
<1>9. EndsInv'
  <2>1. ends'[1] = 0
    BY <1>3, <1>7 DEF BinaryInv, EndsInv
  <2>2. \A k \in 1..Len(cols') : ends'[k + 1] = ends'[k] + Measured(cols'[k])
    <3> SUFFICES ASSUME NEW k \in 1..n + 1
                 PROVE  ends'[k + 1] = ends'[k] + Measured(cols'[k])
      BY <1>7
    <3>1. CASE k \in 1..n
      BY <1>3, <1>7, <3>1 DEF BinaryInv, EndsInv
    <3>2. CASE k = n + 1
      BY <1>2, <1>3, <1>7, <3>2 DEF new
    <3> QED
      BY <1>3, <3>1, <3>2
  <2>3. \A k \in 1..Len(cols') : cols'[k] # Null => att' # Null
    <3> SUFFICES ASSUME NEW k \in 1..n + 1, cols'[k] # Null
                 PROVE  att' # Null
      BY <1>7
    <3>1. CASE k \in 1..n
      BY <1>1, <1>7, <3>1 DEF BinaryInv, EndsInv
    <3>2. CASE k = n + 1
      BY <1>1, <1>7, <3>2
    <3> QED
      BY <1>3, <3>1, <3>2
  <2> QED
    BY <1>3, <1>7, <2>1, <2>2, <2>3 DEF EndsInv
<1>10. MeasureInv'
  <2>1. Len(cols') <= MaxCols /\ ends'[Len(ends')] = new
    BY <1>1, <1>3, <1>7, Constants
  <2> QED
    BY <1>1, <1>2, <1>5, <1>7, <2>1 DEF MeasureInv, Widest
<1>11. PlaceInv'
  BY <1>1, <1>2, <1>3, <1>7 DEF PlaceInv
<1> QED
  BY <1>1, <1>2, <1>8, <1>9, <1>10, <1>11
     DEF BinaryInv, Account, OneHeader, Writing, WrittenOnce,
         FramedInOnePacket, FramedBinary

LEMMA StartStep ==
    ASSUME BinaryInv, Start
    PROVE  BinaryInv'
<1> DEFINE n == Len(cols)
           head == HeadLen(Len(cols))
           row == head + rowRemainLen
           Max == MYS_MAX_PACKET_LENGTH
<1>1. /\ phase = "measure" /\ phase' = "buffer"
      /\ rowRemainLen' = row /\ payloadBufIndex' = head
      /\ UNCHANGED <<cols, att, col, left, ends>>
  BY DEF Start
<1>2. /\ rowRemainLen = ends[Len(ends)] /\ rowRemainLen <= n * Widest
      /\ col = 1 /\ left = 0 /\ n <= MaxCols
      /\ owed = 0 /\ misframed = 0 /\ split = 0 /\ written = 0
  BY <1>1 DEF BinaryInv, MeasureInv
<1>3. /\ n \in Nat /\ rowRemainLen \in Nat /\ Max \in Nat
      /\ head \in Nat /\ head <= HeadLen(MaxCols)
      /\ head <= PayloadBufSize /\ head <= Max
  <2>1. n \in Nat /\ rowRemainLen \in Nat
    BY Constants DEF BinaryInv, TypeOK
  <2>2. head \in Nat /\ head <= HeadLen(MaxCols) /\ HeadLen(MaxCols) \in Nat
    BY <1>2, <2>1, HeadFacts
  <2> HIDE DEF head
  <2> QED
    BY <2>1, <2>2, Constants
<1>4. row \in 0..SizeT - 1
  <2> DEFINE a == n * Widest
             b == MaxCols * Widest
  <2>1. a <= b /\ a \in Nat /\ b \in Nat
    BY <1>2, <1>3, Constants, RowBound
  <2>2. HeadLen(MaxCols) + b < SizeT /\ HeadLen(MaxCols) \in Nat
        /\ SizeT \in Nat
    BY Constants, HeadFacts
  <2>3. rowRemainLen <= a
    BY <1>2
  <2> HIDE DEF a, b, head
  <2> QED
    BY <1>3, <2>1, <2>2, <2>3
<1>5. /\ written' = 0 /\ misframed' = 0 /\ owed' \in Int
      /\ row <= Max => owed' = row /\ split' = 0
                       /\ packetFreeSize' = packetFreeSize
      /\ ~(row <= Max) => split' = 1 /\ packetFreeSize' = Max - head
  <2>1. WriteThenHeader(0, Min(row, Max))
        /\ IF row <= Max THEN UNCHANGED <<split, packetFreeSize>>
           ELSE split' = 1 /\ packetFreeSize' = Max - head
    BY DEF Start
  <2> HIDE DEF head
  <2> QED
    BY <1>2, <1>3, <2>1 DEF WriteThenHeader, Min
<1>6. TypeOK'
  <2>1. split' \in {0, 1} /\ packetFreeSize' \in 0..Max
    <3> HIDE DEF head
    <3> QED
      BY <1>3, <1>5 DEF BinaryInv, TypeOK
  <2>2. head \in 0..PayloadBufSize
    BY <1>3, Constants
  <2> HIDE DEF head
  <2> QED
    BY <1>1, <1>4, <1>5, <2>1, <2>2 DEF BinaryInv, TypeOK
<1>7. EndsInv'
  BY <1>1 DEF BinaryInv, EndsInv
<1>8. PlaceInv' /\ MeasureInv'
  BY <1>1, <1>2, <1>3 DEF PlaceInv, MeasureInv
<1>9. Total' = row /\ Pending' = row
  <2>1. ends'[Len(ends')] = rowRemainLen /\ ends'[col'] = 0
    BY <1>1, <1>2 DEF BinaryInv, EndsInv
  <2>2. Pending' = head + 0 + (rowRemainLen - 0)
    BY <1>1, <1>2, <2>1 DEF Pending
  <2>3. Total' = row
    BY <1>1, <2>1 DEF Total
  <2> HIDE DEF head
  <2> QED
    BY <1>3, <2>2, <2>3
<1>10. Account' /\ OneHeader'
  <2>1. row \in Nat
    BY <1>4, Constants
  <2> HIDE DEF row, Max
  <2>2. 0 + row = row /\ row - 0 = row
    BY <2>1
  <2> QED
    BY <1>5, <1>9, <2>2 DEF Account, OneHeader
<1> QED
  BY <1>1, <1>5, <1>6, <1>7, <1>8, <1>10
     DEF BinaryInv, WrittenOnce, FramedInOnePacket, FramedBinary

(* rowRemainLen, which wraps, stays a size_t.                              *)
LEMMA RemainIs ==
    ASSUME rowRemainLen \in 0..SizeT - 1
    PROVE  NextRemain \in 0..SizeT - 1
<1>1. /\ rowRemainLen - MYS_MAX_PACKET_LENGTH \in Int
      /\ SizeT \in Nat /\ SizeT > 0
  BY Constants
<1>2. \A a \in Int, b \in Nat : b > 0 => a % b \in 0..b - 1
  OBVIOUS
<1> QED
  BY <1>1, <1>2 DEF NextRemain

(* The second pass leaves the row as it is.                                *)
LEMMA SameRow ==
    ASSUME BinaryInv, UNCHANGED <<cols, att, split, ends>>,
           phase # "measure", phase' # "measure"
    PROVE  /\ EndsInv' /\ MeasureInv'
           /\ Total' = Total /\ NoBitSplit' = NoBitSplit
<1>1. EndsInv'
  BY DEF BinaryInv, EndsInv
<1>2. MeasureInv'
  BY DEF BinaryInv, MeasureInv
<1>3. Total' = Total
  BY DEF Total
<1>4. NoBitSplit' = NoBitSplit
  BY DEF NoBitSplit
<1> QED
  BY <1>1, <1>2, <1>3, <1>4

(* What is written and what is pending change by the same length, and so   *)
(* does what the one header has announced.                                 *)
LEMMA AccountStep ==
    ASSUME BinaryInv, UNCHANGED <<cols, att, split, ends>>,
           Writing, Writing', TypeOK', PlaceInv', NEW d \in Nat,
           written' = written + d,
           NoBitSplit => Pending' = Pending - d,
           split = 0 => owed' = owed - d /\ misframed' = misframed
    PROVE  BinaryInv'
<1>1. phase # "measure" /\ phase' # "measure" /\ phase' # "done"
  BY DEF Writing
<1>2. /\ EndsInv' /\ MeasureInv'
      /\ Total' = Total /\ NoBitSplit' = NoBitSplit
  BY <1>1, SameRow
<1>3. /\ Pending \in Int /\ Total \in Nat /\ written \in Nat /\ owed \in Int
  BY StateFacts DEF BinaryInv, TypeOK
<1>4. Account'
  <2> SUFFICES ASSUME NoBitSplit PROVE written' + Pending' = Total
    BY <1>2 DEF Account
  <2>1. written + Pending = Total
    BY DEF BinaryInv, Account
  <2> QED
    BY <1>3, <2>1
<1>5. OneHeader'
  <2> SUFFICES ASSUME split = 0
               PROVE  misframed' = 0 /\ owed' = Total - written'
    BY <1>2 DEF OneHeader
  <2>1. misframed = 0 /\ owed = Total - written
    BY DEF BinaryInv, OneHeader
  <2> QED
    BY <1>3, <2>1
<1>6. WrittenOnce' /\ FramedInOnePacket'
  BY <1>1, <1>5 DEF WrittenOnce, FramedInOnePacket, FramedBinary, OneHeader
<1> QED
  BY <1>2, <1>4, <1>5, <1>6 DEF BinaryInv

LEMMA BufferStep ==
    ASSUME BinaryInv, Buffer
    PROVE  BinaryInv'
<1>1. /\ phase = "buffer" /\ left = 0 /\ col \in 1..Len(cols) + 1
      /\ UNCHANGED <<cols, att, rowRemainLen, packetFreeSize, split, owed,
                     misframed, ends, written>>
  BY DEF Buffer, BinaryInv, PlaceInv
<1>2. /\ Len(cols) \in Nat /\ ends[Len(ends)] \in Nat /\ ends[col] \in Nat
      /\ payloadBufIndex \in Nat /\ written \in Nat /\ Pending \in Int
      /\ owed \in Int
  BY StateFacts DEF BinaryInv, TypeOK
<1>3. written' = written + 0 /\ owed' = owed - 0
  BY <1>1, <1>2
<1>4. CASE col > Len(cols)
  <2>1. phase' = "last" /\ UNCHANGED <<payloadBufIndex, col, left>>
    BY <1>4 DEF Buffer
  <2>2. TypeOK'
    BY <1>1, <2>1 DEF BinaryInv, TypeOK
  <2>3. PlaceInv'
    BY <1>1, <1>2, <1>4, <2>1 DEF PlaceInv
  <2>4. Pending' = Pending - 0
    <3>1. Pending' = Pending
      BY <1>1, <2>1 DEF Pending
    <3> QED
      BY <1>2, <3>1
  <2>5. Writing /\ Writing'
    BY <1>1, <2>1 DEF Writing
  <2> QED
    BY <1>1, <1>3, <2>2, <2>3, <2>4, <2>5, AccountStep
<1>5. CASE col <= Len(cols)
  <2> DEFINE c == cols[col]
             k == Kept(cols[col])
  <2>1. /\ c \in Columns \cup {Null} /\ att \in Columns \cup {Null}
        /\ c # Null => att # Null
        /\ col \in 1..Len(cols)
        /\ ends[col + 1] = ends[col] + Measured(c)
    <3>1. col \in 1..Len(cols)
      BY <1>1, <1>2, <1>5
    <3> QED
      BY <3>1 DEF BinaryInv, TypeOK, EndsInv
  <2>2. /\ k \in Nat /\ Direct(c) \in Nat /\ Measured(c) \in Nat
        /\ ~(c # Null /\ c.kind = "bit" /\ split = 1)
             => k + Direct(c) = Measured(c)
    BY <2>1, KeptFacts, MeasuredFacts
  <2>3. CASE payloadBufIndex + k > PayloadBufSize
    <3>1. phase' = "overrun" /\ UNCHANGED <<payloadBufIndex, col, left>>
      BY <1>1, <1>2, <1>5, <2>3 DEF Buffer
    <3>2. TypeOK' /\ PlaceInv'
      BY <1>1, <3>1 DEF BinaryInv, TypeOK, PlaceInv
    <3>3. EndsInv' /\ MeasureInv'
      BY <1>1, <3>1, SameRow
    <3> QED
      BY <1>1, <3>1, <3>2, <3>3
         DEF BinaryInv, Account, OneHeader, Writing, WrittenOnce,
             FramedInOnePacket, FramedBinary
  <2>4. CASE ~(payloadBufIndex + k > PayloadBufSize)
    <3>1. /\ payloadBufIndex' = payloadBufIndex + k /\ col' = col + 1
          /\ IsLarge(c) => phase' = "flush" /\ left' = c.len
          /\ ~IsLarge(c) => phase' = "buffer" /\ left' = 0
      BY <1>1, <1>2, <1>5, <2>4 DEF Buffer
    <3>2. left' = Direct(c) /\ phase' \in {"buffer", "flush"}
          /\ (phase' = "buffer" => left' = 0)
      BY <3>1 DEF Direct
    <3>3. payloadBufIndex' \in 0..PayloadBufSize
      <4> HIDE DEF k
      <4>1. payloadBufIndex \in Nat /\ k \in Nat /\ PayloadBufSize \in Nat
        BY <1>2, <2>2, Constants
      <4> QED
        BY <2>4, <3>1, <4>1
    <3>4. TypeOK'
      <4>1. left' \in Nat /\ col' \in Nat
        BY <2>1, <2>2, <3>1, <3>2
      <4> QED
        BY <1>1, <3>2, <3>3, <4>1 DEF BinaryInv, TypeOK
    <3>5. PlaceInv'
      BY <1>1, <1>2, <2>1, <3>1, <3>2 DEF PlaceInv
    <3>6. ASSUME NoBitSplit PROVE Pending' = Pending - 0
      <4>1. ~(c # Null /\ c.kind = "bit" /\ split = 1)
        BY <2>1, <3>6 DEF NoBitSplit
      <4> DEFINE d == Direct(c)
                 m == Measured(c)
                 e == ends[col]
                 end == ends[Len(ends)]
      <4>2. k + d = m /\ k \in Nat /\ d \in Nat /\ m \in Nat
            /\ e \in Nat /\ end \in Nat
        BY <1>2, <2>2, <4>1
      <4>3. Pending = payloadBufIndex + 0 + (end - e)
        BY <1>1 DEF Pending
      <4>4. Pending' = (payloadBufIndex + k) + d + (end - (e + m))
        BY <1>1, <2>1, <3>1, <3>2 DEF Pending
      <4> HIDE DEF k, d, m, e, end
      <4> QED
        BY <1>2, <4>2, <4>3, <4>4
    <3>7. Writing /\ Writing'
      BY <1>1, <3>2 DEF Writing
    <3> QED
      BY <1>1, <1>3, <3>4, <3>5, <3>6, <3>7, AccountStep
  <2> QED
    BY <2>3, <2>4
<1> QED
  BY <1>1, <1>2, <1>4, <1>5

LEMMA FlushStep ==
    ASSUME BinaryInv, Flush
    PROVE  BinaryInv'
<1> DEFINE Max == MYS_MAX_PACKET_LENGTH
<1>1. /\ phase = "flush" /\ phase' = "value" /\ payloadBufIndex' = 0
      /\ UNCHANGED <<cols, att, split, col, left, ends>>
      /\ written' = written + payloadBufIndex
      /\ split = 0 => owed' = owed - payloadBufIndex
                      /\ misframed' = misframed
  BY DEF Flush, Write
<1>2. /\ payloadBufIndex \in 0..PayloadBufSize /\ payloadBufIndex \in Nat
      /\ left \in Nat /\ ends[Len(ends)] \in Nat /\ ends[col] \in Nat
      /\ written \in Nat /\ owed \in Int /\ split \in {0, 1}
      /\ packetFreeSize \in 0..Max /\ rowRemainLen \in 0..SizeT - 1
      /\ Max \in Nat /\ PayloadBufSize \in Nat /\ PayloadBufSize <= Max
  BY StateFacts, Constants DEF BinaryInv, TypeOK
<1>3. /\ packetFreeSize' \in 0..Max /\ owed' \in Int
      /\ rowRemainLen' \in 0..SizeT - 1
      /\ misframed' \in {misframed, 1}
  <2>1. CASE split = 0 \/ payloadBufIndex <= packetFreeSize
    <3>1. /\ packetFreeSize' = IF split = 1
                               THEN packetFreeSize - payloadBufIndex
                               ELSE packetFreeSize
          /\ rowRemainLen' = rowRemainLen
          /\ owed' = owed - payloadBufIndex /\ misframed' = misframed
      BY <1>2, <2>1 DEF Flush, Write
    <3> QED
      BY <1>2, <2>1, <3>1
  <2>2. CASE split = 1 /\ payloadBufIndex > packetFreeSize
    <3> DEFINE rest == payloadBufIndex - packetFreeSize
    <3>1. /\ packetFreeSize' = Max - rest
          /\ rowRemainLen' = NextRemain
          /\ owed' = Min(rowRemainLen', Max) - rest
          /\ misframed' \in {misframed, 1}
      BY <1>2, <2>2 DEF Flush
    <3>2. rowRemainLen' \in 0..SizeT - 1
      BY <1>2, <3>1, RemainIs
    <3> QED
      BY <1>2, <2>2, <3>1, <3>2, Constants DEF Min
  <2> QED
    BY <1>2, <2>1, <2>2
<1>4. TypeOK'
  <2>1. 0 \in 0..PayloadBufSize /\ written' \in Nat
    BY <1>1, <1>2
  <2> QED
    BY <1>1, <1>3, <2>1 DEF BinaryInv, TypeOK
<1>5. PlaceInv'
  BY <1>1 DEF BinaryInv, PlaceInv
<1>6. Pending' = Pending - payloadBufIndex
  <2> DEFINE e == ends[Len(ends)] - ends[col]
  <2>1. e \in Int /\ Pending = payloadBufIndex + left + e
        /\ Pending' = 0 + left + e
    BY <1>1, <1>2 DEF Pending
  <2> HIDE DEF e
  <2> QED
    BY <1>2, <2>1
<1>7. Writing /\ Writing'
  BY <1>1 DEF Writing
<1> QED
  BY <1>1, <1>2, <1>4, <1>5, <1>6, <1>7, AccountStep

LEMMA WriteValueStep ==
    ASSUME BinaryInv, WriteValue
    PROVE  BinaryInv'
<1> DEFINE Max == MYS_MAX_PACKET_LENGTH
<1>1. /\ phase = "value" /\ phase' = "buffer" /\ left' = 0
      /\ split = 1 => left <= packetFreeSize
      /\ packetFreeSize' = IF split = 1 THEN packetFreeSize - left
                           ELSE packetFreeSize
      /\ UNCHANGED <<cols, att, rowRemainLen, split, col, payloadBufIndex,
                     ends, misframed>>
      /\ written' = written + left /\ owed' = owed - left
  BY DEF WriteValue, Write
<1>2. /\ payloadBufIndex \in Nat /\ left \in Nat
      /\ ends[Len(ends)] \in Nat /\ ends[col] \in Nat
      /\ written \in Nat /\ owed \in Int /\ split \in {0, 1}
      /\ packetFreeSize \in 0..Max /\ Max \in Nat
  BY StateFacts, Constants DEF BinaryInv, TypeOK
<1>3. /\ packetFreeSize' \in 0..Max /\ owed' \in Int /\ written' \in Nat
  BY <1>1, <1>2
<1>4. TypeOK'
  BY <1>1, <1>3 DEF BinaryInv, TypeOK
<1>5. PlaceInv'
  BY <1>1 DEF BinaryInv, PlaceInv
<1>6. Pending' = Pending - left
  <2> DEFINE e == ends[Len(ends)] - ends[col]
  <2>1. e \in Int /\ Pending = payloadBufIndex + left + e
        /\ Pending' = payloadBufIndex + 0 + e
    BY <1>1, <1>2 DEF Pending
  <2> HIDE DEF e
  <2> QED
    BY <1>2, <2>1
<1>7. Writing /\ Writing'
  BY <1>1 DEF Writing
<1> QED
  BY <1>1, <1>2, <1>4, <1>5, <1>6, <1>7, AccountStep

LEMMA NextPacketStep ==
    ASSUME BinaryInv, NextPacket
    PROVE  BinaryInv'
<1> DEFINE Max == MYS_MAX_PACKET_LENGTH
<1>1. /\ phase = "value" /\ phase' = "value" /\ split = 1
      /\ left > packetFreeSize /\ left' = left - packetFreeSize
      /\ packetFreeSize' = Max /\ rowRemainLen' = NextRemain
      /\ UNCHANGED <<cols, att, split, col, payloadBufIndex, ends>>
      /\ written' = written + packetFreeSize
      /\ owed' = Min(rowRemainLen', Max) /\ misframed' \in {misframed, 1}
  BY DEF NextPacket, WriteThenHeader
<1>2. /\ payloadBufIndex \in Nat /\ left \in Nat
      /\ ends[Len(ends)] \in Nat /\ ends[col] \in Nat
      /\ written \in Nat /\ packetFreeSize \in Nat /\ Max \in Nat
      /\ rowRemainLen \in 0..SizeT - 1 /\ misframed \in {0, 1}
  BY StateFacts, Constants DEF BinaryInv, TypeOK
<1>3. rowRemainLen' \in 0..SizeT - 1
  BY <1>1, <1>2, RemainIs
<1>4. /\ packetFreeSize' \in 0..Max /\ owed' \in Int /\ written' \in Nat
      /\ left' \in Nat /\ misframed' \in {0, 1}
  BY <1>1, <1>2, <1>3, Constants DEF Min
<1>5. TypeOK'
  BY <1>1, <1>3, <1>4 DEF BinaryInv, TypeOK
<1>6. PlaceInv'
  BY <1>1 DEF BinaryInv, PlaceInv
<1>7. Pending' = Pending - packetFreeSize
  <2> DEFINE e == ends[Len(ends)] - ends[col]
  <2>1. e \in Int /\ Pending = payloadBufIndex + left + e
        /\ Pending' = payloadBufIndex + (left - packetFreeSize) + e
    BY <1>1, <1>2 DEF Pending
  <2> HIDE DEF e
  <2> QED
    BY <1>2, <2>1
<1>8. Writing /\ Writing'
  BY <1>1 DEF Writing
<1>9. split # 0
  BY <1>1
<1> QED
  BY <1>1, <1>2, <1>5, <1>6, <1>7, <1>8, <1>9, AccountStep

LEMMA FinishStep ==
    ASSUME BinaryInv, Finish
    PROVE  BinaryInv'
<1>1. /\ phase = "last" /\ phase' = "done"
      /\ UNCHANGED <<cols, att, rowRemainLen, packetFreeSize, split, col,
                     payloadBufIndex, left, ends>>
      /\ written' = written + payloadBufIndex
      /\ misframed' \in {misframed, 1}
      /\ owed' \in {owed - payloadBufIndex, 0}
      /\ split = 0 => owed' = owed - payloadBufIndex
                      /\ misframed' = misframed
  BY DEF Finish, Write
<1>2. /\ left = 0 /\ col = Len(cols) + 1 /\ Len(ends) = Len(cols) + 1
      /\ payloadBufIndex \in Nat /\ ends[Len(ends)] \in Nat
      /\ written \in Nat /\ owed \in Int /\ Total \in Nat
  BY <1>1, StateFacts DEF BinaryInv, PlaceInv, EndsInv, TypeOK
<1>3. /\ EndsInv' /\ MeasureInv'
      /\ Total' = Total /\ NoBitSplit' = NoBitSplit
  BY <1>1, SameRow
<1>4. TypeOK'
  <2>1. written' \in Nat /\ owed' \in Int
    BY <1>1, <1>2
  <2> QED
    BY <1>1, <2>1 DEF BinaryInv, TypeOK
<1>5. PlaceInv'
  BY <1>1 DEF BinaryInv, PlaceInv
<1>6. Pending = payloadBufIndex
  BY <1>2 DEF Pending
<1>7. WrittenOnce'
  <2> SUFFICES ASSUME NoBitSplit PROVE written' = Total
    BY <1>3 DEF WrittenOnce
  <2>1. written + Pending = Total
    BY <1>1 DEF BinaryInv, Account, Writing
  <2> QED
    BY <1>1, <1>6, <2>1
<1>8. ASSUME split = 0 PROVE misframed' = 0 /\ owed' = 0
  <2>1. misframed = 0 /\ owed = Total - written
    BY <1>1, <1>8 DEF BinaryInv, OneHeader, Writing
  <2>2. written + Pending = Total
    BY <1>1, <1>8 DEF BinaryInv, Account, Writing, NoBitSplit
  <2> QED
    BY <1>1, <1>2, <1>6, <1>8, <2>1, <2>2
<1>9. OneHeader' /\ FramedInOnePacket'
  BY <1>1, <1>8 DEF OneHeader, Writing, FramedInOnePacket, FramedBinary
<1>10. Account'
  BY <1>1 DEF Account, Writing
<1> QED
  BY <1>3, <1>4, <1>5, <1>7, <1>9, <1>10 DEF BinaryInv

-----------------------------------------------------------------------------
LEMMA BinaryInductive == Spec => []BinaryInv
<1>1. ASSUME BinaryInv, [Next]_vars PROVE BinaryInv'
  <2>1. CASE \E c \in Columns \cup {Null} : Measure(c)
    BY <1>1, <2>1, MeasureStep
  <2>2. CASE Start
    BY <1>1, <2>2, StartStep
  <2>3. CASE Buffer
    BY <1>1, <2>3, BufferStep
  <2>4. CASE Flush
    BY <1>1, <2>4, FlushStep
  <2>5. CASE WriteValue
    BY <1>1, <2>5, WriteValueStep
  <2>6. CASE NextPacket
    BY <1>1, <2>6, NextPacketStep
  <2>7. CASE Finish
    BY <1>1, <2>7, FinishStep
  <2>8. CASE UNCHANGED vars
    <3>1. TypeOK' /\ EndsInv' /\ MeasureInv' /\ PlaceInv'
      BY <1>1, <2>8
         DEF vars, BinaryInv, TypeOK, EndsInv, MeasureInv, PlaceInv
    <3>2. Account' /\ OneHeader'
      BY <1>1, <2>8
         DEF vars, BinaryInv, Account, OneHeader, Writing, Pending, Total,
             NoBitSplit
    <3>3. WrittenOnce' /\ FramedInOnePacket'
      BY <1>1, <2>8
         DEF vars, BinaryInv, WrittenOnce, FramedInOnePacket, FramedBinary,
             Total, NoBitSplit
    <3> QED
      BY <3>1, <3>2, <3>3 DEF BinaryInv
  <2> QED
    BY <1>1, <2>1, <2>2, <2>3, <2>4, <2>5, <2>6, <2>7, <2>8 DEF Next
<1> QED
  BY <1>1, BinaryInit, PTL DEF Spec

(* rowRemainLen stays a size_t, packetFreeSize never exceeds a packet (nor *)
(* goes below zero, unsigned as it is), and payloadBufIndex never passes   *)
(* the end of payloadBuf in a row that printTupBinary gets through.        *)
THEOREM BinaryTyping == Spec => []TypeOK
<1>1. BinaryInv => TypeOK
  BY DEF BinaryInv
<1> QED
  BY <1>1, BinaryInductive, PTL

(* A binary row is written once and in full, whatever its columns, the     *)
(* boundaries of the length encoding and the packet length, unless it has  *)
(* a BIT column and does not fit in one packet.                            *)
THEOREM BinaryWrittenOnce == Spec => []WrittenOnce
<1>1. BinaryInv => WrittenOnce
  BY DEF BinaryInv
<1> QED
  BY <1>1, BinaryInductive, PTL

(* A binary row that fits in one packet is as long as its header says.     *)
THEOREM BinaryFramed == Spec => []FramedInOnePacket
<1>1. BinaryInv => FramedInOnePacket
  BY DEF BinaryInv
<1> QED
  BY <1>1, BinaryInductive, PTL
=============================================================================
