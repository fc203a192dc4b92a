--------------------------- MODULE NetWriteProofs ---------------------------
(***************************************************************************)
(* The write buffer implements AnswerStream, whatever the sizes.           *)
(***************************************************************************)
EXTENDS NetWrite, TLAPS

USE DEF Max, Junk, Garbled

(* The bytes that wait in the buffer are the last ones handed over.        *)
Queued ==
    \A i \in sendStart .. writePointer - 1 : WBuff[i] + writePointer = handed + 1 + i

(* The call's bytes are assembled, p places behind the write pointer, with *)
(* the numbers they will have.                                             *)
Assembled(p) ==
    /\ writePointer + p + call.len <= WBuffSize
    /\ \A i \in writePointer + p .. writePointer + p + call.len - 1 :
            WBuff[i] + writePointer = handed + 1 + i

(* Where the writer is tells which call it is in, what the buffer holds    *)
(* and how much room it has.                                               *)
Control ==
    /\ pc \notin {"flush", "gone"} => sendStart = 0
    /\ pc \in {"read", "error"} => writePointer = 0
    /\ (pc = "answer" /\ call.then = "flush") => writePointer = 0
    /\ pc = "read" => handed = 0 /\ ClientConnectionLost = 0
    /\ pc = "error" => ClientConnectionLost = 1
    /\ pc \in {"reserve", "assemble"} => call.kind \in {"packet", "piece"}
    /\ pc = "header" => call.kind \in {"packet", "payload"}
    /\ pc = "copy" => call.kind \in {"copy", "payload"}
    /\ pc = "assemble" => writePointer + Room <= WBuffSize
    /\ pc = "finish" => Assembled(0)
    /\ (pc = "header" /\ call.kind = "packet" /\ left = 0) => Assembled(0)
    /\ (pc = "header" /\ call.kind = "packet" /\ left # 0)
            => left = Header /\ Assembled(Header)
    /\ pc = "flush" =>
        /\ back = "assemble" => call.kind \in {"packet", "piece"}
        /\ back = "header" => call.kind = "payload"
        /\ back = "copy" => call.kind \in {"copy", "payload"}
        /\ back = "answer" => call.then = "flush"

(* The inductive invariant: unless the connection was lost, what was       *)
(* handed over is what the client has and what waits in the buffer.        *)
IInv ==
    /\ TypeOK
    /\ Queued
    /\ Control
    /\ ClientConnectionLost = 0 => handed + sendStart = got + writePointer

-----------------------------------------------------------------------------
(* The calls: what is assembled fits into the room.                        *)
LEMMA CallLen ==
    ASSUME NEW c \in Calls \cup {NoCall}
    PROVE  /\ c.len \in Nat
           /\ c.then \in {"keep", "flush"}
           /\ c.kind \in {"none", "packet", "piece", "copy", "payload"}
           /\ c.kind = "packet" => Header + c.len <= Room
           /\ c.kind = "piece" => Header + c.len <= Room
<1>1. CASE c \in [kind : {"packet"}, len : Pieces, then : {"keep", "flush"}]
  <2>1. c.len \in Pieces
    BY <1>1
  <2> QED
    BY <1>1, <2>1, WriteAssumption
<1>2. CASE c \in [kind : {"piece"}, len : Pieces \ {0}, then : {"keep"}]
  <2>1. c.len \in Pieces
    BY <1>2
  <2> QED
    BY <1>2, <2>1, WriteAssumption
<1>3. CASE c \in [kind : {"copy"}, len : Copies \ {0}, then : {"keep"}]
    BY <1>3, WriteAssumption
<1>4. CASE c \in [kind : {"payload"}, len : Copies, then : {"keep", "flush"}]
    BY <1>4, WriteAssumption
<1>5. CASE c = NoCall
    BY <1>5 DEF NoCall
<1> QED
    BY <1>1, <1>2, <1>3, <1>4, <1>5 DEF Calls

(* What Put leaves in the buffer.                                          *)
LEMMA PutAt ==
    ASSUME NEW p \in Nat, NEW n \in Nat, NEW from \in Nat,
           WBuff \in [0 .. WBuffSize - 1 -> Nat], Put(p, n, from)
    PROVE  /\ WBuff' \in [0 .. WBuffSize - 1 -> Nat]
           /\ \A i \in 0 .. WBuffSize - 1 :
                /\ i \in p .. p + n - 1 => WBuff'[i] = from + 1 + (i - p)
                /\ i \notin p .. p + n - 1 => WBuff'[i] = WBuff[i]
BY WriteAssumption DEF Put

-----------------------------------------------------------------------------
(* The steps.                                                              *)

LEMMA BeginStep == IInv /\ Begin => IInv'
BY WriteAssumption
   DEF IInv, TypeOK, Queued, Control, Assembled, Begin, NoCall, Places, ends

LEMMA CallStep == IInv /\ (\E c \in Calls : Call(c)) => IInv'
<1> SUFFICES ASSUME IInv, NEW c \in Calls, Call(c) PROVE IInv'
    OBVIOUS
<1>1. /\ c.len \in Nat /\ c.then \in {"keep", "flush"}
      /\ c.kind \in {"none", "packet", "piece", "copy", "payload"}
    BY CallLen
<1>2. c.kind # "none"
    BY DEF Calls
<1>3. TypeOK'
    BY <1>1, WriteAssumption DEF IInv, TypeOK, Call, Places, buffer, ends
<1>4. Queued'
    BY DEF IInv, Queued, Call, buffer, ends
<1>5. Control'
    BY <1>1, <1>2, WriteAssumption DEF IInv, TypeOK, Control, Assembled, Call, buffer, ends
<1> QED
    BY <1>3, <1>4, <1>5 DEF IInv, Call, buffer, ends

LEMMA AnswerEndStep == IInv /\ AnswerEnd => IInv'
<1> SUFFICES ASSUME IInv, AnswerEnd PROVE IInv'
    OBVIOUS
<1>1. writePointer = 0 /\ sendStart = 0
    BY DEF IInv, Control, AnswerEnd
<1> QED
    BY <1>1, WriteAssumption
    DEF IInv, TypeOK, Queued, Control, Assembled, AnswerEnd, Places, buffer

LEMMA GetWriteBufStep == IInv /\ GetWriteBuf => IInv'
BY WriteAssumption
   DEF IInv, TypeOK, Queued, Control, Assembled, GetWriteBuf, HasRoom, GoFlush,
       Places, buffer, ends

LEMMA AssembleStep == IInv /\ Assemble => IInv'
<1> SUFFICES ASSUME IInv, Assemble PROVE IInv'
    OBVIOUS
<1>1. /\ call.len \in Nat /\ Header + call.len <= Room
      /\ call.kind \in {"packet", "piece"}
    BY CallLen DEF IInv, TypeOK, Control, Assemble
<1>2. /\ writePointer \in Nat /\ handed \in Nat /\ sendStart = 0
      /\ writePointer + Room <= WBuffSize
    BY WriteAssumption DEF IInv, TypeOK, Control, Assemble
<1>3. CASE call.kind = "packet"
  <2>1. Put(writePointer + Header, call.len, handed + Header) /\ pc' = "header"
    BY <1>3 DEF Assemble
  <2>2. /\ WBuff' \in [0 .. WBuffSize - 1 -> Nat]
        /\ \A i \in 0 .. WBuffSize - 1 :
            /\ i \in writePointer + Header .. writePointer + Header + call.len - 1
                 => WBuff'[i] = handed + Header + 1 + (i - (writePointer + Header))
            /\ i \notin writePointer + Header .. writePointer + Header + call.len - 1
                 => WBuff'[i] = WBuff[i]
    <3> DEFINE p == writePointer + Header
               f == handed + Header
    <3>1. p \in Nat /\ f \in Nat
        BY <1>2, WriteAssumption
    <3>2. Put(p, call.len, f) /\ WBuff \in [0 .. WBuffSize - 1 -> Nat]
        BY <2>1 DEF IInv, TypeOK
    <3> HIDE DEF p, f
    <3>3. /\ WBuff' \in [0 .. WBuffSize - 1 -> Nat]
          /\ \A i \in 0 .. WBuffSize - 1 :
                /\ i \in p .. p + call.len - 1 => WBuff'[i] = f + 1 + (i - p)
                /\ i \notin p .. p + call.len - 1 => WBuff'[i] = WBuff[i]
        BY <1>1, <3>1, <3>2, PutAt
    <3> QED
        BY <3>3 DEF p, f
  <2>3. TypeOK'
    BY <2>1, <2>2, WriteAssumption DEF IInv, TypeOK, Assemble, Places, ends
  <2>u. writePointer' = writePointer /\ handed' = handed /\ call' = call /\ sendStart' = 0
    BY <1>2 DEF Assemble, ends
  <2>4. Queued'
    <3> SUFFICES ASSUME NEW i \in 0 .. writePointer - 1
                 PROVE  WBuff'[i] + writePointer = handed + 1 + i
        BY <2>u DEF Queued
    <3>1. WBuff[i] + writePointer = handed + 1 + i
        BY <1>2 DEF IInv, Queued
    <3>2. i \in 0 .. WBuffSize - 1 /\ i < writePointer
        BY <1>2, WriteAssumption
    <3>3. WBuff'[i] = WBuff[i]
        BY <1>1, <1>2, <2>2, <3>2, WriteAssumption
    <3> QED
        BY <3>1, <3>3
  <2>5. Assembled(Header)'
    <3>1. writePointer + Header + call.len <= WBuffSize
        BY <1>1, <1>2, WriteAssumption
    <3>2. ASSUME NEW i \in writePointer + Header .. writePointer + Header + call.len - 1
          PROVE  WBuff'[i] + writePointer = handed + 1 + i
      <4>1. i \in 0 .. WBuffSize - 1
        BY <1>1, <1>2, <3>1, WriteAssumption
      <4> QED
        BY <1>1, <1>2, <2>2, <4>1, WriteAssumption
    <3> QED
        BY <1>1, <1>2, <2>u, <3>1, <3>2 DEF Assembled
  <2>6. Control'
    BY <1>2, <1>3, <2>1, <2>5, WriteAssumption DEF Control, Assemble
  <2> QED
    BY <2>3, <2>4, <2>6 DEF IInv, Assemble, ends
<1>4. CASE call.kind = "piece"
  <2>1. Put(writePointer, call.len, handed) /\ pc' = "finish"
    BY <1>4 DEF Assemble
  <2>2. /\ WBuff' \in [0 .. WBuffSize - 1 -> Nat]
        /\ \A i \in 0 .. WBuffSize - 1 :
            /\ i \in writePointer .. writePointer + call.len - 1
                 => WBuff'[i] = handed + 1 + (i - writePointer)
            /\ i \notin writePointer .. writePointer + call.len - 1
                 => WBuff'[i] = WBuff[i]
    BY <1>1, <1>2, <2>1, PutAt DEF IInv, TypeOK
  <2>3. TypeOK'
    BY <2>1, <2>2, WriteAssumption DEF IInv, TypeOK, Assemble, Places, ends
  <2>u. writePointer' = writePointer /\ handed' = handed /\ call' = call /\ sendStart' = 0
    BY <1>2 DEF Assemble, ends
  <2>4. Queued'
    <3> SUFFICES ASSUME NEW i \in 0 .. writePointer - 1
                 PROVE  WBuff'[i] + writePointer = handed + 1 + i
        BY <2>u DEF Queued
    <3>1. WBuff[i] + writePointer = handed + 1 + i
        BY <1>2 DEF IInv, Queued
    <3>2. i \in 0 .. WBuffSize - 1 /\ i < writePointer
        BY <1>2, WriteAssumption
    <3>3. WBuff'[i] = WBuff[i]
        BY <1>1, <1>2, <2>2, <3>2, WriteAssumption
    <3> QED
        BY <3>1, <3>3
  <2>5. Assembled(0)'
    <3>1. writePointer + call.len <= WBuffSize
        BY <1>1, <1>2, WriteAssumption
    <3>2. ASSUME NEW i \in writePointer .. writePointer + call.len - 1
          PROVE  WBuff'[i] + writePointer = handed + 1 + i
      <4>1. i \in 0 .. WBuffSize - 1
        BY <1>1, <1>2, <3>1, WriteAssumption
      <4> QED
        BY <1>1, <1>2, <2>2, <4>1, WriteAssumption
    <3> QED
        BY <1>1, <1>2, <2>u, <3>1, <3>2 DEF Assembled
  <2>6. Control'
    BY <1>2, <2>1, <2>5 DEF Control, Assemble
  <2> QED
    BY <2>3, <2>4, <2>6 DEF IInv, Assemble, ends
<1> QED
    BY <1>1, <1>3, <1>4

LEMMA FinishStep == IInv /\ Finish => IInv'
<1> SUFFICES ASSUME IInv, Finish PROVE IInv'
    OBVIOUS
<1>1. call.len \in Nat /\ writePointer + call.len <= WBuffSize
    BY CallLen DEF IInv, TypeOK, Control, Assembled, Finish
<1>2. writePointer \in Nat /\ handed \in Nat /\ sendStart = 0
    BY WriteAssumption DEF IInv, TypeOK, Control, Finish
<1>3. TypeOK'
    BY <1>1, <1>2, WriteAssumption DEF IInv, TypeOK, Finish, GoFlush, Places
<1>4. Queued'
  <2> SUFFICES ASSUME NEW i \in sendStart' .. writePointer' - 1
               PROVE  WBuff'[i] + writePointer' = handed' + 1 + i
    BY DEF Queued
  <2>0. /\ sendStart' = 0 /\ WBuff' = WBuff
        /\ writePointer' = writePointer + call.len /\ handed' = handed + call.len
    BY <1>2 DEF Finish
  <2>1. WBuff[i] \in Nat
    BY <1>1, <1>2, <2>0, WriteAssumption DEF IInv, TypeOK
  <2>2. WBuff[i] + writePointer = handed + 1 + i
    BY <1>1, <1>2, <2>0 DEF IInv, Queued, Control, Assembled, Finish
  <2> QED
    BY <1>1, <1>2, <2>0, <2>1, <2>2
<1>5. Control'
    BY <1>2 DEF IInv, Control, Finish, GoFlush
<1> QED
    BY <1>1, <1>2, <1>3, <1>4, <1>5 DEF IInv, TypeOK, Finish

(* A round of writeBytes in a packet's header has room for all of it.      *)
LEMMA WriteBytesStep == IInv /\ WriteBytes => IInv'
<1> SUFFICES ASSUME IInv, WriteBytes PROVE IInv'
    OBVIOUS
<1>1. /\ writePointer \in Nat /\ handed \in Nat /\ sendStart = 0 /\ left \in Nat
      /\ pc \in {"header", "copy"} /\ left > 0 /\ call.len \in Nat
      /\ WBuffSize \in Nat /\ writePointer <= WBuffSize /\ Header \in Nat
    BY WriteAssumption, CallLen DEF IInv, TypeOK, Control, WriteBytes
<1>2. CASE BufferFull
  <2>1. pc = "header" => call.kind = "payload"
    BY <1>1, <1>2, WriteAssumption
    DEF IInv, TypeOK, Control, Assembled, BufferFull
  <2> QED
    BY <1>1, <1>2, <2>1
    DEF IInv, TypeOK, Queued, Control, Assembled, WriteBytes, GoFlush, Places, buffer
<1>3. CASE ~BufferFull
  <2> DEFINE n == Amount(left)
  <2>1. n \in Nat /\ n > 0 /\ n <= left /\ writePointer + n <= WBuffSize
    BY <1>1, <1>3 DEF Amount, BufferFull
  <2>2. pc = "header" /\ call.kind = "packet"
          => n = Header /\ left = Header /\ Assembled(Header)
    BY <1>1, <1>3 DEF IInv, Control, Assembled, Amount, BufferFull
  <2>3. /\ Put(writePointer, n, handed)
        /\ writePointer' = writePointer + n /\ left' = left - n
        /\ handed' = handed + n /\ sendStart' = 0
        /\ UNCHANGED <<pc, back, call, rest, ClientConnectionLost, got>>
    BY <1>1, <1>3 DEF WriteBytes
  <2> HIDE DEF n
  <2>4. /\ WBuff' \in [0 .. WBuffSize - 1 -> Nat]
        /\ \A i \in 0 .. WBuffSize - 1 :
            /\ i \in writePointer .. writePointer + n - 1
                 => WBuff'[i] = handed + 1 + (i - writePointer)
            /\ i \notin writePointer .. writePointer + n - 1
                 => WBuff'[i] = WBuff[i]
    BY <1>1, <2>1, <2>3, PutAt DEF IInv, TypeOK
  <2>5. TypeOK'
    BY <1>1, <2>1, <2>3, <2>4 DEF IInv, TypeOK, Places
  <2>6. Queued'
    <3> SUFFICES ASSUME NEW i \in sendStart' .. writePointer' - 1
                 PROVE  WBuff'[i] + writePointer' = handed' + 1 + i
        BY DEF Queued
    <3>1. i \in 0 .. WBuffSize - 1 /\ i < writePointer + n
        BY <1>1, <2>1, <2>3
    <3>2. CASE i < writePointer
      <4>1. WBuff'[i] = WBuff[i] /\ WBuff[i] \in Nat
        BY <1>1, <2>1, <2>4, <3>1, <3>2 DEF IInv, TypeOK
      <4>2. WBuff[i] + writePointer = handed + 1 + i
        BY <1>1, <3>1, <3>2 DEF IInv, Queued
      <4> QED
        BY <1>1, <2>1, <2>3, <4>1, <4>2
    <3>3. CASE i >= writePointer
        BY <1>1, <2>1, <2>3, <2>4, <3>1, <3>3
    <3> QED
        BY <1>1, <3>1, <3>2, <3>3
  <2>7. CASE pc = "header" /\ call.kind = "packet"
    <3>1. Assembled(0)'
      <4>1. writePointer + Header + call.len <= WBuffSize
        BY <2>2, <2>7 DEF Assembled
      <4>2. ASSUME NEW i \in writePointer + Header .. writePointer + Header + call.len - 1
            PROVE  WBuff'[i] + (writePointer + Header) = handed + Header + 1 + i
        <5>1. i \in 0 .. WBuffSize - 1
            BY <1>1, <4>1
        <5>2. WBuff'[i] = WBuff[i] /\ WBuff[i] \in Nat
            BY <1>1, <2>2, <2>4, <2>7, <5>1 DEF IInv, TypeOK
        <5>3. WBuff[i] + writePointer = handed + 1 + i
            BY <1>1, <2>2, <2>7 DEF Assembled
        <5> QED
            BY <1>1, <5>1, <5>2, <5>3
      <4> QED
        BY <1>1, <2>2, <2>3, <2>7, <4>1, <4>2 DEF Assembled
    <3>2. left' = 0
        BY <1>1, <2>2, <2>3, <2>7
    <3>3. Control'
        BY <1>1, <2>3, <2>7, <3>1, <3>2 DEF Control
    <3> QED
        BY <1>1, <2>1, <2>3, <2>5, <2>6, <3>3 DEF IInv, TypeOK
  <2>8. CASE ~(pc = "header" /\ call.kind = "packet")
    <3>1. Control'
        BY <1>1, <2>3, <2>8 DEF IInv, Control
    <3> QED
        BY <1>1, <2>1, <2>3, <2>5, <2>6, <3>1 DEF IInv, TypeOK
  <2> QED
    BY <2>7, <2>8
<1> QED
    BY <1>2, <1>3

LEMMA WrittenStep == IInv /\ Written => IInv'
<1> SUFFICES ASSUME IInv, Written PROVE IInv'
    OBVIOUS
<1>1. /\ UNCHANGED <<WBuff, writePointer, sendStart, call, ClientConnectionLost, handed, got>>
      /\ pc \in {"header", "copy"} /\ left = 0
    BY DEF Written, buffer, ends
<1>2. TypeOK'
    BY <1>1, WriteAssumption DEF IInv, TypeOK, Written, GoFlush, Places
<1>3. Queued'
    BY <1>1 DEF IInv, Queued
<1>4. Assembled(0) => Assembled(0)'
    BY <1>1 DEF Assembled
<1>5. Control'
    BY <1>1, <1>4, WriteAssumption DEF IInv, Control, Written, GoFlush
<1> QED
    BY <1>1, <1>2, <1>3, <1>5 DEF IInv

(* The client receives what it expects.                                    *)
LEMMA SecureWriteGets ==
    ASSUME IInv, NEW n \in 1 .. WBuffSize, SecureWrite(n), ClientConnectionLost = 0
    PROVE  got' = got + n /\ got \in Nat /\ got + n <= handed
<1>1. /\ n <= writePointer - sendStart /\ got \in Nat /\ handed \in Nat
      /\ writePointer \in Nat /\ sendStart \in Nat /\ n \in Nat
      /\ writePointer <= WBuffSize /\ WBuffSize \in Nat
      /\ handed + sendStart = got + writePointer
    BY WriteAssumption DEF IInv, TypeOK, SecureWrite
<1>2. ASSUME NEW i \in sendStart .. sendStart + n - 1
      PROVE  WBuff[i] = got + 1 + (i - sendStart)
  <2>1. WBuff[i] + writePointer = handed + 1 + i /\ WBuff[i] \in Nat
    BY <1>1 DEF IInv, TypeOK, Queued
  <2> QED
    BY <1>1, <2>1
<1> QED
    BY <1>1, <1>2 DEF SecureWrite, Receive

LEMMA SecureWriteStep == IInv /\ (\E n \in 1 .. WBuffSize : SecureWrite(n)) => IInv'
<1> SUFFICES ASSUME IInv, NEW n \in 1 .. WBuffSize, SecureWrite(n) PROVE IInv'
    OBVIOUS
<1>1. got' = IF ClientConnectionLost = 0 THEN got + n ELSE got
    BY SecureWriteGets DEF IInv, TypeOK, SecureWrite
<1>2. /\ pc = "flush" /\ n \in 1 .. writePointer - sendStart
      /\ sendStart' = sendStart + n
      /\ UNCHANGED <<WBuff, writePointer, pc, call, left, rest, back,
                     ClientConnectionLost, handed>>
    BY DEF SecureWrite
<1>3. TypeOK'
    BY <1>1, <1>2, WriteAssumption DEF IInv, TypeOK
<1>4. Queued'
    BY <1>2, WriteAssumption DEF IInv, TypeOK, Queued
<1>5. Control'
    BY <1>2 DEF IInv, Control
<1> QED
    BY <1>1, <1>2, <1>3, <1>4, <1>5, WriteAssumption DEF IInv, TypeOK

LEMMA FlushEndStep == IInv /\ FlushEnd => IInv'
<1> SUFFICES ASSUME IInv, FlushEnd PROVE IInv'
    OBVIOUS
<1>1. TypeOK'
    BY WriteAssumption DEF IInv, TypeOK, FlushEnd, Places, ends
<1>2. Control'
    BY WriteAssumption DEF IInv, TypeOK, Control, FlushEnd, ends
<1> QED
    BY <1>1, <1>2 DEF IInv, TypeOK, Queued, FlushEnd, ends

LEMMA ErrorStep ==
    IInv /\ (\/ SecureWriteZero \/ SecureWriteFails
             \/ \E n \in Pieces : SendErrPacket(n)) => IInv'
<1> SUFFICES ASSUME IInv, \/ SecureWriteZero \/ SecureWriteFails
                          \/ \E n \in Pieces : SendErrPacket(n)
             PROVE  IInv'
    OBVIOUS
<1>1. CASE SecureWriteZero
    BY <1>1, WriteAssumption
    DEF IInv, TypeOK, Queued, Control, SecureWriteZero, Places, ends
<1>2. CASE SecureWriteFails
    BY <1>2 DEF IInv, TypeOK, Queued, Control, SecureWriteFails, Places, buffer, ends
<1>3. ASSUME NEW n \in Pieces, SendErrPacket(n)
      PROVE  IInv'
  <2>1. call' \in Calls
    BY <1>3 DEF SendErrPacket, Calls
  <2> QED
    BY <1>3, <2>1, WriteAssumption
    DEF IInv, TypeOK, Queued, Control, SendErrPacket, Places, buffer, ends
<1> QED
    BY <1>1, <1>2, <1>3

LEMMA InitIInv == Init => IInv
BY WriteAssumption
   DEF Init, IInv, TypeOK, Queued, Control, Assembled, NoCall, Places

LEMMA NextIInv == IInv /\ [Next]_vars => IInv'
<1> SUFFICES ASSUME IInv, [Next]_vars PROVE IInv'
    OBVIOUS
<1>1. CASE UNCHANGED vars
    BY <1>1
    DEF IInv, TypeOK, Queued, Control, Assembled, vars, buffer, ends
<1>2. CASE Next
    BY <1>2, BeginStep, CallStep, AnswerEndStep, GetWriteBufStep, AssembleStep,
       FinishStep, WriteBytesStep, WrittenStep, SecureWriteStep, FlushEndStep, ErrorStep
    DEF Next, Answer
<1> QED
    BY <1>1, <1>2

LEMMA AlwaysIInv == Spec => []IInv
BY InitIInv, NextIInv, PTL DEF Spec

-----------------------------------------------------------------------------
(* A step that leaves the stream as it is.                                 *)
LEMMA Silent ==
    ASSUME Mode' = Mode, handed' = handed, got' = got, Gone' <=> Gone
    PROVE  UNCHANGED Stream!vars
BY Zenon DEF Stream!vars

(* A step after which the session is gone.                                 *)
LEMMA Breaks ==
    ASSUME Gone'
    PROVE  [Stream!Next]_(Stream!vars)
<1>1. /\ Mode' = "gone"
      /\ (IF Gone THEN 0 ELSE handed)' = 0 /\ (IF Gone THEN 0 ELSE got)' = 0
    BY DEF Mode
<1>2. CASE Gone
    BY <1>1, <1>2 DEF Mode, Stream!vars
<1>3. CASE ~Gone
  <2>1. Mode # "gone"
    BY <1>3 DEF Mode
  <2> QED
    BY <1>1, <2>1 DEF Stream!Next, Stream!Break
<1> QED
    BY <1>2, <1>3

(* A step that hands bytes over.                                           *)
LEMMA Hands ==
    ASSUME ~Gone, ~Gone', pc # "read", pc' # "read",
           handed \in Nat, handed' \in Nat, handed' >= handed, got' = got
    PROVE  [Stream!Next]_(Stream!vars)
BY DEF Mode, Stream!Next, Stream!Hand

(* The steps map to steps of AnswerStream, or to none.                     *)
LEMMA StreamStep == IInv /\ IInv' /\ [Next]_vars => [Stream!Next]_(Stream!vars)
<1> SUFFICES ASSUME IInv, IInv', [Next]_vars, ~Gone, ~Gone'
             PROVE  [Stream!Next]_(Stream!vars)
  <2>1. Gone /\ [Next]_vars => Gone'
    BY DEF Gone, Next, Answer, Begin, Call, AnswerEnd, GetWriteBuf, Assemble, Finish,
           WriteBytes, Written, SecureWrite, FlushEnd, SecureWriteZero,
           SecureWriteFails, SendErrPacket, vars, IInv, Control
  <2> QED
    BY <2>1, Breaks
<1>1. handed \in Nat /\ handed' \in Nat /\ got \in Nat /\ ClientConnectionLost = 0
    BY DEF IInv, TypeOK, Gone
<1>2. CASE Begin
  <2>1. pc = "read" /\ pc' = "answer" /\ handed' = handed /\ got' = got
    BY <1>2 DEF Begin, ends
  <2> QED
    BY <2>1 DEF Mode, Stream!Next, Stream!Begin
<1>3. CASE AnswerEnd
  <2>1. /\ pc = "answer" /\ pc' = "read" /\ handed' = 0 /\ got' = 0
        /\ got = handed
    BY <1>1, <1>3 DEF AnswerEnd, IInv, Control
  <2> QED
    BY <2>1 DEF Mode, Stream!Next, Stream!End
<1>4. CASE \E n \in 1 .. WBuffSize : SecureWrite(n)
  <2>1. PICK n \in 1 .. WBuffSize : SecureWrite(n)
    BY <1>4
  <2>2. /\ pc = "flush" /\ pc' = "flush" /\ handed' = handed
        /\ got' = got + n /\ got + n <= handed
    BY <1>1, <2>1, SecureWriteGets DEF SecureWrite
  <2>3. got' \in got + 1 .. handed
    BY <1>1, <2>2, WriteAssumption
  <2> QED
    BY <2>2, <2>3 DEF Mode, Stream!Next, Stream!Deliver
<1>5. CASE UNCHANGED vars
    BY <1>5, Silent DEF vars, ends, Mode
<1>6. CASE /\ Answer /\ ~AnswerEnd /\ ~(\E n \in 1 .. WBuffSize : SecureWrite(n))
  <2>1. pc # "read" /\ pc' # "read" /\ got' = got
    BY <1>1, <1>6
    DEF Answer, Call, GetWriteBuf, Assemble, Finish, WriteBytes, Written, FlushEnd,
        SecureWriteZero, SecureWriteFails, SendErrPacket, GoFlush, ends, IInv, TypeOK
  <2>2. handed' >= handed
    <3>1. CASE Finish
      <4>1. call.len \in Nat
        BY CallLen DEF IInv, TypeOK
      <4> QED
        BY <1>1, <3>1, <4>1 DEF Finish
    <3>2. CASE WriteBytes
      <4>1. left \in Nat /\ WBuffSize - writePointer \in Nat
        BY WriteAssumption DEF IInv, TypeOK
      <4>2. Amount(left) \in Nat
        BY <4>1 DEF Amount
      <4>3. handed' = handed \/ handed' = handed + Amount(left)
        BY <3>2 DEF WriteBytes
      <4> QED
        BY <1>1, <4>2, <4>3
    <3>3. CASE ~Finish /\ ~WriteBytes
      <4>1. handed' = handed
        BY <1>6, <3>3
        DEF Answer, Call, GetWriteBuf, Assemble, Written, FlushEnd,
            SecureWriteZero, SecureWriteFails, SendErrPacket, ends
      <4> QED
        BY <1>1, <4>1
    <3> QED
        BY <3>1, <3>2, <3>3
  <2> QED
    BY <1>1, <2>1, <2>2, Hands
<1> QED
    BY <1>2, <1>3, <1>4, <1>5, <1>6 DEF Next, Answer

-----------------------------------------------------------------------------
(* For every buffer, room, header and packet size: the pointers stay in    *)
(* the buffer.                                                             *)
THEOREM WriteTyping == Spec => []TypeOK
BY AlwaysIInv, PTL DEF IInv

(* For every buffer, room, header and packet size: the write buffer        *)
(* implements AnswerStream.                                                *)
THEOREM WriteImplementsStream == Spec => ImplementsStream
<1>1. Init => Stream!Init
    BY DEF Init, Stream!Init, Mode, Gone
<1> QED
    BY <1>1, AlwaysIInv, StreamStep, PTL DEF Spec, ImplementsStream, Stream!Spec
=============================================================================
