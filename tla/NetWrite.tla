------------------------------ MODULE NetWrite ------------------------------
(***************************************************************************)
(* The write buffer of a connection (netTransceiver.c).                    *)
(*                                                                         *)
(* An answer is handed over in calls.  Some assemble their bytes in the    *)
(* buffer itself, behind the place of a header that is written after them, *)
(* others have them copied, in as many rounds as the buffer makes          *)
(* necessary; the buffer is sent when it is full, when a place in it is    *)
(* wanted and it is nearly full, and at the end of an answer, in as many   *)
(* writes as the socket takes.  A byte is modelled by its number in the    *)
(* answer.                                                                 *)
(***************************************************************************)
EXTENDS Integers

CONSTANTS
    WBuffSize,
    SINGLE_PACKET_MAX_PAYLOAD_LENGTH,
    Header,         \* EACH_PACKET_HEARDER_LENGTH
    Room,           \* 102400, the room a caller who assembles in place gets
    Pieces,         \* bound: the lengths of what is assembled in place
    Copies,         \* bound: the lengths of what is copied
    MaxAnswer       \* bound: the bytes of an answer

Max == SINGLE_PACKET_MAX_PAYLOAD_LENGTH

(* What is assembled in place is assumed to fit: nothing looks.            *)
ASSUME WriteAssumption ==
    /\ WBuffSize \in Nat /\ Max \in Nat \ {0}
    /\ Header \in Nat \ {0} /\ Room \in Nat
    /\ Room <= WBuffSize
    /\ Pieces \subseteq Nat /\ \A n \in Pieces : Header + n <= Room
    /\ Copies \subseteq Nat
    /\ MaxAnswer \in Nat

Junk == 0           \* what a place of the buffer holds that was not written
Garbled == -1

VARIABLES
    WBuff, writePointer, sendStart,
    pc,             \* where the writer is
    call,           \* the call it is in
    left,           \* writeBytes: len
    rest,           \* writePacketHeaderPayloadNoFlush: payloadLen
    back,           \* where flushWBuff returns to
    ClientConnectionLost,
    handed,         \* history: bytes of the answer handed over
    got             \* the client: it has bytes 1..got of the answer in order,
                    \* or it is Garbled

buffer == <<WBuff, writePointer, sendStart>>
ends == <<handed, got>>
vars == <<buffer, pc, call, left, rest, back, ClientConnectionLost, ends>>

NoCall == [kind |-> "none", len |-> 0, then |-> "flush"]

(* The calls: an assembled payload behind its header, an assembled piece   *)
(* of a row, a copied piece of a row (or a header of its own), a copied    *)
(* payload behind its headers.  The first and the last come with and       *)
(* without a flush.                                                        *)
Calls ==
    [kind : {"packet"}, len : Pieces, then : {"keep", "flush"}] \cup
    [kind : {"piece"}, len : Pieces \ {0}, then : {"keep"}] \cup
    [kind : {"copy"}, len : Copies \ {0}, then : {"keep"}] \cup
    [kind : {"payload"}, len : Copies, then : {"keep", "flush"}]

Init ==
    /\ WBuff = [i \in 0 .. WBuffSize - 1 |-> Junk]
    /\ writePointer = 0 /\ sendStart = 0
    /\ pc = "read"
    /\ call = NoCall
    /\ left = 0 /\ rest = 0
    /\ back = "answer"
    /\ ClientConnectionLost = 0
    /\ handed = 0 /\ got = 0

-----------------------------------------------------------------------------
(* A command has been read; bytes of earlier answers are none of this one. *)
Begin ==
    /\ pc = "read"
    /\ pc' = "answer"
    /\ call' = NoCall
    /\ WBuff' = [i \in 0 .. WBuffSize - 1 |-> Junk]
    /\ UNCHANGED <<writePointer, sendStart, left, rest, back,
                   ClientConnectionLost, ends>>

(* The bytes of a call, headers included.                                  *)
Bytes(c) ==
    IF c.kind = "packet" THEN Header + c.len
    ELSE IF c.kind = "payload" THEN c.len + Header * (c.len \div Max + 1)
    ELSE c.len

(* The next call of the answer; the bound leaves room for one that         *)
(* flushes.                                                                *)
Call(c) ==
    /\ pc = "answer"
    /\ handed + Bytes(c) + (IF c.then = "flush" THEN 0 ELSE Header + 1)
         <= MaxAnswer
    /\ call' = c
    /\ pc' = IF c.kind \in {"packet", "piece"} THEN "reserve"
             ELSE IF c.kind = "copy" THEN "copy" ELSE "header"
    /\ left' = IF c.kind = "copy" THEN c.len ELSE Header
    /\ rest' = c.len
    /\ UNCHANGED <<buffer, back, ClientConnectionLost, ends>>

(* Every answer ends with a call that flushes, if there is one at all.     *)
(* After a lost connection CHECK_FOR_INTERRUPTS ends the process.          *)
AnswerEnd ==
    /\ pc = "answer"
    /\ call.then = "flush"
    /\ pc' = IF ClientConnectionLost = 1 THEN "gone" ELSE "read"
    /\ handed' = 0 /\ got' = 0
    /\ UNCHANGED <<buffer, call, left, rest, back, ClientConnectionLost>>

-----------------------------------------------------------------------------
GoFlush(to) == pc' = "flush" /\ back' = to

(* Mutant: any room will do.                                               *)
HasRoomAlways == writePointer < WBuffSize

HasRoom == Room <= WBuffSize - writePointer

(* getWriteBufForHeaderPayload, getWriteBufForPayload.                     *)
GetWriteBuf ==
    /\ pc = "reserve"
    /\ IF HasRoom THEN pc' = "assemble" /\ UNCHANGED back
                  ELSE GoFlush("assemble")
    /\ UNCHANGED <<buffer, call, left, rest, ClientConnectionLost, ends>>

(* Bytes from + 1, from + 2, ... are put at the places p, p + 1, ...       *)
Put(p, n, from) ==
    WBuff' = [i \in DOMAIN WBuff |->
                IF i \in p .. p + n - 1 THEN from + 1 + (i - p) ELSE WBuff[i]]

(* The caller assembles; a packet's header is still to come.               *)
Assemble ==
    /\ pc = "assemble"
    /\ IF call.kind = "packet"
       THEN /\ Put(writePointer + Header, call.len, handed + Header)
            /\ pc' = "header"
       ELSE /\ Put(writePointer, call.len, handed)
            /\ pc' = "finish"
    /\ left' = Header
    /\ UNCHANGED <<writePointer, sendStart, call, rest, back,
                   ClientConnectionLost, ends>>

(* finishWriteToBufNoFlush, finishWriteToBufFlush.                         *)
Finish ==
    /\ pc = "finish"
    /\ writePointer' = writePointer + call.len
    /\ handed' = handed + call.len
    /\ IF call.then = "flush" THEN GoFlush("answer")
                              ELSE pc' = "answer" /\ UNCHANGED back
    /\ UNCHANGED <<WBuff, sendStart, call, left, rest, ClientConnectionLost, got>>

(* Mutant: full one byte too late.                                         *)
BufferFullLate == writePointer > WBuffSize

BufferFull == writePointer >= WBuffSize

(* How much of len bytes one round copies.                                 *)
Amount(len) ==
    IF WBuffSize - writePointer > len THEN len ELSE WBuffSize - writePointer

(* One round of writeBytes.                                                *)
WriteBytes ==
    /\ pc \in {"header", "copy"} /\ left > 0
    /\ IF BufferFull
       THEN /\ GoFlush(pc)
            /\ UNCHANGED <<buffer, left, handed>>
       ELSE /\ Put(writePointer, Amount(left), handed)
            /\ writePointer' = writePointer + Amount(left)
            /\ left' = left - Amount(left)
            /\ handed' = handed + Amount(left)
            /\ UNCHANGED <<sendStart, pc, back>>
    /\ UNCHANGED <<call, rest, ClientConnectionLost, got>>

(* writeBytes returns.  writePacketHeaderPayloadNoFlush goes on with the   *)
(* payload of the header, and then with the next header, until a payload   *)
(* was shorter than the maximum.                                           *)
Written ==
    /\ pc \in {"header", "copy"} /\ left = 0
    /\ IF pc = "header" /\ call.kind = "packet"
       THEN pc' = "finish" /\ UNCHANGED <<left, rest, back>>
       ELSE IF pc = "header"
       THEN /\ pc' = "copy" /\ left' = IF rest >= Max THEN Max ELSE rest
            /\ UNCHANGED <<rest, back>>
       ELSE IF call.kind = "payload" /\ rest >= Max
       THEN /\ pc' = "header" /\ left' = Header
            /\ rest' = rest - Max
            /\ UNCHANGED back
       ELSE /\ IF call.then = "flush" THEN GoFlush("answer")
                                      ELSE pc' = "answer" /\ UNCHANGED back
            /\ UNCHANGED <<left, rest>>
    /\ UNCHANGED <<buffer, call, ClientConnectionLost, ends>>

-----------------------------------------------------------------------------
(* The client receives the n bytes at sendStart.                           *)
Receive(n) ==
    IF /\ got # Garbled
       /\ \A i \in sendStart .. sendStart + n - 1 :
            WBuff[i] = got + 1 + (i - sendStart)
    THEN got + n ELSE Garbled

(* Mutant: the bytes sent are not skipped.                                 *)
SecureWriteAgain(n) ==
    /\ pc = "flush" /\ n \in 1 .. writePointer - sendStart
    /\ got' = IF ClientConnectionLost = 1 THEN got ELSE Receive(n)
    /\ IF sendStart + n = writePointer THEN sendStart' = writePointer
                                       ELSE UNCHANGED sendStart
    /\ UNCHANGED <<WBuff, writePointer, pc, call, left, rest, back,
                   ClientConnectionLost, handed>>

(* flushWBuff: secure_write sends n bytes.                                 *)
SecureWrite(n) ==
    /\ pc = "flush" /\ n \in 1 .. writePointer - sendStart
    /\ got' = IF ClientConnectionLost = 1 THEN got ELSE Receive(n)
    /\ sendStart' = sendStart + n
    /\ UNCHANGED <<WBuff, writePointer, pc, call, left, rest, back,
                   ClientConnectionLost, handed>>

(* All has been sent.                                                      *)
FlushEnd ==
    /\ pc = "flush" /\ sendStart = writePointer
    /\ sendStart' = 0 /\ writePointer' = 0
    /\ pc' = back
    /\ UNCHANGED <<WBuff, call, left, rest, back, ClientConnectionLost, ends>>

(* secure_write returns 0.  What was not sent is dropped; the caller gets  *)
(* EOF.  One that wanted a place in the buffer goes on without one,        *)
(* finishWriteToBufFlush ends the process, the others raise an error.      *)
SecureWriteZero ==
    /\ pc = "flush" /\ sendStart < writePointer
    /\ sendStart' = 0 /\ writePointer' = 0
    /\ ClientConnectionLost' = 1
    /\ pc' = IF back = "assemble" \/ (back = "answer" /\ call.kind = "packet")
             THEN "gone" ELSE "error"
    /\ UNCHANGED <<WBuff, call, left, rest, back, ends>>

(* secure_write fails, or the process is told to end while it waits.       *)
SecureWriteFails ==
    /\ pc = "flush" /\ sendStart < writePointer
    /\ pc' = "gone"
    /\ UNCHANGED <<buffer, call, left, rest, back, ClientConnectionLost, ends>>

(* sendErrPacket, from the error handler of PostgresMain.                  *)
SendErrPacket(n) ==
    /\ pc = "error"
    /\ pc' = "reserve"
    /\ call' = [kind |-> "packet", len |-> n, then |-> "flush"]
    /\ UNCHANGED <<buffer, left, rest, back, ClientConnectionLost, ends>>

Answer ==
    \/ \E c \in Calls : Call(c)
    \/ AnswerEnd \/ GetWriteBuf \/ Assemble \/ Finish \/ WriteBytes \/ Written
    \/ \E n \in 1 .. WBuffSize : SecureWrite(n)
    \/ FlushEnd \/ SecureWriteZero \/ SecureWriteFails
    \/ \E n \in Pieces : SendErrPacket(n)

Next == Begin \/ Answer

Spec == Init /\ [][Next]_vars

(* The backend comes to the next call of an answer it has begun, or to its *)
(* end; a client that waits for the answer takes it or is gone.            *)
FairSpec == Spec /\ WF_vars(Answer)

-----------------------------------------------------------------------------
(* Properties.                                                             *)

Places == {"read", "answer", "reserve", "assemble", "header", "copy", "finish",
           "flush", "error", "gone"}

(* The types; the pointers never leave the buffer.                         *)
TypeOK ==
    /\ WBuff \in [0 .. WBuffSize - 1 -> Nat]
    /\ writePointer \in 0 .. WBuffSize
    /\ sendStart \in 0 .. writePointer
    /\ pc \in Places
    /\ call \in Calls \cup {NoCall}
    /\ left \in Nat /\ rest \in Nat
    /\ back \in {"assemble", "header", "copy", "answer"}
    /\ ClientConnectionLost \in {0, 1}
    /\ handed \in Nat
    /\ got \in Nat

(* What the connection is, seen as the stream of an answer.                *)
Gone == pc = "gone" \/ ClientConnectionLost = 1
Mode == IF Gone THEN "gone" ELSE IF pc = "read" THEN "read" ELSE "answer"

Stream == INSTANCE AnswerStream
          WITH mode <- Mode,
               handed <- IF Gone THEN 0 ELSE handed,
               delivered <- IF Gone THEN 0 ELSE got

(* The buffer keeps the promise of AnswerStream: whatever the sizes, the   *)
(* bytes assembled in place, copied in rounds and sent in parts arrive in  *)
(* order, and before the next command is read.                             *)
ImplementsStream == Stream!Spec

(* What was handed over does not stay in the buffer: a full buffer is sent *)
(* and written again, and a flush comes to its end.                        *)
CatchesUp == Stream!CatchesUp
=============================================================================
