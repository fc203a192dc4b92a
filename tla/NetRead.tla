------------------------------ MODULE NetRead ------------------------------
(***************************************************************************)
(* A session on the wire: netTransceiver.c under readCommand (adapter.c)   *)
(* and the loop of PostgresMain (tcop/postgres.c).                         *)
(*                                                                         *)
(* A command comes as packets of at most                                   *)
(* SINGLE_PACKET_MAX_PAYLOAD_LENGTH bytes, the last one shorter, numbered  *)
(* from 0; its answer goes on with the numbers.  The server knows where a  *)
(* packet ends only from the length in its header, so a header whose       *)
(* payload is not read leaves it in the middle of the stream.  The client  *)
(* is a correct one, which may send more than max_allowed_packet and may   *)
(* vanish between any two bytes.  A payload is modelled by its length.     *)
(***************************************************************************)
EXTENDS Naturals, Sequences

CONSTANTS
    SINGLE_PACKET_MAX_PAYLOAD_LENGTH,
    max_allowed_packet,
    MaxAllocSize,   \* what PostgreSQL allocates at most in one piece
    Offset,         \* inBuf->offset: where readCommand begins in its buffer
    SeqIds,         \* 256: the sequence number is one byte
    Lens,           \* bound: the lengths of commands
    MaxReply,       \* bound: the packets of an answer
    MaxWire         \* bound: the packets in flight

Max == SINGLE_PACKET_MAX_PAYLOAD_LENGTH

(* A command that is not refused has fewer packets than there are          *)
(* numbers: max_allowed_packet is at most 1 GB (guc.c), which is one byte  *)
(* more than MaxAllocSize.                                                 *)
ASSUME NetAssumption ==
    /\ Max \in Nat \ {0}
    /\ max_allowed_packet \in Nat
    /\ MaxAllocSize \in Nat /\ Offset \in Nat
    /\ SeqIds \in Nat \ {0}
    /\ max_allowed_packet < (SeqIds - 1) * Max
    /\ Lens \subseteq Nat \ {0}
    /\ MaxReply \in Nat \ {0} /\ MaxWire \in Nat

VARIABLES
    client,         \* the client: "idle", "sending", "draining" (sending what
                    \* was answered already), "waiting" or "gone"
    size,           \* the length of its current command
    left,           \* how much of it is not sent
    seq,            \* the number of its next packet, or of the next it expects
    wire,           \* packets the client sent and the server has not read
    server,         \* where PostgresMain is; "body" and "nextBody", a header
                    \* has been read, "next", another header has to be
    netPacketSeqID,
    inLen,          \* inBuf->len
    replied,        \* packets of the current answer
    seen            \* history: "refused", a command was too long;
                    \* "lost", the server reads a payload as a header

vars == <<client, size, left, seq, wire, server, netPacketSeqID, inLen,
          replied, seen>>

clientVars == <<client, size, left, seq>>

Packets == [len : 0..Max, id : 0..SeqIds - 1, whole : BOOLEAN]

TypeOK ==
    /\ client \in {"idle", "sending", "draining", "waiting", "gone"}
    /\ size \in Nat /\ left \in Nat
    /\ seq \in 0..SeqIds - 1
    /\ wire \in Seq(Packets)
    /\ server \in {"idle", "body", "next", "nextBody", "command", "error",
                   "gone"}
    /\ netPacketSeqID \in 0..SeqIds - 1
    /\ inLen \in 0..max_allowed_packet
    /\ replied \in 0..MaxReply
    /\ seen \subseteq {"refused", "lost"}

Init ==
    /\ client = "idle"
    /\ size = 0 /\ left = 0 /\ seq = 0
    /\ wire = <<>>
    /\ server = "idle"
    /\ netPacketSeqID = 0
    /\ inLen = 0
    /\ replied = 0
    /\ seen = {}

-----------------------------------------------------------------------------
(* The client (external).                                                  *)

NewCommand(n) ==
    /\ client = "idle"
    /\ client' = "sending"
    /\ size' = n /\ left' = n
    /\ seq' = 0
    /\ UNCHANGED <<wire, server, netPacketSeqID, inLen, replied, seen>>

(* The next packet; one shorter than the maximum, if only an empty one, is *)
(* the last.  Cut: the client vanishes in the middle of its payload.       *)
SendPacket(whole) ==
    /\ client \in {"sending", "draining"}
    /\ Len(wire) < MaxWire
    /\ LET n == IF left < Max THEN left ELSE Max
       IN  /\ whole \/ n > 0
           /\ wire' = Append(wire, [len |-> n, id |-> seq, whole |-> whole])
           /\ left' = IF whole THEN left - n ELSE left
           /\ client' = IF ~whole THEN "gone"
                        ELSE IF n = Max THEN client
                        ELSE IF client = "sending" THEN "waiting" ELSE "idle"
    /\ seq' = (seq + 1) % SeqIds
    /\ UNCHANGED <<size, server, netPacketSeqID, inLen, replied, seen>>

Vanish ==
    /\ client # "gone"
    /\ client' = "gone"
    /\ UNCHANGED <<size, left, seq, wire, server, netPacketSeqID, inLen,
                   replied, seen>>

-----------------------------------------------------------------------------
(* readPayload and readAndProcessPacket.                                   *)

Head1 == wire[1]
Reading == server \in {"idle", "next"}
Eof == wire = <<>> /\ client = "gone"

(* readPayload numbers a command from 0, and empties the buffer.           *)
Expected == IF server = "idle" THEN 0 ELSE netPacketSeqID
Buffered == IF server = "idle" THEN 0 ELSE inLen

TooLong(len) == Buffered + len > max_allowed_packet

(* readAndProcessPacketHeader and the test of the length behind it.  Both  *)
(* errors leave the payload on the wire.                                   *)
ReadHeader ==
    /\ Reading
    /\ "lost" \notin seen
    /\ wire # <<>>
    /\ LET bad == Head1.id # Expected
           refuse == ~bad /\ TooLong(Head1.len)
       IN  /\ netPacketSeqID' = IF bad THEN Expected ELSE Expected + 1
           /\ server' = IF bad \/ refuse THEN "error"
                        ELSE IF server = "idle" THEN "body" ELSE "nextBody"
           /\ seen' = seen \cup (IF refuse THEN {"refused"} ELSE {})
                           \cup (IF bad \/ refuse THEN {"lost"} ELSE {})
    /\ inLen' = Buffered
    /\ replied' = 0
    /\ UNCHANGED <<clientVars, wire>>

(* readBytes meets the end of the stream: readPayload raises an error.     *)
ReadHeaderEof ==
    /\ Reading
    /\ Eof
    /\ server' = "error"
    /\ netPacketSeqID' = Expected
    /\ inLen' = Buffered
    /\ replied' = 0
    /\ UNCHANGED <<clientVars, wire, seen>>

(* A part of a payload is taken for a header: anything may come of it.     *)
ReadLost ==
    /\ Reading
    /\ "lost" \in seen
    /\ ~Eof
    /\ server' \in {"error", "command"}
    /\ \E k \in 0..Len(wire) : wire' = SubSeq(wire, k + 1, Len(wire))
    /\ netPacketSeqID' = 0
    /\ inLen' = 0
    /\ replied' = 0
    /\ UNCHANGED <<clientVars, seen>>

(* Mutant: the length is counted before the bytes have come.               *)
ReceivedEarly(p) == inLen + p.len

(* readPacketPayload: what is in the buffer when it returns.               *)
Received(p) == IF p.whole THEN inLen + p.len ELSE inLen

(* The result of readPacketPayload is looked at in all packets but the     *)
(* first.                                                                  *)
ReadBody ==
    /\ server \in {"body", "nextBody"}
    /\ Offset + inLen + Head1.len <= MaxAllocSize
    /\ inLen' = Received(Head1)
    /\ server' = IF server = "nextBody" /\ ~Head1.whole THEN "error"
                 ELSE IF Head1.len = Max THEN "next" ELSE "command"
    /\ wire' = Tail(wire)
    /\ UNCHANGED <<clientVars, netPacketSeqID, replied, seen>>

(* Mutant: what the buffer holds is counted twice, by the caller as well.  *)
NoRoomTwice(len) == Offset + 2 * inLen + len >= MaxAllocSize

(* enlargeStringInfo refuses.  At the limit itself it is not called if the *)
(* buffer is already as large as can be.                                   *)
NoRoom(len) == Offset + inLen + len >= MaxAllocSize

(* readPacketPayload cannot make the buffer large enough: an error, which  *)
(* leaves the payload on the wire.                                         *)
EnlargeFails ==
    /\ server \in {"body", "nextBody"}
    /\ NoRoom(Head1.len)
    /\ server' = "error"
    /\ seen' = seen \cup {"refused", "lost"}
    /\ UNCHANGED <<clientVars, wire, netPacketSeqID, inLen, replied>>

-----------------------------------------------------------------------------
(* Mutant: the number after the last is not 0.                             *)
NextSeqOff(id) == IF id <= SeqIds - 1 THEN id + 1 ELSE 0

(* Mutant: 0 is kept for commands.                                         *)
NextSeqFromOne(id) == IF id < SeqIds - 1 THEN id + 1 ELSE 1

(* writePacketHeaderNoFlush: the number of the packet after id.            *)
NextSeq(id) == IF id < SeqIds - 1 THEN id + 1 ELSE 0

(* The client gets the end of an answer.                                   *)
Answered == IF client = "waiting" THEN "idle"
            ELSE IF client = "sending" THEN "draining" ELSE client

(* One more packet of the answer.                                          *)
Reply(last) ==
    /\ server = "command"
    /\ last \/ replied + 1 < MaxReply
    /\ replied' = replied + 1
    /\ netPacketSeqID' = NextSeq(netPacketSeqID)
    /\ seq' = IF client = "waiting" THEN (seq + 1) % SeqIds ELSE seq
    /\ server' = IF last THEN "idle" ELSE "command"
    /\ client' = IF last THEN Answered ELSE client
    /\ UNCHANGED <<size, left, wire, inLen, seen>>

(* The error handler of PostgresMain: sendErrorMessage, and round again.   *)
(* is_reading_msg is NULL, and proc_exit behind an elog(ERROR) is not      *)
(* reached.                                                                *)
ErrorReply ==
    /\ server = "error"
    /\ server' = "idle"
    /\ netPacketSeqID' = NextSeq(netPacketSeqID)
    /\ client' = Answered
    /\ UNCHANGED <<size, left, seq, wire, inLen, replied, seen>>

(* Mutant: the failure is not looked at.                                   *)
WriteFailsIgnored ==
    /\ server \in {"command", "error"}
    /\ client = "gone"
    /\ server' = "idle"
    /\ UNCHANGED <<clientVars, wire, netPacketSeqID, inLen, replied, seen>>

(* flushWBuff: a write to a client that has gone fails, and the process    *)
(* exits.                                                                  *)
WriteFails ==
    /\ server \in {"command", "error"}
    /\ client = "gone"
    /\ server' = "gone"
    /\ UNCHANGED <<clientVars, wire, netPacketSeqID, inLen, replied, seen>>

Client ==
    \/ \E n \in Lens : NewCommand(n)
    \/ \E whole \in BOOLEAN : SendPacket(whole)
    \/ Vanish

Server ==
    \/ ReadHeader \/ ReadHeaderEof \/ ReadLost
    \/ ReadBody \/ EnlargeFails
    \/ \E last \in BOOLEAN : Reply(last)
    \/ ErrorReply \/ WriteFails

Next == Client \/ Server

Spec == Init /\ [][Next]_vars

(* A server process does not stop while it has something to read, to run   *)
(* or to write, and the writes to a client that has gone fail in the end.  *)
FairSpec == Spec /\ WF_vars(Server) /\ SF_vars(WriteFails)

-----------------------------------------------------------------------------
(* Properties.                                                             *)

(* processCommand gets the client's command whole, never a part of it nor  *)
(* two of them, unless a command was refused before: the client has sent   *)
(* it all, and the buffer has its length.  If the client vanished in the   *)
(* middle of a single packet, the buffer is empty, which readCommand takes *)
(* for SLEEP.                                                              *)
WholeCommands ==
    "lost" \notin seen /\ server = "command" =>
      \/ inLen = size /\ left = 0
      \/ inLen = 0 /\ client = "gone"

(* The numbers of the answer's packets are the ones the client expects:    *)
(* they go on from the command's, and wrap as it wraps them.               *)
AnswerInSequence ==
    "lost" \notin seen /\ server = "command" /\ client = "waiting" =>
      netPacketSeqID = seq

(* A command of max_allowed_packet bytes or fewer that fits in a buffer is *)
(* not refused, in however many packets it comes, nor does a packet of it  *)
(* ever have an unexpected number.  The largest limits guc.c allows are    *)
(* larger than a buffer can be.                                            *)
RefusedOnlyTooLong ==
    [][seen = {} /\ seen' # {} =>
         \/ size > max_allowed_packet
         \/ Offset + size >= MaxAllocSize]_vars

(* The process of a client that has gone ends.                             *)
SessionEnds == client = "gone" ~> server = "gone"
=============================================================================
