--------------------------- MODULE NetReadProofs ---------------------------
(***************************************************************************)
(* NetRead for packets of any size, any max_allowed_packet below what the  *)
(* numbers of the packets can count, and commands of any length: the       *)
(* server gets whole commands, answers in sequence and refuses only what   *)
(* is too long.                                                            *)
(***************************************************************************)
EXTENDS NetRead, SequenceTheorems, TLAPS

(* Where the server is in a command's packets.                             *)
Receiving == server \in {"idle", "next", "body", "nextBody"}
InBody == server \in {"body", "nextBody"}

(* The number of the packet the server reads now or next.                  *)
Start == IF server = "idle" THEN 0
         ELSE IF server = "next" THEN netPacketSeqID ELSE netPacketSeqID - 1

Final == wire[Len(wire)]
Times(k) == k * Max

(* How much of the command the packets read and on the wire make up.       *)
Extent == Buffered + Times(Len(wire) - 1) + Final.len

(* The packets on the wire are those of one command, in order; only the    *)
(* final one may be short or cut.                                          *)
WireInv ==
    wire # <<>> =>
        /\ Head1.id = Start
        /\ \A i \in 1 .. Len(wire) - 1 :
             /\ wire[i].len = Max /\ wire[i].whole
             /\ wire[i + 1].id = (wire[i].id + 1) % SeqIds
        /\ seq = (Final.id + 1) % SeqIds

(* Together with what was read and what is left they make it up.           *)
ClientInv ==
    /\ client = "idle" => wire = <<>> /\ server = "idle"
    /\ client # "draining"
    /\ client = "sending" =>
         /\ wire = <<>> => Buffered + left = size /\ seq = Start
         /\ wire # <<>> => Extent + left = size /\ Final.len = Max /\ Final.whole
    /\ client = "waiting" =>
         wire # <<>> /\ Extent = size /\ left = 0 /\ Final.len < Max /\ Final.whole
    /\ client = "gone" /\ wire # <<>> =>
         /\ Extent <= size
         /\ Final.len < Max /\ Final.whole => Extent = size /\ left = 0

(* The server has counted what it has read, and has room for the packet    *)
(* whose header it has read.                                               *)
ServerInv ==
    /\ wire # <<>> \/ client # "gone" => Times(Start) = Buffered
    /\ server = "body" => inLen = 0
    /\ InBody => wire # <<>> /\ inLen + Head1.len <= max_allowed_packet
                 /\ netPacketSeqID > 0

CommandInv ==
    /\ wire = <<>>
    /\ \/ client = "waiting" /\ inLen = size /\ left = 0 /\ netPacketSeqID = seq
       \/ client = "gone" /\ ((inLen = size /\ left = 0) \/ inLen = 0)

IInv ==
    /\ TypeOK
    /\ server \in {"body", "next", "nextBody", "command"} => replied < MaxReply
    /\ "lost" \in seen => server \in {"idle", "error", "command", "gone"}
    /\ "lost" \notin seen =>
         /\ Receiving => WireInv /\ ClientInv /\ ServerInv
         /\ server = "command" => CommandInv
         /\ server = "error" => wire = <<>> /\ client = "gone"
-----------------------------------------------------------------------------
(* Full packets add up.                                                    *)
LEMMA TimesFacts ==
    /\ Times(0) = 0
    /\ \A k \in Nat : Times(k) \in Nat /\ Times(k + 1) = Times(k) + Max
<1>1. Max \in Nat
    BY NetAssumption
<1>2. \A k, m \in Nat : k * m \in Nat /\ (k + 1) * m = k * m + m /\ 0 * m = 0
    OBVIOUS
<1> QED
    BY <1>1, <1>2 DEF Times

LEMMA TimesLess ==
    ASSUME NEW k \in Nat, k >= 1
    PROVE  Times(k - 1) \in Nat /\ Times(k) = Times(k - 1) + Max
<1> DEFINE j == k - 1
<1>1. j \in Nat /\ j + 1 = k
    OBVIOUS
<1>2. Times(j) \in Nat /\ Times(j + 1) = Times(j) + Max
    BY <1>1, TimesFacts
<1> QED
    BY <1>1, <1>2

(* A command that may be buffered has fewer packets than there are numbers. *)
LEMMA FewPackets ==
    ASSUME NEW k \in Nat, Times(k) <= max_allowed_packet
    PROVE  k < SeqIds - 1
<1>1. \A a, m, s, b \in Nat : m > 0 /\ a * m <= b /\ b < (s - 1) * m => a < s - 1
    OBVIOUS
<1>2. Max \in Nat /\ Max > 0 /\ SeqIds \in Nat /\ max_allowed_packet \in Nat
      /\ max_allowed_packet < (SeqIds - 1) * Max
    BY NetAssumption
<1> HIDE DEF Max
<1> QED
    BY <1>1, <1>2 DEF Times

(* The numbers of the packets.                                             *)
LEMMA Ids ==
    /\ \A a \in 0 .. SeqIds - 1 : (a + 1) % SeqIds \in 0 .. SeqIds - 1
    /\ \A a \in Nat : a < SeqIds - 1 => (a + 1) % SeqIds = a + 1
    /\ \A a \in 0 .. SeqIds - 1 : NextSeq(a) = (a + 1) % SeqIds
<1>1. SeqIds \in Nat \ {0}
    BY NetAssumption
<1>2. \A a \in 0 .. SeqIds - 1 : (a + 1) % SeqIds \in 0 .. SeqIds - 1
    BY <1>1
<1>3. \A a \in Nat : a < SeqIds - 1 => (a + 1) % SeqIds = a + 1
    BY <1>1
<1>4. SeqIds % SeqIds = 0
    BY <1>1
<1>5. \A a \in 0 .. SeqIds - 1 : NextSeq(a) = (a + 1) % SeqIds
  <2> SUFFICES ASSUME NEW a \in 0 .. SeqIds - 1  PROVE NextSeq(a) = (a + 1) % SeqIds
    OBVIOUS
  <2>1. CASE a < SeqIds - 1
    BY <2>1, <1>1, <1>3 DEF NextSeq
  <2>2. CASE a = SeqIds - 1
    BY <2>2, <1>1, <1>4 DEF NextSeq
  <2> QED
    BY <1>1, <2>1, <2>2
<1> QED
    BY <1>2, <1>3, <1>5

(* The wire as a sequence.                                                 *)
LEMMA WireFacts ==
    ASSUME wire \in Seq(Packets)
    PROVE  /\ Len(wire) \in Nat
           /\ wire # <<>> <=> Len(wire) >= 1
           /\ \A i \in 1 .. Len(wire) :
                wire[i].len \in 0 .. Max /\ wire[i].id \in 0 .. SeqIds - 1
                /\ wire[i].whole \in BOOLEAN
<1>1. Len(wire) \in Nat /\ (wire # <<>> => Len(wire) >= 1)
    BY EmptySeq
<1>2. Len(wire) >= 1 => wire # <<>>
    BY EmptySeq
<1>3. ASSUME NEW i \in 1 .. Len(wire)
      PROVE  wire[i] \in Packets
    BY <1>3, ElementOfSeq
<1>4. \A q \in Packets : q.len \in 0 .. Max /\ q.id \in 0 .. SeqIds - 1
                         /\ q.whole \in BOOLEAN
    BY DEF Packets
<1> QED
    BY <1>1, <1>2, <1>3, <1>4

LEMMA AppendFacts ==
    ASSUME wire \in Seq(Packets), NEW p \in Packets, wire' = Append(wire, p)
    PROVE  /\ wire' \in Seq(Packets) /\ wire' # <<>>
           /\ Len(wire') = Len(wire) + 1 /\ wire'[Len(wire')] = p
           /\ \A i \in 1 .. Len(wire) : wire'[i] = wire[i]
BY SMT

LEMMA TailFacts ==
    ASSUME wire \in Seq(Packets), wire # <<>>, wire' = Tail(wire)
    PROVE  /\ wire' \in Seq(Packets)
           /\ Len(wire') = Len(wire) - 1
           /\ \A i \in 1 .. Len(wire) - 1 : wire'[i] = wire[i + 1]
           /\ wire' # <<>> <=> Len(wire) > 1
<1>1. /\ wire' \in Seq(Packets) /\ Len(wire') = Len(wire) - 1 /\ Len(wire) \in Nat
      /\ \A i \in 1 .. Len(wire') : wire'[i] = wire[i + 1]
    BY HeadTailProperties, LenProperties
<1>2. Len(wire') \in Nat
    BY <1>1, LenProperties
<1>3. wire' # <<>> => Len(wire') >= 1
    BY <1>1, EmptySeq
<1>4. Len(<<>>) = 0 /\ (wire' = <<>> => Len(wire') = Len(<<>>))
    OBVIOUS
<1> QED
    BY <1>1, <1>2, <1>3, <1>4

LEMMA OneOrMore == \A k \in Nat : k >= 1 => k = 1 \/ k > 1
OBVIOUS

(* A packet that others follow is a full one.                              *)
LEMMA FirstFull ==
    ASSUME WireInv, wire # <<>>, Len(wire) \in Nat, Len(wire) > 1
    PROVE  Head1.len = Max /\ Head1.whole
<1>1. \A i \in 1 .. Len(wire) - 1 : wire[i].len = Max /\ wire[i].whole
    BY Zenon DEF WireInv
<1>2. 1 \in 1 .. Len(wire) - 1
    OBVIOUS
<1> QED
    BY <1>1, <1>2, Zenon DEF Head1

(* The constants.                                                          *)
LEMMA Sizes ==
    /\ Max \in Nat /\ Max > 0 /\ SeqIds \in Nat /\ SeqIds > 0
    /\ max_allowed_packet \in Nat /\ MaxReply \in Nat /\ MaxReply > 0
    /\ \A n \in Lens : n \in Nat
BY NetAssumption

(* The first packet on the wire is a part of the command.                  *)
LEMMA HeadFits ==
    ASSUME IInv, Receiving, "lost" \notin seen, wire # <<>>
    PROVE  Buffered + Head1.len <= size
<1>1. WireInv /\ ClientInv
    BY DEF IInv
<1>2. Buffered \in Nat /\ size \in Nat /\ left \in Nat
    BY Sizes DEF Buffered, IInv, TypeOK
<1>3. /\ Len(wire) \in Nat /\ Len(wire) >= 1 /\ Head1.len \in 0 .. Max
      /\ Final.len \in 0 .. Max
    BY WireFacts DEF IInv, TypeOK, Head1, Final
<1>4. Extent \in Nat
  <2>1. Times(Len(wire) - 1) \in Nat
    BY <1>3, TimesLess
  <2> QED
    BY <2>1, <1>2, <1>3 DEF Extent
<1>5. Buffered + Head1.len <= Extent
  <2>1. CASE Len(wire) = 1
    <3>1. Head1 = Final /\ Len(wire) - 1 = 0
      BY <2>1 DEF Head1, Final
    <3>2. Times(Len(wire) - 1) = 0
      BY <3>1, TimesFacts
    <3> QED
      BY <3>1, <3>2, <1>2, <1>3 DEF Extent
  <2>2. CASE Len(wire) > 1
    <3>1. Head1.len = Max
      BY <1>1, <1>3, <2>2, FirstFull
    <3>2. /\ Times(Len(wire) - 2) \in Nat
          /\ Times(Len(wire) - 1) = Times(Len(wire) - 2) + Max
      BY <1>3, <2>2, TimesLess
    <3> QED
      BY <3>1, <3>2, <1>2, <1>3, Sizes DEF Extent
  <2> QED
    BY <2>1, <2>2, <1>3, OneOrMore, Zenon
<1>6. Extent <= size
    BY <1>1, <1>2, <1>4 DEF ClientInv, IInv, TypeOK
<1> QED
    BY <1>2, <1>3, <1>4, <1>5, <1>6, Sizes

(* What may be refused.                                                    *)
Refusable == size > max_allowed_packet \/ Offset + size >= MaxAllocSize

-----------------------------------------------------------------------------
(* A new command begins with nothing on the wire.                          *)
LEMMA NewCommandStep ==
    ASSUME IInv, NEW n \in Lens, NewCommand(n)
    PROVE  IInv'
<1>1. /\ client = "idle" /\ client' = "sending" /\ size' = n /\ left' = n /\ seq' = 0
      /\ UNCHANGED <<wire, server, netPacketSeqID, inLen, replied, seen>> /\ n \in Nat
    BY Sizes DEF NewCommand
<1>2. TypeOK'
    BY <1>1, Sizes DEF IInv, TypeOK
<1>3. ASSUME "lost" \notin seen, Receiving
      PROVE  WireInv' /\ ClientInv' /\ ServerInv'
  <2>1. wire = <<>> /\ server = "idle"
    BY <1>1, <1>3 DEF IInv, ClientInv
  <2>2. Start' = 0 /\ Buffered' = 0
    BY <1>1, <2>1 DEF Start, Buffered
  <2> QED
    BY <1>1, <2>1, <2>2, TimesFacts DEF WireInv, ClientInv, ServerInv, InBody
<1>4. "lost" \notin seen => server \notin {"command", "error"}
    BY <1>1 DEF IInv, CommandInv
<1> QED
    BY <1>1, <1>2, <1>3, <1>4 DEF IInv, Receiving

(* Another packet, the last or not, whole or cut.                          *)
LEMMA SendPacketStep ==
    ASSUME IInv, NEW whole \in BOOLEAN, SendPacket(whole)
    PROVE  IInv'
<1> DEFINE n == IF left < Max THEN left ELSE Max
           p == [len |-> n, id |-> seq, whole |-> whole]
<1>1. /\ client \in {"sending", "draining"} /\ wire' = Append(wire, p)
      /\ left' = IF whole THEN left - n ELSE left
      /\ client' = IF ~whole THEN "gone"
                   ELSE IF n = Max THEN client
                   ELSE IF client = "sending" THEN "waiting" ELSE "idle"
      /\ seq' = (seq + 1) % SeqIds
      /\ UNCHANGED <<size, server, netPacketSeqID, inLen, replied, seen>>
    BY DEF SendPacket
<1>n. /\ n \in 0 .. Max /\ n <= left /\ left - n \in Nat /\ (n < Max => n = left)
      /\ left \in Nat /\ size \in Nat /\ seq \in 0 .. SeqIds - 1
    BY Sizes DEF IInv, TypeOK
<1>p. p \in Packets /\ p.len = n /\ p.id = seq /\ p.whole = whole
    BY <1>n DEF Packets
<1> HIDE DEF n, p
<1>w. wire \in Seq(Packets)
    BY DEF IInv, TypeOK
<1>a. /\ wire' \in Seq(Packets) /\ wire' # <<>>
      /\ Len(wire') = Len(wire) + 1 /\ wire'[Len(wire')] = p
      /\ \A i \in 1 .. Len(wire) : wire'[i] = wire[i]
    BY <1>1, <1>p, <1>w, AppendFacts
<1>2. TypeOK'
  <2>1. seq' \in 0 .. SeqIds - 1
    BY <1>1, <1>n, Ids
  <2>2. left' \in Nat /\ client' \in {"idle", "sending", "draining", "waiting", "gone"}
    BY <1>1, <1>n
  <2> QED
    BY <1>1, <1>a, <2>1, <2>2 DEF IInv, TypeOK
<1>3. ASSUME "lost" \notin seen, Receiving
      PROVE  WireInv' /\ ClientInv' /\ ServerInv'
  <2>1. WireInv /\ ClientInv /\ ServerInv /\ client = "sending"
    BY <1>1, <1>3 DEF IInv, ClientInv
  <2>2. Start' = Start /\ Buffered' = Buffered /\ Buffered \in Nat
    BY <1>1 DEF Start, Buffered, IInv, TypeOK
  <2>f. Len(wire) \in Nat /\ (wire # <<>> <=> Len(wire) >= 1)
    BY <1>w, WireFacts
  <2>3. Final' = p /\ Extent' = Buffered + Times(Len(wire)) + n
    BY <1>a, <1>p, <2>2, <2>f DEF Final, Extent
  <2>4. Extent' + (left - n) = size /\ Times(Len(wire)) \in Nat
    <3>1. Times(Len(wire)) \in Nat
      BY <2>f, TimesFacts
    <3>2. CASE wire = <<>>
      <4>1. Len(wire) = 0 /\ Times(Len(wire)) = 0
        BY <3>2, <2>f, TimesFacts
      <4>2. Buffered + left = size
        BY <3>2, <2>1 DEF ClientInv
      <4> QED
        BY <4>1, <4>2, <2>2, <2>3, <1>n
    <3>3. CASE wire # <<>>
      <4>1. Times(Len(wire)) = Times(Len(wire) - 1) + Max /\ Times(Len(wire) - 1) \in Nat
        BY <3>3, <2>f, TimesLess
      <4>2. Extent + left = size /\ Final.len = Max
        BY <3>3, <2>1 DEF ClientInv
      <4> QED
        BY <4>1, <4>2, <2>2, <2>3, <1>n, Sizes DEF Extent
    <3> QED
      BY <3>1, <3>2, <3>3
  <2>5. WireInv'
    <3>1. Head1'.id = Start'
      <4>1. CASE wire = <<>>
        BY <4>1, <1>a, <1>p, <2>1, <2>2, <2>f DEF Head1, ClientInv
      <4>2. CASE wire # <<>>
        BY <4>2, <1>a, <2>1, <2>2, <2>f DEF Head1, WireInv
      <4> QED
        BY <4>1, <4>2
    <3>2. ASSUME NEW i \in 1 .. Len(wire') - 1
          PROVE  /\ wire'[i].len = Max /\ wire'[i].whole
                 /\ wire'[i + 1].id = (wire'[i].id + 1) % SeqIds
      <4>1. i \in 1 .. Len(wire) /\ wire # <<>> /\ wire'[i] = wire[i]
        BY <3>2, <1>a, <2>f
      <4>2. CASE i = Len(wire)
        BY <4>1, <4>2, <1>a, <1>p, <2>1, <2>f DEF WireInv, ClientInv, Final
      <4>3. CASE i # Len(wire)
        BY <4>1, <4>3, <1>a, <2>1, <2>f DEF WireInv
      <4> QED
        BY <4>2, <4>3
    <3>3. seq' = (Final'.id + 1) % SeqIds
      BY <1>1, <1>p, <2>3
    <3> QED
      BY <3>1, <3>2, <3>3 DEF WireInv
  <2>6. ClientInv'
    <3>1. CASE ~whole
      <4>1. client' = "gone" /\ size' = size /\ ~Final'.whole
        BY <3>1, <1>1, <1>p, <2>3
      <4>2. Extent' <= size
        BY <1>n, <2>2, <2>3, <2>4
      <4> QED
        BY <4>1, <4>2 DEF ClientInv
    <3>2. CASE whole /\ n = Max
      BY <3>2, <1>1, <1>a, <1>n, <1>p, <2>1, <2>3, <2>4 DEF ClientInv
    <3>3. CASE whole /\ n # Max
      <4>1. client' = "waiting" /\ left' = 0 /\ n < Max /\ left = n
        BY <3>3, <1>1, <1>n, <2>1, Sizes
      <4>2. Extent' = size /\ size' = size
        BY <4>1, <1>1, <1>n, <2>2, <2>3, <2>4
      <4>3. Final'.len < Max /\ Final'.whole
        BY <3>3, <4>1, <1>p, <2>3
      <4> QED
        BY <4>1, <4>2, <4>3, <1>a DEF ClientInv
    <3> QED
      BY <3>1, <3>2, <3>3
  <2>7. ServerInv'
    <3>1. Times(Start) = Buffered
      BY <2>1 DEF ServerInv
    <3>2. Times(Start)' = Times(Start')
      BY DEF Times
    <3>3. InBody => wire # <<>> /\ Head1' = Head1
      BY <1>a, <2>1, <2>f DEF Head1, ServerInv
    <3> QED
      BY <3>1, <3>2, <3>3, <1>1, <1>a, <2>1, <2>2 DEF ServerInv, InBody
  <2> QED
    BY <2>5, <2>6, <2>7
<1>4. "lost" \notin seen => server \notin {"command", "error"}
    BY <1>1 DEF IInv, CommandInv
<1> QED
    BY <1>1, <1>2, <1>3, <1>4 DEF IInv, Receiving

(* The client goes: what it has sent stays on the wire.                    *)
LEMMA VanishStep ==
    ASSUME IInv, Vanish
    PROVE  IInv'
<1>1. /\ client' = "gone"
      /\ UNCHANGED <<size, left, seq, wire, server, netPacketSeqID, inLen, replied, seen>>
    BY DEF Vanish
<1>2. TypeOK'
    BY <1>1 DEF IInv, TypeOK
<1>3. ASSUME "lost" \notin seen, Receiving
      PROVE  WireInv' /\ ClientInv' /\ ServerInv'
  <2>1. WireInv /\ ClientInv /\ ServerInv
    BY <1>3 DEF IInv
  <2>2. /\ Start' = Start /\ Buffered' = Buffered /\ Final' = Final /\ Head1' = Head1
        /\ Extent' = Extent
    BY <1>1 DEF Start, Buffered, Final, Head1, Extent
  <2>3. WireInv'
    BY <1>1, <2>1, <2>2 DEF WireInv
  <2>4. wire # <<>> => Extent \in Nat /\ Final.len \in 0 .. Max
    <3> SUFFICES ASSUME wire # <<>>  PROVE Extent \in Nat /\ Final.len \in 0 .. Max
      OBVIOUS
    <3>1. Len(wire) \in Nat /\ Len(wire) >= 1 /\ Final.len \in 0 .. Max
      BY WireFacts DEF IInv, TypeOK, Final
    <3>2. Times(Len(wire) - 1) \in Nat
      BY <3>1, TimesLess
    <3>3. Buffered \in Nat
      BY Sizes DEF Buffered, IInv, TypeOK
    <3> QED
      BY <3>1, <3>2, <3>3, Sizes DEF Extent
  <2>5. ClientInv'
    BY <1>1, <2>1, <2>2, <2>4, Sizes DEF ClientInv, IInv, TypeOK
  <2>6. ServerInv'
    BY <1>1, <2>1, <2>2 DEF ServerInv, InBody, Times
  <2> QED
    BY <2>3, <2>5, <2>6
<1>4. "lost" \notin seen /\ server = "command" => CommandInv'
    BY <1>1 DEF IInv, CommandInv
<1> QED
    BY <1>1, <1>2, <1>3, <1>4 DEF IInv, Receiving

(* A header is read: it has the expected number.                           *)
LEMMA ReadHeaderStep ==
    ASSUME IInv, ReadHeader
    PROVE  IInv' /\ (seen = {} /\ seen' # {} => Refusable)
<1>1. /\ server \in {"idle", "next"} /\ "lost" \notin seen /\ wire # <<>>
      /\ inLen' = Buffered /\ replied' = 0
      /\ UNCHANGED <<client, size, left, seq, wire>>
    BY DEF ReadHeader, Reading, clientVars
<1>2. WireInv /\ ClientInv /\ ServerInv /\ Start = Expected
    BY <1>1 DEF IInv, Receiving, Start, Expected
<1>3. Head1.id = Expected
    BY <1>1, <1>2 DEF WireInv
<1>4. /\ netPacketSeqID' = Expected + 1
      /\ \/ /\ TooLong(Head1.len) /\ server' = "error"
            /\ seen' = seen \cup {"refused", "lost"}
         \/ /\ ~TooLong(Head1.len) /\ seen' = seen
            /\ server' = IF server = "idle" THEN "body" ELSE "nextBody"
    BY <1>3 DEF ReadHeader
<1>b. Buffered \in 0 .. max_allowed_packet /\ Expected \in Nat
    BY Sizes DEF Buffered, Expected, IInv, TypeOK
<1>5. Expected + 1 \in 0 .. SeqIds - 1
  <2>1. Times(Expected) <= max_allowed_packet
    BY <1>1, <1>2, <1>b, Sizes DEF ServerInv
  <2> QED
    BY <2>1, <1>b, FewPackets, Sizes
<1>6. TypeOK'
  <2>1. replied' \in 0 .. MaxReply /\ inLen' \in 0 .. max_allowed_packet
        /\ netPacketSeqID' \in 0 .. SeqIds - 1
    BY <1>1, <1>4, <1>5, <1>b, Sizes
  <2>2. server' \in {"body", "nextBody", "error"}
    BY <1>4
  <2>3. seen' \subseteq {"refused", "lost"}
    BY <1>4 DEF IInv, TypeOK
  <2> QED
    BY <1>1, <2>1, <2>2, <2>3 DEF IInv, TypeOK
<1>w. /\ Len(wire) \in Nat /\ Len(wire) >= 1 /\ Head1.len \in 0 .. Max
      /\ Final.len \in 0 .. Max
    BY <1>1, WireFacts DEF IInv, TypeOK, Head1, Final
<1>7. CASE TooLong(Head1.len) /\ server' = "error" /\ seen' = seen \cup {"refused", "lost"}
  <2>1. Buffered + Head1.len <= size
    BY <1>1, HeadFits DEF Receiving
  <2>2. size > max_allowed_packet
    BY <1>7, <1>b, <1>w, <2>1, Sizes DEF TooLong, IInv, TypeOK
  <2> QED
    BY <1>1, <1>6, <1>7, <2>2 DEF IInv, Refusable
<1>8. CASE /\ ~TooLong(Head1.len) /\ seen' = seen
           /\ server' = IF server = "idle" THEN "body" ELSE "nextBody"
  <2>1. /\ Start' = Start /\ Buffered' = Buffered /\ Final' = Final /\ Head1' = Head1
        /\ Extent' = Extent
    <3>1. Start' = Start /\ Buffered' = Buffered
      BY <1>1, <1>2, <1>4, <1>8, <1>b DEF Start, Buffered
    <3> QED
      BY <1>1, <3>1 DEF Final, Head1, Extent
  <2>2. WireInv'
    BY <1>1, <1>2, <2>1 DEF WireInv
  <2>3. ClientInv'
    BY <1>1, <1>2, <1>8, <2>1 DEF ClientInv
  <2>4. ServerInv'
    <3>1. Times(Start') = Buffered'
      BY <1>1, <1>2, <2>1 DEF ServerInv
    <3>2. server' = "body" => inLen' = 0
      BY <1>1, <1>8 DEF Buffered
    <3>3. inLen' + Head1'.len <= max_allowed_packet
      BY <1>1, <1>8, <1>b, <1>w, <2>1, Sizes DEF TooLong
    <3>4. netPacketSeqID' > 0
      BY <1>4, <1>b
    <3>5. wire' # <<>>
      BY <1>1
    <3> QED
      BY <3>1, <3>2, <3>3, <3>4, <3>5 DEF ServerInv, Times
  <2> QED
    BY <1>1, <1>6, <1>8, <2>2, <2>3, <2>4, Sizes DEF IInv, Receiving
<1> QED
    BY <1>4, <1>7, <1>8

(* A payload is read; the command is complete after a short one.           *)
LEMMA ReadBodyStep ==
    ASSUME IInv, ReadBody
    PROVE  IInv'
<1>1. /\ server \in {"body", "nextBody"} /\ inLen' = Received(Head1)
      /\ server' = IF server = "nextBody" /\ ~Head1.whole THEN "error"
                   ELSE IF Head1.len = Max THEN "next" ELSE "command"
      /\ wire' = Tail(wire)
      /\ UNCHANGED <<client, size, left, seq, netPacketSeqID, replied, seen>>
    BY DEF ReadBody, clientVars
<1>2. "lost" \notin seen /\ WireInv /\ ClientInv /\ ServerInv
    BY <1>1 DEF IInv, Receiving
<1>3. /\ wire # <<>> /\ inLen + Head1.len <= max_allowed_packet
      /\ netPacketSeqID > 0 /\ Start = netPacketSeqID - 1 /\ Buffered = inLen
      /\ client # "idle"
    BY <1>1, <1>2 DEF ServerInv, InBody, Start, Buffered, ClientInv
<1>t. /\ inLen \in Nat /\ netPacketSeqID \in 0 .. SeqIds - 1 /\ wire \in Seq(Packets)
      /\ size \in Nat /\ left \in Nat /\ Start \in Nat
      /\ client \in {"sending", "waiting", "gone"}
    BY <1>2, <1>3, Sizes DEF IInv, TypeOK, ClientInv
<1>w. /\ Len(wire) \in Nat /\ Len(wire) >= 1 /\ Head1.len \in 0 .. Max
      /\ Head1.id \in 0 .. SeqIds - 1 /\ Final.len \in 0 .. Max
    BY <1>3, <1>t, WireFacts DEF Head1, Final
<1>a. /\ wire' \in Seq(Packets) /\ Len(wire') = Len(wire) - 1
      /\ \A i \in 1 .. Len(wire) - 1 : wire'[i] = wire[i + 1]
      /\ wire' # <<>> <=> Len(wire) > 1
    BY <1>1, <1>3, <1>t, TailFacts
<1>4. Head1.id = Start /\ Times(Start) = inLen
    BY <1>2, <1>3 DEF WireInv, ServerInv
<1>5. Start < SeqIds - 1 /\ (Start + 1) % SeqIds = netPacketSeqID
  <2>1. Start < SeqIds - 1
    BY <1>3, <1>4, <1>t, <1>w, FewPackets, Sizes
  <2> QED
    <3>1. (Start + 1) % SeqIds = Start + 1
      BY <2>1, <1>t, Ids
    <3>2. Start + 1 = netPacketSeqID
      BY <1>3, <1>t
    <3> QED
      BY <2>1, <3>1, <3>2
<1>6. TypeOK'
  <2>1. inLen' \in 0 .. max_allowed_packet
    BY <1>1, <1>3, <1>t, <1>w, Sizes DEF Received, IInv, TypeOK
  <2>2. server' \in {"error", "next", "command"}
    BY <1>1
  <2> QED
    BY <1>1, <1>a, <2>1, <2>2 DEF IInv, TypeOK
<1>7. Len(wire) = 1 =>
        /\ wire' = <<>> /\ Final = Head1 /\ Extent = inLen + Head1.len
        /\ seq = netPacketSeqID
  <2> SUFFICES ASSUME Len(wire) = 1
               PROVE  /\ wire' = <<>> /\ Final = Head1 /\ Extent = inLen + Head1.len
                      /\ seq = netPacketSeqID
    OBVIOUS
  <2>1. wire' = <<>> /\ Final = Head1
    BY <1>a DEF Final, Head1
  <2>2. Extent = inLen + Head1.len
    <3>1. Len(wire) - 1 = 0
      OBVIOUS
    <3>2. Times(Len(wire) - 1) = 0
      BY <3>1, TimesFacts
    <3> QED
      BY <2>1, <3>2, <1>3, <1>t, <1>w, Sizes DEF Extent
  <2> QED
    BY <2>1, <2>2, <1>2, <1>3, <1>4, <1>5 DEF WireInv
<1>8. CASE Head1.whole /\ Head1.len = Max
  <2>1. server' = "next" /\ inLen' = inLen + Max
    BY <1>1, <1>8 DEF Received
  <2>2. Start' = netPacketSeqID /\ Buffered' = inLen + Max /\ netPacketSeqID = Start + 1
    BY <1>1, <1>3, <1>t, <2>1 DEF Start, Buffered
  <2>3. Times(Start') = Buffered'
    BY <1>4, <1>t, <2>2, TimesFacts
  <2>4. ServerInv'
    BY <2>1, <2>3 DEF ServerInv, InBody, Times
  <2>5. CASE Len(wire) = 1
    <3>1. wire' = <<>> /\ Final = Head1 /\ Extent = inLen + Max /\ seq = netPacketSeqID
      BY <1>7, <1>8, <2>5
    <3>2. client # "waiting"
      BY <1>2, <1>8, <3>1, Sizes DEF ClientInv
    <3>3. client = "sending" => Buffered' + left' = size' /\ seq' = Start'
      BY <1>1, <1>2, <1>3, <2>2, <3>1 DEF ClientInv
    <3>4. WireInv' /\ ClientInv'
      BY <1>1, <1>t, <3>1, <3>2, <3>3 DEF WireInv, ClientInv
    <3> QED
      BY <3>4, <1>1, <1>2, <1>6, <2>1, <2>4 DEF IInv
  <2>6. CASE Len(wire) # 1
    <3>1. wire' # <<>> /\ Len(wire) > 1 /\ Final' = Final
      BY <1>a, <1>w, <2>6 DEF Final
    <3>2. Extent' = Extent
      <4>1. /\ Times(Len(wire) - 2) \in Nat
            /\ Times(Len(wire) - 1) = Times(Len(wire) - 2) + Max
        BY <1>w, <3>1, TimesLess
      <4>2. Times(Len(wire') - 1) = Times(Len(wire) - 2)
        BY <1>a, <1>w
      <4>3. Extent' = Buffered' + Times(Len(wire') - 1) + Final'.len
        BY DEF Extent, Times
      <4> QED
        BY <4>1, <4>2, <4>3, <1>3, <1>t, <1>w, <2>2, <3>1, Sizes DEF Extent
    <3>3. WireInv'
      <4>1. Head1'.id = Start'
        BY <1>2, <1>3, <1>4, <1>5, <1>a, <1>w, <2>2, <3>1 DEF WireInv, Head1
      <4>2. ASSUME NEW i \in 1 .. Len(wire') - 1
            PROVE  /\ wire'[i].len = Max /\ wire'[i].whole
                   /\ wire'[i + 1].id = (wire'[i].id + 1) % SeqIds
        <5>1. /\ i + 1 \in 1 .. Len(wire) - 1 /\ wire'[i] = wire[i + 1]
              /\ wire'[i + 1] = wire[(i + 1) + 1]
          BY <4>2, <1>a, <1>w
        <5> QED
          BY <5>1, <1>2, <1>3 DEF WireInv
      <4>3. seq' = (Final'.id + 1) % SeqIds
        BY <1>1, <1>2, <1>3, <3>1 DEF WireInv
      <4> QED
        BY <4>1, <4>2, <4>3 DEF WireInv
    <3>4. ClientInv'
      BY <1>1, <1>2, <1>3, <1>t, <3>1, <3>2 DEF ClientInv
    <3> QED
      BY <3>3, <3>4, <1>1, <1>2, <1>6, <2>1, <2>4 DEF IInv
  <2> QED
    BY <2>5, <2>6
<1>9. CASE Head1.whole /\ Head1.len # Max
  <2>1. server' = "command" /\ inLen' = inLen + Head1.len
    BY <1>1, <1>9 DEF Received
  <2>2. Len(wire) = 1
    <3>1. ~(Len(wire) > 1)
      BY <1>2, <1>3, <1>9, <1>w, FirstFull
    <3> QED
      BY <3>1, <1>w, OneOrMore, Zenon
  <2>3. client # "sending" /\ Extent = size /\ left = 0
    BY <1>2, <1>3, <1>7, <1>9, <1>t, <1>w, <2>2, Sizes DEF ClientInv
  <2>4. CommandInv'
    BY <1>1, <1>7, <1>t, <2>1, <2>2, <2>3 DEF CommandInv
  <2> QED
    BY <1>1, <1>2, <1>6, <2>1, <2>4 DEF IInv, Receiving
<1>10. CASE ~Head1.whole
  <2>2. Len(wire) = 1
    <3>1. ~(Len(wire) > 1)
      BY <1>2, <1>3, <1>10, <1>w, FirstFull
    <3> QED
      BY <3>1, <1>w, OneOrMore, Zenon
  <2>3. client = "gone" /\ wire' = <<>> /\ inLen' = inLen
    BY <1>1, <1>2, <1>3, <1>7, <1>10, <1>t, <2>2 DEF ClientInv, Received
  <2>4. CASE server = "nextBody"
    BY <1>1, <1>2, <1>6, <1>10, <2>3, <2>4 DEF IInv, Receiving
  <2>5. CASE server = "body"
    <3>1. inLen' = 0 /\ server' \in {"next", "command"}
      BY <1>1, <1>2, <1>10, <2>3, <2>5 DEF ServerInv
    <3>2. CommandInv'
      BY <1>1, <2>3, <3>1 DEF CommandInv
    <3>3. WireInv' /\ ClientInv'
      BY <1>1, <2>3 DEF WireInv, ClientInv
    <3>4. server' = "next" => ServerInv'
      BY <1>1, <2>3 DEF ServerInv, InBody
    <3> QED
      BY <1>1, <1>2, <1>6, <3>1, <3>2, <3>3, <3>4 DEF IInv, Receiving
  <2> QED
    BY <1>1, <2>4, <2>5
<1> QED
    BY <1>8, <1>9, <1>10

(* A payload for which there is no room is a part of a command for which   *)
(* there is none.                                                          *)
LEMMA EnlargeFailsStep ==
    ASSUME IInv, EnlargeFails
    PROVE  IInv' /\ (seen = {} => Refusable)
<1>1. /\ InBody /\ NoRoom(Head1.len) /\ server' = "error"
      /\ seen' = seen \cup {"refused", "lost"}
      /\ UNCHANGED <<client, size, left, seq, wire, netPacketSeqID, inLen, replied>>
    BY DEF EnlargeFails, clientVars, InBody
<1>2. TypeOK'
    BY <1>1 DEF IInv, TypeOK
<1>3. IInv'
    BY <1>1, <1>2 DEF IInv
<1>4. ASSUME seen = {}  PROVE Refusable
  <2>1. Receiving /\ "lost" \notin seen /\ Buffered = inLen
    BY <1>1, <1>4 DEF InBody, Receiving, Buffered
  <2>2. wire # <<>>
    BY <1>1, <2>1 DEF IInv, ServerInv
  <2>3. inLen + Head1.len <= size
    BY <2>1, <2>2, HeadFits
  <2>4. Head1.len \in Nat /\ inLen \in Nat /\ size \in Nat
    BY <2>2, WireFacts, Sizes DEF IInv, TypeOK, Head1
  <2> QED
    BY <1>1, <2>3, <2>4, NetAssumption DEF NoRoom, Refusable
<1> QED
    BY <1>3, <1>4

(* The end of the stream, and bytes that are not a header.                 *)
LEMMA BrokenStep ==
    ASSUME IInv, ReadHeaderEof \/ ReadLost
    PROVE  IInv' /\ seen' = seen
<1>1. CASE ReadHeaderEof
  <2>1. /\ server \in {"idle", "next"} /\ wire = <<>> /\ client = "gone"
        /\ server' = "error" /\ netPacketSeqID' = Expected /\ inLen' = Buffered
        /\ replied' = 0 /\ UNCHANGED <<client, size, left, seq, wire, seen>>
    BY <1>1 DEF ReadHeaderEof, Reading, Eof, clientVars
  <2>2. TypeOK'
    BY <2>1, Sizes DEF IInv, TypeOK, Expected, Buffered
  <2> QED
    BY <2>1, <2>2 DEF IInv, Receiving
<1>2. CASE ReadLost
  <2>1. /\ "lost" \in seen /\ server' \in {"error", "command"}
        /\ netPacketSeqID' = 0 /\ inLen' = 0 /\ replied' = 0
        /\ UNCHANGED <<client, size, left, seq, seen>>
    BY <1>2 DEF ReadLost, clientVars
  <2>2. wire' \in Seq(Packets)
    <3>1. PICK k \in 0 .. Len(wire) : wire' = SubSeq(wire, k + 1, Len(wire))
      BY <1>2 DEF ReadLost
    <3> QED
      BY <3>1 DEF IInv, TypeOK
  <2>3. TypeOK'
    BY <2>1, <2>2, Sizes DEF IInv, TypeOK
  <2> QED
    BY <2>1, <2>3, Sizes DEF IInv
<1> QED
    BY <1>1, <1>2

(* The answers.                                                            *)
LEMMA ReplyStep ==
    ASSUME IInv, NEW last \in BOOLEAN, Reply(last)
    PROVE  IInv' /\ seen' = seen
<1>1. /\ server = "command" /\ (last \/ replied + 1 < MaxReply)
      /\ replied' = replied + 1 /\ netPacketSeqID' = NextSeq(netPacketSeqID)
      /\ seq' = IF client = "waiting" THEN (seq + 1) % SeqIds ELSE seq
      /\ server' = IF last THEN "idle" ELSE "command"
      /\ client' = IF last THEN Answered ELSE client
      /\ UNCHANGED <<size, left, wire, inLen, seen>>
    BY DEF Reply
<1>2. netPacketSeqID \in 0 .. SeqIds - 1 /\ seq \in 0 .. SeqIds - 1
    BY DEF IInv, TypeOK
<1>3. NextSeq(netPacketSeqID) = (netPacketSeqID + 1) % SeqIds
    BY <1>2, Ids
<1>4. TypeOK'
  <2>1. netPacketSeqID' \in 0 .. SeqIds - 1 /\ seq' \in 0 .. SeqIds - 1
    BY <1>1, <1>2, <1>3, Ids
  <2>2. replied' \in 0 .. MaxReply
    BY <1>1, Sizes DEF IInv, TypeOK
  <2>3. client' \in {"idle", "sending", "draining", "waiting", "gone"}
    BY <1>1 DEF Answered, IInv, TypeOK
  <2> QED
    BY <1>1, <2>1, <2>2, <2>3 DEF IInv, TypeOK
<1>5. "lost" \notin seen => CommandInv
    BY <1>1 DEF IInv
<1>6. CASE last
  <2>1. "lost" \notin seen => wire' = <<>> /\ client' \in {"idle", "gone"}
    BY <1>1, <1>5, <1>6 DEF CommandInv, Answered
  <2>2. server' = "idle" /\ Start' = 0 /\ Buffered' = 0
    BY <1>1, <1>6 DEF Start, Buffered
  <2>3. "lost" \notin seen => WireInv' /\ ClientInv' /\ ServerInv'
    BY <2>1, <2>2, TimesFacts DEF WireInv, ClientInv, ServerInv, InBody, Times
  <2> QED
    BY <1>1, <1>4, <2>2, <2>3 DEF IInv
<1>7. CASE ~last
  <2>1. "lost" \notin seen => CommandInv'
    BY <1>1, <1>3, <1>5, <1>7 DEF CommandInv
  <2> QED
    BY <1>1, <1>4, <1>7, <2>1 DEF IInv, Receiving
<1> QED
    BY <1>6, <1>7

LEMMA ErrorReplyStep ==
    ASSUME IInv, ErrorReply
    PROVE  IInv' /\ seen' = seen
<1>1. /\ server = "error" /\ server' = "idle" /\ client' = Answered
      /\ netPacketSeqID' = NextSeq(netPacketSeqID)
      /\ UNCHANGED <<size, left, seq, wire, inLen, replied, seen>>
    BY DEF ErrorReply
<1>2. TypeOK'
  <2>1. netPacketSeqID' \in 0 .. SeqIds - 1
    BY <1>1, Ids DEF IInv, TypeOK
  <2>2. client' \in {"idle", "sending", "draining", "waiting", "gone"}
    BY <1>1 DEF Answered, IInv, TypeOK
  <2> QED
    BY <1>1, <2>1, <2>2 DEF IInv, TypeOK
<1>3. "lost" \notin seen => wire' = <<>> /\ client' = "gone"
    BY <1>1 DEF IInv, Answered
<1>4. "lost" \notin seen => WireInv' /\ ClientInv' /\ ServerInv'
    BY <1>1, <1>3 DEF WireInv, ClientInv, ServerInv, InBody
<1> QED
    BY <1>1, <1>2, <1>4 DEF IInv

LEMMA WriteFailsStep ==
    ASSUME IInv, WriteFails
    PROVE  IInv' /\ seen' = seen
<1>1. server' = "gone" /\ UNCHANGED <<client, size, left, seq, wire, netPacketSeqID, inLen,
                                      replied, seen>>
    BY DEF WriteFails, clientVars
<1>2. TypeOK'
    BY <1>1 DEF IInv, TypeOK
<1> QED
    BY <1>1, <1>2 DEF IInv, Receiving

(* Every step keeps the invariant, and refuses only what is too long.      *)
LEMMA NextStep ==
    ASSUME IInv, [Next]_vars
    PROVE  IInv' /\ (seen = {} /\ seen' # {} => Refusable)
<1>1. CASE Client
  <2>1. seen' = seen
    BY <1>1 DEF Client, NewCommand, SendPacket, Vanish
  <2> QED
    BY <1>1, <2>1, NewCommandStep, SendPacketStep, VanishStep DEF Client
<1>2. CASE Server
    BY <1>2, ReadHeaderStep, ReadBodyStep, EnlargeFailsStep, BrokenStep, ReplyStep,
        ErrorReplyStep, WriteFailsStep DEF Server, ReadBody
<1>3. CASE UNCHANGED vars
  <2>1. UNCHANGED <<client, size, left, seq, wire, server, netPacketSeqID, inLen, replied, seen>>
    BY <1>3 DEF vars
  <2>2. /\ Start' = Start /\ Buffered' = Buffered /\ Final' = Final /\ Head1' = Head1
        /\ Extent' = Extent
    BY <2>1 DEF Start, Buffered, Final, Head1, Extent
  <2>3. /\ TypeOK' <=> TypeOK
        /\ WireInv' <=> WireInv
        /\ ClientInv' <=> ClientInv
        /\ ServerInv' <=> ServerInv
        /\ CommandInv' <=> CommandInv
        /\ Receiving' <=> Receiving
    BY <2>1, <2>2, Zenon DEF TypeOK, WireInv, ClientInv, ServerInv, CommandInv, Receiving,
        InBody, Times
  <2> QED
    BY <2>1, <2>3, Zenon DEF IInv
<1> QED
    BY <1>1, <1>2, <1>3 DEF Next

LEMMA InvariantHolds ==
    Spec => []IInv
<1>1. Init => IInv
  <2> SUFFICES ASSUME Init  PROVE IInv
    OBVIOUS
  <2>1. TypeOK
    BY Sizes DEF Init, TypeOK
  <2>2. Start = 0 /\ Buffered = 0
    BY DEF Init, Start, Buffered
  <2> QED
    BY <2>1, <2>2, TimesFacts DEF Init, IInv, WireInv, ClientInv, ServerInv, InBody
<1>2. IInv /\ [Next]_vars => IInv'
    BY NextStep
<1> QED
    BY <1>1, <1>2, PTL DEF Spec

(* Every number the server keeps fits its byte, and no more is buffered    *)
(* than max_allowed_packet, in however many packets a command comes.       *)
THEOREM NetReadTyping ==
    Spec => []TypeOK
<1>1. IInv => TypeOK
    BY DEF IInv
<1> QED
    BY <1>1, InvariantHolds, PTL

(* processCommand gets the client's commands whole, and nothing else,      *)
(* until one was refused; it gets an empty one if the client vanished in   *)
(* the middle of a single packet.                                          *)
THEOREM CommandsAreWhole ==
    Spec => []WholeCommands
<1>1. IInv => WholeCommands
    BY DEF IInv, WholeCommands, CommandInv
<1> QED
    BY <1>1, InvariantHolds, PTL

(* The packets of the answer have the numbers the client expects.          *)
THEOREM AnswersInSequence ==
    Spec => []AnswerInSequence
<1>1. IInv => AnswerInSequence
    BY DEF IInv, AnswerInSequence, CommandInv
<1> QED
    BY <1>1, InvariantHolds, PTL

(* Only a command longer than max_allowed_packet, or than what a buffer    *)
(* can hold, is refused, and no packet of another has a number the server  *)
(* does not expect.                                                        *)
THEOREM RefusesOnlyTooLong ==
    Spec => RefusedOnlyTooLong
<1>1. IInv /\ [Next]_vars => [seen = {} /\ seen' # {} =>
                                 \/ size > max_allowed_packet
                                 \/ Offset + size >= MaxAllocSize]_vars
    BY NextStep DEF Refusable
<1> QED
    BY <1>1, InvariantHolds, PTL DEF Spec, RefusedOnlyTooLong

=============================================================================
