--------------------------- MODULE CompactBinary ----------------------------
(***************************************************************************)
(* The compact binary protocol on one connection: chunks are appended to a *)
(* packet, the packet is sent behind a header of signature, size and type, *)
(* its bytes arrive in pieces of any size, the dispatcher takes whole      *)
(* packets from the buffer and their handlers parse the chunks in them.    *)
(*                                                                         *)
(* A chunk is an id, a type, a length and a value.  Sizes and packet types *)
(* are words of two bytes, the greater first, and wrap as such; a byte of  *)
(* a word has Base values (2^8 in the program).  The handlers are those of *)
(* server2hb-np.h: each parses its packet with a chunk class that keeps    *)
(* the default SetArray, so that an array is passed over.                  *)
(***************************************************************************)
EXTENDS Integers, Sequences, SequencesExt

CONSTANTS
    Base,           \* values of a byte of a word
    Signature,      \* S2B_NP_SIGNATURE
    Known,          \* packet types with a command callback
    Types,          \* packet types that are sent
    Forms,          \* chunks that are appended
    MaxPackets,     \* bound: packets on the connection
    MaxChunks       \* bound: chunks of a packet

HeaderSize == 5     \* cbPacket: signature, size, type
ChunkSize == 4      \* id, type, length

(* CHUNK_TYPE_BYTE, SHORT, INTEGER, LONG; STRING, BINARY *)
NumberWidth == <<1, 2, 4, 8>>
NumberTypes == DOMAIN NumberWidth
StringType == 5
BinaryType == 7
ValueTypes == {StringType, BinaryType}

ASSUME CompactBinaryAssumption ==
    /\ Base \in Nat /\ Base > 1
    /\ Signature \in Nat /\ Types \subseteq 0..Base * Base - 1 /\ Known \subseteq Nat
    /\ MaxPackets \in Nat /\ MaxChunks \in Nat
    /\ \A f \in Forms :
         /\ f.id \in Nat /\ f.type \in Nat
         /\ f.value \in Seq(Nat) /\ f.spare \in Seq(Nat)
         /\ f.type \in NumberTypes => Len(f.value) = NumberWidth[f.type]

VARIABLES
    packet,     \* m_abPacket of the packet that is being built
    content,    \* history: the chunks appended to it, each with its end in it
    sent,       \* history: the packets sent, each with where its bytes lie in
    stream,     \* history: all bytes that were sent
    wire,       \* bytes of them that have not arrived
    strange,    \* history: a byte that is no signature was sent where one belongs
    buf,        \* m_socket_buffer
    pc,         \* "wait" for bytes; inside DoProcessCB; inside ParsePacket
    ptr,        \* nProcessBytes
    at, left,   \* pBuffer_ and nBufferSize_ of ParsePacket
    out         \* the packets given to handlers, the last perhaps in part

sendVars == <<packet, content, sent, stream, strange>>
vars == <<sendVars, wire, buf, pc, ptr, at, left, out>>

-----------------------------------------------------------------------------
(* The sender *)

Limit == Base * Base

(* htons of a size that was cast to two bytes *)
Word(n) == <<(n % Limit) \div Base, n % Base>>

(* ntohs of the word at i *)
WordAt(bytes, i) == bytes[i] * Base + bytes[i + 1]

(* mutant: the length counts the terminating zero *)
ChunkWithZero(f) ==
    <<f.id, f.type>>
        \o Word(Len(f.value) + (IF f.type = StringType THEN 1 ELSE 0)) \o f.value \o f.spare

(* AppendChunkT, AppendChunkString, AppendChunkBuffer.  A number is written *)
(* as it lies in memory; a buffer with its spare room (get_full_size).      *)
Chunk(f) == <<f.id, f.type>> \o Word(Len(f.value)) \o f.value \o f.spare

(* Of a sequence of chunks or packets that are counted as they are added,  *)
(* each with its number (the number of those before it, if it is not       *)
(* counted itself), the count so far                                       *)
Count(entries) == IF entries = <<>> THEN 0 ELSE Last(entries).nth

(* The chunks a handler looks at *)
Wanted(f) == f.type \in NumberTypes \cup ValueTypes

AppendChunk ==
    /\ Len(sent) < MaxPackets /\ Len(content) < MaxChunks
    /\ \E f \in Forms :
         /\ packet' = packet \o Chunk(f)
         /\ content' = Append(content, [form |-> f, end |-> Len(packet'),
                                       nth |-> Count(content) + (IF Wanted(f) THEN 1 ELSE 0)])
    /\ UNCHANGED <<sent, stream, strange, wire, buf, pc, ptr, at, left, out>>

Transmit(bytes) == wire' = wire \o bytes /\ stream' = stream \o bytes

(* SendChunkInPacket.  The size is cut to two bytes, and so is what is sent *)
(* of the packet.                                                           *)
SendPacket ==
    LET size == Len(packet) % Limit IN
    /\ Len(sent) < MaxPackets
    /\ \E type \in Types :
         /\ Transmit(<<Signature>> \o Word(size) \o Word(type) \o SubSeq(packet, 1, size))
         /\ sent' = Append(sent, [type |-> type, content |-> content,
                                  whole |-> Len(packet) < Limit,
                                  start |-> Len(stream), end |-> Len(stream'),
                                  nth |-> Count(sent) + (IF type \in Known THEN 1 ELSE 0)])
    /\ packet' = <<>> /\ content' = <<>>
    /\ UNCHANGED <<strange, buf, pc, ptr, at, left, out>>

(* A peer that sends something else between two packets *)
SendOther ==
    /\ ~strange /\ strange' = TRUE
    /\ Transmit(<<Signature + 1>>)
    /\ UNCHANGED <<packet, content, sent, buf, pc, ptr, at, left, out>>

-----------------------------------------------------------------------------
(* The receiver *)

(* mutant: the buffer is processed once for each read *)
ReturnToWait(n) ==
    /\ buf' = SubSeq(buf, n + 1, Len(buf))
    /\ ptr' = 0
    /\ pc' = "wait"

(* DoProcessCB returns with n bytes processed; compile_buffer_data calls   *)
(* it again as long as it processes any.                                   *)
ReturnCall(n) ==
    /\ buf' = SubSeq(buf, n + 1, Len(buf))
    /\ ptr' = 0
    /\ pc' = IF n = 0 \/ buf' = <<>> THEN "wait" ELSE "frames"

(* stub_conn_read *)
Receive ==
    /\ pc = "wait"
    /\ \E n \in 1..Len(wire) :
         /\ buf' = buf \o SubSeq(wire, 1, n)
         /\ wire' = SubSeq(wire, n + 1, Len(wire))
    /\ pc' = "frames"
    /\ UNCHANGED <<sendVars, ptr, at, left, out>>

Rest == SubSeq(buf, ptr + 1, Len(buf))

FrameSize == WordAt(Rest, 2)
FrameType == WordAt(Rest, 4)
FrameEnd == ptr + HeaderSize + FrameSize

HasFrame ==
    /\ Len(Rest) >= HeaderSize
    /\ Rest[1] = Signature
    /\ FrameSize <= Len(Rest) - HeaderSize

(* Not enough bytes, or not the signature *)
NoFrame ==
    /\ pc = "frames" /\ ~HasFrame
    /\ ReturnCall(ptr)
    /\ UNCHANGED <<sendVars, wire, at, left, out>>

(* mutant: the bytes of the packet are not counted *)
UnknownCommandHeader ==
    /\ pc = "frames" /\ HasFrame /\ FrameType \notin Known
    /\ ReturnCall(ptr + HeaderSize)
    /\ UNCHANGED <<sendVars, wire, at, left, out>>

(* A packet without a callback is passed over, and the call returns *)
UnknownCommand ==
    /\ pc = "frames" /\ HasFrame /\ FrameType \notin Known
    /\ ReturnCall(FrameEnd)
    /\ UNCHANGED <<sendVars, wire, at, left, out>>

(* The callback is called with the bytes of the packet *)
Command ==
    /\ pc = "frames" /\ HasFrame /\ FrameType \in Known
    /\ pc' = "chunks"
    /\ ptr' = FrameEnd
    /\ at' = ptr + HeaderSize /\ left' = FrameSize
    /\ out' = Append(out, [type |-> FrameType, values |-> <<>>])
    /\ UNCHANGED <<sendVars, wire, buf>>

ChunkType == buf[at + 2]
ChunkLength == WordAt(buf, at + 3)

HasChunk == left >= ChunkSize /\ ChunkLength <= left - ChunkSize

(* mutant: the header is not taken off what is left *)
PassValueOnly(n) == at' = at + ChunkSize + n /\ left' = left - n

(* The chunk at hand, with n bytes of value *)
Pass(n) == at' = at + ChunkSize + n /\ left' = left - ChunkSize - n
Bytes(n) == SubSeq(buf, at + ChunkSize + 1, at + ChunkSize + n)

(* SetValue of the chunk class *)
SetValue(v) ==
    LET value == [id |-> buf[at + 1], type |-> ChunkType, value |-> v] IN
    out' = [out EXCEPT ![Len(out)].values = Append(@, value)]

InChunk(types) ==
    /\ pc = "chunks" /\ HasChunk /\ ChunkType \in types
    /\ UNCHANGED <<sendVars, wire, buf, pc, ptr>>

(* ntohs and ntohl turn the bytes of a number round where it is read, a    *)
(* long by halves (on a host that has the lesser byte first)               *)
TurnRound(bytes) ==
    IF Len(bytes) = 8
    THEN Reverse(SubSeq(bytes, 1, 4)) \o Reverse(SubSeq(bytes, 5, 8))
    ELSE Reverse(bytes)

(* A number has the width of its type, whatever its length says *)
NumberChunk ==
    /\ InChunk(NumberTypes)
    /\ LET width == NumberWidth[ChunkType] IN
         /\ width <= left - ChunkSize
         /\ SetValue(TurnRound(Bytes(width)))
         /\ Pass(width)

(* The packet ends before the number does: only the header is passed *)
ShortNumber ==
    /\ InChunk(NumberTypes)
    /\ NumberWidth[ChunkType] > left - ChunkSize
    /\ Pass(0)
    /\ UNCHANGED out

ValueChunk ==
    /\ InChunk(ValueTypes)
    /\ SetValue(Bytes(ChunkLength))
    /\ Pass(ChunkLength)

(* An array that SetArray does not want, or a type that is not known *)
OtherChunk ==
    /\ InChunk(Nat \ (NumberTypes \cup ValueTypes))
    /\ Pass(ChunkLength)
    /\ UNCHANGED out

(* ParsePacket returns, with what is left given up, and so does the callback *)
EndPacket ==
    /\ pc = "chunks" /\ ~HasChunk
    /\ pc' = "frames"
    /\ at' = 0 /\ left' = 0
    /\ UNCHANGED <<sendVars, wire, buf, ptr, out>>

-----------------------------------------------------------------------------

Init ==
    /\ packet = <<>> /\ content = <<>> /\ sent = <<>> /\ stream = <<>> /\ wire = <<>>
    /\ strange = FALSE
    /\ buf = <<>> /\ pc = "wait" /\ ptr = 0 /\ at = 0 /\ left = 0
    /\ out = <<>>

Parse == NumberChunk \/ ShortNumber \/ ValueChunk \/ OtherChunk \/ EndPacket

Process == NoFrame \/ UnknownCommand \/ Command \/ Parse

Next == AppendChunk \/ SendPacket \/ SendOther \/ Receive \/ Process

Spec == Init /\ [][Next]_vars

-----------------------------------------------------------------------------

ChunkEntry == [form : Forms, end : Nat, nth : Nat]

PacketEntry == [type : Types, content : Seq(ChunkEntry), whole : BOOLEAN,
                start : Nat, end : Nat, nth : Nat]

Value == [id : Nat, type : Nat, value : Seq(Nat)]

(* What the variables hold.  In particular ParsePacket stays within the    *)
(* packet, and the packet within the buffer, whatever bytes they hold.     *)
TypeOK ==
    /\ packet \in Seq(Nat) /\ content \in Seq(ChunkEntry) /\ sent \in Seq(PacketEntry)
    /\ stream \in Seq(Nat) /\ wire \in Seq(Nat) /\ buf \in Seq(Nat)
    /\ strange \in BOOLEAN
    /\ pc \in {"wait", "frames", "chunks"}
    /\ ptr \in 0..Len(buf)
    /\ at \in Nat /\ left \in Nat
    /\ out \in Seq([type : Nat, values : Seq(Value)])
    /\ pc = "chunks" => at + left <= ptr

(* Packet k is the i-th that was sent with a type that has a handler *)
IsCommand(k, i) == sent[k].type \in Known /\ sent[k].nth = i

(* The packets given to handlers are those that were sent with a type that *)
(* has one, in order, however the bytes were cut, whatever the packets     *)
(* contain, also when their size did not fit the two bytes of its field    *)
(* (SendChunkInPacket, DoProcessCB, compile_buffer_data).                  *)
FramesAsSent ==
    \A i \in DOMAIN out :
        \E k \in DOMAIN sent : IsCommand(k, i) /\ out[i].type = sent[k].type

(* Every chunk fits: sizes fit two bytes, and no buffer has spare room.    *)
Fits(p) ==
    /\ p.whole
    /\ \A m \in DOMAIN p.content : p.content[m].form.spare = <<>>

(* What SetValue is called with for a chunk as it was appended *)
Received(f) ==
    [id |-> f.id, type |-> f.type,
     value |-> IF f.type \in NumberTypes THEN TurnRound(f.value) ELSE f.value]

(* The values are those of the first chunks that a handler wants *)
ValuesOf(values, chunks) ==
    \A j \in DOMAIN values : \E m \in DOMAIN chunks :
        /\ Wanted(chunks[m].form) /\ chunks[m].nth = j
        /\ values[j] = Received(chunks[m].form)

(* Of a packet that fits, a handler gets the values that were appended, in *)
(* order, without those of types it does not know; nothing that other      *)
(* packets contain disturbs that.  (A packet that does not fit loses       *)
(* values: the length, or the size, does not say what was written.)        *)
ChunksAsAppended ==
    \A i \in DOMAIN out, k \in DOMAIN sent : IsCommand(k, i) /\ Fits(sent[k]) =>
        /\ ValuesOf(out[i].values, sent[k].content)
        /\ i < Len(out) \/ pc # "chunks" => Len(out[i].values) = Count(sent[k].content)

HaveArrived(k) == sent[k].end <= Len(stream) - Len(wire)

(* When the connection waits for bytes, no packet that has arrived is left *)
(* unhandled in its buffer, unless a byte that is no signature came before *)
(* it: a packet of unknown type does not hold up the next.                 *)
NoneLeftInBuffer ==
    pc = "wait" /\ ~strange =>
        \A k \in DOMAIN sent : HaveArrived(k) => Len(out) >= sent[k].nth
=============================================================================
