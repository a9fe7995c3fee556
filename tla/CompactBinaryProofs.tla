------------------------ MODULE CompactBinaryProofs -------------------------
(***************************************************************************)
(* Theorems about CompactBinary, for any bytes of a peer, any chunks and   *)
(* any width of the sizes.                                                 *)
(***************************************************************************)
EXTENDS CompactBinary, TLAPS

(* A part of a sequence of bytes is one, also when it begins behind the end *)
LEMMA PartOfBytes ==
    ASSUME NEW s \in Seq(Nat), NEW m \in Nat \ {0}, NEW n \in Nat, n <= Len(s)
    PROVE  SubSeq(s, m, n) \in Seq(Nat)
  OBVIOUS

(* Cutting a size to two bytes makes it no greater *)
LEMMA Remainder ==
    ASSUME NEW n \in Nat, NEW m \in Nat, m > 0
    PROVE  n % m \in 0..n
<1>1. n % m \in 0..m - 1
  OBVIOUS
<1>2. n % m <= n
  BY SMTT(30)
<1> QED
  BY <1>1, <1>2

(* Two bytes are a size *)
LEMMA WordIsSize ==
    ASSUME NEW s \in Seq(Nat), NEW i \in Nat \ {0}, i + 1 <= Len(s)
    PROVE  WordAt(s, i) \in Nat
<1>1. s[i] \in Nat /\ s[i + 1] \in Nat
  OBVIOUS
<1>2. s[i] * Base \in Nat
  BY <1>1, CompactBinaryAssumption
<1> QED
  BY <1>1, <1>2 DEF WordAt

(* A size is written as two bytes *)
LEMMA WordIsBytes == ASSUME NEW n \in Nat PROVE Word(n) \in Seq(Nat)
<1>1. Base \in Nat /\ Base > 0
  BY CompactBinaryAssumption
<1>2. Limit \in Nat /\ Limit > 0
  BY <1>1 DEF Limit
<1>3. n % Limit \in Nat
  BY <1>2
<1>4. (n % Limit) \div Base \in Nat /\ n % Base \in Nat
  BY <1>1, <1>3
<1> QED
  BY <1>4 DEF Word

(* A chunk is written as bytes *)
LEMMA ChunkIsBytes == ASSUME NEW f \in Forms PROVE Chunk(f) \in Seq(Nat)
<1>1. /\ f.id \in Nat /\ f.type \in Nat
      /\ f.value \in Seq(Nat) /\ f.spare \in Seq(Nat)
  BY CompactBinaryAssumption
<1>2. Word(Len(f.value)) \in Seq(Nat)
  BY <1>1, WordIsBytes
<1> QED
  BY <1>1, <1>2 DEF Chunk

(* What DoProcessCB finds in the buffer lies in it *)
LEMMA FrameInBuffer ==
    ASSUME TypeOK, HasFrame
    PROVE  /\ FrameSize \in Nat
           /\ FrameEnd \in ptr..Len(buf)
<1>1. Rest \in Seq(Nat) /\ Len(Rest) = Len(buf) - ptr /\ Len(Rest) >= HeaderSize
  BY SMTT(40) DEF TypeOK, HasFrame, Rest
<1>2. FrameSize \in Nat
  BY <1>1, WordIsSize DEF FrameSize, HeaderSize
<1> QED
  BY <1>1, <1>2 DEF TypeOK, HasFrame, FrameEnd, HeaderSize

(* What ParsePacket finds lies in the packet *)
LEMMA ChunkInPacket ==
    ASSUME TypeOK, pc = "chunks", HasChunk
    PROVE  ChunkLength \in 0..left - ChunkSize
<1>1. ChunkLength \in Nat
  BY WordIsSize DEF TypeOK, HasChunk, ChunkLength, ChunkSize
<1> QED
  BY <1>1 DEF HasChunk, ChunkSize, TypeOK

LEMMA Appended ==
    ASSUME NEW S, NEW s \in Seq(S), NEW x \in S
    PROVE  /\ Append(s, x) \in Seq(S) /\ Len(Append(s, x)) = Len(s) + 1
           /\ DOMAIN s = 1..Len(s) /\ DOMAIN Append(s, x) = 1..Len(s) + 1
           /\ Append(s, x)[Len(s) + 1] = x /\ Len(s) \in Nat
           /\ \A i \in 1..Len(s) : Append(s, x)[i] = s[i]
  OBVIOUS

(* A sequence has its elements, and one that is not empty a last           *)
LEMMA ElementOf ==
    ASSUME NEW S, NEW s \in Seq(S)
    PROVE  /\ Len(s) \in Nat /\ \A i \in 1..Len(s) : s[i] \in S
           /\ s # <<>> => Len(s) \in 1..Len(s)
  OBVIOUS

(* Entries that are counted                                                *)
LEMMA CountIsNat ==
    /\ \A chunks \in Seq(ChunkEntry) : Count(chunks) \in Nat
    /\ \A packets \in Seq(PacketEntry) : Count(packets) \in Nat
<1>1. ASSUME NEW chunks \in Seq(ChunkEntry) PROVE Count(chunks) \in Nat
  <2>1. CASE chunks = <<>>
    BY <2>1 DEF Count
  <2>2. CASE chunks # <<>>
    <3>1. Last(chunks) \in ChunkEntry
      BY <2>2 DEF Last
    <3> QED
      BY <2>2, <3>1 DEF Count, ChunkEntry
  <2> QED
    BY <2>1, <2>2
<1>2. ASSUME NEW packets \in Seq(PacketEntry) PROVE Count(packets) \in Nat
  <2>1. CASE packets = <<>>
    BY <2>1 DEF Count
  <2>2. CASE packets # <<>>
    <3>1. Last(packets) \in PacketEntry
      BY <2>2 DEF Last
    <3> QED
      BY <2>2, <3>1 DEF Count, PacketEntry
  <2> QED
    BY <2>1, <2>2
<1> QED
  BY <1>1, <1>2

(* A number turned round has the same bytes                                *)
LEMMA TurnedIsBytes == ASSUME NEW s \in Seq(Nat) PROVE TurnRound(s) \in Seq(Nat)
<1>1. \A t \in Seq(Nat) : Reverse(t) \in Seq(Nat)
  <2> SUFFICES ASSUME NEW t \in Seq(Nat) PROVE Reverse(t) \in Seq(Nat)
    OBVIOUS
  <2>1. \A i \in 1..Len(t) : t[Len(t) - i + 1] \in Nat
    OBVIOUS
  <2>2. Len(t) \in Nat
    OBVIOUS
  <2>3. [i \in 1..Len(t) |-> t[Len(t) - i + 1]] \in Seq(Nat)
    BY <2>1, <2>2
  <2> QED
    BY <2>3 DEF Reverse
<1>2. CASE Len(s) = 8
  <2>1. \A i \in 1..8 : s[i] \in Nat
    BY <1>2, ElementOf
  <2>2. SubSeq(s, 1, 4) \in Seq(Nat)
    BY <1>2, <2>1
  <2>3. SubSeq(s, 5, 8) \in Seq(Nat)
    BY <1>2, <2>1
  <2>4. Reverse(SubSeq(s, 1, 4)) \in Seq(Nat) /\ Reverse(SubSeq(s, 5, 8)) \in Seq(Nat)
    BY <1>1, <2>2, <2>3
  <2>5. TurnRound(s) = Reverse(SubSeq(s, 1, 4)) \o Reverse(SubSeq(s, 5, 8))
    BY <1>2 DEF TurnRound
  <2> HIDE DEF TurnRound
  <2> QED
    BY <2>4, <2>5
<1> QED
  BY <1>1, <1>2 DEF TurnRound

OutSet == [type : Nat, values : Seq(Value)]

LEMMA FieldChanged ==
    ASSUME NEW r \in OutSet, NEW v
    PROVE  [r EXCEPT !.values = v] = [type |-> r.type, values |-> v]
BY DEF OutSet

(* A value is added to the last packet given to a handler.                 *)
LEMMA ValueAdded ==
    ASSUME NEW o \in Seq(OutSet), NEW value \in Value, NEW p,
           p = [o EXCEPT ![Len(o)].values = Append(@, value)]
    PROVE  /\ p \in Seq(OutSet) /\ Len(p) = Len(o)
           /\ \A i \in 1..Len(o) : p[i].type = o[i].type
           /\ \A i \in 1..Len(o) - 1 : p[i] = o[i]
           /\ o # <<>> => p[Len(o)].values = Append(o[Len(o)].values, value)
<1> DEFINE n == Len(o)
           last == [o[n] EXCEPT !.values = Append(o[n].values, value)]
<1>1. n \in Nat /\ DOMAIN o = 1..n /\ p = [o EXCEPT ![n] = last]
  OBVIOUS
<1>2. CASE o = <<>>
  <2>1. p = o /\ Len(o) = 0
    BY <1>1, <1>2
  <2> QED
    BY <1>2, <2>1
<1>3. CASE o # <<>>
  <2>1. n \in 1..n /\ o[n] \in OutSet
    BY <1>3, ElementOf
  <2>2. /\ last.values = Append(o[n].values, value) /\ last.type = o[n].type
        /\ last \in OutSet
    <3>1. o[n].values \in Seq(Value) /\ o[n].type \in Nat
      BY <2>1 DEF OutSet
    <3>2. Append(o[n].values, value) \in Seq(Value)
      BY <3>1, Appended
    <3>3. last = [type |-> o[n].type, values |-> Append(o[n].values, value)]
      BY <2>1, FieldChanged
    <3> QED
      BY <3>1, <3>2, <3>3 DEF OutSet
  <2> HIDE DEF last
  <2>3. /\ DOMAIN p = 1..n /\ p[n] = last
        /\ \A i \in 1..n : i # n => p[i] = o[i]
    BY <1>1, <2>1
  <2>4. \A i \in 1..n : p[i] \in OutSet
    BY <2>2, <2>3, ElementOf
  <2>5. p \in Seq(OutSet) /\ Len(p) = n
    <3>1. p = [i \in 1..n |-> p[i]]
      BY <1>1, <2>3
    <3>2. [i \in 1..n |-> p[i]] \in Seq(OutSet) /\ Len([i \in 1..n |-> p[i]]) = n
      BY <1>1, <2>4, SMTT(40)
    <3> QED
      BY <3>1, <3>2
  <2> QED
    BY <1>1, <2>1, <2>2, <2>3, <2>5
<1> QED
  BY <1>2, <1>3

(* What SendChunkInPacket puts on the wire                                 *)
LEMMA FrameIsBytes ==
    ASSUME TypeOK, NEW type \in Types, NEW size, size = Len(packet) % Limit
    PROVE  /\ size \in 0..Len(packet) /\ size < Limit /\ Limit \in Nat
           /\ Word(size) \in Seq(Nat) /\ Word(type) \in Seq(Nat) /\ type \in Nat
           /\ SubSeq(packet, 1, size) \in Seq(Nat) /\ Len(SubSeq(packet, 1, size)) = size
           /\ <<Signature>> \o Word(size) \o Word(type) \o SubSeq(packet, 1, size) \in Seq(Nat)
<1>1. Limit \in Nat /\ Limit > 0
  BY CompactBinaryAssumption DEF Limit
<1>2. size \in 0..Len(packet) /\ size < Limit
  <2>1. Len(packet) \in Nat
    BY DEF TypeOK
  <2>2. Len(packet) % Limit < Limit
    BY <1>1, <2>1
  <2> QED
    BY <1>1, <2>1, <2>2, Remainder
<1>3. type \in Nat
  BY CompactBinaryAssumption
<1>4. Word(size) \in Seq(Nat) /\ Word(type) \in Seq(Nat) /\ <<Signature>> \in Seq(Nat)
  BY <1>2, <1>3, WordIsBytes, CompactBinaryAssumption
<1>5. SubSeq(packet, 1, size) \in Seq(Nat) /\ Len(SubSeq(packet, 1, size)) = size
  BY <1>2, PartOfBytes DEF TypeOK
<1> QED
  BY <1>1, <1>2, <1>3, <1>4, <1>5

(* The sender changes its packet and the bytes under way *)
LEMMA SendStep ==
    ASSUME TypeOK, AppendChunk \/ SendPacket \/ SendOther
    PROVE  TypeOK'
<1>1. CASE AppendChunk
  <2>1. PICK f \in Forms :
          /\ packet' = packet \o Chunk(f)
          /\ content' = Append(content, [form |-> f, end |-> Len(packet'),
                                        nth |-> Count(content) + (IF Wanted(f) THEN 1 ELSE 0)])
    BY <1>1 DEF AppendChunk
  <2>2. packet' \in Seq(Nat)
    BY <2>1, ChunkIsBytes DEF TypeOK
  <2>3. [form |-> f, end |-> Len(packet'), nth |-> Count(content) + (IF Wanted(f) THEN 1 ELSE 0)]
          \in ChunkEntry
    <3>1. Count(content) \in Nat /\ Len(packet') \in Nat
      BY <2>2, CountIsNat DEF TypeOK
    <3> QED
      BY <3>1 DEF ChunkEntry
  <2>4. content' \in Seq(ChunkEntry)
    BY <2>1, <2>3 DEF TypeOK
  <2> QED
    BY <1>1, <2>2, <2>4 DEF AppendChunk, TypeOK
<1>2. CASE SendPacket
  <2> DEFINE size == Len(packet) % Limit
         Frame(type) == <<Signature>> \o Word(size) \o Word(type) \o SubSeq(packet, 1, size)
  <2>1. PICK type \in Types :
             /\ wire' = wire \o Frame(type) /\ stream' = stream \o Frame(type)
             /\ sent' = Append(sent, [type |-> type, content |-> content,
                                  whole |-> Len(packet) < Limit,
                                  start |-> Len(stream), end |-> Len(stream'),
                                  nth |-> Count(sent) + (IF type \in Known THEN 1 ELSE 0)])
    BY <1>2 DEF SendPacket, Transmit
  <2>2. wire' \in Seq(Nat) /\ stream' \in Seq(Nat)
    <3>1. Frame(type) \in Seq(Nat)
      BY FrameIsBytes
    <3> HIDE DEF Frame
    <3> QED
      BY <2>1, <3>1 DEF TypeOK
  <2>3. [type |-> type, content |-> content, whole |-> Len(packet) < Limit,
         start |-> Len(stream), end |-> Len(stream'),
         nth |-> Count(sent) + (IF type \in Known THEN 1 ELSE 0)] \in PacketEntry
    <3>1. Count(sent) \in Nat /\ Len(stream') \in Nat /\ Len(stream) \in Nat
      BY <2>2, CountIsNat DEF TypeOK
    <3>2. content \in Seq(ChunkEntry)
      BY DEF TypeOK
    <3> QED
      BY <3>1, <3>2 DEF PacketEntry
  <2>4. sent' \in Seq(PacketEntry)
    <3>1. sent \in Seq(PacketEntry)
      BY DEF TypeOK
    <3> QED
      BY <2>1, <2>3, <3>1, Appended, Zenon
  <2>5. packet' \in Seq(Nat) /\ content' \in Seq(ChunkEntry)
    BY <1>2 DEF SendPacket
  <2> QED
    BY <1>2, <2>2, <2>4, <2>5 DEF SendPacket, TypeOK
<1>3. CASE SendOther
  BY <1>3, CompactBinaryAssumption DEF SendOther, Transmit, TypeOK
<1> QED
  BY <1>1, <1>2, <1>3

(* Bytes move from the wire to the buffer *)
LEMMA ReceiveStep == ASSUME TypeOK, Receive PROVE TypeOK'
<1>1. PICK n \in 1..Len(wire) :
        /\ buf' = buf \o SubSeq(wire, 1, n)
        /\ wire' = SubSeq(wire, n + 1, Len(wire))
  BY DEF Receive
<1>2. wire' \in Seq(Nat) /\ SubSeq(wire, 1, n) \in Seq(Nat)
  <2>1. wire \in Seq(Nat) /\ Len(wire) \in Nat /\ n \in Nat /\ n <= Len(wire)
    BY DEF TypeOK
  <2>2. SubSeq(wire, 1, n) \in Seq(Nat)
    BY <2>1, PartOfBytes
  <2>3. SubSeq(wire, n + 1, Len(wire)) \in Seq(Nat)
    BY <2>1, PartOfBytes
  <2> QED
    BY <1>1, <2>2, <2>3
<1>3. buf' \in Seq(Nat) /\ Len(buf') >= Len(buf)
  BY <1>1, <1>2 DEF TypeOK
<1> QED
  BY <1>2, <1>3 DEF TypeOK, Receive, sendVars

(* A call that returns leaves the rest of the buffer *)
LEMMA ReturnStep ==
    ASSUME TypeOK, NEW n \in Nat, ReturnCall(n), UNCHANGED <<sendVars, wire, at, left, out>>
    PROVE  TypeOK'
<1>1. buf' \in Seq(Nat)
  BY PartOfBytes, SMTT(40) DEF TypeOK, ReturnCall
<1> QED
  BY <1>1 DEF TypeOK, ReturnCall, sendVars

LEMMA FrameStep ==
    ASSUME TypeOK, NoFrame \/ UnknownCommand \/ Command
    PROVE  TypeOK'
<1>1. CASE NoFrame
  BY <1>1, ReturnStep DEF NoFrame, TypeOK
<1>2. CASE UnknownCommand
  <2>1. FrameEnd \in Nat
    BY <1>2, FrameInBuffer DEF UnknownCommand, TypeOK
  <2> QED
    BY <1>2, <2>1, ReturnStep DEF UnknownCommand
<1>3. CASE Command
  <2>1. FrameSize \in Nat /\ FrameEnd \in ptr..Len(buf)
    BY <1>3, FrameInBuffer DEF Command
  <2>2. FrameType \in Nat
    <3>1. Rest \in Seq(Nat) /\ Len(Rest) >= HeaderSize
      BY <1>3, SMTT(40) DEF Command, TypeOK, HasFrame, Rest
    <3> QED
      BY <3>1, WordIsSize DEF FrameType, HeaderSize
  <2>3. out' \in Seq([type : Nat, values : Seq(Value)])
    BY <1>3, <2>2 DEF Command, TypeOK
  <2> QED
    BY <1>3, <2>1, <2>3 DEF Command, TypeOK, FrameEnd, HeaderSize, sendVars
<1> QED
  BY <1>1, <1>2, <1>3

(* Passing a chunk keeps the end of the packet where it is *)
LEMMA PassStep ==
    ASSUME TypeOK, pc = "chunks", NEW n \in 0..left - ChunkSize, left >= ChunkSize,
           Pass(n), UNCHANGED <<sendVars, wire, buf, pc, ptr>>, out' \in Seq(OutSet)
    PROVE  TypeOK'
<1>1. at' \in Nat /\ left' \in Nat /\ at' + left' = at + left
  BY DEF TypeOK, Pass, ChunkSize
<1> QED
  BY <1>1 DEF TypeOK, sendVars, OutSet

(* A value of the bytes at hand is one, and so is it turned round          *)
LEMMA BytesAtHand ==
    ASSUME TypeOK, pc = "chunks", HasChunk, NEW n \in 0..left - ChunkSize
    PROVE  /\ Bytes(n) \in Seq(Nat)
           /\ \A v \in Seq(Nat) : [id |-> buf[at + 1], type |-> ChunkType, value |-> v] \in Value
           /\ out \in Seq(OutSet)
<1>1. at \in Nat /\ at + ChunkSize + n <= Len(buf) /\ buf \in Seq(Nat) /\ n \in Nat
  BY DEF TypeOK, HasChunk, ChunkSize
<1>2. Bytes(n) \in Seq(Nat)
  BY <1>1, PartOfBytes DEF Bytes, ChunkSize
<1>3. buf[at + 1] \in Nat /\ ChunkType \in Nat
  BY <1>1 DEF ChunkType, ChunkSize
<1> QED
  BY <1>2, <1>3 DEF Value, TypeOK, OutSet

LEMMA ParseStep == ASSUME TypeOK, Parse PROVE TypeOK'
<1> USE DEF InChunk
<1>1. CASE NumberChunk
  <2> DEFINE width == NumberWidth[ChunkType]
  <2>1. width \in {1, 2, 4, 8}
    BY <1>1 DEF NumberChunk, NumberTypes, NumberWidth
  <2>2. pc = "chunks" /\ HasChunk /\ width \in 0..left - ChunkSize /\ left >= ChunkSize
    BY <1>1, <2>1 DEF NumberChunk, HasChunk, ChunkSize, TypeOK
  <2>3. TurnRound(Bytes(width)) \in Seq(Nat)
    BY <2>2, BytesAtHand, TurnedIsBytes
  <2>4. SetValue(TurnRound(Bytes(width))) /\ Pass(width)
    BY <1>1 DEF NumberChunk
  <2>5. out' \in Seq(OutSet)
    BY <2>2, <2>3, <2>4, BytesAtHand, ValueAdded DEF SetValue
  <2> QED
    BY <1>1, <2>2, <2>4, <2>5, PassStep DEF NumberChunk
<1>2. CASE ShortNumber
  BY <1>2, PassStep, BytesAtHand DEF ShortNumber, HasChunk, ChunkSize, TypeOK
<1>3. CASE ValueChunk
  <2>1. pc = "chunks" /\ HasChunk /\ ChunkLength \in 0..left - ChunkSize /\ left >= ChunkSize
    BY <1>3, ChunkInPacket DEF ValueChunk, HasChunk
  <2>2. SetValue(Bytes(ChunkLength)) /\ Pass(ChunkLength)
    BY <1>3 DEF ValueChunk
  <2>3. out' \in Seq(OutSet)
    BY <2>1, <2>2, BytesAtHand, ValueAdded DEF SetValue
  <2> QED
    BY <1>3, <2>1, <2>2, <2>3, PassStep DEF ValueChunk
<1>4. CASE OtherChunk
  BY <1>4, PassStep, ChunkInPacket, BytesAtHand DEF OtherChunk, HasChunk
<1>5. CASE EndPacket
  BY <1>5 DEF EndPacket, TypeOK, sendVars
<1> QED
  BY <1>1, <1>2, <1>3, <1>4, <1>5 DEF Parse

LEMMA InitiallyTypes == Init => TypeOK
<1> SUFFICES ASSUME Init PROVE TypeOK
  OBVIOUS
<1>1. \A S : <<>> \in Seq(S) /\ Len(<<>>) = 0
  OBVIOUS
<1>2. /\ packet \in Seq(Nat) /\ content \in Seq(ChunkEntry) /\ sent \in Seq(PacketEntry)
      /\ stream \in Seq(Nat) /\ wire \in Seq(Nat) /\ buf \in Seq(Nat)
  BY <1>1 DEF Init
<1>3. out \in Seq([type : Nat, values : Seq(Value)])
  BY <1>1 DEF Init
<1>4. strange \in BOOLEAN /\ pc = "wait" /\ at \in Nat /\ left \in Nat
  BY DEF Init
<1>5. ptr \in 0..Len(buf)
  BY <1>1 DEF Init
<1>6. pc \in {"wait", "frames", "chunks"} /\ pc # "chunks"
  BY <1>4
<1> QED
  BY <1>2, <1>3, <1>4, <1>5, <1>6 DEF TypeOK

(* ParsePacket and DoProcessCB read within the bytes they were given,      *)
(* whatever a peer sends and however it is cut: each length is compared    *)
(* with what is left before it is used (ParsePacket, DoProcessCB).         *)
THEOREM StaysInPacket == Spec => []TypeOK
<1>1. Init => TypeOK
  BY InitiallyTypes
<1>2. TypeOK /\ [Next]_vars => TypeOK'
  <2> SUFFICES ASSUME TypeOK, [Next]_vars PROVE TypeOK'
    OBVIOUS
  <2>1. CASE AppendChunk \/ SendPacket \/ SendOther
    BY <2>1, SendStep
  <2>2. CASE Receive
    BY <2>2, ReceiveStep
  <2>3. CASE NoFrame \/ UnknownCommand \/ Command
    BY <2>3, FrameStep
  <2>4. CASE Parse
    BY <2>4, ParseStep
  <2>5. CASE UNCHANGED vars
    BY <2>5 DEF vars, sendVars, TypeOK
  <2> QED
    BY <2>1, <2>2, <2>3, <2>4, <2>5 DEF Next, Process
<1> QED
  BY <1>1, <1>2, PTL DEF Spec

-----------------------------------------------------------------------------
(* What is sent is what is handled.                                        *)

(* Where chunk m ends, and how many are counted up to entry m              *)
EndOf(chunks, m) == IF m = 0 THEN 0 ELSE chunks[m].end
CountTo(entries, m) == IF m = 0 THEN 0 ELSE entries[m].nth

(* The bytes behind the first o are those of a chunk.                      *)
ChunkAt(bytes, o, f) ==
    /\ bytes[o + 1] = f.id /\ bytes[o + 2] = f.type
    /\ Len(f.value) < Limit => WordAt(bytes, o + 3) = Len(f.value)
    /\ \A x \in 1..Len(f.value) : bytes[o + ChunkSize + x] = f.value[x]

(* Chunks lie one behind the other, and are counted.                       *)
InOrder(chunks) ==
    \A m \in DOMAIN chunks :
        /\ chunks[m].end = EndOf(chunks, m - 1) + ChunkSize
                             + Len(chunks[m].form.value) + Len(chunks[m].form.spare)
        /\ chunks[m].end <= EndOf(chunks, Len(chunks))
        /\ chunks[m].nth = CountTo(chunks, m - 1) + (IF Wanted(chunks[m].form) THEN 1 ELSE 0)

LieIn(bytes, o, chunks) ==
    \A m \in DOMAIN chunks : ChunkAt(bytes, o + EndOf(chunks, m - 1), chunks[m].form)

BuildInv ==
    /\ InOrder(content) /\ LieIn(packet, 0, content)
    /\ Len(packet) = EndOf(content, Len(content))

(* Behind the first p bytes comes one that is no signature.                *)
Foreign(bytes, p) == p < Len(bytes) /\ bytes[p + 1] # Signature

(* The bytes of a packet say what it is.                                   *)
PacketAt(bytes, p) ==
    /\ p.start + HeaderSize <= p.end /\ p.end <= Len(bytes)
    /\ bytes[p.start + 1] = Signature
    /\ WordAt(bytes, p.start + 2) = p.end - p.start - HeaderSize
    /\ WordAt(bytes, p.start + 4) = p.type
    /\ InOrder(p.content)
    /\ p.whole =>
         /\ LieIn(bytes, p.start + HeaderSize, p.content)
         /\ p.end = p.start + HeaderSize + EndOf(p.content, Len(p.content))
         /\ p.end - p.start - HeaderSize < Limit

(* Where packet c begins, or the next that will be sent                    *)
StartOf(packets, bytes, c) ==
    IF c = Len(packets) + 1 THEN Len(bytes) ELSE packets[c].start

(* Behind the first p bytes comes packet c, or (only if odd) a byte that   *)
(* is no signature                                                         *)
Follows(packets, bytes, odd, p, c) ==
    \/ p = StartOf(packets, bytes, c)
    \/ odd /\ Foreign(bytes, p)

(* The packets are counted, and so are the commands among them.            *)
StreamInv ==
    /\ \A k \in DOMAIN sent :
         /\ PacketAt(stream, sent[k])
         /\ Follows(sent, stream, strange, sent[k].end, k + 1)
         /\ sent[k].nth = CountTo(sent, k - 1) + (IF sent[k].type \in Known THEN 1 ELSE 0)
    /\ \A k, l \in DOMAIN sent : k < l =>
         /\ sent[k].end <= sent[l].start
         /\ sent[k].nth <= sent[l].nth
         /\ sent[l].type \in Known => sent[k].nth < sent[l].nth

(* Bytes that were cut off the buffer                                      *)
Gone == Len(stream) - Len(wire) - Len(buf)

BufferInv ==
    /\ Gone >= 0
    /\ \A x \in 1..Len(buf) : buf[x] = stream[Gone + x]
    /\ \A x \in 1..Len(wire) : wire[x] = stream[Gone + Len(buf) + x]

(* c packets are done, and the next begins at ptr if it begins at all.     *)
Between(c) ==
    /\ Len(out) = CountTo(sent, c)
    /\ Follows(sent, stream, strange, Gone + ptr, c + 1)
    /\ pc = "wait" => ptr = 0 /\ (strange \/ \A k \in c + 1..Len(sent) : ~HaveArrived(k))

(* The handler of packet c has parsed some of its chunks.                  *)
Inside(c) ==
    /\ sent[c].type \in Known /\ Len(out) = sent[c].nth
    /\ Gone + ptr = sent[c].end /\ at + left = ptr
    /\ Fits(sent[c]) => \E m \in 0..Len(sent[c].content) :
         /\ Gone + at = sent[c].start + HeaderSize + EndOf(sent[c].content, m)
         /\ Len(out[Len(out)].values) = CountTo(sent[c].content, m)

PlaceInv ==
    /\ pc # "chunks" => \E c \in 0..Len(sent) : Between(c)
    /\ pc = "chunks" => \E c \in 1..Len(sent) : Inside(c)

IInv ==
    /\ TypeOK /\ BuildInv /\ StreamInv /\ BufferInv /\ PlaceInv
    /\ FramesAsSent /\ ChunksAsAppended

LEMMA Joined ==
    ASSUME NEW a \in Seq(Nat), NEW b \in Seq(Nat)
    PROVE  /\ a \o b \in Seq(Nat) /\ Len(a \o b) = Len(a) + Len(b)
           /\ Len(a) \in Nat /\ Len(b) \in Nat
           /\ \A x \in 1..Len(a) : (a \o b)[x] = a[x]
           /\ \A x \in 1..Len(b) : (a \o b)[Len(a) + x] = b[x]
  OBVIOUS

(* Sequences of bytes, one behind the other: of these only what JoinFacts   *)
(* says is to be used                                                      *)
ByteSeq == Seq(Nat)
Size(s) == Len(s)
Join(a, b) == a \o b

LEMMA JoinFacts ==
    ASSUME NEW a \in ByteSeq, NEW b \in ByteSeq
    PROVE  /\ Join(a, b) \in ByteSeq /\ Size(Join(a, b)) = Size(a) + Size(b)
           /\ \A x \in 1..Size(a) : Join(a, b)[x] = a[x]
           /\ \A x \in 1..Size(b) : Join(a, b)[Size(a) + x] = b[x]
BY Joined, Zenon DEF ByteSeq, Join, Size

LEMMA SizeIsNat == \A s \in ByteSeq : Size(s) \in Nat
  BY DEF ByteSeq, Size

(* Quotient and remainder                                                  *)
LEMMA Quotient ==
    ASSUME NEW n \in Nat, NEW b \in Nat, b > 0
    PROVE  \E q \in Nat, r \in Nat : q = n \div b /\ r = n % b /\ q * b + r = n
<1>1. ASSUME NEW q \in Nat, NEW r \in 0..b - 1, n = q * b + r PROVE n % b = r
  BY <1>1, SMTT(30)
<1> DEFINE q == n \div b
           r == n - q * b
<1>2. q \in Nat
  OBVIOUS
<1>3. q * b \in Nat
  BY <1>2
<1>4. r >= 0
  BY SMTT(30)
<1>5. n < q * b + b
  BY SMTT(30)
<1>6. r \in 0..b - 1 /\ n = q * b + r
  BY <1>3, <1>4, <1>5
<1> HIDE DEF q, r
<1>7. n % b = r /\ r \in Nat /\ q * b + r = n
  BY <1>1, <1>2, <1>6
<1> QED
  BY <1>2, <1>6, <1>7, Zenon DEF q

(* A word that was written is read                                         *)
LEMMA WordIsRead ==
    ASSUME NEW n \in Nat, n < Limit
    PROVE  /\ Word(n) \in Seq(Nat) /\ Len(Word(n)) = 2
           /\ Word(n)[1] * Base + Word(n)[2] = n
<1>1. Base \in Nat /\ Base > 0 /\ Limit \in Nat
  BY CompactBinaryAssumption DEF Limit
<1>2. n % Limit = n
  BY <1>1
<1>3. PICK q \in Nat, r \in Nat : q = n \div Base /\ r = n % Base /\ q * Base + r = n
  BY <1>1, Quotient
<1>4. Word(n) = <<q, r>>
  BY <1>2, <1>3 DEF Word
<1>5. Word(n)[1] = q /\ Word(n)[2] = r /\ Len(Word(n)) = 2
  BY <1>4
<1> QED
  BY <1>3, <1>5, WordIsBytes

(* Two bytes                                                               *)
Pair(a, b) == <<a, b>>

LEMMA PairFacts ==
    ASSUME NEW a \in Nat, NEW b \in Nat
    PROVE  Pair(a, b) \in ByteSeq /\ Size(Pair(a, b)) = 2 /\ Pair(a, b)[1] = a /\ Pair(a, b)[2] = b
  BY DEF Pair, ByteSeq, Size

LEMMA WordFacts ==
    ASSUME NEW n \in Nat
    PROVE  /\ Word(n) \in ByteSeq /\ Size(Word(n)) = 2
           /\ n < Limit => Word(n)[1] * Base + Word(n)[2] = n
<1>1. Len(Word(n)) = 2
  BY DEF Word
<1> QED
  BY <1>1, WordIsBytes, WordIsRead, Zenon DEF ByteSeq, Size

(* What a chunk is written as                                              *)
LEMMA PartsJoined ==
    ASSUME NEW id \in Nat, NEW type \in Nat, NEW value \in ByteSeq, NEW spare \in ByteSeq,
           NEW c, c = Join(Join(Join(Pair(id, type), Word(Size(value))), value), spare)
    PROVE  /\ c \in ByteSeq
           /\ Size(c) = 4 + Size(value) + Size(spare)
           /\ c[1] = id /\ c[2] = type
           /\ Size(value) < Limit => WordAt(c, 3) = Size(value)
           /\ \A x \in 1..Size(value) : c[4 + x] = value[x]
<1> DEFINE n == Size(value)
           h == Pair(id, type)
           w == Word(n)
           a == Join(h, w)
           v == Join(a, value)
<1>0. c = Join(v, spare) /\ n \in Nat /\ Size(spare) \in Nat
  BY SizeIsNat
<1>1. h \in ByteSeq /\ Size(h) = 2 /\ h[1] = id /\ h[2] = type
  BY PairFacts
<1>2. w \in ByteSeq /\ Size(w) = 2 /\ (n < Limit => w[1] * Base + w[2] = n)
  BY <1>0, WordFacts
<1> HIDE DEF h, w, a, v
<1>3. /\ a \in ByteSeq /\ Size(a) = Size(h) + Size(w)
      /\ \A x \in 1..Size(h) : a[x] = h[x]
      /\ \A x \in 1..Size(w) : a[Size(h) + x] = w[x]
  BY <1>1, <1>2, JoinFacts, Zenon DEF a
<1>4. /\ v \in ByteSeq /\ Size(v) = Size(a) + n
      /\ \A x \in 1..Size(a) : v[x] = a[x]
      /\ \A x \in 1..n : v[Size(a) + x] = value[x]
  BY <1>3, JoinFacts, Zenon DEF v
<1>5. /\ c \in ByteSeq /\ Size(c) = Size(v) + Size(spare)
      /\ \A x \in 1..Size(v) : c[x] = v[x]
  <2> DEFINE d == Join(v, spare)
  <2>1. /\ d \in ByteSeq /\ Size(d) = Size(v) + Size(spare)
        /\ \A x \in 1..Size(v) : d[x] = v[x]
    BY <1>4, JoinFacts, Zenon
  <2>2. c = d
    BY <1>0
  <2> HIDE DEF d
  <2> QED
    BY <2>1, <2>2
<1> HIDE DEF n
<1>6. Size(a) = 4 /\ Size(v) = 4 + n /\ Size(c) = 4 + n + Size(spare)
  BY <1>0, <1>1, <1>2, <1>3, <1>4, <1>5
<1>7. a[1] = h[1] /\ a[2] = h[2] /\ a[3] = w[1] /\ a[4] = w[2]
  <2>1. /\ 1 \in 1..2 /\ 2 \in 1..2 /\ 2 + 1 = 3 /\ 2 + 2 = 4
    OBVIOUS
  <2> QED
    BY <1>1, <1>2, <1>3, <2>1, Zenon
<1>8. /\ \A x \in 1..4 : c[x] = a[x]
      /\ \A x \in 1..n : c[4 + x] = value[x]
  <2>1. /\ \A x \in 1..4 : x \in 1..4 + n
        /\ \A x \in 1..n : 4 + x \in 1..4 + n
    BY <1>0
  <2> QED
    BY <1>4, <1>5, <1>6, <2>1, Zenon
<1>9. c[1] = id /\ c[2] = type /\ c[3] = w[1] /\ c[4] = w[2]
  <2>1. 1 \in 1..4 /\ 2 \in 1..4 /\ 3 \in 1..4 /\ 4 \in 1..4
    OBVIOUS
  <2> QED
    BY <1>1, <1>7, <1>8, <2>1, Zenon
<1>10. n < Limit => WordAt(c, 3) = n
  BY <1>2, <1>9 DEF WordAt
<1> QED
  BY <1>5, <1>6, <1>8, <1>9, <1>10, Zenon DEF n

LEMMA ChunkParts ==
    ASSUME NEW f \in Forms
    PROVE  /\ Chunk(f) \in ByteSeq /\ Size(f.value) \in Nat /\ Size(f.spare) \in Nat
           /\ Size(Chunk(f)) = ChunkSize + Size(f.value) + Size(f.spare)
           /\ ChunkAt(Chunk(f), 0, f)
<1>1. f.id \in Nat /\ f.type \in Nat /\ f.value \in ByteSeq /\ f.spare \in ByteSeq
  BY CompactBinaryAssumption DEF ByteSeq
<1>2. /\ Chunk(f) = Join(Join(Join(Pair(f.id, f.type), Word(Size(f.value))), f.value), f.spare)
      /\ Size(f.value) \in Nat /\ Size(f.spare) \in Nat
  BY <1>1, SizeIsNat, Zenon DEF Chunk, Join, Pair, Size
<1>3. ASSUME NEW value, value = f.value, NEW spare, spare = f.spare
      PROVE  /\ Chunk(f) \in ByteSeq
             /\ Size(Chunk(f)) = 4 + Size(value) + Size(spare)
             /\ Chunk(f)[1] = f.id /\ Chunk(f)[2] = f.type
             /\ Size(value) < Limit => WordAt(Chunk(f), 3) = Size(value)
             /\ \A x \in 1..Size(value) : Chunk(f)[4 + x] = value[x]
  <2>1. value \in ByteSeq /\ spare \in ByteSeq
    BY <1>1, <1>3
  <2>2. Chunk(f) = Join(Join(Join(Pair(f.id, f.type), Word(Size(value))), value), spare)
    BY <1>2, <1>3, Zenon
  <2> QED
    BY <1>1, <2>1, <2>2, PartsJoined
<1>4. /\ 0 + 1 = 1 /\ 0 + 2 = 2 /\ 0 + 3 = 3 /\ ChunkSize = 4
      /\ \A x \in 1..Size(f.value) : 0 + ChunkSize + x = 4 + x
  BY <1>2 DEF ChunkSize
<1>5. /\ Chunk(f) \in ByteSeq
      /\ Size(Chunk(f)) = 4 + Size(f.value) + Size(f.spare)
      /\ Chunk(f)[1] = f.id /\ Chunk(f)[2] = f.type
      /\ Size(f.value) < Limit => WordAt(Chunk(f), 3) = Size(f.value)
      /\ \A x \in 1..Size(f.value) : Chunk(f)[4 + x] = f.value[x]
  BY <1>3, Zenon
<1> QED
  BY <1>2, <1>4, <1>5, Zenon DEF ChunkAt, Size

(* t is s with the entry e appended                                        *)
Grown(s, t, e) ==
    /\ Len(s) \in Nat /\ Len(t) = Len(s) + 1 /\ t[Len(s) + 1] = e
    /\ DOMAIN s = 1..Len(s) /\ DOMAIN t = 1..Len(t)
    /\ \A m \in 1..Len(s) : t[m] = s[m]
    /\ \A m \in 0..Len(s) : EndOf(t, m) = EndOf(s, m) /\ CountTo(t, m) = CountTo(s, m)
    /\ EndOf(t, Len(s) + 1) = e.end /\ CountTo(t, Len(s) + 1) = e.nth

LEMMA EntriesAppended ==
    ASSUME NEW S, NEW s \in Seq(S), NEW e \in S, NEW t, t = Append(s, e)
    PROVE  Grown(s, t, e)
<1>1. /\ Len(s) \in Nat /\ Len(t) = Len(s) + 1 /\ t[Len(s) + 1] = e
      /\ DOMAIN s = 1..Len(s) /\ DOMAIN t = 1..Len(t)
      /\ \A m \in 1..Len(s) : t[m] = s[m]
  BY Appended
<1>2. /\ \A m \in 0..Len(s) : m = 0 \/ m \in 1..Len(s)
      /\ Len(s) + 1 # 0
  BY <1>1
<1> QED
  BY <1>1, <1>2, Zenon DEF EndOf, CountTo, Grown

LEMMA CountIsLast ==
    ASSUME NEW S, NEW s \in Seq(S)
    PROVE  Count(s) = CountTo(s, Len(s))
<1>1. s = <<>> <=> Len(s) = 0
  OBVIOUS
<1> QED
  BY <1>1, Zenon DEF Count, CountTo, Last

LEMMA ChunkEntries ==
    ASSUME NEW chunks \in Seq(ChunkEntry)
    PROVE  /\ Len(chunks) \in Nat /\ DOMAIN chunks = 1..Len(chunks)
           /\ \A m \in 0..Len(chunks) : EndOf(chunks, m) \in Nat /\ CountTo(chunks, m) \in Nat
           /\ \A m \in 1..Len(chunks) :
                /\ chunks[m].form \in Forms /\ chunks[m].end \in Nat /\ chunks[m].nth \in Nat
                /\ Len(chunks[m].form.value) \in Nat /\ Len(chunks[m].form.spare) \in Nat
<1>1. /\ Len(chunks) \in Nat /\ DOMAIN chunks = 1..Len(chunks)
      /\ \A m \in 1..Len(chunks) : chunks[m] \in ChunkEntry
  BY ElementOf
<1>2. \A e \in ChunkEntry : e.form \in Forms /\ e.end \in Nat /\ e.nth \in Nat
  BY DEF ChunkEntry
<1>3. \A f \in Forms : Len(f.value) \in Nat /\ Len(f.spare) \in Nat
  BY CompactBinaryAssumption
<1>4. 0 \in Nat /\ \A m \in 0..Len(chunks) : m = 0 \/ m \in 1..Len(chunks)
  BY <1>1
<1> QED
  BY <1>1, <1>2, <1>3, <1>4, Zenon DEF EndOf, CountTo

(* The same bytes elsewhere are the same chunk                             *)
LEMMA ChunkMoved ==
    ASSUME NEW b, NEW o \in Nat, NEW f, ChunkAt(b, o, f), Len(f.value) \in Nat,
           NEW c, NEW p \in Nat,
           \A x \in 1..ChunkSize + Len(f.value) : c[p + x] = b[o + x]
    PROVE  ChunkAt(c, p, f)
<1>1. ASSUME NEW n \in Nat
      PROVE  /\ 1 \in 1..ChunkSize + n /\ 2 \in 1..ChunkSize + n
             /\ 3 \in 1..ChunkSize + n /\ 4 \in 1..ChunkSize + n
             /\ \A x \in 1..n : ChunkSize + x \in 1..ChunkSize + n
  BY DEF ChunkSize
<1>2. \A q \in Nat : q + 3 + 1 = q + 4 /\ \A x \in Nat : q + ChunkSize + x = q + (ChunkSize + x)
  BY DEF ChunkSize
<1>3. c[p + 1] = b[o + 1] /\ c[p + 2] = b[o + 2] /\ c[p + 3] = b[o + 3] /\ c[p + 4] = b[o + 4]
  BY <1>1, Zenon
<1>4. WordAt(c, p + 3) = WordAt(b, o + 3)
  BY <1>2, <1>3, Zenon DEF WordAt
<1>5. \A x \in 1..Len(f.value) : c[p + ChunkSize + x] = b[o + ChunkSize + x]
  <2>1. \A x \in 1..Len(f.value) : x \in Nat
    OBVIOUS
  <2> QED
    BY <1>1, <1>2, <2>1, Zenon
<1> QED
  BY <1>3, <1>4, <1>5, Zenon DEF ChunkAt

LEMMA ChunksMoved ==
    ASSUME NEW chunks \in Seq(ChunkEntry), InOrder(chunks),
           NEW b, NEW o \in Nat, LieIn(b, o, chunks), NEW c, NEW p \in Nat,
           \A x \in 1..EndOf(chunks, Len(chunks)) : c[p + x] = b[o + x]
    PROVE  LieIn(c, p, chunks)
<1> SUFFICES ASSUME NEW m \in DOMAIN chunks
             PROVE  ChunkAt(c, p + EndOf(chunks, m - 1), chunks[m].form)
  BY DEF LieIn
<1> DEFINE e == EndOf(chunks, m - 1)
           n == Len(chunks[m].form.value)
           z == EndOf(chunks, Len(chunks))
<1>1. m \in 1..Len(chunks) /\ m - 1 \in 0..Len(chunks) /\ Len(chunks) \in 0..Len(chunks)
  BY ChunkEntries
<1>2. e \in Nat /\ n \in Nat /\ z \in Nat /\ Len(chunks[m].form.spare) \in Nat
  BY <1>1, ChunkEntries, Zenon
<1>3. ChunkAt(b, o + e, chunks[m].form)
  BY Zenon DEF LieIn
<1>4. chunks[m].end = e + ChunkSize + n + Len(chunks[m].form.spare) /\ chunks[m].end <= z
  BY Zenon DEF InOrder
<1> HIDE DEF e, n, z
<1>5. e + ChunkSize + n <= z
  <2>1. \A l \in Nat : \A y : y = e + ChunkSize + n + l /\ y <= z => e + ChunkSize + n <= z
    BY <1>2 DEF ChunkSize
  <2> QED
    BY <1>2, <1>4, <2>1, Zenon
<1>6. ASSUME NEW x \in 1..ChunkSize + n PROVE c[p + e + x] = b[o + e + x]
  <2>1. e + x \in 1..z /\ p + e + x = p + (e + x) /\ o + e + x = o + (e + x)
    BY <1>2, <1>5 DEF ChunkSize
  <2> QED
    BY <2>1, Zenon DEF z
<1>7. p + e \in Nat /\ o + e \in Nat
  BY <1>2
<1> QED
  BY <1>2, <1>3, <1>6, <1>7, ChunkMoved, Zenon DEF e, n

(* A chunk is appended behind the others                                   *)
LEMMA AppendChunkBuilds == ASSUME TypeOK, BuildInv, AppendChunk PROVE BuildInv'
<1>1. PICK f \in Forms :
        /\ packet' = packet \o Chunk(f)
        /\ content' = Append(content, [form |-> f, end |-> Len(packet'),
                                       nth |-> Count(content) + (IF Wanted(f) THEN 1 ELSE 0)])
  BY DEF AppendChunk
<1> DEFINE l == Len(content)
           e == [form |-> f, end |-> Len(packet'),
                 nth |-> Count(content) + (IF Wanted(f) THEN 1 ELSE 0)]
<1>2. TypeOK'
  BY SendStep
<1>3. e \in ChunkEntry
  <2>1. Count(content) \in Nat /\ Len(packet') \in Nat
    BY <1>2, CountIsNat DEF TypeOK
  <2> QED
    BY <2>1 DEF ChunkEntry
<1>4. content \in Seq(ChunkEntry) /\ packet \in ByteSeq /\ content' = Append(content, e)
  BY <1>1 DEF TypeOK, ByteSeq
<1>5. e.form = f /\ e.end = Size(packet')
      /\ e.nth = CountTo(content, l) + (IF Wanted(f) THEN 1 ELSE 0)
  BY <1>4, CountIsLast DEF Size
<1> HIDE DEF e
<1>6. /\ l \in Nat /\ Len(content') = l + 1 /\ content'[l + 1] = e
      /\ DOMAIN content = 1..l /\ DOMAIN content' = 1..Len(content')
      /\ \A m \in 1..l : content'[m] = content[m]
      /\ \A m \in 0..l : /\ EndOf(content', m) = EndOf(content, m)
                          /\ CountTo(content', m) = CountTo(content, m)
      /\ EndOf(content', l + 1) = e.end
  <2>1. Grown(content, content', e)
    BY <1>3, <1>4, EntriesAppended
  <2> QED
    BY <2>1, Zenon DEF Grown
<1> HIDE DEF l
<1>7. /\ Chunk(f) \in ByteSeq /\ Size(f.value) \in Nat /\ Size(f.spare) \in Nat
      /\ Size(Chunk(f)) = ChunkSize + Size(f.value) + Size(f.spare)
      /\ ChunkAt(Chunk(f), 0, f)
  BY ChunkParts
<1>8. /\ packet' \in ByteSeq /\ Size(packet') = Size(packet) + Size(Chunk(f))
      /\ \A x \in 1..Size(packet) : packet'[x] = packet[x]
      /\ \A x \in 1..Size(Chunk(f)) : packet'[Size(packet) + x] = Chunk(f)[x]
      /\ Size(packet) \in Nat
  <2>1. packet' = Join(packet, Chunk(f))
    BY <1>1, Zenon DEF Join
  <2> QED
    BY <1>4, <1>7, <2>1, JoinFacts, SizeIsNat, Zenon
<1>9. InOrder(content) /\ LieIn(packet, 0, content) /\ Size(packet) = EndOf(content, l)
  BY Zenon DEF BuildInv, Size, l
<1>10. \A m \in 1..l + 1 : m = l + 1 \/ (m \in 1..l /\ m - 1 \in 0..l)
  BY <1>6
<1>11. l + 1 - 1 = l /\ l \in 0..l
  BY <1>6
<1>12. Size(packet') = EndOf(content, l) + ChunkSize + Size(f.value) + Size(f.spare)
       /\ EndOf(content, l) <= Size(packet')
  <2>1. \A q, v, w \in Nat : /\ q + (ChunkSize + v + w) = q + ChunkSize + v + w
                             /\ q <= q + (ChunkSize + v + w)
    BY DEF ChunkSize
  <2> DEFINE q == Size(packet)
             r == q + (ChunkSize + Size(f.value) + Size(f.spare))
  <2>2. r = q + ChunkSize + Size(f.value) + Size(f.spare) /\ q <= r
    BY <1>7, <1>8, <2>1, Zenon
  <2>3. Size(packet') = r /\ EndOf(content, l) = q
    BY <1>7, <1>8, <1>9, Zenon
  <2> HIDE DEF q, r
  <2> QED
    BY <2>2, <2>3, Zenon
<1>13. InOrder(content')
  <2> SUFFICES ASSUME NEW m \in 1..l + 1
               PROVE  /\ content'[m].end = EndOf(content', m - 1) + ChunkSize
                             + Len(content'[m].form.value) + Len(content'[m].form.spare)
                      /\ content'[m].end <= EndOf(content', l + 1)
                      /\ content'[m].nth = CountTo(content', m - 1)
                                             + (IF Wanted(content'[m].form) THEN 1 ELSE 0)
    BY <1>6, Zenon DEF InOrder
  <2>1. CASE m = l + 1
    <3>1. content'[m] = e /\ EndOf(content', m - 1) = EndOf(content, l)
          /\ CountTo(content', m - 1) = CountTo(content, l)
      <4>1. m - 1 = l
        BY <1>6, <2>1
      <4> QED
        BY <1>6, <1>11, <2>1, <4>1, Zenon
    <3>2. Size(packet') <= Size(packet')
      BY <1>8, <1>7 DEF ChunkSize
    <3> QED
      BY <1>5, <1>6, <1>12, <3>1, <3>2, Zenon DEF Size
  <2>2. CASE m \in 1..l /\ m - 1 \in 0..l
    <3>1. /\ content'[m] = content[m] /\ EndOf(content', m - 1) = EndOf(content, m - 1)
          /\ CountTo(content', m - 1) = CountTo(content, m - 1)
      BY <1>6, <2>2, Zenon
    <3>2. /\ content[m].end = EndOf(content, m - 1) + ChunkSize
                             + Len(content[m].form.value) + Len(content[m].form.spare)
          /\ content[m].end <= EndOf(content, l)
          /\ content[m].nth = CountTo(content, m - 1)
                                             + (IF Wanted(content[m].form) THEN 1 ELSE 0)
      BY <1>6, <1>9, <2>2, Zenon DEF InOrder, l
    <3>3. content[m].end <= Size(packet')
      <4>1. content[m].end \in Nat /\ EndOf(content, l) \in Nat
        BY <1>4, <1>6, <2>2, <1>11, ChunkEntries, Zenon DEF l
      <4>2. \A u, v, w \in Nat : u <= v /\ v <= w => u <= w
        OBVIOUS
      <4>3. Size(packet') \in Nat
        BY <1>8, SizeIsNat
      <4> QED
        BY <1>12, <3>2, <4>1, <4>2, <4>3, Zenon
    <3> QED
      BY <1>5, <1>6, <3>1, <3>2, <3>3, Zenon
  <2> QED
    BY <1>10, <2>1, <2>2
<1>14. LieIn(packet', 0, content')
  <2>1. \A o \in Nat : 0 + o = o
    OBVIOUS
  <2>2. LieIn(packet', 0, content)
    <3>1. \A x \in 1..EndOf(content, Len(content)) : packet'[0 + x] = packet[0 + x]
      <4>1. \A x \in 1..Size(packet) : 0 + x = x
        BY <1>8
      <4> QED
        BY <1>8, <1>9, <4>1, Zenon DEF l
    <3> QED
      BY <1>4, <1>9, <3>1, ChunksMoved
  <2>3. ChunkAt(packet', Size(packet), f)
    <3>1. \A x \in 1..ChunkSize + Len(f.value) :
            packet'[Size(packet) + x] = Chunk(f)[0 + x]
      <4>1. \A u, v \in Nat : \A x \in 1..ChunkSize + u :
              x \in 1..ChunkSize + u + v /\ 0 + x = x
        BY DEF ChunkSize
      <4> QED
        BY <1>7, <1>8, <4>1, Zenon DEF Size
    <3>2. 0 \in Nat
      OBVIOUS
    <3> QED
      BY <1>7, <1>8, <3>1, <3>2, ChunkMoved, Zenon DEF Size
  <2> SUFFICES ASSUME NEW m \in 1..l + 1
               PROVE  ChunkAt(packet', 0 + EndOf(content', m - 1), content'[m].form)
    BY <1>6, Zenon DEF LieIn
  <2>4. CASE m = l + 1
    <3>1. content'[m] = e /\ m - 1 = l
      BY <1>6, <2>4
    <3>2. 0 + EndOf(content', l) = Size(packet)
      BY <1>6, <1>8, <1>9, <1>11, <2>1, Zenon
    <3> QED
      BY <1>5, <2>3, <3>1, <3>2, Zenon
  <2>5. CASE m \in 1..l /\ m - 1 \in 0..l
    BY <1>6, <2>2, <2>5, Zenon DEF LieIn
  <2> QED
    BY <1>10, <2>4, <2>5
<1> QED
  BY <1>5, <1>6, <1>13, <1>14, Zenon DEF BuildInv, Size

(* What a packet is sent as                                                *)
Lead == <<Signature>>
Frame(size, type, body) == Join(Join(Join(Lead, Word(size)), Word(type)), body)

LEMMA FrameJoined ==
    ASSUME NEW size \in Nat, size < Limit, NEW type \in Nat, type < Limit, NEW body \in ByteSeq
    PROVE  LET c == Frame(size, type, body) IN
           /\ c \in ByteSeq /\ Size(c) = HeaderSize + Size(body)
           /\ c[1] = Signature /\ WordAt(c, 2) = size /\ WordAt(c, 4) = type
           /\ \A x \in 1..Size(body) : c[HeaderSize + x] = body[x]
<1> DEFINE c == Frame(size, type, body)
           h == Lead
           w == Word(size)
           u == Word(type)
           a == Join(h, w)
           v == Join(a, u)
<1>0. c = Join(v, body) /\ Size(body) \in Nat
  BY SizeIsNat DEF Frame
<1>1. h \in ByteSeq /\ Size(h) = 1 /\ h[1] = Signature
  BY CompactBinaryAssumption DEF ByteSeq, Size, Lead
<1>2. w \in ByteSeq /\ Size(w) = 2 /\ w[1] * Base + w[2] = size
  BY WordFacts
<1>3. u \in ByteSeq /\ Size(u) = 2 /\ u[1] * Base + u[2] = type
  BY WordFacts
<1> HIDE DEF c, h, w, u, a, v
<1>4. /\ a \in ByteSeq /\ Size(a) = Size(h) + Size(w)
      /\ \A x \in 1..Size(h) : a[x] = h[x]
      /\ \A x \in 1..Size(w) : a[Size(h) + x] = w[x]
  BY <1>1, <1>2, JoinFacts, Zenon DEF a
<1>5. /\ v \in ByteSeq /\ Size(v) = Size(a) + Size(u)
      /\ \A x \in 1..Size(a) : v[x] = a[x]
      /\ \A x \in 1..Size(u) : v[Size(a) + x] = u[x]
  BY <1>3, <1>4, JoinFacts, Zenon DEF v
<1>6. /\ c \in ByteSeq /\ Size(c) = Size(v) + Size(body)
      /\ \A x \in 1..Size(v) : c[x] = v[x]
      /\ \A x \in 1..Size(body) : c[Size(v) + x] = body[x]
  <2> DEFINE d == Join(v, body)
  <2>1. /\ d \in ByteSeq /\ Size(d) = Size(v) + Size(body)
        /\ \A x \in 1..Size(v) : d[x] = v[x]
        /\ \A x \in 1..Size(body) : d[Size(v) + x] = body[x]
    BY <1>5, JoinFacts, Zenon
  <2>2. c = d
    BY <1>0
  <2> HIDE DEF d
  <2> QED
    BY <2>1, <2>2
<1>7. Size(a) = 3 /\ Size(v) = 5 /\ Size(c) = 5 + Size(body)
  BY <1>0, <1>1, <1>2, <1>3, <1>4, <1>5, <1>6
<1>8. /\ 1 \in 1..1 /\ 1 \in 1..2 /\ 2 \in 1..2 /\ 1 + 1 = 2 /\ 1 + 2 = 3
      /\ 3 + 1 = 4 /\ 3 + 2 = 5 /\ \A x \in 1..3 : x \in 1..5
      /\ 1 \in 1..3 /\ 2 \in 1..3 /\ 3 \in 1..3 /\ 4 \in 1..5 /\ 5 \in 1..5
      /\ 2 + 1 = 3 /\ 4 + 1 = 5 /\ HeaderSize = 5
  BY DEF HeaderSize
<1>9. a[1] = h[1] /\ a[2] = w[1] /\ a[3] = w[2]
  BY <1>1, <1>2, <1>4, <1>8, Zenon
<1>10. v[1] = h[1] /\ v[2] = w[1] /\ v[3] = w[2] /\ v[4] = u[1] /\ v[5] = u[2]
  BY <1>3, <1>5, <1>7, <1>8, <1>9, Zenon
<1>11. c[1] = h[1] /\ c[2] = w[1] /\ c[3] = w[2] /\ c[4] = u[1] /\ c[5] = u[2]
  BY <1>6, <1>7, <1>8, <1>10, Zenon
<1>12. WordAt(c, 2) = size /\ WordAt(c, 4) = type
  BY <1>2, <1>3, <1>8, <1>11, Zenon DEF WordAt
<1> QED
  BY <1>1, <1>6, <1>7, <1>8, <1>11, <1>12, Zenon DEF c

(* More bytes behind those that were sent                                  *)
Longer(b, c) == Size(b) <= Size(c) /\ \A x \in 1..Size(b) : c[x] = b[x]

LEMMA PacketKept ==
    ASSUME NEW b \in ByteSeq, NEW c \in ByteSeq, Longer(b, c),
           NEW p \in PacketEntry, PacketAt(b, p)
    PROVE  PacketAt(c, p)
<1> DEFINE s == p.start
           e == p.end
<1>1. s \in Nat /\ e \in Nat /\ p.content \in Seq(ChunkEntry)
  BY DEF PacketEntry
<1>2. Size(b) \in Nat /\ Size(c) \in Nat /\ Size(b) <= Size(c)
      /\ \A x \in 1..Size(b) : c[x] = b[x]
  BY SizeIsNat DEF Longer
<1>3. /\ s + HeaderSize <= e /\ e <= Size(b)
      /\ b[s + 1] = Signature
      /\ WordAt(b, s + 2) = e - s - HeaderSize
      /\ WordAt(b, s + 4) = p.type
      /\ InOrder(p.content)
      /\ p.whole => /\ LieIn(b, s + HeaderSize, p.content)
                    /\ e = s + HeaderSize + EndOf(p.content, Len(p.content))
                    /\ e - s - HeaderSize < Limit
  BY Zenon DEF PacketAt, Size
<1> HIDE DEF s, e
<1>4. e <= Size(c)
  BY <1>1, <1>2, <1>3
<1>5. /\ s + 1 \in 1..Size(b) /\ s + 2 \in 1..Size(b) /\ s + 2 + 1 \in 1..Size(b)
      /\ s + 4 \in 1..Size(b) /\ s + 4 + 1 \in 1..Size(b)
  BY <1>1, <1>2, <1>3 DEF HeaderSize
<1>6. c[s + 1] = Signature /\ WordAt(c, s + 2) = WordAt(b, s + 2) /\ WordAt(c, s + 4) = WordAt(b, s + 4)
  BY <1>2, <1>3, <1>5, Zenon DEF WordAt
<1>7. ASSUME p.whole PROVE LieIn(c, s + HeaderSize, p.content)
  <2> DEFINE z == EndOf(p.content, Len(p.content))
  <2>1. Len(p.content) \in 0..Len(p.content)
    BY <1>1, ChunkEntries
  <2>2. z \in Nat
    BY <1>1, <2>1, ChunkEntries, Zenon
  <2>3. e = s + HeaderSize + z /\ LieIn(b, s + HeaderSize, p.content)
    BY <1>3, <1>7, Zenon
  <2> HIDE DEF z
  <2>4. s + HeaderSize \in Nat /\ \A x \in 1..z : s + HeaderSize + x \in 1..Size(b)
    BY <1>1, <1>2, <1>3, <2>2, <2>3 DEF HeaderSize
  <2>5. \A x \in 1..z : c[s + HeaderSize + x] = b[s + HeaderSize + x]
    BY <1>2, <2>4, Zenon
  <2> QED
    BY <1>1, <1>3, <2>3, <2>4, <2>5, ChunksMoved, Zenon DEF z
<1> QED
  BY <1>3, <1>4, <1>6, <1>7, Zenon DEF PacketAt, Size, s, e

LEMMA ForeignKept ==
    ASSUME NEW b \in ByteSeq, NEW c \in ByteSeq, Longer(b, c), NEW p \in Nat, Foreign(b, p)
    PROVE  Foreign(c, p)
<1>1. Size(b) \in Nat /\ Size(c) \in Nat /\ Size(b) <= Size(c) /\ p < Size(b)
      /\ \A x \in 1..Size(b) : c[x] = b[x]
  BY SizeIsNat DEF Longer, Foreign, Size
<1>2. p + 1 \in 1..Size(b) /\ p < Size(c)
  BY <1>1
<1> QED
  BY <1>1, <1>2, Zenon DEF Foreign, Size

LEMMA TypeIsWord == \A t \in Types : t \in Nat /\ t < Limit
<1>1. Base * Base \in Int
  BY CompactBinaryAssumption
<1> QED
  BY <1>1, CompactBinaryAssumption DEF Limit

(* Packets that were sent, and what they say                               *)
LEMMA PacketEntries ==
    ASSUME TypeOK
    PROVE  /\ Len(sent) \in Nat /\ DOMAIN sent = 1..Len(sent)
           /\ \A k \in 1..Len(sent) :
                /\ sent[k] \in PacketEntry /\ sent[k].content \in Seq(ChunkEntry)
                /\ sent[k].start \in Nat /\ sent[k].end \in Nat /\ sent[k].nth \in Nat
                /\ sent[k].type \in Nat
           /\ \A k \in 0..Len(sent) : CountTo(sent, k) \in Nat
           /\ stream \in ByteSeq /\ wire \in ByteSeq /\ buf \in ByteSeq /\ packet \in ByteSeq
           /\ Size(stream) \in Nat /\ Size(wire) \in Nat /\ Size(buf) \in Nat /\ Size(packet) \in Nat
<1>1. sent \in Seq(PacketEntry)
  BY DEF TypeOK
<1>2. /\ Len(sent) \in Nat /\ DOMAIN sent = 1..Len(sent)
      /\ \A k \in 1..Len(sent) : sent[k] \in PacketEntry
  BY <1>1, ElementOf
<1>3. \A p \in PacketEntry : /\ p.content \in Seq(ChunkEntry) /\ p.type \in Nat
                             /\ p.start \in Nat /\ p.end \in Nat /\ p.nth \in Nat
  BY TypeIsWord DEF PacketEntry
<1>4. 0 \in Nat /\ \A k \in 0..Len(sent) : k = 0 \/ k \in 1..Len(sent)
  BY <1>2
<1>5. \A k \in 0..Len(sent) : CountTo(sent, k) \in Nat
  BY <1>2, <1>3, <1>4, Zenon DEF CountTo
<1>6. /\ stream \in ByteSeq /\ wire \in ByteSeq /\ buf \in ByteSeq /\ packet \in ByteSeq
      /\ Size(stream) \in Nat /\ Size(wire) \in Nat /\ Size(buf) \in Nat /\ Size(packet) \in Nat
  BY SizeIsNat DEF TypeOK, ByteSeq
<1> QED
  BY <1>2, <1>3, <1>5, <1>6, Zenon

(* What was sent stays what it was, when bytes are sent behind it          *)
LEMMA TransmitKeeps ==
    ASSUME TypeOK, NEW bytes \in ByteSeq, Transmit(bytes)
    PROVE  /\ Longer(stream, stream')
           /\ stream' \in ByteSeq /\ Size(stream') = Size(stream) + Size(bytes)
           /\ wire' \in ByteSeq /\ Size(wire') = Size(wire) + Size(bytes)
           /\ \A x \in 1..Size(bytes) : stream'[Size(stream) + x] = bytes[x]
           /\ \A x \in 1..Size(wire) : wire'[x] = wire[x]
           /\ \A x \in 1..Size(bytes) : wire'[Size(wire) + x] = bytes[x]
           /\ Size(bytes) \in Nat
<1>1. /\ stream \in ByteSeq /\ wire \in ByteSeq /\ Size(stream) \in Nat /\ Size(wire) \in Nat
      /\ Size(bytes) \in Nat
  BY PacketEntries, SizeIsNat, Zenon
<1>2. stream' = Join(stream, bytes) /\ wire' = Join(wire, bytes)
  BY Zenon DEF Transmit, Join
<1> DEFINE s == Join(stream, bytes)
           w == Join(wire, bytes)
<1>3. /\ s \in ByteSeq /\ Size(s) = Size(stream) + Size(bytes)
      /\ \A x \in 1..Size(stream) : s[x] = stream[x]
      /\ \A x \in 1..Size(bytes) : s[Size(stream) + x] = bytes[x]
  BY <1>1, JoinFacts, Zenon
<1>4. /\ w \in ByteSeq /\ Size(w) = Size(wire) + Size(bytes)
      /\ \A x \in 1..Size(wire) : w[x] = wire[x]
      /\ \A x \in 1..Size(bytes) : w[Size(wire) + x] = bytes[x]
  BY <1>1, JoinFacts, Zenon
<1>5. stream' = s /\ wire' = w
  BY <1>2
<1> HIDE DEF s, w
<1>6. Size(stream) <= Size(s)
  BY <1>1, <1>3
<1>7. Longer(stream, s)
  BY <1>3, <1>6, Zenon DEF Longer
<1> QED
  BY <1>1, <1>3, <1>4, <1>5, <1>7, Zenon

LEMMA TransmitKeepsBuffer ==
    ASSUME TypeOK, BufferInv, NEW bytes \in ByteSeq, Transmit(bytes), buf' = buf
    PROVE  BufferInv' /\ Gone' = Gone /\ Gone \in Nat
<1> DEFINE n == Size(bytes)
           l == Size(stream)
           w == Size(wire)
           g == Gone
<1>1. /\ l \in Nat /\ w \in Nat /\ n \in Nat /\ Size(buf) \in Nat
      /\ \A x \in 1..l : stream'[x] = stream[x]
      /\ Size(stream') = l + n /\ Size(wire') = w + n
      /\ \A x \in 1..n : stream'[l + x] = bytes[x]
      /\ \A x \in 1..w : wire'[x] = wire[x]
      /\ \A x \in 1..n : wire'[w + x] = bytes[x]
  BY PacketEntries, TransmitKeeps, Zenon DEF Longer
<1>2. /\ g = l - w - Size(buf) /\ g >= 0
      /\ \A x \in 1..Size(buf) : buf[x] = stream[g + x]
      /\ \A x \in 1..w : wire[x] = stream[g + Size(buf) + x]
  BY Zenon DEF BufferInv, Gone, Size
<1>3. Gone' = Size(stream') - Size(wire') - Size(buf)
  BY Zenon DEF Gone, Size
<1> HIDE DEF n, l, w, g
<1>4. g \in Nat /\ Gone' = g
  BY <1>1, <1>2, <1>3
<1>5. \A x \in 1..Size(buf) : buf[x] = stream'[g + x]
  <2>1. \A x \in 1..Size(buf) : g + x \in 1..l
    BY <1>1, <1>2
  <2> QED
    BY <1>1, <1>2, <2>1, Zenon
<1>6. \A x \in 1..w + n : wire'[x] = stream'[g + Size(buf) + x]
  <2> SUFFICES ASSUME NEW x \in 1..w + n PROVE wire'[x] = stream'[g + Size(buf) + x]
    OBVIOUS
  <2>1. CASE x \in 1..w
    <3>1. g + Size(buf) + x \in 1..l
      BY <1>1, <1>2, <2>1
    <3> QED
      BY <1>1, <1>2, <2>1, <3>1, Zenon
  <2>2. CASE x \notin 1..w
    <3>1. PICK y \in 1..n : x = w + y
      <4>1. x - w \in 1..n /\ x = w + (x - w)
        BY <1>1, <2>2
      <4> QED
        BY <4>1, Zenon
    <3>2. g + Size(buf) + x = l + y
      BY <1>1, <1>2, <3>1
    <3> QED
      BY <1>1, <3>1, <3>2, Zenon
  <2> QED
    BY <2>1, <2>2
<1> QED
  BY <1>1, <1>2, <1>4, <1>5, <1>6, Zenon DEF BufferInv, Size, g

(* What followed some bytes still does when another packet was sent, or a  *)
(* byte that is no signature                                               *)
LEMMA FollowsKept ==
    ASSUME NEW b \in ByteSeq, NEW c \in ByteSeq, Longer(b, c),
           NEW s, NEW t, NEW odd, NEW odd2, odd => odd2, Len(s) \in Nat,
           \/ t = s /\ odd2 /\ Foreign(c, Size(b))
           \/ \E e : Grown(s, t, e) /\ e.start = Size(b),
           NEW p \in Nat, NEW k \in 1..Len(s) + 1, Follows(s, b, odd, p, k)
    PROVE  Follows(t, c, odd2, p, k)
<1>1. CASE odd /\ Foreign(b, p)
  BY <1>1, ForeignKept, Zenon DEF Follows
<1>2. CASE p = StartOf(s, b, k)
  <2>1. CASE k = Len(s) + 1
    <3>1. p = Size(b)
      BY <1>2, <2>1, Zenon DEF StartOf, Size
    <3>2. CASE t = s /\ odd2 /\ Foreign(c, Size(b))
      BY <3>1, <3>2, Zenon DEF Follows
    <3>3. CASE \E e : Grown(s, t, e) /\ e.start = Size(b)
      <4>1. PICK e : Grown(s, t, e) /\ e.start = Size(b)
        BY <3>3
      <4>2. Len(t) = Len(s) + 1 /\ t[Len(s) + 1] = e
        BY <4>1, Zenon DEF Grown
      <4>3. k # Len(t) + 1
        BY <2>1, <4>2
      <4>4. p = t[k].start
        BY <2>1, <3>1, <4>1, <4>2
      <4>5. StartOf(t, c, k) = t[k].start
        BY <4>3, Zenon DEF StartOf
      <4>6. p = StartOf(t, c, k)
        BY <4>4, <4>5
      <4> QED
        BY <4>6 DEF Follows
    <3> QED
      BY <3>2, <3>3
  <2>2. CASE k # Len(s) + 1
    <3>1. p = s[k].start /\ k \in 1..Len(s)
      BY <1>2, <2>2 DEF StartOf
    <3>2. t[k] = s[k] /\ k # Len(t) + 1
      <4>1. CASE t = s
        BY <2>2, <4>1
      <4>2. CASE \E e : Grown(s, t, e) /\ e.start = Size(b)
        <5>1. t[k] = s[k] /\ Len(t) = Len(s) + 1
          BY <3>1, <4>2, Zenon DEF Grown
        <5> QED
          BY <3>1, <5>1
      <4> QED
        BY <4>1, <4>2
    <3>3. p = t[k].start
      BY <3>1, <3>2
    <3>4. StartOf(t, c, k) = t[k].start
      BY <3>2, Zenon DEF StartOf
    <3>5. p = StartOf(t, c, k)
      BY <3>3, <3>4
    <3> QED
      BY <3>5 DEF Follows
  <2> QED
    BY <2>1, <2>2
<1> QED
  BY <1>1, <1>2, Zenon DEF Follows

(* The packet that SendChunkInPacket sends                                 *)
LEMMA PacketSent ==
    ASSUME TypeOK, BuildInv, SendPacket
    PROVE  \E e \in PacketEntry, bytes \in ByteSeq :
             /\ Transmit(bytes) /\ Grown(sent, sent', e) /\ HeaderSize <= Size(bytes)
             /\ e.start = Size(stream) /\ e.end = Size(stream')
             /\ e.nth = CountTo(sent, Len(sent)) + (IF e.type \in Known THEN 1 ELSE 0)
             /\ PacketAt(stream', e)
<1> DEFINE size == Len(packet) % Limit
           body == SubSeq(packet, 1, size)
           Sent(type) == <<Signature>> \o Word(size) \o Word(type) \o body
           Entry(type) == [type |-> type, content |-> content, whole |-> Len(packet) < Limit,
                           start |-> Len(stream), end |-> Len(stream'),
                           nth |-> Count(sent) + (IF type \in Known THEN 1 ELSE 0)]
<1>1. PICK type \in Types : Transmit(Sent(type)) /\ sent' = Append(sent, Entry(type))
  BY DEF SendPacket
<1>2. /\ size \in 0..Len(packet) /\ size < Limit /\ Limit \in Nat
      /\ type \in Nat /\ body \in ByteSeq /\ Size(body) = size
  BY FrameIsBytes DEF ByteSeq, Size
<1> DEFINE b == Sent(type)
           e == Entry(type)
<1>3. b = Frame(size, type, body)
  BY DEF Frame, Join, Lead
<1>4. /\ packet \in ByteSeq /\ Size(packet) \in Nat /\ Size(stream) \in Nat
      /\ sent \in Seq(PacketEntry) /\ content \in Seq(ChunkEntry)
  BY PacketEntries DEF TypeOK
<1>5. size < Limit => size \in Nat
  BY <1>2, <1>4 DEF Size
<1>6. ASSUME size < Limit, Size(packet) < Limit PROVE size = Size(packet)
  BY <1>2, <1>4, <1>6 DEF Size
<1>7. \A x \in 1..size : body[x] = packet[x]
  BY <1>2 DEF TypeOK
<1> HIDE DEF body
<1>8. /\ b \in ByteSeq /\ Size(b) = HeaderSize + size
      /\ b[1] = Signature /\ WordAt(b, 2) = size /\ WordAt(b, 4) = type
      /\ \A x \in 1..size : b[HeaderSize + x] = packet[x]
  <2> HIDE DEF size, b
  <2>1. type < Limit
    BY TypeIsWord
  <2> DEFINE c == Frame(size, type, body)
  <2>2. /\ c \in ByteSeq /\ Size(c) = HeaderSize + Size(body)
        /\ c[1] = Signature /\ WordAt(c, 2) = size /\ WordAt(c, 4) = type
        /\ \A x \in 1..Size(body) : c[HeaderSize + x] = body[x]
    <3>1. size \in Nat
      BY <1>2, <1>5
    <3> QED
      BY <1>2, <2>1, <3>1, FrameJoined, Zenon
  <2>3. b = c
    BY <1>3
  <2> HIDE DEF c
  <2> QED
    BY <1>2, <1>7, <2>2, <2>3, Zenon
<1>9. e \in PacketEntry
  <2>1. Count(sent) \in Nat /\ Len(stream') \in Nat /\ Len(stream) \in Nat
    <3>1. Size(stream') \in Nat
      BY <1>1, <1>8, TransmitKeeps, SizeIsNat, Zenon
    <3> QED
      BY <1>4, <3>1, CountIsNat DEF Size
  <2> QED
    BY <1>4, <2>1 DEF PacketEntry
<1>10. Grown(sent, sent', e)
  BY <1>1, <1>4, <1>9, EntriesAppended, Zenon
<1>11. /\ e.start = Size(stream) /\ e.end = Size(stream') /\ e.type = type
       /\ e.content = content /\ (e.whole <=> Size(packet) < Limit)
       /\ e.nth = CountTo(sent, Len(sent)) + (IF e.type \in Known THEN 1 ELSE 0)
  BY <1>4, CountIsLast DEF Size
<1> HIDE DEF size, b, e
<1> DEFINE l == Size(stream)
           c == stream'
<1>12. /\ Size(c) = l + Size(b) /\ l \in Nat
       /\ \A x \in 1..Size(b) : c[l + x] = b[x]
  BY <1>1, <1>4, <1>8, TransmitKeeps, Zenon DEF b
<1>13. size \in Nat
  BY <1>2
<1>14. Size(c) = l + HeaderSize + size
  BY <1>8, <1>12, <1>13 DEF HeaderSize
<1> HIDE DEF l, c
<1>15. c[l + 1] = Signature /\ WordAt(c, l + 2) = size /\ WordAt(c, l + 4) = type
  <2>1. /\ 1 \in 1..Size(b) /\ 2 \in 1..Size(b) /\ 3 \in 1..Size(b) /\ 4 \in 1..Size(b)
        /\ 5 \in 1..Size(b) /\ 2 + 1 = 3 /\ 4 + 1 = 5 /\ l + 2 + 1 = l + 3 /\ l + 4 + 1 = l + 5
    BY <1>8, <1>12, <1>13 DEF HeaderSize
  <2>2. c[l + 1] = b[1] /\ c[l + 2] = b[2] /\ c[l + 3] = b[3] /\ c[l + 4] = b[4] /\ c[l + 5] = b[5]
    BY <1>12, <2>1, Zenon
  <2>3. WordAt(c, l + 2) = WordAt(b, 2) /\ WordAt(c, l + 4) = WordAt(b, 4)
    BY <2>1, <2>2, Zenon DEF WordAt
  <2> QED
    BY <1>8, <2>2, <2>3, Zenon
<1>16. ASSUME Size(packet) < Limit
       PROVE  /\ LieIn(c, l + HeaderSize, content)
              /\ Size(c) = l + HeaderSize + EndOf(content, Len(content))
              /\ size < Limit
  <2>1. InOrder(content) /\ LieIn(packet, 0, content) /\ Size(packet) = EndOf(content, Len(content))
    BY Zenon DEF BuildInv, Size
  <2>2. size = Size(packet)
    BY <1>2, <1>6, <1>16, Zenon
  <2>3. \A x \in 1..Size(packet) : c[l + HeaderSize + x] = packet[0 + x]
    <3>1. \A x \in 1..size : /\ HeaderSize + x \in 1..Size(b) /\ 0 + x = x
                             /\ l + HeaderSize + x = l + (HeaderSize + x)
      BY <1>8, <1>12, <1>13 DEF HeaderSize
    <3>2. ASSUME NEW x \in 1..size PROVE c[l + HeaderSize + x] = packet[0 + x]
      <4>1. b[HeaderSize + x] = packet[x] /\ c[l + (HeaderSize + x)] = b[HeaderSize + x]
        BY <1>8, <1>12, <3>1, Zenon
      <4> QED
        BY <3>1, <4>1, Zenon
    <3> QED
      BY <2>2, <3>2, Zenon
  <2>4. l + HeaderSize \in Nat /\ 0 \in Nat
    BY <1>12 DEF HeaderSize
  <2>5. LieIn(c, l + HeaderSize, content)
    BY <1>4, <2>1, <2>3, <2>4, ChunksMoved, Zenon
  <2> QED
    BY <1>2, <1>14, <2>1, <2>2, <2>5, Zenon
<1>17. PacketAt(c, e)
  <2>1. /\ l + HeaderSize <= Size(c) /\ Size(c) <= Size(c)
        /\ Size(c) - l - HeaderSize = size
    BY <1>12, <1>13, <1>14 DEF HeaderSize
  <2>2. InOrder(content)
    BY DEF BuildInv
  <2> QED
    BY <1>11, <1>15, <1>16, <2>1, <2>2, Zenon DEF PacketAt, Size, l, c
<1>18. HeaderSize <= Size(b)
  BY <1>8, <1>13 DEF HeaderSize
<1> QED
  BY <1>1, <1>8, <1>9, <1>10, <1>11, <1>17, <1>18, Zenon DEF c, b

(* The commands are counted upwards                                        *)
LEMMA CountGrows ==
    ASSUME TypeOK, StreamInv
    PROVE  \A k, l \in 0..Len(sent) : k <= l => CountTo(sent, k) <= CountTo(sent, l)
<1>1. \A k \in 0..Len(sent) : CountTo(sent, k) \in Nat
  BY PacketEntries
<1>2. SUFFICES ASSUME NEW k \in 0..Len(sent), NEW l \in 0..Len(sent), k <= l
               PROVE  CountTo(sent, k) <= CountTo(sent, l)
  OBVIOUS
<1>3. CountTo(sent, k) \in Nat /\ CountTo(sent, l) \in Nat
  BY <1>1
<1>4. CASE k = l
  BY <1>3, <1>4
<1>5. CASE k = 0
  <2>1. CountTo(sent, k) = 0
    BY <1>5 DEF CountTo
  <2> QED
    BY <1>3, <2>1
<1>6. CASE k # l /\ k # 0
  <2>1. k \in 1..Len(sent) /\ l \in 1..Len(sent) /\ k < l /\ l # 0
    BY <1>2, <1>6, PacketEntries
  <2>2. sent[k].nth <= sent[l].nth
    BY <2>1, PacketEntries, Zenon DEF StreamInv
  <2> QED
    BY <1>6, <2>1, <2>2, Zenon DEF CountTo
<1> QED
  BY <1>4, <1>5, <1>6

LEMMA OutIsCounted ==
    ASSUME TypeOK, StreamInv, PlaceInv
    PROVE  Len(out) \in Nat /\ Len(out) <= CountTo(sent, Len(sent))
<1>1. Len(out) \in Nat /\ Len(sent) \in Nat /\ Len(sent) \in 0..Len(sent)
  <2>1. Len(out) \in Nat
    BY DEF TypeOK
  <2> QED
    BY <2>1, PacketEntries
<1>2. PICK c \in 0..Len(sent) : Len(out) = CountTo(sent, c)
  <2>1. CASE pc # "chunks"
    BY <2>1, Zenon DEF PlaceInv, Between
  <2>2. CASE pc = "chunks"
    <3>1. PICK c \in 1..Len(sent) : Len(out) = sent[c].nth
      BY <2>2, Zenon DEF PlaceInv, Inside
    <3>2. c # 0 /\ c \in 0..Len(sent)
      OBVIOUS
    <3> QED
      BY <3>1, <3>2, Zenon DEF CountTo
  <2> QED
    BY <2>1, <2>2
<1>3. c <= Len(sent)
  BY <1>1
<1> QED
  BY <1>1, <1>2, <1>3, CountGrows, Zenon

(* What the sender adds to what it sent: a packet, or another byte         *)
Added(e) ==
    /\ Grown(sent, sent', e) /\ e \in PacketEntry
    /\ e.start = Size(stream) /\ e.end = Size(stream')
    /\ e.nth = CountTo(sent, Len(sent)) + (IF e.type \in Known THEN 1 ELSE 0)
    /\ PacketAt(stream', e)

More ==
    /\ \E bytes \in ByteSeq : Transmit(bytes) /\ 1 <= Size(bytes)
    /\ \/ sent' = sent /\ strange' /\ Foreign(stream', Size(stream))
       \/ strange' = strange /\ \E e : Added(e)

LEMMA MoreFollows ==
    ASSUME TypeOK, More
    PROVE  \A p \in Nat, k \in 1..Len(sent) + 1 :
             Follows(sent, stream, strange, p, k) => Follows(sent', stream', strange', p, k)
<1>1. PICK bytes \in ByteSeq : Transmit(bytes)
  BY DEF More
<1>2. /\ Longer(stream, stream') /\ stream \in ByteSeq /\ stream' \in ByteSeq
      /\ Len(sent) \in Nat
  BY <1>1, TransmitKeeps, PacketEntries, Zenon
<1>3. strange => strange'
  BY DEF More
<1>4. \/ sent' = sent /\ strange' /\ Foreign(stream', Size(stream))
      \/ \E e : Grown(sent, sent', e) /\ e.start = Size(stream)
  BY Zenon DEF More, Added
<1> QED
  BY <1>2, <1>3, <1>4, FollowsKept

LEMMA MoreStream ==
    ASSUME TypeOK, TypeOK', StreamInv, More
    PROVE  StreamInv'
<1> DEFINE n == Len(sent)
<1>1. PICK bytes \in ByteSeq : Transmit(bytes)
  BY DEF More
<1>2. /\ Longer(stream, stream') /\ stream \in ByteSeq /\ stream' \in ByteSeq
  BY <1>1, TransmitKeeps, PacketEntries, Zenon
<1>3. /\ n \in Nat /\ DOMAIN sent = 1..n
      /\ \A k \in 1..n : /\ sent[k] \in PacketEntry /\ sent[k].end \in Nat
                        /\ sent[k].nth \in Nat
  BY PacketEntries, Zenon
<1>4. ASSUME NEW k \in 1..n
      PROVE  /\ PacketAt(stream', sent[k])
             /\ Follows(sent', stream', strange', sent[k].end, k + 1)
             /\ sent[k].nth = CountTo(sent, k - 1) + (IF sent[k].type \in Known THEN 1 ELSE 0)
             /\ sent[k].end <= Len(stream)
  <2>1. /\ PacketAt(stream, sent[k])
        /\ Follows(sent, stream, strange, sent[k].end, k + 1)
        /\ sent[k].nth = CountTo(sent, k - 1) + (IF sent[k].type \in Known THEN 1 ELSE 0)
    BY <1>3, Zenon DEF StreamInv
  <2>2. k + 1 \in 1..n + 1
    BY <1>3
  <2>3. Follows(sent', stream', strange', sent[k].end, k + 1)
    BY <1>3, <2>1, <2>2, MoreFollows, Zenon
  <2>4. PacketAt(stream', sent[k])
    BY <1>2, <1>3, <2>1, PacketKept, Zenon
  <2> QED
    BY <2>1, <2>3, <2>4, Zenon DEF PacketAt
<1>5. CASE sent' = sent /\ strange' /\ Foreign(stream', Size(stream))
  <2>1. \A k \in DOMAIN sent' :
         /\ PacketAt(stream', sent'[k])
         /\ Follows(sent', stream', strange', sent'[k].end, k + 1)
         /\ sent'[k].nth = CountTo(sent', k - 1) + (IF sent'[k].type \in Known THEN 1 ELSE 0)
    BY <1>3, <1>4, <1>5
  <2>2. \A k, l \in DOMAIN sent' : k < l =>
         /\ sent'[k].end <= sent'[l].start
         /\ sent'[k].nth <= sent'[l].nth
         /\ sent'[l].type \in Known => sent'[k].nth < sent'[l].nth
    BY <1>5 DEF StreamInv
  <2> QED
    BY <2>1, <2>2, Zenon DEF StreamInv
<1>6. CASE \E e : Added(e)
  <2>1. PICK e : Added(e)
    BY <1>6
  <2>2. /\ Len(sent') = n + 1 /\ sent'[n + 1] = e
        /\ DOMAIN sent' = 1..n + 1
        /\ \A k \in 1..n : sent'[k] = sent[k]
        /\ \A k \in 0..n : CountTo(sent', k) = CountTo(sent, k)
        /\ e \in PacketEntry /\ e.start = Size(stream) /\ e.end = Size(stream')
        /\ e.nth = CountTo(sent, n) + (IF e.type \in Known THEN 1 ELSE 0)
        /\ PacketAt(stream', e)
    BY <2>1, Zenon DEF Added, Grown
  <2>3. \A k \in 1..n + 1 : k = n + 1 \/ (k \in 1..n /\ k - 1 \in 0..n)
    BY <1>3
  <2>4. ASSUME NEW k \in 1..n + 1
        PROVE  /\ PacketAt(stream', sent'[k])
               /\ Follows(sent', stream', strange', sent'[k].end, k + 1)
               /\ sent'[k].nth = CountTo(sent', k - 1) + (IF sent'[k].type \in Known THEN 1 ELSE 0)
    <3>1. CASE k = n + 1
      <4>1. k - 1 = n /\ n \in 0..n /\ sent'[k] = e
        BY <1>3, <2>2, <3>1
      <4>2. Follows(sent', stream', strange', e.end, k + 1)
        BY <2>2, <3>1, Zenon DEF Follows, StartOf, Size
      <4> QED
        BY <2>2, <4>1, <4>2, Zenon
    <3>2. CASE k \in 1..n /\ k - 1 \in 0..n
      BY <1>4, <2>2, <3>2, Zenon
    <3> QED
      BY <2>3, <3>1, <3>2
  <2>5. ASSUME NEW k \in 1..n + 1, NEW l \in 1..n + 1, k < l
        PROVE  /\ sent'[k].end <= sent'[l].start
               /\ sent'[k].nth <= sent'[l].nth
               /\ sent'[l].type \in Known => sent'[k].nth < sent'[l].nth
    <3>1. k \in 1..n /\ sent'[k] = sent[k]
      <4>1. k \in 1..n
        BY <1>3, <2>5
      <4> QED
        BY <2>2, <4>1, Zenon
    <3>2. CASE l \in 1..n
      BY <1>3, <2>2, <2>5, <3>1, <3>2, Zenon DEF StreamInv
    <3>3. CASE l = n + 1
      <4>1. sent'[l] = e
        BY <2>2, <3>3, Zenon
      <4>2. sent[k].end <= Size(stream)
        BY <1>4, <3>1, Zenon DEF Size
      <4>3. sent[k].nth <= CountTo(sent, n) /\ CountTo(sent, n) \in Nat /\ sent[k].nth \in Nat
        <5>1. k \in 0..n /\ n \in 0..n /\ k <= n /\ k # 0
          BY <1>3, <3>1
        <5>2. CountTo(sent, k) = sent[k].nth
          BY <5>1, Zenon DEF CountTo
        <5> QED
          BY <1>3, <3>1, <5>1, <5>2, CountGrows, PacketEntries, Zenon
      <4>4. /\ sent[k].nth <= e.nth
            /\ e.type \in Known => sent[k].nth < e.nth
        <5> DEFINE a == sent[k].nth
                   b == CountTo(sent, n)
        <5>1. a \in Nat /\ b \in Nat /\ a <= b
          BY <4>3
        <5>2. e.nth = b + (IF e.type \in Known THEN 1 ELSE 0)
          BY <2>2
        <5> HIDE DEF a, b
        <5>3. a <= b + 1 /\ a < b + 1 /\ a <= b + 0
          BY <5>1
        <5> QED
          BY <5>2, <5>3, Zenon DEF a
      <4> QED
        BY <2>2, <3>1, <4>1, <4>2, <4>4, Zenon
    <3> QED
      BY <2>3, <3>2, <3>3
  <2> QED
    BY <2>2, <2>4, <2>5, Zenon DEF StreamInv
<1> QED
  BY <1>5, <1>6, Zenon DEF More

LEMMA MoreSame ==
    ASSUME TypeOK, More
    PROVE  /\ Len(sent) \in Nat /\ DOMAIN sent = 1..Len(sent)
           /\ Len(sent') \in Nat /\ DOMAIN sent' = 1..Len(sent') /\ Len(sent) <= Len(sent')
           /\ \A k \in 1..Len(sent) : sent'[k] = sent[k]
           /\ \A k \in 0..Len(sent) : CountTo(sent', k) = CountTo(sent, k)
           /\ \A k \in 1..Len(sent') : 
                k \in 1..Len(sent) \/ (k = Len(sent) + 1 /\ Added(sent'[k]))
           /\ strange => strange'
<1> DEFINE n == Len(sent)
<1>1. n \in Nat /\ DOMAIN sent = 1..n
  BY PacketEntries, Zenon
<1>2. CASE sent' = sent
  <2>1. n <= n
    BY <1>1
  <2>2. strange => strange'
    BY DEF More
  <2> QED
    BY <1>1, <1>2, <2>1, <2>2, Zenon
<1>3. CASE strange' = strange /\ \E e : Added(e)
  <2>1. PICK e : Added(e)
    BY <1>3
  <2>2. /\ Len(sent') = n + 1 /\ sent'[n + 1] = e
        /\ DOMAIN sent' = 1..Len(sent')
        /\ \A k \in 1..n : sent'[k] = sent[k]
        /\ \A k \in 0..n : CountTo(sent', k) = CountTo(sent, k)
    BY <2>1, Zenon DEF Added, Grown
  <2>3. /\ n + 1 \in Nat /\ n <= n + 1 /\ \A k \in 1..n + 1 : k \in 1..n \/ k = n + 1
    BY <1>1
  <2>4. \A k \in 1..Len(sent') : k \in 1..n \/ (k = n + 1 /\ Added(sent'[k]))
    BY <2>1, <2>2, <2>3, Zenon
  <2> QED
    BY <1>1, <1>3, <2>2, <2>3, <2>4, Zenon
<1> QED
  BY <1>2, <1>3, Zenon DEF More

LEMMA MoreArrives ==
    ASSUME TypeOK, More, buf' = buf, BufferInv
    PROVE  /\ BufferInv' /\ Gone' = Gone /\ Gone \in Nat
           /\ \A k \in 1..Len(sent) : HaveArrived(k)' <=> HaveArrived(k)
           /\ \A k \in 1..Len(sent') : k \notin 1..Len(sent) => ~HaveArrived(k)'
<1>1. PICK bytes \in ByteSeq : Transmit(bytes) /\ 1 <= Size(bytes)
  BY DEF More
<1>2. BufferInv' /\ Gone' = Gone /\ Gone \in Nat
  BY <1>1, TransmitKeepsBuffer
<1>3. /\ Size(stream) \in Nat /\ Size(wire) \in Nat /\ Size(bytes) \in Nat
      /\ Size(stream') = Size(stream) + Size(bytes) /\ Size(wire') = Size(wire) + Size(bytes)
  BY <1>1, TransmitKeeps, PacketEntries, Zenon
<1>4. /\ Size(stream') - Size(wire') = Size(stream) - Size(wire)
      /\ ~(Size(stream') <= Size(stream') - Size(wire'))
  BY <1>1, <1>3
<1>5. ASSUME NEW k \in 1..Len(sent) PROVE HaveArrived(k)' <=> HaveArrived(k)
  BY <1>4, MoreSame, Zenon DEF HaveArrived, Size
<1>6. ASSUME NEW k \in 1..Len(sent'), k \notin 1..Len(sent) PROVE ~HaveArrived(k)'
  <2>1. sent'[k].end = Size(stream')
    BY <1>6, MoreSame, Zenon DEF Added
  <2> QED
    BY <1>4, <2>1, Zenon DEF HaveArrived, Size
<1> QED
  BY <1>2, <1>5, <1>6, Zenon

LEMMA MorePlaces ==
    ASSUME TypeOK, TypeOK', StreamInv, BufferInv, PlaceInv, More,
           UNCHANGED <<buf, pc, ptr, at, left, out>>
    PROVE  PlaceInv'
<1> DEFINE n == Len(sent)
           n2 == Len(sent')
<1>1. /\ n \in Nat /\ n2 \in Nat /\ n <= n2 /\ (strange => strange')
      /\ \A k \in 1..n : sent'[k] = sent[k]
      /\ \A k \in 0..n : CountTo(sent', k) = CountTo(sent, k)
  BY MoreSame, Zenon
<1>2. Gone' = Gone /\ Gone \in Nat /\ ptr \in Nat
  <2>1. ptr \in Nat
    BY PacketEntries DEF TypeOK, Size
  <2> QED
    BY <2>1, MoreArrives, Zenon
<1>3. pc' = pc /\ ptr' = ptr /\ at' = at /\ left' = left /\ out' = out
  OBVIOUS
<1>4. ASSUME pc # "chunks" PROVE \E c \in 0..n2 : Between(c)'
  <2>1. PICK c \in 0..n : Between(c)
    BY <1>4, Zenon DEF PlaceInv
  <2>2. c \in 0..n2 /\ c + 1 \in 1..n + 1 /\ Gone + ptr \in Nat
        /\ \A k \in c + 1..n2 : k \in 1..n2 /\ (k \in 1..n => k \in c + 1..n)
    BY <1>1, <1>2
  <2>3. /\ Len(out) = CountTo(sent, c)
        /\ Follows(sent, stream, strange, Gone + ptr, c + 1)
        /\ pc = "wait" => ptr = 0 /\ (strange \/ \A k \in c + 1..n : ~HaveArrived(k))
    BY <2>1, Zenon DEF Between
  <2>4. Follows(sent', stream', strange', Gone + ptr, c + 1)
    BY <2>2, <2>3, MoreFollows, Zenon
  <2>5. ASSUME pc = "wait", ~strange'
        PROVE  \A k \in c + 1..n2 : ~HaveArrived(k)'
    BY <1>1, <2>2, <2>3, <2>5, MoreArrives, Zenon
  <2>6. Between(c)'
    BY <1>1, <1>2, <1>3, <2>3, <2>4, <2>5, Zenon DEF Between
  <2> QED
    BY <2>2, <2>6
<1>5. ASSUME pc = "chunks" PROVE \E c \in 1..n2 : Inside(c)'
  <2>1. PICK c \in 1..n : Inside(c)
    BY <1>5, Zenon DEF PlaceInv
  <2>2. c \in 1..n2 /\ sent'[c] = sent[c]
    BY <1>1
  <2>3. Inside(c)'
    BY <1>2, <1>3, <2>1, <2>2, Zenon DEF Inside
  <2> QED
    BY <2>2, <2>3
<1> QED
  BY <1>3, <1>4, <1>5, Zenon DEF PlaceInv

LEMMA MoreHandled ==
    ASSUME TypeOK, StreamInv, PlaceInv, More, FramesAsSent, ChunksAsAppended,
           UNCHANGED <<pc, out>>
    PROVE  FramesAsSent' /\ ChunksAsAppended'
<1> DEFINE n == Len(sent)
           n2 == Len(sent')
<1>1. /\ n \in Nat /\ n2 \in Nat /\ n <= n2 /\ DOMAIN sent = 1..n /\ DOMAIN sent' = 1..n2
      /\ \A k \in 1..n : sent'[k] = sent[k]
  BY MoreSame, Zenon
<1>2. DOMAIN out = 1..Len(out) /\ Len(out) \in Nat /\ out' = out /\ pc' = pc
  BY DEF TypeOK
<1>3. \A k \in 1..n : \A i : IsCommand(k, i)' <=> IsCommand(k, i)
  BY <1>1, Zenon DEF IsCommand
<1>4. FramesAsSent'
  <2>1. \A k \in 1..n : k \in 1..n2
    BY <1>1
  <2>2. ASSUME NEW i \in DOMAIN out
        PROVE  \E k \in 1..n2 : IsCommand(k, i)' /\ out[i].type = sent'[k].type
    <3>1. PICK k \in 1..n : IsCommand(k, i) /\ out[i].type = sent[k].type
      BY <1>1, Zenon DEF FramesAsSent
    <3>2. k \in 1..n2 /\ IsCommand(k, i)' /\ out[i].type = sent'[k].type
      BY <1>1, <1>3, <2>1, <3>1
    <3> QED
      BY <3>2
  <2> QED
    BY <1>1, <1>2, <2>2, Zenon DEF FramesAsSent
<1>5. ASSUME NEW i \in DOMAIN out, NEW k \in 1..n2, IsCommand(k, i)' PROVE k \in 1..n
  <2> SUFFICES ASSUME k \notin 1..n PROVE FALSE
    OBVIOUS
  <2>1. Added(sent'[k])
    BY MoreSame, Zenon
  <2>2. sent'[k].type \in Known /\ sent'[k].nth = i
    BY <1>5, Zenon DEF IsCommand
  <2>3. i = CountTo(sent, n) + 1
    BY <2>1, <2>2, Zenon DEF Added
  <2>4. CountTo(sent, n) \in Nat /\ Len(out) <= CountTo(sent, n)
    <3>1. n \in 0..n
      BY <1>1
    <3> QED
      BY <3>1, PacketEntries, OutIsCounted, Zenon
  <2> QED
    BY <1>2, <2>3, <2>4
<1>6. ChunksAsAppended'
  <2> SUFFICES ASSUME NEW i \in DOMAIN out, NEW k \in 1..n2, IsCommand(k, i)', Fits(sent'[k])
               PROVE  /\ ValuesOf(out[i].values, sent'[k].content)
                      /\ i < Len(out) \/ pc # "chunks" =>
                            Len(out[i].values) = Count(sent'[k].content)
    BY <1>1, <1>2, Zenon DEF ChunksAsAppended
  <2>1. k \in 1..n
    BY <1>5
  <2>2. sent'[k] = sent[k] /\ IsCommand(k, i)
    BY <1>1, <1>3, <2>1, Zenon
  <2> QED
    BY <1>1, <2>1, <2>2, Zenon DEF ChunksAsAppended
<1> QED
  BY <1>4, <1>6

LEMMA OtherBuilds == BuildInv /\ UNCHANGED <<packet, content>> => BuildInv'
  BY DEF BuildInv

LEMMA SendIsMore ==
    ASSUME TypeOK, BuildInv, SendPacket \/ SendOther
    PROVE  More /\ BuildInv' /\ UNCHANGED <<buf, pc, ptr, at, left, out>>
<1>1. CASE SendPacket
  <2>1. PICK e \in PacketEntry, bytes \in ByteSeq :
             /\ Transmit(bytes) /\ Grown(sent, sent', e) /\ HeaderSize <= Size(bytes)
             /\ e.start = Size(stream) /\ e.end = Size(stream')
             /\ e.nth = CountTo(sent, Len(sent)) + (IF e.type \in Known THEN 1 ELSE 0)
             /\ PacketAt(stream', e)
    BY <1>1, PacketSent
  <2>2. 1 <= Size(bytes)
    BY <2>1, SizeIsNat DEF HeaderSize
  <2>3. Added(e)
    BY <2>1, Zenon DEF Added
  <2>4. packet' = <<>> /\ content' = <<>> /\ UNCHANGED <<strange, buf, pc, ptr, at, left, out>>
    BY <1>1 DEF SendPacket
  <2>5. BuildInv'
    <3>1. Len(<<>>) = 0 /\ \A m : m \notin DOMAIN <<>>
      OBVIOUS
    <3> QED
      BY <2>4, <3>1 DEF BuildInv, InOrder, LieIn, EndOf
  <2> QED
    BY <2>1, <2>2, <2>3, <2>4, <2>5, Zenon DEF More
<1>2. CASE SendOther
  <2> DEFINE bytes == <<Signature + 1>>
  <2>1. Transmit(bytes) /\ strange' = TRUE /\ UNCHANGED <<packet, content, sent, buf, pc, ptr, at, left, out>>
    BY <1>2 DEF SendOther
  <2>2. /\ bytes \in ByteSeq /\ Size(bytes) = 1 /\ bytes[1] # Signature
        /\ 1 <= Size(bytes) /\ 1 \in 1..Size(bytes)
    BY CompactBinaryAssumption DEF ByteSeq, Size
  <2> HIDE DEF bytes
  <2>3. /\ Size(stream') = Size(stream) + Size(bytes) /\ Size(stream) \in Nat
        /\ stream'[Size(stream) + 1] = bytes[1]
    BY <2>1, <2>2, TransmitKeeps, PacketEntries, Zenon
  <2>4. Size(stream) < Size(stream')
    BY <2>2, <2>3
  <2>5. Foreign(stream', Size(stream))
    BY <2>2, <2>3, <2>4, Zenon DEF Foreign, Size
  <2>6. BuildInv'
    BY <2>1, OtherBuilds
  <2> QED
    BY <2>1, <2>2, <2>5, <2>6, Zenon DEF More
<1> QED
  BY <1>1, <1>2

LEMMA SendKeeps ==
    ASSUME IInv, AppendChunk \/ SendPacket \/ SendOther
    PROVE  IInv'
<1>1. TypeOK'
  BY SendStep DEF IInv
<1>2. CASE AppendChunk
  <2>1. BuildInv'
    BY <1>2, AppendChunkBuilds DEF IInv
  <2>2. UNCHANGED <<sent, stream, strange, wire, buf, pc, ptr, at, left, out>>
    BY <1>2 DEF AppendChunk
  <2>3. Gone' = Gone
    BY <2>2 DEF Gone
  <2>4. StreamInv' /\ BufferInv'
    BY <2>2, <2>3 DEF IInv, StreamInv, BufferInv
  <2>5. PlaceInv'
    BY <2>2, <2>3 DEF IInv, PlaceInv, Between, Inside, HaveArrived
  <2>6. FramesAsSent' /\ ChunksAsAppended'
    BY <2>2 DEF IInv, FramesAsSent, ChunksAsAppended, IsCommand
  <2> QED
    BY <1>1, <2>1, <2>4, <2>5, <2>6, Zenon DEF IInv
<1>3. CASE SendPacket \/ SendOther
  <2>1. More /\ BuildInv' /\ UNCHANGED <<buf, pc, ptr, at, left, out>>
    BY <1>3, SendIsMore DEF IInv
  <2>2. StreamInv'
    BY <1>1, <2>1, MoreStream DEF IInv
  <2>3. BufferInv'
    BY <2>1, MoreArrives DEF IInv
  <2>4. PlaceInv'
    BY <1>1, <2>1, MorePlaces DEF IInv
  <2>5. FramesAsSent' /\ ChunksAsAppended'
    BY <2>1, MoreHandled DEF IInv
  <2> QED
    BY <1>1, <2>1, <2>2, <2>3, <2>4, <2>5, Zenon DEF IInv
<1> QED
  BY <1>2, <1>3

(* Bytes move from the wire to the buffer.                                 *)
LEMMA ReceiveKeeps == ASSUME IInv, Receive PROVE IInv'
<1> DEFINE w == Size(wire)
           b == Size(buf)
           g == Gone
<1>1. TypeOK'
  BY ReceiveStep DEF IInv
<1>2. PICK n \in 1..Len(wire) :
        /\ buf' = buf \o SubSeq(wire, 1, n)
        /\ wire' = SubSeq(wire, n + 1, Len(wire))
  BY DEF Receive
<1>3. /\ w \in Nat /\ b \in Nat /\ buf \in ByteSeq /\ Size(stream) \in Nat /\ n \in 1..w
  BY PacketEntries DEF IInv, Size
<1> DEFINE part == SubSeq(wire, 1, n)
<1>4. /\ part \in ByteSeq /\ Size(part) = n /\ \A x \in 1..n : part[x] = wire[x]
      /\ Size(wire') = w - n /\ \A x \in 1..w - n : wire'[x] = wire[n + x]
  BY <1>2, SMTT(40) DEF IInv, TypeOK, ByteSeq, Size
<1> HIDE DEF part
<1>5. /\ Size(buf') = b + n
      /\ \A x \in 1..b : buf'[x] = buf[x]
      /\ \A x \in 1..n : buf'[b + x] = wire[x]
  <2> DEFINE c == Join(buf, part)
  <2>1. /\ Size(c) = Size(buf) + Size(part)
        /\ \A x \in 1..Size(buf) : c[x] = buf[x]
        /\ \A x \in 1..Size(part) : c[Size(buf) + x] = part[x]
    BY <1>3, <1>4, JoinFacts, Zenon
  <2>2. buf' = c
    BY <1>2, Zenon DEF Join, part
  <2> HIDE DEF c
  <2> QED
    BY <1>4, <2>1, <2>2, Zenon
<1>6. /\ g = Size(stream) - w - b /\ g >= 0
      /\ \A x \in 1..b : buf[x] = stream[g + x]
      /\ \A x \in 1..w : wire[x] = stream[g + b + x]
  BY Zenon DEF IInv, BufferInv, Gone, Size
<1>7. Gone' = Size(stream) - Size(wire') - Size(buf') /\ UNCHANGED <<sendVars, ptr, at, left, out>>
      /\ pc = "wait" /\ pc' = "frames"
  BY DEF Receive, Gone, Size, sendVars
<1> HIDE DEF w, b, g
<1>8. Gone' = g /\ g \in Nat
  BY <1>3, <1>4, <1>5, <1>6, <1>7
<1>9. \A x \in 1..b + n : buf'[x] = stream[g + x]
  <2> SUFFICES ASSUME NEW x \in 1..b + n PROVE buf'[x] = stream[g + x]
    OBVIOUS
  <2>1. CASE x \in 1..b
    BY <1>5, <1>6, <2>1, Zenon
  <2>2. CASE x \notin 1..b
    <3>1. PICK y \in 1..n : x = b + y
      <4>1. x - b \in 1..n /\ x = b + (x - b)
        BY <1>3, <2>2
      <4> QED
        BY <4>1, Zenon
    <3>2. y \in 1..w /\ g + x = g + b + y
      BY <1>3, <1>8, <3>1
    <3> QED
      BY <1>5, <1>6, <3>1, <3>2, Zenon
  <2> QED
    BY <2>1, <2>2
<1>10. \A x \in 1..w - n : wire'[x] = stream[g + (b + n) + x]
  <2> SUFFICES ASSUME NEW x \in 1..w - n PROVE wire'[x] = stream[g + (b + n) + x]
    OBVIOUS
  <2>1. n + x \in 1..w /\ g + (b + n) + x = g + b + (n + x)
    BY <1>3, <1>8
  <2> QED
    BY <1>4, <1>6, <2>1, Zenon
<1>11. BufferInv'
  BY <1>4, <1>5, <1>6, <1>7, <1>8, <1>9, <1>10, Zenon DEF BufferInv, Size, sendVars
<1>12. BuildInv' /\ StreamInv'
  BY <1>7, OtherBuilds DEF IInv, StreamInv, sendVars
<1>13. PlaceInv'
  <2>1. PICK c \in 0..Len(sent) : Between(c)
    BY <1>7 DEF IInv, PlaceInv
  <2>2. Between(c)'
    BY <1>7, <1>8, <2>1 DEF Between, sendVars, g
  <2> QED
    BY <1>7, <2>2 DEF PlaceInv, sendVars
<1>14. FramesAsSent' /\ ChunksAsAppended'
  BY <1>7 DEF IInv, FramesAsSent, ChunksAsAppended, IsCommand, sendVars
<1> QED
  BY <1>1, <1>11, <1>12, <1>13, <1>14, Zenon DEF IInv

(* What the buffer holds of what was sent                                  *)
LEMMA InBuffer ==
    ASSUME TypeOK, BufferInv
    PROVE  /\ Gone \in Nat /\ Len(buf) \in Nat /\ ptr \in Nat /\ ptr <= Len(buf)
           /\ Gone + Len(buf) = Len(stream) - Len(wire)
           /\ Len(stream) \in Nat /\ Len(wire) \in Nat
           /\ \A x \in 1..Len(buf) : buf[x] = stream[Gone + x]
           /\ Rest \in Seq(Nat) /\ Len(Rest) = Len(buf) - ptr
           /\ \A x \in 1..Len(Rest) : Rest[x] = stream[Gone + ptr + x]
<1>1. /\ Len(stream) \in Nat /\ Len(wire) \in Nat /\ Len(buf) \in Nat
      /\ ptr \in Nat /\ ptr <= Len(buf)
  BY DEF TypeOK
<1>2. /\ Gone = Len(stream) - Len(wire) - Len(buf) /\ Gone >= 0
      /\ \A x \in 1..Len(buf) : buf[x] = stream[Gone + x]
  BY Zenon DEF BufferInv, Gone
<1>3. /\ Rest \in Seq(Nat) /\ Len(Rest) = Len(buf) - ptr
      /\ \A x \in 1..Len(buf) - ptr : Rest[x] = buf[ptr + x]
  BY DEF TypeOK, Rest
<1> DEFINE g == Gone
<1> HIDE DEF g
<1>4. g \in Nat /\ g + Len(buf) = Len(stream) - Len(wire)
  BY <1>1, <1>2 DEF g
<1>5. ASSUME NEW x \in 1..Len(Rest) PROVE Rest[x] = stream[g + ptr + x]
  <2>1. x \in 1..Len(buf) - ptr
    BY <1>3
  <2>2. ptr + x \in 1..Len(buf) /\ g + ptr + x = g + (ptr + x)
    BY <1>1, <1>4, <2>1
  <2> QED
    BY <1>2, <1>3, <2>1, <2>2, Zenon DEF g
<1> QED
  BY <1>1, <1>2, <1>3, <1>4, <1>5, Zenon DEF g

(* What DoProcessCB finds where a packet begins                            *)
LEMMA HeaderIsRead ==
    ASSUME TypeOK, StreamInv, BufferInv, NEW k \in 1..Len(sent),
           Gone + ptr = sent[k].start, Len(Rest) >= HeaderSize
    PROVE  /\ Rest[1] = Signature /\ FrameType = sent[k].type
           /\ FrameSize = sent[k].end - sent[k].start - HeaderSize
           /\ Gone + FrameEnd = sent[k].end
<1> DEFINE p == sent[k]
           s == p.start
           e == p.end
<1>1. s \in Nat /\ e \in Nat /\ Len(Rest) \in Nat /\ Gone \in Nat /\ ptr \in Nat
  BY PacketEntries, InBuffer DEF Size
<1>2. /\ stream[s + 1] = Signature /\ WordAt(stream, s + 2) = e - s - HeaderSize
      /\ WordAt(stream, s + 4) = p.type
  BY PacketEntries, Zenon DEF StreamInv, PacketAt
<1>3. \A x \in 1..Len(Rest) : Rest[x] = stream[s + x]
  BY InBuffer, Zenon
<1>4. Gone + ptr = s
  OBVIOUS
<1> HIDE DEF s, e
<1>5. /\ 1 \in 1..Len(Rest) /\ 2 \in 1..Len(Rest) /\ 3 \in 1..Len(Rest)
      /\ 4 \in 1..Len(Rest) /\ 5 \in 1..Len(Rest)
      /\ 2 + 1 = 3 /\ 4 + 1 = 5 /\ s + 2 + 1 = s + 3 /\ s + 4 + 1 = s + 5
  BY <1>1 DEF HeaderSize
<1>6. /\ Rest[1] = stream[s + 1] /\ Rest[2] = stream[s + 2] /\ Rest[3] = stream[s + 3]
      /\ Rest[4] = stream[s + 4] /\ Rest[5] = stream[s + 5]
  BY <1>3, <1>5, Zenon
<1>7. WordAt(Rest, 2) = WordAt(stream, s + 2) /\ WordAt(Rest, 4) = WordAt(stream, s + 4)
  BY <1>5, <1>6, Zenon DEF WordAt
<1>8. FrameSize = e - s - HeaderSize /\ FrameType = p.type /\ Rest[1] = Signature
  BY <1>2, <1>6, <1>7, Zenon DEF FrameSize, FrameType
<1>9. Gone + FrameEnd = e
  BY <1>1, <1>4, <1>8 DEF FrameEnd, HeaderSize
<1> QED
  BY <1>8, <1>9, Zenon DEF s, e

(* The packet that DoProcessCB takes is the next that was sent             *)
LEMMA NextFrame ==
    ASSUME TypeOK, StreamInv, BufferInv, NEW c \in 0..Len(sent),
           Follows(sent, stream, strange, Gone + ptr, c + 1), HasFrame
    PROVE  /\ c + 1 \in 1..Len(sent)
           /\ Gone + ptr = sent[c + 1].start /\ FrameType = sent[c + 1].type
           /\ FrameSize = sent[c + 1].end - sent[c + 1].start - HeaderSize
           /\ Gone + FrameEnd = sent[c + 1].end
<1>1. /\ Len(Rest) >= HeaderSize /\ Rest[1] = Signature
  BY DEF HasFrame
<1>2. /\ Gone \in Nat /\ Len(buf) \in Nat /\ ptr \in Nat /\ ptr <= Len(buf)
      /\ Gone + Len(buf) = Len(stream) - Len(wire)
      /\ Len(stream) \in Nat /\ Len(wire) \in Nat
      /\ Len(Rest) = Len(buf) - ptr
      /\ \A x \in 1..Len(Rest) : Rest[x] = stream[Gone + ptr + x]
      /\ Len(sent) \in Nat
  BY InBuffer, PacketEntries, Zenon
<1>3. ~Foreign(stream, Gone + ptr)
  <2>1. 1 \in 1..Len(Rest)
    BY <1>1, <1>2 DEF HeaderSize
  <2> QED
    BY <1>1, <1>2, <2>1, Zenon DEF Foreign
<1>4. Gone + ptr = StartOf(sent, stream, c + 1)
  BY <1>3 DEF Follows
<1>5. c # Len(sent)
  <2> SUFFICES ASSUME c = Len(sent) PROVE FALSE
    OBVIOUS
  <2>1. Gone + ptr = Len(stream)
    BY <1>4 DEF StartOf
  <2> QED
    BY <1>1, <1>2, <2>1 DEF HeaderSize
<1>6. c + 1 \in 1..Len(sent) /\ c + 1 # Len(sent) + 1
  BY <1>2, <1>5
<1>7. Gone + ptr = sent[c + 1].start
  BY <1>4, <1>6, Zenon DEF StartOf
<1> QED
  BY <1>1, <1>6, <1>7, HeaderIsRead, Zenon

(* A packet that has arrived is found                                      *)
LEMMA ArrivedIsFound ==
    ASSUME TypeOK, StreamInv, BufferInv, NEW c \in 0..Len(sent),
           Follows(sent, stream, strange, Gone + ptr, c + 1), ~strange,
           NEW k \in c + 1..Len(sent), HaveArrived(k)
    PROVE  HasFrame
<1> DEFINE p == sent[c + 1]
           s == p.start
           e == p.end
<1>1. /\ Gone \in Nat /\ Len(buf) \in Nat /\ ptr \in Nat /\ ptr <= Len(buf)
      /\ Gone + Len(buf) = Len(stream) - Len(wire)
      /\ Len(Rest) = Len(buf) - ptr
      /\ Len(sent) \in Nat /\ DOMAIN sent = 1..Len(sent)
  BY InBuffer, PacketEntries, Zenon
<1>2. c + 1 \in 1..Len(sent) /\ c + 1 # Len(sent) + 1 /\ k \in 1..Len(sent)
      /\ (c + 1 < k \/ k = c + 1)
  BY <1>1
<1>3. Gone + ptr = s
  BY <1>2, Zenon DEF Follows, StartOf
<1>4. s \in Nat /\ e \in Nat /\ sent[k].start \in Nat /\ sent[k].end \in Nat
  BY <1>2, PacketEntries, Zenon
<1>5. s + HeaderSize <= e /\ sent[k].start + HeaderSize <= sent[k].end
      /\ (c + 1 < k => e <= sent[k].start)
  BY <1>1, <1>2, Zenon DEF StreamInv, PacketAt
<1>6. sent[k].end <= Gone + Len(buf)
  BY <1>1, Zenon DEF HaveArrived
<1>7. e <= sent[k].end
  <2>1. CASE c + 1 < k
    BY <1>4, <1>5, <2>1 DEF HeaderSize
  <2>2. CASE k = c + 1
    BY <1>4, <2>2
  <2> QED
    BY <1>2, <2>1, <2>2
<1> DEFINE f == sent[k].end
<1>8. f \in Nat /\ e <= f /\ f <= Gone + Len(buf)
  BY <1>4, <1>6, <1>7
<1> HIDE DEF s, e, f
<1>9. Len(Rest) >= HeaderSize /\ e - s - HeaderSize <= Len(Rest) - HeaderSize
  BY <1>1, <1>3, <1>4, <1>5, <1>8 DEF HeaderSize
<1>10. Rest[1] = Signature /\ FrameSize = e - s - HeaderSize
  BY <1>2, <1>3, <1>9, HeaderIsRead, Zenon DEF s, e
<1> QED
  BY <1>9, <1>10, Zenon DEF HasFrame

(* A call that returns where a packet ends, or where none begins           *)
LEMMA ReturnKeeps ==
    ASSUME IInv, pc = "frames", NEW n \in 0..Len(buf), ReturnCall(n),
           UNCHANGED <<sendVars, wire, at, left, out>>,
           NEW c \in 0..Len(sent), Len(out) = CountTo(sent, c),
           Follows(sent, stream, strange, Gone + n, c + 1),
           pc' = "wait" => strange \/ \A k \in c + 1..Len(sent) : ~HaveArrived(k)
    PROVE  IInv'
<1> DEFINE g == Gone
           b == Len(buf)
<1>1. TypeOK'
  <2>1. n \in Nat
    OBVIOUS
  <2> QED
    BY <2>1, ReturnStep DEF IInv
<1>2. /\ g \in Nat /\ b \in Nat /\ g = Len(stream) - Len(wire) - b
      /\ Len(stream) \in Nat /\ Len(wire) \in Nat
      /\ \A x \in 1..b : buf[x] = stream[g + x]
      /\ \A x \in 1..Len(wire) : wire[x] = stream[g + b + x]
  <2>1. \A x \in 1..Len(wire) : wire[x] = stream[g + b + x]
    BY Zenon DEF IInv, BufferInv
  <2> QED
    BY <2>1, InBuffer, Zenon DEF IInv, Gone
<1>3. /\ Size(buf') = b - n /\ \A x \in 1..b - n : buf'[x] = buf[n + x]
      /\ ptr' = 0 /\ pc' \in {"wait", "frames"}
  BY SMTT(40) DEF ReturnCall, IInv, TypeOK, Size
<1>4. /\ stream' = stream /\ wire' = wire /\ sent' = sent /\ strange' = strange
      /\ packet' = packet /\ content' = content /\ out' = out
  BY DEF sendVars
<1>5. Gone' = Len(stream) - Len(wire) - Size(buf')
  BY <1>4, Zenon DEF Gone, Size
<1> HIDE DEF g, b
<1>6. Gone' = g + n /\ g + n \in Nat /\ n \in 0..b /\ g + n + (b - n) = g + b /\ g + n + 0 = g + n
  <2>1. n \in 0..b
    BY DEF b
  <2> QED
    BY <1>2, <1>3, <1>5, <2>1
<1>7. \A x \in 1..b - n : buf'[x] = stream[g + n + x]
  <2> SUFFICES ASSUME NEW x \in 1..b - n PROVE buf'[x] = stream[g + n + x]
    OBVIOUS
  <2>1. n + x \in 1..b /\ g + n + x = g + (n + x)
    <3>1. g \in Nat /\ b \in Nat /\ n \in 0..b
      BY <1>2, <1>6
    <3> QED
      BY <3>1
  <2> QED
    BY <1>2, <1>3, <2>1, Zenon
<1>8. BufferInv'
  <2>1. Gone' >= 0
    BY <1>6
  <2>2. \A x \in 1..Size(buf') : buf'[x] = stream'[Gone' + x]
    BY <1>3, <1>4, <1>6, <1>7, Zenon
  <2>3. ASSUME NEW x \in 1..Len(wire') PROVE wire'[x] = stream'[Gone' + Size(buf') + x]
    <3>1. Gone' + Size(buf') = g + b
      BY <1>3, <1>6, Zenon
    <3> QED
      BY <1>2, <1>4, <3>1, Zenon
  <2> QED
    BY <2>1, <2>2, <2>3, Zenon DEF BufferInv, Size
<1>9. BuildInv' /\ StreamInv'
  BY <1>4, OtherBuilds DEF IInv, StreamInv
<1>10. Between(c)'
  <2>1. Follows(sent, stream, strange, g + n, c + 1)
    BY DEF g
  <2> QED
    BY <1>3, <1>4, <1>6, <2>1, Zenon DEF Between, HaveArrived
<1>11. PlaceInv'
  BY <1>3, <1>4, <1>10 DEF PlaceInv
<1>12. FramesAsSent' /\ ChunksAsAppended'
  <2>1. pc # "chunks" /\ pc' # "chunks"
    BY <1>3
  <2> QED
    BY <1>4, <2>1 DEF IInv, FramesAsSent, ChunksAsAppended, IsCommand
<1> QED
  BY <1>1, <1>8, <1>9, <1>11, <1>12, Zenon DEF IInv

LEMMA NoFrameKeeps == ASSUME IInv, NoFrame PROVE IInv'
<1>1. pc = "frames" /\ ~HasFrame /\ ReturnCall(ptr) /\ UNCHANGED <<sendVars, wire, at, left, out>>
  BY DEF NoFrame
<1>2. PICK c \in 0..Len(sent) : Between(c)
  BY <1>1 DEF IInv, PlaceInv
<1>3. Len(out) = CountTo(sent, c) /\ Follows(sent, stream, strange, Gone + ptr, c + 1)
  BY <1>2 DEF Between
<1>4. ptr \in 0..Len(buf)
  BY DEF IInv, TypeOK
<1>5. strange \/ \A k \in c + 1..Len(sent) : ~HaveArrived(k)
  BY <1>1, <1>3, ArrivedIsFound DEF IInv
<1> QED
  BY <1>1, <1>3, <1>4, <1>5, ReturnKeeps

LEMMA UnknownCommandKeeps == ASSUME IInv, UnknownCommand PROVE IInv'
<1>1. /\ pc = "frames" /\ HasFrame /\ FrameType \notin Known /\ ReturnCall(FrameEnd)
      /\ UNCHANGED <<sendVars, wire, at, left, out>>
  BY DEF UnknownCommand
<1>2. PICK c \in 0..Len(sent) : Between(c)
  BY <1>1 DEF IInv, PlaceInv
<1>3. Len(out) = CountTo(sent, c) /\ Follows(sent, stream, strange, Gone + ptr, c + 1)
  BY <1>2 DEF Between
<1> DEFINE d == c + 1
           p == sent[d]
<1>4. /\ d \in 1..Len(sent) /\ FrameType = p.type /\ Gone + FrameEnd = p.end
  BY <1>1, <1>3, NextFrame, Zenon DEF IInv
<1>5. /\ Len(sent) \in Nat /\ DOMAIN sent = 1..Len(sent) /\ CountTo(sent, c) \in Nat
      /\ p.end \in Nat /\ d - 1 = c /\ d # 0
  <2>1. d - 1 = c /\ d # 0
    OBVIOUS
  <2> QED
    BY <1>4, <2>1, PacketEntries, Zenon DEF IInv
<1>6. /\ p.nth = CountTo(sent, d - 1) + (IF p.type \in Known THEN 1 ELSE 0)
      /\ Follows(sent, stream, strange, p.end, d + 1)
  BY <1>4, <1>5, Zenon DEF IInv, StreamInv
<1>7. FrameEnd \in 0..Len(buf) /\ Gone \in Nat /\ Len(buf) \in Nat
      /\ Gone + Len(buf) = Len(stream) - Len(wire)
  <2>1. FrameEnd \in ptr..Len(buf)
    BY <1>1, FrameInBuffer DEF IInv
  <2>2. /\ Gone \in Nat /\ Len(buf) \in Nat /\ ptr \in Nat
        /\ Gone + Len(buf) = Len(stream) - Len(wire)
    BY InBuffer DEF IInv
  <2> QED
    BY <2>1, <2>2
<1>8. Len(out) = CountTo(sent, d)
  <2>1. p.nth = CountTo(sent, c)
    <3>1. p.nth = CountTo(sent, c) + 0
      BY <1>1, <1>4, <1>5, <1>6, Zenon
    <3> QED
      BY <1>5, <3>1
  <2> QED
    BY <1>3, <1>5, <2>1, Zenon DEF CountTo
<1>9. ASSUME pc' = "wait", NEW k \in d + 1..Len(sent) PROVE ~HaveArrived(k)
  <2>1. k \in 1..Len(sent) /\ d < k
    BY <1>4, <1>5
  <2>2. /\ p.end <= sent[k].start /\ sent[k].start + HeaderSize <= sent[k].end
        /\ sent[k].start \in Nat /\ sent[k].end \in Nat
    BY <1>4, <1>5, <2>1, PacketEntries, Zenon DEF IInv, StreamInv, PacketAt
  <2>3. p.end < sent[k].end
    BY <1>5, <2>2 DEF HeaderSize
  <2>4. FrameEnd >= HeaderSize
    <3>1. FrameSize \in Nat /\ ptr \in Nat
      BY <1>1, FrameInBuffer, InBuffer DEF IInv
    <3> QED
      BY <3>1 DEF FrameEnd, HeaderSize
  <2>5. FrameEnd = Len(buf)
    <3>1. buf' = <<>>
      BY <1>1, <1>7, <1>9, <2>4 DEF ReturnCall, HeaderSize
    <3>2. Len(buf') = Len(buf) - FrameEnd
      BY <1>1, <1>7 DEF ReturnCall, IInv, TypeOK
    <3>3. Len(buf') = 0
      BY <3>1
    <3> QED
      BY <1>7, <3>2, <3>3
  <2>6. p.end = Len(stream) - Len(wire)
    BY <1>4, <1>7, <2>5, Zenon
  <2> DEFINE e == p.end
             f == sent[k].end
             a == Len(stream) - Len(wire)
  <2>7. e = a /\ e < f /\ e \in Nat /\ f \in Nat
    BY <1>5, <2>2, <2>3, <2>6
  <2> HIDE DEF e, f, a
  <2>8. ~(f <= a)
    BY <2>7
  <2> QED
    BY <2>8, Zenon DEF HaveArrived, f, a
<1>10. Follows(sent, stream, strange, Gone + FrameEnd, d + 1) /\ d \in 0..Len(sent)
  BY <1>4, <1>6
<1> QED
  BY <1>1, <1>7, <1>8, <1>9, <1>10, ReturnKeeps, Zenon

(* The command that is called is that of the next packet, with none of its *)
(* chunks parsed                                                           *)
LEMMA CommandKeeps == ASSUME IInv, Command PROVE IInv'
<1>1. /\ pc = "frames" /\ HasFrame /\ FrameType \in Known /\ pc' = "chunks"
      /\ ptr' = FrameEnd /\ at' = ptr + HeaderSize /\ left' = FrameSize
      /\ UNCHANGED <<sendVars, wire, buf>>
  BY DEF Command
<1> DEFINE entry == [type |-> FrameType, values |-> <<>>]
           n == Len(out)
<1>2. TypeOK'
  BY FrameStep DEF IInv
<1>3. /\ n \in Nat /\ Len(out') = n + 1 /\ out'[n + 1] = entry
      /\ DOMAIN out = 1..n /\ DOMAIN out' = 1..n + 1
      /\ \A i \in 1..n : out'[i] = out[i]
  <2>1. out' = Append(out, entry) /\ out \in Seq(OutSet)
    BY DEF Command, IInv, TypeOK, OutSet
  <2>2. entry \in OutSet
    <3>1. FrameType \in Nat
      BY <1>1, CompactBinaryAssumption
    <3> QED
      BY <3>1 DEF OutSet
  <2> HIDE DEF entry
  <2> QED
    BY <2>1, <2>2, Appended
<1>4. entry.type = FrameType /\ entry.values = <<>>
  OBVIOUS
<1> HIDE DEF entry, n
<1>5. PICK c \in 0..Len(sent) : Between(c)
  BY <1>1 DEF IInv, PlaceInv
<1>6. Len(out) = CountTo(sent, c) /\ Follows(sent, stream, strange, Gone + ptr, c + 1)
  BY <1>5 DEF Between
<1> DEFINE d == c + 1
           p == sent[d]
<1>7. /\ d \in 1..Len(sent) /\ Gone + ptr = p.start /\ FrameType = p.type
      /\ FrameSize = p.end - p.start - HeaderSize /\ Gone + FrameEnd = p.end
  BY <1>1, <1>6, NextFrame, Zenon DEF IInv
<1>8. /\ Len(sent) \in Nat /\ DOMAIN sent = 1..Len(sent) /\ CountTo(sent, c) \in Nat
      /\ p.content \in Seq(ChunkEntry) /\ d - 1 = c /\ d # 0
  <2>1. d - 1 = c /\ d # 0
    OBVIOUS
  <2> QED
    BY <1>7, <2>1, PacketEntries, Zenon DEF IInv
<1>9. p.nth = n + 1
  BY <1>1, <1>6, <1>7, <1>8, Zenon DEF IInv, StreamInv, n
<1>10. /\ stream' = stream /\ wire' = wire /\ buf' = buf /\ sent' = sent /\ strange' = strange
       /\ packet' = packet /\ content' = content /\ Gone' = Gone
  BY <1>1 DEF sendVars, Gone
<1> HIDE DEF d
<1>11. Inside(d)'
  <2>1. Gone \in Nat /\ ptr \in Nat /\ FrameSize \in Nat
    BY <1>1, InBuffer, FrameInBuffer DEF IInv
  <2>2. /\ ptr + HeaderSize + FrameSize = FrameEnd
        /\ Gone + (ptr + HeaderSize) = (Gone + ptr) + HeaderSize + 0
    BY <2>1 DEF FrameEnd, HeaderSize
  <2>3. 0 \in 0..Len(p.content)
    BY <1>8, ChunkEntries
  <2>4. Len(out'[Len(out')].values) = 0
    <3>1. Len(<<>>) = 0
      OBVIOUS
    <3> QED
      BY <1>3, <1>4, <3>1, Zenon
  <2>5. /\ Gone' + at' = p.start + HeaderSize + EndOf(p.content, 0)
        /\ Len(out'[Len(out')].values) = CountTo(p.content, 0)
    BY <1>1, <1>7, <1>10, <2>2, <2>4, Zenon DEF EndOf, CountTo
  <2>6. at' + left' = ptr' /\ Gone' + ptr' = p.end /\ Len(out') = p.nth /\ p.type \in Known
    BY <1>1, <1>3, <1>7, <1>9, <1>10, <2>2, Zenon
  <2> QED
    BY <1>10, <2>3, <2>5, <2>6, Zenon DEF Inside
<1>12. PlaceInv'
  BY <1>1, <1>7, <1>10, <1>11 DEF PlaceInv
<1>13. BuildInv' /\ StreamInv' /\ BufferInv'
  BY <1>10, OtherBuilds DEF IInv, StreamInv, BufferInv
<1>14. \A i \in 1..n + 1 : i \in 1..n \/ i = n + 1
  BY <1>3
<1>15. FramesAsSent'
  <2> SUFFICES ASSUME NEW i \in 1..n + 1
               PROVE  \E k \in 1..Len(sent) : IsCommand(k, i)' /\ out'[i].type = sent[k].type
    BY <1>3, <1>8, <1>10, Zenon DEF FramesAsSent
  <2>1. CASE i \in 1..n
    <3>1. PICK k \in 1..Len(sent) : IsCommand(k, i) /\ out[i].type = sent[k].type
      BY <1>3, <1>8, <2>1, Zenon DEF IInv, FramesAsSent
    <3> QED
      BY <1>3, <1>10, <2>1, <3>1, Zenon DEF IsCommand
  <2>2. CASE i = n + 1
    <3>1. IsCommand(d, i)' /\ out'[i].type = sent[d].type
      BY <1>1, <1>3, <1>4, <1>7, <1>9, <1>10, <2>2, Zenon DEF IsCommand
    <3> QED
      BY <1>7, <3>1
  <2> QED
    BY <1>14, <2>1, <2>2
<1>16. ChunksAsAppended'
  <2> SUFFICES ASSUME NEW i \in 1..n + 1, NEW k \in 1..Len(sent), IsCommand(k, i), Fits(sent[k])
               PROVE  /\ ValuesOf(out'[i].values, sent[k].content)
                      /\ i < n + 1 => Len(out'[i].values) = Count(sent[k].content)
    <3>1. pc' = "chunks"
      BY <1>1
    <3> QED
      BY <1>3, <1>8, <1>10, <3>1, Zenon DEF ChunksAsAppended, IsCommand
  <2>1. CASE i \in 1..n
    <3>1. pc # "chunks"
      BY <1>1
    <3> QED
      BY <1>3, <1>8, <2>1, <3>1, Zenon DEF IInv, ChunksAsAppended
  <2>2. CASE i = n + 1
    <3>1. \A j : j \notin DOMAIN <<>>
      OBVIOUS
    <3>2. ~(i < n + 1)
      BY <1>3, <2>2
    <3> QED
      BY <1>3, <1>4, <2>2, <3>1, <3>2, Zenon DEF ValuesOf
  <2> QED
    BY <1>14, <2>1, <2>2
<1> QED
  BY <1>2, <1>12, <1>13, <1>15, <1>16, Zenon DEF IInv

(* A command has its number for itself                                     *)
LEMMA CommandIsUnique ==
    ASSUME TypeOK, StreamInv, NEW k \in 1..Len(sent), NEW l \in 1..Len(sent), NEW i,
           IsCommand(k, i), IsCommand(l, i)
    PROVE  k = l
<1>1. /\ Len(sent) \in Nat /\ DOMAIN sent = 1..Len(sent)
      /\ sent[k].nth \in Nat /\ sent[l].nth \in Nat
  BY PacketEntries, Zenon
<1>2. sent[k].type \in Known /\ sent[l].type \in Known /\ sent[k].nth = i /\ sent[l].nth = i
  BY DEF IsCommand
<1>3. /\ k < l => sent[k].nth < sent[l].nth
      /\ l < k => sent[l].nth < sent[k].nth
  BY <1>1, <1>2, Zenon DEF StreamInv
<1>4. i \in Nat /\ ~(i < i)
  BY <1>1, <1>2
<1> QED
  BY <1>1, <1>2, <1>3, <1>4

(* What ParsePacket is given of packet p, behind m of its chunks           *)
Behind(p, m) ==
    /\ p.content \in Seq(ChunkEntry) /\ m \in 0..Len(p.content)
    /\ Gone + at = p.start + HeaderSize + EndOf(p.content, m)
    /\ p.start \in Nat /\ Gone \in Nat
    /\ left = EndOf(p.content, Len(p.content)) - EndOf(p.content, m)
    /\ InOrder(p.content) /\ LieIn(stream, p.start + HeaderSize, p.content)
    /\ EndOf(p.content, Len(p.content)) < Limit
    /\ \A l \in 1..Len(p.content) : p.content[l].form.spare = <<>>

LEMMA PlaceInPacket ==
    ASSUME TypeOK, StreamInv, BufferInv, NEW c \in 1..Len(sent), Inside(c), Fits(sent[c])
    PROVE  \E m \in 0..Len(sent[c].content) :
             Behind(sent[c], m) /\ Len(out[Len(out)].values) = CountTo(sent[c].content, m)
<1> DEFINE p == sent[c]
           s == p.start
           e == p.end
           z == EndOf(p.content, Len(p.content))
<1>1. PICK m \in 0..Len(p.content) :
         /\ Gone + at = s + HeaderSize + EndOf(p.content, m)
         /\ Len(out[Len(out)].values) = CountTo(p.content, m)
  BY Zenon DEF Inside
<1>2. /\ p.content \in Seq(ChunkEntry) /\ DOMAIN sent = 1..Len(sent)
      /\ s \in Nat /\ e \in Nat /\ Gone \in Nat
  BY PacketEntries, InBuffer, Zenon
<1>3. /\ Len(p.content) \in 0..Len(p.content) /\ DOMAIN p.content = 1..Len(p.content)
  BY <1>2, ChunkEntries
<1>4. EndOf(p.content, m) \in Nat /\ z \in Nat
  BY <1>2, <1>3, ChunkEntries, Zenon
<1>5. p.whole /\ \A l \in 1..Len(p.content) : p.content[l].form.spare = <<>>
  BY <1>3, Zenon DEF Fits
<1>6. /\ InOrder(p.content) /\ LieIn(stream, s + HeaderSize, p.content)
      /\ e = s + HeaderSize + z /\ e - s - HeaderSize < Limit
  BY <1>2, <1>5, Zenon DEF StreamInv, PacketAt
<1>7. Gone + ptr = e /\ at + left = ptr
  BY Zenon DEF Inside
<1>8. at \in Nat /\ left \in Nat /\ ptr \in Nat
  BY InBuffer DEF TypeOK
<1> DEFINE a == EndOf(p.content, m)
           g == Gone
<1>9. g + at = s + HeaderSize + a /\ a \in Nat /\ z \in Nat /\ g \in Nat /\ s \in Nat
      /\ g + ptr = e /\ e = s + HeaderSize + z /\ e - s - HeaderSize < Limit
  BY <1>1, <1>2, <1>4, <1>6, <1>7, Zenon
<1> HIDE DEF a, g, s, e, z
<1>10. left = z - a
  BY <1>7, <1>8, <1>9 DEF HeaderSize
<1>11. z < Limit
  <2>1. e - s - HeaderSize = z
    BY <1>9 DEF HeaderSize
  <2> QED
    BY <1>9, <2>1, Zenon
<1> QED
  BY <1>1, <1>2, <1>5, <1>6, <1>9, <1>10, <1>11, Zenon DEF Behind, a, g, s, z

(* The chunk at hand is f                                                  *)
AtHand(f) ==
    /\ f \in Forms /\ Len(f.value) \in Nat /\ left - ChunkSize >= Len(f.value)
    /\ buf[at + 1] = f.id /\ ChunkType = f.type /\ ChunkLength = Len(f.value)
    /\ \A x \in 1..Len(f.value) : buf[at + ChunkSize + x] = f.value[x]

(* The chunk at hand is the next one of the packet                         *)
LEMMA ChunkAtHand ==
    ASSUME TypeOK, BufferInv, pc = "chunks", NEW p, NEW m, Behind(p, m), m # Len(p.content)
    PROVE  LET f == p.content[m + 1].form IN
           /\ m + 1 \in 1..Len(p.content) /\ AtHand(f)
           /\ Gone + (at + ChunkSize + Len(f.value))
                 = p.start + HeaderSize + EndOf(p.content, m + 1)
           /\ CountTo(p.content, m + 1)
                 = CountTo(p.content, m) + (IF Wanted(f) THEN 1 ELSE 0)
           /\ p.content[m + 1].nth = CountTo(p.content, m + 1)
<1> DEFINE q == p.content
           h == q[m + 1]
           f == h.form
           n == Len(f.value)
           a == EndOf(q, m)
           z == EndOf(q, Len(q))
           o == p.start + HeaderSize
           g == Gone
<1>1. /\ q \in Seq(ChunkEntry) /\ m \in 0..Len(q) /\ p.start \in Nat /\ g \in Nat
      /\ g + at = o + a /\ left = z - a /\ InOrder(q) /\ LieIn(stream, o, q) /\ z < Limit
      /\ \A l \in 1..Len(q) : q[l].form.spare = <<>>
  BY Zenon DEF Behind
<1>2. Len(q) \in Nat /\ DOMAIN q = 1..Len(q)
  BY <1>1, ChunkEntries, Zenon
<1>3. m + 1 \in 1..Len(q) /\ m + 1 - 1 = m /\ m + 1 # 0 /\ Len(q) \in 0..Len(q)
      /\ m + 1 \in 0..Len(q)
  BY <1>1, <1>2
<1>4. /\ f \in Forms /\ n \in Nat /\ a \in Nat /\ z \in Nat /\ o \in Nat
      /\ h.end \in Nat
  <2>1. o \in Nat
    BY <1>1 DEF HeaderSize
  <2> QED
    BY <1>1, <1>3, <2>1, ChunkEntries, Zenon
<1>5. h.end = a + ChunkSize + n + Len(f.spare) /\ h.end <= z
      /\ h.nth = CountTo(q, m) + (IF Wanted(f) THEN 1 ELSE 0)
      /\ ChunkAt(stream, o + a, f)
  <2>1. \A i \in 1..Len(q) :
          /\ q[i].end = EndOf(q, i - 1) + ChunkSize
                          + Len(q[i].form.value) + Len(q[i].form.spare)
          /\ q[i].end <= EndOf(q, Len(q))
          /\ q[i].nth = CountTo(q, i - 1) + (IF Wanted(q[i].form) THEN 1 ELSE 0)
          /\ ChunkAt(stream, o + EndOf(q, i - 1), q[i].form)
    <3>1. InOrder(q) /\ LieIn(stream, o, q) /\ DOMAIN q = 1..Len(q)
      BY <1>1, <1>2
    <3> HIDE DEF q, o
    <3> QED
      BY <3>1, Zenon DEF InOrder, LieIn
  <2> HIDE DEF q, o
  <2> DEFINE d == m + 1
  <2>2. d \in 1..Len(q) /\ d - 1 = m
    <3> DEFINE l == Len(q)
    <3>1. l \in Nat /\ m \in 0..l /\ m # l
      BY <1>1, <1>2, Zenon DEF q
    <3> HIDE DEF l
    <3>2. d \in 1..l /\ d - 1 = m
      BY <3>1
    <3> QED
      BY <3>2 DEF l
  <2> HIDE DEF d
  <2>3. /\ q[d].end = EndOf(q, d - 1) + ChunkSize
                          + Len(q[d].form.value) + Len(q[d].form.spare)
        /\ q[d].end <= EndOf(q, Len(q))
        /\ q[d].nth = CountTo(q, d - 1) + (IF Wanted(q[d].form) THEN 1 ELSE 0)
        /\ ChunkAt(stream, o + EndOf(q, d - 1), q[d].form)
    BY <2>1, <2>2, Zenon
  <2>4. /\ q[d].end = EndOf(q, m) + ChunkSize
                          + Len(q[d].form.value) + Len(q[d].form.spare)
        /\ q[d].end <= EndOf(q, Len(q))
        /\ q[d].nth = CountTo(q, m) + (IF Wanted(q[d].form) THEN 1 ELSE 0)
        /\ ChunkAt(stream, o + EndOf(q, m), q[d].form)
    BY <2>2, <2>3, Zenon
  <2> QED
    BY <2>4, Zenon DEF d
<1>6. f.spare = <<>>
  BY <1>1, <1>3, Zenon
<1>7. Len(<<>>) = 0
  OBVIOUS
<1>8. EndOf(q, m + 1) = h.end /\ CountTo(q, m + 1) = h.nth
  BY <1>3, Zenon DEF EndOf, CountTo
<1> DEFINE b == h.end
<1>10. b = a + ChunkSize + n + 0 /\ b <= z /\ b \in Nat
  BY <1>4, <1>5, <1>6, <1>7, Zenon
<1>11. /\ at \in Nat /\ left \in Nat /\ ptr \in Nat /\ at + left <= ptr /\ ptr <= Len(buf)
       /\ Len(buf) \in Nat
       /\ \A x \in 1..Len(buf) : buf[x] = stream[g + x]
  <2>1. at \in Nat /\ left \in Nat /\ at + left <= ptr
    BY DEF TypeOK
  <2> QED
    BY <2>1, InBuffer, Zenon
<1> HIDE DEF q, h, f, n, a, z, o, g, b
<1>12. /\ left - ChunkSize >= n /\ n < Limit /\ a + ChunkSize + n = b
       /\ g + (at + ChunkSize + n) = o + b
  <2>1. a \in Nat /\ b \in Nat /\ n \in Nat /\ z \in Nat /\ o \in Nat /\ g \in Nat
    BY <1>1, <1>4, <1>10
  <2>2. left = z - a /\ b = a + 4 + n /\ b <= z /\ g + at = o + a
    BY <1>1, <1>10, <2>1 DEF ChunkSize
  <2>3. Limit \in Int
    BY CompactBinaryAssumption DEF Limit
  <2>4. n <= z
    BY <2>1, <2>2
  <2>5. n < Limit
    BY <1>1, <2>1, <2>3, <2>4
  <2> QED
    BY <2>1, <2>2, <2>5, <1>11 DEF ChunkSize
<1>13. \A x \in 1..ChunkSize + n : buf[at + x] = stream[o + a + x]
  <2> SUFFICES ASSUME NEW x \in 1..ChunkSize + n PROVE buf[at + x] = stream[o + a + x]
    OBVIOUS
  <2>1. at + x \in 1..Len(buf) /\ g + (at + x) = g + at + x
    BY <1>1, <1>4, <1>11, <1>12 DEF ChunkSize
  <2> QED
    BY <1>1, <1>11, <2>1, Zenon
<1>14. o + a \in Nat
  BY <1>4
<1>15. ChunkAt(buf, at, f)
  <2> DEFINE y == o + a
  <2>1. /\ ChunkAt(stream, y, f) /\ y \in Nat /\ at \in Nat /\ Len(f.value) \in Nat
        /\ \A x \in 1..ChunkSize + Len(f.value) : buf[at + x] = stream[y + x]
    BY <1>4, <1>5, <1>11, <1>13, <1>14, Zenon DEF n
  <2> HIDE DEF y
  <2> QED
    BY <2>1, ChunkMoved, Zenon
<1>16. /\ buf[at + 1] = f.id /\ ChunkType = f.type /\ ChunkLength = n
       /\ \A x \in 1..n : buf[at + ChunkSize + x] = f.value[x]
  BY <1>12, <1>15, Zenon DEF ChunkAt, ChunkType, ChunkLength, n
<1>17. AtHand(f)
  BY <1>4, <1>12, <1>16, Zenon DEF AtHand, n
<1> QED
  BY <1>3, <1>5, <1>8, <1>12, <1>17, Zenon DEF q, h, f, n, a, z, o, g, b

(* Behind the last chunk nothing is left                                   *)
LEMMA ChunksEnd ==
    ASSUME TypeOK, BufferInv, pc = "chunks", NEW p, NEW m, Behind(p, m)
    PROVE  HasChunk <=> m # Len(p.content)
<1>1. CASE m = Len(p.content)
  <2>1. p.content \in Seq(ChunkEntry) /\ m \in 0..Len(p.content)
    BY DEF Behind
  <2>2. EndOf(p.content, m) \in Nat
    BY <2>1, ChunkEntries
  <2>3. left = EndOf(p.content, m) - EndOf(p.content, m)
    BY <1>1 DEF Behind
  <2> DEFINE a == EndOf(p.content, m)
  <2> HIDE DEF a
  <2>4. left = a - a /\ a \in Nat
    BY <2>2, <2>3 DEF a
  <2>5. left = 0
    BY <2>4
  <2> QED
    BY <1>1, <2>5 DEF HasChunk, ChunkSize
<1>2. CASE m # Len(p.content)
  <2> DEFINE n == Len(p.content[m + 1].form.value)
  <2>1. n \in Nat /\ left - ChunkSize >= n /\ ChunkLength = n
    BY <1>2, ChunkAtHand, Zenon DEF AtHand
  <2> HIDE DEF n
  <2>2. left \in Nat
    BY DEF TypeOK
  <2> QED
    BY <1>2, <2>1, <2>2 DEF HasChunk, ChunkSize
<1> QED
  BY <1>1, <1>2
(* The last packet given to a handler gets one more value if added, else   *)
(* none, and those before it get none                                      *)
Gets(o, p, added, v) ==
    /\ Len(p) = Len(o) /\ DOMAIN p = 1..Len(o) /\ DOMAIN o = 1..Len(o)
    /\ \A i \in 1..Len(o) : p[i].type = o[i].type
    /\ \A i \in 1..Len(o) - 1 : p[i] = o[i]
    /\ LET old == o[Len(o)].values
           new == p[Len(o)].values IN
       /\ Len(old) \in Nat
       /\ DOMAIN old = 1..Len(old) /\ DOMAIN new = 1..Len(new)
       /\ Len(new) = Len(old) + (IF added THEN 1 ELSE 0)
       /\ \A j \in 1..Len(old) : new[j] = old[j]
       /\ added => new[Len(old) + 1] = v

LEMMA ValueGiven ==
    ASSUME TypeOK, Len(out) > 0, NEW v \in Value,
           out' = [out EXCEPT ![Len(out)].values = Append(@, v)]
    PROVE  Gets(out, out', TRUE, v)
<1>1. out \in Seq(OutSet)
  BY DEF TypeOK, OutSet
<1>2. out # <<>> /\ Len(out) \in 1..Len(out) /\ out[Len(out)] \in OutSet /\ DOMAIN out = 1..Len(out)
  BY <1>1, ElementOf
<1>3. /\ out' \in Seq(OutSet) /\ Len(out') = Len(out)
      /\ \A i \in 1..Len(out) : out'[i].type = out[i].type
      /\ \A i \in 1..Len(out) - 1 : out'[i] = out[i]
      /\ out'[Len(out)].values = Append(out[Len(out)].values, v)
  <2>1. out' \in Seq(OutSet)
    BY <1>1, ValueAdded
  <2>2. Len(out') = Len(out)
    BY <1>1, ValueAdded
  <2>3. \A i \in 1..Len(out) : out'[i].type = out[i].type
    BY <1>1, ValueAdded
  <2>4. \A i \in 1..Len(out) - 1 : out'[i] = out[i]
    BY <1>1, ValueAdded
  <2>5. out'[Len(out)].values = Append(out[Len(out)].values, v)
    BY <1>1, <1>2, ValueAdded
  <2> QED
    BY <2>1, <2>2, <2>3, <2>4, <2>5
<1>4. DOMAIN out' = 1..Len(out)
  BY <1>3
<1> DEFINE old == out[Len(out)].values
           new == out'[Len(out)].values
<1>5. old \in Seq(Value) /\ new = Append(old, v)
  BY <1>2, <1>3 DEF OutSet
<1> HIDE DEF old, new
<1>6. /\ Len(old) \in Nat /\ DOMAIN old = 1..Len(old) /\ Len(new) = Len(old) + 1
      /\ DOMAIN new = 1..Len(new)
      /\ \A j \in 1..Len(old) : new[j] = old[j]
      /\ new[Len(old) + 1] = v
  BY <1>5, Appended
<1> QED
  BY <1>2, <1>3, <1>4, <1>6, Zenon DEF Gets, old, new

LEMMA NoValueGiven ==
    ASSUME TypeOK, Len(out) > 0, NEW v, out' = out
    PROVE  Gets(out, out', FALSE, v)
<1>1. out \in Seq(OutSet)
  BY DEF TypeOK, OutSet
<1>2. Len(out) \in 1..Len(out) /\ out[Len(out)] \in OutSet /\ DOMAIN out = 1..Len(out)
  BY <1>1, ElementOf
<1> DEFINE old == out[Len(out)].values
<1>3. old \in Seq(Value)
  BY <1>2 DEF OutSet
<1> HIDE DEF old
<1>4. Len(old) \in Nat /\ DOMAIN old = 1..Len(old) /\ Len(old) = Len(old) + 0
  BY <1>3
<1> QED
  BY <1>2, <1>4, Zenon DEF Gets, old
(* A chunk that is passed over, with a value given to the handler if added: *)
(* of a packet that fits, the value of the chunk if a handler wants it      *)
LEMMA PassKeeps ==
    ASSUME IInv, TypeOK', pc = "chunks", HasChunk, NEW n \in Nat, n <= left - ChunkSize, Pass(n),
           UNCHANGED <<sendVars, wire, buf, pc, ptr>>,
           NEW added \in BOOLEAN, NEW v, Len(out) > 0 => Gets(out, out', added, v),
           \A p, m : Behind(p, m) /\ m # Len(p.content) =>
               LET f == p.content[m + 1].form IN
               /\ n = Len(f.value) /\ added = Wanted(f)
               /\ added => v = Received(f)
    PROVE  IInv'
<1>1. /\ stream' = stream /\ wire' = wire /\ buf' = buf /\ sent' = sent /\ strange' = strange
      /\ packet' = packet /\ content' = content /\ pc' = pc /\ ptr' = ptr /\ Gone' = Gone
  BY DEF sendVars, Gone
<1>2. /\ at' = at + ChunkSize + n /\ left' = left - ChunkSize - n
      /\ TypeOK /\ StreamInv /\ BufferInv
  BY DEF Pass, IInv
<1>3. PICK c \in 1..Len(sent) : Inside(c)
  BY DEF IInv, PlaceInv
<1> DEFINE q == sent[c]
           N == Len(out)
           old == out[N].values
           new == out'[N].values
<1>4. /\ q.type \in Known /\ N = q.nth /\ Gone + ptr = q.end /\ at + left = ptr
  BY <1>3 DEF Inside
<1>5. /\ Len(sent) \in Nat /\ DOMAIN sent = 1..Len(sent)
      /\ q.content \in Seq(ChunkEntry) /\ q.nth \in Nat
  BY <1>2, PacketEntries, Zenon
<1>6. N > 0 /\ N \in Nat
  <2>1. q.nth = CountTo(sent, c - 1) + 1
    BY <1>2, <1>4, <1>5, Zenon DEF StreamInv
  <2>2. CountTo(sent, c - 1) \in Nat
    <3>1. c - 1 \in 0..Len(sent)
      BY <1>5
    <3> QED
      BY <1>2, <3>1, PacketEntries, Zenon
  <2> HIDE DEF q
  <2> QED
    BY <1>4, <1>5, <2>1, <2>2
<1>7. Gets(out, out', added, v)
  BY <1>6
<1>8. /\ Len(out') = N /\ DOMAIN out' = 1..N /\ DOMAIN out = 1..N
      /\ \A i \in 1..N : out'[i].type = out[i].type
      /\ \A i \in 1..N - 1 : out'[i] = out[i]
      /\ Len(old) \in Nat
      /\ DOMAIN old = 1..Len(old) /\ DOMAIN new = 1..Len(new)
      /\ Len(new) = Len(old) + (IF added THEN 1 ELSE 0)
      /\ \A j \in 1..Len(old) : new[j] = old[j]
      /\ added => new[Len(old) + 1] = v
  BY <1>7, Zenon DEF Gets
<1> HIDE DEF q, N, old, new
(* Of a packet that fits: the next chunk                                   *)
<1>9. ASSUME Fits(q)
      PROVE  \E m \in 0..Len(q.content) :
               /\ m + 1 \in 1..Len(q.content)
               /\ Gone + at' = q.start + HeaderSize + EndOf(q.content, m + 1)
               /\ Len(old) = CountTo(q.content, m)
               /\ Len(new) = CountTo(q.content, m + 1)
               /\ q.content[m + 1].nth = CountTo(q.content, m + 1)
               /\ added = Wanted(q.content[m + 1].form)
               /\ added => v = Received(q.content[m + 1].form)
  <2>1. PICK m \in 0..Len(q.content) : Behind(q, m) /\ Len(old) = CountTo(q.content, m)
    BY <1>2, <1>3, <1>9, PlaceInPacket, Zenon DEF q, old, N
  <2>2. m # Len(q.content)
    BY <1>2, <2>1, ChunksEnd, Zenon
  <2> DEFINE f == q.content[m + 1].form
  <2>3. n = Len(f.value) /\ added = Wanted(f) /\ (added => v = Received(f))
    BY <2>1, <2>2, Zenon
  <2>4. /\ m + 1 \in 1..Len(q.content)
        /\ Gone + (at + ChunkSize + Len(f.value))
              = q.start + HeaderSize + EndOf(q.content, m + 1)
        /\ CountTo(q.content, m + 1) = CountTo(q.content, m) + (IF Wanted(f) THEN 1 ELSE 0)
        /\ q.content[m + 1].nth = CountTo(q.content, m + 1)
    BY <1>2, <2>1, <2>2, ChunkAtHand, Zenon
  <2>5. Len(new) = CountTo(q.content, m + 1)
    BY <1>8, <2>1, <2>3, <2>4, Zenon
  <2> QED
    BY <1>2, <2>1, <2>3, <2>4, <2>5, Zenon
<1>10. Inside(c)'
  <2>1. at' + left' = ptr'
    <3>1. at \in Nat /\ left \in Nat
      BY <1>2 DEF TypeOK
    <3> QED
      BY <1>1, <1>2, <1>4, <3>1 DEF ChunkSize
  <2>2. Fits(q) => \E m \in 0..Len(q.content) :
          /\ Gone + at' = q.start + HeaderSize + EndOf(q.content, m)
          /\ Len(new) = CountTo(q.content, m)
    <3>1. \A L \in Nat : \A d \in 1..L : d \in 0..L
      OBVIOUS
    <3>2. Len(q.content) \in Nat
      BY <1>5, ChunkEntries
    <3> SUFFICES ASSUME Fits(q)
                 PROVE  \E m \in 0..Len(q.content) :
                          /\ Gone + at' = q.start + HeaderSize + EndOf(q.content, m)
                          /\ Len(new) = CountTo(q.content, m)
      OBVIOUS
    <3>3. PICK m \in 0..Len(q.content) :
               /\ m + 1 \in 1..Len(q.content)
               /\ Gone + at' = q.start + HeaderSize + EndOf(q.content, m + 1)
               /\ Len(new) = CountTo(q.content, m + 1)
      BY <1>9, Zenon
    <3>4. m + 1 \in 0..Len(q.content)
      BY <3>1, <3>2, <3>3, Zenon
    <3> QED
      BY <3>3, <3>4, Zenon
  <2>3. sent'[c] = q /\ Len(out') = N /\ out'[Len(out')].values = new
    BY <1>1, <1>8, Zenon DEF q, new
  <2> QED
    BY <1>1, <1>4, <2>1, <2>2, <2>3, Zenon DEF Inside
<1>11. PlaceInv'
  BY <1>1, <1>10 DEF PlaceInv
<1>12. BuildInv' /\ StreamInv' /\ BufferInv'
  BY <1>1, <1>2, OtherBuilds DEF IInv, StreamInv, BufferInv
<1>13. FramesAsSent'
  <2> SUFFICES ASSUME NEW i \in 1..N
               PROVE  \E k \in 1..Len(sent) : IsCommand(k, i)' /\ out'[i].type = sent[k].type
    <3>1. DOMAIN out' = 1..N /\ DOMAIN sent = 1..Len(sent) /\ sent' = sent
      BY <1>1, <1>5, <1>8, Zenon
    <3> QED
      BY <3>1, Zenon DEF FramesAsSent
  <2>1. PICK k \in 1..Len(sent) : IsCommand(k, i) /\ out[i].type = sent[k].type
    BY <1>5, <1>8, Zenon DEF IInv, FramesAsSent
  <2> QED
    BY <1>1, <1>8, <2>1, Zenon DEF IsCommand
<1>14. ChunksAsAppended'
  <2> SUFFICES ASSUME NEW i \in 1..N, NEW k \in 1..Len(sent), IsCommand(k, i), Fits(sent[k])
               PROVE  /\ ValuesOf(out'[i].values, sent[k].content)
                      /\ i < N => Len(out'[i].values) = Count(sent[k].content)
    BY <1>1, <1>5, <1>8, Zenon DEF ChunksAsAppended, IsCommand
  <2>1. /\ ValuesOf(out[i].values, sent[k].content)
        /\ i < N => Len(out[i].values) = Count(sent[k].content)
    BY <1>5, <1>8, Zenon DEF IInv, ChunksAsAppended, N
  <2>2. CASE i # N
    <3>1. i \in 1..N - 1
      BY <1>6, <2>2
    <3> QED
      BY <1>8, <2>1, <3>1, Zenon
  <2>3. CASE i = N
    <3>1. IsCommand(c, i)
      BY <1>4, <2>3, Zenon DEF IsCommand, q
    <3>2. sent[k] = q
      BY <1>2, <3>1, CommandIsUnique, Zenon DEF q
    <3>3. PICK m \in 0..Len(q.content) :
               /\ m + 1 \in 1..Len(q.content)
               /\ Len(old) = CountTo(q.content, m)
               /\ Len(new) = CountTo(q.content, m + 1)
               /\ q.content[m + 1].nth = CountTo(q.content, m + 1)
               /\ added = Wanted(q.content[m + 1].form)
               /\ added => v = Received(q.content[m + 1].form)
      BY <1>9, <3>2, Zenon
    <3>4. ValuesOf(new, q.content)
      <4>1. ValuesOf(old, q.content)
        BY <2>1, <2>3, <3>2, Zenon DEF old
      <4>2. DOMAIN q.content = 1..Len(q.content)
        BY <1>5, ChunkEntries, Zenon
      <4>5. DOMAIN new = 1..Len(new) /\ DOMAIN old = 1..Len(old)
        BY <1>8, Zenon
      <4> SUFFICES ASSUME NEW j \in 1..Len(new)
                   PROVE  \E e \in 1..Len(q.content) :
                            /\ Wanted(q.content[e].form) /\ q.content[e].nth = j
                            /\ new[j] = Received(q.content[e].form)
        BY <4>2, <4>5, Zenon DEF ValuesOf
      <4>3. CASE j \in 1..Len(old)
        <5>1. PICK e \in 1..Len(q.content) :
                 /\ Wanted(q.content[e].form) /\ q.content[e].nth = j
                 /\ old[j] = Received(q.content[e].form)
          BY <4>1, <4>2, <4>3, <4>5, Zenon DEF ValuesOf
        <5>2. new[j] = old[j]
          BY <1>8, <4>3, Zenon
        <5> QED
          BY <5>1, <5>2, Zenon
      <4>4. CASE j \notin 1..Len(old)
        <5>1. added /\ j = Len(old) + 1 /\ j = Len(new)
          BY <1>8, <4>4
        <5> QED
          BY <1>8, <3>3, <5>1, Zenon
      <4> QED
        BY <4>3, <4>4
    <3>5. ~(i < N)
      BY <1>6, <2>3
    <3> QED
      BY <2>3, <3>2, <3>4, <3>5, Zenon DEF new
  <2> QED
    BY <2>2, <2>3
<1> QED
  BY <1>11, <1>12, <1>13, <1>14, Zenon DEF IInv
LEMMA PartIs ==
    ASSUME NEW s \in Seq(Nat), NEW v \in Seq(Nat), NEW i \in Nat, i + Len(v) <= Len(s),
           \A x \in 1..Len(v) : s[i + x] = v[x]
    PROVE  SubSeq(s, i + 1, i + Len(v)) = v
<1> DEFINE n == Len(v)
           t == SubSeq(s, i + 1, i + n)
<1>1. n \in Nat /\ DOMAIN v = 1..n /\ v = [x \in 1..n |-> v[x]]
  OBVIOUS
<1>2. i + n <= Len(s)
  OBVIOUS
<1>3. \A x \in 1..n : s[i + x] = v[x]
  OBVIOUS
<1> HIDE DEF n
<1>4. \A x \in 1..n : t[x] = s[i + x]
  <2>1. n \in Nat
    BY <1>1
  <2> QED
    BY <1>2, <2>1
<1>5. t \in Seq(Nat) /\ Len(t) = n
  <2>1. n \in Nat /\ i + 1 \in Nat \ {0} /\ i + n \in Nat
    BY <1>1
  <2>2. t \in Seq(Nat)
    BY <1>2, <2>1, PartOfBytes
  <2>3. Len(t) = n
    BY <1>2, <2>1
  <2> QED
    BY <2>2, <2>3
<1>6. t = [x \in 1..n |-> t[x]]
  <2> HIDE DEF t
  <2> QED
    BY <1>5
<1> HIDE DEF t
<1>7. \A x \in 1..n : t[x] = v[x]
  BY <1>3, <1>4, Zenon
<1>8. [x \in 1..n |-> t[x]] = [x \in 1..n |-> v[x]]
  BY <1>7, Zenon
<1>9. t = v
  BY <1>1, <1>6, <1>8, Zenon
<1> QED
  BY <1>9, Zenon DEF t, n

(* The value at hand is that of the chunk                                  *)
LEMMA ValueAtHand ==
    ASSUME TypeOK, BufferInv, pc = "chunks", NEW p, NEW m, Behind(p, m), m # Len(p.content)
    PROVE  LET f == p.content[m + 1].form IN
           /\ f \in Forms /\ Bytes(Len(f.value)) = f.value
<1> DEFINE f == p.content[m + 1].form
           b == at + ChunkSize
           n == Len(f.value)
<1>1. /\ f \in Forms /\ n \in Nat /\ left - ChunkSize >= n
      /\ \A x \in 1..n : buf[at + ChunkSize + x] = f.value[x]
  <2>1. AtHand(f)
    BY ChunkAtHand, Zenon
  <2> HIDE DEF f
  <2> QED
    BY <2>1, Zenon DEF AtHand
<1> HIDE DEF f
<1>2. f.value \in Seq(Nat)
  BY <1>1, CompactBinaryAssumption, Zenon
<1> HIDE DEF n
<1>3. b \in Nat /\ b + n <= Len(buf) /\ buf \in Seq(Nat)
  BY <1>1 DEF TypeOK, ChunkSize
<1>4. \A x \in 1..n : buf[b + x] = f.value[x]
  BY <1>1, Zenon
<1> HIDE DEF b
<1>6. SubSeq(buf, b + 1, b + Len(f.value)) = f.value
  BY <1>2, <1>3, <1>4, PartIs, Zenon DEF n
<1>5. Bytes(Len(f.value)) = f.value
  BY <1>6, Zenon DEF Bytes, b
<1> QED
  BY <1>1, <1>5, Zenon DEF f

LEMMA NumberChunkKeeps == ASSUME IInv, NumberChunk PROVE IInv'
<1> DEFINE n == NumberWidth[ChunkType]
           v == [id |-> buf[at + 1], type |-> ChunkType, value |-> TurnRound(Bytes(n))]
<1>1. /\ pc = "chunks" /\ HasChunk /\ UNCHANGED <<sendVars, wire, buf, pc, ptr>>
      /\ ChunkType \in NumberTypes /\ n <= left - ChunkSize /\ Pass(n)
      /\ out' = [out EXCEPT ![Len(out)].values = Append(@, v)]
      /\ TypeOK /\ BufferInv
  BY DEF NumberChunk, InChunk, SetValue, IInv
<1>2. TypeOK'
  BY <1>1, ParseStep DEF Parse
<1>3. n \in Nat
  BY <1>1 DEF NumberTypes, NumberWidth
<1>4. v \in Value
  <2>1. n \in 0..left - ChunkSize
    BY <1>1, <1>3 DEF TypeOK, ChunkSize
  <2> HIDE DEF n
  <2> QED
    BY <1>1, <2>1, BytesAtHand, TurnedIsBytes, Zenon
<1> HIDE DEF v
<1>5. Len(out) > 0 => Gets(out, out', TRUE, v)
  BY <1>1, <1>4, ValueGiven, Zenon
<1>6. ASSUME NEW p, NEW m, Behind(p, m), m # Len(p.content)
      PROVE  LET f == p.content[m + 1].form IN
             n = Len(f.value) /\ TRUE = Wanted(f) /\ v = Received(f)
  <2> DEFINE f == p.content[m + 1].form
  <2>1. /\ f \in Forms /\ buf[at + 1] = f.id /\ ChunkType = f.type
        /\ Bytes(Len(f.value)) = f.value
    <3>1. AtHand(f) /\ Bytes(Len(f.value)) = f.value
      BY <1>1, <1>6, ChunkAtHand, ValueAtHand, Zenon
    <3> HIDE DEF f
    <3> QED
      BY <3>1, Zenon DEF AtHand
  <2> HIDE DEF f
  <2>2. n = Len(f.value) /\ f.type \in NumberTypes
    BY <1>1, <2>1, CompactBinaryAssumption, Zenon
  <2>3. v = Received(f)
    BY <2>1, <2>2, Zenon DEF v, Received
  <2>4. Wanted(f) = TRUE
    BY <2>2 DEF Wanted
  <2> QED
    BY <2>2, <2>3, <2>4, Zenon DEF f
<1> HIDE DEF n
<1> QED
  BY <1>1, <1>2, <1>3, <1>5, <1>6, PassKeeps, Zenon

LEMMA ValueChunkKeeps == ASSUME IInv, ValueChunk PROVE IInv'
<1> DEFINE n == ChunkLength
           v == [id |-> buf[at + 1], type |-> ChunkType, value |-> Bytes(n)]
<1>1. /\ pc = "chunks" /\ HasChunk /\ UNCHANGED <<sendVars, wire, buf, pc, ptr>>
      /\ ChunkType \in ValueTypes /\ Pass(n)
      /\ out' = [out EXCEPT ![Len(out)].values = Append(@, v)]
      /\ TypeOK /\ BufferInv
  BY DEF ValueChunk, InChunk, SetValue, IInv
<1>2. TypeOK'
  BY <1>1, ParseStep DEF Parse
<1>3. n \in 0..left - ChunkSize /\ n \in Nat /\ n <= left - ChunkSize
  BY <1>1, ChunkInPacket DEF TypeOK, ChunkSize
<1>4. v \in Value
  <2> HIDE DEF n
  <2> QED
    BY <1>1, <1>3, BytesAtHand, Zenon
<1> HIDE DEF v
<1>5. Len(out) > 0 => Gets(out, out', TRUE, v)
  BY <1>1, <1>4, ValueGiven, Zenon
<1>6. ASSUME NEW p, NEW m, Behind(p, m), m # Len(p.content)
      PROVE  LET f == p.content[m + 1].form IN
             n = Len(f.value) /\ TRUE = Wanted(f) /\ v = Received(f)
  <2> DEFINE f == p.content[m + 1].form
  <2>1. /\ f \in Forms /\ buf[at + 1] = f.id /\ ChunkType = f.type /\ n = Len(f.value)
        /\ Bytes(Len(f.value)) = f.value
    <3>1. AtHand(f) /\ Bytes(Len(f.value)) = f.value
      BY <1>1, <1>6, ChunkAtHand, ValueAtHand, Zenon
    <3> HIDE DEF f
    <3> QED
      BY <3>1, Zenon DEF AtHand
  <2> HIDE DEF f
  <2>2. f.type \in ValueTypes /\ f.type \notin NumberTypes
    <3>1. \A t \in ValueTypes : t \notin NumberTypes
      BY DEF ValueTypes, StringType, BinaryType, NumberTypes, NumberWidth
    <3> QED
      BY <1>1, <2>1, <3>1, Zenon
  <2>3. v = Received(f)
    BY <2>1, <2>2, Zenon DEF v, Received
  <2>4. Wanted(f) = TRUE
    BY <2>2 DEF Wanted
  <2> QED
    BY <2>1, <2>3, <2>4, Zenon DEF f
<1> HIDE DEF n
<1> QED
  BY <1>1, <1>2, <1>3, <1>5, <1>6, PassKeeps, Zenon

LEMMA OtherChunkKeeps == ASSUME IInv, OtherChunk PROVE IInv'
<1> DEFINE n == ChunkLength
<1>1. /\ pc = "chunks" /\ HasChunk /\ UNCHANGED <<sendVars, wire, buf, pc, ptr>>
      /\ ChunkType \notin NumberTypes \cup ValueTypes /\ Pass(n) /\ out' = out
      /\ TypeOK /\ BufferInv
  BY DEF OtherChunk, InChunk, IInv
<1>2. TypeOK'
  BY <1>1, ParseStep DEF Parse
<1>3. n \in Nat /\ n <= left - ChunkSize
  BY <1>1, ChunkInPacket DEF TypeOK, ChunkSize
<1>4. Len(out) > 0 => Gets(out, out', FALSE, 0)
  BY <1>1, NoValueGiven, Zenon
<1>5. ASSUME NEW p, NEW m, Behind(p, m), m # Len(p.content)
      PROVE  LET f == p.content[m + 1].form IN n = Len(f.value) /\ FALSE = Wanted(f)
  <2> DEFINE f == p.content[m + 1].form
  <2>1. ChunkType = f.type /\ n = Len(f.value)
    <3>1. AtHand(f)
      BY <1>1, <1>5, ChunkAtHand, Zenon
    <3> HIDE DEF f
    <3> QED
      BY <3>1, Zenon DEF AtHand
  <2> HIDE DEF f
  <2>2. Wanted(f) = FALSE
    <3>1. f.type \notin NumberTypes \cup ValueTypes
      BY <1>1, <2>1, Zenon
    <3> QED
      BY <3>1 DEF Wanted
  <2> QED
    BY <2>1, <2>2, Zenon DEF f
<1> HIDE DEF n
<1> QED
  BY <1>1, <1>2, <1>3, <1>4, <1>5, PassKeeps, Zenon

(* A number that is cut off is none that was appended: of a packet that    *)
(* fits, all of it is there                                                *)
LEMMA ShortNumberKeeps == ASSUME IInv, ShortNumber PROVE IInv'
<1>1. /\ pc = "chunks" /\ HasChunk /\ UNCHANGED <<sendVars, wire, buf, pc, ptr>>
      /\ ChunkType \in NumberTypes /\ ~(NumberWidth[ChunkType] <= left - ChunkSize)
      /\ Pass(0) /\ out' = out /\ TypeOK /\ BufferInv
  <2>1. /\ ChunkType \in NumberTypes /\ NumberWidth[ChunkType] > left - ChunkSize
        /\ TypeOK
    BY DEF ShortNumber, InChunk, IInv
  <2>2. ~(NumberWidth[ChunkType] <= left - ChunkSize)
    <3>1. NumberWidth[ChunkType] \in {1, 2, 4, 8}
      BY <2>1 DEF NumberTypes, NumberWidth
    <3> QED
      BY <2>1, <3>1 DEF TypeOK, ChunkSize
  <2> QED
    BY <2>2 DEF ShortNumber, InChunk, IInv
<1>2. TypeOK'
  BY ParseStep DEF Parse, IInv
<1>3. 0 \in Nat /\ 0 <= left - ChunkSize
  BY <1>1 DEF HasChunk, ChunkSize, TypeOK
<1>4. Len(out) > 0 => Gets(out, out', FALSE, 0)
  BY <1>1, NoValueGiven, Zenon
<1>5. ASSUME NEW p, NEW m, Behind(p, m), m # Len(p.content) PROVE FALSE
  <2> DEFINE f == p.content[m + 1].form
  <2>1. /\ f \in Forms /\ ChunkType = f.type
        /\ Len(f.value) \in Nat /\ left - ChunkSize >= Len(f.value)
    <3>1. AtHand(f)
      BY <1>1, <1>5, ChunkAtHand, Zenon
    <3> HIDE DEF f
    <3> QED
      BY <3>1, Zenon DEF AtHand
  <2> HIDE DEF f
  <2>2. NumberWidth[ChunkType] = Len(f.value)
    BY <1>1, <2>1, CompactBinaryAssumption, Zenon
  <2> DEFINE n == Len(f.value)
  <2>3. n \in Nat /\ left - ChunkSize >= n /\ ~(n <= left - ChunkSize)
    BY <1>1, <2>1, <2>2, Zenon
  <2> HIDE DEF n
  <2> QED
    BY <1>1, <2>3 DEF TypeOK, ChunkSize
<1> QED
  BY <1>1, <1>2, <1>3, <1>4, <1>5, PassKeeps, Zenon
(* What is left of a packet that fits is nothing: all its values were given *)
LEMMA EndPacketKeeps == ASSUME IInv, EndPacket PROVE IInv'
<1>1. /\ stream' = stream /\ wire' = wire /\ buf' = buf /\ sent' = sent /\ strange' = strange
      /\ packet' = packet /\ content' = content /\ Gone' = Gone /\ ptr' = ptr /\ out' = out
  BY DEF EndPacket, sendVars, Gone
<1>2. /\ pc = "chunks" /\ ~HasChunk /\ pc' = "frames" /\ TypeOK /\ StreamInv /\ BufferInv
  BY DEF EndPacket, IInv
<1>3. TypeOK'
  BY ParseStep DEF Parse, IInv
<1>4. PICK c \in 1..Len(sent) : Inside(c)
  BY <1>2 DEF IInv, PlaceInv
<1> DEFINE q == sent[c]
           N == Len(out)
<1>5. q.type \in Known /\ N = q.nth /\ Gone + ptr = q.end
  BY <1>4 DEF Inside
<1>6. /\ Len(sent) \in Nat /\ DOMAIN sent = 1..Len(sent) /\ c \in 0..Len(sent) /\ c # 0
      /\ q.content \in Seq(ChunkEntry) /\ N \in Nat /\ DOMAIN out = 1..N
  <2>1. Len(sent) \in Nat /\ DOMAIN sent = 1..Len(sent) /\ q.content \in Seq(ChunkEntry)
    BY <1>2, PacketEntries, Zenon
  <2>2. \A L \in Nat : \A d \in 1..L : d \in 0..L /\ d # 0
    OBVIOUS
  <2>3. N \in Nat /\ DOMAIN out = 1..N
    BY <1>2 DEF TypeOK
  <2> HIDE DEF q, N
  <2> QED
    BY <2>1, <2>2, <2>3, Zenon
<1>7. Follows(sent, stream, strange, q.end, c + 1)
  BY <1>2, <1>6, Zenon DEF StreamInv
<1>8. Between(c)'
  <2>1. Len(out) = CountTo(sent, c)
    BY <1>5, <1>6, Zenon DEF CountTo
  <2>2. Follows(sent, stream, strange, Gone + ptr, c + 1) /\ pc' # "wait"
    BY <1>2, <1>5, <1>7
  <2> HIDE DEF q, N
  <2> QED
    BY <1>1, <2>1, <2>2, Zenon DEF Between
<1>9. PlaceInv'
  BY <1>1, <1>2, <1>6, <1>8 DEF PlaceInv
<1>10. BuildInv' /\ StreamInv' /\ BufferInv'
  BY <1>1, <1>2, OtherBuilds DEF IInv, StreamInv, BufferInv
<1>11. FramesAsSent'
  BY <1>1 DEF IInv, FramesAsSent, IsCommand
<1> HIDE DEF q, N
<1>12. ChunksAsAppended'
  <2> SUFFICES ASSUME NEW i \in 1..N, NEW k \in 1..Len(sent), IsCommand(k, i), Fits(sent[k])
               PROVE  /\ ValuesOf(out[i].values, sent[k].content)
                      /\ Len(out[i].values) = Count(sent[k].content)
    BY <1>1, <1>6, Zenon DEF ChunksAsAppended, IsCommand
  <2>1. /\ ValuesOf(out[i].values, sent[k].content)
        /\ i < N => Len(out[i].values) = Count(sent[k].content)
    BY <1>6, Zenon DEF IInv, ChunksAsAppended, N
  <2>2. CASE i # N
    <3>1. i < N
      BY <1>6, <2>2
    <3> QED
      BY <2>1, <3>1
  <2>3. CASE i = N
    <3>1. IsCommand(c, i)
      BY <1>5, <2>3, Zenon DEF IsCommand, q
    <3>2. sent[k] = q
      BY <1>2, <3>1, CommandIsUnique, Zenon DEF q
    <3>3. PICK m \in 0..Len(q.content) :
               Behind(q, m) /\ Len(out[N].values) = CountTo(q.content, m)
      BY <1>2, <1>4, <3>2, PlaceInPacket, Zenon DEF q, N
    <3>4. m = Len(q.content)
      BY <1>2, <3>3, ChunksEnd, Zenon
    <3>5. Count(q.content) = CountTo(q.content, Len(q.content))
      BY <1>6, CountIsLast, Zenon
    <3> QED
      BY <2>1, <2>3, <3>2, <3>3, <3>4, <3>5, Zenon
  <2> QED
    BY <2>2, <2>3
<1> QED
  BY <1>3, <1>9, <1>10, <1>11, <1>12, Zenon DEF IInv

LEMMA Initially == Init => IInv
<1> SUFFICES ASSUME Init PROVE IInv
  OBVIOUS
<1>1. /\ packet = <<>> /\ content = <<>> /\ sent = <<>> /\ stream = <<>> /\ wire = <<>>
      /\ buf = <<>> /\ out = <<>> /\ pc = "wait" /\ ptr = 0 /\ strange = FALSE
  BY DEF Init
<1>2. Len(<<>>) = 0 /\ (\A j : j \notin DOMAIN <<>>) /\ (\A j : j \notin 1..0) /\ 0 \in 0..0
  OBVIOUS
<1>3. TypeOK
  BY InitiallyTypes
<1>4. BuildInv
  <2>1. InOrder(<<>>) /\ LieIn(<<>>, 0, <<>>)
    BY <1>2, Zenon DEF InOrder, LieIn
  <2>2. Len(<<>>) = EndOf(<<>>, Len(<<>>))
    BY <1>2 DEF EndOf
  <2> QED
    BY <1>1, <2>1, <2>2 DEF BuildInv
<1>5. StreamInv
  BY <1>1, <1>2, Zenon DEF StreamInv
<1>6. Gone = 0
  <2>1. Len(stream) = 0 /\ Len(wire) = 0 /\ Len(buf) = 0
    BY <1>1, <1>2, Zenon
  <2> DEFINE a == Len(stream)
             b == Len(wire)
             c == Len(buf)
  <2>2. a = 0 /\ b = 0 /\ c = 0
    BY <2>1, Zenon
  <2> HIDE DEF a, b, c
  <2>3. a - b - c = 0
    BY <2>2
  <2> QED
    BY <2>3, Zenon DEF Gone, a, b, c
<1>7. BufferInv
  <2>1. 0 >= 0
    OBVIOUS
  <2> QED
    BY <1>1, <1>2, <1>6, <2>1, Zenon DEF BufferInv
<1>8. Between(0)
  <2>1. Gone + ptr = 0 /\ 0 + 1 = 1 /\ Len(sent) + 1 = 1 /\ Len(stream) = 0
    BY <1>1, <1>2, <1>6
  <2>2. Follows(sent, stream, strange, Gone + ptr, 0 + 1)
    BY <2>1, Zenon DEF Follows, StartOf
  <2>3. \A k \in 0 + 1..Len(sent) : ~HaveArrived(k)
    BY <1>1, <1>2, <2>1, Zenon
  <2> QED
    <3>1. Len(out) = CountTo(sent, 0)
      <4>1. Len(out) = 0
        BY <1>1, <1>2
      <4> QED
        BY <4>1 DEF CountTo
    <3> QED
      BY <1>1, <2>2, <2>3, <3>1 DEF Between
<1>9. PlaceInv
  BY <1>1, <1>2, <1>8, Zenon DEF PlaceInv
<1>10. FramesAsSent /\ ChunksAsAppended
  BY <1>1, <1>2, Zenon DEF FramesAsSent, ChunksAsAppended
<1> QED
  BY <1>3, <1>4, <1>5, <1>7, <1>9, <1>10 DEF IInv
LEMMA StepKeeps == IInv /\ [Next]_vars => IInv'
<1> SUFFICES ASSUME IInv, [Next]_vars PROVE IInv'
  OBVIOUS
<1>1. CASE AppendChunk \/ SendPacket \/ SendOther
  BY <1>1, SendKeeps
<1>2. CASE Receive
  BY <1>2, ReceiveKeeps
<1>3. CASE NoFrame \/ UnknownCommand \/ Command
  BY <1>3, NoFrameKeeps, UnknownCommandKeeps, CommandKeeps
<1>4. CASE NumberChunk \/ ShortNumber \/ ValueChunk \/ OtherChunk \/ EndPacket
  BY <1>4, NumberChunkKeeps, ShortNumberKeeps, ValueChunkKeeps, OtherChunkKeeps, EndPacketKeeps
<1>5. CASE UNCHANGED vars
  <2>1. /\ UNCHANGED <<packet, content, sent, stream, strange, wire, buf, pc, ptr, at, left, out>>
        /\ Gone' = Gone
    BY <1>5 DEF vars, sendVars, Gone
  <2>2. TypeOK'
    BY <2>1 DEF IInv, TypeOK
  <2>3. BuildInv' /\ StreamInv' /\ BufferInv'
    BY <2>1, OtherBuilds DEF IInv, StreamInv, BufferInv
  <2>4. PlaceInv'
    BY <2>1 DEF IInv, PlaceInv, Between, Inside, HaveArrived
  <2>5. FramesAsSent' /\ ChunksAsAppended'
    BY <2>1 DEF IInv, FramesAsSent, ChunksAsAppended, IsCommand
  <2> QED
    BY <2>2, <2>3, <2>4, <2>5 DEF IInv
<1> QED
  BY <1>1, <1>2, <1>3, <1>4, <1>5 DEF Next, Process, Parse

LEMMA Invariance == Spec => []IInv
  BY Initially, StepKeeps, PTL DEF Spec

(* SendChunkInPacket, DoProcessCB and compile_buffer_data agree on where   *)
(* packets begin and end: handlers are called for the packets that have    *)
(* one, in the order they were sent, wherever the bytes were cut and also  *)
(* when the size of a packet did not fit its field.                        *)
THEOREM PacketsAsSent == Spec => []FramesAsSent
<1>1. IInv => FramesAsSent
  BY DEF IInv
<1> QED
  BY <1>1, Invariance, PTL

(* AppendChunkT, AppendChunkString and AppendChunkBuffer write what        *)
(* ParsePacket reads: of a packet whose sizes fit, a handler gets all that *)
(* was appended and is of a type it knows, and nothing else.               *)
THEOREM ValuesAsAppended == Spec => []ChunksAsAppended
<1>1. IInv => ChunksAsAppended
  BY DEF IInv
<1> QED
  BY <1>1, Invariance, PTL

(* stub_conn_read goes back to waiting only when compile_buffer_data has   *)
(* handled every packet that is whole in the buffer, as long as the peer   *)
(* sent nothing but packets.                                               *)
THEOREM NothingLeftInBuffer == Spec => []NoneLeftInBuffer
<1>1. ASSUME IInv PROVE NoneLeftInBuffer
  <2> SUFFICES ASSUME pc = "wait", ~strange, NEW k \in 1..Len(sent), HaveArrived(k)
               PROVE  Len(out) >= sent[k].nth
    <3>1. DOMAIN sent = 1..Len(sent)
      BY <1>1, PacketEntries, Zenon DEF IInv
    <3> QED
      BY <3>1 DEF NoneLeftInBuffer
  <2>1. PICK c \in 0..Len(sent) : Between(c)
    BY <1>1 DEF IInv, PlaceInv
  <2>2. Len(out) = CountTo(sent, c) /\ k \notin c + 1..Len(sent)
    BY <2>1 DEF Between
  <2>3. Len(sent) \in Nat
    BY <1>1, PacketEntries, Zenon DEF IInv
  <2>4. k \in 0..Len(sent) /\ k # 0 /\ k <= c
    BY <2>2, <2>3
  <2>5. CountTo(sent, k) <= CountTo(sent, c)
    BY <1>1, <2>4, CountGrows, Zenon DEF IInv
  <2>6. CountTo(sent, k) = sent[k].nth
    BY <2>4 DEF CountTo
  <2>7. CountTo(sent, k) \in Nat /\ CountTo(sent, c) \in Nat
    BY <1>1, <2>4, PacketEntries, Zenon DEF IInv
  <2> DEFINE a == CountTo(sent, k)
             b == CountTo(sent, c)
             n == Len(out)
             m == sent[k].nth
  <2>8. a <= b /\ a \in Nat /\ b \in Nat /\ n = b /\ a = m
    BY <2>2, <2>5, <2>6, <2>7, Zenon
  <2> HIDE DEF a, b, n, m
  <2>9. n >= m
    BY <2>8
  <2> QED
    BY <2>9 DEF n, m
<1> QED
  BY <1>1, Invariance, PTL
=============================================================================
