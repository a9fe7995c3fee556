------------------------- MODULE HttpResponseProofs -------------------------
(***************************************************************************)
(* Theorems about HttpResponse, for any requests, files, lengths and width *)
(* of a word, and any number of changes of the directory.                  *)
(***************************************************************************)
EXTENDS HttpResponse, TLAPS

StampSet == [inode : Inodes, time : Nat]
FileSet == [stamp : StampSet \cup {None}, length : Int]
HeadSet == [kind : {"head"}, of : Nat, code : Nat, length : Int, bodiless : BOOLEAN,
            connection : Connections, stamp : StampSet \cup {None}]
BodySet == [kind : {"body"}, length : Int, stamp : StampSet \cup {None}]

(* A request is there while it is handled, and a file while it is sent.    *)
ShapeInv ==
    /\ output \in Seq(HeadSet \cup BodySet)
    /\ handled \in Nat /\ waiting \in Nat /\ sent \in Nat
    /\ rpc \in {"idle", "action", "resolve", "missing", "open", "head", "copy", "end"}
    /\ proc \in {"up", "dead"}
    /\ rpc # "idle" => proc = "up" /\ req \in Requests /\ handled > 0
    /\ rpc = "resolve" => req.target \in Paths
    /\ rpc = "open" => path \in Paths
    /\ rpc \in {"head", "copy"} \/ (proc = "dead" /\ req.target # "auth") =>
         file \in FileSet /\ path \in Paths

(* A name leads to an inode that was written; the inodes to come were not. *)
DirInv ==
    /\ changes \in 0..MaxChange
    /\ written \in [Inodes -> Seq(Nat)]
    /\ dir \in [Paths -> Inodes \cup {Dir, None}]
    /\ \A i \in Inodes : i > changes + 1 => written[i] = <<>>
    /\ \A p \in Paths : dir[p] \in Inodes => written[dir[p]] # <<>>

(* A modification that took place, and the length fastfile has for it      *)
Known(st) == st.inode \in Inodes /\ st.time \in 1..Len(written[st.inode])
LengthAt(st) == MappedLength(written[st.inode][st.time])

(* The open file is one of the directory's, as it was then.                *)
FileInv ==
    rpc \in {"head", "copy"} =>
        IF file.stamp = None THEN dir[path] = Dir /\ file.length = DirLength
        ELSE Known(file.stamp) /\ file.length = LengthAt(file.stamp)

(* A head tells what its file was; its body is that file's.                *)
StampInv ==
    \A i \in Heads :
        output[i].stamp # None =>
            /\ Known(output[i].stamp)
            /\ output[i].length = Announced(LengthAt(output[i].stamp))
            /\ i + 1 \in Bodies => output[i + 1].stamp.inode = output[i].stamp.inode

(* What follows a head is as long as it says, unless its file does not fit *)
(* or its body is still to be copied, or never was.                        *)
Framed(i) ==
    \/ BodyLength(i) = IF output[i].bodiless THEN 0 ELSE output[i].length
    \/ output[i].stamp # None /\ ~Fit(written[output[i].stamp.inode][output[i].stamp.time])

CopyPending == rpc = "copy"

FrameInv ==
    /\ \A i \in Heads : Framed(i) \/ ((CopyPending \/ proc = "dead") /\ i = Len(output))
    /\ CopyPending =>
         /\ Len(output) \in Heads
         /\ output[Len(output)] = HeadOf(200, file.length, file.stamp)

(* The requests that have their answer, or its head                        *)
Answered == IF rpc \in {"idle", "copy", "end"} THEN handled ELSE handled - 1

OrderInv ==
    proc = "up" =>
        /\ {output[i].of : i \in Heads} = 1..Answered
        /\ \A i, j \in Heads : i < j => output[i].of < output[j].of

Told == \E i \in Heads : output[i].connection # "keep-alive"
Ending == rpc \in {"copy", "end"} /\ ConnectionOf(req) # "keep-alive"

(* A head has told of the end if the connection is ending, or the request  *)
(* at hand is about to end it.                                             *)
EndInv ==
    /\ conn \in {"draining", "closed"} \/ Ending => Told
    /\ conn = "open" /\ Told => Ending \/ proc = "dead"

(* Nothing is sent while a request is handled, so that an answer that was  *)
(* just made is still to be sent.                                          *)
SentInv ==
    /\ conn \in {"open", "draining", "closed", "cut"}
    /\ sent <= Len(output)
    /\ conn = "draining" \/ rpc \in {"copy", "end"} => sent < Len(output)
    /\ conn = "closed" => sent = Len(output)
    /\ conn \in {"closed", "cut"} => rpc = "idle" /\ (proc = "up" => waiting = 0)

IInv ==
    /\ ShapeInv /\ DirInv /\ FileInv /\ StampInv /\ FrameInv /\ OrderInv
    /\ EndInv /\ SentInv /\ DiesOnlyOf

-----------------------------------------------------------------------------

LEMMA ConstantFacts ==
    /\ Inodes \subseteq Nat /\ None \notin Inodes /\ Dir \notin Inodes /\ None # Dir
    /\ MaxChange \in Nat
BY HttpResponseAssumption DEF Inodes, Dir

(* What a request is asked with                                            *)
LEMMA RequestFacts ==
    ASSUME NEW r \in Requests
    PROVE  /\ r.head \in BOOLEAN /\ r.since \in BOOLEAN /\ r.target \in Actions \cup Paths
           /\ ConnectionOf(r) \in Connections
BY HttpResponseAssumption DEF ConnectionOf, Connections

(* A length that is smaller than half the word is printed as it is.        *)
LEMMA FitFacts ==
    /\ Announced(0) = 0
    /\ \A n \in Nat : Fit(n) => Announced(n) = n /\ MappedLength(n) = n
    /\ Fit(TextLength) /\ TextLength \in Nat
    /\ \A n \in Int : Announced(n) \in Int
<1>1. Word \in Nat /\ Word > 1 /\ Word \div 2 \in Nat /\ Word \div 2 <= Word /\ 0 < Word \div 2
  BY HttpResponseAssumption
<1>2. \A n \in 0..Word - 1 : n % Word = n
  BY <1>1
<1>3. \A n \in 0..(Word \div 2) - 1 : Announced(n) = n
  BY <1>1, <1>2 DEF Announced
<1>4. \A n \in Int : n % Word \in Int
  BY <1>1
<1>5. \A n \in Int : Announced(n) \in Int
  BY <1>1, <1>4 DEF Announced
<1> QED
  BY <1>1, <1>3, <1>5, HttpResponseAssumption DEF Fit, MappedLength

(* A head and a body are what the output is made of.                       *)
LEMMA HeadFacts ==
    ASSUME ShapeInv, req \in Requests, NEW code \in Nat, NEW n \in Int,
           NEW st \in StampSet \cup {None}
    PROVE  /\ HeadOf(code, n, st) \in HeadSet
           /\ BodyOf(n, st) \in BodySet
BY RequestFacts, FitFacts DEF HeadOf, BodyOf, HeadSet, BodySet, ShapeInv

(* What one element more does to the sequence                              *)
LEMMA OneMore ==
    ASSUME ShapeInv, NEW x \in HeadSet \cup BodySet, output' = Append(output, x)
    PROVE  /\ output' \in Seq(HeadSet \cup BodySet)
           /\ Len(output) \in Nat /\ Len(output') = Len(output) + 1
           /\ DOMAIN output = 1..Len(output) /\ DOMAIN output' = 1..Len(output) + 1
           /\ output'[Len(output) + 1] = x
           /\ \A i \in 1..Len(output) : output'[i] = output[i]
BY DEF ShapeInv

LEMMA TwoMore ==
    ASSUME ShapeInv, NEW x \in HeadSet \cup BodySet, NEW y \in HeadSet \cup BodySet,
           output' = output \o <<x, y>>
    PROVE  /\ output' \in Seq(HeadSet \cup BodySet)
           /\ Len(output) \in Nat /\ Len(output') = Len(output) + 2
           /\ DOMAIN output = 1..Len(output) /\ DOMAIN output' = 1..Len(output) + 2
           /\ output'[Len(output) + 1] = x /\ output'[Len(output) + 2] = y
           /\ \A i \in 1..Len(output) : output'[i] = output[i]
<1> DEFINE T == HeadSet \cup BodySet
<1>1. output \in Seq(T) /\ <<x, y>> \in Seq(T) /\ Len(<<x, y>>) = 2
  BY DEF ShapeInv
<1> HIDE DEF T
<1> QED
  BY <1>1 DEF T

(* Heads and bodies after a head, and perhaps its body, was added          *)
LEMMA HeadAdded ==
    ASSUME ShapeInv, NEW x \in HeadSet, output' = Append(output, x)
    PROVE  Heads' = Heads \cup {Len(output) + 1} /\ Bodies' = Bodies
BY OneMore DEF Heads, Bodies, HeadSet, BodySet

LEMMA BodyAdded ==
    ASSUME ShapeInv, NEW x \in BodySet, output' = Append(output, x)
    PROVE  Heads' = Heads /\ Bodies' = Bodies \cup {Len(output) + 1}
BY OneMore DEF Heads, Bodies, HeadSet, BodySet

LEMMA BothAdded ==
    ASSUME ShapeInv, NEW x \in HeadSet, NEW y \in BodySet, output' = output \o <<x, y>>
    PROVE  Heads' = Heads \cup {Len(output) + 1} /\ Bodies' = Bodies \cup {Len(output) + 2}
<1> DEFINE n == Len(output)
<1>1. /\ n \in Nat /\ DOMAIN output = 1..n /\ DOMAIN output' = 1..n + 2
      /\ output'[n + 1].kind = "head" /\ output'[n + 2].kind = "body"
      /\ \A i \in 1..n : output'[i] = output[i]
  BY TwoMore DEF HeadSet, BodySet
<1>2. \A i : i \in 1..n + 2 <=> i \in 1..n \/ i = n + 1 \/ i = n + 2
  BY <1>1
<1> HIDE DEF n
<1>3. Heads' = Heads \cup {n + 1}
  BY <1>1, <1>2 DEF Heads
<1>4. Bodies' = Bodies \cup {n + 2}
  <2>1. n + 2 # n + 1 /\ n + 1 \notin 1..n /\ n + 2 \notin 1..n
    BY <1>1
  <2> QED
    BY <1>1, <1>2, <1>3, <2>1 DEF Bodies, Heads
<1> QED
  BY <1>3, <1>4 DEF n

LEMMA InitHolds == Init => IInv
<1> SUFFICES ASSUME Init PROVE IInv
  OBVIOUS
<1>1. output = <<>> /\ Heads = {} /\ Bodies = {} /\ Len(output) = 0
  BY DEF Init, Heads, Bodies
<1>2. ShapeInv
  BY <1>1 DEF Init, ShapeInv
<1>3. DirInv
  <2>1. PICK n \in Lengths : written = [i \in Inodes |-> IF i = 1 THEN <<n>> ELSE <<>>]
    BY DEF Init
  <2>2. n \in Nat
    BY HttpResponseAssumption
  <2>3. 1 \in Inodes
    BY HttpResponseAssumption DEF Inodes
  <2>4. written \in [Inodes -> Seq(Nat)]
    BY <2>1, <2>2
  <2>5. dir \in [Paths -> Inodes \cup {Dir, None}] /\ \A p \in Paths : dir[p] \in Inodes => dir[p] = 1
    BY <2>3, ConstantFacts DEF Init
  <2>6. written[1] # <<>> /\ \A i \in Inodes : i > 1 => written[i] = <<>>
    BY <2>1, <2>2, <2>3, ConstantFacts
  <2> QED
    BY <2>4, <2>5, <2>6, ConstantFacts DEF Init, DirInv
<1>4. FileInv /\ StampInv /\ FrameInv
  BY <1>1 DEF Init, FileInv, StampInv, FrameInv, CopyPending
<1>5. OrderInv
  BY <1>1 DEF Init, OrderInv, Answered
<1>6. EndInv /\ SentInv /\ DiesOnlyOf
  BY <1>1 DEF Init, EndInv, Told, Ending, SentInv, DiesOnlyOf
<1> QED
  BY <1>2, <1>3, <1>4, <1>5, <1>6 DEF IInv

(* A text, with its body if one is wanted: what TextLength or nothing says *)
(* is what follows.                                                        *)
LEMMA Responding ==
    ASSUME IInv, rpc \in {"action", "missing", "head"},
           NEW code \in Nat, NEW n \in {0, TextLength}, SendResponse(code, n),
           rpc' = "end", UNCHANGED <<fsVars, proc, req, path, connVars, handled>>
    PROVE  IInv'
<1> USE DEF IInv
<1> DEFINE h == HeadOf(code, n, None)
           b == BodyOf(n, None)
           bare == req.head \/ n = 0
<1>0. PICK m \in Nat : m = Len(output)
  BY DEF ShapeInv
<1>1. /\ req \in Requests /\ handled \in Nat /\ handled > 0 /\ proc = "up"
      /\ m \in Nat /\ m = Len(output) /\ DOMAIN output = 1..m
  BY <1>0 DEF ShapeInv
<1>2. h \in HeadSet /\ b \in BodySet /\ n \in Nat
  <2>1. n \in Nat /\ n \in Int
    BY FitFacts
  <2> QED
    BY <1>1, <2>1, HeadFacts
<1>3. /\ h.of = handled /\ h.stamp = None /\ h.connection = ConnectionOf(req)
      /\ h.length = n /\ h.bodiless = req.head /\ b.length = n /\ b.kind = "body"
  BY FitFacts DEF HeadOf, BodyOf, Fit
<1>4. output' = IF bare THEN Append(output, h) ELSE output \o <<h, b>>
  <2>1. output \o <<h>> = Append(output, h)
    BY <1>2 DEF ShapeInv
  <2> QED
    BY <2>1 DEF SendResponse
<1> HIDE DEF h, b, bare
<1>5. /\ output' \in Seq(HeadSet \cup BodySet)
      /\ Len(output') \in Nat /\ Len(output') > m
      /\ output'[m + 1] = h
      /\ \A i \in 1..m : output'[i] = output[i]
      /\ ~bare => output'[m + 2] = b
  <2>1. CASE bare
    BY <1>1, <1>2, <1>4, <2>1, OneMore
  <2>2. CASE ~bare
    BY <1>1, <1>2, <1>4, <2>2, TwoMore
  <2> QED
    BY <2>1, <2>2
<1>6. /\ Heads' = Heads \cup {m + 1}
      /\ Bodies' = IF bare THEN Bodies ELSE Bodies \cup {m + 2}
  BY <1>1, <1>2, <1>4, HeadAdded, BothAdded
<1>7. Heads \subseteq 1..m /\ Bodies \subseteq 1..m /\ m + 1 \notin Bodies
  BY <1>1 DEF Heads, Bodies
<1>8. \A i \in Heads : i \in 1..m /\ output'[i] = output[i] /\ BodyLength(i)' = BodyLength(i)
                      /\ (i + 1 \in Bodies' <=> i + 1 \in Bodies)
                      /\ (i + 1 \in Bodies => output'[i + 1] = output[i + 1])
  <2> SUFFICES ASSUME NEW i \in Heads
               PROVE  /\ i \in 1..m /\ output'[i] = output[i] /\ BodyLength(i)' = BodyLength(i)
                      /\ (i + 1 \in Bodies' <=> i + 1 \in Bodies)
                      /\ (i + 1 \in Bodies => output'[i + 1] = output[i + 1])
    OBVIOUS
  <2>1. i \in 1..m /\ i + 1 # m + 2
    BY <1>1, <1>7
  <2>2. i + 1 \in Bodies' <=> i + 1 \in Bodies
    BY <1>6, <2>1
  <2>3. i + 1 \in Bodies => output'[i + 1] = output[i + 1]
    BY <1>5, <1>7
  <2> QED
    BY <1>5, <2>1, <2>2, <2>3 DEF BodyLength
<1>9. BodyLength(m + 1)' = IF req.head THEN 0 ELSE n
  <2>1. m + 1 + 1 = m + 2 /\ m + 2 \notin Bodies
    BY <1>1, <1>7
  <2> QED
    BY <1>3, <1>5, <1>6, <2>1 DEF BodyLength, bare
<1>10. ShapeInv' /\ DirInv' /\ FileInv' /\ DiesOnlyOf'
  BY <1>1, <1>5 DEF ShapeInv, DirInv, FileInv, DiesOnlyOf, fsVars, connVars
<1>11. StampInv'
  BY <1>3, <1>5, <1>6, <1>8 DEF StampInv, Known, LengthAt, fsVars
<1>12. FrameInv'
  <2>1. \A i \in Heads : Framed(i)'
    BY <1>1, <1>8 DEF FrameInv, Framed, CopyPending, fsVars
  <2>2. Framed(m + 1)'
    BY <1>3, <1>5, <1>9 DEF Framed
  <2> QED
    BY <1>6, <2>1, <2>2 DEF FrameInv, CopyPending
<1>13. OrderInv'
  <2>1. Answered = handled - 1 /\ Answered' = handled
    BY DEF Answered
  <2>2. {output[i].of : i \in Heads} = 1..handled - 1
    BY <1>1, <2>1 DEF OrderInv
  <2>3. {output'[i].of : i \in Heads'} = {output[i].of : i \in Heads} \cup {handled}
    BY <1>3, <1>5, <1>6, <1>8
  <2>4. (1..handled - 1) \cup {handled} = 1..handled
    BY <1>1
  <2>5. \A i \in Heads : output[i].of < handled
    <3> SUFFICES ASSUME NEW i \in Heads PROVE output[i].of < handled
      OBVIOUS
    <3>1. output[i].of \in 1..handled - 1
      BY <2>2
    <3> QED
      BY <1>1, <3>1
  <2>6. \A i, j \in Heads' : i < j => output'[i].of < output'[j].of
    BY <1>1, <1>3, <1>5, <1>6, <1>7, <1>8, <2>5 DEF OrderInv
  <2> QED
    BY <2>1, <2>2, <2>3, <2>4, <2>6 DEF OrderInv
<1>14. EndInv'
  <2>1. Told' <=> Told \/ ConnectionOf(req) # "keep-alive"
    BY <1>3, <1>5, <1>6, <1>8 DEF Told
  <2> QED
    BY <1>1, <2>1 DEF EndInv, Ending, connVars
<1>15. SentInv'
  BY <1>1, <1>5 DEF SentInv, ShapeInv, connVars
<1> QED
  BY <1>10, <1>11, <1>12, <1>13, <1>14, <1>15

LEMMA AnswerSteps == ASSUME IInv, AnswerAction \/ AnswerMissing \/ NotModified PROVE IInv'
<1>1. PICK code \in Nat, n \in {0, TextLength} : SendResponse(code, n)
  BY DEF AnswerAction, AnswerMissing, NotModified
<1>2. rpc \in {"action", "missing", "head"} /\ rpc' = "end"
      /\ UNCHANGED <<fsVars, proc, req, path, connVars, handled>>
  BY DEF AnswerAction, AnswerMissing, NotModified
<1> QED
  BY <1>1, <1>2, Responding

(* The head of a file, whose body is still to be copied                    *)
LEMMA SendHeadStep == ASSUME IInv, SendHead PROVE IInv'
<1> USE DEF IInv
<1> DEFINE h == HeadOf(200, file.length, file.stamp)
<1>0. PICK m \in Nat : m = Len(output)
  BY DEF ShapeInv
<1>1. /\ req \in Requests /\ handled \in Nat /\ handled > 0 /\ proc = "up" /\ rpc = "head"
      /\ rpc' = "copy" /\ m = Len(output) /\ DOMAIN output = 1..m /\ file \in FileSet
      /\ UNCHANGED <<fsVars, proc, req, path, file, connVars, handled>>
  BY <1>0 DEF ShapeInv, SendHead
<1>2. h \in HeadSet
  BY <1>1, HeadFacts DEF FileSet
<1>3. /\ h.of = handled /\ h.stamp = file.stamp /\ h.connection = ConnectionOf(req)
      /\ h.length = Announced(file.length)
  BY DEF HeadOf
<1>4. output' = Append(output, h) /\ HeadOf(200, file.length, file.stamp)' = h
  BY <1>1 DEF SendHead, HeadOf, ConnectionOf
<1> HIDE DEF h
<1>5. /\ output' \in Seq(HeadSet \cup BodySet) /\ Len(output') = m + 1
      /\ output'[m + 1] = h
      /\ \A i \in 1..m : output'[i] = output[i]
  BY <1>1, <1>2, <1>4, OneMore
<1>6. Heads' = Heads \cup {m + 1} /\ Bodies' = Bodies
  BY <1>1, <1>2, <1>4, HeadAdded
<1>7. Heads \subseteq 1..m /\ Bodies \subseteq 1..m
  BY <1>1 DEF Heads, Bodies
<1>8. \A i \in Heads : i \in 1..m /\ output'[i] = output[i] /\ BodyLength(i)' = BodyLength(i)
                      /\ (i + 1 \in Bodies => output'[i + 1] = output[i + 1])
  BY <1>5, <1>6, <1>7 DEF BodyLength
<1>9. m + 1 + 1 \notin Bodies
  BY <1>7
<1>10. ShapeInv' /\ DirInv' /\ FileInv' /\ DiesOnlyOf'
  <2>1. path \in Paths
    BY <1>1 DEF ShapeInv
  <2> QED
    BY <1>1, <1>5, <2>1 DEF ShapeInv, DirInv, FileInv, Known, LengthAt, DiesOnlyOf, fsVars, connVars
<1>11. StampInv'
  BY <1>1, <1>3, <1>5, <1>6, <1>8, <1>9 DEF StampInv, FileInv, Known, LengthAt, fsVars
<1>12. FrameInv'
  <2>1. \A i \in Heads : Framed(i)'
    BY <1>1, <1>8 DEF FrameInv, Framed, CopyPending, fsVars
  <2> QED
    BY <1>1, <1>4, <1>5, <1>6, <2>1 DEF FrameInv, CopyPending
<1>13. OrderInv'
  <2>1. Answered = handled - 1 /\ Answered' = handled
    BY <1>1 DEF Answered
  <2>2. {output[i].of : i \in Heads} = 1..handled - 1
    BY <1>1, <2>1 DEF OrderInv
  <2>3. {output'[i].of : i \in Heads'} = {output[i].of : i \in Heads} \cup {handled}
    BY <1>3, <1>5, <1>6, <1>8
  <2>4. (1..handled - 1) \cup {handled} = 1..handled
    BY <1>1
  <2>5. \A i \in Heads : output[i].of < handled
    <3> SUFFICES ASSUME NEW i \in Heads PROVE output[i].of < handled
      OBVIOUS
    <3>1. output[i].of \in 1..handled - 1
      BY <2>2
    <3> QED
      BY <1>1, <3>1
  <2>6. \A i, j \in Heads' : i < j => output'[i].of < output'[j].of
    BY <1>1, <1>3, <1>5, <1>6, <1>7, <1>8, <2>5 DEF OrderInv
  <2> QED
    BY <2>1, <2>2, <2>3, <2>4, <2>6 DEF OrderInv
<1>14. EndInv'
  <2>1. Told' <=> Told \/ ConnectionOf(req) # "keep-alive"
    BY <1>3, <1>5, <1>6, <1>8 DEF Told
  <2> QED
    BY <1>1, <2>1 DEF EndInv, Ending, connVars
<1>15. SentInv'
  BY <1>1, <1>5 DEF SentInv, ShapeInv, connVars
<1> QED
  BY <1>10, <1>11, <1>12, <1>13, <1>14, <1>15

(* The body of a file goes behind its head, or nothing does.               *)
LEMMA CopyStep == ASSUME IInv, CopyFile PROVE IInv'
<1> USE DEF IInv
<1> DEFINE b == BodyOf(file.length, StampOf(file.stamp.inode))
<1>0. PICK m \in Nat : m = Len(output)
  BY DEF ShapeInv
<1>1. /\ req \in Requests /\ handled \in Nat /\ handled > 0 /\ proc = "up" /\ rpc = "copy"
      /\ rpc' = "end" /\ m = Len(output) /\ DOMAIN output = 1..m /\ file \in FileSet
      /\ req.head \in BOOLEAN /\ (req.head \/ file.stamp # None)
      /\ UNCHANGED <<fsVars, proc, req, path, connVars, handled>>
  BY <1>0, RequestFacts DEF ShapeInv, CopyFile
<1>2. /\ m \in Heads /\ output[m].stamp = file.stamp /\ output[m].bodiless = req.head
      /\ output[m].length = Announced(file.length)
  BY <1>1 DEF FrameInv, CopyPending, HeadOf
<1>3. Heads \subseteq 1..m /\ Bodies \subseteq 1..m
  BY <1>1 DEF Heads, Bodies
<1>4. /\ DirInv' /\ FileInv' /\ DiesOnlyOf' /\ Answered' = Answered
      /\ EndInv /\ ~CopyPending'
      /\ ConnectionOf(req)' = ConnectionOf(req)
  BY <1>1 DEF DirInv, FileInv, DiesOnlyOf, Answered, CopyPending, fsVars, connVars, ConnectionOf
<1>5. \A i \in Heads : i # m => Framed(i)
  BY <1>1 DEF FrameInv
<1>6. CASE UNCHANGED output /\ (req.head \/ file.length < 0)
  <2>1. UNCHANGED <<Heads, Bodies>> /\ Len(output') = m
    BY <1>1, <1>6 DEF Heads, Bodies
  <2>2. ShapeInv' /\ StampInv' /\ OrderInv' /\ SentInv'
    BY <1>1, <1>4, <1>6, <2>1
       DEF ShapeInv, StampInv, Known, LengthAt, OrderInv, SentInv, fsVars, connVars
  <2>3. Framed(m)
    <3>1. BodyLength(m) = 0
      BY <1>1, <1>3 DEF BodyLength
    <3>2. CASE req.head
      BY <1>2, <3>1, <3>2 DEF Framed
    <3>3. CASE ~req.head
      <4>1. file.stamp # None /\ file.length < 0
        BY <1>1, <1>6, <3>3
      <4>2. /\ file.length = MappedLength(written[file.stamp.inode][file.stamp.time])
            /\ written[file.stamp.inode][file.stamp.time] \in Nat
        BY <1>1, <4>1 DEF FileInv, Known, LengthAt, DirInv
      <4>3. written[file.stamp.inode][file.stamp.time] = 0
        BY <4>1, <4>2 DEF MappedLength
      <4>4. ~Fit(0)
        BY DEF Fit
      <4> QED
        BY <1>2, <4>1, <4>3, <4>4 DEF Framed
    <3> QED
      BY <3>2, <3>3
  <2>4. FrameInv'
    BY <1>1, <1>4, <1>5, <1>6, <2>1, <2>3 DEF FrameInv, Framed, BodyLength, fsVars
  <2>5. EndInv'
    BY <1>1, <1>4, <1>6, <2>1 DEF EndInv, Told, Ending, connVars
  <2> QED
    BY <1>4, <2>2, <2>4, <2>5
<1>7. CASE output' = Append(output, b) /\ ~req.head /\ file.length >= 0
  <2>1. file.stamp # None
    BY <1>1, <1>7
  <2>2. /\ Known(file.stamp) /\ file.length = LengthAt(file.stamp)
        /\ file.stamp.inode \in Inodes /\ written[file.stamp.inode] \in Seq(Nat)
    BY <1>1, <2>1 DEF FileInv, Known, DirInv
  <2>3. /\ b \in BodySet /\ b.kind = "body" /\ b.length = file.length
        /\ b.stamp.inode = file.stamp.inode
    BY <1>1, <2>2 DEF BodyOf, BodySet, StampOf, StampSet, FileSet
  <2> HIDE DEF b
  <2>4. /\ output' \in Seq(HeadSet \cup BodySet) /\ Len(output') = m + 1
        /\ output'[m + 1] = b
        /\ \A i \in 1..m : output'[i] = output[i]
    BY <1>1, <1>7, <2>3, OneMore
  <2>5. Heads' = Heads /\ Bodies' = Bodies \cup {m + 1}
    BY <1>1, <1>7, <2>3, BodyAdded
  <2>6. \A i \in Heads : i # m => /\ BodyLength(i)' = BodyLength(i)
                                 /\ (i + 1 \in Bodies' <=> i + 1 \in Bodies)
                                 /\ (i + 1 \in Bodies => output'[i + 1] = output[i + 1])
    <3> SUFFICES ASSUME NEW i \in Heads, i # m
                 PROVE  /\ BodyLength(i)' = BodyLength(i)
                        /\ (i + 1 \in Bodies' <=> i + 1 \in Bodies)
                        /\ (i + 1 \in Bodies => output'[i + 1] = output[i + 1])
      OBVIOUS
    <3>1. i \in 1..m /\ i + 1 # m + 1 /\ i + 1 \in 1..m
      BY <1>3
    <3> QED
      BY <2>4, <2>5, <3>1 DEF BodyLength
  <2>7. ShapeInv' /\ SentInv'
    BY <1>1, <2>4 DEF ShapeInv, SentInv, connVars
  <2>8. StampInv'
    <3> SUFFICES ASSUME NEW i \in Heads, output[i].stamp # None
                 PROVE  /\ Known(output[i].stamp)'
                        /\ output[i].length = Announced(LengthAt(output[i].stamp))'
                        /\ i + 1 \in Bodies' => output'[i + 1].stamp.inode = output[i].stamp.inode
      BY <1>3, <2>4, <2>5 DEF StampInv, Known, LengthAt
    <3>1. /\ Known(output[i].stamp) /\ output[i].length = Announced(LengthAt(output[i].stamp))
          /\ i + 1 \in Bodies => output[i + 1].stamp.inode = output[i].stamp.inode
      BY DEF StampInv
    <3>2. output'[i] = output[i]
      BY <1>3, <2>4
    <3>3. i + 1 \in Bodies' => output'[i + 1].stamp.inode = output[i].stamp.inode
      BY <1>2, <2>3, <2>4, <2>6, <3>1
    <3> QED
      BY <1>1, <3>1, <3>2, <3>3 DEF Known, LengthAt, fsVars
  <2>9. Framed(m)'
    <3>1. m + 1 \in Bodies' /\ BodyLength(m)' = file.length /\ output'[m] = output[m]
      BY <1>2, <1>3, <2>3, <2>4, <2>5 DEF BodyLength
    <3> DEFINE n == written[file.stamp.inode][file.stamp.time]
    <3>2. n \in Nat /\ file.length = MappedLength(n)
      BY <2>2 DEF Known, LengthAt
    <3>3. CASE Fit(n)
      <4>1. Announced(file.length) = file.length
        BY <3>2, <3>3, FitFacts
      <4> QED
        BY <1>2, <1>7, <3>1, <4>1 DEF Framed
    <3>4. CASE ~Fit(n)
      BY <1>1, <1>2, <2>1, <3>1, <3>4 DEF Framed, fsVars
    <3> QED
      BY <3>3, <3>4
  <2>10. FrameInv'
    <3>1. \A i \in Heads : i # m => Framed(i)'
      BY <1>1, <1>3, <1>5, <2>4, <2>6 DEF Framed, fsVars
    <3> QED
      BY <1>4, <2>5, <2>9, <3>1 DEF FrameInv
  <2>11. OrderInv'
    BY <1>1, <1>3, <1>4, <2>4, <2>5 DEF OrderInv
  <2>12. EndInv'
    <3>1. Told' <=> Told
      BY <1>3, <2>4, <2>5 DEF Told
    <3> QED
      BY <1>1, <1>4, <3>1 DEF EndInv, Ending, connVars
  <2> QED
    BY <1>4, <2>7, <2>8, <2>10, <2>11, <2>12
<1> QED
  BY <1>1, <1>6, <1>7 DEF CopyFile, FileSet

(* The connection is kept, or told to close: the answer is still there.    *)
LEMMA EndStep == ASSUME IInv, EndTask PROVE IInv'
<1> USE DEF IInv
<1>1. /\ rpc = "end" /\ rpc' = "idle" /\ proc = "up" /\ sent < Len(output)
      /\ conn \in {"open", "draining"}
      /\ conn' = IF ConnectionOf(req) = "keep-alive" THEN conn ELSE "draining"
      /\ UNCHANGED <<fsVars, proc, waiting, sent, handled, output>>
  BY DEF EndTask, CloseConnection, SentInv, ShapeInv
<1>2. UNCHANGED <<Heads, Bodies>> /\ Told' = Told
  BY <1>1 DEF Heads, Bodies, Told
<1>3. ShapeInv' /\ DirInv' /\ FileInv' /\ StampInv' /\ FrameInv' /\ DiesOnlyOf'
  BY <1>1, <1>2 DEF ShapeInv, DirInv, FileInv, StampInv, Known, LengthAt, FrameInv, Framed,
                    BodyLength, CopyPending, DiesOnlyOf, fsVars
<1>4. OrderInv' /\ SentInv'
  BY <1>1, <1>2 DEF OrderInv, Answered, SentInv
<1>5. EndInv'
  BY <1>1, <1>2 DEF EndInv, Ending
<1> QED
  BY <1>3, <1>4, <1>5

(* A step that writes no answer leaves what is said of the output.         *)
LEMMA Quiet ==
    ASSUME IInv, UNCHANGED <<written, output>>
    PROVE  /\ UNCHANGED <<Heads, Bodies, Told>> /\ StampInv'
           /\ \A i \in Heads : Framed(i) => Framed(i)'
BY DEF IInv, Heads, Bodies, Told, StampInv, Known, LengthAt, Framed, BodyLength

(* The steps of the handler before an answer                               *)
LEMMA LookStep ==
    ASSUME IInv, TakeRequest \/ UnknownAction \/ Resolve \/ OpenFile
    PROVE  IInv'
<1> USE DEF IInv
<1>1. /\ rpc \in {"idle", "action", "resolve", "open"} /\ proc = "up"
      /\ rpc' \in {"action", "resolve", "missing", "open", "head"}
      /\ handled' = IF rpc = "idle" THEN handled + 1 ELSE handled
      /\ waiting' = IF rpc = "idle" THEN waiting - 1 ELSE waiting
      /\ rpc = "idle" => waiting > 0
      /\ req' = req \/ rpc = "idle"
      /\ UNCHANGED <<fsVars, proc, conn, sent, output>>
  BY DEF TakeRequest, UnknownAction, Resolve, OpenFile, connVars, ShapeInv
<1>2. ShapeInv' /\ FileInv'
  <2>1. CASE TakeRequest
    <3>1. PICK r \in Requests : req' = r /\ rpc' = IF r.target \in Actions THEN "action" ELSE "resolve"
      BY <2>1 DEF TakeRequest
    <3>2. r.target \in Actions \cup Paths
      BY <3>1, RequestFacts
    <3>3. rpc' \in {"action", "resolve"} /\ (rpc' = "resolve" => req'.target \in Paths)
      BY <3>1, <3>2
    <3>4. /\ rpc = "idle" /\ waiting > 0 /\ waiting' = waiting - 1 /\ handled' = handled + 1
          /\ UNCHANGED <<output, sent>>
      BY <2>1 DEF TakeRequest
    <3>5. waiting' \in Nat /\ handled' \in Nat /\ handled' > 0
      BY <3>4 DEF ShapeInv
    <3> QED
      BY <1>1, <3>1, <3>3, <3>4, <3>5 DEF ShapeInv, FileInv
  <2>2. CASE UnknownAction
    BY <2>2 DEF UnknownAction, ShapeInv, FileInv, connVars
  <2>3. CASE Resolve
    <3>1. /\ path' \in Paths \cup {None} /\ (path' = None => rpc' = "missing")
          /\ rpc' \in {"missing", "open"}
          /\ UNCHANGED <<req, handled, waiting, sent, output, proc>>
      <4>1. req.target \in Paths
        <5>1. req \in Requests /\ rpc = "resolve"
          BY <2>3 DEF Resolve, ShapeInv
        <5> QED
          BY <2>3, <5>1 DEF Resolve, ShapeInv
      <4> QED
        BY <2>3, <4>1, HttpResponseAssumption DEF Resolve, connVars
    <3> QED
      BY <1>1, <3>1 DEF ShapeInv, FileInv
  <2>4. CASE OpenFile
    <3>1. path \in Paths /\ rpc = "open" /\ UNCHANGED <<path, req, handled, waiting, sent, output, proc, fsVars>>
      BY <2>4 DEF OpenFile, ShapeInv, connVars
    <3>2. CASE rpc' = "missing"
      BY <1>1, <3>1, <3>2 DEF ShapeInv, FileInv
    <3>3. CASE dir[path] = Dir /\ rpc' = "head" /\ file' = OpenedDir
      BY <1>1, <3>1, <3>3 DEF ShapeInv, FileInv, OpenedDir, FileSet, DirLength, fsVars
    <3>4. CASE dir[path] \in Inodes /\ rpc' = "head" /\ file' = Opened(dir[path])
      <4> DEFINE i == dir[path]
      <4>1. i \in Inodes /\ written[i] \in Seq(Nat) /\ Len(written[i]) \in 1..Len(written[i])
            /\ written[i][Len(written[i])] \in Nat
        BY <3>1, <3>4 DEF DirInv
      <4>2. /\ file'.stamp.inode = i /\ file'.stamp.time = Len(written[i]) /\ file' \in FileSet
            /\ file'.length = LengthAt(file'.stamp)
        BY <3>4, <4>1 DEF Opened, StampOf, LengthOf, LengthAt, MappedLength, FileSet, StampSet
      <4>3. FileInv'
        <5>1. Known(file'.stamp) /\ file'.stamp # None
          <6>0. i \in Nat /\ Len(written[i]) \in Nat
            <7>1. i \in Nat
              BY <4>1, ConstantFacts
            <7>2. Len(written[i]) \in Nat
              BY <4>1
            <7> QED
              BY <7>1, <7>2
          <6>1. StampOf(i) \in [inode : Nat, time : Nat] /\ file'.stamp = StampOf(i)
            <7>1. [inode |-> i, time |-> Len(written[i])] \in [inode : Nat, time : Nat]
              BY <6>0
            <7>2. file'.stamp = StampOf(i)
              BY <3>4 DEF Opened
            <7> QED
              BY <7>1, <7>2 DEF StampOf
          <6>2. StampOf(i) # None
            BY <6>1, HttpResponseAssumption
          <6> QED
            BY <4>1, <4>2, <6>1, <6>2 DEF Known
        <5> QED
          BY <3>1, <4>2, <5>1 DEF FileInv, Known, LengthAt, fsVars
      <4>4. path' \in Paths /\ req' \in Requests /\ handled' > 0
        BY <3>1 DEF ShapeInv
      <4>5. ShapeInv'
        BY <1>1, <3>1, <3>4, <4>2, <4>4 DEF ShapeInv
      <4> QED
        BY <4>3, <4>5
    <3> QED
      BY <2>4, <3>2, <3>3, <3>4 DEF OpenFile
  <2> QED
    BY <2>1, <2>2, <2>3, <2>4
<1>3. DirInv' /\ StampInv' /\ DiesOnlyOf'
  BY <1>1, Quiet DEF DirInv, DiesOnlyOf, fsVars
<1>4. FrameInv'
  BY <1>1, Quiet DEF FrameInv, CopyPending, fsVars
<1>5. OrderInv'
  <2>1. Answered' = Answered
    BY <1>1 DEF Answered, ShapeInv
  <2> QED
    BY <1>1, <2>1, Quiet DEF OrderInv, fsVars
<1>6. EndInv'
  BY <1>1, Quiet DEF EndInv, Ending, fsVars
<1>7. SentInv'
  BY <1>1 DEF SentInv, ShapeInv
<1> QED
  BY <1>2, <1>3, <1>4, <1>5, <1>6, <1>7

(* The process dies for one of the reasons that are named.                 *)
LEMMA DeathStep == ASSUME IInv, ActionThrows \/ CopyFaults PROVE IInv'
<1> USE DEF IInv
<1>1. /\ proc' = "dead" /\ rpc' = "idle" /\ rpc \in {"action", "copy"}
      /\ UNCHANGED <<fsVars, req, path, file, connVars, handled, output>>
  BY DEF ActionThrows, CopyFaults
<1>2. DirInv' /\ FileInv' /\ StampInv' /\ OrderInv'
  BY <1>1, Quiet DEF DirInv, FileInv, OrderInv, fsVars, connVars
<1>3. ShapeInv' /\ SentInv'
  <2>1. req'.target = "auth" \/ (file' \in FileSet /\ path' \in Paths)
    <3>1. CASE ActionThrows
      BY <1>1, <3>1 DEF ActionThrows
    <3>2. CASE CopyFaults
      BY <1>1, <3>2 DEF CopyFaults, ShapeInv
    <3> QED
      BY <3>1, <3>2
  <2>2. ShapeInv'
    BY <1>1, <2>1 DEF ShapeInv, connVars
  <2> QED
    BY <1>1, <2>2 DEF SentInv, connVars
<1>4. EndInv'
  BY <1>1, Quiet DEF EndInv, Ending, SentInv, connVars, fsVars
<1>5. DiesOnlyOf'
  <2>1. CASE ActionThrows
    BY <2>1 DEF ActionThrows, DiesOnlyOf
  <2>2. CASE CopyFaults
    <3>1. CASE file.stamp = None
      BY <1>1, <2>2, <3>1 DEF CopyFaults, FileInv, DiesOnlyOf, fsVars
    <3>2. CASE file.stamp # None
      <4> DEFINE i == file.stamp.inode
                 n == written[i][file.stamp.time]
      <4>1. /\ file.stamp.time \in 1..Len(written[i]) /\ i \in Inodes /\ n \in Nat
            /\ file.length = MappedLength(n) /\ LengthOf(i) < file.length
            /\ Len(written[i]) \in Nat
        BY <2>2, <3>2 DEF CopyFaults, PagesMissing, FileInv, Known, LengthAt, DirInv
      <4>2. file.length <= n
        BY <4>1 DEF MappedLength
      <4>3. LengthOf(i) # n
        <5>1. LengthOf(i) \in Nat
          BY <4>1 DEF LengthOf, DirInv
        <5> QED
          BY <4>1, <4>2, <5>1 DEF MappedLength
      <4>4. Len(written[i]) > file.stamp.time
        BY <4>1, <4>3 DEF LengthOf
      <4> QED
        BY <1>1, <2>2, <3>2, <4>4 DEF CopyFaults, DiesOnlyOf, fsVars
    <3> QED
      BY <3>1, <3>2
  <2> QED
    BY <2>1, <2>2
<1>6. FrameInv'
  BY <1>1, Quiet DEF FrameInv, CopyPending, ShapeInv, fsVars
<1> QED
  BY <1>2, <1>3, <1>4, <1>5, <1>6

(* The event loop: requests arrive, output goes, the peer leaves.          *)
LEMMA LoopStep == ASSUME IInv, Receive \/ Transmit \/ PeerEnds PROVE IInv'
<1> USE DEF IInv
<1>1. /\ proc = "up" /\ rpc = "idle" /\ conn \in {"open", "draining"}
      /\ UNCHANGED <<fsVars, proc, handlerVars, handled, output>>
      /\ Len(output) \in Nat
  BY DEF Receive, Transmit, PeerEnds, Looping, ShapeInv
<1>2. ShapeInv' /\ SentInv'
  <2>1. CASE Receive
    BY <1>1, <2>1 DEF Receive, ShapeInv, SentInv, Looping, handlerVars
  <2>2. CASE Transmit
    BY <1>1, <2>2 DEF Transmit, ShapeInv, SentInv, Looping, handlerVars
  <2>3. CASE PeerEnds
    BY <1>1, <2>3 DEF PeerEnds, ShapeInv, SentInv, Looping, handlerVars
  <2> QED
    BY <2>1, <2>2, <2>3
<1>3. conn' = "open" => conn = "open"
  BY <1>1 DEF Receive, Transmit, PeerEnds
<1>4. conn' \in {"draining", "closed"} => conn = "draining"
  BY <1>1 DEF Receive, Transmit, PeerEnds
<1>5. DirInv' /\ FileInv' /\ StampInv' /\ FrameInv' /\ OrderInv' /\ DiesOnlyOf'
  BY <1>1, Quiet DEF DirInv, FileInv, FrameInv, CopyPending, OrderInv, Answered, DiesOnlyOf,
                     fsVars, handlerVars
<1>6. EndInv'
  BY <1>1, <1>3, <1>4, Quiet DEF EndInv, Ending, fsVars, handlerVars
<1> QED
  BY <1>2, <1>5, <1>6

(* What was written stays; a name that was a directory stays one.          *)
LEMMA ChangeFacts ==
    ASSUME IInv, ChangeFiles
    PROVE  /\ DirInv'
           /\ \A i \in Inodes : /\ Len(written'[i]) >= Len(written[i])
                               /\ \A t \in 1..Len(written[i]) : written'[i][t] = written[i][t]
           /\ \A p \in Paths : dir[p] = Dir => dir'[p] = Dir
<1> USE DEF IInv
<1>1. PICK p \in Paths, n \in Lengths : Replace(p, n) \/ Overwrite(p, n) \/ Remove(p)
  BY DEF ChangeFiles
<1>2. /\ changes \in Nat /\ changes + 1 <= MaxChange /\ changes' = changes + 1 /\ n \in Nat
      /\ written \in [Inodes -> Seq(Nat)]
      /\ dir \in [Paths -> Inodes \cup {Dir, None}]
      /\ changes' \in 0..MaxChange
  <2>1. MaxChange \in Nat /\ n \in Nat
    BY <1>1, HttpResponseAssumption
  <2>2. changes \in 0..MaxChange /\ changes < MaxChange /\ changes' = changes + 1
    BY DEF ChangeFiles, DirInv
  <2>3. changes \in Nat /\ changes + 1 <= MaxChange /\ changes' \in 0..MaxChange
    BY <2>1, <2>2
  <2> QED
    BY <2>1, <2>2, <2>3 DEF DirInv
<1>3. CASE Replace(p, n)
  <2> DEFINE k == changes + 2
  <2>1. /\ k \in Inodes /\ written[k] = <<>> /\ dir' = [dir EXCEPT ![p] = k]
        /\ written' = [written EXCEPT ![k] = <<n>>] /\ dir[p] # Dir
    BY <1>2, <1>3, HttpResponseAssumption DEF Replace, Inodes, DirInv
  <2>2. \A i \in Inodes : i > changes' + 1 => i # k /\ i > changes + 1
    BY <1>2, ConstantFacts
  <2> HIDE DEF k
  <2>3. <<n>> \in Seq(Nat) /\ <<n>> # <<>>
    BY <1>2
  <2>4. /\ written' \in [Inodes -> Seq(Nat)] /\ written'[k] = <<n>>
        /\ \A i \in Inodes : i # k => written'[i] = written[i]
    BY <1>2, <2>1, <2>3
  <2>5. /\ dir' \in [Paths -> Inodes \cup {Dir, None}] /\ dir'[p] = k
        /\ \A q \in Paths : q # p => dir'[q] = dir[q]
    BY <1>2, <2>1
  <2>6. \A q \in Paths : dir'[q] \in Inodes => written'[dir'[q]] # <<>>
    BY <2>3, <2>4, <2>5 DEF DirInv
  <2>7. DirInv'
    BY <1>2, <2>2, <2>4, <2>5, <2>6 DEF DirInv
  <2>8. Len(written[k]) = 0
    BY <2>1
  <2> QED
    BY <1>2, <2>1, <2>4, <2>5, <2>7, <2>8
<1>4. CASE Overwrite(p, n)
  <2> DEFINE k == dir[p]
  <2>1. /\ k \in Inodes /\ dir' = dir
        /\ written' = [written EXCEPT ![k] = Append(written[k], n)] /\ written[k] \in Seq(Nat)
        /\ written[k] # <<>>
    BY <1>2, <1>4 DEF Overwrite, DirInv
  <2> HIDE DEF k
  <2>2. /\ Append(written[k], n) \in Seq(Nat) /\ Append(written[k], n) # <<>>
        /\ Len(Append(written[k], n)) = Len(written[k]) + 1
        /\ \A t \in 1..Len(written[k]) : Append(written[k], n)[t] = written[k][t]
        /\ Len(written[k]) \in Nat
    BY <1>2, <2>1
  <2>3. /\ written' \in [Inodes -> Seq(Nat)] /\ written'[k] = Append(written[k], n)
        /\ \A i \in Inodes : i # k => written'[i] = written[i]
    BY <1>2, <2>1, <2>2
  <2>4. \A i \in Inodes : i > changes' + 1 => written'[i] = <<>>
    BY <1>2, <2>1, <2>3, ConstantFacts DEF DirInv
  <2>5. \A q \in Paths : dir'[q] \in Inodes => written'[dir'[q]] # <<>>
    BY <2>1, <2>2, <2>3 DEF DirInv
  <2>6. DirInv'
    BY <1>2, <2>1, <2>3, <2>4, <2>5 DEF DirInv
  <2>7. \A i \in Inodes : /\ Len(written'[i]) >= Len(written[i])
                         /\ \A t \in 1..Len(written[i]) : written'[i][t] = written[i][t]
    <3> SUFFICES ASSUME NEW i \in Inodes
                 PROVE  /\ Len(written'[i]) >= Len(written[i])
                        /\ \A t \in 1..Len(written[i]) : written'[i][t] = written[i][t]
      OBVIOUS
    <3>1. CASE i = k
      <4>1. written'[i] = Append(written[k], n) /\ written[i] = written[k]
        BY <2>3, <3>1
      <4>2. Len(written'[i]) = Len(written[i]) + 1 /\ Len(written[i]) \in Nat
        BY <2>2, <4>1
      <4>3. \A t \in 1..Len(written[i]) : written'[i][t] = written[i][t]
        BY <2>2, <4>1
      <4> QED
        BY <4>2, <4>3
    <3>2. CASE i # k
      <4>1. written'[i] = written[i] /\ Len(written[i]) \in Nat
        BY <1>2, <2>3, <3>2
      <4> QED
        BY <4>1
    <3> QED
      BY <3>1, <3>2
  <2> QED
    BY <2>1, <2>6, <2>7
<1>5. CASE Remove(p)
  <2>1. dir' = [dir EXCEPT ![p] = None] /\ dir[p] \in Inodes /\ written' = written
    BY <1>5 DEF Remove
  <2>2. DirInv'
    BY <1>2, <2>1, ConstantFacts DEF DirInv
  <2> QED
    BY <1>2, <2>1, <2>2, ConstantFacts
<1> QED
  BY <1>1, <1>3, <1>4, <1>5

(* Another process changes files: what was known of them stays true.       *)
LEMMA ChangeStep == ASSUME IInv, ChangeFiles PROVE IInv'
<1> USE DEF IInv
<1>1. /\ UNCHANGED <<proc, handlerVars, connVars, handled, output>>
      /\ UNCHANGED <<Heads, Bodies, Told>>
  BY DEF ChangeFiles, Heads, Bodies, Told
<1>2. \A i \in Inodes : Len(written[i]) \in Nat /\ Len(written'[i]) \in Nat
  BY ChangeFacts DEF DirInv
<1>3. \A st : Known(st) => /\ Known(st)' /\ LengthAt(st)' = LengthAt(st)
                          /\ written'[st.inode][st.time] = written[st.inode][st.time]
  BY <1>2, ChangeFacts DEF Known, LengthAt
<1>4. ShapeInv' /\ OrderInv' /\ EndInv' /\ SentInv'
  BY <1>1 DEF ShapeInv, OrderInv, Answered, EndInv, Ending, SentInv, handlerVars, connVars
<1>5. FileInv'
  BY <1>1, <1>3, ChangeFacts DEF FileInv, ShapeInv, handlerVars
<1>6. StampInv'
  BY <1>1, <1>3 DEF StampInv
<1>7. FrameInv'
  <2>1. \A i \in Heads : Framed(i) => Framed(i)'
    BY <1>1, <1>3 DEF Framed, StampInv, BodyLength
  <2> QED
    BY <1>1, <2>1 DEF FrameInv, CopyPending, HeadOf, ConnectionOf, handlerVars
<1>8. DiesOnlyOf'
  <2> SUFFICES ASSUME proc = "dead", req.target # "auth" PROVE DiesOnlyOf'
    BY <1>1 DEF DiesOnlyOf, handlerVars
  <2>1. file \in FileSet /\ path \in Paths /\ ~req.head
    BY DEF ShapeInv, DiesOnlyOf
  <2>2. CASE file.stamp = None
    BY <1>1, <2>1, <2>2, ChangeFacts DEF DiesOnlyOf, handlerVars
  <2>3. CASE file.stamp # None
    <3>1. file.stamp.inode \in Inodes /\ file.stamp.time \in Nat
      BY <2>1, <2>3 DEF FileSet, StampSet
    <3>2. Len(written[file.stamp.inode]) > file.stamp.time
      BY <2>3 DEF DiesOnlyOf
    <3>3. Len(written'[file.stamp.inode]) > file.stamp.time
      BY <1>2, <3>1, <3>2, ChangeFacts
    <3> QED
      BY <1>1, <2>1, <2>3, <3>3 DEF DiesOnlyOf, handlerVars
  <2> QED
    BY <2>2, <2>3
<1> QED
  BY <1>4, <1>5, <1>6, <1>7, <1>8, ChangeFacts

LEMMA NextHolds == IInv /\ [Next]_vars => IInv'
<1> SUFFICES ASSUME IInv, [Next]_vars PROVE IInv'
  OBVIOUS
<1>1. CASE UNCHANGED vars
  BY <1>1 DEF vars, fsVars, handlerVars, connVars, IInv, ShapeInv, DirInv, FileInv, StampInv,
       Known, LengthAt, FrameInv, Framed, BodyLength, CopyPending, HeadOf, ConnectionOf, OrderInv,
       Answered, EndInv, Told, Ending, SentInv, DiesOnlyOf, Heads, Bodies
<1> QED
  BY <1>1, AnswerSteps, SendHeadStep, CopyStep, EndStep, LookStep, DeathStep, LoopStep, ChangeStep
     DEF Next, Handle, SendFile

-----------------------------------------------------------------------------
(* Types: what TypeOK says beyond the parts of IInv.                       *)

RequestType ==
    /\ waiting + handled \in 0..MaxRequests
    /\ proc = "up" => (req = None <=> rpc = "idle")
    /\ req = None \/ req \in Requests
    /\ path \in Paths \cup {None}

OpenType == proc = "up" => (file # None <=> rpc \in {"head", "copy"})

LengthsType == \A i \in Inodes : Len(written[i]) <= changes + 1

BodiesType == \A i \in Bodies : i - 1 \in Heads

LEMMA TypeParts == IInv => (TypeOK <=> RequestType /\ OpenType /\ LengthsType /\ BodiesType)
BY DEF IInv, ShapeInv, DirInv, SentInv, TypeOK, RequestType, OpenType, LengthsType, BodiesType

(* A request is held from the time it is taken to the end of its task.     *)
LEMMA RequestTypeStep == ASSUME IInv, RequestType, Next PROVE RequestType'
<1> USE DEF RequestType, IInv, ShapeInv, fsVars, handlerVars, connVars
<1> USE DEF Looping
<1>1. CASE Receive
  BY <1>1, HttpResponseAssumption DEF Receive
<1>2. CASE TakeRequest
  BY <1>2, HttpResponseAssumption DEF TakeRequest
<1>3. CASE AnswerAction \/ AnswerMissing \/ ActionThrows \/ UnknownAction
  BY <1>3 DEF AnswerAction, AnswerMissing, ActionThrows, UnknownAction
<1>4. CASE Resolve
  <2>1. req.target \in Paths /\ req \in Requests /\ IndexOf[req.target] \in Paths \cup {None}
    BY <1>4, HttpResponseAssumption DEF Resolve
  <2>2. path' \in Paths \cup {None} /\ rpc' # "idle" /\ UNCHANGED <<proc, req, waiting, handled>>
    BY <1>4, <2>1 DEF Resolve
  <2> QED
    BY <1>4, <2>2 DEF Resolve
<1>5. CASE OpenFile \/ NotModified \/ SendHead \/ CopyFile \/ CopyFaults
  BY <1>5 DEF OpenFile, NotModified, SendHead, CopyFile, CopyFaults
<1>6. CASE EndTask \/ Transmit \/ PeerEnds \/ ChangeFiles
  BY <1>6 DEF EndTask, Transmit, PeerEnds, ChangeFiles
<1> QED
  BY <1>1, <1>2, <1>3, <1>4, <1>5, <1>6 DEF Next, Handle, SendFile

(* The file is open from open_file to the end of the copy, and on every    *)
(* way out of send_file it is closed.                                      *)
LEMMA OpenTypeStep == ASSUME IInv, IInv', OpenType, Next PROVE OpenType'
<1> USE DEF OpenType, fsVars, handlerVars, connVars
<1>1. FileSet \subseteq [stamp : [inode : Nat, time : Nat] \cup {None}, length : Int]
  BY ConstantFacts DEF FileSet, StampSet
<1>2. ASSUME OpenFile PROVE OpenType'
  <2>1. CASE rpc' = "missing" /\ UNCHANGED file
    BY <1>2, <2>1 DEF OpenFile
  <2>2. CASE rpc' = "head"
    <3>1. file' \in FileSet
      BY <2>2 DEF IInv, ShapeInv
    <3> QED
      BY <1>1, <2>2, <3>1, HttpResponseAssumption
  <2> QED
    BY <1>2, <2>1, <2>2 DEF OpenFile
<1>3. CASE Receive \/ TakeRequest \/ AnswerAction \/ AnswerMissing \/ ActionThrows \/ UnknownAction
  BY <1>3 DEF Receive, Looping, TakeRequest, AnswerAction, AnswerMissing, ActionThrows, UnknownAction
<1>4. CASE Resolve
  BY <1>4 DEF Resolve
<1>5. CASE NotModified \/ SendHead \/ CopyFile \/ CopyFaults
  BY <1>5 DEF NotModified, SendHead, CopyFile, CopyFaults
<1>6. CASE EndTask \/ Transmit \/ PeerEnds \/ ChangeFiles
  BY <1>6 DEF EndTask, Transmit, PeerEnds, ChangeFiles
<1> QED
  BY <1>2, <1>3, <1>4, <1>5, <1>6 DEF Next, Handle, SendFile

(* Each change writes one inode, once.                                     *)
LEMMA LengthsTypeStep == ASSUME IInv, LengthsType, Next PROVE LengthsType'
<1> USE DEF LengthsType
<1>1. CASE ChangeFiles
  <2>1. PICK p \in Paths, n \in Lengths : Replace(p, n) \/ Overwrite(p, n) \/ Remove(p)
    BY <1>1 DEF ChangeFiles
  <2>2. /\ changes' = changes + 1 /\ changes \in Nat /\ written \in [Inodes -> Seq(Nat)]
        /\ n \in Nat
    BY <1>1, HttpResponseAssumption DEF ChangeFiles, IInv, DirInv
  <2>3. CASE Replace(p, n)
    <3>1. written' = [written EXCEPT ![changes + 2] = <<n>>]
      BY <2>3 DEF Replace
    <3> QED
      BY <2>2, <3>1
  <2>4. CASE Overwrite(p, n)
    <3> DEFINE k == dir[p]
    <3>1. k \in Inodes /\ written' = [written EXCEPT ![k] = Append(written[k], n)]
      BY <2>4 DEF Overwrite
    <3> HIDE DEF k
    <3>2. Len(Append(written[k], n)) = Len(written[k]) + 1 /\ Len(written[k]) \in Nat
      BY <2>2, <3>1
    <3>3. \A i \in Inodes : Len(written'[i]) = IF i = k THEN Len(written[k]) + 1 ELSE Len(written[i])
      BY <2>2, <3>1, <3>2
    <3>4. \A i \in Inodes : Len(written[i]) \in Nat
      BY <2>2
    <3> QED
      BY <2>2, <3>1, <3>2, <3>3, <3>4
  <2>5. CASE Remove(p)
    <3>1. \A i \in Inodes : Len(written[i]) \in Nat
      BY <2>2
    <3> QED
      BY <2>2, <2>5, <3>1 DEF Remove
  <2> QED
    BY <2>1, <2>3, <2>4, <2>5
<1>2. CASE UNCHANGED fsVars
  BY <1>2 DEF fsVars
<1>3. Next => ChangeFiles \/ UNCHANGED fsVars
  BY DEF Next, Receive, Handle, TakeRequest, AnswerAction, ActionThrows, UnknownAction, AnswerMissing,
         SendFile, Resolve, OpenFile, NotModified, SendHead, CopyFile, CopyFaults, EndTask, Transmit,
         PeerEnds
<1> QED
  BY <1>1, <1>2, <1>3

(* A body is written behind its head, in one step with it or in the next.  *)
LEMMA BodiesTypeStep == ASSUME IInv, BodiesType, Next PROVE BodiesType'
<1> USE DEF BodiesType, IInv
<1>1. \A i \in Bodies : i \in Int
  BY DEF Bodies, ShapeInv
<1>2. ASSUME UNCHANGED output PROVE BodiesType'
  BY <1>2 DEF Heads, Bodies
<1>3. ASSUME NEW code \in Nat, NEW n \in {0, TextLength}, SendResponse(code, n), req \in Requests
      PROVE  BodiesType'
  <2> DEFINE h == HeadOf(code, n, None)
             b == BodyOf(n, None)
  <2>1. h \in HeadSet /\ b \in BodySet /\ Len(output) \in Nat
    BY <1>3, FitFacts, HeadFacts, SMTT(40) DEF ShapeInv
  <2>2. CASE output' = Append(output, h)
    BY <1>1, <2>1, <2>2, HeadAdded
  <2>3. CASE output' = output \o <<h, b>>
    BY <1>1, <2>1, <2>3, BothAdded
  <2>4. output' = Append(output, h) \/ output' = output \o <<h, b>>
    <3>1. output \o <<h>> = Append(output, h)
      BY <2>1 DEF ShapeInv
    <3> QED
      BY <1>3, <3>1 DEF SendResponse
  <2> QED
    BY <2>2, <2>3, <2>4
<1>4. CASE AnswerAction \/ AnswerMissing \/ NotModified
  <2>1. rpc \in {"action", "missing", "head"}
    BY <1>4 DEF AnswerAction, AnswerMissing, NotModified
  <2>2. req \in Requests
    BY <2>1 DEF ShapeInv
  <2> QED
    BY <1>3, <1>4, <2>2 DEF AnswerAction, AnswerMissing, NotModified
<1>5. CASE SendHead
  <2>1. req \in Requests /\ file \in FileSet /\ Len(output) \in Nat
    BY <1>5 DEF SendHead, ShapeInv
  <2>2. HeadOf(200, file.length, file.stamp) \in HeadSet
    BY <2>1, HeadFacts DEF FileSet
  <2> QED
    BY <1>1, <1>5, <2>2, HeadAdded DEF SendHead
<1>6. CASE CopyFile
  <2>1. CASE UNCHANGED output
    BY <1>2, <2>1
  <2>2. CASE ~UNCHANGED output
    <3> DEFINE st == StampOf(file.stamp.inode)
    <3>0. rpc = "copy"
      BY <1>6 DEF CopyFile
    <3>1. /\ ~req.head /\ file.stamp # None /\ output' = Append(output, BodyOf(file.length, st))
      BY <1>6, <2>2 DEF CopyFile
    <3>2. /\ Len(output) \in Heads /\ Len(output) \in Nat /\ req \in Requests /\ file \in FileSet
          /\ Known(file.stamp)
      BY <3>0, <3>1 DEF FrameInv, CopyPending, ShapeInv, FileInv
    <3>3. st \in StampSet
      BY <3>2 DEF StampOf, StampSet, Known, DirInv
    <3>4. BodyOf(file.length, st) \in BodySet
      BY <3>2, <3>3, HeadFacts DEF FileSet
    <3> QED
      BY <1>1, <3>1, <3>2, <3>4, BodyAdded
  <2> QED
    BY <2>1, <2>2
<1>7. Next => \/ AnswerAction \/ AnswerMissing \/ NotModified \/ SendHead \/ CopyFile
              \/ UNCHANGED output
  BY DEF Next, Receive, Handle, TakeRequest, ActionThrows, UnknownAction, SendFile, Resolve, OpenFile,
         CopyFaults, EndTask, Transmit, PeerEnds, ChangeFiles
<1> QED
  BY <1>2, <1>4, <1>5, <1>6, <1>7

LEMMA TypeInit == Init => TypeOK
<1> SUFFICES ASSUME Init PROVE TypeOK
  OBVIOUS
<1>1. IInv
  BY InitHolds
<1>2. Bodies = {}
  BY DEF Init, Bodies
<1>3. RequestType /\ OpenType /\ BodiesType
  BY <1>2, HttpResponseAssumption DEF Init, RequestType, OpenType, BodiesType
<1>4. LengthsType
  <2>1. PICK n \in Lengths : written = [i \in Inodes |-> IF i = 1 THEN <<n>> ELSE <<>>]
    BY DEF Init
  <2> QED
    BY <2>1 DEF Init, LengthsType
<1> QED
  BY <1>1, <1>3, <1>4, TypeParts

LEMMA TypeNext == IInv /\ IInv' /\ TypeOK /\ [Next]_vars => TypeOK'
<1> SUFFICES ASSUME IInv, IInv', TypeOK, [Next]_vars PROVE TypeOK'
  OBVIOUS
<1>1. CASE UNCHANGED vars
  BY <1>1 DEF vars, fsVars, handlerVars, connVars, TypeOK, Heads, Bodies
<1>2. CASE Next
  <2>1. (TypeOK <=> RequestType /\ OpenType /\ LengthsType /\ BodiesType)'
    <3>1. IInv' => (TypeOK <=> RequestType /\ OpenType /\ LengthsType /\ BodiesType)'
      BY TypeParts, PTL
    <3> QED
      BY <3>1
  <2> QED
    BY <1>2, <2>1, TypeParts, RequestTypeStep, OpenTypeStep, LengthsTypeStep, BodiesTypeStep
<1> QED
  BY <1>1, <1>2

(* What the handler, the output, the directory and the open file have to   *)
(* do with each other at every step of a request (HttpTask::processing,    *)
(* send_file, close_connection).                                           *)
THEOREM Inductive == Spec => []IInv
<1> QED
  BY InitHolds, NextHolds, PTL DEF Spec

(* Between requests every request handled has exactly one answer, in the   *)
(* order of the requests (process_http, send_file).                        *)
THEOREM EachRequestAnswered == Spec => []OneAnswerEach
<1>1. IInv => OneAnswerEach
  BY DEF IInv, OrderInv, Answered, OneAnswerEach
<1> QED
  BY <1>1, Inductive, PTL

(* The client finds the next answer where the length of the last says it   *)
(* is, if the file was neither empty nor too long (send_response).         *)
THEOREM AnswersAreFramed == Spec => []FramedAsAnnounced
<1>1. IInv => FramedAsAnnounced
  BY DEF IInv, FrameInv, Framed, CopyPending, FramedAsAnnounced
<1> QED
  BY <1>1, Inductive, PTL

(* Head and body of an answer are of one file, whatever was put in its     *)
(* place meanwhile (send_file, open_file).                                 *)
THEOREM AnswersAreOfOneFile == Spec => []OneFileAnswered
<1>1. IInv => OneFileAnswered
  BY DEF IInv, StampInv, LengthAt, OneFileAnswered
<1> QED
  BY <1>1, Inductive, PTL

(* The server ends a connection exactly when an answer said so             *)
(* (send_response, HttpTask::processing).                                  *)
THEOREM EndIsTold == Spec => []EndsAsTold
<1>1. IInv => EndsAsTold
  BY DEF IInv, EndInv, Told, Ending, EndsAsTold
<1> QED
  BY <1>1, Inductive, PTL

(* It ends it when everything is sent, and its object with it              *)
(* (close_connection, stub_conn_write).                                    *)
THEOREM NothingLostAtClose == Spec => []AllSentBeforeClose
<1>1. IInv => AllSentBeforeClose
  BY DEF IInv, SentInv, AllSentBeforeClose
<1> QED
  BY <1>1, Inductive, PTL

(* The process dies of nothing but the three causes named (action_auth,    *)
(* open_file, send_file).                                                  *)
THEOREM DeathsAreNamed == Spec => []DiesOnlyOf
<1>1. IInv => DiesOnlyOf
  BY DEF IInv
<1> QED
  BY <1>1, Inductive, PTL

(* What the variables hold: a request is held from TakeRequest to EndTask, *)
(* a file is open between fstat and the end of the copy only and closed on *)
(* every way out (HttpTask::processing, open_file, send_file), and a body  *)
(* never follows a body.                                                   *)
THEOREM Types == Spec => []TypeOK
<1> QED
  BY TypeInit, TypeNext, Inductive, PTL DEF Spec
=============================================================================
