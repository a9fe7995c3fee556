--------------------------- MODULE HttpConnection ---------------------------
(***************************************************************************)
(* One connection of the listener: the bytes that arrive on it in pieces   *)
(* of any size, the buffer they are gathered in, the parser that is called *)
(* on the buffer again and again and takes what it can, and the requests   *)
(* it hands to the server.                                                 *)
(*                                                                         *)
(* The parser is process_data of http_text_protocol_header.  What it keeps *)
(* between two calls is its stage and the request read so far; within a    *)
(* call, each field it reads is a step here, and bytes arrive between      *)
(* calls only, since one thread does both.                                 *)
(*                                                                         *)
(* A byte is a symbol: a sign (" ", "?", ":", "&", ";", "="), "CR", "LF",  *)
(* or a letter or digit of a name or a value; "NUL" ends a string in the   *)
(* parser and is never sent.  A pair of a name and a value is a sequence   *)
(* of these two, or of the name alone.                                     *)
(***************************************************************************)
EXTENDS Integers, Sequences, SequencesExt

CONSTANTS
    Letters,        \* the bytes that are no signs
    Forms,          \* the requests a client may send
    MaxRequests     \* bound: requests sent on the connection

ASSUME BoundAssumption == MaxRequests \in Nat
ASSUME LettersAssumption == {"L", "C", "K", "T", "1", "k", "f"} \subseteq Letters

Absent == -1        \* m_content_length before its header was read
LineEnds == {"CR", "LF"}
Nul == "NUL"
Blank == " "
Semicolon == ";"
Digits == <<"0", "1", "2", "3", "4", "5", "6", "7", "8", "9">>

(* Names of header keys, versions and values *)
ContentLength == <<"L">>
Connection == <<"C">>
Cookie == <<"K">>
ContentType == <<"T">>
Version11 == <<"1">>
KeepAlive == <<"k">>
UrlEncoded == <<"f">>

(* atoi of a Content-Length: the digits it begins with *)
LengthIn(value) ==
    LET Digit(c) == CHOOSE d \in 0..9 : Digits[d + 1] = c
        begin == Min({i \in DOMAIN value : value[i] \notin Range(Digits)} \union {Len(value) + 1})
        upTo[i \in 0..begin - 1] == IF i = 0 THEN 0 ELSE 10 * upTo[i - 1] + Digit(value[i])
    IN upTo[begin - 1]

VARIABLES
    sent,       \* the requests of the client
    stream,     \* history: the bytes of them
    ends,       \* history: where in the stream each of them ends
    wire,       \* the bytes that have not arrived
    buf,        \* m_socket_buffer
    pc,         \* "wait" for bytes, or "run": inside process_data
    ptr,        \* where in buf the call is: the bytes before buffer
    stage,      \* m_eHeaderProcess, m_eBodyProcess and the first field not valid
    req,        \* the fields read so far
    length,     \* m_content_length
    out,        \* the requests handed to the server
    conn,       \* "open", "closing", "gone", or "lost" in undefined behaviour
    joined      \* history: no piece was cut where the parser is not prepared for
                \* it, and no undefined value was used

parserVars == <<stage, req, length>>
inVars == <<sent, stream, ends, wire, joined>>
vars == <<inVars, buf, pc, ptr, parserVars, out, conn>>

-----------------------------------------------------------------------------
(* What a client sends *)

Line(fields) == fields \o <<"CR", "LF">>

HeaderLine(key, value) == Line(key \o <<":", Blank>> \o value)

PairText(pair) == pair[1] \o (IF Len(pair) = 1 THEN <<>> ELSE <<"=">> \o pair[2])

(* Pairs as text, with a separator between them *)
PairsText(pairs, separator) ==
    FlattenSeq([i \in DOMAIN pairs |->
                  (IF i = 1 THEN <<>> ELSE separator) \o PairText(pairs[i])])

(* The parameters of the uri *)
QueryText(form) ==
    IF form.query = <<>> THEN <<>> ELSE <<"?">> \o PairsText(form.query, <<"&">>)

RequestLine(form) ==
    form.method \o <<Blank>> \o form.uri \o QueryText(form) \o <<Blank>> \o form.version

(* The header lines, of which the cookies are the first *)
Lines(form) ==
    (IF form.cookies = <<>> THEN <<>>
     ELSE <<<<Cookie, PairsText(form.cookies, <<Semicolon, Blank>>)>>>>)
    \o form.headers

LineTexts(form) ==
    [i \in DOMAIN Lines(form) |-> HeaderLine(Lines(form)[i][1], Lines(form)[i][2])]

(* The body: the fields of a form, or anything else *)
BodyText(form) ==
    IF form.fields = <<>> THEN form.body ELSE PairsText(form.fields, <<"&">>)

(* The bytes of a request *)
Encode(form) ==
    Line(RequestLine(form)) \o FlattenSeq(LineTexts(form)) \o Line(<<>>) \o BodyText(form)

(* Texts, and those in which some signs are not *)
Signs == {Blank, "?", ":", "&", Semicolon, "=", "CR", "LF", Nul}
Text == Seq(Letters \union Signs)
Without(signs) == {t \in Text : \A i \in DOMAIN t : t[i] \notin signs}
Word == Without(Signs) \ {<<>>}

(* A name alone, or a name and a value *)
Pairs ==
    Seq({p \in Seq(Without({Blank, "&", Semicolon, "CR", "LF", Nul})) :
           Len(p) \in 1..2 /\ p[1] \in Without(Signs)})

(* A request as the clients of the server write one: no text has a sign    *)
(* in it that would end it, header keys differ, and the Content-Length is  *)
(* that of the body, which has a type of its own if it is a form.          *)
WellFormed(form) ==
    LET Given(key) == {i \in DOMAIN form.headers : form.headers[i][1] = key}
        AForm == \E i \in Given(ContentType) : form.headers[i][2] = UrlEncoded
    IN
    /\ form.method \in Word /\ form.version \in Word
    /\ form.uri \in Without({Blank, "?"}) \ {<<>>}
    /\ form.query \in Pairs /\ form.cookies \in Pairs /\ form.fields \in Pairs
    /\ form.headers \in Seq(Word \X Without(LineEnds))
    /\ \A i \in DOMAIN form.headers : LET value == form.headers[i][2] IN
          value # <<>> => value[1] # Blank
    /\ \A i, j \in DOMAIN form.headers : form.headers[i][1] = form.headers[j][1] => i = j
    /\ Given(Cookie) = {}
    /\ form.body \in Text
    /\ \A i \in Given(ContentLength) : LengthIn(form.headers[i][2]) = Len(BodyText(form))
    /\ Given(ContentLength) = {} => BodyText(form) = <<>>
    /\ form.fields # <<>> <=> AForm
    /\ AForm => BodyText(form) # <<>>

ASSUME FormsAssumption == \A form \in Forms : WellFormed(form)

(* The bytes that have arrived *)
Arrived == Len(stream) - Len(wire)

(* The first k requests have arrived *)
HaveArrived(k) == Arrived >= ends[k]

(* Bytes n + 1, ... follow in another piece: a line is cut in its CR LF.   *)
(* (The CR LF of the empty line may be cut.)                               *)
CutsLineEnd(n) ==
    /\ n > 1 /\ n < Len(stream)
    /\ stream[n] = "CR" /\ stream[n + 1] = "LF" /\ stream[n - 1] # "LF"

(* Bytes of a request arrive before one with a Content-Length is answered *)
Overtakes(n) ==
    \E k \in Len(out) + 1..Len(sent) :
        /\ \E i \in DOMAIN sent[k].headers : sent[k].headers[i][1] = ContentLength
        /\ n > ends[k]

-----------------------------------------------------------------------------
(* The parser *)

Rest == SubSeq(buf, ptr + 1, Len(buf))

(* The place of the first character that is not the prefix *)
BeginOf(text, prefix) ==
    Min({i \in DOMAIN text : text[i] # prefix} \union {Len(text) + 1})

(* get_chunk: the text up to the first of the stops, without the prefix    *)
(* characters it begins with; size 0 when there is no stop yet.            *)
GetChunk(text, prefix, stops) ==
    LET from == BeginOf(text, prefix)
        found == {k \in from..Len(text) : text[k] \in stops}
    IN IF found = {} THEN [size |-> 0, value |-> <<>>]
       ELSE [size |-> Min(found), value |-> SubSeq(text, from, Min(found) - 1)]

(* A part of a text of pairs: the name ends at the first "=", the value    *)
(* begins behind the last.                                                 *)
NameAndValue(part) ==
    LET marks == {i \in DOMAIN part : part[i] = "="} IN
    IF marks = {} THEN <<part>>
    ELSE <<SubSeq(part, 1, Min(marks) - 1), SubSeq(part, Max(marks) + 1, Len(part))>>

(* Where a part of a text of pairs ends *)
PartEnds(text, div) == {i \in DOMAIN text : text[i] \in {div, Nul}}

(* The part that ends at i *)
PartTo(text, div, i) ==
    SubSeq(text, Max({e \in PartEnds(text, div) : e < i} \union {0}) + 1, i - 1)

Trimmed(part) == SubSeq(part, BeginOf(part, Blank), Len(part))

(* parse_string: the pairs of a text that ends with a Nul *)
ParseString(text, div, trim) ==
    FlattenSeq([i \in DOMAIN text |->
        LET part == PartTo(text, div, i) IN
        IF i \notin PartEnds(text, div) THEN <<>>
        ELSE <<NameAndValue(IF trim THEN Trimmed(part) ELSE part)>>])

(* mutant: the second character is passed before it is there *)
LineEndAssumed(text, size) == 1

(* A line end of two characters is passed if both are there *)
LineEndAfter(text, size) ==
    IF size < Len(text) /\ text[size + 1] \in LineEnds THEN 1 ELSE 0

NewRequest ==
    [method |-> <<>>, uri |-> <<>>, params |-> <<>>, version |-> <<>>,
     headers |-> <<>>, cookies |-> <<>>, body |-> <<>>]

Init ==
    /\ sent = <<>> /\ stream = <<>> /\ ends = <<>> /\ wire = <<>> /\ joined = TRUE
    /\ buf = <<>> /\ pc = "wait"
    /\ ptr = 0
    /\ stage = "method" /\ req = NewRequest /\ length = Absent
    /\ out = <<>> /\ conn = "open"

(* mutant: the buffer is processed once for each read *)
ReturnToWait(n) ==
    /\ buf' = IF n > Len(buf) THEN buf ELSE SubSeq(buf, n + 1, Len(buf))
    /\ ptr' = 0
    /\ pc' = "wait"

CutFromHead(buffer, count) ==
    IF count > Len(buffer) THEN buffer ELSE SubSeq(buffer, count + 1, Len(buffer))

(* process_data returns with n bytes processed; the loop of                *)
(* compile_buffer_data calls it again as long as it processes any.         *)
ReturnCall(n) ==
    /\ buf' = CutFromHead(buf, n)
    /\ ptr' = 0
    /\ pc' = IF n = 0 \/ buf' = <<>> THEN "wait" ELSE "run"

In(s) == pc = "run" /\ stage = s

(* buffer and process_byte move on by n. *)
Pass(n) == ptr' = ptr + n

AtMark == Rest # <<>> /\ Rest[1] = "?"
AtEmptyLine == Len(Rest) >= 2 /\ Rest[1] = "CR" /\ Rest[2] = "LF"

Method ==
    LET c == GetChunk(Rest, Blank, {Blank}) IN
    /\ In("method") /\ c.size > 0
    /\ req' = [req EXCEPT !.method = c.value]
    /\ stage' = "uri"
    /\ Pass(c.size)
    /\ UNCHANGED <<inVars, buf, pc, length, out, conn>>

(* The question mark of the parameters is left in the buffer. *)
Uri ==
    LET c == GetChunk(Rest, Blank, {"?", Blank}) IN
    /\ In("uri") /\ c.size > 0
    /\ req' = [req EXCEPT !.uri = c.value]
    /\ stage' = "params"
    /\ Pass(IF Rest[c.size] = "?" THEN c.size - 1 ELSE c.size)
    /\ UNCHANGED <<inVars, buf, pc, length, out, conn>>

(* The parameters are kept as text, with the blank behind them a Nul. *)
Params ==
    LET c == GetChunk(Tail(Rest), "?", {Blank}) IN
    /\ In("params") /\ AtMark /\ c.size > 0
    /\ req' = [req EXCEPT !.params = SubSeq(Rest, 2, c.size) \o <<Nul>>]
    /\ stage' = "version"
    /\ Pass(c.size + 1)
    /\ UNCHANGED <<inVars, buf, pc, length, out, conn>>

(* The call came to the end of the buffer with the uri: buffer[0] is a     *)
(* byte left there or never written, read in any case.  If it is no '?',   *)
(* NeedMore is next.  If it is one, buffer moves on behind it, the size    *)
(* wraps to its greatest value, and the search runs on from there.         *)
ReadPastEnd ==
    /\ In("params") /\ Rest = <<>>
    /\ Pass(1)
    /\ conn' = "lost" /\ joined' = FALSE /\ pc' = "wait"
    /\ UNCHANGED <<sent, stream, ends, wire, buf, parserVars, out>>

WantsVersion == In("version") \/ (In("params") /\ ~AtMark)

Version ==
    LET c == GetChunk(Rest, Blank, LineEnds) IN
    /\ WantsVersion /\ c.size > 0
    /\ req' = [req EXCEPT !.version = c.value]
    /\ stage' = "headers"
    /\ Pass(c.size + LineEndAfter(Rest, c.size))
    /\ UNCHANGED <<inVars, buf, pc, length, out, conn>>

(* The text after the key of a header line *)
AfterKey == SubSeq(Rest, GetChunk(Rest, Blank, {":"}).size + 1, Len(Rest))

HeaderComplete ==
    /\ Len(Rest) >= 2
    /\ GetChunk(Rest, Blank, {":"}).size > 0
    /\ GetChunk(AfterKey, Blank, LineEnds).size > 0

(* The header line before buffer joins the request.  The text of cookies   *)
(* is cut up in its place: what is left of it as a header is the name of   *)
(* the first.                                                              *)
WithHeader(r, key, value) ==
    LET pairs == ParseString(value \o <<Nul>>, Semicolon, TRUE) IN
    IF key = Cookie
    THEN [r EXCEPT !.headers = Append(@, <<key, pairs[1][1]>>), !.cookies = @ \o pairs]
    ELSE [r EXCEPT !.headers = Append(@, <<key, value>>)]

Header ==
    LET key == GetChunk(Rest, Blank, {":"})
        value == GetChunk(AfterKey, Blank, LineEnds)
    IN
    /\ In("headers") /\ ~AtEmptyLine /\ HeaderComplete
    /\ req' = WithHeader(req, key.value, value.value)
    /\ length' = IF length = Absent /\ key.value = ContentLength
                 THEN LengthIn(value.value) ELSE length
    /\ Pass(key.size + value.size + LineEndAfter(AfterKey, value.size))
    /\ UNCHANGED <<inVars, buf, pc, stage, out, conn>>

EndHeaders ==
    /\ In("headers") /\ AtEmptyLine
    /\ stage' = "body"
    /\ Pass(2)
    /\ UNCHANGED <<inVars, buf, pc, req, length, out, conn>>

(* The field wanted next is not complete: the call returns.                *)
NeedMore ==
    /\ \/ In("method") /\ GetChunk(Rest, Blank, {Blank}).size = 0
       \/ In("uri") /\ GetChunk(Rest, Blank, {"?", Blank}).size = 0
       \/ In("params") /\ AtMark /\ GetChunk(Tail(Rest), "?", {Blank}).size = 0
       \/ WantsVersion /\ GetChunk(Rest, Blank, LineEnds).size = 0
       \/ In("headers") /\ ~AtEmptyLine /\ ~HeaderComplete
    /\ ReturnCall(ptr)
    /\ UNCHANGED <<inVars, parserVars, out, conn>>

(* The call began in the headers and finds no key: the size by which       *)
(* decrement_free_size moves the end of the header text was never set.     *)
(* Mostly that end stays within the text's capacity, and nothing is lost   *)
(* (NeedMore); a size that wraps puts it back into the fields read so far. *)
UnsetSize ==
    /\ In("headers") /\ ptr = 0 /\ Len(Rest) >= 2 /\ ~AtEmptyLine
    /\ GetChunk(Rest, Blank, {":"}).size = 0
    /\ conn' = "lost" /\ joined' = FALSE /\ pc' = "wait"
    /\ UNCHANGED <<sent, stream, ends, wire, buf, ptr, parserVars, out>>

(* get_header_parameter: the first header with this key, or the default *)
HeaderParameter(r, key, default) ==
    LET named == {i \in DOMAIN r.headers : r.headers[i][1] = key} IN
    IF named = {} THEN default ELSE r.headers[Min(named)][2]

(* Connection of the request, or what its version implies *)
StaysOpen(r) ==
    HeaderParameter(r, Connection, IF r.version = Version11 THEN KeepAlive ELSE <<>>)
      = KeepAlive

(* mutant: the fields of a form replace the parameters of the uri *)
FieldsOnly(r) == [r EXCEPT !.params = r.body \o <<Nul>>]

(* The fields of a form are appended to the text of parameters, of which   *)
(* the Nul becomes an "&" unless one is there already or it is all.        *)
WithFields(r) ==
    LET k == Len(r.params)
        before == IF k = 0 THEN <<>>
                  ELSE IF k > 1 /\ r.params[k - 1] # "&" THEN [r.params EXCEPT ![k] = "&"]
                  ELSE Front(r.params)
    IN IF HeaderParameter(r, ContentType, <<>>) = UrlEncoded
       THEN [r EXCEPT !.params = before \o r.body \o <<Nul>>]
       ELSE r

(* The parameters are cut into pairs.  HttpTask: the request is answered,  *)
(* the connection closed if it is the last, and the next request gets a    *)
(* new parser.                                                             *)
Deliver(r, n) ==
    /\ out' = Append(out, [r EXCEPT !.params = ParseString(@, "&", FALSE)])
    /\ conn' = IF StaysOpen(r) THEN conn ELSE "closing"
    /\ stage' = "method" /\ req' = NewRequest /\ length' = Absent
    /\ ReturnCall(n)
    /\ UNCHANGED inVars

(* What is there of the body.  It is cut to the whole length, whatever was *)
(* read of the body before.                                                *)
BodyPart == IF Len(Rest) < length THEN Rest ELSE SubSeq(Rest, 1, length)

WithPart == [req EXCEPT !.body = @ \o BodyPart]

(* A body of length 0 is complete only when the buffer ends with it.       *)
NoBody == length = Absent \/ (length = 0 /\ Rest = <<>>)

BodyComplete == BodyPart # <<>> /\ Len(WithPart.body) >= length

EmptyBody ==
    /\ In("body") /\ NoBody
    /\ Deliver(req, ptr)

LastPart ==
    /\ In("body") /\ ~NoBody /\ BodyComplete
    /\ Deliver(WithFields(WithPart), ptr + Len(BodyPart))

MoreBody ==
    /\ In("body") /\ ~NoBody /\ ~BodyComplete
    /\ req' = WithPart
    /\ ReturnCall(ptr + Len(BodyPart))
    /\ UNCHANGED <<inVars, stage, length, out, conn>>

Parse == Method \/ Uri \/ Params \/ ReadPastEnd \/ Version \/ Header \/ EndHeaders
            \/ NeedMore
            \/ UnsetSize \/ EmptyBody \/ LastPart \/ MoreBody

-----------------------------------------------------------------------------
(* The connection *)

Send ==
    /\ Len(sent) < MaxRequests
    /\ \E form \in Forms :
          LET bytes == Encode(form) IN
          /\ sent' = Append(sent, form)
          /\ wire' = wire \o bytes /\ stream' = stream \o bytes
          /\ ends' = Append(ends, Len(stream) + Len(bytes))
    /\ UNCHANGED <<joined, buf, pc, ptr, parserVars, out, conn>>

(* stub_conn_read: whatever has arrived goes to the end of the buffer.     *)
Receive ==
    /\ pc = "wait" /\ conn = "open"
    /\ \E n \in 1..Len(wire) :
          /\ buf' = buf \o SubSeq(wire, 1, n)
          /\ wire' = SubSeq(wire, n + 1, Len(wire))
          /\ joined' = (joined /\ ~CutsLineEnd(Arrived + n) /\ ~Overtakes(Arrived + n))
    /\ pc' = "run"
    /\ UNCHANGED <<sent, stream, ends, ptr, parserVars, out, conn>>

(* stub_conn_write: the last response is out; the connection is deleted.   *)
Flush ==
    /\ pc = "wait" /\ conn = "closing"
    /\ conn' = "gone"
    /\ UNCHANGED <<inVars, buf, pc, ptr, parserVars, out>>

(* stub_conn_event: the other side has closed, or an error.                *)
PeerCloses ==
    /\ pc = "wait" /\ conn \in {"open", "closing"}
    /\ conn' = "gone"
    /\ UNCHANGED <<inVars, buf, pc, ptr, parserVars, out>>

Next == Send \/ Receive \/ Parse \/ Flush \/ PeerCloses

Spec == Init /\ [][Next]_vars

-----------------------------------------------------------------------------
(* Properties *)

(* What the variables hold.  A call of process_data goes on behind the end *)
(* of the buffer it was given in one place only: over the byte behind a    *)
(* uri the buffer ends with, taken for the '?' of its parameters.          *)
TypeOK ==
    /\ sent \in Seq(Forms) /\ Len(sent) <= MaxRequests
    /\ pc \in {"wait", "run"}
    /\ \/ ptr \in 0..Len(buf)
       \/ ptr = Len(buf) + 1 /\ stage = "params" /\ conn = "lost" /\ pc = "wait"
    /\ stage \in {"method", "uri", "params", "version", "headers", "body"}
    /\ length \in Nat \union {Absent}
    /\ conn \in {"open", "closing", "gone", "lost"}
    /\ joined \in BOOLEAN

(* The parameters: those of the uri, then the fields.  Fields take the     *)
(* place of a last parameter that is nothing at all, as in "?a&".          *)
ParamsOf(form) ==
    LET q == form.query
    IN (IF form.fields # <<>> /\ q # <<>> /\ Last(q) = <<<<>>>> THEN Front(q) ELSE q)
       \o form.fields

(* Pair for pair; a value with a "=" in it is another *)
SamePairs(read, given) ==
    /\ Len(read) = Len(given)
    /\ \A i \in DOMAIN given :
          /\ read[i][1] = given[i][1] /\ Len(read[i]) = Len(given[i])
          /\ Len(given[i]) = 2 /\ "=" \notin ToSet(given[i][2]) => read[i][2] = given[i][2]

SameRequest(read, given) ==
    /\ read.method = given.method /\ read.uri = given.uri
    /\ read.version = given.version /\ read.body = BodyText(given)
    /\ given.headers = IF given.cookies = <<>> THEN read.headers ELSE Tail(read.headers)
    /\ SamePairs(read.params, ParamsOf(given))
    /\ SamePairs(read.cookies, given.cookies)

(* However the bytes are cut into pieces, the requests handed to the       *)
(* server are those the client sent, field by field and in their order     *)
(* (process_data, get_chunk, compile_buffer_data), and so are the pairs    *)
(* names are looked up in, of which the first counts: the parameters of    *)
(* the uri, then the fields of the form, and the cookies (parse_string,    *)
(* the join of a form body in process_data).  It is not so if a piece ends *)
(* between the CR and the LF of a line or runs on beyond a request with a  *)
(* Content-Length that was not answered, or undefined behaviour took its   *)
(* worse outcome: there the code goes wrong.  Nor is a value kept that has *)
(* a "=" in it: parse_string takes what follows the last one.              *)
RequestsAsSent ==
    joined => /\ Len(out) <= Len(sent)
              /\ \A i \in DOMAIN out : SameRequest(out[i], sent[i])

(* A request all of whose bytes have arrived has been handed to the server *)
(* by the time the connection waits for more: no call of process_data      *)
(* leaves a complete request in the buffer, since nothing would wake it    *)
(* but more bytes from the client.                                         *)
NoneLeftInBuffer ==
    joined /\ pc = "wait" /\ conn = "open" =>
        \A k \in DOMAIN sent : HaveArrived(k) => Len(out) >= k
=============================================================================
