---------------------------- MODULE HttpResponse ----------------------------
(***************************************************************************)
(* What one HTTP connection answers: requests that are complete in the     *)
(* socket buffer are handled one after the other on the listen thread,     *)
(* each by a processor of its own, and their answers go to the output of   *)
(* the connection, which the event loop sends between callbacks.  Files    *)
(* are looked up, opened, mapped and copied in several system calls, while *)
(* another process changes the directory.                                  *)
(*                                                                         *)
(* A file is a name of the directory and an inode, whose length is kept    *)
(* for each time it was written: the last of its modifications is what     *)
(* st_mtime tells.  The output is a sequence of heads and bodies; how a    *)
(* request came together is HttpConnection's matter.                       *)
(***************************************************************************)
EXTENDS Integers, Sequences

CONSTANTS
    None,
    Paths,          \* names below the document roots that are asked for
    IndexOf,        \* path -> the path of its index.html, None if it never has one
    Requests,       \* the requests a client may send
    Lengths,        \* lengths of files
    Word,           \* values of an unsigned int
    TextLength,     \* length of a text or JSON body
    MaxRequests,    \* bound: requests on the connection
    MaxChange       \* bound: changes of the directory

Actions == {"auth", "refresh_token", "unknown"}
Connections == {"keep-alive", "close", "none"}

ASSUME HttpResponseAssumption ==
    /\ IndexOf \in [Paths -> Paths \cup {None}]
    /\ None \notin Paths /\ None \notin Int /\ None \notin [inode : Nat, time : Nat]
    /\ None \notin Requests
    /\ None \notin [stamp : [inode : Nat, time : Nat] \cup {None}, length : Int]
    /\ Requests \subseteq [target : Actions \cup Paths, head : BOOLEAN, since : BOOLEAN,
                           http11 : BOOLEAN, connection : Connections]
    /\ Paths \cap Actions = {}
    /\ Lengths \subseteq Nat
    /\ Word \in Nat \ {0, 1} /\ Word % 2 = 0
    /\ TextLength \in 1..(Word \div 2) - 1
    /\ MaxRequests \in Nat /\ MaxChange \in Nat

Inodes == 1..MaxChange + 1

VARIABLES
    dir,        \* path -> inode, Dir or None
    written,    \* inode -> its lengths, one for each time it was written
    changes,    \* changes of the directory so far
    proc,       \* "up" or "dead"
    conn,       \* the connection: open, told to close when its output is sent
                \* (draining), closed by the server, cut by the peer, or
                \* closed without its object being deleted (leaked)
    waiting,    \* complete requests in m_socket_buffer
    handled,    \* requests taken from it
    rpc,        \* where the handler is
    req,        \* the request it handles
    path,       \* the canonical name of the file it looks for
    file,       \* the open file: inode and modification (stamp), and m_file_size_
    output,     \* all that was written to the connection
    sent        \* how much of it the event loop has sent

fsVars == <<dir, written, changes>>
handlerVars == <<rpc, req, path, file>>
connVars == <<conn, waiting, sent>>
vars == <<fsVars, proc, handlerVars, connVars, handled, output>>

Dir == 0
DirLength == 1     \* what fstat tells of a directory; any will do

(* send_number prints an unsigned int with "%d" *)
Announced(n) == LET u == n % Word IN IF u < Word \div 2 THEN u ELSE u - Word

(* The Connection header of an answer: the request's own, or the default   *)
(* of its version; anything but the literal keep-alive ends the connection. *)
ConnectionOf(r) ==
    IF r.connection # "none" THEN r.connection
    ELSE IF r.http11 THEN "keep-alive" ELSE "close"

HeadOf(code, length, stamp) ==
    [kind |-> "head", of |-> handled, code |-> code, length |-> Announced(length),
     bodiless |-> req.head, connection |-> ConnectionOf(req), stamp |-> stamp]

BodyOf(length, stamp) == [kind |-> "body", length |-> length, stamp |-> stamp]

(* send_response of a text, which HEAD leaves out *)
SendResponse(code, length) ==
    output' = output \o IF req.head \/ length = 0
                        THEN <<HeadOf(code, length, None)>>
                        ELSE <<HeadOf(code, length, None), BodyOf(length, None)>>

(* What an inode was last written with, and when *)
StampOf(i) == [inode |-> i, time |-> Len(written[i])]
LengthOf(i) == written[i][Len(written[i])]

(* A directory can be opened, but not mapped *)
OpenedDir == [stamp |-> None, length |-> DirLength]

(* fastfile takes the length it is given, -1, for that of an empty file *)
MappedLength(n) == IF n = 0 THEN -1 ELSE n

Opened(i) == [stamp |-> StampOf(i), length |-> MappedLength(LengthOf(i))]

(* The callbacks of the event loop run when no handler does *)
Looping == proc = "up" /\ rpc = "idle" /\ waiting = 0

-----------------------------------------------------------------------------

(* Bytes arrive that complete some requests *)
Receive ==
    /\ Looping /\ conn = "open"
    /\ \E n \in 1..MaxRequests - handled : waiting' = n
    /\ UNCHANGED <<fsVars, proc, handlerVars, conn, sent, handled, output>>

(* data_processing hands the next one to a task.  It goes on after a       *)
(* request that has ended the connection, too.                             *)
TakeRequest ==
    /\ proc = "up" /\ rpc = "idle" /\ waiting > 0
    /\ waiting' = waiting - 1 /\ handled' = handled + 1
    /\ \E r \in Requests :
         /\ req' = r
         /\ rpc' = IF r.target \in Actions THEN "action" ELSE "resolve"
    /\ UNCHANGED <<fsVars, proc, path, file, conn, sent, output>>

(* mutant: an action that answered says it did not *)
AnswerActionTwice ==
    /\ rpc = "action" /\ req.target # "unknown"
    /\ \/ SendResponse(200, TextLength)
       \/ req.target = "refresh_token" /\ SendResponse(401, 0)
    /\ rpc' = "missing"
    /\ UNCHANGED <<fsVars, proc, req, path, file, connVars, handled>>

(* An action of m_dictActionS2H answers with JSON; a refresh without a     *)
(* good token, or whose redis fails, with a bare 401.                      *)
AnswerAction ==
    /\ rpc = "action" /\ req.target # "unknown"
    /\ \/ SendResponse(200, TextLength)
       \/ req.target = "refresh_token" /\ SendResponse(401, 0)
    /\ rpc' = "end"
    /\ UNCHANGED <<fsVars, proc, req, path, file, connVars, handled>>

(* A database error leaves the handler as an exception that nothing on the *)
(* listen thread catches.                                                  *)
ActionThrows ==
    /\ rpc = "action" /\ req.target = "auth"
    /\ proc' = "dead" /\ rpc' = "idle"
    /\ UNCHANGED <<fsVars, req, path, file, connVars, handled, output>>

(* No action has this name *)
UnknownAction ==
    /\ rpc = "action" /\ req.target = "unknown"
    /\ rpc' = "missing"
    /\ UNCHANGED <<fsVars, proc, req, path, file, connVars, handled, output>>

(* The 404 of process_http and of send_file *)
AnswerMissing ==
    /\ rpc = "missing"
    /\ SendResponse(404, TextLength)
    /\ rpc' = "end"
    /\ UNCHANGED <<fsVars, proc, req, path, file, connVars, handled>>

(* send_file makes a name: a directory stands for its index.html, and      *)
(* realpath wants the file to be there.                                    *)
Resolve ==
    /\ rpc = "resolve"
    /\ path' = IF dir[req.target] = Dir THEN IndexOf[req.target] ELSE req.target
    /\ rpc' = IF path' = None THEN "missing"
              ELSE IF dir[path'] = None THEN "missing" ELSE "open"
    /\ UNCHANGED <<fsVars, proc, req, file, connVars, handled, output>>

(* mutant: what open returned is not looked at *)
OpenFileUnchecked ==
    /\ rpc = "open"
    /\ rpc' = "head"
    /\ file' = IF dir[path] \in Inodes THEN Opened(dir[path]) ELSE OpenedDir
    /\ UNCHANGED <<fsVars, proc, req, path, connVars, handled, output>>

(* open_file: access, open, fstat and mmap.  A mapping that failed is not  *)
(* told from one that did not: MAP_FAILED is not null.                     *)
OpenFile ==
    /\ rpc = "open"
    /\ \/ dir[path] = None /\ rpc' = "missing" /\ UNCHANGED file
       \/ dir[path] = Dir /\ rpc' = "head" /\ file' = OpenedDir
       \/ dir[path] \in Inodes /\ rpc' = "head" /\ file' = Opened(dir[path])
    /\ UNCHANGED <<fsVars, proc, req, path, connVars, handled, output>>

(* mutant: the early return leaves the file open *)
NotModifiedLeaks ==
    /\ rpc = "head" /\ req.since
    /\ SendResponse(304, 0)
    /\ rpc' = "end"
    /\ UNCHANGED <<fsVars, proc, req, path, file, connVars, handled>>

(* If-Modified-Since is not parsed: the time compared with is whatever the *)
(* stack held, and any request that has the header may be answered so.     *)
NotModified ==
    /\ rpc = "head" /\ req.since
    /\ SendResponse(304, 0)
    /\ rpc' = "end" /\ file' = None
    /\ UNCHANGED <<fsVars, proc, req, path, connVars, handled>>

(* mutant: the length is that of the file that has the name by now *)
SendHeadOfPath ==
    /\ rpc = "head"
    /\ LET now == IF dir[path] \in Inodes THEN Opened(dir[path]) ELSE file
       IN output' = Append(output, HeadOf(200, now.length, file.stamp))
    /\ rpc' = "copy"
    /\ UNCHANGED <<fsVars, proc, req, path, file, connVars, handled>>

(* The head of a file, with its length and modification time *)
SendHead ==
    /\ rpc = "head"
    /\ output' = Append(output, HeadOf(200, file.length, file.stamp))
    /\ rpc' = "copy"
    /\ UNCHANGED <<fsVars, proc, req, path, file, connVars, handled>>

(* mutant: a body for HEAD too *)
CopyFileAlways ==
    /\ rpc = "copy"
    /\ output' = IF file.stamp = None \/ file.length < 0 THEN output
                 ELSE Append(output, BodyOf(file.length, StampOf(file.stamp.inode)))
    /\ rpc' = "end" /\ file' = None
    /\ UNCHANGED <<fsVars, proc, req, path, connVars, handled>>

(* The body is copied from the mapping to the output, and the file closed. *)
(* A copy of -1 bytes is refused.                                          *)
CopyFile ==
    /\ rpc = "copy"
    /\ req.head \/ file.stamp # None
    /\ output' = IF req.head \/ file.length < 0 THEN output
                 ELSE Append(output, BodyOf(file.length, StampOf(file.stamp.inode)))
    /\ rpc' = "end" /\ file' = None
    /\ UNCHANGED <<fsVars, proc, req, path, connVars, handled>>

(* A directory has no mapping; a file that was cut has less than was mapped *)
PagesMissing ==
    IF file.stamp = None THEN TRUE ELSE LengthOf(file.stamp.inode) < file.length

(* The copy touches pages that are not there *)
CopyFaults ==
    /\ rpc = "copy" /\ ~req.head
    /\ PagesMissing
    /\ proc' = "dead" /\ rpc' = "idle"
    /\ UNCHANGED <<fsVars, req, path, file, connVars, handled, output>>

(* close_connection: what is left is sent first.  With nothing to send the  *)
(* event buffer goes at once, and the connection's object stays.           *)
CloseConnection == IF sent < Len(output) THEN "draining" ELSE "leaked"

(* mutant: the version alone says whether the connection ends *)
EndTaskByVersion ==
    /\ rpc = "end"
    /\ conn' = IF req.http11 THEN conn ELSE CloseConnection
    /\ rpc' = "idle" /\ req' = None /\ path' = None
    /\ UNCHANGED <<fsVars, proc, file, waiting, sent, handled, output>>

(* The task ends with close_connection unless the connection is kept *)
EndTask ==
    /\ rpc = "end"
    /\ conn' = IF ConnectionOf(req) = "keep-alive" THEN conn ELSE CloseConnection
    /\ rpc' = "idle" /\ req' = None /\ path' = None
    /\ UNCHANGED <<fsVars, proc, file, waiting, sent, handled, output>>

(* mutant: the write callback does not look at what is left *)
TransmitSome ==
    /\ Looping /\ conn \in {"open", "draining"} /\ sent < Len(output)
    /\ sent' = sent + 1
    /\ conn' = IF conn = "draining" THEN "closed" ELSE conn
    /\ UNCHANGED <<fsVars, proc, handlerVars, waiting, handled, output>>

(* mutant: the write callback is not set *)
TransmitNoCallback ==
    /\ Looping /\ conn \in {"open", "draining"} /\ sent < Len(output)
    /\ sent' = sent + 1
    /\ UNCHANGED <<fsVars, proc, handlerVars, conn, waiting, handled, output>>

(* The event loop sends what the peer takes; stub_conn_write ends the      *)
(* connection when nothing is left.                                        *)
Transmit ==
    /\ Looping /\ conn \in {"open", "draining"} /\ sent < Len(output)
    /\ sent' = sent + 1
    /\ conn' = IF conn = "draining" /\ sent' = Len(output) THEN "closed" ELSE conn
    /\ UNCHANGED <<fsVars, proc, handlerVars, waiting, handled, output>>

(* The peer closes its side, or the connection breaks: stub_conn_event     *)
(* deletes the connection with what was not sent.                          *)
PeerEnds ==
    /\ Looping /\ conn \in {"open", "draining"}
    /\ conn' = "cut"
    /\ UNCHANGED <<fsVars, proc, handlerVars, waiting, sent, handled, output>>

-----------------------------------------------------------------------------

(* What is below a directory is there only if that is one *)
Reachable(d, p) == \A q \in Paths : IndexOf[q] = p => d[q] = Dir

(* Another process: a file is put in place of what has the name, written   *)
(* over, or removed.                                                       *)
Replace(p, n) ==
    /\ dir[p] # Dir /\ Reachable(dir, p)
    /\ dir' = [dir EXCEPT ![p] = changes + 2]
    /\ written' = [written EXCEPT ![changes + 2] = <<n>>]

Overwrite(p, n) ==
    /\ dir[p] \in Inodes
    /\ written' = [written EXCEPT ![dir[p]] = Append(@, n)]
    /\ UNCHANGED dir

Remove(p) ==
    /\ dir[p] \in Inodes
    /\ dir' = [dir EXCEPT ![p] = None]
    /\ UNCHANGED written

ChangeFiles ==
    /\ changes < MaxChange /\ changes' = changes + 1
    /\ \E p \in Paths, n \in Lengths : Replace(p, n) \/ Overwrite(p, n) \/ Remove(p)
    /\ UNCHANGED <<proc, handlerVars, connVars, handled, output>>

-----------------------------------------------------------------------------

Init ==
    /\ dir \in [Paths -> {None, Dir, 1}]
    /\ \A p, q \in Paths : dir[p] \in Inodes /\ dir[q] = dir[p] => p = q
    /\ \A p \in Paths : dir[p] # None => Reachable(dir, p)
    /\ \E n \in Lengths : written = [i \in Inodes |-> IF i = 1 THEN <<n>> ELSE <<>>]
    /\ changes = 0 /\ proc = "up" /\ conn = "open"
    /\ waiting = 0 /\ handled = 0
    /\ rpc = "idle" /\ req = None /\ path = None /\ file = None
    /\ output = <<>> /\ sent = 0

SendFile ==
    \/ Resolve \/ OpenFile \/ NotModified \/ SendHead \/ CopyFile \/ CopyFaults

Handle ==
    \/ TakeRequest \/ AnswerAction \/ ActionThrows \/ UnknownAction
    \/ AnswerMissing \/ SendFile \/ EndTask

Next == Receive \/ Handle \/ Transmit \/ PeerEnds \/ ChangeFiles

Spec == Init /\ [][Next]_vars

(* The listen thread runs, and a peer that is sent something takes it or   *)
(* goes away.                                                              *)
PeerTakes == Transmit \/ (PeerEnds /\ sent < Len(output))
FairSpec == Spec /\ WF_vars(Handle) /\ WF_vars(PeerTakes)

-----------------------------------------------------------------------------

Heads == {i \in DOMAIN output : output[i].kind = "head"}
Bodies == DOMAIN output \ Heads

(* A length that is sent as it is, and whose file is mapped *)
Fit(n) == n \in 1..(Word \div 2) - 1

(* What the client finds behind a head, up to the next *)
BodyLength(i) == IF i + 1 \in Bodies THEN output[i + 1].length ELSE 0

(* Types; the answers never hold two bodies in a row. *)
TypeOK ==
    /\ dir \in [Paths -> Inodes \cup {Dir, None}] /\ changes \in 0..MaxChange
    /\ \A i \in Inodes : Len(written[i]) <= changes + 1
    /\ proc \in {"up", "dead"} /\ conn \in {"open", "draining", "closed", "cut", "leaked"}
    /\ waiting + handled \in 0..MaxRequests
    /\ rpc \in {"idle", "action", "resolve", "missing", "open", "head", "copy", "end"}
    /\ proc = "up" => (req = None <=> rpc = "idle")
    /\ req = None \/ req \in Requests
    /\ path \in Paths \cup {None}
    /\ proc = "up" => (file # None <=> rpc \in {"head", "copy"})
    /\ sent \in 0..Len(output)
    /\ \A i \in Bodies : i - 1 \in Heads

(* Between requests every request that was handled has one answer, and     *)
(* the answers are in the order of the requests.                           *)
OneAnswerEach ==
    proc = "up" /\ rpc = "idle" =>
        /\ {output[i].of : i \in Heads} = 1..handled
        /\ \A i, j \in Heads : i < j => output[i].of < output[j].of

(* The client finds the next answer where the length of the last one says  *)
(* it is, for all but empty files and files of 2 GiB and more: whatever    *)
(* happens to the file between fstat and the copy.                         *)
FramedAsAnnounced ==
    rpc = "idle" /\ proc = "up" =>
        \A i \in Heads :
            \/ BodyLength(i) = IF output[i].bodiless THEN 0 ELSE output[i].length
            \/ output[i].stamp # None
               /\ ~Fit(written[output[i].stamp.inode][output[i].stamp.time])

(* Length, modification time and content of an answer are those of one     *)
(* file, which had that length when it had that time; only a file that     *)
(* was written over while it was open has other content.                   *)
OneFileAnswered ==
    \A i \in Heads :
        output[i].stamp # None =>
            /\ LET n == written[output[i].stamp.inode][output[i].stamp.time]
               IN output[i].length = Announced(MappedLength(n))
            /\ i + 1 \in Bodies => output[i + 1].stamp.inode = output[i].stamp.inode

(* The server ends a connection if and only if some answer said so. *)
EndsAsTold ==
    rpc = "idle" /\ proc = "up" =>
        LET told == \E i \in Heads : output[i].connection # "keep-alive"
        IN /\ conn = "open" => ~told
           /\ conn \in {"draining", "closed"} => told

(* It does so when all answers are sent, and never without a trace. *)
AllSentBeforeClose == conn # "leaked" /\ (conn = "closed" => sent = Len(output))

(* The process dies of a database error, of a file that was cut while it   *)
(* was open or of an index.html that is a directory, and of nothing else.  *)
DiesOnlyOf ==
    proc = "dead" =>
        \/ req.target = "auth"
        \/ /\ ~req.head
           /\ IF file.stamp = None THEN dir[path] = Dir
              ELSE Len(written[file.stamp.inode]) > file.stamp.time

(* A connection that was told to close comes to its end. *)
ConnectionEnds == conn = "draining" ~> conn \in {"closed", "cut"} \/ proc = "dead"
=============================================================================
