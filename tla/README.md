# khorost-lib: verification project

TLA+ models of the parts of khorost-lib that keep state while a server runs,
the TLC configurations that check them on small instances, and theorems about
them that TLAPS checks for every value of the constants. Paths below are those
of the repository (`src/net/session.cpp`, ...).

Run a model with `tlc -config X.cfg M`, the proofs with `tlapm M.tla`. `PROJECT.json` maps each
definition to the lines it is translated from, and lists runs, mutants (a
definition marked `mutant:` is a changed form of the one after it, and must make its
property fail), findings, hazards and theorems.

## The system

khorost-lib is a C++ library for HTTP servers. An application derives from
`server2_hb` and runs `FRAMEWORK_HTTP_APP_SERVER`. Three threads run:

- *main* prepares, starts the other two, joins the timer, joins the listener, ends;
- the *listener* runs a libevent loop: it accepts connections, reads, parses
  and handles each request to its end, one at a time;
- the *timer* wakes each second and, when ten minutes have gone by, removes
  the sessions that have expired; once more when the server stops.

Signals run on the main thread, or inside the libevent loop.

| Component | State it keeps | Operations | What is hard | What makes it correct |
|---|---|---|---|---|
| Session store: `src/net/session.cpp`, `src/app/server2hb.cxx`, `src/app/s2h-session.cxx` | map of sessions in memory, sqlite table `sessions` | get, create, extend, login, logout, sweep, load | listener and timer share the map without a lock; the handler holds a raw pointer; memory and table are changed one after the other; crashes, stops, new session formats | map and table agree; a login that was answered stays until it expires; a logout is final; no session is freed under a handler, nor forgotten early, but in the one way described below |
| Token cache: `src/app/server2hb.cxx`, `src/net/token.cxx` | map id -> token, redis keys with a time to live | find, load, remove expired, refresh | the token object is changed in place before redis is; redis fails before or after it did its work; two clocks run; restarts | a pair a client was given works until it expires or is replaced; keys lead to the tokens that have them |
| Connection pool: `src/db/postgres.cpp`, `include/db/postgres.h` | queue of free connections, mutex, condition variable | get, release | notify after unlock, stolen and spurious wakeups, the pool at its limit | no connection is shared or lost; who waits is served |
| Lifecycle: `src/app/server2h.cxx`, `server2hb.cxx`, `src/net/connection.cpp`, `include/app/framework.h` | threads, stop flag, event base, signal handlers | startup, shutdown, run, finish | signals at any moment, failures of the listener, the order of join and free | it ends in order, and when told |
| HTTP connection, requests: `src/net/http.cpp`, `connection.cpp`, `include/app/server2h.h` | socket buffer, parser stage, request | read, parse, cut into pairs, hand on | requests cut at any byte, pipelining, texts that are cut up in place | requests come out as sent with the pairs the client gave, none is left in the buffer |
| HTTP connection, answers: `src/net/http.cpp`, `connection.cpp`, `system/fastfile.cpp`, `src/app/server2hb.cxx` | output of the connection, its end, the open file | handle, find and open a file, send head and body, close | files changed by another process between look-up, open and copy; pipelined requests behind the last; lengths at their limits | one answer for each request, framed as announced, of one file; all sent before the end |
| Task queue: `include/system/taskqueue.hxx` | queue, threads | QueueTask, Run, destructor | stopping with tasks queued and running | each task runs, none after the destructor |
| PostgreSQL storage: `src/db/postgres.cpp`, `src/app/s2hb-storage.cxx` | tables of users and tokens | create, refresh, load of tokens; user statements | transactions of several threads, each with a connection in hand; failures before and at the commit; the object is changed before the row | a replaced token has expired for good; what a caller holds is stored; calls return |
| Compact binary protocol: `src/net/compactbinary.cpp`, `.h` | packet under construction, socket buffer | Append, Send, DoProcessCB, ParsePacket | frames cut anywhere and of unknown type, sizes that wrap, lengths that lie | packets and chunks come out as sent, none is left in the buffer, the parser stays in its packet |

Interaction: a request comes through the HTTP connection, `process_http_action`
takes its session from the store, an action may use the token cache and the
database through the pool; the lifecycle starts and stops the two threads that
the session store is shared between. The task queue is a member of the server
with no caller: the call in `server2h.h:31` is commented out, so that requests
run on the listener thread.

Components with no model, and why, are under [Not modelled](#not-modelled) and
in `PROJECT.json`.

## The modules

| Module | Models | Checked by | Proved in |
|---|---|---|---|
| `SessionStore`, `SessionService` (abstract) | session map, table, listener's requests, timer, crash, restart; what it promises | `MCSessionStore` (two cfgs) | `SessionStoreProofs` |
| `DbPool`, `ConnectionLease` (abstract) | the pool; what it promises | `MCDbPool` | `DbPoolProofs` |
| `ServerLifecycle` | threads, event base, signals | itself (two) | `ServerProofs` |
| `TokenCache` | token map, objects, redis, refresh | `MCTokenCache` (two) | `TokenCacheProofs` |
| `HttpConnection` | buffer, parser, requests | `MCHttpConnection` | `HttpConnectionProofs` |
| `HttpResponse` | handler, files, output, end of a connection | `MCHttpResponse` | `HttpResponseProofs` |
| `TaskQueue` | queue and threads | `MCTaskQueue` | `ServerProofs` |
| `PgTokens` (uses `ConnectionLease`) | the table of tokens, its transactions, the callers' objects | `MCPgTokens` | `PgTokensProofs` |
| `CompactBinary` | sender and receiver of packets on one connection | `MCCompactBinary` | `CompactBinaryProofs` |

### SessionStore and SessionService

`mem` is `m_session_memory_`, `db` the table. A request is `get_session`
(`GetLive`, `GetExpired`/`DropRow`, `GetUnknown`/`CreateEntry`/`InsertRow`)
and then login (`Login`, `StoreRow`), logout (`Logout`, `LogoutRow`,
`LogoutMem`) or another action. A step ends at each database statement: that is
the long window in which the other thread runs. `Start` loads the table and drops what
expired or has another format. `minutes()` is the minute of the hour, as in boost.

The sweep (`Visit`, `SweepRow`, `SweepErase`) has an iterator `it` that has moved on
before it removes, as `it++` does, its copy `sit`, and a copy `sp` of the session
that was found expired. An iterator stands for a node, named by its key. The
listener may erase that node (`session.cpp:227`, `:254`). The outcomes modelled of
what the timer does with it then are

- the freed memory is as it was: a walk goes on from the links in it (`After`), a
  second erase changes nothing;
- the listener has put the next session it made into it (`NodeFor`, `:236`: same
  thread, same size), so that the iterator is on another key: the timer finds that
  session, walks on from there, and `erase(sit)` (`:187`) takes that session away;
- the process dies (`Crash`).

The second is short to describe: the timer finds a session expired and begins its DELETE;
a request with its cookie erases the entry and makes a new session, in the node the timer
holds; the timer erases that. The handler goes on with a session whose last `shared_ptr`
has gone (`gone`, which `Held` reads for a handler that does not die of it), its row stays,
and its client loses it until a restart. `Taken` are the sessions this
happened to. A walk whose next node was erased (`strayed`) may skip some. The
properties below name these sessions and walks, and only them, as what is
lost; each fails without its exception.

Assumed: SQL statements succeed (their results are ignored by the code), and a
request is shorter than the short lease of 30 minutes (`MaxRequest < ShortLease`):
nothing in the code enforces the second, and without it the sweep may free any
session under its handler.

`SessionService` is a store whose operations happen at once: no threads, no map
beside the table, no crash. A session is opened, logged in, left, dropped when its
time is over or its owner has asked, or when a newer format is installed.
`SessionStore` implements it (`ServiceSpec`): `rows` is `db`, `version` is `build`,
and `leaving` is the session whose logout has begun and is not answered. The steps
that only touch the map, the iterator or what a thread has read are stutters. So the
interleaved statements of two threads, and crashes between them, add no way for a
session to come, to change its owner or to go.

- `session_store` checks `InUseNotReaped`, `TableMatchesMap`, `RowFollowsEntry`,
  `LoginKept`, `LogoutFinal`, `SweepComplete`, `NeverForgottenEarly` and
  `ServiceSpec` with two
  session ids, one user, two formats and four ticks: enough for a session to be
  created, logged in, expired, swept while a second is created (in the node of the
  first, or in one of its own), lost in a
  crash and loaded again by a program of the next format. What they show:
  - `InUseNotReaped`: leases do not run out under a handler, and the sweep takes a session
    from one only through the memory of an expired session;
  - `TableMatchesMap`, `RowFollowsEntry`: map and table agree but for the session each thread
    is moving just then, and the rows of `Taken` sessions, which stay;
  - `LoginKept`: the row of an answered login outlives crashes and sweeps until it expires, and
    the map has it too, unless it was taken: then a restart brings it back;
  - `LogoutFinal`: what was logged out stays out, whatever the sweep does with its node;
  - `SweepComplete`: a sweep that did not stray leaves no expired session, also
    when the node it was removing was used again;
  - `NeverForgottenEarly`: nothing else takes an unexpired session from the map.
- `session_store_stop` checks `StopCompletes` under `FairSpec`: the two
  threads run when they can, and the loop, once told to leave, leaves after the
  events at hand (strong fairness of `LeaveLoop`, which is disabled within a request,
  as `event_base_loopexit` promises).

A request extends the lease in memory only. The comment at `server2hb.cxx:225` calls
the final sweep of a stop a flush, but it writes nothing: such an extension is lost at
a restart, which `RowFollowsEntry` (a row is never ahead of its entry) and
`LoginKept` (a login is kept for as long as its answer said) leave room for.

### DbPool and ConnectionLease

Each thread goes through the lock, the test of the queue, the wait, the pop,
the use, the push and the notify; `notify_one` after the unlock is a step of its own,
and a woken thread must take the lock again, while another may have the
connection by then. Spurious wakeups are there. `ConnectionLease` knows only
who has what. `db_pool` (four threads, two connections: two wait while two
releases overlap, and one that comes anew competes with one that was woken) checks
`PoolConserved`, `NoLostWakeup`, `WaiterServed`, and that the pool implements
`ConnectionLease` (`LeaseSpec`). Fairness: threads run; a lock that is free again and again is obtained, and a
wait that can be answered again and again is (strong fairness on these). One lease per
thread: no path of the library nests two, and nesting could block all threads.

### ServerLifecycle

`main`, `timer` and `listen` are the threads, `handler` a signal handler in
the middle of main. The event base is null, live or freed; a call on a null or
freed base does nothing or kills the process. Every step at which the listener
can fail (base, bind, signal event, accept) has that outcome. `lifecycle`, with up to
three signals, checks `LoggerOutlivesThreads`, `EndsOnlyWhenTold`,
`NoLoopOnFreedBase` and `TermStops` (fairness: threads run). Three signals let a
SIGINT by libevent be followed by a SIGTERM and another. `TermStops` asks
for a signal that found a base: an earlier one is lost, which the model has too.
`lifecycle_interrupt` shows `InterruptStops` violated: the handler of
libevent prints "exiting cleanly in two seconds" and stops the listener only.
The pointer `g_pS2HB` is taken as set, which the application must do.

### TokenCache

Ids are pairs of kind and number. `heap` holds the objects that the two keys of
a pair share, so that a refresh that changes the object (`Renew`) is seen
under the old keys until `Update`. `Commit` may fail before or after redis has done it
(`CommitFails`); redis drops keys by its own clock (`Tick`). `Issue` stands
for the application that makes the first pair. `token_cache` checks `KeysAgree` and
`AnsweredPairWorks` with three pairs, two objects, two leases, four moments: a pair is
issued, replaced and replaced again, or two clients have one each, and each
half can expire first. `token_cache_previous` shows `PreviousStateCleared` violated:
`del` lacks the prefix the keys were written with.
A pair whose refresh failed in redis (`torn`) is excepted from both
properties: its old ids lead to an object with ids no client was given.

### HttpConnection

Bytes are symbols. Each field read within one `process_data` call is a
step, and bytes arrive between calls only, as one thread does both. `ReturnCall`
is the loop of `compile_buffer_data` with `cut_from_head`. The text of the parameters is kept as the
code keeps it, with a `NUL` for the blank behind it; `ParseString` is
`parse_string`, called on a cookie header when it is read (`WithHeader`, which also
leaves the header with the first name only) and on the parameters when the request is complete
(`Deliver`), after the fields of a form were joined to them (`WithFields`).
`stream` and `ends` are history: all bytes that were sent, and where each request ends in them.

The requests are any that `WellFormed` admits (`FormsAssumption`): words for method, version and
keys, no text with a sign in it that would end it, keys that differ, a Content-Length that
is that of the body (`LengthIn` is `atoi` of it). `Letters` are the bytes that are no signs.

`http_connection` sends three requests
out of seven forms (parameters, cookies, HTTP/1.0 with and without keep-alive, bodies of
length 0 and 2, a form body behind parameters that end with a name or with `&`),
with every cut and every amount of pipelining, and checks
`TypeOK`, `RequestsAsSent` and `NoneLeftInBuffer`. Three requests are enough for one
that is answered, one that is being read and one behind it. The last two have the precondition `joined`,
since the code does go wrong in these places, which the model shows when the
precondition is dropped:

- a piece ends between the CR and the LF of a line (`http.cpp:188`, `:216`);
- bytes follow a request with Content-Length that is not answered yet: a body in two
  pieces takes too much (`:240`), a length of 0 is never complete (`:241`);
- the byte behind a uri that ends the buffer is read and passed over (`:172`), `chunk_size` is
  used unset (`:232`): `ReadPastEnd` and `UnsetSize` are the bad outcomes of these.

`TypeOK` says where a call may stand: never behind its buffer, but for one byte,
when that byte (outside, left there from before) is taken for the `?` of the uri. The
size it wraps then is where the model ends the connection's promises (`conn = "lost"`).

`RequestsAsSent` says nothing of a value with a `=` in it: `parse_string` takes what
follows the last one (`:388`), so that the cookie `d=w=` has an empty value.
Letters stand for both their cases where the code compares without case; the key
`Content-Length` is compared with it (`:223`). The type of a form is compared as a whole, where
`find_sub_value` looks for it anywhere in the header.

### HttpResponse

Takes up where `HttpConnection` ends: `waiting` requests are complete in the socket
buffer, and the handler takes them one at a time (`TakeRequest`, the loop of `data_processing`),
those behind a request that has ended the connection too. An
action answers with a text (`AnswerAction`, `ActionThrows`, `UnknownAction`); anything else is a file,
which is looked up (`Resolve`), opened and mapped (`OpenFile`), told of (`SendHead`,
`NotModified`) and copied (`CopyFile`, `CopyFaults`) in steps, since another process
may replace, overwrite, cut or remove it in between (`ChangeFiles`). The event loop
sends what the peer takes when no handler runs (`Transmit`) and ends the connection
when it was told to and nothing is left; the peer may go at any time (`PeerEnds`).
A head carries what it announces; its stamp is the inode and the modification
that `fstat` saw. Of the document roots one directory is there.

`http_response` checks, with two requests of every kind, two paths one of which is the
`index.html` of the other, two changes of the directory and lengths 0, 1, 3 and 9 where an
int has the values -4..3:

- `OneAnswerEach`: each request has one answer, in order, also those behind the last;
- `FramedAsAnnounced`: a body has the length its head announces. Excepted are files whose
  length does not fit, which `"%d"` prints negative or wrapped (`connection.cpp:57`), and
  empty ones, which `open_file` takes for unknown, -1 (`fastfile.cpp:127`);
- `OneFileAnswered`: head and body are of one file, although its name may lead to another by then;
- `EndsAsTold`: the server ends a connection if and only if an answer said so;
- `AllSentBeforeClose`, and `ConnectionEnds`: it ends when all is sent, and does end;
- `DiesOnlyOf` names what kills the process: a database error that no handler catches, an
  `index.html` that is a directory (`MAP_FAILED` is not null, `fastfile.cpp:144`), a
  file that was cut while it was mapped.

What the model has as the code has it: `If-Modified-Since` is never parsed
(`http.cpp:672`), so that a request with it may get a 304 or not; the `Connection`
header is compared literally, so that `Keep-Alive` ends the connection; a peer that closes its
sending side loses what was not sent. Two changes are enough to replace a file and to cut what replaced it,
or to remove it. Two requests are enough for one behind another that
ended the connection. Fairness: the handler runs (`Handle`), and with output
pending the peer takes it or goes away (`PeerTakes`), as TCP has it. `CHECK_DEADLOCK
FALSE`, since a connection ends.

### TaskQueue

`task_queue` (two threads, four tasks: both busy and two waiting) checks
`NoTaskOutlivesQueue` and, with fair threads, `EveryTaskRuns`. That a task runs
once is what boost::asio promises of a posted handler, not this code, and is no property.
The comment on `QueueTask` (`taskqueue.hxx:32`, "Call blocks until there is an
available thread") is not what the code does: `futures_` is never filled, so that nothing
is ever counted as pending, and the model queues without a bound.

### PgTokens

A call takes a connection (`Connect`, the `Acquire` of `ConnectionLease`), runs
its statements and gives it back (`Release`), also after an exception. What a transaction
has written is invisible to others until `Commit` (`Effect` in one step), as
read committed isolation has it; the update of a row that another
transaction has changed waits for that one (`lock`). `NOW()` is the time at which the
transaction began (`start`). `Throw` may come at any statement, and at the
commit before or after the database has done it. The token object of a thread
changes where the code changes it: before the update and the commit. Which
threads call, and with which token, is left open.

`pg_tokens` (three threads, two connections, three pairs of ids, two ticks, a lease of
one, threads and connections symmetric) checks `ReplacedExpired`, `HeldAsStored` and
`NotAllWait`. Three pairs let two threads replace the same pair at the same time, one
waiting for the row of the other while the third waits for a connection; two
ticks let them begin at different times and commit in either order.
Two successors of one pair, both of them live, are reachable: the code does
not prevent them, and no document forbids them. So are an expired token that is
refreshed (nothing in the statement asks) and `true` for a token that has no row.
`NotAllWait` is the safety part of "every call returns": with a database that
answers, the pool (`WaiterServed`) and the queue of waiting transactions in
PostgreSQL do the rest.

### CompactBinary

Sender and receiver of one connection, byte by byte. A byte of a two-byte word has
`Base` values, so that with `Base = 4` sizes wrap at 16. `Receive` takes any
number of bytes; what the dispatcher does with them is one step for each
packet and each chunk, without any new bytes between, as one thread does both.
`ReturnCall` is the loop of `compile_buffer_data`. The chunks are
those of the handlers in `server2hb-np.h`, which keep the default `SetArray`: arrays
are passed over. `content`, `sent` and `stream` are history: what was appended
and sent, in which order, and where its bytes lie in all that was sent.

`compact_binary` sends two packets of up to two chunks of six kinds (a
number of each of two widths, a string whose value looks like a signature, one of 16 bytes, a
buffer with spare room, an array) with a known or an unknown type, and perhaps one
byte that is no signature. It checks:

- `FramesAsSent` without a precondition: also packets whose size wraps, or whose
  chunks lie about their length, do not shift the packets behind them;
- `ChunksAsAppended` for packets that fit (`Fits`). Those that do not lose values,
  as the code has it: lengths and sizes are cut to two bytes, and
  `AppendChunkBuffer` announces `get_fill_size` bytes and appends
  `get_full_size` (`compactbinary.cpp:141`). Numbers are compared turned
  round (`TurnRound`), since they are appended in the order of the host and read in
  that of the network (`compactbinary.h:102`, `compactbinary.cpp:52`), on a host that
  has the lesser byte first;
- `NoneLeftInBuffer` until a byte that is no signature comes where one belongs:
  behind it the connection is stuck (`compactbinary.h:193`), which the model shows too.

`TypeOK` is more than types here: `at + left <= ptr` says that the parser stays in its packet.

## What is proved

All theorems hold for every value of the constants that satisfies the named
assumptions. Each comes from an inductive invariant `IInv` with `Init => IInv`
and `IInv /\ [Next]_vars => IInv'`.

- `SessionStoreProofs`: types, `InUseNotReaped`, `TableMatchesMap`,
  `RowFollowsEntry`, `LoginKept`, `LogoutFinal`, `SweepComplete`, the action
  property `NeverForgottenEarly`, and `Spec => ServiceSpec`. The invariant adds what each thread knows in
  the middle of its operation: the clock it read is not ahead (`ClockInv`), ids in
  use were used (`UsedInv`), a process that is down holds nothing
  (`DownInv`), the session a handler extended is good until the handler
  ends (`LeaseInv`), the iterators and copies of the sweep live from the turn that found
  a session to its erase (`HeldInv`), the entry the sweep has condemned is still expired or is
  gone, and gone for certain when its node is another's (`DoomedInv`), a session that was taken away is
  not in the map and its row ends no later (`GoneInv`), keys behind an iterator that did not
  stray are clean (`SweptInv`),
  a row is out of step only while an operation is pending on it (`PendingInv`).
  That a session in use is never the condemned one (`InUseApart`) leaves the memory of
  an erased node as the only way to lose it.
  The refinement has one lemma for each action, which names the step of
  `SessionService` it is; `StoreInv` adds what those steps ask for.
- `DbPoolProofs`: types, `PoolConserved`, `NoLostWakeup`, and `Spec => LeaseSpec`. A thread has a
  connection exactly between pop and push, and a waiting thread is nowhere
  else; with these, pop and push move one connection between queue and thread, which is
  `Acquire` and `Release` of the lease. For `NoLostWakeup` the threads that will look at the queue
  (`Lookers`) are counted: a step adds a free connection only with one more of them, and
  one goes away only with a connection, or when another was woken in its place.
- `ServerProofs`, of the lifecycle: types, `LoggerOutlivesThreads`, `EndsOnlyWhenTold`
  and `NoLoopOnFreedBase`: where each thread stands
  fixes what the others have done, and the state of the base.
- `TokenCacheProofs`: types, `KeysAgree` and `AnsweredPairWorks`. The invariant says that both keys of a
  pair lead to one object or none (`PairedInv`), that the object has these ids or is the one
  being renewed, whose keys are those of the previous pair (`LeadInv`), and that
  the pair being made has no key (`FreshInv`). `AnsweredPairWorks` needs more (`AInv`): a client knows
  pairs that were made (`ToldInv`), all copies of a pair in memory and redis are the same (`SameInv`), and
  redis keeps what was told for as long as it lasts (`KeepInv`). Types need that
  redis keeps nothing for longer than the longest lease (`TimeInv`, `PastInv`).
- `HttpResponseProofs`: `TypeOK`, `OneAnswerEach`, `FramedAsAnnounced`, `OneFileAnswered`,
  `EndsAsTold`, `AllSentBeforeClose`, `DiesOnlyOf`. The invariant says what the handler has
  where it stands (`ShapeInv`), that names lead to inodes that were written (`DirInv`), that the open
  file and each head tell of a modification that took place (`FileInv`, `StampInv`), that a
  body is missing only between the head and the copy (`FrameInv`), which requests have their
  answer (`OrderInv`), that a head has told of an end that comes (`EndInv`), and
  that what a handler made is still to be sent (`SentInv`), without which the
  connection could be leaked.
- `ServerProofs`, of the task queue: types, `NoTaskOutlivesQueue`.
- `HttpConnectionProofs`: `TypeOK`, `RequestsAsSent` and `NoneLeftInBuffer`, for every set of
  well-formed requests of any length, any number of them and any cuts. A call stays in its buffer because
  `get_chunk` finds nothing beyond the text it is given, and the one read that is not its own, of the byte
  behind a uri, is the only one that leaves it (`Loses`, `LostInv`); buffer and wire are, byte for
  byte, what the client sent behind what was processed (`StreamInv`). Where nothing went wrong
  (`joined`), the parser stands between two requests or at the place in one that its
  stage tells, with what stands before that place read (`PlaceInv`: `InUri` ... `InBody`), no line
  end is cut where the bytes end now (`PieceInv`), and what was handed on is what was sent
  (`OutInv`). The layout of a request (`EncodeIs`) gives where each field begins and which
  sign ends it, so that each search finds the field or, if it finds nothing, the
  request goes on beyond what has arrived (`StillToCome`): hence a connection that waits
  has no complete request (`WaitInv`). That `parse_string` reads the pairs that were
  written is a lemma of its own (`PairsRead`), for parameters, the join of a form to
  them (`ParamsSent`, with its three cases of how the parameters end) and cookies.
  What `FlattenSeq` and `LengthIn` compute is had without induction over data: a function of the
  prefixes exists for each length, since there is no least length without one (`Growing`, `Counts`, `Least`).
- `PgTokensProofs`: types, `ReplacedExpired`, `HeldAsStored` and `NotAllWait`. The invariant adds what
  each call knows where it stands (`CallInv`), that ids are made once, so that an
  uncommitted row has a pair no other transaction and no row has, and that the calls
  under way leave the bound on pairs (`BoundInv`). `NotAllWait` needs who holds what
  where (`WaitInv`): who has locked a row has only its commit left.
- `CompactBinaryProofs`: `TypeOK`, for every `Base`, every set of chunks and every
  sequence of bytes, and `FramesAsSent`, `ChunksAsAppended` and `NoneLeftInBuffer`. The invariant
  says that the packet being built is its chunks, one behind the other (`BuildInv`), that all
  that was sent is packets, one behind the other, each with its size and type where the receiver
  looks for them, until a byte that is no signature comes (`StreamInv`), that buffer and wire are the end of it (`BufferInv`), and where
  in it the receiver stands (`PlaceInv`): between two packets
  with as many commands called as were sent before (`Between`), or in a packet, behind one of its chunks
  if it fits (`Inside`). No recursion over the data is needed: each
  entry of the history tells its end and its number.

The assumptions on constants say no more than that sets are disjoint, bounds are numbers,
leases have a longest one (`TokenCacheAssumption`) and threads are finitely many
(`DbPoolAssumption`), and `MaxRequest < ShortLease` for the sessions. For
`HttpConnection` the requests are well formed (`FormsAssumption`, which TLC evaluates for
the seven forms of the run).

The types of the other modules (`TypeOK`) are proved only, and in no cfg; those of
`HttpConnection`, `HttpResponse` and `CompactBinary` say more than types and are model-checked too.

Only model-checked: all liveness (`StopCompletes`, `WaiterServed`, `TermStops`, `EveryTaskRuns`,
`ConnectionEnds`): fairness and ENABLED are outside what the provers
handle. Every invariant that a run checks is a theorem.

## Plan

What is left, in this order:

1. `find_sub_value` and `get_multi_part` as functions of a body, checked against the parts
   a client encoded, and that the loop ends.
2. `fastfile` opened for writing and grown, and `auto_buffer_t` with its capacity.
3. The statements of `sqlite3.cpp` and `mysql.cpp`: prepared, bound, stepped, reset and
   finalized in the order their users call them.
4. `CompactBinary` with nodes of arrays, for applications that override `SetArray`.
5. `PgTokens` with the pool itself in place of `ConnectionLease`.

## Not modelled

- *Unicode tables* (`src/unicode`): four generated tables, about 20 000 lines, more than two thirds of
  the implementation, and conversions of single characters. A model of a
  table would be the table.
- *SQLite and MySQL wrappers*, *mail*, *geoip*, *STOMP*: calls of client libraries and
  formatting. What the session store does with its SQLite statements is in `SessionStore`.
- *Configuration, logging, profiling, utilities, i18n*: conversions, with no state that changes while
  the server serves.
- *Multipart bodies*: `get_multi_part` is a function of a body that only an application
  calls.
- *Files open for writing* (`set_length` of `fastfile.cpp`): nothing in the library opens one so.
- *Memory*: the growth of `auto_buffer_t`; a failed `realloc` is a TODO in the code.
- *Array nodes* of the compact binary protocol (`compactbinary.cpp:97`): the default
  `SetArray` returns none, and no class of the library overrides it.
- *Two connections of one thread* (`postgres.h:71`): no path of the library nests two leases; an
  application that does can block all threads.
- *Users, roles, texts* (`s2hb-storage.cxx`): single statements, with nothing between two of them.
- *The Windows service and console*: another platform's path.
