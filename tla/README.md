# HttpServerDebug in TLA+

HttpServerDebug embeds an HTTP server in an iOS app, so that a browser on the
same network can look into the app: its sandbox, its databases, its view
hierarchy, its console log. This directory holds TLA+ models of the parts of
it that are hard to test, the TLC configurations that check them on small
instances, and proofs, checked by TLAPS, of what they promise for any instance.

Paths below are relative to `src/`; `Core/` stands for
`Classes/Others/WebServer/Core/`, `minizip/` for
`Classes/Others/ZipArchive/minizip/`.

## 1. Inventory

| component | source | state | operations | modules |
|---|---|---|---|---|
| **HSDGWebServer** | `Core/HSDGWebServer.m` | options, listening source, `_connections`, `_activeConnections`, `_connected`, disconnect timer, background task | start, stop, enter background or foreground, accept, a connection starts or ends, connect / disconnect / stopped blocks, timer, expiration | `ConnectionSeries`, `WebServer` |
| **HSDGWebServerConnection** | `Core/HSDGWebServerConnection.m`, `Core/HSDGWebServerRequest.m`, `Core/HSDGWebServerResponse.m` | socket, request with its body writer, response with its body reader, what was read and written | read headers, 100-continue, read a body by length or by chunks, run the handler, write headers, body and last chunk, abort, close, hand over to a WebSocket | `HTTPExchange`, `Connection` |
| **HSDGWebSocket** | `Core/HSDGWebSocket.m` | read source and its suspension, `socketFDBytesAvailable`, `isReadSourceSuspended` | handshake, data event, read, decode a frame, send, close | `MessageStream`, `WebSocket` |
| **Console log** | `Classes/Core/Component/HSDConsoleLogComponent.m`, `Classes/Handler/HSDWebSocketHandler.m` | saved stderr, STDERR_FILENO, pipe, observer, completion block | redirect, recover, read the pipe | `ConsoleLog` |
| **HSDManager, control panel, host name** | `Classes/Core/HSDManager.m`, `Classes/Core/HSDHttpServerControlPannelController.m`, `Classes/Core/Component/HSDHostNameResolveComponent.m` | the server, the auto start setting, the panel's switch, `isResolving` | start, stop, auto start, Started and Stopped notifications, resolve and its delegate callbacks | `Manager` |
| **Multipart forms** | `Classes/Others/WebServer/Requests/HSDGWebServerMultiPartFormRequest.m` | parser state, data kept, arguments, files, temporary files | open, write, close, release; nested parsers | `MultiPart` |
| **File explorer, preview, upload** | `HSDFileExplorerComponent.m`, `HSDFilePreviewComponent.m`, `HSDComponentMiddleware.m`, `HSDGWebServerFileResponse.m`, `HSDZipArchive.m` | the app's files, temporary files and archives, the offset and the bytes left of a response | list, delete, upload, archive a directory, send a file or a range of one | `ByteRange`, `Files` |
| **ZIP archives** | `minizip/HSDzip.c`, `minizip/HSDioapi.c` | the stream, the entry being written, the output buffer, the central directory, the current disk | open, open a new entry, write, close an entry, close; change disk; find the end of the central directory | `ZipFormat`, `Archive`, `ZipWriter`, `ZipSpan`, `ZipOpen` |
| Other request bodies | `.../Requests/`, gzip decoder in `Core/HSDGWebServerRequest.m` | a file or data | open, write, close | in `Connection`, as writers |
| Other response bodies | `.../Responses/`, gzip encoder in `Core/HSDGWebServerResponse.m` | offset, remaining size | open, read, close | in `Connection`, as readers |
| Database inspection | `HSDDBInspectComponent.m` | none | one query per request | no |
| View hierarchy | `HSDViewDebugComponent.m` | none | traverse, snapshot | no |
| Send info | `HSDSendInfoComponent.m` | none | put text on the pasteboard | no |
| HSDGWebServerFunctions | `Core/HSDGWebServerFunctions.m` | none | dates, URLs, headers | no |
| Browser pages | `Resources/HttpServerDebug.bundle/web` | what is shown | requests and their replies | no |
| FMDB, web libraries | `ThirdParties`, `web/libs` | | | no: vendored |
| Sample app | `Sample` | | | no: an example of use |

How they interact. `HSDManager` owns one `HSDGWebServer` and starts and stops it
on the main thread; the control panel follows by notifications and resolves the
server's address a second later. The server's dispatch source accepts sockets
and makes a `HSDGWebServerConnection` of each, which calls `willStartConnection:`
and `didEndConnection:` back; these count connections under `_syncQueue` and post
blocks to the main queue, where the server keeps its *connected* state, its
disconnect timer and its background task. A connection reads and writes with
completion blocks on global concurrent queues. It feeds the request's body to a
body writer (a multipart parser among them), calls the handler,
`HSDRequestHandler`, and sends what a body reader (a file response among them)
gives; or it hands its socket to an `HSDWebSocketHandler`, the only subclass of
`HSDGWebSocket`, which calls `webSocketDidClose` back. Opening and closing that
WebSocket redirects and recovers stderr through the one console log component of
the app, whose lines come back on the main thread. The handler's components work
on the app's files; a directory is sent as an archive, which `HSDZipArchive`
writes with minizip.

What is hard in it:

- the main thread, the accept handler, the cancel handler and every connection
  interleave, and the connected state follows the connections through a queue;
- `_stop` blocks the main thread on a dispatch group;
- iOS suspends the process in background unless a background task is held;
- a connection is a chain of completion blocks, any of which may fail, with a
  body reader or writer to release on each way out, over a byte stream that the
  network cuts anywhere;
- the WebSocket's event handler and its read completion share flags without a
  lock and run on concurrent queues;
- the console log is shared by sessions that open and close on other threads;
- notifications and resolver callbacks arrive after what they tell of has changed;
- requests work on the same files at the same time, and the app goes on using them;
- a zip archive is written through a buffer, with offsets and sizes that reach the
  marks of their fields, on a file system that may fail at any write.

`PROJECT.json` lists these hazards one by one, each with its line and with the
properties that cover it, or with the reason why none does.

## 2. Modules

| module | what it is |
|---|---|
| `ConnectionSeries` | abstract: what a delegate of HSDGWebServer may rely on |
| `WebServer`, `MCWebServer` | the state machine of HSDGWebServer; option dictionaries for TLC |
| `WebServer_proofs` | types, the inductive invariant, what follows from it, the refinement |
| `HTTPExchange` | abstract: what the author of a handler, request or response may rely on |
| `Connection`, `MCConnection` | the state machine of one HSDGWebServerConnection; clients and responses for TLC |
| `Connection_proofs` | the inductive invariant, what follows from it, the refinement |
| `MessageStream` | abstract: what a subclass of HSDGWebSocket may rely on |
| `WebSocket`, `WebSocket_proofs` | the read pump of HSDGWebSocket; its invariant and the refinement |
| `ConsoleLog` | stderr redirection driven by WebSocket sessions |
| `Manager` | HSDManager, the control panel and the resolver |
| `MultiPart`, `MCMultiPart` | the parser of multipart forms; forms for TLC |
| `Components_proofs` | the invariants of these three, which share no variable, and what follows from them |
| `ByteRange` | how a Range header is read and clamped to a file |
| `Files`, `MCFiles`, `Files_proofs` | requests on the app's files; extends `ByteRange` |
| `ZipFormat` | what an archive is made of, and how its directory is found |
| `Archive` | abstract: what the zip writer promises its caller |
| `ZipWriter`, `MCZipWriter`, `ZipWriter_proofs` | the zip writer on one disk; uses `ZipFormat`, implements `Archive` |
| `ZipSpan`, `ZipSpan_proofs` | the zip writer across disks |
| `ZipOpen`, `MCZipOpen`, `ZipOpen_proofs` | zipOpen4 step by step on existing files |

In every module a variable is named after the property or instance variable it
stands for where there is one, and an action after the method, function or block.
An operator whose name has an underscore, such as `CancelHandler_NoWait`, is a
plausible mistake in the definition that follows it; the property it breaks is
named in `PROJECT.json` under "mutants". They show that each property depends on
the code and are no part of the specifications.

### WebServer and ConnectionSeries

Actors: the main thread (`Start`, `Stop`, `EnterBackground`, `EnterForeground`,
`RunBlock`, `TimerFires`, `ExpireBackgroundTask`), the event handler of the
dispatch source (`Accept`, `WillStartConnection`, `AddConnection`: accept,
`initWithServer:` and the registration interleave with everything else), its
cancel handler (`CancelHandler`), and the connections (`DidEndConnection`,
`Dealloc`). A method of the main thread runs in one step, except that `_stop`
blocks in `dispatch_group_wait`: `main` says who called it, and `FinishStop` is
the rest of `_stop` and of its caller. `mainQueue` holds the blocks posted to the
main queue. A block run by `dispatch_sync` on `_syncQueue` is one step. `aborted`
is set where a `GWS_DCHECK` or `GWS_DNOT_REACHED` fails.

Assumed: the application state and the notification of its change are one step
of the main thread; start and stop are called on the main thread; the hook `open`
of a connection returns YES; there is no delegate. Left out: Bonjour,
authentication options, handler registration.

`ConnectionSeries` has the connected state as HSDGWebServer.h:258-286 describes it
to a delegate: connections come in series, whose beginnings and ends are told one
by one. The mapping counts the open connections and the connect blocks on the main
queue (series begun and not told), and takes `disconnectTimer` for the grace that
holds back the end of a series.

### Connection and HTTPExchange

One connection, whose client sends `HeaderLen` units of headers and then the
units of `client.body`. `stage` names the operation whose completion block runs
next; an action is that block up to the next asynchronous call, including
everything it closes or releases on the way. A read returns any non-empty prefix
of what is there, nothing once the client has shut its side down, and fails after
a reset; a write fails after a reset; opening, reading, writing and closing a body
may each fail. In a chunked body a unit is a size line, content with its CRLF, the
last chunk's line, the end of the trailers, or junk.

Assumed: units arrive whole (a size line cut in two is read on until it is
complete, as by the code), the handler calls its completion block once, a
response body is finite (`MaxData` blocks). Left out: header fields, the gzip
coders, the testing hooks.

`HTTPExchange` has the phase of the exchange, the writer and what was written to
it, the reader, the answer, the socket and how often its end was told. The mapping
keeps the variables of the same meaning and derives the phase from `stage`
(`PhaseOf`).

### WebSocket and MessageStream

`SourceFires`, `CheckAvailable`, `SuspendSource` and `SetSuspended` are
`doReadData:`, one step per statement that touches shared state. `ReadCompletes`,
`HandleFrame`, `CheckFlag`, `ResumeSource` and `ClearAvailable` are the completion
block of the read. Several reads may be in flight as far as the model is
concerned (`Readers`); that there is never more than one is a property. Frames
arrive whole; what the code does with half a frame is read beyond the data and is
not modelled. `crashed` is a process that resumed a source that was not
suspended or dereferenced the nil data of a failed read.

`MessageStream` has three variables: what the client sent, which of it was
delivered, whether the WebSocket is open. The refinement mapping keeps the first
two and takes `socket = "open"` for the third.

### ConsoleLog

A session opens (`DidOpen`, `CheckRedirected`, `SaveStderr`, `RedirectStderr`,
`ObservePipe`) and closes (`DidClose`, `CheckRecover`, `RemoveObserver`,
`CheckSaved`, `RestoreStderr`, `ForgetSaved`), one step per statement on shared
state, on threads of its own, overlapping with the others in any way. The main
thread is notified of a read (`Notify`, where the observer is matched and the data
is there), calls the block there is by then (`SendLines`) and starts the next read
(`ReadAgain`); `Log` is the app writing a line. A file descriptor is represented by
the file it refers to. `clash` remembers that two calls overlapped, or a session was
closed before it was opened: `Recovered` is about the states before. Reads end
between lines; one that ends within a character is decoded as nil (line 44), and what
becomes of it is not modelled. Nor are the accesses of two threads to the unlocked
`readCompletionBlock` in the same instant, which are undefined: a step reads or
writes it whole.

### Manager

Everything runs on the main thread, so an action is one call: a launch, a start or
stop by the app or by the switch, a panel created, loaded or closed, a block of the
main queue, the timer, a callback of a resolver. `server` is `"failed"` after a
start that returned NO. Callbacks come whenever they like, also from a resolver
that was replaced (`DidStopLate`): the resolve in its place is then let go, and no
property promises that an address is ever shown. Left out: the choice of port and name, the
handlers, the text of the log view.

### MultiPart

`WriteData` is one call with any next piece of the form, and all the parser does
with it: the search for boundaries and headers, what it passes on, what it keeps.
`Open`, `Close` and `Dealloc` are the rest; the connection may be lost at any time,
and a temporary file may fail to open or to be written. `_parseData`, which calls
itself once for every boundary in the data, is a function of the number of calls
that may follow (`ParseOuter`, `ParseNested`), each of them one `TurnOuter` or
`TurnNested`. A nested form has a parser of its own, run from within; when it is
released its temporary file is unlinked. Two things are not followed, and a state
that reaches them is marked `beyond`: a form nested in a nested one, and a boundary
with fewer than two bytes in front of it, where the length of the content wraps
(line 238). Bytes are tokens; the header lines of a part are one
token that says what the part is, between tokens of their line ends, so that a cut
falls anywhere around them.
What was sent is not left to the forms of an instance: a form comes with its layout,
the place of the boundary behind every part and the arguments and files up to there,
and `WellFormed` says what makes a layout that of the bytes. Between two boundaries
lie the headers of a part and its content, in which the boundary does not occur
(`LaidOut`); a part adds its content to the arguments or the files (`IsOwn`), or is a
form in itself, of which the parts count (`IsNested`). `PartsAsSent` is about those
forms, of whatever contents; that a form is accepted only when it is whole is about
all. `MCMultiPart` computes the layouts of its forms; 18 of its 31 are well-formed.
`BufferBounded` is about the files of the form itself. As long as the boundary of a
file has not come, it holds for every form. Once it has, only for well-formed ones: a
file that contains its boundary with something else behind it is not passed on any
more (line 235), and all that follows stays in memory.

### Files and ByteRange

Each request is a sequence of calls of NSFileManager, one action each, with other
requests and the app (`AppResizes`) in between: the check that a path exists, the
listing and the attributes of each name, the move of an uploaded file to its place,
an archive that is created, filled and read back, a file that is opened, of which
the size is taken and a range is read in chunks. Two directories have the same
name, as the temporary archive of a preview is named after that alone. `ByteRange`
has the Range header as its numbers, what HSDGWebServerRequest makes of them
(`Parse`) and what HSDGWebServerFileResponse serves of a file (`Clamp`).

### The zip modules

`ZipWriter` is one caller that opens, writes and closes in any order; a step is
what the code does between two writes to the stream. A cell stands for a header, a
record or a block of data, so offsets count cells; the marks of the 16 and 32 bit
fields are small (`Max16`, `Max32`), so that offsets, sizes and numbers of entries
reach them. Every write may fail, having written all, some or part of its cells.
The compressor gives out what it likes when it likes; its end is a block of its own.
`Archive` is what a caller sees: one call and one open entry at a time, an entry
that grows and is counted once, errors that are told. The mapping takes the number
of entries from the directory in memory or, without a handle, from what a reader
finds in the file. The size of the directory is taken modulo 2^32, as by the code
(HSDzip.c:1761); the run does not come to the wrap, the proofs do. A cell stands for
a whole record, so in bytes it comes with fewer entries. Global comments are not
modelled in the writer: HSDZipArchive passes none (HSDZipArchive.m:181), and the one
of an archive that is added to is read in `ZipOpen`.

`ZipSpan` has the sizes only: which disk a header, a block or a descriptor goes to
when disks are limited. The code has no bound on the disks: their number is a uint32
that wraps (`Numbers`), the end record has its last 16 bits (`Short`), and the name
its first two digits (`TwoDigits`, HSDioapi.c:171), so that disks from the 100th on
have the files of earlier ones (`DiskFile`). Hence two exceptions of `OthersUntouched`,
which is about what the archive holds: a disk that is there and cannot be opened is
created anew when adding, and a new archive overwrites its own first disks when names
are cut. A call may not return when every file that a number can name is full
(`NoRoomAnywhere`).

`ZipOpen` has the bytes of a file that is opened: the
backward search window by window, records cut short, the blocks of the directory,
the comment, and what is released when one of the calls fails; `ZipWriter` takes its
result in one step (`Directory`). A position of UINT32_MAX is an error to functions
with 32-bit offsets (`Tell`), and sums wrap as a uint64_t does (`Wrap`).

## 3. Runs

| run | configuration | shows |
|---|---|---|
| `webserver` | 3 connections, 3 option dictionaries, 3 blocks on the main queue | no assertion fails; the connected state, the background task and the registered connections are right; `ConnectionSeries` implemented; `_stop` returns, an idle server gets disconnected |
| `connection` | 14 clients, 5 responses | the body reaches the handler in order and within its length; one answer of the right shape; `HTTPExchange` implemented; a client that shuts down gets an answer, a response with a body ends the connection |
| `websocket` | 4 frames, 2 reads | one read at a time, none on a closed descriptor; `MessageStream` implemented |
| `console` | 2 sessions that overlap in every way, 2 lines in each pipe | stderr recovered unless calls overlapped, the lines of a pipe sent in order and consecutive ones to each session, an observed pipe is read |
| `manager` | 2 starts, 2 panels, 4 resolves | the switch follows the server, one service resolves at a time, the last resolve asked for is of the server that runs |
| `multipart` | forms of up to two parts, nested ones, cut in every way, one fault | parts as sent, a file kept in memory no further than its boundary requires, no temporary file left |
| `files` | 2 requests, 2 directories, 2 names, one resize, one fault | uploads kept, listings and archives whole, no temporary file left, the range asked for |
| `zip_writer` | 2 entries, 2 opens, one fault | the buffer fits, the directory describes the entries, a reader finds them, errors are returned, `Archive` implemented |
| `zip_span` | 8 numbers of disks, names of two binary digits, 3 entries, 2 opens, 2 faults | headers where they were recorded, what other disks hold untouched but by a failed open or a cut name, every call returns unless every file that can be named is full |
| `zip_open` | 137 files and none at all, one fault | the last end record found, the directory read whole, the comment read from behind the end record |

and, each on the smallest instance that shows it, where a statement of the
documentation and the code disagree:

| run | statement | what the code does |
|---|---|---|
| `connection_received` | HSDGWebServer.h:46: the process block is called after a request was fully received | a last chunk read before its trailers makes `readNextBodyChunk:` loop without reading |
| `websocket_ready` | HSDGWebSocket.m:386: "prepare for the next read event" | a message handled before a second event came leaves the next event nothing but to suspend the source |

`CHECK_DEADLOCK FALSE` is set where the system really stops: a connection that
has ended, a client that has sent all it will, sessions, requests or starts that
are over. The other configurations check for deadlock; `ZipWriter`, `ZipSpan`,
`ZipOpen` and `MultiPart` name the state in which nothing is left to do as an action
of its own.

### Seen while modelling

The properties say what the code does promise, so the following have no run of
their own. Each is in the models, as a state or step that the properties have to
except, or in the code next to them.

- Server: a connection accepted just before the app enters background has no task
  yet, and the server suspends with it open (HSDGWebServer.m:623); one that ends
  before it is registered stays in `_connections` (:470); `isRunning` stays YES
  while the server is suspended (:665); a server that failed to start is kept, and
  stopping it hits the assertion of `-stop` (HSDManager.m:172).
- Connection: a body whose read fails is closed and processed like a whole one
  (HSDGWebServerConnection.m:253); responses without a body and aborted requests
  leave the socket open (:209-226); a WebSocket that closes inside
  `initWithServer:requestMessage:socket:` has no delegate yet to tell (:325).
- WebSocket: `isReadSourceSuspended` is never reset, so that a later message resumes
  a source that runs, which aborts the process (HSDGWebSocket.m:387).
- Console log: calls that overlap, or a session that is closed before it has
  redirected stderr, leave it redirected (HSDConsoleLogComponent.m:63-97); a session
  that closes ends the log of the others (:90); a read matched before its pipe was
  given up goes to the next session (:46).
- Multipart forms: the failure to write the last piece of a file is overwritten by
  the success of what follows (HSDGWebServerMultiPartFormRequest.m:271), and its
  temporary file stays (:260); a file that contains its boundary followed by
  something else is kept in memory from there on (:235).
- Files: of a file that shrinks while it is sent the rest is sent as zeros
  (HSDGWebServerFileResponse.m:168); a reversed range is served as an open one;
  previews of directories of the same name share a temporary archive
  (HSDFilePreviewComponent.m:124); results of the zip writer are ignored
  (HSDZipArchive.m:126-127, 170-173), and `isDir` keeps the value of the file before
  for one that vanished (:72-74).
- Zip: the size of a directory is recorded modulo 2^32 (HSDzip.c:1761); 65535 entries or more without a zip64 record are written as 65535
  (:1841); the zip64 record makes a close forget an earlier error (:1776); a
  zip64 archive behind something else is not found again, its locator being relative
  (:584, 1643); the fields of a local header may not fit the disk they were given
  (:964); some paths of zipOpen4 leave the stream or blocks behind (:647-648,
  836-843); reading behind the end of a file yields values (:330); with 32-bit
  functions nothing is found in a file of exactly UINT32_MAX bytes (HSDioapi.c:61),
  and where nothing is found the start of the file is read as an end record, so that
  a file that starts with a stored entry may pass for an empty archive; behind a
  zip64 record the comment is read from the wrong place (:780).
- Disks of a zip: adding creates anew a disk that could not be opened (:465-466,
  490-491); numbers of more than two digits are cut (HSDioapi.c:171); adding to an
  archive of which every disk that can be named is full does not end (:487-500).

### Bounds, and why they are enough

- `MaxMain` (WebServer): nothing new is posted while this many blocks wait. Three
  are enough for a disconnect, a stopped and a connect block to be pending
  together, hence for every order the connected state can be passed on in;
  `WebServer_proofs` has no bound: it holds for every value of `MaxMain`.
- three connections: one ended but not released, one open, one in the accept
  handler.
- clients: every kind of request line and header the code branches on; bodies
  shorter than, equal to and longer than the Content-Length; chunked bodies that
  end well, with junk in place of a size line and of the last chunk. Two units of
  content and two of headers let a read end inside either and run over from one
  into the other.
- four frames: the read pump's flags take two events and two reads to go through
  every combination; the other two come after it.
- two sessions: each step of one falls between any two of the other; the proofs are
  for any number. Two lines in a pipe, so that it is read in pieces.
- two starts and two panels: a panel can be closed and opened between a start and
  the block it posted, and the server stopped and started again before it runs.
  Four resolves: the last can be replaced by one whose predecessor's stop is late.
- forms: a part longer than the data the parser keeps, contents that are the start
  of a boundary, a nested form; every cut of each. Forms are nested once, so that the
  parser of a part and the one of its form are both there. One other byte
  (`Letters`): the parser tells none of them apart. The proofs hold for every set of
  forms and of letters.
- two requests: each property on files is about one request and one other that
  comes in between; a third would have to be an upload or a removal, which the
  other may be already.
- zip: two entries and two opens, so that an archive is added to; buffer, blocks and
  fields are so small that two entries pass every mark. Disks have eight numbers,
  two bits in an end record and two binary digits in a name, so that a call can go
  past the names that are told apart (100 in the code), past the wrap of a number,
  and come to an archive without room anywhere.
- one fault: what follows it is what the code does after any fault; `ZipSpan` has
  two, as a disk can fail while another is being completed.

### Fairness

- `WebServer`: weak fairness of the cancel handler, of the accept handler and of
  the rest of `_stop`, and strong fairness of the main queue, the timer and the
  expiration handler, because the main thread may be blocked in `_stop` again and
  again while its run loop serves its sources in turn. All of it only while the
  process is scheduled: in foreground, or with a background task. None of accepting
  connections, of connections ending, or of what the user does.
- `Connection`: weak fairness of the server's completion blocks, none of the
  client, none of a WebSocket closing.
- `ConsoleLog`: weak fairness of the main thread: of reading each pipe on its run
  loop, and of the two steps that handle a read.
- `ZipSpan`: weak fairness of the steps of a call, which is one thread that runs; of
  no fault.
- `WebSocket` has none: what its code guarantees is safety only, as
  `websocket_ready` shows. `Manager`, `Files`, `MultiPart`, `ZipWriter` and `ZipOpen` state
  safety only: what they do ends because it is a walk over finite data.

## 4. Proofs

`WebServer_proofs`. `TypeCorrect` is inductive by itself. The rest needs that the
blocks waiting on the main queue explain how the connected state the main thread
knows becomes the one the connections are in: there is a sequence of Booleans,
one before and after each block, from `connected /\ ~disconnectTimer` to
`activeConnections > 0`, that each connect block raises, each disconnect block
lowers and a stopped block leaves alone (`QueueOK`). A post extends the sequence
at its end (`PostExplained`), running a block drops its beginning
(`RunExplained`); hence a connect block always finds the server disconnected or
with its timer pending. With the counting of open connections and the relation
between the source, the main thread and the accept handler this is the inductive
invariant `IInv`. From it: no assertion fails (`NoAssertionFails`), the connected
state is right when the queue is empty (`ConnectedTracksConnections`),
`BackgroundSafety`, `AcceptSafety`, and `Refinement`: every step is a step of
`ConnectionSeries` or a stutter, the connect blocks being its series not yet told.

`Connection_proofs`. `IInv` says for each stage what its completion block may rely
on: what was read, parsed, written and sent so far. Proved for any clients,
responses and lengths: `EndsAtMostOnce`, `BodiesReleased`, `BodyDelivered`,
`OneAnswer`. `BodyDelivered` is the one where an interval of units moves from the
network to the writer; the lemmas `SizedDelivered` and `ChunkDelivered` state
that such a move keeps content in order. `Refinement`, of `HTTPExchange`, has one
lemma per action, from the same invariant.

`WebSocket_proofs`. `socketFDBytesAvailable` is the lock of the read: it is set
when a read is started, and reset only after the read's own message was handled
and the source resumed. The invariant adds that the event handler runs only while
the source is not suspended. From it: `ReadsAreSerial`, `NoReadAfterClose`, and, as
a step is either a step of the stream or leaves it alone, `Implements`.

`Components_proofs`. Of `ConsoleLog`: the lines of a pipe go from the pipe by way of
the read at hand to the sessions, and while the pipe is observed none is lost
(`FeedOK`); a session takes the block over once, and a block that was replaced never
comes back, so that what a session was sent is consecutive (`BlocksOK`). This needs
nothing of how calls overlap, and `EveryLine` follows. `StderrRecovered` rests on
`CallsOK`, which the invariant has only until two calls overlap (`clash`): one call
runs at a time, where it has got to determines stderr, the saved file and the
observer, and a file is saved only while some session is open. Sessions may overlap,
calls not; nothing in the code keeps them apart, and the theorem says nothing of what
comes after.

Of `Manager`, whose specification is `ManagerSpec` so that one module can hold
both: the invariant `Follows` says that the last block on the main queue that is for the
panel on screen tells what the server is now, and that without one the switch does;
a post extends the queue at its end, running a block drops its beginning. `SwitchFollows` is the
case of an empty queue. `AsksForServer` follows a start through the queue and the
timers: as long as the last resolve was not of the server that runs, a loaded panel
has the block or the timer that will ask for it (`StillToAsk`). `OneResolves`: the
service is the last one asked for until its stop, or one taken for it, lets it go.

Of `MultiPart`: the invariant `FormInv` says what a parser holds between two pieces.
The temporary file of a part is the one that is open, whichever of the two parsers
has it; unless a write has failed (`Leaky`), the files on disk are those of the form
and this one (`Holds`, `Keeps`); and a parser in the contents of a file keeps no more
than may be the start of its boundary or, where that has come, stops at one of which
it cannot be seen yet what follows (`Bounded`, that is `Few` and `Waits`). One call of `_parseData` keeps
this (`TurnKeeps`), given that what it does to the part at hand does (`EndOwnKeeps`,
`PassOwnKeeps`, `StartPartKeeps`), and takes a boundary from the data if it makes
another. As a boundary has bytes, there are at most as many calls as there is data:
that the functions over the calls are what their equations say is `RunExists`, that
they keep the invariant is `RunKeeps`, both by the least number where it would not be
so. First for the parser of a nested form, which is then one of the steps of the
parser around it. From it, for every form, every cut and any number of failures:
`FormLeavesNothing`.

`PartsFound` states `PartsAsSent`, of every form and every cut. Its invariant,
`FormTrack`, was first checked by TLC. While no operation has failed, a parser is at
a place in a well-formed form (`IsAt`): it has taken `c` of the `g` bytes it was
given, keeps exactly those between the two, and awaits the boundary behind part `i`;
what was found so far is what was sent in front of part `i`, and the temporary file
of the part has its content up to `c` (`HasOwn`). Of a nested form the same is said
of its own parser, in the bytes of the part (`HasPart`). Three things have to be
shown. The search finds the next boundary as soon as it was given whole, and not
before, wherever the data begins in the part, because the parser never takes a byte
that may belong to it (`Search`, `TailIs`, `SureIs`). Each operation leads from
place to place: the headers (`HeadersFollow`), the end of a part and what is passed
on of it, for a part of either sort (`PartEnded`, `PartPassed`), hence one call and
all of them (`TurnFollows`, `ParseNestedFollows`, `ParseOuterFollows`), and no call
fails. And when nothing is left to do, the parser waits for bytes it was not given
(`Through`), so that one that was given all has come to the end and found all
(`AllOfIt`). That what was found is at all times a beginning of what is found in all
is `FormGrows`. `FilesAreWritten` takes `Few` from the first invariant, for every form
and failure; that of a well-formed form no more is kept behind the boundary than part
of a line end follows from both, as the boundary that is awaited is the one found
(`LineAwaited`). For the other half of the property nothing is assumed of the form or
of what failed: the data a parser keeps are the last bytes it was given
(`Suffixed`), whatever it does, so a final boundary in them is one in the form.

`ZipWriter_proofs`. `ErrorsReturned`: an action property, from the invariant that
no error is pending between calls nor while an entry is being completed
(`NoError`).
`OutputFits`: `BufferFits` is inductive once it is known what the variables hold
(`BufferInv`); the compressor moves blocks from the data kept into the buffer and
takes as much from the room, and a flush resets both.
`WriterInvariant` is what the archive needs: as long as nothing has failed, the
directory in memory describes the closed entries, which lie in front of `Limit`
(`DirInv`); the open entry's header, blocks, buffer and data kept are one run of its
blocks (`EntryInv`); what an earlier directory left behind the stream is shorter
than the directory to come (`TailInv`); and while the archive is closed its
directory and end records lie behind each other (`CloseInv`). Every write is at or
behind `Limit`, hence keeps what is in front of it. When the handle is closed the
file ends with its end record, so that this is the one a search finds, and it leads
to the directory (`Closed`); `before`, the size of what was put in front, is what
the record's own place tells. The search takes a maximum: that there is one is the
lemma `LeastNatural`, from the well-foundedness of the natural numbers. From it:
`DirectoryKept`, `ArchiveReadable` and `Refinement`, of `Archive`, with one lemma
per kind of step. The proof showed that the last two hold only of archives whose
number of entries is told apart from its mark (HSDzip.c:1841), whose directory is no
larger than UINT32_MAX (:1761), that no zip64 record lies behind a stub (:584) and no
error was forgotten when the zip64 record was written (:1776), which is why `sound`
leaves these out.

`ZipSpan_proofs`. The invariant `SpanInv` says that the current disk is the one of
the current number, that a new archive whose names were not cut has nothing on the
disks ahead (`AheadOK`), and that the header of the open entry lies whole on its disk
unless that was emptied. From it, for every size of a disk, every number of them and
any number of failures: what the archive holds on other disks stays as it is, and on
the current one is lost only by a failure when adding or by a cut name when creating,
and so in every step after such a loss (`DisksKept`); the header of the open entry
stays where its record says (`HeaderFound`).

`ZipOpen_proofs`. The search reads windows from the back that overlap by the four
bytes of the magic. The invariant `Sought` says that no end record lies in the part
already read; a window reaches from its start to the one before it (`WindowPlace`),
so that an end record that is not before the start is in it (`Covered`), and the
last one in the window is the last one of all (`LastEndFound`). What a record says
is read byte by byte: a value that fits is read again as it was written, whatever
the width (`RoundTrip`, by the least place where the two recursions differ).
`ReadWell` follows the directory from there: its size and offset are those of the
end record or of a zip64 one, it lies in front of the record, and while it is copied
the blocks hold what lies between its start and the stream, all of them full as long
as something is left (`Copied`); adding a block's worth of bytes to full blocks
appends a block (`OneBlockMore`, `BlocksGrow`). From it: `DirectoryIsRead`. The
comment is read after the directory was found and checked, from wherever the stream
was left. `CommentWell` says that, as long as no zip64 record was looked at, this is
behind the end record, and that what is read there ends within the file: hence
`CommentIsRead`.

`Files_proofs`. Where an upload has got to tells where its file is (`UploadOK`); a
name that was there throughout is there now, hence a listing that has not come to it
yet will find it (`ListOK`); whenever there is an archive one of the previews that
share it will still remove it (`LeftInv`); the archive of a preview that no other
overlapped is its own file and holds what was written, and every name that was there
throughout is in it or still to come (`PreviewOK`); of two previews that share the
path each is marked so (`Overlapping`). Each step changes one request, and a step of
another request only deletes or adds a file of its own. From it: `UploadsKept`,
`ListingsTrue`, `PreviewsWhole`, `NoTemporaryFile`. For every header and every size
of a file, the bytes served lie within the file (`WithinFile`) and, unless the range is reversed,
are those the header selects (`ServesSelected`): case by case, by arithmetic.
`RangesServed` takes this to every behaviour, by an invariant of its own (`RInv`)
beside `IInv`: what was sent of the file and the zeros in between add up to the
place where the next read begins, what is left ends where the range does, and a
file that was not resized still has as much (`Reads`, `NoZeros`); one read adds the
bytes that come next, or nothing but zeros (`ReadGoesOn`). `IInv` is needed for the
file that an upload moves to the path.

The assumptions on constants are those named in the modules; TLC evaluates them
for each instance. That sizes of files and the numbers of a header are below `Max`
is one of them: `off_t` and `NSInteger` are narrower than `NSUInteger`.
That `Max16`, `Max32` and `Max64` of `ZipOpen` are natural numbers follows from the widths
and is stated because the provers have no powers.
Only model-checked: the six liveness properties, as the provers have neither
fairness nor ENABLED, and the two violations. Every invariant, action property and
refinement that a run checks is also a theorem.

## 5. Not modelled

- Database inspection: one SQL query per request, in sequence; FMDB does the rest.
- View hierarchy: a traversal of UIKit's views and their snapshots without a state
  of its own. Send info: one call.
- HSDGWebServerFunctions: formatting and parsing of dates, headers and URLs.
- The file, data, URL-encoded, streamed and error bodies, and the gzip coders:
  `Connection` has them as writers and readers any operation of which may fail; what
  each adds is one call of the system.
- WebSocket handshake, masking and frames cut by the network: of a frame that has
  not arrived whole the code reads behind the data.
- Encryption, bzip2 and AES of minizip: not compiled in.
- Bonjour, authentication, the choice of port and name, the browser pages.

## 6. Plan

1. The core with its proofs and the refinements of `ConnectionSeries`,
   `HTTPExchange`, `MessageStream` and `Archive`: done.
2. `Manager`, `MultiPart`, `Files`, `ByteRange` and the zip modules: done.
3. The zip writer's archive, the ranges of files, what zipOpen4 finds and reads, and
   what the parser of forms keeps, proved for every instance: done.
4. The layout of a form in `MultiPart`, and that its parts are found as they were sent
   however it is cut: done.
5. Next: the gzip coders between a connection and its bodies.
