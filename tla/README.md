# TLA+ models of appium-ios-device

`appium-ios-device` talks to iOS devices without any native tool: it opens
sockets to `usbmuxd`, turns them into tunnels to ports of a device, and speaks
the protocols of the device's services on them. Everything is one JavaScript
program with one thread; what makes it hard is that every operation awaits
messages of other parties, with timers, several callers at a time, sockets that
change their owner or their protocol under way, and byte streams that are cut
anywhere.

This directory holds TLA+ models of that code, TLC configurations that check
them, and proofs for TLAPS. `PROJECT.json` lists the runs, a mutant for each
property of each passing run, the lines of code each definition stands for, and
the hazards the properties are about.

    tlc -workers 2 -config MCUsbmux.cfg MCUsbmux     # any MC module and its cfg
    tlapm UsbmuxProofs.tla                           # any module of proofs

## 1. The system

| Component (src/lib) | State | Operations | Talks to |
|---|---|---|---|
| `usbmux`, `base-service.js` | `_tag`, `_responseCallbacks`, the pipes of the socket | readBUID, readPairRecord, listDevices, findDevice, connect, connectLockdown, close, getDefaultSocket | usbmuxd; gives its socket to whoever called connect |
| `util/transformer/length-based-splitter.js` | frame buffer, index, isShutdown | `_transform`, `_decode`, shutdown, `_pushBack` | between a socket and a decoder, in six services |
| `plist-service`, `lockdown` | `replyQueue`, the pipes, plain or TLS socket | sendPlistAndReceive, receivePlist, queryType, startSession, getValue, startService, enableSessionSSL | lockdownd; the same PlistService serves six more services |
| `ssl-helper.js` | two sockets on one descriptor | upgradeToSSL, enableSSLHandshakeOnly | under lockdown and connectPortSSL |
| `utilities.js`, `services.js` | none of their own; sockets in local variables | what a user calls: list, get, start a service, connect a port | compose Usbmux, Lockdown, TLS |
| `instrument` (+ DTX encoder) | `_channels`, `_nextIdentifier`, `_replyQueues`, `_channelCallbacks` | makeChannel, callChannel, registerChannelCallback, `_handleData`, close, dispose | the instruments daemon |
| `instrument/transformer/dtx-decode.js` | buffer, cursor, header, `_dtxManager` | `_transform`, `_decode` | socket of Instrument |
| `xctest.js` | `running`, `_executing`, three sessions | start, stop, event handlers, a timer | three InstrumentServices, Lockdown, house arrest, AFC |
| `afc` | `_packetNumber`, `_responseCallbacks`; per stream its handle and flags | file handles, path requests, Readable and Writable streams, walkDir | AFC service of the device, node:stream |
| `house-arrest` | a splitter, once listeners of the decoder, the socket it gives away | vendContainer, vendDocuments | AFC |
| `notification-proxy` | `_listeners` by name | observeNotification, postNotification, shutdown, `_handleData`, close | the proxy on the device |
| `installation-proxy`, `imagemounter`, `mcinstall` | none but the queue of their PlistService | install, upgrade, uninstall, list, lookup; lookup, mount; profiles | PlistService, the file of the image |
| `imagemounter/utils/list_developer_image.js` | files in a cache directory | list, download, unpack, find | GitHub, the file system, other processes |
| `webinspector` | the support of the device, the buffer of the decoder | sendMessage, listenMessage, `_decode` | a plist stream with or without partial messages |
| `syslog` | the buffer of the decoder | `_transform`, toUtf8String | a raw socket |
| `instrument/headers.js`, `instrument/transformer/nskeyed.js`, `util/uuid` | none | build and parse a message; archive, unarchive | Instrument |
| `simulatelocation`, `testmanagerd` | none | one message; a socket for Instrument | |

### What is hard

* **Correlation.** usbmuxd, DTX and AFC messages carry a number and their
  answers may come in any order, late, or never; lockdownd's do not, and are
  matched by their order alone.
* **Timeouts.** Each request has a timer (or polls until one) that races the
  answer; what a late answer does is different in each client.
* **Hand-over.** A socket is usbmuxd's, then a tunnel, then TLS. Bytes read by
  the old owner must reach the new one, and the old owner must let go.
* **Cut streams.** Splitter and DTX decoder keep state between chunks.
* **State across awaits.** Channel codes, session fields and stream flags are
  read before an await and used after it.
* **Cleaning up.** Any step may fail with sockets, handles or sessions open.
* **Files that others write.** The developer image is looked for, downloaded and
  unpacked by processes that know nothing of each other and may end anywhere.
* **Pure conversions at their limits**: lengths that count a header or not,
  payloads that fill a chunk, lines that fill a buffer, archives with cycles.

### What makes each component correct

* usbmux: everybody gets the answer to the own request; a socket has one owner,
  who loses no byte; no callback stays; all calls settle.
* splitter: what comes out are the frames sent; after a shutdown the rest is
  back in the socket; an error means a frame that is too large.
* lockdown: a reply is taken by one call, the one that asked; requests are
  written in the layer lockdownd expects.
* entry points: no socket is left open; what is returned is open and speaks what
  the device asked for; each request goes to the party meant.
* instrument: calls and listeners of a channel reach that channel only; a message
  that expects an ack and finds no listener has it. DTX decoder: messages come out
  whole and at once, with the arguments they were built of; archives come back as
  the values they were made of.
* xctest: stop() ends what start() began; a test plan is run once.
* afc: a file has the chunks given, in order; a reader gets the file; no handle
  is left open on the device; a walk meets all that stays where it is.
* services on plists: a call takes all messages about its own command and no other;
  raw bytes and plists never change places; who is given a socket is alone on it;
  who observes is told of the end.
* developer image: who is given an image is given all of it; what was downloaded in
  full stays; what was not is cleaned up.
* web inspector, syslog: messages and lines come out as they were sent, whatever the
  chunks.

## 2. Modules

JavaScript runs one callback to its end before the next, so in every module an
action is what runs between two awaits (or the whole of an event handler), with
everything it calls. Processes interleave only there. The other side of a
socket is external: it is modelled by what the code relies on, and may
otherwise answer late, refuse, stay silent or close the socket.

| Module | Models | State | Actions |
|---|---|---|---|
| `Usbmux` | `Usbmux`, connectLockdown, the socket's hand-over | `_tag`, `_responseCallbacks`, promises, the pipes of the socket, what the splitter will unshift | `Request`, `TimedOut`, `SocketData` (a chunk with any number of messages), `Unshift` (the tick), `OwnerAttaches`, `ConnectLockdown` and its continuations, `Close`, `SocketEnd`; usbmuxd: `MuxReads`, `MuxAnswers`, `DeviceSends`, `MuxCloses` |
| `MuxExchange` | what callers of a usbmux client may expect | calls, answers, what the owner has read | `Call`, `Answer`, `Settle`, `GiveUp`, `DeviceSends`, `OwnerReads` |
| `UsbmuxProperties` | properties of `Usbmux`, and how it implements `MuxExchange` | | |
| `UsbmuxProofs`, `LockdownProofs`, `XctestProofs`, `ServicesProofs`, `InstrumentProofs` (with `DTXMessage`), `AfcProofs` (with `AfcPaths`), `DeviceServicesProofs` (`PlistClients`, `PlistListeners`, `DeveloperImage`), `TransformerProofs` (`LengthBasedSplitter`, `DTXDecoder`, `WebInspector`, `Syslog`) | theorems (section 4) | | |
| `LengthBasedSplitter` | the splitter, byte by byte | `_frameBuffer`, index, isShutdown, the chunk and the loop variable | `Arrive`, `Decode` (one call of `_decode`), `ChunkDone`, `PushBack` |
| `Lockdown` | PlistService with the four lockdown requests | `replyQueue`, promises, the pipes, plain or TLS | `Request`, `Poll`, `TimedOut`, `SocketData`, `EnableSessionSSL`, `Close`, `SocketEnd`; lockdownd |
| `Instrument` | InstrumentService | channels, `_nextIdentifier`, reply queues, listeners, what waits for an ack | `Start`, `ChannelMade`, `CallReturns`, `TimedOut`, `HandleData` (with `ReplyAck`), `Close`, `Dispose`, `SocketEnd`; the device |
| `DTXDecoder` | the DTX decoder, byte by byte | buffer, cursor, header, `_dtxManager` | `Arrive`, `Pass` (one turn of the loop), `LoopEnds`; the device |
| `DTXMessage` | `headers.js`: what is in a message | the message built, cursor and data of the parser | `ParseArgument` (one turn of the loop), `Parse` |
| `NSKeyed` | archive and unarchive, with the conversions of identifiers | the class map, a value, its objects | `Archive`, `Unarchive`, `Receive` (an archive of the device), `UpdateClass` |
| `Xctest` | the test runner; a session is an InstrumentService, and an installation proxy and house arrest are used for a while | `running`, `_executing`, the session fields, where each start() is | `Start`, one action per continuation of it, `Fails`, `UserStops`, `SessionCloses`, `BundleReady`, `RunnerReady`, `TimerFires` |
| `Afc` | AfcService and its file streams | requests, `_responseCallbacks`, streams, files and handles of the device | `OpenFile`, `Write`, `End`, `Finish` (the tick after end()), `Read`, `Destroy`, `HandleData`, `TimedOut`, `Close`, `SocketEnd`; the device |
| `AfcPaths` | AfcService: requests on paths, walkDir | the tree on the device; the listings a walk is in | `WalkDir`, `DirectoryListed`, `GotFileInfo`, `WalkFails`; `CreateDirectory`, `OpenFileToWrite`, `DeleteDirectory` |
| `Services` | utilities.js, services.js, getDefaultSocket, ssl-helper.js | calls as lists of steps left, sockets with their layer | `Call`, `Connected`, `ConnectFails`, `Answered`, `StepFails`, `SocketLost` |
| `PlistClients` | installation-proxy, imagemounter, mcinstall | the calls with what each has taken, `replyQueue`, what is under way | `Call`, `PollReplies`, `CommandTimedOut`, `Push`, `Pushed`, `PushFails`, `FileChanges`; the service on the device |
| `PlistListeners` | house-arrest, notification-proxy | vends and their once listeners, the pipes; `_listeners` by name | `Vend`, `VendTimedOut`, `DecoderReceives` (a chunk of several messages), `AfcRequest`, `AfcReceives`; `ObserveNotification`, `PostNotification`, `Shutdown`, `HandleData`; the device |
| `DeveloperImage` | findDeveloperImage, one process per caller | the zip and the unpacked files, as others see them; where each call is | one per step between two file operations, `Crash` |
| `WebInspector` | encoder, decoder and sendMessage | what was written; `_frameBuffer` and its index | `Construct`, `SendMessage`, `Decode` |
| `Syslog` | SyslogDecoder, byte by byte | the buffer and its index | `Store`, `SkipNull`, `NewLine` (with `toUtf8String`) |
| `MCDecoders` | `DTXDecoder`, `DTXMessage`, `NSKeyed`, `WebInspector`, `Syslog` side by side | `codec`: which of them runs | those of the one chosen |
| `MCDeviceServices` | `Lockdown`, `PlistClients`, `PlistListeners`, `DeveloperImage`, `AfcPaths` side by side | `part` | those of the one chosen |

`MCDecoders` and `MCDeviceServices` choose one of their modules in the initial
state, and the others stay as they began. The modules share no state in the code
either (each service has a socket and a decoder of its own), so their interleavings
would show nothing; what one needs of another is in its own module as an
environment: `PlistClients` lets the image file change under a mount as
`DeveloperImage` changes it, `PlistListeners` has the AfcService it hands the
socket to as a writer and reader of that socket.

The layers fit together as in the code: `Usbmux`, `Lockdown`, `Instrument` and
`Afc` take messages as atomic because `LengthBasedSplitter` and `DTXDecoder`
show that messages come out whole; `Services` takes the answer to a request as
one step because `Usbmux` and `Lockdown` show whose answer it is; `Xctest` takes
a session as open or disposed of because `Instrument` models what is inside.

`MuxExchange` is the abstract specification of the usbmux client: no tags,
frames, chunks or timers. `UsbmuxProperties` instantiates it (`Exchange`) with
the promises as they are and what the owner has read as the numbers of the
pieces, and the run `usbmux` checks that `Usbmux` implements it.

Definitions that begin with the name of another one and are marked "Mutant" are
wrong versions of it; they are used by nothing but the mutants of
`PROJECT.json`, each of which must make the property it is listed with fail.

## 3. Runs

Passing runs:

* **usbmux** (`Usbmux`, 64 thousand states). Two requests of any kind, or
  connectLockdown, and two pieces of tunnel data. Two requests are enough for
  answers out of order, a timeout with a late answer, and two Connects at once;
  every chunking of what the socket holds is tried. Everybody gets the own
  answer; the socket has one owner; the owner reads the tunnel from its first byte
  on, even if it came in the chunk of the answer; the client implements
  `MuxExchange`, where a promise is settled once and by one of answer and timer;
  tunnel data arrives. `MisframedOnlyAfterTimeout` says how far the code goes:
  when a Connect times out and is accepted later, the socket is a tunnel and
  nobody has noticed.
* **splitter** (`LengthBasedSplitter`, 100 thousand states). The layouts of the
  plist services, of usbmuxd and of AFC, with a base of 3 instead of 256, length
  fields of two digits, frames around the limit, up to three frames, every
  chunking that does not end inside a length field, a shutdown after any frame.
  Every frame emerges, unless it is over the limit.
* **device_services** (`MCDeviceServices`, one million states up to symmetry).
  * `Lockdown`: three requests, in sequence or overlapping, with polls, timeouts
    and the move to TLS. As long as nothing overlaps or times out, calls get their
    own replies until the first call after the move; no reply is taken twice before
    it; both sides read what the other wrote.
  * `PlistClients`: two calls on one socket of any of the three services, with up
    to two status messages before the last one, results of a lookup that are empty
    or left out, refusals, timeouts, two images of one or two pieces, none or either
    of them mounted to begin with, whose file may change while it is pushed or end
    early. As long as
    calls follow each other and none times out or breaks off (`~disturbed`), a call
    takes its own messages and all of them, even when it throws; bytes and plists
    do not change places; what returned was done. Of mount() that is less than it
    seems: when another image is mounted, it pushes its own, which the device turns
    away, and returns without an error; `ReturnedMeansDone` says so.
  * `PlistListeners`: four calls. House arrest: unless a vend was made with
    something under way (`~crowded`), the AfcService is alone on its socket, in
    the container of its own call, and the splitter gets nothing of it. Notification
    proxy, two names, up to three unasked messages: who observes is told of the
    death, unless `_handleData` threw or the connection went first.
  * `DeveloperImage`: three processes, four calls, archives of one or two entries in
    either order, failures and ends of a process between any two file operations.
    `ReturnedIsWhole`, `TornZipIsUnderWay` and `WholeZipKept` state what the code
    keeps and name the exceptions it has: somebody is unpacking right then, an
    unpacking was cut short before (`cut`), a process ended while it downloaded
    (`abandoned`), two downloads overlapped (`raced`).
  * `AfcPaths`: two names, paths of up to two, any tree of them to begin with, two
    requests that make or remove a file or directory at any point of the walk. A
    walk that returns has met all that stayed, nothing that was never there and
    nothing twice; it throws only when something was removed or refused.
* **instrument** (`Instrument`, 2.4 million states up to symmetry). Two callers,
  two channels, four messages of the client and one of the device, which may expect
  an ack or cancel the channel, timeouts, close and dispose. Calls run on, and
  messages reach, the channel they are for; the messages that expect an ack and find
  no listener of their channel get one, and no others do.
* **decoders** (`MCDecoders`, 1.5 million states).
  * `DTXDecoder`: four fragments on two channels, messages of up to three
    fragments, of which one, and any, may be one that cannot be parsed, every
    chunking. The first fragment is on channel 1, and a header without a body
    announces one byte: a channel is only a key of the decoder's map, and nobody
    reads that length. The messages that can be parsed come out whole, in the order
    of their last bytes, and as soon as those are there (but for a body shorter than
    the magic number).
  * `DTXMessage`: up to three arguments of every type, short and long, built by the
    client or pushed by the device. They are parsed as built, up to a last argument
    that is too short.
  * `NSKeyed`: values of three levels of everything that can be archived, with and
    without a class added by the user, identifiers in capitals and texts that are
    none; archives of a device with three objects that
    refer to each other in every way. Values come back, identifiers in small letters,
    and decoding ends unless there is a cycle.
  * `WebInspector`: three messages each way around a chunk size of two and a buffer
    of four, members that cannot be encoded. What sendMessage returned for arrives,
    with the exceptions named below; the decoder pushes message after message up to
    one longer than its buffer.
  * `Syslog`: lines of up to seven bytes over all that the code tells apart, and a
    buffer of five; lines follow each other. Lines that fit come out with their
    escapes undone.
* **xctest** (`Xctest`, 2.4 million states). Two calls of start(), which may
  overlap, stop() and the loss of sessions at any time. What a start() uses for a
  while is closed when it is over, however it ends. Fields never hold a
  session that was disposed of, and no session is told twice to run its plan.
* **afc** (`Afc`, 2.5 million states). A stream that writes and one that reads,
  two chunks each, with refusals, timeouts and late responses, over one handle
  number that the device gives again after it was closed, for each value of
  `autoDestroy`. Files hold the chunks given, readers get the file unless somebody
  destroys them, and a handle is left open only by an open that timed out.
* **services** (`Services`, one thousand states). One call of any entry point,
  with or without a socket passed by the user. Calls without such a socket share
  nothing, so one is enough. Every step may be refused or time out: no socket is
  left open, the call ends, and a returned socket is open and has the layer the
  device asked for.

Runs that must find a violation, where a comment or document says more than the
code does:

* **splitter_field**: a chunk that ends inside a length field. `_decode` waits
  until `lengthFieldOffset` is reached, not until the field is complete, and
  reads a length partly made of old bytes. It then reports a frame that is too
  large though none is, or (as the same trace shows when the length is small)
  pushes a wrong frame. This is why the passing run excludes such chunks.
* **lockdown_session**: `enableSessionSSL` pipes the splitter to the decoder a
  second time; every reply is then queued twice and the second of two getValue
  calls gets the answer to the first. This is why `OwnReply` reaches only to the
  first call after the upgrade.
* **instrument_channels**: two channels opened at once get one code. This is why
  the routing properties of `Instrument` have the condition `~raced`.
* **xctest_stop**: stop() while start() awaits a session leaves the session that
  comes afterwards open. This is why `StopClosesAll` has the condition
  `~interrupted`.

Differences between code and comments, and surprises, that have no run of their
own:

* A getValue call after one that timed out takes its late reply
  (`plist-service/index.js:73`); the same queue hands the status messages of a
  command that timed out to the next one (`installation-proxy/index.js:152`). Hence
  `Undisturbed` and `~disturbed`.
* A message that expects an ack gets none when a channel listener takes it
  (`instrument/index.js:170`, against "must reply ack message", `headers.js:341`).
* The last argument of a message is lost when it takes less than sixteen bytes
  (`headers.js:158`: the cursor counts the header, the length does not). Hence the
  second case of `ArgumentsParsed`.
* A null that is archived comes back as the text `$null`, a set cannot be archived
  (`nskeyed.js:519`), and the test for cycles never fires (`nskeyed.js:419` looks
  up the UID object, not its number), so that a cycle overflows the stack.
* `sendMessage` catches the TypeError of a nullish member and writes the cleaned
  object to the encoder that has just thrown, which never gets to it
  (`webinspector/index.js:147`). A payload that is a multiple of the chunk size gets
  no final message and is joined to the next one (`webinspector-encoder.js:19`).
  `ReturnedArrives` leaves both out.
* A backslash followed by any of the other marks of an escape is taken for one
  (`syslog-decoder.js:63`, against "the same string if no unescaping is
  necessary"). Hence `Lookalike`.
* A listener that observes its name again from proxyDeath throws out of
  `_handleData` and past the delete (`notification-proxy/index.js:56`), and one
  that observes after shutdown() is never told.
* destroy() of a reader pushes the end of the stream (`afc/streams.js:36`): whoever
  reads it may see `end` though the file was not read to its end. Hence `Open(s)` in
  `StreamsAreFiles`.
* mount() returns without an error when another image is mounted
  (`imagemounter/index.js:93`), and its own is not.
* A vend that timed out leaves its once listener behind
  (`house-arrest/index.js:76`), and two vends under way are both settled by the
  first response. Hence `~crowded`.
* An image that another call is still unpacking, or whose unpacking was cut short,
  is returned as it is, and a torn zip left by a process that ended is never
  replaced (`list_developer_image.js:60`).
* `_writeConfigurationToDevice` ends the stream and closes the connection in the
  same turn (`xctest.js:203`), so that the FILE_CLOSE of the stream is asked for
  when the socket has been ended.
* The timer of `showLogMessage` throws when it fires after stop() (`xctest.js:248`,
  in the model as `crashed`).
* A socket passed by the user is used for usbmuxd again after it has become a TLS
  connection (`services.js:209`), and the web inspector service is built on a passed
  socket that getOSVersion has ended (`services.js:57`), which is why `SpokenTo`
  and `ReturnedIsUsable` have the condition `~passes`.

Several properties have the very case of a hazard as their exception; the note of the
hazard in `PROJECT.json` says which. They show that nothing but that case leads to what
they exclude.

### Bounds

Each bound is a constant: `MaxRequests`, `MaxTunnel`, `MaxFrames`,
`MaxIdentifier`, `MaxPushed`, `MaxStarts`, `MaxChunks`, `MaxCount`,
`MaxFragments`, `MaxSkipped`, `MaxCalls`, `MaxProgress`, `MaxMade`, `MaxNews`, `MaxFinds`,
`MaxArguments`, `MaxMessages`, `MaxLine`, `MaxDepth`, `MaxChanges`. Tags, identifiers and packet numbers only
ever grow by one and are compared for equality alone, so a bound on them cuts off
longer histories and nothing else. Every kind of interference needs two parties (two
requests, two callers, two channels, two starts, two streams on one handle number,
two calls on one queue); a third is there where one must be ahead or behind: in the
queue of `Lockdown`, and in `DeveloperImage`, where one process finds what two others
have made of each other's files. Two images are enough for the one that is mounted to be
the caller's or not; their files have one length, which may change. Numbers that are limits in the code (frame length,
chunk size, buffers) are small, and inputs lie on both sides of them.
Deadlock is not checked: every model may come to rest when all calls are done.

### Fairness

Liveness is claimed only where it takes several steps, and from what the program
itself guarantees. In `Services` it is weak fairness of the timers: each wait has
a `setTimeout`, and Node's event loop fires it. In `Usbmux` it is of the reading
of a socket that has something to read, of process.nextTick, and of the caller
that was given the socket: Node reads a piped socket and runs ticks. In
`LengthBasedSplitter` it is of the callbacks and of the arrival of bytes already
sent. Nothing is assumed of usbmuxd or a device: they may never answer. That a
single call of a client ends is not checked: its timer ends it in one step. The
other modules are checked for safety alone.

### What is taken as given

The other side of a socket, node:stream, the plist libraries, the file system and
GitHub are external. What is assumed of them is said in the comments of the modules: a
socket delivers bytes in order or ends; a plist is read from exactly its bytes; a
transform of Node that throws while a chunk is written never calls back for it, and
what is written later waits; a file is opened at its final path and truncated, and
who has it open goes on with it when its name is removed; a device reads what was
written in order, works on one command of a connection at a time, and says
`Complete` last.

## 4. Proofs

TLC checks small instances. The theorems below hold for every value of the
constants: any number of calls, callers, streams, sockets, messages and pieces,
from the assumptions that the modules state by name (`UsbmuxAssumption` and so on).
These say that bounds are naturals, that the operations are among those there are,
and that sets which are kept apart in the code are disjoint (no stream is called
`NoStream`, no process `absent`, no file `.` or `..`). `AfcPaths` has finitely many
names, so that a directory can be listed. `SplitterAssumption` and `FieldAssumption`
are about the peer of a splitter: the length it sends for a frame fits the length
field, and no frame ends inside of that. The theorems about the splitter also have the
hypothesis `~SplitsFields`, that no chunk ends inside a length field; the run
`splitter_field` shows what comes of one that does. No other assumption is made of
usbmuxd or a device but what their actions say.

| Module | Theorem | Property |
|---|---|---|
| `UsbmuxProofs` | `TypeCorrect` | `TypeOK` |
| | `AnswersAreOwn` | `OwnAnswer` |
| | `CallbacksExact` | `CallbacksArePending` |
| | `ShutdownExact` | `ShutdownIffHandedOver` |
| | `SocketHasOneOwner` | `OneOwner` |
| | `TunnelCorrect` | `TunnelIntact` |
| | `MisframingNeedsTimeout` | `MisframedOnlyAfterTimeout` |
| | `SettlingIsFinal` | `SettledOnce`, of every step |
| | `ExchangeImplemented` | `ImplementsExchange`: the refinement of `MuxExchange` |
| `LockdownProofs` | `RepliesAreOwn` | `OwnReply` |
| | `LayersMatch` | `LayersAgree` |
| `InstrumentProofs` | `ChannelsStayApart` | `ChannelsApart` |
| | `UnheardAreAcked` | `AckedUnlessHeard` |
| | `ChannelsSeparate` | `SeparateChannels` if not `raced` |
| | `MessageIsParsed` | `ArgumentsParsed`, of `DTXMessage` |
| `XctestProofs` | `FieldsStayLive` | `FieldsAreLive` |
| | `PlanStartedOnce` | `ExecutedOnce` |
| | `StopLeavesNothingOpen` | `StopClosesAll` |
| `AfcProofs` | `ResponsesAreOwn` | `OwnResponse` |
| | `HandlesDoNotLeak` | `NoHandleLeaks` |
| | `FilesAreStreams` | `StreamsAreFiles` |
| | `WalkMeetsAllHolds` | `WalkMeetsAll`, of `AfcPaths` |
| `ServicesProofs` | `NoSocketLeaks` | `NothingLeaks` |
| | `ReturnedSocketsAreUsable` | `ReturnedIsUsable` |
| | `RequestsAreUnderstood` | `SpokenTo` |
| `DeviceServicesProofs` | `MessagesAreOwn` | `OwnMessages` |
| | `DeviceInStep` | `InStep` |
| | `ReturnedCallsAreDone` | `ReturnedMeansDone` |
| | `AfcAloneOnItsSocket` | `AfcIsAlone` |
| | `ObserversAreTold` | `ObservedUntilTold` |
| | `ReturnedImageIsWhole` | `ReturnedIsWhole` |
| | `TornZipIsRemoved` | `TornZipIsUnderWay` |
| | `WholeZipStays` | `WholeZipKept`, of every step |
| `TransformerProofs` | `FramesArePushed` | `MessagesAreFrames` |
| | `NothingIsLostAtShutdown` | `NothingLostAtShutdown` |
| | `OnlyLargeFramesAreRejected` | `ErrorMeansLargeFrame` if not `SplitsFields` |
| | `MessagesArePutTogether` | `MessagesAreWhole` |
| | `WhatReturnsArrives` | `ReturnedArrives` |
| | `DecodedInOrder` | `DecodedUpToTooLong` |
| | `LinesComeUnescaped` | `LinesUnescaped` |

`ChannelsSeparate` is the other half of the run `instrument_channels`: that run shows
that the documented claim fails, the theorem that two calls of makeChannel at once
are the only way it can. `OnlyLargeFramesAreRejected` is the same for `splitter_field`.

Each module has an inductive invariant that holds initially and in every step (the
theorem named `...Invariant`, `Invariance` or `...InvHolds`; for the decoder of
`WebInspector`, `InspectorPlaced`), from which the others follow. None of
the properties is inductive by itself, since all speak of what a caller sees at the
end, and that depends on what is still under way:

* **Usbmux.** `AnswerInv` is about tags: what is known of a tag not yet used is
  nothing (`Fresh`), a request is in one place at a time (`InFlight`), and every
  reply under way says what usbmuxd said (`Truthful`). `TunnelInv` is about the
  hand-over: usbmuxd accepts one Connect (`OneAccepted`), who reads the socket before
  and after (`Readers`), and the answer to a Connect that is still awaited is in
  the inbox after other replies and before all tunnel data, in order (`AnswerAt`,
  `StreamOrder`). The refinement needs no more than this invariant: `Request` is
  the abstract call, a chunk settles the calls its replies are for (the abstract
  `Settle`), a timer is `GiveUp`, the owner's reading is `OwnerReads`, and framing,
  ticks and the rest are stuttering steps.
* **Lockdown.** Nothing on the wire says whose it is, so the order must: requests and
  replies are under way in the order of the calls (`InOrder`, `QueuedInOrder`), the
  answer that moves lockdownd to TLS is the last one in the clear (`SwitchKnown`),
  and of calls made one after the other only the last one waits and all that is
  under way is for it (`OneAfterTheOther`).
* **Instrument.** A code belongs to a channel while it is open, being made, or
  still in a message under way (`Rightful`), one channel is made at a time unless
  `raced` (`OneIsMade`), calls and listeners go by the code of their channel
  (`UsedAsOpened`), and each message that waits for an ack has one under way unless
  the socket is closing (`AcksUnderWay`).
* **Xctest.** A session is opened once, by the step its start() is at (`OpenedOnce`);
  what is used for a while is open only while a reply of it is awaited
  (`TemporaryAwaited`); a session that was told to run its plan and is still in its
  field is known to be executing (`ExecutingKnown`); without interruptions all open
  sessions are in fields (`Orderly`).
* **Afc.** `AnswerInv` relates packets, callbacks, the device and the wire as in
  `Usbmux`. For each stream, `Asked` says what it may have asked for by where it is,
  and `Served` whose the handles are and what the file holds: a handle that the
  device has opened for a stream and not closed is of that stream's file
  (`HandleOwned`), the file holds the chunks done and maybe the one that was asked
  for (`FileWrittenSoFar`), and a reader has what was read in turn (`ReadsOn`), all of
  it when it ends by itself.
* **Services.** A call is a list of steps left. `Scripted` says that each may follow
  the one before it on the same socket, `Holds` what a call has in its hands at each
  step: a Usbmux until its socket is handed over, then a Lockdown client. That
  calls share no socket (`Apart`) makes it enough to look at each call alone.
* **PlistClients.** Once a client was disturbed nothing is claimed. Until then only
  the last call is at work, and is in one of six situations (`Asked`, `InProgress`,
  `Completed`, `ImageAnswered`, `ImageOnItsWay`, `ProfileAnswered`) that say all of what
  is under way; for an image, that pieces staged and pieces under way are those pushed,
  and what the device still expects is the rest of those announced. `HasMounted` follows
  the images that are mounted, `Looked` what a call was told of them.
* **PlistListeners.** House arrest: as long as no vend was made with something under
  way, what is under way is of the last one, in one place (`OneVend`); nothing is left
  of it when there is an AfcService (`AfcAfterVend`). Notification proxy: who observes
  and was not told has a listener and will be told, by a request to observe before any
  shutdown, by the proxy, or by a message under way (`WillBeTold`).
* **DeveloperImage.** A torn zip or file is that of the one call that writes it, unless
  the history variables say otherwise (`OneDownload`, `TornEntryIsUnderWay`), and
  entries are unpacked in the order of the archive (`EntriesInOrder`), so that with an
  image is its signature unless a call is between the two or was cut off there
  (`ImageHasSignature`).

* **LengthBasedSplitter.** `SplitterInv` says where the splitter is in the stream that was
  sent: what is buffered, what is left of the chunk and what is under way are together
  the bytes from the start of the frame it is at, with all frames after it. A length is
  read only when its field is there in full, which is where the hypothesis about chunks
  is needed, and reading gives back the number that was written, digit by digit, in
  either byte order. A shutdown freezes the place, and what is unshifted is what follows
  it.
* **DTXDecoder.** `DecoderInv`: the bytes not used yet are the body of the last header,
  if it has one, and then whole fragments, so that every header is read where one
  begins; a message is in `_dtxManager` if it is begun and not complete, with the payloads
  of its fragments so far in order, whether or not it will be one that can be parsed.
* **DTXMessage.** `MessageInv`: the cursor is at the header and the bytes of the first
  arguments, which `data` has. As each takes eight bytes at least, the loop can
  stop early only before a last one that is short.
* **WebInspector.** For the decoder `DecoderPlaced`: its buffer holds the parts so far of
  the message it is at, and of no other, until one does not fit. For the encoder
  `WrittenInv`: every message sent before the one the encoder threw at stands in one
  piece among the chunks, from its first part to its last, and only a message whose
  last chunk is full can be joined with the next one.
* **Syslog.** `SyslogInv`: the buffer is the line so far, as far as it fits. That the
  recursive `toUtf8String` gives the text back is an induction from the end of the line
  down, in which an escape is four bytes.
* **AfcPaths.** `WalkInv`: the listings a walk is in are of the directories along one
  path (`Placed`); what is left in them was not met, nor anything below it (`Fresh`),
  and is still there unless something was removed (`StillThere`); their directories were
  met (`DirectoriesMet`). Each file that was there all the time and is wanted was met,
  is at or below a name that is left, or is below the directory that is being listed
  (`AtListing`, `AtAsking`). That something below a directory is also below a name in
  its listing (`AboveIsThere`) is an induction over the length of paths in a tree.

The proofs have a lemma per action and part of the invariant, and lemmas on the
sequences that queues, chunks and files are. TLC has checked each `IInv`, and
`WalkInv`, as an invariant of the run of its module. Recursive functions of one number
are reasoned about by induction in the form "a set with 0 and the successor of each of
its numbers has all numbers", which follows from the well-foundedness of `<`.

### Only model-checked

* Liveness (`TunnelDelivers`, `EveryFrameEmerges`, `EveryCallEnds`): the provers have
  no rules for fairness.
* `RoundTrip` and `EndsUnlessCyclic` of `NSKeyed`: archive and unarchive are mutually
  recursive over values, and are written as RECURSIVE operators, with which tlapm cannot
  reason.

## 5. Not modelled

* `simulatelocation`, `testmanagerd`: one message or one socket, no state.
* `logger`, `constants`, `StreamLogger`: nothing to go wrong in
  time; the DEBUG output of the splitter too.
* In `Instrument`: calls that do not wait, listeners by selector. In `Xctest`:
  the requests on the vended container one by one (`Afc` and `AfcPaths` have
  them), and the variants by iOS version beyond whether the control session is
  used. In `NSKeyed`: the classes that only devices send. In
  `WebInspector`: which members cleanupRpcObject removes, the fragment size of TLS.
  In `Services`: fetchImageFromGithubRepo, getMaxFrameLength.
* Contents of plists, AFC headers and images: a message is what the code tells apart
  about it.

## 6. Plan

Done, in this order, the most shared code first: `Usbmux` with `MuxExchange` and
its proofs; `LengthBasedSplitter`; `Lockdown`; `Instrument`, `DTXDecoder`;
`Xctest`; `Afc`; `Services`; then the services on plists (`PlistClients`,
`PlistListeners`), `DeveloperImage`, `AfcPaths`, and the codecs (`DTXMessage`, `NSKeyed`,
`WebInspector`, `Syslog`).

The theorems followed: first the clients in the order of section 4, then the
transforms and the walk, whose definitions are recursive functions. All safety properties of
the passing runs are proved but the two of `NSKeyed`. To prove those, archive and
unarchive would have to be restated without RECURSIVE, over lists of objects.

Next, models: calls of `Instrument` that wait for no reply, and the classes of
`NSKeyed` that only devices send.
