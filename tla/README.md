# nascav2 in TLA+

nascav2 is a daemon that receives monitoring results ("logs") from clients over
TCP and hands them to Icinga. These modules model the parts of it in which
something can go wrong that a test would hardly reach: the buffer file between
the clients and Icinga, the session with a client, the framing of messages, the
start and the end of the daemon with its threads, the routes of its
configuration, and the dialogue of the client program with a session, with the
keys and ciphers of both.
TLC checks them on small instances; TLAPS proves the most important results for
every value of the constants.

All paths below are relative to `src/code/`. `PROJECT.json` maps every
definition to the lines it models.

## 1. The system

A client's logs pass through these parts:

    client --TCP--> MessageEndpointTcp -> MessageFormer -> MessageHasher -> MessageCipher
                       | the sinks: bytes to messages, then decrypted and verified
                       v
                    Session: SessionInitializer -> CryptographyInitializer
                                -> ClientAuthorizer -> LogsTransmitter
                       | ClientSession::getDataChannel, DataChannel::scheduleForWrite
                       v
                    DataFile: one file per provider, a circular buffer
                       | posted consumeDataPortion       ^ posted confirmPortion
                       v                                 |
                    ToIcingaWritter (a FIFO), ToScreenPrinter

Threads: the main thread runs MyNscaMain and `DataFile::confirmPortion`; every
provider and every consumer has a thread of its own (AdditionalThread, a QThread
with an event loop). Threads interact by posted events (queued connections,
`QMetaObject::invokeMethod`), by the mutex of a DataFile, and by nothing else on
purpose; what they share by accident is listed under hazards.

| Component | State | Operations | What makes it correct |
|---|---|---|---|
| DataFile (Base) | offsets in memory, in the file and on the disk; the portion in distribution with its count of outstanding confirmations; the queue of requests | setFile, scheduleForWrite, confirmPortion, closeFile, destructor | one portion at a time; nobody gets a portion twice; a portion is deleted once, after its last use (the shutdown does not keep this: finding 5); a portion answered with success reaches its destinations; the file never outgrows its limit |
| Consumers (Base) | the pipe or the screen | consumeDataPortion, then confirm | every portion taken is confirmed; a failure stops the daemon |
| DataChannel, ClientSession (Base) | who the client is, whether it is authorized | authorize, getDataChannel, scheduleForWrite | logs only from authorized clients |
| Session and its parts (TcpStandardModule, AAAModule) | current part and its state, parts left, timer, sinks, events posted | start, messages, timeouts, disconnection, end, deferred deletion | parts in order; one end, with the right result; nobody waits for ever; nothing runs after the session is deleted |
| ConnectionManager, TcpServer | active sessions | newConnectionArrived, sessionFinished, close | closed exactly when the last session ended |
| MessageFormer and the other sinks | size and bytes kept between two reads, queue of messages | readDataFromChild, read, close | the messages do not depend on how the bytes were cut |
| Daemon: MyNscaMain, AdditionalThread, DefaultTcpProvider, ToIcingaWritter | threads and their loops, the pointers between them | initProgram, shutDown, closeAllSlot, init, close, endThread | it starts completely or stops; it stops once, and does stop |
| ConfigurationParser | the parsed groups and routes | getRoutes, getModules, ... | a log goes where the configuration says |
| Factories, FactoryRegistration | maps filled before main | getters | read only afterwards |
| Cryptographic | the keys an object holds, the key and the last block of each cipher | setKey, setIv, generateKey, encrypt, decrypt, clone | a wrong key is refused; the ciphers of two ends stay in step |
| protocolTests: the client program | the step it is in, its keys and cipher | one sequence: read, check, write | it takes turns with the session, and agrees with it on how it went |
| Logger, value types | none over time | | outside the models |

Behaviours that are hard here: posted events that outlive what they point to;
nested event loops while closing; calls back into an object in the middle of its
own loop; several messages in one read; `deleteLater` against the events and
signals of the same object; a file that wraps; a crash between two writes of a
header; a timer stopped by one object and started by another; a cipher that each
message changes, at two ends that may miss one; a client that takes whatever a read
gives for one message. `PROJECT.json`
lists them line by line with the properties that cover them, or the reason why
none does.

## 2. The modules

| Module | What it is |
|---|---|
| `PortionDelivery` | abstract: what the buffer promises to the consumers |
| `DataFile` | the buffer, its consumers, crashes and restarts; implements `PortionDelivery` |
| `MCDataFile` | its instances for TLC |
| `DataFileProofs` | theorems about `DataFile` |
| `SessionStages` | abstract: the stages of a connection and the end of a provider |
| `Session` | sessions, their parts, sinks, timers and the ConnectionManager; implements `SessionStages` |
| `MCSession` | its instances for TLC |
| `SessionProofs` | theorems about `Session` |
| `Algorithms` | the cryptographic algorithms: keys, and the chain of AES_CBC |
| `HalfDuplex` | abstract: two programs that take turns |
| `Dialogue` | the client program composed with `Session` and `Algorithms`; implements `HalfDuplex` |
| `MCDialogue` | its instance for TLC |
| `DialogueProofs` | theorems about `Dialogue`: its sessions, and that the two programs take turns |
| `AccordProofs` | theorems about what the two programs of `Dialogue` make of each other |
| `Stream` | the bytes of a client as frames (used by the next two) |
| `Framing` | abstract: the messages of a stream, in order |
| `MessageFormer` | the sink that cuts bytes into messages; implements `Framing` |
| `MCMessageFormer` | its instance for TLC |
| `MessageFormerProofs` | theorems about `MessageFormer` |
| `Daemon` | the main thread with its nested event loops, and the threads it starts and ends |
| `MCDaemon` | its instances for TLC |
| `DaemonProofs` | theorems about `Daemon`, however many shutDowns are asked |
| `ShutDownProofs` | theorems about one ordinary shutDown of `Daemon` |
| `Configuration` | the configuration file, its check and the routes it gives |
| `MCConfiguration` | its instance for TLC |
| `ConfigurationProofs` | theorems about `Configuration` |

A definition `Mut...` in one of them is a plausible slip in the definition that
follows it. No specification uses it; it documents which property the right
definition is needed for.

### 2.1 DataFile

The variable `m` is the DataFile object, with the names of its members; `phase`,
`accepting`, `running`, `shutDowns` and `closes` are the program around it (`open`
after setFile, `closed` after a closeFile, `down` when no process runs; the provider
is not closed yet; the consumers whose threads run; the calls of shutDown and of
closeFile so far). `inbox` and `confirms` are the queues of posted consumeDataPortion and confirmPortion events. `file`,
`header` and `disk` are the records in the file, the offsets the process has
written, and the offsets that were flushed. `reply`, `delivered` and `pending`
record what happened and are read by no action except `ScheduleForWrite`, which
submits a portion once.

| Action | Code |
|---|---|
| `RejectTooBig`, `WriteAtOnce`, `Enqueue` (ScheduleForWrite) | `DataFile::scheduleForWrite` and `writeImpl`, in the thread of a provider |
| `CountConfirmation`, `ReleaseFails`, and `Release` with `LetGo` and `PopNextFromQueue` (ConfirmPortion) | `confirmPortion`, `popNextFromQueue`, `readAndDistribute`, in the main thread |
| `Consume`, `ConsumeFails`, `EndConsumer` | `consumeDataPortion` of a consumer, `endThread` |
| `ShutDown`, `CloseProvider`, `CloseFile`, `Destroy` | `MyNscaMain::shutDown` and `closeAllSlot` as far as the file is concerned, `~DataFile` |
| `Crash`, `Restart` | the process dies; the next one runs `setFile` |

`m_mutex` is held from the beginning to the end of every handler that touches
the object, so a handler is one step. A crash may come between any two.

Every call of `shutDown`, a failing consumer's too, posts a `closeAllSlot`, so
`CloseFile` happens once per call: each time it deletes what the pointer that was left
points to, and the destructor does so once more. Portions are accepted until the
provider is closed, confirmations are handled until the object is gone.

Any seek or write may fail. `WriteFailures` is the set of what a failing writeImpl
leaves: nothing written, the offsets flushed, or the record up to one of its parts, in
the file or, in a new one, in the write buffer only. `ReleaseFailures` and
`ReadFailures` are the same for confirmPortion and readAndDistribute. readLine has no
error of its own but a failing seek at the end of the file: it takes a read that returns
nothing for the end of the file, so a read(2) that fails with an error is not modelled.
A crash inside writeImpl leaves on the disk what a failure at that point leaves.

`Restart` is setFile on what is on the disk. Three things may be there: no header that
was ever flushed (`NoHeader`), which leaves an empty file; two offsets; or a record that
was written over them (`TextHeader`). On an empty file setFile reads two zeros, takes 0
for the first log (`m.firstLog` is 0 there and `FirstLog` everywhere else) and returns
true: the program works, puts its first record where the offsets should be, wraps
nothing, distributes nothing, and passes its limit (finding 3). `HeaderIsCurrent` and
`WithinLimit` therefore speak of the files whose offsets setFile wrote or read. The bytes of
a record at position 0, read as offsets by a later start, are modelled as numbers larger
than any position (`Text`): names of clients are taken to be ASCII, in which four
characters make such a number. `hung` is the loop of setFile over records, which never
moves on, and `failed` a file it refuses.

What is abstracted: positions count lines, not bytes (the header is position 0,
the first record is at `FirstLog` = 1), so the file wraps between lines and not
inside one; the ids of requests, which `requestWritten` carries to nobody; which seek
or write of several in a row failed, as they differ in the message only. `write()` and
`initialRead()` are called by nobody and have no action.

### 2.2 Session

`ses[c]` is the session of connection `c`: the part that runs, its state and
timer, the unread messages of the two sinks parts read from, and the events
posted. Everything is in one thread, so a handler is one step; what is concurrent
are the posted events, the socket, the timers and the other sessions.
`HandlePosted` takes the next posted event (start a session, execute a part,
delete a part, delete the session); `Receive` reads a piece from the client,
which may hold several messages, and `ReadNext` hands up one of them, with no
event in between; `RequestTimedOut`, `PeerDisconnects`, `NewConnectionArrived`
(or `NotConnectedSocket`), `Close` and `EndThread` are the rest. `FallSilent`
says that the client will send nothing more and stays connected; it changes no
state of the program, and names the premise of the liveness properties.

Facts about Qt that the module uses: posted events are handled before sockets and
timers; a connection that is made while the signal is emitted is not called in
that emission; a queued deletion happens in the event loop. Using a null
`m_currentSessionPart` is undefined behaviour: it is modelled as the warning the
build prints, and as a crash.

The bytes, keys, hashes and logs of a message are abstracted to what the parts
decide about it (`Kinds`), what is written to the client to the kind of the answer:
`written` is what the session has written since it last began to read, and `early`
says that a client sent something before it had read the answer to the one before.
`Session::stopSession`, `Session::terminate` and the signal `error` of the sinks
have no caller or no emitter, hence no action, and neither has
`portionWritten`, which nobody emits.

### 2.3 MessageFormer

The loop of `transformReadData` is two steps per turn, so that it can be
interleaved with what its call `appendToBuffer` does: the reader may close the
sink at once. `buffer` is the local variable of the loop. The stream is any
sequence of bytes, because every sequence reads as frames in a unique way: sizes
of 0 or less are frames that hold nothing. -1 is also the mark for "size not
known yet", so a frame of that size is skipped without a message, while 0 and
the other negative sizes hand up an empty message with the next byte.

### 2.4 Daemon

The main thread waits for the other threads inside its handlers, in event loops
that handle whatever is posted: another shutDown too. So its state is a `stack` of
calls, each with the function it is in (`fn`), the place (`at`), the consumers or
providers it has yet to treat (`todo`) and whether its loop was told to return
(`exit`). `MainStep` is the innermost call going on or, while it is in a loop, the
next event of `events`. `connected` holds the connections from a signal of a thread
to the loop of one call.

| Action | Code |
|---|---|
| `StartProgram`, `StartProgramFails` | `MyNscaMain::exec` to the call of `m_app.exec` |
| `HandleInit`, `ConsumersReady`, `WrongOptions`, `ClearProviders`, `ProvidersReady` | `initDataConsumers`, `initDataProviders` |
| `StartThread`, `HandleStart`, `ThreadBegins`, `LoopOfThreadEnds`, `ThreadFinishes` | `AdditionalThread::startThread`, and the thread itself |
| `Signal`, `ShutDown`, `HandleCloseAll`, `CloseFiles`, `EndProgram` | the handler of SIGINT, `shutDown`, `closeAllSlot`, the return of `exec` and the destructor |
| `CloseProvider`, `CloseConsumer`, `EndThread`, `WaitForThread`, `Closed` | `close` of a provider and of a consumer, `AdditionalThread::endThread`; the question `isRunning` and the connection after it are two steps |
| `Listen`, `ListenFails`, `SessionStarts`, `LastSessionFinished`, `CloseManager` | `DefaultTcpProvider::run` and its ConnectionManager |
| `PrinterStarts`, `OpenPipe`, `OpenFails`, `WriteFails` | the threads of the consumers |
| `LoopReturns`, `HandleQuit`, `HandleQuitLoop` | an event loop and `QCoreApplication` |

Facts about Qt: a loop that was told to return still handles the events posted
before it does; after `QCoreApplication::exit` a new loop returns at once; a signal
of another thread comes as a posted event; what is posted to an object that is deleted
goes with it (`Exists`). Using a manager that is gone is undefined:
the build crashes, or waits for ever for a signal; both are modelled. Destroying a
QThread that runs aborts the program. `asked`, `hasty` and `settled` record what
happened and change nothing.

What happens inside a session or a file is in the other modules: here a provider has
sessions or not (`active`), and a consumer's portion fails to be written or not.
fork, the options and the reading of the key files are left out but for their failure.

### 2.5 Configuration

One action per element of the file; `open` is the element that is being read, and
`items`, `groups` and `clients` are the three maps of the parser (`groups` holds
their keys, a group may be known and empty). Names are sequences of their parts, so
`Group` and `Member` are what `getGroup` and `getGroupMember` do to the text. Both
write `ret == fullName` where `ret = fullName` is meant, and return the empty string
for a name without a separator and for `*`: the model does what the code does, and a
name without a member stands for the members of the group without an id. Routes are
added to the clients known so far, and dropped if there are none.
`CheckProgramConfiguration` is the check of the whole; `GetRoutes` what a session
asks for. A section whose id is `*` is left out.

### 2.6 Dialogue

The whole of `Session` with a client at the other end that is a program instead of any
client, and with the keys as values. The variables of `Session` are as they were; the
actions of `Session` are conjuncts of the actions here, which add the client (`prog`),
the keys of the provider (`provider`), the cipher of the session (`crypt`), and what is
under way in each direction (`toServer`, `toClient`). `flaws` records the reasons outside
the two programs for which a dialogue may fail, and is read by no action.

| Action | Code |
|---|---|
| `StartDialogue` | `DefaultTcpProvider::parseOptions`: a key file that is good, wrong or missing, or a new pair of keys |
| `Connect` | connection and first wait of `protocolTests/src/main.cpp` |
| `RequestProtocol` to `Finish` | one step of the program each: wait, readAll, checks, write |
| `Mismatch`, `TornRead`, `WaitFails`, `WriteFails` | the ways a step ends with `return -1`, or an exception |
| `ReceiveMessage` | `Receive` of `Session`, with `MessageCipher::transformReadData` |
| `HandleMessage`, `HandleEvent` | the handlers of `Session`, with `transformWriteData` of hasher and cipher for what they write |
| `TimesOut`, `Disconnected`, `Close`, `EndThread` | as in `Session` |

A step of the client is one action, since nothing of the program can be seen between its
read and its write. readAll gives all that has arrived: what follows the first message
is not looked at when the message is in the clear, and spoils it when it is encrypted.
A read may end inside a message; in the first step the part may pass for a whole one.

An encrypted message is the key and the block it was chained to, with what it says;
a cipher reads it if its own key and last block are the same (`AesReads`). What is read
with a wrong key, or out of turn, is taken for something no session understands. The RSA
algorithms are the keys they were last loaded with, because a key that cannot be loaded
clears the key but leaves the encryptor as it was. Hashes always match: nothing here
corrupts a message.

## 3. What the runs show

| Run | Instance | Shows |
|---|---|---|
| `datafile_faults` | 4 portions, 2 consumers, a file of 14 lines, 2 failing seeks or writes, 2 restarts, a shutdown asked for from outside and one for each failing consumer; 601,490 states | with wrapping, overlapping, failures anywhere, crashes, restarts (on an empty file too) and up to three calls of closeFile: no event points to a deleted portion, the count of confirmations is exact, no confirmation deletes a portion a second time, the header is current and the limit kept in every file that has its offsets, `PortionDelivery` is implemented |
| `datafile_ample` | 3 portions, a file of 60 lines, 2 failing seeks or writes, no restart; 26,825 states | while there is room: "nothing to read" means all delivered, the disk is one portion behind at most, what is distributed or read back is the oldest; while threads handle their events, what is distributed is let go |
| `datafile_full` | 2 portions, a file of 10 lines | `EmptyMeansDelivered` fails (finding 1) |
| `datafile_overlap` | 3 portions, a file of 30 lines | `WrittenIsDelivered` fails (finding 2) |
| `datafile_restart` | 3 portions, a file of 30 lines, 1 restart | `WrittenIsStored` fails (finding 3) |
| `datafile_close` | 2 portions, one shutdown | `DeletedOnce` fails (finding 5) |
| `sessions` | 2 clients, 114,728 states | parts in order and one result (`ImplementsSessionStages`), who waits has a timer, nothing of a session outlives it, logs only from authorized clients, no message left unread or unanswered, the manager waits for exactly the live sessions, a silent client's session ends |
| `session_close` | 1 client | `CloseCompletes` fails (finding 4) |
| `dialogue` | 1 client program, 2 RSA pairs, 2 AES keys, every combination of key files; 15,692 states | the ciphers of both ends stay in step, both ends agree on how it went, they never wait for each other, a dialogue between matching keys fails only for a reason outside the two programs, the two take turns (`ImplementsHalfDuplex`), and every dialogue ends |
| `former` | a stream of 11 frames, 1,903 states | every cut of the bytes gives the same messages (`ImplementsFraming`), none is forgotten while the loop waits, the loop ends |
| `daemon` | 2 providers, a printer and a writer, every cause of a shutDown and every fault, 2 shutDowns; 201,836 states | a dead manager is pointed to only while its thread is waited for; one shutDown that comes when everything runs closes providers, then consumers, then files, destroys no running thread, leaves no pipe open, and ends |
| `configuration` | 4 elements besides the sections, 2 routes out of 6; 4,247,083 states | what is accepted leads to consumers that exist, though two slips of the code cover each other; routes that name their ends in full lead exactly where they say |

**Bounds.** `MaxFaults` and `MaxRestarts` bound the faults; two faults are enough
for a failing write followed by a failing seek of the same record. A restart starts
from what is on the disk alone; two are enough for every kind of file, as the record
over the offsets takes a first restart on an empty file to be written. `MaxShutDowns` bounds
the shutdowns asked for from outside at one; a failing consumer asks for another, which
is enough for a second closeFile. The portions differ in what the code tells apart: one with two
destinations, one with as many logs as destinations, one with more (which
`readAndDistribute` reads wrongly), one larger than the file. In 14 lines the
second portion fits, the third wraps and overlaps. `datafile_ample` is the
instance where the file is never full: its properties are those that finding 1
refutes for a full file. Client `a` of `sessions` sends every kind of message in
every state, and the pairs that cross the end of a part; client `b` reaches only
the choice of the protocol, which is enough to have a second active session when
the first ends or the server closes. `dialogue` has one connection: what sessions
share is the active set, which `sessions` checks, and the keys of the provider, which
nothing changes after the start. Two pairs and two AES keys are enough for an end that
has another key than the other; wrong answers of the client stand for a program that was
built with other ones. The stream of `former` has each bad size
before a good one, before an empty one and at the end. In `daemon` two shutDowns are
enough to have one inside the other; two providers and two consumers, one of each kind,
let a fault come before, during and after the close of another. In `configuration` four
elements are a client, a provider and two consumers, and two routes two ways between
them; the routes name their ends in every form, and in wrong ones.

**Deadlock** is not checked: every one of these systems may stop (the program is
shut down and not started again, all bounds are used up, the stream ends).

**Fairness.** `DataFile`: weak fairness on handling a posted event of the main
thread and of each consumer, since a Qt event loop takes its events in order and
is blocked by none of these handlers. No fairness on clients, faults or
shutdown. `Session`: strong fairness on handling posted events, because the loop
of the thread is shared and each session's turn comes again and again; weak
fairness on the rest of a read, which runs in one call; strong fairness on the
timer of a client that is silent for good. Nothing obliges a client to send.
`Dialogue`: strong fairness on posted events, on reading from the socket and on noticing
that the client is gone, since the loop serves all connections; weak fairness on a
message that is being handled, and on the client program, whose waits return after 30 s
at the latest.
`MessageFormer`: weak fairness on the loop, which runs in one call.
`Daemon`: weak fairness on the main thread and on each other thread, since each goes
on as long as it has something to do. None on clients, on the reader of a pipe, on
signals or faults; `OrdinaryShutDownEnds` names as its premise that, again and again,
no session is active and no open waits for a reader.

## 4. What is proved

`DataFileProofs`, for all sets of consumers and portions, all destinations and
numbers of logs, every limit of the file and every number of faults, restarts and shutdowns:

| Theorem | Property |
|---|---|
| `TypeCorrect` | `TypeOK` |
| `StaysWithinLimit` | `WithinLimit` |
| `HeaderStaysCurrent` | `HeaderIsCurrent` |
| `EventsStayLive` | `EventsPointToLivePortion` |
| `OutstandingStaysCounted` | `OutstandingIsCounted` |
| `DeletedByCloses` | `DeletedByCloseOnly` |
| `Refinement` | `ImplementsPortionDelivery` |

Two inductive invariants carry these. `FileInv` is about the file: the types, offsets in
range in the header and on the disk, and an object that is `WellOpened`, with its offsets
or without. `WithOffsets`: the members are those of the header, and they and the file
keep the limit (a write that does not fit goes on at `FirstLog`, and a portion that is
larger than the file is rejected, so a write never ends past the limit).
`WithoutOffsets`, after a start on an empty file: `m_toRead` is 0 and stays 0, nothing is
ever in distribution, and once something is written the offsets are text. None of the
properties is inductive alone: that a write keeps the limit depends on where the members
point and that the condition that wraps is on, that the members are in range depends on the
header read by the last `setFile`, and that depends on what an earlier process wrote.
`DeliveryInv` is about the events, one conjunct for
each phase of the program. While the file is open (`OpenInv`), the events of the consumers
and of the main thread all carry the portion in distribution, a consumer has at
most one and only if it has not handled the portion, and the events, the handled
destinations and `m_nmbDest` balance. After the first `closeFile` (`ClosedInv`) the
portion was deleted at most once for each call of it, and the count is negative, so that
what is left are events that no confirmation will turn into another deletion; when the
program is down (`QuietInv`) there are none, and the destructor may have deleted it once
more. `RequestInv` says that what has not been written yet has been handled by
nobody, and that the queue holds a portion at most once, which is what makes the
step that takes it from the queue a `Start` or a `Finish` of `PortionDelivery`.
The refinement has a lemma for each action, which
maps it to a step of the abstract specification or to a stutter.

The properties of `datafile_ample` are proved too, of the behaviours in which no write
reaches past the end of the file and the program is not started again (`StraightOn`, a
premise about steps). Every step of `datafile_ample` is one: the three portions have 21
lines together, the file has 60, and nothing restarts. Nothing else is assumed: any write
and any confirmation may fail, portions may be queued, and the file may be emptied and filled again for ever.

| Theorem | Property |
|---|---|
| `EmptyIsDelivered` | `EmptyMeansDelivered` |
| `DiskStaysBehind` | `DiskIsOneWriteBehind` |
| `OldestIsFirst` | `OldestFirst` |
| `RereadStaysOldest` | `RereadIsOldest` |

The premise leaves out what findings 1 and 3 are about. `OrderInv` says
that the records of `pending` lie in a row between the two offsets, each line where
writeImpl put it (`Laid`, `Holds`), that `m_portion` is the first (`Chosen`), and that
the disk is one write behind at most, or behind what a failing flush or seek left
(`Behind`, given the number of failures). It follows the bytes, which the
properties do not mention, because confirmPortion decides from positions alone: that
`m_toWrite = m_currentLogEnd` means "nothing to read" needs that records do not overlap,
and that the next one is read from the right place needs that its lines are still there
(`RecordStored`, `RecordRead`). That the failing writes disturb nothing needs that they
too end before the limit and leave the offsets alone (`FailureLeaves`,
`LaidHasOffsets`), and `RequestInv` of `DeliveryInv` that the portion taken from the
queue is one that has not been stored.

`SessionProofs`, for any number of connections, whatever their clients send, one message
or several at a time:

| Theorem | Property |
|---|---|
| `TypeCorrect` | `TypeOK` |
| `ActiveCorrect` | `ActiveIsUnreported` |
| `AuthorizedLogs` | `LogsOnlyFromAuthorized` |
| `EndInOrder` | `PartsEndBeforeSession` |
| `TimedWaits` | `WaitingIsTimed` |
| `NeverBehind` | `NothingLeftUnread` |
| `SessionRefinement` | `ImplementsSessionStages` |

The invariant `IInv` says that every session is `Good`, that the active set is that of
the sessions which have not reported, and that the provider is closed only when it is
empty. A good session is in one of four phases: its part listens and is timed
(`Listens`, `Timed`), an event is posted that starts the next part (`Pending`), it has
reported and waits to be deleted (`Over`), or it is not there (`Gone`). `Chain` adds what
is to come after each part and what the client has shown before it began: without it a
part could follow another out of order, and logs be taken before the authorization.
`Turn` adds, of a client that waits for its answers, that at most one message is under
way. The handlers are operators on a session record, so most of the lemmas are about one
session and no behaviour: whatever message a part reads, in the middle of whatever read,
it leaves a good session behind; `GoesKeeps` lifts them to the steps. `ReadWell` covers
the error paths of `keyReceived`, where `finished` is emitted two or three times: the
second and third find no part, and change neither the phase nor the first report.

`DialogueProofs`, for any connections, keys and key files, and any faults:

| Theorem | Property |
|---|---|
| `SessionsOfDialogues` | every dialogue, seen from the sessions, is a behaviour of `Session` |
| `DialogueTyped` | `DialogueTypeOK` |
| `TakeTurns` | `ImplementsHalfDuplex` |

The first is the composition: the client program of `Dialogue` is one of the clients that
`Session` allows, so each theorem of `SessionProofs` holds in a dialogue too, and `IInv`
is at hand for the rest. `Carries` is what the dialogue adds, for one connection: the
client never looks impatient to the session; at most one message is under way; and while
one is and the session's socket is open, the session has read all there was and written
exactly one message since. Neither end takes turns by itself: that the client writes
only after an answer needs that the session writes one answer for each message, and
that the session does needs `Turn` of `IInv`, which holds only of a client that waits.
The refinement has a lemma for each action (`ConnectTakesTurn`, `ClientTakesTurn`,
`ReceiveTakesTurn`, ...), each of which keeps `DInv` and passes the floor of one
connection as `HalfDuplex` allows, or leaves it.

`AccordProofs`, on top of it, for the same dialogues:

| Theorem | Property |
|---|---|
| `ChainsStayInStep` | `ChainsInStep` |
| `OneAlwaysSpeaks` | `OneHasTheFloor` |
| `EndsAlwaysAgree` | `EndsAgree` |
| `FailuresHaveReasons` | `FailsForAReason` |

All four come from `AccordInductive`: the invariant `AInv` says, beside `IInv` and
`DInv`, that the two programs of each connection agree (`Agree`). `Situation` is the
script: nine messages of the client, each answered by one of the session. `At` is how many
of them a session has dealt with, and the client is at the step of the message under
way, of the one being read, or of neither when one of them rests. `Sealing` is the
state of the ciphers: until the client's key is taken they are new or loaded with it
(`BeforeSeal`), and then each writer's chain is the reader's, or one message ahead
when that message is under way (`InChain`, `Coupled`). `Fate` is what the end of one
program tells of the other, and `HasKey` and `OneKey` whose keys they work with. None of
these is inductive alone. That a message is understood needs that the ciphers are in
step; that they are in step needs that nobody encrypts twice in a row (`DInv`) and
that both begin to encrypt at the same message (`Situation`); and that only an answer
of the script comes needs that the last message was understood. Where the
script forks is kept in view: a session whose key does not match reads noise at three of
the messages (`Handles`), and a session without a route for its client tells it `NACK`
and reports success all the same (`Fate`). As in `SessionProofs`, what a handler does is
proved of one session (`Replies`, `Refuses`, `Passes`, `Sticks`), and the steps of the
dialogue then need only the message before and the one after.

`MessageFormerProofs`, for every stream of bytes and every cut:
`FormerTypeCorrect` (`TypeOK`), `FormerCatchesUp` (`IdleIsCaughtUp`),
`FormerRefinement` (`ImplementsFraming`). The inductive invariant `FormerInv`
says that the bytes left in the loop are the last ones read, and that the bytes
dealt with are a whole number of frames followed by what `m_size` and
`m_receiveBuffer` hold: a part of the header of the next frame, or a part of its
message.

`ConfigurationProofs`, for every file, with any names and any number of elements:
`TypeCorrect` (`TypeOK`), `RoutesAlwaysLeadSomewhere` (`RoutesLeadSomewhere`),
`FullNamesStayExact` (`FullNamesAreExact`). `Checked` says that what was accepted has
passed the check; that the routes then lead somewhere needs that no name a session asks
with has the group `*`, which is true only because `getGroup` returns the empty string
for `*` (the proof fails, as the mutant does, once that is repaired and the condition at
ConfigurationParser.cpp:1138 is not). `EachHasItsRoutes` says that, while no client has
come after a route, each client has exactly the routes submitted to it.

`DaemonProofs`, for any lists of providers and consumers, every fault, and however many
shutDowns are asked, at whatever moment:

| Theorem | Property |
|---|---|
| `TypeCorrect` | `TypeOK` |
| `ManagersDangleWhileEnding` | `DanglingWhileEnding` |

A call may come on top of any call that waits, so `GInv` says only what is left of
order. `ConnectedOK`: the signals that are connected to a loop are those of the thread at
the head of its call's list; without it a loop could return for the end of another
thread. `StartsOnce`: one call at most starts threads, and those it has yet to start were
never started; without it a thread that is over could come back, with its manager.
`EndsOK`: whoever quits a thread waits for its end, and its loop is told to exit only
when the thread is over; `DanglingWhileEnding` is its last part, and is not inductive
without the others. `StackOK` and `EventsOK` say what may be on the stack and in the
queue. The actions fall into three sorts, those of the other threads, those of the
innermost call, and those by which calls come, return or are told something
(`ThreadEffect`, `TopMoves`, `CallsChange`); what a sort keeps is proved once, and each
action is shown to be of its sort.

`ShutDownProofs`, for any lists of providers and consumers and every fault, of the runs
with at most one shutDown, asked after the initialisation (`Ordinary`):

| Theorem | Property |
|---|---|
| `OrdinaryStopsInOrder` | `StopsInOrder` |
| `OrdinaryEndsClean` | `CleanEnd` |

In these runs there is at most one call above the main loop (`Stage`), and its place
tells of each thread whether it works, is being started or ended, or is idle (`Lives`,
`Pipes`). That is not inductive alone either: that a close returns no sooner than its
thread ends, and that no thread starts twice, comes from `GInv`. `MCDaemon` breaks both
properties as soon as a mutant closes in another order or forgets a wait.

The assumptions are the named ASSUMEs on the constants (types, that the lists of
`Daemon` name nobody twice, in `Stream` that the frames follow one another, and in
`Dialogue` that a generated initialisation vector is not the empty string, which
generateKey of AESAlgorithmCBCMode makes one block long); TLC evaluates them in the
runs.

Only model-checked: every liveness property (`DistributedIsReleased`,
`WrittenIsDelivered`, `SilentSessionEnds`, `CloseCompletes`, `LoopEnds`,
`OrdinaryShutDownEnds`, `DialogueEnds`), since
the prover does not reason about fairness and ENABLED. Every invariant, action property
and refinement that a passing run checks is a theorem, those of `datafile_ample` under
the premise `StraightOn`.

## 5. Findings

1. A full file loses portions (`datafile_full`, DataFile.cpp:498): scheduleForWrite
   never looks at the free space. A record that ends exactly where the one in
   distribution ends is taken for an empty file.
2. A portion written while another is in distribution is never delivered
   (`datafile_overlap`, DataFile.cpp:475): readAndDistribute invokes the slot with
   one argument of three, and the call fails.
3. A program that was killed and is started again may have lost what it answered for,
   though DataChannel.h:58-60 calls it persistently stored (`datafile_restart`). TLC
   shows the shortest way: writeImpl writes the offsets last and does not flush them
   (DataFile.cpp:377), so the last portion is missing from the disk; of a file that is not
   full `DiskIsOneWriteBehind` says that it is the last one at most. Two more ways are
   in the model, and are reported once `WrittenIsStored` leaves this one out. A program that
   was killed before its new file was first flushed is started on an empty file, which it
   fills without a limit and never reads (`WithoutOffsets`; DataFile.cpp:88 and 314). And
   with pending records that do not begin at the first one the program never comes out
   of setFile: the loop means to skip records, and reads the same one each time
   (`hung`; DataFile.cpp:114 and 137).
4. A provider that is closed waits for a session that waits for `portionWritten`,
   for ever (`session_close`, ConnectionManager.cpp:38).
5. A portion that is in distribution at a shutdown is deleted twice (`datafile_close`,
   DataFile.cpp:204): closeFile leaves `m_portion`, the destructor deletes it again, and
   so does a second closeFile after a second shutDown. A confirmation never does
   (`DeletedByCloseOnly`).

More disagreements are built into the models. A session whose key has a bad hash or
length, and is otherwise good, reports its end several times with different results
(CryptographyInitializer.cpp:224): the abstract specification goes by the first report,
and so does the manager. A second shutDown that is handled while the first waits for the thread of a provider
finds m_connectionManager still set (DefaultTcpProvider.cpp:50; it is cleared at line 58
only) and waits for ever for a manager that is gone, although MyNscaMain.h:63 says of shutDown
"Shuts down the whole program": `OrdinaryShutDownEnds` is about one shutDown, and TLC
finds the endless wait without that premise. A shutDown that comes while the threads are being started
closes them before they start; they start after it, and are destroyed while they run
(MyNscaMain.cpp:509): `Ordinary` leaves it out. Routes that
name a group or `*` do not do what ConfigurationParser.h:418 says (getGroup returns the
empty string, ConfigurationParser.cpp:1171), and `FullNamesAreExact` leaves them out.
A thread that ends by itself while it is asked whether it runs may be waited for
without end (AdditionalThread.cpp:28), and `Ordinary` leaves that out too.

## 6. Plan

In this order; the most important behaviour, the delivery of logs, came first.

1. *Done*: `DataFile` with `PortionDelivery` and its proofs; `Session` with
   `SessionStages` and its proofs; `MessageFormer` with `Framing` and its proofs;
   `Daemon` and its proofs; `Configuration` and its proofs; `Dialogue` with `HalfDuplex`
   and `Algorithms`.
2. *Done*: `DialogueProofs`, on top of `SessionProofs`, and `AccordProofs` on top of both.
3. The composition of `Daemon` with `DataFile`: a shutDown in the middle of a
   distribution, with the events in the queue of the one main thread.

## 7. Not modelled

- Factories and registration: maps that are filled before main and only read.
- The ciphers and hashes themselves: pure functions of the Crypto++ library. What the
  wrappers keep between two calls is in `Algorithms`; SHA256Algorithm keeps nothing.
- Logger: output only.
- Text formats (a line of log, the configuration's XML, the fields of a message).
- The signal handler's use of functions that are not safe in one: below the level
  of these models.
