------------------------------ MODULE DataFile ------------------------------
(***************************************************************************)
(* The persisted buffer of one data provider (Base/src/DataFile.cpp): a    *)
(* circular file of portions of logs, the pointers into it, and the        *)
(* distribution of one portion at a time to the data consumers, which run  *)
(* in threads of their own.                                                *)
(*                                                                         *)
(* scheduleForWrite is called in the provider's thread, confirmPortion     *)
(* runs from the main thread's event queue; m_mutex makes each one atomic. *)
(* consumeDataPortion runs from the event queue of its consumer's thread.  *)
(*                                                                         *)
(* Positions in the file are counted in lines, not bytes: the two offsets  *)
(* at its start take position 0, the first record starts at FirstLog = 1,  *)
(* and a write that wraps is cut between two lines. -1 is the code's       *)
(* "none". The record m holds the members m_... of the class.              *)
(*                                                                         *)
(* A definition Mut... is a plausible slip in the one that follows it, for *)
(* comparison; no specification uses it.                                   *)
(***************************************************************************)
EXTENDS Integers, Sequences, FiniteSets

CONSTANTS
    Consumers,    \* the data consumers
    Portions,     \* the portions clients send: one scheduleForWrite for each
    Dest,         \* [Portions -> Seq(Consumers)], in the order of the header
    NmbOfLogs,    \* [Portions -> Nat]
    MaxSize,      \* m_maxSize: the first position past the end of the file
    MaxFaults,    \* bound: failing seeks and writes of file or pipe
    MaxRestarts,  \* bound: starts of the program after the first
    MaxShutDowns, \* bound: shutdowns asked for from outside
    Null,         \* the null m_portion
    Reread        \* an m_portion that readAndDistribute read back

ASSUME DataFileAssumption ==
    /\ Dest \in [Portions -> Seq(Consumers)]
    /\ \A p \in Portions :
          /\ Dest[p] # <<>>
          /\ \A i, j \in DOMAIN Dest[p] : Dest[p][i] = Dest[p][j] => i = j
    /\ NmbOfLogs \in [Portions -> Nat]
    /\ MaxSize \in Nat \ {0, 1}
    /\ MaxFaults \in Nat
    /\ MaxRestarts \in Nat
    /\ MaxShutDowns \in Nat
    /\ Null \notin Portions
    /\ Reread \notin Portions
    /\ Null # Reread
    /\ IsFiniteSet(Consumers)

VARIABLES
    m,          \* the members of the DataFile object, and the file
    phase,      \* what the program is doing with the file
    shutDowns,  \* calls of MyNscaMain::shutDown, since the program started
    accepting,  \* the provider of this file is not closed yet
    closes,     \* calls of closeFile, since the program started
    running,    \* the consumers whose threads run
    inbox,      \* [Consumers -> Seq]: consumeDataPortion events posted
    confirms,   \* confirmPortion events posted to the main thread
    reply,      \* what scheduleForWrite answered for each portion
    delivered,  \* <<consumer, portion>>: consumed and confirmed
    pending,    \* the portions stored and not let go yet, oldest first
    faults,     \* failing seeks and writes so far
    restarts    \* starts of the program so far

vars == <<m, phase, shutDowns, accepting, closes, running, inbox, confirms,
          reply, delivered, pending, faults, restarts>>

(* The program around the object.                                          *)
daemonVars == <<phase, accepting, closes, running, restarts>>

-----------------------------------------------------------------------------
(* Records: the lines of a portion in the file                             *)

Min(a, b) == IF a <= b THEN a ELSE b
Max(a, b) == IF a >= b THEN a ELSE b

DestSet == [p \in Portions |-> {Dest[p][i] : i \in DOMAIN Dest[p]}]

(* A line is a tagged value; Hole is what no record covers.                *)
Hole == <<"hole", 0>>
Line ==
    ({"client", "provider"} \X Portions) \cup ({"count"} \X Nat)
      \cup ({"dest"} \X Consumers) \cup ({"log"} \X (Portions \X Nat))
      \cup {Hole}

Header(p) ==
    <<<<"client", p>>, <<"provider", p>>, <<"count", Len(Dest[p])>>>>
      \o [i \in 1..Len(Dest[p]) |-> <<"dest", Dest[p][i]>>]

LogLines(p) == [i \in 1..NmbOfLogs[p] |-> <<"log", <<p, i>>>>]

LogsArray(p) == <<<<"count", NmbOfLogs[p]>>>> \o LogLines(p)

Size(p) == Len(Header(p)) + Len(LogsArray(p))

-----------------------------------------------------------------------------
(* The circular file                                                       *)

FirstLog == 1

LineAt(f, i) == IF i \in 1..Len(f) THEN f[i] ELSE Hole

(* The file after lines are written at position pos.                       *)
Overwrite(f, pos, lines) ==
    [i \in 1..Max(Len(f), pos + Len(lines) - 1) |->
        IF i \in pos..(pos + Len(lines) - 1)
        THEN lines[i - pos + 1] ELSE LineAt(f, i)]

(* The condition at line 314 compares pos with the truth value of          *)
(* m_toRead > 0 and yields m_toRead or 0: neither array looks at m_toRead,  *)
(* and the limit is looked at unless m_toRead is 0.                        *)
Wraps(s, pos, lines) == s.toRead # 0 /\ pos + Len(lines) > MaxSize

(* A write that does not fit before MaxSize goes on at FirstLog, but the   *)
(* code takes the length of what is left from the position it has already  *)
(* moved to.                                                               *)
MutTailUnclamped(lines) == Len(lines) - (MaxSize - FirstLog)

TailSize(lines) == Max(0, Len(lines) - (MaxSize - FirstLog))

(* The position after lines are written at pos.                            *)
PlacedEnd(s, pos, lines) ==
    IF Wraps(s, pos, lines) THEN FirstLog + TailSize(lines) ELSE pos + Len(lines)

(* The file when what fits before MaxSize is written.                      *)
FirstPart(s, f, pos, lines) ==
    IF Wraps(s, pos, lines)
    THEN Overwrite(f, pos, SubSeq(lines, 1, Min(Len(lines), MaxSize - pos)))
    ELSE f

MutPlacedUncut(s, f, pos, lines) == Overwrite(f, pos, lines)

Placed(s, f, pos, lines) ==
    IF Wraps(s, pos, lines)
    THEN Overwrite(FirstPart(s, f, pos, lines), FirstLog,
                   SubSeq(lines, Len(lines) - TailSize(lines) + 1, Len(lines)))
    ELSE Overwrite(f, pos, lines)

(* readLine, i lines after position pos: at the end of the file it goes on *)
(* at FirstLog.                                                            *)
ReadPos(f, pos, i) ==
    IF pos + i <= Len(f) THEN pos + i ELSE pos + i - Len(f) + FirstLog - 1

ReadLine(f, pos, i) == LineAt(f, ReadPos(f, pos, i))

-----------------------------------------------------------------------------
(* The members after the steps of the code                                 *)

(* The offsets read from a file without any are two zeros. Text is what the *)
(* characters of a record read as: a number larger than any position.      *)
Text == MaxSize + 1

NoHeader == [toWrite |-> 0, toRead |-> 0]
TextHeader == [toWrite |-> Text, toRead |-> Text]
EmptyHeader == [toWrite |-> FirstLog, toRead |-> -1]

(* setFile on a file that does not exist: the offsets are written, but     *)
(* they stay in QFile's write buffer; m.disk is what a crash would leave.  *)
NewFile ==
    [file |-> <<>>, disk |-> NoHeader, header |-> EmptyHeader,
     firstLog |-> FirstLog, toRead |-> -1, toWrite |-> FirstLog,
     currentLogEnd |-> -1, portion |-> Null, nmbDest |-> -1,
     rereadLogs |-> <<>>, freed |-> 0, requestQueue |-> <<>>]

GetFreeSpaceSize(s) ==
    IF s.toRead = -1 THEN MaxSize - s.firstLog
    ELSE IF s.toRead < s.toWrite
         THEN MaxSize - s.firstLog - (s.toWrite - s.toRead)
         ELSE s.toRead - s.toWrite

(* writeImpl hands the portion over only if nothing is stored before it.   *)
MutDispatchesAlways(s) == TRUE

Dispatches(s) == s.toRead < 0 /\ s.portion = Null

(* The header, then the logs.                                              *)
LogsStart(s, p) == PlacedEnd(s, s.toWrite, Header(p))
WriteEnd(s, p) == PlacedEnd(s, LogsStart(s, p), LogsArray(p))
WithHeader(s, p) == Placed(s, s.file, s.toWrite, Header(p))
WithRecord(s, p) == Placed(s, WithHeader(s, p), LogsStart(s, p), LogsArray(p))

(* The offsets once the record is stored: one at position 0 covers them.   *)
Beneath(s) == IF s.toWrite = 0 THEN TextHeader ELSE s.header

MutBothOffsets(s, p) == [toWrite |-> WriteEnd(s, p), toRead |-> s.toWrite]

NewOffsets(s, p) ==
    [toWrite |-> WriteEnd(s, p),
     toRead  |-> IF s.toRead < 0 THEN s.toWrite ELSE Beneath(s).toRead]

(* writeImpl that succeeds. Every seek flushes what was written before it; *)
(* the new offsets are written last and stay in the write buffer.          *)
MutWrittenMovesEnd(s, p) ==
    [s EXCEPT
        !.file = WithRecord(s, p),
        !.disk = Beneath(s),
        !.header = NewOffsets(s, p),
        !.toWrite = WriteEnd(s, p),
        !.toRead = IF s.toRead < 0 THEN s.toWrite ELSE @,
        !.currentLogEnd = WriteEnd(s, p),
        !.portion = IF Dispatches(s) THEN p ELSE @,
        !.nmbDest = IF Dispatches(s) THEN Len(Dest[p]) ELSE @,
        !.freed = IF Dispatches(s) THEN 0 ELSE @]

Written(s, p) ==
    [s EXCEPT
        !.file = WithRecord(s, p),
        !.disk = Beneath(s),
        !.header = NewOffsets(s, p),
        !.toWrite = WriteEnd(s, p),
        !.toRead = IF s.toRead < 0 THEN s.toWrite ELSE @,
        !.currentLogEnd = IF Dispatches(s) THEN WriteEnd(s, p) ELSE @,
        !.portion = IF Dispatches(s) THEN p ELSE @,
        !.nmbDest = IF Dispatches(s) THEN Len(Dest[p]) ELSE @,
        !.freed = IF Dispatches(s) THEN 0 ELSE @]

(* writeImpl that fails: before anything is written, between two parts of  *)
(* the record, or after it. In a new file the first seek goes where the    *)
(* file stands already and flushes nothing.                                *)
PartlyWritten(s, p) ==
    {FirstPart(s, s.file, s.toWrite, Header(p)), WithHeader(s, p),
     FirstPart(s, WithHeader(s, p), LogsStart(s, p), LogsArray(p)),
     WithRecord(s, p)}

WriteFailures(s, p) ==
    {s, [s EXCEPT !.disk = s.header]} \cup
    UNION {{[s EXCEPT !.file = f, !.disk = d, !.header = Beneath(s)] :
              f \in PartlyWritten(s, p)} :
              d \in {Beneath(s)} \cup ({s.disk} \cap {NoHeader})}

(* What a record at pos says, read line by line: the number of its         *)
(* destinations, that they are consumers, and the logs. The number of logs *)
(* is taken from the line that holds the number of destinations.           *)
DestCount(f, pos) == ReadLine(f, pos, 2)[2]

WellFormed(f, pos) ==
    /\ ReadLine(f, pos, 2)[1] = "count"
    /\ \A i \in 1..DestCount(f, pos) : ReadLine(f, pos, 2 + i)[1] = "dest"

LogsCount(f, pos) == DestCount(f, pos)

MutReadsCountAsLog(f, pos) ==
    [i \in 1..LogsCount(f, pos) |-> ReadLine(f, pos, 2 + DestCount(f, pos) + i)]

ReadLogs(f, pos) ==
    [i \in 1..LogsCount(f, pos) |-> ReadLine(f, pos, 3 + DestCount(f, pos) + i)]

RecordEnd(f, pos) ==
    ReadPos(f, pos, 3 + DestCount(f, pos) + LogsCount(f, pos)) + 1

(* readAndDistribute: seeks, which flushes, and reads the next record. It  *)
(* calls consumeDataPortion with one argument instead of three; no such    *)
(* slot exists, so invokeMethod fails and no consumer is notified.         *)
ReadAndDistribute(s) ==
    IF s.toRead = -1 THEN s
    ELSE IF WellFormed(s.file, s.toRead)
    THEN [s EXCEPT !.disk = s.header,
                   !.currentLogEnd = RecordEnd(s.file, s.toRead),
                   !.portion = Reread,
                   !.nmbDest = DestCount(s.file, s.toRead),
                   !.rereadLogs = ReadLogs(s.file, s.toRead),
                   !.freed = 0]
    ELSE [s EXCEPT !.disk = s.header]

(* readAndDistribute when a seek fails, its own or the one readLine does at *)
(* the end of the file: nothing is read and the portion stays null.        *)
ReadFailures(s) == {s, [s EXCEPT !.disk = s.header]}

(* delete m_portion; m_portion = 0L                                        *)
Deleted(s) == [s EXCEPT !.portion = Null, !.nmbDest = 0, !.freed = @ + 1]

(* confirmPortion, nothing left to read: the offsets are reset and flushed.*)
Emptied(s) ==
    LET empty == [toWrite |-> s.firstLog, toRead |-> -1]
    IN  [s EXCEPT !.header = empty, !.disk = empty,
                  !.currentLogEnd = -1, !.toRead = -1, !.toWrite = s.firstLog]

(* confirmPortion, more to read. The seek to the offsets flushes.          *)
Advanced(s) ==
    [s EXCEPT !.header = [toWrite |-> s.toWrite, toRead |-> s.currentLogEnd],
              !.disk = s.header,
              !.toRead = s.currentLogEnd, !.currentLogEnd = -1]

(* The members before popNextFromQueue, when nothing fails and when the    *)
(* flush or the read that follows does; the offsets are written.           *)
IsDrained(s) == s.toWrite = s.currentLogEnd

Released(s) ==
    IF IsDrained(s) THEN Emptied(Deleted(s))
    ELSE ReadAndDistribute(Advanced(Deleted(s)))

ReleaseFailures(s) ==
    IF IsDrained(s) THEN {[Emptied(Deleted(s)) EXCEPT !.disk = s.header]}
    ELSE ReadFailures(Advanced(Deleted(s)))

-----------------------------------------------------------------------------
Init ==
    /\ m = NewFile
    /\ phase = "open"
    /\ shutDowns = 0
    /\ accepting = TRUE
    /\ closes = 0
    /\ running = Consumers
    /\ inbox = [c \in Consumers |-> <<>>]
    /\ confirms = <<>>
    /\ reply = [p \in Portions |-> "none"]
    /\ delivered = {}
    /\ pending = <<>>
    /\ faults = 0
    /\ restarts = 0

Fault(n) == faults + n <= MaxFaults /\ faults' = faults + n

(* Queued invocations of consumeDataPortion on the destinations of p.      *)
MutNotifyEveryone(p) == inbox' = [c \in Consumers |-> Append(inbox[c], p)]

MutNotifyNoSlot(p) == p \in Portions /\ UNCHANGED inbox

Notify(p) ==
    inbox' = [c \in Consumers |->
                IF c \in DestSet[p] THEN Append(inbox[c], p) ELSE inbox[c]]

(* writeImpl on members s for portion p, when it succeeds.                 *)
WriteImpl(s, p) ==
    /\ m' = Written(s, p)
    /\ IF Dispatches(s) THEN Notify(p) ELSE UNCHANGED inbox

Stored(s, p) == [of |-> p, end |-> WriteEnd(s, p)]

(***************************************************************************)
(* scheduleForWrite, in the provider's thread, through                     *)
(* DataChannel::scheduleForWrite. There is no look at the free space.      *)
(***************************************************************************)
Schedule(p) ==
    /\ phase = "open"
    /\ accepting
    /\ reply[p] = "none"
    /\ UNCHANGED <<daemonVars, shutDowns, confirms, delivered>>

RejectTooBig(p) ==
    /\ Schedule(p)
    /\ MaxSize < Size(p)
    /\ reply' = [reply EXCEPT ![p] = "rejected"]
    /\ UNCHANGED <<m, inbox, pending, faults>>

WriteAtOnce(p) ==
    /\ Schedule(p)
    /\ MaxSize >= Size(p)
    /\ m.requestQueue = <<>>
    /\ WriteImpl(m, p)
    /\ reply' = [reply EXCEPT ![p] = "written"]
    /\ pending' = Append(pending, Stored(m, p))
    /\ UNCHANGED faults

(* The write failed, or others wait already: the request is queued.        *)
Enqueue(p) ==
    /\ Schedule(p)
    /\ MaxSize >= Size(p)
    /\ \/ /\ m.requestQueue # <<>>
          /\ m' = [m EXCEPT !.requestQueue = Append(@, p)]
          /\ UNCHANGED faults
       \/ /\ m.requestQueue = <<>>
          /\ Fault(1)
          /\ \E s \in WriteFailures(m, p) :
                m' = [s EXCEPT !.requestQueue = <<p>>]
    /\ reply' = [reply EXCEPT ![p] = "queued"]
    /\ UNCHANGED <<inbox, pending>>

(***************************************************************************)
(* confirmPortion, in the main thread. m_nmbDest is -1 once the file is    *)
(* closed, so a late confirmation only counts further down.                *)
(***************************************************************************)
Confirm ==
    /\ phase \in {"open", "closed"}
    /\ confirms # <<>>
    /\ confirms' = Tail(confirms)
    /\ UNCHANGED <<daemonVars, shutDowns, delivered>>

MutIsLastEarly == Head(confirms) = m.portion /\ m.nmbDest <= 2

IsLast == Head(confirms) = m.portion /\ m.nmbDest = 1

CountConfirmation ==
    /\ Confirm
    /\ ~IsLast
    /\ m' = IF Head(confirms) = m.portion
            THEN [m EXCEPT !.nmbDest = @ - 1] ELSE m
    /\ UNCHANGED <<inbox, reply, pending, faults>>

(* The last confirmation, but the offsets cannot be written.               *)
ReleaseFails ==
    /\ Confirm
    /\ IsLast
    /\ IF phase = "closed" THEN UNCHANGED faults ELSE Fault(1)
    /\ m' \in {Deleted(m), [Deleted(m) EXCEPT !.disk = m.header]}
    /\ UNCHANGED <<inbox, reply, pending>>

(* The last confirmation: the portion is let go and the next one is read.  *)
Release ==
    /\ Confirm
    /\ phase = "open"
    /\ IsLast

(* The members after it, with n failures.                                  *)
LetGo(n) == IF n = 0 THEN {Released(m)} ELSE ReleaseFailures(m)

(* Then popNextFromQueue, on these members s: it takes at most one request *)
(* from the queue, which is dropped when its write fails.                  *)
CanPop(s) ==
    /\ s.requestQueue # <<>>
    /\ GetFreeSpaceSize(s) >= Size(Head(s.requestQueue))

Dequeued(s) == [s EXCEPT !.requestQueue = Tail(@)]

PopNothing(s, n) ==
    /\ ~CanPop(s)
    /\ Fault(n)
    /\ m' = s
    /\ pending' = Tail(pending)
    /\ UNCHANGED <<inbox, reply>>

PopRequest(s, n) ==
    /\ CanPop(s)
    /\ Fault(n)
    /\ LET p == Head(s.requestQueue)
       IN  /\ WriteImpl(Dequeued(s), p)
           /\ reply' = [reply EXCEPT ![p] = "written"]
           /\ pending' = Append(Tail(pending), Stored(Dequeued(s), p))

DropRequest(s, n) ==
    /\ CanPop(s)
    /\ Fault(n + 1)
    /\ LET p == Head(s.requestQueue)
       IN  /\ m' \in WriteFailures(Dequeued(s), p)
           /\ reply' = [reply EXCEPT ![p] = "dropped"]
    /\ pending' = Tail(pending)
    /\ UNCHANGED inbox

PopNextFromQueue(s, n) == PopNothing(s, n) \/ PopRequest(s, n) \/ DropRequest(s, n)

(***************************************************************************)
(* The consumers' threads: consumeDataPortion writes the logs out and      *)
(* posts the confirmation; on an error it asks for a shutdown instead.     *)
(***************************************************************************)
Take(c) ==
    /\ phase = "open"
    /\ c \in running
    /\ inbox[c] # <<>>
    /\ inbox' = [inbox EXCEPT ![c] = Tail(@)]
    /\ UNCHANGED <<m, daemonVars, reply, pending>>

Consume(c) ==
    /\ Take(c)
    /\ confirms' = Append(confirms, Head(inbox[c]))
    /\ delivered' = delivered \cup {<<c, Head(inbox[c])>>}
    /\ UNCHANGED <<shutDowns, faults>>

ConsumeFails(c) ==
    /\ Take(c)
    /\ Fault(1)
    /\ shutDowns' = shutDowns + 1
    /\ UNCHANGED <<confirms, delivered>>

(***************************************************************************)
(* Shutdown. Each call of shutDown posts a closeAllSlot of its own, to run *)
(* in the main loop or inside one that waits: the provider is closed, then *)
(* the threads of the consumers are ended, with events still in their      *)
(* queues, then the file is closed. At the end the object is destroyed.    *)
(* The main thread handles confirmations while it waits for the threads.   *)
(***************************************************************************)
ShutDown ==
    /\ phase \in {"open", "closed"}
    /\ shutDowns < MaxShutDowns
    /\ shutDowns' = shutDowns + 1
    /\ UNCHANGED <<m, daemonVars, inbox, confirms, reply, delivered, pending, faults>>

CloseProvider ==
    /\ phase = "open"
    /\ shutDowns > 0
    /\ accepting
    /\ accepting' = FALSE
    /\ UNCHANGED <<m, phase, shutDowns, closes, running, restarts, inbox, confirms,
                   reply, delivered, pending, faults>>

EndConsumer(c) ==
    /\ phase = "open"
    /\ ~accepting
    /\ c \in running
    /\ running' = running \ {c}
    /\ UNCHANGED <<m, phase, shutDowns, accepting, closes, restarts, inbox, confirms,
                   reply, delivered, pending, faults>>

(* closeFile deletes m_portion and leaves the pointer.                     *)
MutClosedKeepsCount(s) ==
    [s EXCEPT !.disk = s.header,
              !.freed = IF s.portion # Null THEN @ + 1 ELSE @]

ClosedFile(s) ==
    [s EXCEPT !.disk = s.header,
              !.nmbDest = IF s.portion # Null THEN -1 ELSE @,
              !.freed = IF s.portion # Null THEN @ + 1 ELSE @]

CloseFile ==
    /\ phase \in {"open", "closed"}
    /\ ~accepting
    /\ running = {}
    /\ closes < shutDowns
    /\ phase' = "closed"
    /\ closes' = closes + 1
    /\ m' = ClosedFile(m)
    /\ UNCHANGED <<shutDowns, accepting, running, restarts, inbox, confirms, reply,
                   delivered, pending, faults>>

(* ~DataFile deletes m_portion if the pointer is not null.                 *)
Destroyed(s) == [s EXCEPT !.freed = IF s.portion # Null THEN @ + 1 ELSE @]

Destroy ==
    /\ phase = "closed"
    /\ phase' = "down"
    /\ m' = Destroyed(m)
    /\ inbox' = [c \in Consumers |-> <<>>]
    /\ confirms' = <<>>
    /\ UNCHANGED <<shutDowns, accepting, closes, running, restarts, reply,
                   delivered, pending, faults>>

(***************************************************************************)
(* Crash and restart. The process dies with what its write buffer held;    *)
(* setFile reads what is on the disk.                                      *)
(***************************************************************************)
Crash ==
    /\ phase # "down"
    /\ restarts < MaxRestarts
    /\ phase' = "down"
    /\ running' = {}
    /\ inbox' = [c \in Consumers |-> <<>>]
    /\ confirms' = <<>>
    /\ UNCHANGED <<m, shutDowns, accepting, closes, restarts, reply, delivered,
                   pending, faults>>

(* The members setFile leaves: those of a new object, with the offsets on  *)
(* the disk. A file that was never flushed is empty: its first log is      *)
(* where the reading of the offsets stopped, at 0.                         *)
Reopened(s) ==
    [NewFile EXCEPT
        !.file = IF s.disk = NoHeader THEN <<>> ELSE s.file,
        !.disk = s.disk, !.header = s.disk,
        !.firstLog = IF s.disk = NoHeader THEN 0 ELSE FirstLog,
        !.toWrite = s.disk.toWrite, !.toRead = s.disk.toRead]

(* What becomes of the program once setFile has read the offsets. With     *)
(* m_toRead at the first log the loop over the records ends before it      *)
(* begins; anywhere else it reads the record at m_toRead again and again,  *)
(* or finds it malformed. Where the offsets are text that is open.         *)
SetFileResults(s) ==
    IF FirstLog + Len(s.file) > MaxSize THEN {"failed"}
    ELSE IF s.toRead < 0 THEN {"open"}
    ELSE IF s.toWrite > MaxSize THEN {"failed"}
    ELSE IF s.toRead = s.firstLog THEN {"open"}
    ELSE IF s.toRead = Text THEN {"hung", "failed"}
    ELSE IF WellFormed(s.file, s.toRead) THEN {"hung"} ELSE {"failed"}

Restart ==
    /\ phase = "down"
    /\ restarts < MaxRestarts
    /\ restarts' = restarts + 1
    /\ m' = Reopened(m)
    /\ phase' \in SetFileResults(m')
    /\ shutDowns' = 0
    /\ accepting' = TRUE
    /\ closes' = 0
    /\ running' = Consumers
    /\ UNCHANGED <<inbox, confirms, reply, delivered, pending, faults>>

-----------------------------------------------------------------------------
ScheduleForWrite(p) == RejectTooBig(p) \/ WriteAtOnce(p) \/ Enqueue(p)

ConfirmPortion ==
    \/ CountConfirmation
    \/ ReleaseFails
    \/ Release /\ \E n \in {0, 1} : \E s \in LetGo(n) : PopNextFromQueue(s, n)

Next ==
    \/ \E p \in Portions : ScheduleForWrite(p)
    \/ ConfirmPortion
    \/ \E c \in Consumers : Consume(c) \/ ConsumeFails(c) \/ EndConsumer(c)
    \/ ShutDown
    \/ CloseProvider
    \/ CloseFile
    \/ Destroy
    \/ Crash
    \/ Restart

Spec == Init /\ [][Next]_vars

(* The main thread and the threads of the consumers keep handling events.  *)
Fairness == WF_vars(ConfirmPortion) /\ \A c \in Consumers : WF_vars(Consume(c))

FairSpec == Spec /\ Fairness

-----------------------------------------------------------------------------
(* Properties                                                              *)

Offsets == [toWrite : Nat, toRead : Nat \cup {-1}]

Members ==
    [file : Seq(Line), disk : Offsets, header : Offsets,
     firstLog : {0, FirstLog}, toRead : Nat \cup {-1}, toWrite : Nat,
     currentLogEnd : Nat \cup {-1},
     portion : Portions \cup {Null, Reread}, nmbDest : Int,
     rereadLogs : Seq(Line), freed : Nat, requestQueue : Seq(Portions)]

(* The type of every variable.                                             *)
TypeOK ==
    /\ m \in Members
    /\ phase \in {"open", "closed", "down", "hung", "failed"}
    /\ shutDowns \in Nat
    /\ accepting \in BOOLEAN
    /\ closes \in Nat
    /\ running \subseteq Consumers
    /\ inbox \in [Consumers -> Seq(Portions)]
    /\ confirms \in Seq(Portions)
    /\ reply \in [Portions -> {"none", "rejected", "written", "queued", "dropped"}]
    /\ delivered \subseteq Consumers \X Portions
    /\ pending \in Seq([of : Portions, end : Nat])
    /\ faults \in 0..MaxFaults
    /\ restarts \in 0..MaxRestarts

(* The events in the queues carry a pointer to the portion. A consumer     *)
(* reads through it in its own thread without a lock, and confirmPortion   *)
(* compares it with m_portion: both must still be the live object.         *)
EventsPointToLivePortion ==
    phase = "open" =>
        /\ \A c \in running : \A i \in DOMAIN inbox[c] :
              inbox[c][i] = m.portion /\ m.freed = 0
        /\ \A i \in DOMAIN confirms : confirms[i] = m.portion /\ m.freed = 0

(* m_nmbDest counts exactly the destinations that have not consumed the    *)
(* portion and the confirmations that are still in the main thread's queue.*)
OutstandingIsCounted ==
    phase = "open" /\ m.portion \in Portions =>
        m.nmbDest = Cardinality({c \in DestSet[m.portion] :
                                    <<c, m.portion>> \notin delivered})
                      + Len(confirms)

(* Only closeFile and the destructor delete a portion that was deleted     *)
(* before, each once for each time it runs: no confirmation does, whether  *)
(* the main thread handles it while the file is open, between two calls of *)
(* closeFile or after the last one.                                        *)
DeletedByCloseOnly ==
    m.freed <= Max(1, IF phase = "down" THEN closes + 1 ELSE closes)

(* No portion is deleted twice: m_portion is the "portion which is now     *)
(* distributed to data consumers" (DataFile.h:218), to be deleted when the *)
(* pointer is not null (DataFile.cpp:29, 203).                             *)
DeletedOnce == m.freed <= 1

(* In a file whose offsets setFile read or wrote, the offsets the process  *)
(* wrote, flushed or not, are the ones it works with, although writeImpl   *)
(* writes m_toRead only in one of its branches and any write may fail.     *)
HeaderIsCurrent ==
    phase = "open" /\ m.firstLog = FirstLog =>
        m.header = [toWrite |-> m.toWrite, toRead |-> m.toRead]

(* Whatever wraps and overlaps, such a file never grows past the limit,    *)
(* which setFile would refuse at the next start.                           *)
WithinLimit ==
    phase \in {"open", "closed"} /\ m.firstLog = FirstLog =>
        /\ FirstLog + Len(m.file) <= MaxSize
        /\ m.toWrite \in FirstLog..MaxSize

(* m_toRead = -1 means that everything stored has been delivered and let   *)
(* go ("there is nothing to read", DataFile.cpp:498), and conversely.      *)
EmptyMeansDelivered ==
    phase = "open" => (m.toRead = -1 <=> pending = <<>>)

(* What a crash at any moment would leave on the disk is the header as it  *)
(* is, or as it was before the last portion was stored, or, after a failed *)
(* flush or read, as it was before the last portion was let go: of what is *)
(* stored, a crash costs the last portion at most.                         *)
DiskIsOneWriteBehind ==
    phase = "open" =>
        \/ m.disk = m.header
        \/ LET n == Len(pending)
           IN  IF n > 1
               THEN m.disk = [toWrite |-> pending[n - 1].end, toRead |-> m.toRead]
               ELSE m.disk \in {NoHeader, EmptyHeader}
        \/ faults > 0 /\ (pending = <<>> \/ m.disk.toWrite = m.toWrite)

(* "You may be sure that passed logs are persistently stored and will be   *)
(* delivered to all required places" (DataChannel.h:58-60): whatever the   *)
(* program answered for, before it was killed or since, has been delivered *)
(* or can still be. It does not hang, it knows where its offsets are, and  *)
(* they say that there is something to read.                               *)
CanRead == phase = "open" /\ m.firstLog = FirstLog /\ m.toRead # -1

WrittenIsStored ==
    phase \in {"open", "hung"} /\ ~CanRead =>
        \A p \in Portions : reply[p] = "written" => DestSet[p] \X {p} \subseteq delivered

(* The portion being distributed is the oldest one stored.                 *)
OldestFirst ==
    phase = "open" /\ m.portion \in Portions =>
        /\ pending # <<>>
        /\ Head(pending).of = m.portion
        /\ Head(pending).end = m.currentLogEnd

(* What readAndDistribute reads back is the oldest portion stored, as long *)
(* as it has as many logs as destinations.                                 *)
RereadIsOldest ==
    phase = "open" /\ m.portion = Reread =>
        /\ pending # <<>>
        /\ LET p == Head(pending).of
           IN  /\ m.nmbDest = Len(Dest[p])
               /\ NmbOfLogs[p] = Len(Dest[p]) =>
                     /\ m.rereadLogs = LogLines(p)
                     /\ m.currentLogEnd = Head(pending).end

(* The abstract specification that DataFile implements.                    *)
Abstract ==
    INSTANCE PortionDelivery WITH
        current <- IF phase = "open" /\ m.portion \in Portions
                   THEN m.portion ELSE Null,
        alive <- phase = "open"

(* At most one portion is distributed at a time; each destination handles  *)
(* it at most once, restarts included; it is let go only when all have.    *)
ImplementsPortionDelivery == Abstract!Spec

(* A portion that was handed to its consumers is consumed by all of them   *)
(* and let go, unless the program is asked to stop.                        *)
DistributedIsReleased ==
    \A p \in Portions :
        m.portion = p ~> (shutDowns > 0 \/ (/\ m.portion # p
                                      /\ DestSet[p] \X {p} \subseteq delivered))

(* "When this function returns successfully you may be sure that passed    *)
(* logs are persistently stored and will be delivered to all required      *)
(* places" (DataChannel.h:58-60).                                          *)
WrittenIsDelivered ==
    \A p \in Portions :
        reply[p] = "written" ~> (shutDowns > 0 \/ DestSet[p] \X {p} \subseteq delivered)

=============================================================================
