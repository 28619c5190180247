--------------------------- MODULE DataFileProofs ---------------------------
(***************************************************************************)
(* What holds of DataFile for every set of consumers and portions, every   *)
(* destination list, every number of logs and every size of the file.      *)
(*                                                                         *)
(* Three inductive invariants. FileInv is about one object: the file, the  *)
(* offsets in it and the request queue. DeliveryInv is about the object    *)
(* and the events in the threads' queues. OrderInv is about the records in *)
(* the file, of the behaviours in which no write reaches past its end.     *)
(***************************************************************************)
EXTENDS DataFile, FiniteSetTheorems, SequenceTheorems, TLAPS

-----------------------------------------------------------------------------
(* Lines and records                                                       *)

(* A portion has at least one destination, each of them once.              *)
LEMMA DestFacts ==
    ASSUME NEW p \in Portions
    PROVE  /\ Dest[p] \in Seq(Consumers)
           /\ Len(Dest[p]) \in Nat \ {0}
           /\ DestSet[p] \subseteq Consumers
           /\ DestSet[p] # {}
           /\ IsFiniteSet(DestSet[p])
           /\ Cardinality(DestSet[p]) = Len(Dest[p])
<1>1. Dest[p] \in Seq(Consumers) /\ Dest[p] # <<>>
  BY DataFileAssumption
<1>2. Len(Dest[p]) \in Nat \ {0} /\ DOMAIN Dest[p] = 1..Len(Dest[p])
  BY <1>1
<1>3. DestSet[p] = {Dest[p][i] : i \in DOMAIN Dest[p]}
  BY DEF DestSet
<1>4. DestSet[p] \subseteq Consumers /\ DestSet[p] # {}
  <2>1. \A i \in DOMAIN Dest[p] : Dest[p][i] \in Consumers
    BY <1>1, <1>2, ElementOfSeq
  <2>2. 1 \in DOMAIN Dest[p]
    BY <1>2
  <2>. QED  BY <1>3, <2>1, <2>2
<1>5. Dest[p] \in Bijection(1..Len(Dest[p]), DestSet[p])
  <2>1. \A i, j \in DOMAIN Dest[p] : Dest[p][i] = Dest[p][j] => i = j
    BY DataFileAssumption
  <2>2. Dest[p] \in [1..Len(Dest[p]) -> DestSet[p]]
    BY <1>1, <1>2, <1>3
  <2>3. \A c \in DestSet[p] : \E i \in 1..Len(Dest[p]) : Dest[p][i] = c
    BY <1>2, <1>3
  <2>. QED  BY <1>2, <2>1, <2>2, <2>3 DEF Bijection, Injection, Surjection, IsInjective
<1>6. IsFiniteSet(1..Len(Dest[p])) /\ Cardinality(1..Len(Dest[p])) = Len(Dest[p])
  BY <1>2, FS_Interval
<1>7. IsFiniteSet(DestSet[p]) /\ Cardinality(DestSet[p]) = Len(Dest[p])
  BY <1>5, <1>6, FS_Bijection DEF ExistsBijection
<1>. QED  BY <1>1, <1>2, <1>4, <1>7

(* The two arrays writeImpl writes for a portion.                          *)
LEMMA RecordType ==
    ASSUME NEW p \in Portions
    PROVE  /\ Header(p) \in Seq(Line)
           /\ Len(Header(p)) = 3 + Len(Dest[p])
           /\ LogsArray(p) \in Seq(Line)
           /\ Len(LogsArray(p)) = 1 + NmbOfLogs[p]
           /\ NmbOfLogs[p] \in Nat
           /\ Size(p) = 4 + Len(Dest[p]) + NmbOfLogs[p]
<1>. DEFINE first == <<<<"client", p>>, <<"provider", p>>, <<"count", Len(Dest[p])>>>>
            dests == [i \in 1..Len(Dest[p]) |-> <<"dest", Dest[p][i]>>]
            count == <<<<"count", NmbOfLogs[p]>>>>
<1>1. Dest[p] \in Seq(Consumers) /\ Len(Dest[p]) \in Nat \ {0} /\ NmbOfLogs[p] \in Nat
  BY DestFacts, DataFileAssumption
<1>2. first \in Seq(Line) /\ Len(first) = 3
  BY <1>1 DEF Line
<1>3. dests \in Seq(Line) /\ Len(dests) = Len(Dest[p])
  <2>1. \A i \in 1..Len(Dest[p]) : <<"dest", Dest[p][i]>> \in Line
    BY <1>1 DEF Line
  <2>. QED  BY <1>1, <2>1
<1>4. count \in Seq(Line) /\ Len(count) = 1
  BY <1>1 DEF Line
<1>5. LogLines(p) \in Seq(Line) /\ Len(LogLines(p)) = NmbOfLogs[p]
  <2>1. \A i \in 1..NmbOfLogs[p] : <<"log", <<p, i>>>> \in Line
    BY <1>1 DEF Line
  <2>. QED  BY <1>1, <2>1 DEF LogLines
<1>6. Header(p) = first \o dests /\ LogsArray(p) = count \o LogLines(p)
  BY DEF Header, LogsArray
<1>. HIDE DEF first, dests, count
<1>7. /\ Header(p) \in Seq(Line) /\ Len(Header(p)) = 3 + Len(Dest[p])
      /\ LogsArray(p) \in Seq(Line) /\ Len(LogsArray(p)) = 1 + NmbOfLogs[p]
  <2>1. /\ first \o dests \in Seq(Line)
        /\ Len(first \o dests) = Len(first) + Len(dests)
    BY <1>2, <1>3, ConcatProperties
  <2>2. /\ count \o LogLines(p) \in Seq(Line)
        /\ Len(count \o LogLines(p)) = Len(count) + Len(LogLines(p))
    BY <1>4, <1>5, ConcatProperties
  <2>. QED  BY <1>2, <1>3, <1>4, <1>5, <1>6, <2>1, <2>2
<1>8. Size(p) = 4 + Len(Dest[p]) + NmbOfLogs[p]
  <2>1. Len(Dest[p]) \in Nat /\ NmbOfLogs[p] \in Nat
    BY <1>1
  <2>. QED  BY <2>1, <1>7 DEF Size
<1>. QED  BY <1>1, <1>7, <1>8

(* What readLine returns is a line, wherever it reads.                     *)
LEMMA ReadLineType ==
    ASSUME NEW f \in Seq(Line), NEW pos \in Nat, NEW i \in Nat
    PROVE  /\ ReadPos(f, pos, i) \in Nat
           /\ ReadLine(f, pos, i) \in Line
<1>1. Hole \in Line
  BY DEF Line
<1>2. \A k \in Int : LineAt(f, k) \in Line
  BY <1>1 DEF LineAt
<1>3. ReadPos(f, pos, i) \in Nat
  BY DEF ReadPos, FirstLog
<1>. QED  BY <1>2, <1>3 DEF ReadLine

(* A write of lines in the file, at any position.                          *)
LEMMA OverwriteType ==
    ASSUME NEW f \in Seq(Line), NEW pos \in Nat, NEW lines \in Seq(Line)
    PROVE  /\ Overwrite(f, pos, lines) \in Seq(Line)
           /\ Len(Overwrite(f, pos, lines)) = Max(Len(f), pos + Len(lines) - 1)
<1>. DEFINE n == Max(Len(f), pos + Len(lines) - 1)
<1>1. n \in Nat
  BY DEF Max
<1>2. \A i \in 1..n : LineAt(f, i) \in Line
  BY DEF LineAt, Line
<1>3. \A i \in pos..(pos + Len(lines) - 1) : lines[i - pos + 1] \in Line
  <2>. TAKE i \in pos..(pos + Len(lines) - 1)
  <2>1. i - pos + 1 \in 1..Len(lines)
    OBVIOUS
  <2>. QED  BY <2>1, ElementOfSeq
<1>4. Overwrite(f, pos, lines) \in [1..n -> Line]
  BY <1>1, <1>2, <1>3 DEF Overwrite
<1>5. Overwrite(f, pos, lines) \in Seq(Line)
  BY <1>1, <1>4, SeqDef
<1>. QED  BY <1>1, <1>4, <1>5, LenProperties

(* What writeImpl does with one array where it looks at the limit: what    *)
(* fits and what does not stay in the file, and the next position is       *)
(* inside it or right after it.                                            *)
LEMMA PlacedType ==
    ASSUME NEW s, s.toRead # 0,
           NEW f \in Seq(Line), Len(f) <= MaxSize - FirstLog,
           NEW pos \in FirstLog..MaxSize,
           NEW lines \in Seq(Line), Len(lines) <= MaxSize - FirstLog
    PROVE  /\ FirstPart(s, f, pos, lines) \in Seq(Line)
           /\ Len(FirstPart(s, f, pos, lines)) <= MaxSize - FirstLog
           /\ Placed(s, f, pos, lines) \in Seq(Line)
           /\ Len(Placed(s, f, pos, lines)) <= MaxSize - FirstLog
           /\ PlacedEnd(s, pos, lines) \in FirstLog..MaxSize
<1>1. MaxSize \in Nat \ {0, 1} /\ Len(f) \in Nat /\ Len(lines) \in Nat
  BY DataFileAssumption, LenProperties
<1>pos. pos \in Nat /\ FirstLog \in Nat
  BY <1>1 DEF FirstLog
<1>2. TailSize(lines) = 0
  BY <1>1 DEF TailSize, Max, FirstLog
<1>wraps. Wraps(s, pos, lines) <=> pos + Len(lines) > MaxSize
  BY DEF Wraps
<1>3. PlacedEnd(s, pos, lines) \in FirstLog..MaxSize
  BY <1>1, <1>2, <1>wraps DEF PlacedEnd, FirstLog
<1>4. CASE pos + Len(lines) > MaxSize
  <2>. DEFINE first == SubSeq(lines, 1, Min(Len(lines), MaxSize - pos))
              rest == SubSeq(lines, Len(lines) + 1, Len(lines))
              g == Overwrite(f, pos, first)
  <2>1. Min(Len(lines), MaxSize - pos) = MaxSize - pos /\ MaxSize - pos \in 0..Len(lines)
    BY <1>1, <1>4 DEF Min, FirstLog
  <2>2. first \in Seq(Line) /\ Len(first) = MaxSize - pos
    <3>1. \A i \in 1..(MaxSize - pos) : lines[i] \in Line
      BY <2>1, <1>1, ElementOfSeq
    <3>. QED  BY <2>1, <3>1, <1>1, SubSeqProperties
  <2>3. rest = <<>>
    BY <1>1, SubSeqEmpty
  <2>4. g \in Seq(Line) /\ Len(g) = Max(Len(f), pos + Len(first) - 1)
    BY <1>pos, <2>2, OverwriteType
  <2>5. Len(g) <= MaxSize - FirstLog /\ Len(g) \in Nat
    BY <2>2, <2>4, <1>1 DEF Max, FirstLog
  <2>6. /\ Overwrite(g, FirstLog, <<>>) \in Seq(Line)
        /\ Len(Overwrite(g, FirstLog, <<>>)) = Max(Len(g), FirstLog + Len(<<>>) - 1)
    BY <1>pos, <2>4, EmptySeq, OverwriteType
  <2>7. Len(Overwrite(g, FirstLog, <<>>)) <= MaxSize - FirstLog
    BY <2>5, <2>6, EmptySeq DEF Max, FirstLog
  <2>8. FirstPart(s, f, pos, lines) = g
    BY <1>4, <1>wraps DEF FirstPart
  <2>9. Placed(s, f, pos, lines) = Overwrite(g, FirstLog, rest)
    BY <1>1, <1>2, <1>4, <1>wraps, <2>8 DEF Placed
  <2>. QED  BY <1>3, <2>3, <2>4, <2>5, <2>6, <2>7, <2>8, <2>9
<1>5. CASE ~(pos + Len(lines) > MaxSize)
  <2>1. /\ Overwrite(f, pos, lines) \in Seq(Line)
        /\ Len(Overwrite(f, pos, lines)) = Max(Len(f), pos + Len(lines) - 1)
    BY <1>pos, OverwriteType
  <2>2. Placed(s, f, pos, lines) = Overwrite(f, pos, lines) /\ FirstPart(s, f, pos, lines) = f
    BY <1>5, <1>wraps DEF Placed, FirstPart
  <2>. QED  BY <1>1, <1>3, <1>5, <2>1, <2>2 DEF Max, FirstLog
<1>. QED  BY <1>4, <1>5

(* And where it does not look, or where the lines fit.                     *)
LEMMA PlacedInOnePiece ==
    ASSUME NEW s, NEW f \in Seq(Line), NEW pos \in Nat, NEW lines \in Seq(Line),
           s.toRead = 0 \/ pos + Len(lines) <= MaxSize
    PROVE  /\ FirstPart(s, f, pos, lines) = f
           /\ Placed(s, f, pos, lines) = Overwrite(f, pos, lines)
           /\ Placed(s, f, pos, lines) \in Seq(Line)
           /\ PlacedEnd(s, pos, lines) = pos + Len(lines)
           /\ PlacedEnd(s, pos, lines) \in Nat
<1>1. pos + Len(lines) \in Nat /\ MaxSize \in Nat
  BY DataFileAssumption
<1>2. ~Wraps(s, pos, lines)
  BY <1>1 DEF Wraps
<1>3. Overwrite(f, pos, lines) \in Seq(Line)
  BY OverwriteType
<1>. QED  BY <1>1, <1>2, <1>3 DEF Placed, FirstPart, PlacedEnd

(* The record of a portion that is not larger than the limit, and what is  *)
(* in the file while it is being written.                                  *)
LEMMA WithRecordType ==
    ASSUME NEW s, s.file \in Seq(Line), NEW p \in Portions, Size(p) <= MaxSize
    PROVE  /\ s.toRead = 0 /\ s.toWrite \in Nat =>
                /\ PartlyWritten(s, p) \subseteq Seq(Line)
                /\ WriteEnd(s, p) \in Nat
           /\ (/\ s.toRead # 0 /\ s.toWrite \in FirstLog..MaxSize
               /\ Len(s.file) <= MaxSize - FirstLog) =>
                /\ \A f \in PartlyWritten(s, p) :
                      f \in Seq(Line) /\ Len(f) <= MaxSize - FirstLog
                /\ WriteEnd(s, p) \in FirstLog..MaxSize
           /\ WithRecord(s, p) \in PartlyWritten(s, p)
<1>1. /\ Header(p) \in Seq(Line) /\ LogsArray(p) \in Seq(Line)
      /\ Len(Header(p)) <= MaxSize - FirstLog /\ Len(LogsArray(p)) <= MaxSize - FirstLog
  <2>1. Len(Dest[p]) \in Nat /\ NmbOfLogs[p] \in Nat /\ MaxSize \in Nat
    BY DestFacts, RecordType, DataFileAssumption
  <2>. QED  BY <2>1, RecordType DEF FirstLog
<1>. DEFINE g == WithHeader(s, p)
            x == LogsStart(s, p)
            before == FirstPart(s, s.file, s.toWrite, Header(p))
            between == FirstPart(s, g, x, LogsArray(p))
<1>2. PartlyWritten(s, p) = {before, g, between, WithRecord(s, p)}
  BY DEF PartlyWritten
<1>3. /\ g = Placed(s, s.file, s.toWrite, Header(p))
      /\ x = PlacedEnd(s, s.toWrite, Header(p))
      /\ WithRecord(s, p) = Placed(s, g, x, LogsArray(p))
      /\ WriteEnd(s, p) = PlacedEnd(s, x, LogsArray(p))
  BY DEF WithHeader, LogsStart, WithRecord, WriteEnd
<1>. HIDE DEF g, x
<1>4. ASSUME s.toRead = 0, s.toWrite \in Nat
      PROVE  PartlyWritten(s, p) \subseteq Seq(Line) /\ WriteEnd(s, p) \in Nat
  <2>1. before = s.file /\ g \in Seq(Line) /\ x \in Nat
    BY <1>1, <1>3, <1>4, PlacedInOnePiece
  <2>2. between = g /\ WithRecord(s, p) \in Seq(Line) /\ WriteEnd(s, p) \in Nat
    BY <1>1, <1>3, <1>4, <2>1, PlacedInOnePiece
  <2>. HIDE DEF before, between
  <2>. QED  BY <1>2, <2>1, <2>2
<1>5. ASSUME s.toRead # 0, s.toWrite \in FirstLog..MaxSize, Len(s.file) <= MaxSize - FirstLog
      PROVE  /\ \A f \in PartlyWritten(s, p) : f \in Seq(Line) /\ Len(f) <= MaxSize - FirstLog
             /\ WriteEnd(s, p) \in FirstLog..MaxSize
  <2>1. /\ before \in Seq(Line) /\ Len(before) <= MaxSize - FirstLog
        /\ g \in Seq(Line) /\ Len(g) <= MaxSize - FirstLog
        /\ x \in FirstLog..MaxSize
    BY <1>1, <1>3, <1>5, PlacedType
  <2>2. /\ between \in Seq(Line) /\ Len(between) <= MaxSize - FirstLog
        /\ WithRecord(s, p) \in Seq(Line) /\ Len(WithRecord(s, p)) <= MaxSize - FirstLog
        /\ WriteEnd(s, p) \in FirstLog..MaxSize
    BY <1>1, <1>3, <1>5, <2>1, PlacedType
  <2>. HIDE DEF before, between
  <2>. QED  BY <1>2, <2>1, <2>2
<1>. QED  BY <1>2, <1>4, <1>5

-----------------------------------------------------------------------------
(* The object                                                              *)

(* Two offsets that were never written, or written over by a record, or    *)
(* written by the code.                                                    *)
OffsetsFit(o) ==
    o = NoHeader \/ o.toRead = Text \/ o.toWrite \in FirstLog..MaxSize

(* The object and its file, whatever the program is doing with them.       *)
WellStored(s) ==
    /\ s \in Members
    /\ OffsetsFit(s.disk)
    /\ OffsetsFit(s.header)
    /\ \A i \in DOMAIN s.requestQueue : Size(s.requestQueue[i]) <= MaxSize

(* A file whose offsets setFile wrote, or read.                            *)
WithOffsets(s) ==
    /\ s.firstLog = FirstLog
    /\ Len(s.file) <= MaxSize - FirstLog
    /\ s.toWrite \in FirstLog..MaxSize
    /\ s.toRead # 0
    /\ s.currentLogEnd # 0
    /\ s.header = [toWrite |-> s.toWrite, toRead |-> s.toRead]

(* A file that was empty when setFile read it: nothing in it is ever       *)
(* distributed, and the first record lies where its offsets should be.     *)
WithoutOffsets(s) ==
    /\ s.firstLog = 0
    /\ s.toRead = 0
    /\ s.portion = Null
    /\ s.toWrite = 0 \/ s.header.toRead = Text

(* The object while the program works with it.                             *)
WellOpened(s) == WellStored(s) /\ (WithOffsets(s) \/ WithoutOffsets(s))

LEMMA ConstantFacts ==
    /\ MaxSize \in Nat \ {0, 1}
    /\ FirstLog = 1
    /\ FirstLog \in FirstLog..MaxSize
    /\ Text \in Nat /\ Text # 0 /\ Text # -1 /\ Text # FirstLog
    /\ NoHeader \in Offsets
    /\ EmptyHeader \in Offsets
    /\ TextHeader \in Offsets
    /\ OffsetsFit(NoHeader)
    /\ OffsetsFit(EmptyHeader)
    /\ OffsetsFit(TextHeader)
<1>1. MaxSize \in Nat \ {0, 1} /\ FirstLog = 1 /\ Text = MaxSize + 1
  BY DataFileAssumption DEF FirstLog, Text
<1>. QED  BY <1>1 DEF NoHeader, EmptyHeader, TextHeader, Offsets, OffsetsFit

(* What an object that works with the same offsets keeps.                  *)
LEMMA SameOpened ==
    ASSUME NEW s, WellOpened(s), NEW t \in Members, OffsetsFit(t.disk),
           \A i \in DOMAIN t.requestQueue : Size(t.requestQueue[i]) <= MaxSize,
           t.file = s.file, t.header = s.header, t.firstLog = s.firstLog,
           t.toRead = s.toRead, t.toWrite = s.toWrite,
           t.currentLogEnd = s.currentLogEnd, t.portion \in {s.portion, Null}
    PROVE  WellOpened(t) /\ (WithOffsets(s) => WithOffsets(t))
BY DEF WellOpened, WellStored, WithOffsets, WithoutOffsets

(* What a seek does: the disk has the header.                              *)
LEMMA FlushedInv ==
    ASSUME NEW s \in Members, NEW d \in Offsets
    PROVE  LET t == [s EXCEPT !.disk = d]
           IN  /\ t \in Members
               /\ t.disk = d /\ t.file = s.file /\ t.header = s.header
               /\ t.firstLog = s.firstLog /\ t.toRead = s.toRead
               /\ t.toWrite = s.toWrite /\ t.currentLogEnd = s.currentLogEnd
               /\ t.portion = s.portion /\ t.nmbDest = s.nmbDest
               /\ t.rereadLogs = s.rereadLogs /\ t.freed = s.freed
               /\ t.requestQueue = s.requestQueue
               /\ WellStored(s) /\ OffsetsFit(d) => WellStored(t)
               /\ WellOpened(s) /\ OffsetsFit(d) =>
                     WellOpened(t) /\ (WithOffsets(s) => WithOffsets(t))
<1>. DEFINE t == [s EXCEPT !.disk = d]
<1>1. t \in Members
  BY DEF Members
<1>2. /\ t.disk = d /\ t.file = s.file /\ t.header = s.header
      /\ t.firstLog = s.firstLog /\ t.toRead = s.toRead
      /\ t.toWrite = s.toWrite /\ t.currentLogEnd = s.currentLogEnd
      /\ t.portion = s.portion /\ t.nmbDest = s.nmbDest
      /\ t.rereadLogs = s.rereadLogs /\ t.freed = s.freed
      /\ t.requestQueue = s.requestQueue
  BY DEF Members
<1>. HIDE DEF t
<1>3. ASSUME WellOpened(s), OffsetsFit(d)
      PROVE  WellOpened(t) /\ (WithOffsets(s) => WithOffsets(t))
  <2>1. \A i \in DOMAIN t.requestQueue : Size(t.requestQueue[i]) <= MaxSize
    BY <1>2, <1>3 DEF WellOpened, WellStored
  <2>. QED  BY <1>1, <1>2, <1>3, <2>1, SameOpened
<1>4. WellStored(s) /\ OffsetsFit(d) => WellStored(t)
  BY <1>1, <1>2 DEF WellStored
<1>. QED  BY <1>1, <1>2, <1>3, <1>4 DEF t

(* A file setFile has just created.                                        *)
LEMMA NewFileInv == WellOpened(NewFile) /\ WithOffsets(NewFile)
<1>1. NewFile \in Members
  BY ConstantFacts, EmptySeq DEF NewFile, Members
<1>2. NewFile.file = <<>> /\ NewFile.requestQueue = <<>>
  BY DEF NewFile
<1>3. Len(NewFile.file) = 0 /\ DOMAIN NewFile.requestQueue = {}
  BY <1>2
<1>4. WithOffsets(NewFile)
  BY <1>3, ConstantFacts DEF WithOffsets, NewFile, EmptyHeader
<1>5. WellStored(NewFile)
  <2>1. NewFile.disk = NoHeader /\ NewFile.header = EmptyHeader
    BY DEF NewFile
  <2>. QED  BY <1>1, <1>3, <2>1, ConstantFacts DEF WellStored
<1>. QED  BY <1>4, <1>5 DEF WellOpened

(* The members writeImpl leaves, when it succeeds and when it fails.       *)
LEMMA WrittenFields ==
    ASSUME NEW s \in Members, NEW p \in Portions
    PROVE  /\ Written(s, p).file = WithRecord(s, p)
           /\ Written(s, p).disk = Beneath(s)
           /\ Written(s, p).header = NewOffsets(s, p)
           /\ Written(s, p).firstLog = s.firstLog
           /\ Written(s, p).toWrite = WriteEnd(s, p)
           /\ Written(s, p).toRead = (IF s.toRead < 0 THEN s.toWrite ELSE s.toRead)
           /\ Written(s, p).currentLogEnd =
                 (IF Dispatches(s) THEN WriteEnd(s, p) ELSE s.currentLogEnd)
           /\ Written(s, p).portion = (IF Dispatches(s) THEN p ELSE s.portion)
           /\ Written(s, p).rereadLogs = s.rereadLogs
           /\ Written(s, p).requestQueue = s.requestQueue
BY DEF Written, Members

LEMMA FailureFields ==
    ASSUME NEW s \in Members, NEW p \in Portions, NEW t \in WriteFailures(s, p)
    PROVE  /\ t.firstLog = s.firstLog /\ t.toWrite = s.toWrite /\ t.toRead = s.toRead
           /\ t.currentLogEnd = s.currentLogEnd /\ t.portion = s.portion
           /\ t.nmbDest = s.nmbDest /\ t.rereadLogs = s.rereadLogs
           /\ t.freed = s.freed /\ t.requestQueue = s.requestQueue
           /\ \/ t = s
              \/ t = [s EXCEPT !.disk = s.header]
              \/ \E f \in PartlyWritten(s, p) :
                    /\ t = [s EXCEPT !.file = f, !.disk = t.disk, !.header = Beneath(s)]
                    /\ t.file = f /\ t.header = Beneath(s)
                    /\ t.disk = Beneath(s) \/ (t.disk = s.disk /\ s.disk = NoHeader)
<1>1. CASE t = s
  BY <1>1
<1>2. CASE t = [s EXCEPT !.disk = s.header]
  BY <1>2 DEF Members
<1>3. ASSUME NEW f \in PartlyWritten(s, p), NEW d \in {Beneath(s)} \cup ({s.disk} \cap {NoHeader}),
             t = [s EXCEPT !.file = f, !.disk = d, !.header = Beneath(s)]
      PROVE  /\ t.firstLog = s.firstLog /\ t.toWrite = s.toWrite /\ t.toRead = s.toRead
             /\ t.currentLogEnd = s.currentLogEnd /\ t.portion = s.portion
             /\ t.nmbDest = s.nmbDest /\ t.rereadLogs = s.rereadLogs
             /\ t.freed = s.freed /\ t.requestQueue = s.requestQueue
             /\ t.file = f /\ t.header = Beneath(s) /\ t.disk = d
  <2>. HIDE DEF Beneath
  <2>. QED  BY <1>3 DEF Members
<1>. DEFINE Partly(f, d) == [s EXCEPT !.file = f, !.disk = d, !.header = Beneath(s)]
            disks == {Beneath(s)} \cup ({s.disk} \cap {NoHeader})
<1>4. CASE \E f \in PartlyWritten(s, p) :
              \E d \in disks : t = Partly(f, d)
  <2>1. PICK f \in PartlyWritten(s, p) :
                \E d \in disks : t = Partly(f, d)
    BY <1>4
  <2>2. PICK d \in disks : t = Partly(f, d)
    BY <2>1
  <2>3. d = Beneath(s) \/ (d = s.disk /\ s.disk = NoHeader)
    BY <2>2
  <2>. QED  BY <1>3, <2>2, <2>3
<1>5. \/ t = s
      \/ t = [s EXCEPT !.disk = s.header]
      \/ \E f \in PartlyWritten(s, p) :
            \E d \in disks : t = Partly(f, d)
  <2>1. WriteFailures(s, p) = {s, [s EXCEPT !.disk = s.header]} \cup
                                 UNION {{Partly(f, d) : f \in PartlyWritten(s, p)} : d \in disks}
    BY DEF WriteFailures
  <2>. HIDE DEF Partly, disks
  <2>. QED  BY <2>1
<1>. QED  BY <1>1, <1>2, <1>4, <1>5

(* writeImpl, when it succeeds and when it fails.                          *)
LEMMA WrittenInv ==
    ASSUME NEW s, WellOpened(s), NEW p \in Portions, Size(p) <= MaxSize
    PROVE  /\ WellOpened(Written(s, p))
           /\ \A t \in WriteFailures(s, p) : WellOpened(t)
           /\ WriteEnd(s, p) \in Nat
<1>1. /\ s \in Members /\ s.file \in Seq(Line)
      /\ s.disk \in Offsets /\ s.header \in Offsets
      /\ s.toRead \in Nat \cup {-1} /\ s.toWrite \in Nat
      /\ OffsetsFit(s.disk) /\ OffsetsFit(s.header)
      /\ \A i \in DOMAIN s.requestQueue : Size(s.requestQueue[i]) <= MaxSize
  BY DEF WellOpened, WellStored, Members
<1>. DEFINE e == WriteEnd(s, p)
            written == PartlyWritten(s, p)
<1>2. /\ WithOffsets(s) => /\ e \in FirstLog..MaxSize
                           /\ \A f \in written :
                                 f \in Seq(Line) /\ Len(f) <= MaxSize - FirstLog
      /\ WithoutOffsets(s) => e \in Nat /\ \A f \in written : f \in Seq(Line)
      /\ WithRecord(s, p) \in written
  BY <1>1, WithRecordType DEF WithOffsets, WithoutOffsets
<1>. HIDE DEF e, written
<1>3. e \in Nat /\ \A f \in written : f \in Seq(Line)
  BY <1>2, ConstantFacts DEF WellOpened
<1>4. /\ Beneath(s) \in Offsets /\ OffsetsFit(Beneath(s))
      /\ WithOffsets(s) => Beneath(s) = s.header
      /\ WithoutOffsets(s) => Beneath(s).toRead = Text
  <2>1. WithOffsets(s) => s.toWrite # 0
    BY ConstantFacts DEF WithOffsets
  <2>2. TextHeader.toRead = Text
    BY DEF TextHeader
  <2>. QED  BY <1>1, <2>1, <2>2, ConstantFacts DEF Beneath, WithoutOffsets
<1>5. /\ NewOffsets(s, p) \in Offsets
      /\ NewOffsets(s, p).toWrite = e
      /\ WithOffsets(s) => NewOffsets(s, p).toRead = IF s.toRead < 0 THEN s.toWrite ELSE s.toRead
      /\ WithoutOffsets(s) => NewOffsets(s, p).toRead = Text
      /\ OffsetsFit(NewOffsets(s, p))
  <2>1. NewOffsets(s, p) =
          [toWrite |-> e, toRead |-> IF s.toRead < 0 THEN s.toWrite ELSE Beneath(s).toRead]
    BY DEF NewOffsets, e
  <2>2. Beneath(s).toRead \in Nat \cup {-1}
    BY <1>4 DEF Offsets
  <2>3. WithOffsets(s) => Beneath(s).toRead = s.toRead
    BY <1>4 DEF WithOffsets
  <2>4. WithoutOffsets(s) => ~(s.toRead < 0)
    BY DEF WithoutOffsets
  <2>. HIDE DEF Beneath
  <2>5. NewOffsets(s, p) \in Offsets
    BY <1>1, <1>3, <2>1, <2>2 DEF Offsets
  <2>. QED  BY <1>2, <1>4, <2>1, <2>3, <2>4, <2>5 DEF OffsetsFit, WellOpened
<1>6. WellOpened(Written(s, p))
  <2>. DEFINE t == Written(s, p)
  <2>1. t \in Members
    <3>1. Len(Dest[p]) \in Int
      BY DestFacts
    <3>2. WithRecord(s, p) \in Seq(Line)
      BY <1>2, <1>3
    <3>3. /\ Beneath(s) \in Offsets /\ NewOffsets(s, p) \in Offsets
          /\ WriteEnd(s, p) \in Nat
      BY <1>3, <1>4, <1>5 DEF e
    <3>. QED  BY <1>1, <3>1, <3>2, <3>3 DEF Written, Members
  <2>2. /\ t.file = WithRecord(s, p) /\ t.disk = Beneath(s) /\ t.header = NewOffsets(s, p)
        /\ t.firstLog = s.firstLog /\ t.toWrite = e
        /\ t.toRead = (IF s.toRead < 0 THEN s.toWrite ELSE s.toRead)
        /\ t.currentLogEnd = (IF Dispatches(s) THEN e ELSE s.currentLogEnd)
        /\ t.portion = (IF Dispatches(s) THEN p ELSE s.portion)
        /\ t.requestQueue = s.requestQueue
    BY <1>1, WrittenFields DEF e
  <2>. HIDE DEF t
  <2>3. WellStored(t)
    BY <1>1, <1>4, <1>5, <2>1, <2>2 DEF WellStored
  <2>4. ASSUME WithOffsets(s) PROVE WithOffsets(t)
    <3>1. t.toWrite \in FirstLog..MaxSize /\ Len(t.file) <= MaxSize - FirstLog
      BY <1>2, <2>2, <2>4
    <3>2. t.toRead # 0 /\ t.currentLogEnd # 0
      BY <1>2, <2>2, <2>4, ConstantFacts DEF WithOffsets
    <3>3. t.header = [toWrite |-> t.toWrite, toRead |-> t.toRead]
      <4>1. t.header \in Offsets /\ t.header.toWrite = t.toWrite /\ t.header.toRead = t.toRead
        BY <1>5, <2>2, <2>4
      <4>. QED  BY <4>1 DEF Offsets
    <3>. QED  BY <2>2, <2>4, <3>1, <3>2, <3>3 DEF WithOffsets
  <2>5. ASSUME WithoutOffsets(s) PROVE WithoutOffsets(t)
    <3>1. ~Dispatches(s)
      BY <2>5 DEF WithoutOffsets, Dispatches
    <3>. QED  BY <1>5, <2>2, <2>5, <3>1 DEF WithoutOffsets
  <2>. QED  BY <2>3, <2>4, <2>5 DEF WellOpened, t
<1>7. ASSUME NEW t \in WriteFailures(s, p) PROVE WellOpened(t)
  <2>1. CASE t = s
    BY <2>1
  <2>2. CASE t = [s EXCEPT !.disk = s.header]
    BY <1>1, <2>2, FlushedInv
  <2>3. ASSUME NEW f \in written,
               t = [s EXCEPT !.file = f, !.disk = t.disk, !.header = Beneath(s)],
               t.file = f, t.header = Beneath(s),
               t.disk = Beneath(s) \/ (t.disk = s.disk /\ s.disk = NoHeader)
        PROVE  WellOpened(t)
    <3>1. t.disk \in Offsets /\ OffsetsFit(t.disk)
      BY <1>1, <1>4, <2>3
    <3>2. t \in Members
      <4>1. ASSUME NEW d \in Offsets PROVE [s EXCEPT !.file = f, !.disk = d, !.header = Beneath(s)] \in Members
        <5>. HIDE DEF Beneath
        <5>. QED  BY <1>1, <1>3, <1>4 DEF Members
      <4>. QED  BY <2>3, <3>1, <4>1
    <3>3. /\ t.firstLog = s.firstLog /\ t.toWrite = s.toWrite /\ t.toRead = s.toRead
          /\ t.currentLogEnd = s.currentLogEnd /\ t.portion = s.portion
          /\ t.requestQueue = s.requestQueue
      BY <1>1, <1>7, FailureFields
    <3>4. WellStored(t)
      BY <1>1, <1>4, <2>3, <3>1, <3>2, <3>3 DEF WellStored
    <3>5. WithOffsets(s) => WithOffsets(t)
      BY <1>2, <1>4, <2>3, <3>3 DEF WithOffsets
    <3>6. WithoutOffsets(s) => WithoutOffsets(t)
      BY <1>4, <2>3, <3>3 DEF WithoutOffsets
    <3>. QED  BY <3>4, <3>5, <3>6 DEF WellOpened
  <2>. QED  BY <1>1, <1>7, <2>1, <2>2, <2>3, FailureFields DEF written
<1>. QED  BY <1>3, <1>6, <1>7 DEF e

(* readAndDistribute leaves the file and the offsets alone, whether it     *)
(* reads the record or not.                                                *)
LEMMA ReadAndDistributeInv ==
    ASSUME NEW s, WellOpened(s), WithOffsets(s),
           NEW t \in {ReadAndDistribute(s)} \cup ReadFailures(s)
    PROVE  /\ WellOpened(t) /\ WithOffsets(t)
           /\ t.requestQueue = s.requestQueue
           /\ t.portion \in {s.portion, Reread}
<1>1. /\ s \in Members /\ s.file \in Seq(Line) /\ s.header \in Offsets
      /\ s.toRead \in Nat \cup {-1}
      /\ OffsetsFit(s.header)
  BY DEF WellOpened, WellStored, Members
<1>. DEFINE flushed == [s EXCEPT !.disk = s.header]
<1>2. /\ WellOpened(flushed) /\ WithOffsets(flushed)
      /\ flushed.requestQueue = s.requestQueue /\ flushed.portion = s.portion
  BY <1>1, FlushedInv
<1>3. CASE t \in {s, flushed}
  BY <1>2, <1>3
<1>4. CASE s.toRead # -1 /\ WellFormed(s.file, s.toRead) /\ t = ReadAndDistribute(s)
  <2>. DEFINE f == s.file
              pos == s.toRead
              read == [s EXCEPT !.disk = s.header,
                          !.currentLogEnd = RecordEnd(f, pos),
                          !.portion = Reread,
                          !.nmbDest = DestCount(f, pos),
                          !.rereadLogs = ReadLogs(f, pos),
                          !.freed = 0]
  <2>1. f \in Seq(Line) /\ pos \in Nat /\ WellFormed(f, pos)
    BY <1>1, <1>4
  <2>. HIDE DEF f, pos
  <2>2. DestCount(f, pos) \in Nat /\ LogsCount(f, pos) \in Nat
    <3>1. ReadLine(f, pos, 2) \in Line /\ ReadLine(f, pos, 2)[1] = "count"
      BY <2>1, ReadLineType DEF WellFormed
    <3>2. \A l \in Line : l[1] = "count" => l[2] \in Nat
      BY DEF Line, Hole
    <3>. QED  BY <3>1, <3>2 DEF DestCount, LogsCount
  <2>3. RecordEnd(f, pos) \in Nat \ {0}
    <3>1. 3 + DestCount(f, pos) + LogsCount(f, pos) \in Nat
      BY <2>2
    <3>2. ReadPos(f, pos, 3 + DestCount(f, pos) + LogsCount(f, pos)) \in Nat
      BY <2>1, <3>1, ReadLineType
    <3>. QED  BY <3>2 DEF RecordEnd
  <2>4. ReadLogs(f, pos) \in Seq(Line)
    <3>1. ASSUME NEW i \in 1..LogsCount(f, pos)
          PROVE  ReadLine(f, pos, 3 + DestCount(f, pos) + i) \in Line
      <4>1. 3 + DestCount(f, pos) + i \in Nat
        BY <2>2
      <4>. QED  BY <2>1, <4>1, ReadLineType
    <3>2. ReadLogs(f, pos) \in [1..LogsCount(f, pos) -> Line]
      BY <3>1 DEF ReadLogs
    <3>. QED  BY <2>2, <3>2, SeqDef
  <2>5. read \in Members
    <3>1. ASSUME NEW e \in Nat, NEW d \in Int, NEW l \in Seq(Line)
          PROVE  [s EXCEPT !.disk = s.header, !.currentLogEnd = e,
                           !.portion = Reread, !.nmbDest = d,
                           !.rereadLogs = l, !.freed = 0] \in Members
      BY <1>1 DEF Members
    <3>2. DestCount(f, pos) \in Int
      BY <2>2
    <3>. QED  BY <2>3, <2>4, <3>1, <3>2
  <2>6. /\ read.file = s.file /\ read.disk = s.header /\ read.header = s.header
        /\ read.firstLog = s.firstLog
        /\ read.toWrite = s.toWrite /\ read.toRead = s.toRead
        /\ read.currentLogEnd = RecordEnd(f, pos)
        /\ read.requestQueue = s.requestQueue /\ read.portion = Reread
    BY <1>1 DEF Members
  <2>. HIDE DEF read
  <2>7. WithOffsets(read)
    BY <2>3, <2>6 DEF WithOffsets
  <2>8. WellOpened(read)
    BY <1>1, <2>5, <2>6, <2>7 DEF WellOpened, WellStored
  <2>9. t = read
    BY <1>4 DEF ReadAndDistribute, f, pos, read
  <2>. QED  BY <2>6, <2>7, <2>8, <2>9
<1>. QED  BY <1>3, <1>4 DEF ReadAndDistribute, ReadFailures

(* delete m_portion.                                                       *)
LEMMA DeletedInv ==
    ASSUME NEW s \in Members
    PROVE  LET t == Deleted(s)
           IN  /\ t \in Members
               /\ t.disk = s.disk /\ t.file = s.file /\ t.header = s.header
               /\ t.firstLog = s.firstLog /\ t.toRead = s.toRead
               /\ t.toWrite = s.toWrite /\ t.currentLogEnd = s.currentLogEnd
               /\ t.portion = Null /\ t.nmbDest = 0
               /\ t.rereadLogs = s.rereadLogs /\ t.freed = s.freed + 1
               /\ t.requestQueue = s.requestQueue
               /\ WellStored(s) => WellStored(t)
               /\ WellOpened(s) => WellOpened(t) /\ (WithOffsets(s) => WithOffsets(t))
<1>. DEFINE t == Deleted(s)
<1>1. s.freed + 1 \in Nat /\ 0 \in Int
  BY DEF Members
<1>2. t \in Members
  BY <1>1 DEF Deleted, Members
<1>3. /\ t.disk = s.disk /\ t.file = s.file /\ t.header = s.header
      /\ t.firstLog = s.firstLog /\ t.toRead = s.toRead
      /\ t.toWrite = s.toWrite /\ t.currentLogEnd = s.currentLogEnd
      /\ t.portion = Null /\ t.nmbDest = 0
      /\ t.rereadLogs = s.rereadLogs /\ t.freed = s.freed + 1
      /\ t.requestQueue = s.requestQueue
  BY DEF Deleted, Members
<1>. HIDE DEF t
<1>4. WellStored(s) => WellStored(t)
  BY <1>2, <1>3 DEF WellStored
<1>5. WellOpened(s) => WellOpened(t) /\ (WithOffsets(s) => WithOffsets(t))
  BY <1>2, <1>3, SameOpened DEF WellOpened, WellStored
<1>. QED  BY <1>2, <1>3, <1>4, <1>5 DEF t

(* The offsets are reset, or moved past the portion.                       *)
LEMMA AdvancedInv ==
    ASSUME NEW s, WellOpened(s), WithOffsets(s)
    PROVE  /\ LET t == Emptied(s)
              IN  /\ WellOpened(t) /\ WithOffsets(t) /\ t \in Members
                  /\ t.disk = EmptyHeader /\ t.header = EmptyHeader
                  /\ t.toRead = -1 /\ t.toWrite = FirstLog
                  /\ t.portion = s.portion /\ t.freed = s.freed
                  /\ t.requestQueue = s.requestQueue
           /\ LET t == Advanced(s)
              IN  /\ WellOpened(t) /\ WithOffsets(t) /\ t \in Members
                  /\ t.disk = s.header /\ t.file = s.file
                  /\ t.toRead = s.currentLogEnd /\ t.toWrite = s.toWrite
                  /\ t.portion = s.portion /\ t.freed = s.freed
                  /\ t.requestQueue = s.requestQueue
<1>1. s \in Members /\ s.header \in Offsets /\ WellStored(s) /\ s.firstLog = FirstLog
  BY DEF WellOpened, WellStored, WithOffsets, Members
<1>2. LET t == Emptied(s)
      IN  /\ WellOpened(t) /\ WithOffsets(t) /\ t \in Members
          /\ t.disk = EmptyHeader /\ t.header = EmptyHeader
          /\ t.toRead = -1 /\ t.toWrite = FirstLog
          /\ t.portion = s.portion /\ t.freed = s.freed
          /\ t.requestQueue = s.requestQueue
  <2>. DEFINE t == Emptied(s)
  <2>1. EmptyHeader \in Offsets /\ FirstLog \in Nat
    BY ConstantFacts
  <2>2. t = [s EXCEPT !.header = EmptyHeader, !.disk = EmptyHeader,
                      !.currentLogEnd = -1, !.toRead = -1, !.toWrite = FirstLog]
    BY <1>1 DEF Emptied, EmptyHeader
  <2>. HIDE DEF t
  <2>3. t \in Members
    BY <1>1, <2>1, <2>2 DEF Members
  <2>4. /\ t.file = s.file /\ t.disk = EmptyHeader /\ t.header = EmptyHeader
        /\ t.firstLog = s.firstLog /\ t.currentLogEnd = -1 /\ t.freed = s.freed
        /\ t.toWrite = FirstLog /\ t.toRead = -1
        /\ t.requestQueue = s.requestQueue /\ t.portion = s.portion
    BY <1>1, <2>2 DEF Members
  <2>5. WithOffsets(t)
    BY <2>4, ConstantFacts DEF WithOffsets, EmptyHeader
  <2>6. WellStored(t)
    BY <1>1, <2>3, <2>4, ConstantFacts DEF WellStored
  <2>. QED  BY <2>3, <2>4, <2>5, <2>6 DEF WellOpened, t
<1>3. LET t == Advanced(s)
      IN  /\ WellOpened(t) /\ WithOffsets(t) /\ t \in Members
          /\ t.disk = s.header /\ t.file = s.file
          /\ t.toRead = s.currentLogEnd /\ t.toWrite = s.toWrite
          /\ t.portion = s.portion /\ t.freed = s.freed
          /\ t.requestQueue = s.requestQueue
  <2>. DEFINE t == Advanced(s)
              o == [toWrite |-> s.toWrite, toRead |-> s.currentLogEnd]
  <2>1. s.currentLogEnd \in Nat \cup {-1} /\ s.toWrite \in Nat
    BY <1>1 DEF Members
  <2>2. o \in Offsets /\ OffsetsFit(o)
    BY <2>1 DEF Offsets, OffsetsFit, WithOffsets
  <2>3. t = [s EXCEPT !.header = o, !.disk = s.header,
                      !.toRead = s.currentLogEnd, !.currentLogEnd = -1]
    BY DEF Advanced
  <2>. HIDE DEF t
  <2>4. t \in Members
    <3>. HIDE DEF o
    <3>. QED  BY <1>1, <2>1, <2>2, <2>3 DEF Members
  <2>5. /\ t.file = s.file /\ t.disk = s.header /\ t.header = o
        /\ t.firstLog = s.firstLog /\ t.currentLogEnd = -1 /\ t.freed = s.freed
        /\ t.toWrite = s.toWrite /\ t.toRead = s.currentLogEnd
        /\ t.requestQueue = s.requestQueue /\ t.portion = s.portion
    BY <1>1, <2>3 DEF Members
  <2>6. WithOffsets(t)
    BY <2>5 DEF WithOffsets
  <2>7. WellStored(t)
    <3>. HIDE DEF o
    <3>. QED  BY <1>1, <2>2, <2>4, <2>5 DEF WellStored
  <2>. QED  BY <2>4, <2>5, <2>6, <2>7 DEF WellOpened, t
<1>. QED  BY <1>2, <1>3

(* The last confirmation: the portion is let go, and maybe the next record *)
(* is read.                                                                *)
LEMMA ReleasedInv ==
    ASSUME NEW s, WellOpened(s), WithOffsets(s),
           NEW t \in {Released(s)} \cup ReleaseFailures(s)
    PROVE  /\ WellOpened(t) /\ t \in Members
           /\ t.requestQueue = s.requestQueue
           /\ t.portion \in {Null, Reread}
<1>. DEFINE d == Deleted(s)
<1>1. /\ WellOpened(d) /\ WithOffsets(d) /\ d.requestQueue = s.requestQueue
      /\ d.portion = Null
  BY DeletedInv DEF WellOpened, WellStored
<1>2. s.header \in Offsets /\ OffsetsFit(s.header)
  BY DEF WellOpened, WellStored, Members
<1>3. \/ t = Emptied(d)
      \/ t = [Emptied(d) EXCEPT !.disk = s.header]
      \/ t \in {ReadAndDistribute(Advanced(d))} \cup ReadFailures(Advanced(d))
  BY DEF Released, ReleaseFailures
<1>. HIDE DEF d
<1>4. /\ WellOpened(Emptied(d)) /\ Emptied(d) \in Members
      /\ Emptied(d).requestQueue = s.requestQueue /\ Emptied(d).portion = Null
      /\ WellOpened(Advanced(d)) /\ WithOffsets(Advanced(d))
      /\ Advanced(d).requestQueue = s.requestQueue /\ Advanced(d).portion = Null
  BY <1>1, AdvancedInv
<1>5. CASE t = Emptied(d)
  BY <1>4, <1>5
<1>6. CASE t = [Emptied(d) EXCEPT !.disk = s.header]
  <2>. DEFINE e == Emptied(d)
  <2>. HIDE DEF e
  <2>. QED  BY <1>2, <1>4, <1>6, FlushedInv DEF e
<1>7. CASE t \in {ReadAndDistribute(Advanced(d))} \cup ReadFailures(Advanced(d))
  BY <1>4, <1>7, ReadAndDistributeInv DEF WellOpened, WellStored
<1>. QED  BY <1>3, <1>5, <1>6, <1>7

(* One request leaves the queue, or one joins it.                          *)
LEMMA QueueInv ==
    ASSUME NEW s, WellOpened(s)
    PROVE  /\ s.requestQueue # <<>> =>
                /\ WellOpened(Dequeued(s))
                /\ Head(s.requestQueue) \in Portions
                /\ Size(Head(s.requestQueue)) <= MaxSize
           /\ \A p \in Portions : Size(p) <= MaxSize =>
                /\ WellOpened([s EXCEPT !.requestQueue = Append(@, p)])
                /\ WellOpened([s EXCEPT !.requestQueue = <<p>>])
<1>. DEFINE q == s.requestQueue
<1>1. s \in Members /\ q \in Seq(Portions) /\ \A i \in DOMAIN q : Size(q[i]) <= MaxSize
  BY DEF WellOpened, WellStored, Members
<1>2. ASSUME NEW r \in Seq(Portions), \A i \in DOMAIN r : Size(r[i]) <= MaxSize
      PROVE  WellOpened([s EXCEPT !.requestQueue = r])
  <2>. DEFINE u == [s EXCEPT !.requestQueue = r]
  <2>1. u \in Members
    BY <1>1 DEF Members
  <2>2. /\ u.file = s.file /\ u.disk = s.disk /\ u.header = s.header
        /\ u.firstLog = s.firstLog /\ u.currentLogEnd = s.currentLogEnd
        /\ u.toWrite = s.toWrite /\ u.toRead = s.toRead /\ u.requestQueue = r
        /\ u.portion = s.portion
    BY <1>1 DEF Members
  <2>. HIDE DEF u
  <2>3. OffsetsFit(u.disk)
    BY <2>2 DEF WellOpened, WellStored
  <2>4. WellOpened(u)
    BY <1>2, <2>1, <2>2, <2>3, SameOpened
  <2>. QED  BY <2>4 DEF u
<1>3. ASSUME q # <<>>
      PROVE  /\ WellOpened(Dequeued(s))
             /\ Head(q) \in Portions /\ Size(Head(q)) <= MaxSize
  <2>1. /\ Tail(q) \in Seq(Portions) /\ Head(q) \in Portions /\ Head(q) = q[1]
        /\ 1 \in DOMAIN q
        /\ \A i \in DOMAIN Tail(q) : i + 1 \in DOMAIN q /\ Tail(q)[i] = q[i + 1]
    BY <1>1, <1>3
  <2>. QED  BY <1>1, <1>2, <2>1 DEF Dequeued
<1>4. ASSUME NEW p \in Portions, Size(p) <= MaxSize
      PROVE  /\ WellOpened([s EXCEPT !.requestQueue = Append(q, p)])
             /\ WellOpened([s EXCEPT !.requestQueue = <<p>>])
  <2>1. /\ Append(q, p) \in Seq(Portions)
        /\ \A i \in DOMAIN Append(q, p) : i \in DOMAIN q \/ Append(q, p)[i] = p
        /\ \A i \in DOMAIN q : Append(q, p)[i] = q[i]
    BY <1>1
  <2>2. <<p>> \in Seq(Portions) /\ \A i \in DOMAIN <<p>> : <<p>>[i] = p
    OBVIOUS
  <2>3. \A i \in DOMAIN Append(q, p) : Size(Append(q, p)[i]) <= MaxSize
    BY <1>1, <1>4, <2>1
  <2>. QED  BY <1>2, <1>4, <2>1, <2>2, <2>3
<1>. QED  BY <1>3, <1>4

-----------------------------------------------------------------------------
(* The file, at every step                                                 *)

FileInv ==
    /\ TypeOK
    /\ WellStored(m)
    /\ phase \in {"open", "closed"} => WellOpened(m)
    /\ m.portion \in Portions => pending # <<>>

(* A portion that is written: the object, and the record of it.            *)
LEMMA StoredType ==
    ASSUME NEW s, WellOpened(s), NEW p \in Portions, Size(p) <= MaxSize
    PROVE  /\ Stored(s, p) \in [of : Portions, end : Nat]
           /\ Written(s, p).portion \in {p, s.portion}
           /\ Written(s, p) \in Members
           /\ \A t \in WriteFailures(s, p) :
                 t \in Members /\ t.portion = s.portion
<1>1. s \in Members
  BY DEF WellOpened, WellStored
<1>2. WriteEnd(s, p) \in Nat
  BY WrittenInv
<1>3. Written(s, p).portion \in {p, s.portion}
  BY <1>1, WrittenFields
<1>4. \A t \in WriteFailures(s, p) : t \in Members /\ t.portion = s.portion
  BY <1>1, WrittenInv, FailureFields DEF WellOpened, WellStored
<1>. QED  BY <1>2, <1>3, <1>4, WrittenInv DEF Stored, WellOpened, WellStored

LEMMA FileInvInit == Init => FileInv
<1>. SUFFICES ASSUME Init PROVE FileInv
  OBVIOUS
<1>1. WellOpened(m) /\ WellStored(m) /\ m \in Members
  BY NewFileInv DEF Init, WellOpened, WellStored
<1>2. m.portion \notin Portions
  BY DataFileAssumption DEF Init, NewFile
<1>3. TypeOK
  <2>1. inbox \in [Consumers -> Seq(Portions)]
    BY DEF Init
  <2>2. faults \in 0..MaxFaults /\ restarts \in 0..MaxRestarts
    BY DataFileAssumption DEF Init
  <2>3. confirms \in Seq(Portions) /\ pending \in Seq([of : Portions, end : Nat])
    BY EmptySeq DEF Init
  <2>4. reply \in [Portions -> {"none", "rejected", "written", "queued", "dropped"}]
    BY DEF Init
  <2>5. shutDowns \in Nat /\ closes \in Nat /\ accepting \in BOOLEAN
    BY DEF Init
  <2>. QED  BY <1>1, <2>1, <2>2, <2>3, <2>4, <2>5 DEF Init, TypeOK
<1>. QED  BY <1>1, <1>2, <1>3 DEF FileInv

LEMMA FileInvStep == FileInv /\ [Next]_vars => FileInv'
<1>. SUFFICES ASSUME FileInv, [Next]_vars PROVE FileInv'
  OBVIOUS
<1>. USE DEF FileInv
<1>1. /\ m \in Members /\ m.requestQueue \in Seq(Portions)
      /\ inbox \in [Consumers -> Seq(Portions)]
      /\ pending \in Seq([of : Portions, end : Nat])
      /\ confirms \in Seq(Portions)
      /\ faults \in 0..MaxFaults /\ restarts \in 0..MaxRestarts
      /\ MaxFaults \in Nat /\ MaxRestarts \in Nat
  BY DataFileAssumption DEF TypeOK, Members
<1>2. ASSUME NEW p \in Portions, Notify(p)
      PROVE  inbox' \in [Consumers -> Seq(Portions)]
  BY <1>1, <1>2 DEF Notify
<1>3. ASSUME NEW s, NEW p \in Portions, WriteImpl(s, p)
      PROVE  m' = Written(s, p) /\ inbox' \in [Consumers -> Seq(Portions)]
  BY <1>1, <1>2, <1>3 DEF WriteImpl
<1>4. \A n \in Nat : Fault(n) => faults' \in 0..MaxFaults
  BY <1>1 DEF Fault
<1>5. CASE UNCHANGED vars
  BY <1>5 DEF vars, TypeOK, WellStored, WellOpened
<1>6. ASSUME NEW p \in Portions, ScheduleForWrite(p)
      PROVE  FileInv'
  <2>1. CASE RejectTooBig(p)
    BY <2>1 DEF RejectTooBig, Schedule, daemonVars, TypeOK
  <2>2. CASE WriteAtOnce(p)
    <3>1. WellOpened(m) /\ Size(p) <= MaxSize
      <4>1. Size(p) \in Nat /\ MaxSize \in Nat
        BY RecordType, DestFacts, ConstantFacts
      <4>. QED  BY <2>2, <4>1 DEF WriteAtOnce, Schedule
    <3>2. WellOpened(m') /\ m' \in Members /\ inbox' \in [Consumers -> Seq(Portions)]
      <4>1. m' = Written(m, p) /\ inbox' \in [Consumers -> Seq(Portions)]
        BY <1>3, <2>2 DEF WriteAtOnce
      <4>. QED  BY <3>1, <4>1, WrittenInv, StoredType
    <3>3. pending' \in Seq([of : Portions, end : Nat]) /\ pending' # <<>>
      BY <1>1, <2>2, <3>1, StoredType DEF WriteAtOnce
    <3>. QED
      BY <2>2, <3>2, <3>3 DEF WriteAtOnce, Schedule, daemonVars, TypeOK, WellOpened
  <2>3. CASE Enqueue(p)
    <3>1. WellOpened(m) /\ Size(p) <= MaxSize
      <4>1. Size(p) \in Nat /\ MaxSize \in Nat
        BY RecordType, DestFacts, ConstantFacts
      <4>. QED  BY <2>3, <4>1 DEF Enqueue, Schedule
    <3>2. WellOpened(m') /\ m'.portion = m.portion /\ faults' \in 0..MaxFaults
      <4>1. CASE m' = [m EXCEPT !.requestQueue = Append(@, p)] /\ UNCHANGED faults
        BY <1>1, <3>1, <4>1, QueueInv DEF Members
      <4>2. CASE /\ Fault(1)
                 /\ \E s \in WriteFailures(m, p) : m' = [s EXCEPT !.requestQueue = <<p>>]
        <5>1. PICK s \in WriteFailures(m, p) : m' = [s EXCEPT !.requestQueue = <<p>>]
          BY <4>2
        <5>2. WellOpened(s) /\ s \in Members /\ s.portion = m.portion
          BY <3>1, WrittenInv, StoredType
        <5>3. WellOpened(m')
          BY <3>1, <5>1, <5>2, QueueInv
        <5>. QED  BY <1>4, <4>2, <5>1, <5>2, <5>3 DEF Members
      <4>. QED  BY <2>3, <4>1, <4>2 DEF Enqueue
    <3>. QED
      BY <1>1, <2>3, <3>2
      DEF Enqueue, Schedule, daemonVars, TypeOK, WellOpened, WellStored
  <2>. QED  BY <1>6, <2>1, <2>2, <2>3 DEF ScheduleForWrite
<1>7. ASSUME ConfirmPortion
      PROVE  FileInv'
  <2>1. ASSUME Confirm
        PROVE  /\ confirms' \in Seq(Portions) /\ Head(confirms) \in Portions
               /\ UNCHANGED <<phase, shutDowns, accepting, closes, running, restarts, delivered>>
    BY <1>1, <2>1 DEF Confirm, daemonVars
  <2>2. CASE CountConfirmation
    <3>1. m' \in {m, [m EXCEPT !.nmbDest = @ - 1]}
      BY <2>2 DEF CountConfirmation
    <3>. DEFINE u == [m EXCEPT !.nmbDest = @ - 1]
    <3>2. u \in Members
      <4>1. m.nmbDest - 1 \in Int
        BY <1>1 DEF Members
      <4>. QED  BY <1>1, <4>1 DEF Members
    <3>3. /\ u.file = m.file /\ u.disk = m.disk /\ u.header = m.header
          /\ u.toWrite = m.toWrite /\ u.toRead = m.toRead
          /\ u.firstLog = m.firstLog /\ u.currentLogEnd = m.currentLogEnd
          /\ u.requestQueue = m.requestQueue /\ u.portion = m.portion
      BY <1>1 DEF Members
    <3>. HIDE DEF u
    <3>4. WellStored(u)
      BY <3>2, <3>3 DEF WellStored
    <3>5. phase \in {"open", "closed"} => WellOpened(u)
      BY <3>2, <3>3, <3>4, SameOpened DEF WellStored
    <3>6. /\ m' \in Members /\ WellStored(m')
          /\ (phase \in {"open", "closed"} => WellOpened(m'))
          /\ m'.portion = m.portion
      BY <1>1, <3>1, <3>2, <3>3, <3>4, <3>5 DEF u
    <3>. QED  BY <2>1, <2>2, <3>6 DEF CountConfirmation, TypeOK
  <2>3. CASE ReleaseFails
    <3>. DEFINE u == Deleted(m)
    <3>1. /\ m' \in {u, [u EXCEPT !.disk = m.header]} /\ Confirm
          /\ faults' \in 0..MaxFaults
      BY <1>1, <1>4, <2>3 DEF ReleaseFails
    <3>2. /\ u \in Members /\ WellStored(u) /\ u.portion = Null
          /\ phase \in {"open", "closed"} => WellOpened(u)
      BY <1>1, DeletedInv
    <3>3. m.header \in Offsets /\ OffsetsFit(m.header)
      BY <1>1 DEF WellStored, Members
    <3>. HIDE DEF u
    <3>. DEFINE v == [u EXCEPT !.disk = m.header]
    <3>4. /\ v \in Members /\ WellStored(v) /\ v.portion = Null
          /\ phase \in {"open", "closed"} => WellOpened(v)
      BY <3>2, <3>3, FlushedInv
    <3>. HIDE DEF v
    <3>5. /\ m' \in Members /\ WellStored(m')
          /\ (phase \in {"open", "closed"} => WellOpened(m'))
          /\ m'.portion = Null
      BY <3>1, <3>2, <3>4 DEF v
    <3>6. m'.portion \notin Portions
      BY <3>5, DataFileAssumption
    <3>. QED  BY <2>1, <2>3, <3>1, <3>5, <3>6 DEF ReleaseFails, TypeOK
  <2>4. ASSUME Release
        PROVE  /\ Confirm /\ phase = "open" /\ WellOpened(m) /\ WithOffsets(m)
               /\ pending # <<>>
               /\ Tail(pending) \in Seq([of : Portions, end : Nat])
    <3>1. Confirm /\ phase = "open" /\ m.portion \in Portions
      BY <2>1, <2>4 DEF Release, IsLast
    <3>2. WellOpened(m) /\ WithOffsets(m)
      BY <3>1, DataFileAssumption DEF WellOpened, WithoutOffsets
    <3>3. pending # <<>> /\ Tail(pending) \in Seq([of : Portions, end : Nat])
      BY <1>1, <3>1
    <3>. QED  BY <3>1, <3>2, <3>3
  <2>5. ASSUME Release, NEW n \in {0, 1}, NEW s \in LetGo(n), PopNextFromQueue(s, n)
        PROVE  FileInv'
    <3>1. /\ WellOpened(s) /\ s \in Members /\ s.requestQueue = m.requestQueue
          /\ s.portion \notin Portions
      <4>1. s \in {Released(m)} \cup ReleaseFailures(m)
        BY <2>5 DEF LetGo
      <4>2. s.portion \in {Null, Reread}
        BY <2>4, <2>5, <4>1, ReleasedInv
      <4>. QED  BY <2>4, <2>5, <4>1, <4>2, ReleasedInv, DataFileAssumption
    <3>. DEFINE p == Head(s.requestQueue)
                u == Dequeued(s)
    <3>2. ASSUME CanPop(s)
          PROVE  WellOpened(u) /\ u.portion \notin Portions /\ p \in Portions /\ Size(p) <= MaxSize
      <4>1. u.portion = s.portion
        BY <3>1 DEF Dequeued, Members
      <4>. QED  BY <3>1, <3>2, <4>1, QueueInv DEF CanPop
    <3>3. CASE PopNothing(s, n)
      <4>1. /\ m' = s /\ pending' = Tail(pending) /\ UNCHANGED <<inbox, reply>>
            /\ faults' \in 0..MaxFaults
        BY <1>4, <3>3 DEF PopNothing
      <4>. QED  BY <2>1, <2>4, <2>5, <3>1, <4>1 DEF TypeOK, WellOpened
    <3>4. CASE PopRequest(s, n)
      <4>1. /\ CanPop(s) /\ WriteImpl(u, p)
            /\ reply' = [reply EXCEPT ![p] = "written"]
            /\ pending' = Append(Tail(pending), Stored(u, p))
            /\ faults' \in 0..MaxFaults
        BY <1>4, <3>4 DEF PopRequest
      <4>2. WellOpened(u) /\ p \in Portions /\ Size(p) <= MaxSize
        BY <3>2, <4>1
      <4>. HIDE DEF p, u
      <4>3. WellOpened(m') /\ m' \in Members /\ inbox' \in [Consumers -> Seq(Portions)]
        <5>1. m' = Written(u, p) /\ inbox' \in [Consumers -> Seq(Portions)]
          BY <1>3, <4>1, <4>2
        <5>. QED  BY <4>2, <5>1, WrittenInv, StoredType
      <4>4. pending' \in Seq([of : Portions, end : Nat]) /\ pending' # <<>>
        BY <2>4, <2>5, <4>1, <4>2, StoredType
      <4>. QED  BY <2>1, <2>4, <2>5, <4>1, <4>2, <4>3, <4>4 DEF TypeOK, WellOpened
    <3>5. CASE DropRequest(s, n)
      <4>1. /\ CanPop(s) /\ m' \in WriteFailures(u, p)
            /\ reply' = [reply EXCEPT ![p] = "dropped"]
            /\ pending' = Tail(pending) /\ UNCHANGED inbox
            /\ faults' \in 0..MaxFaults
        <5>1. Fault(n + 1) /\ n + 1 \in Nat
          BY <3>5 DEF DropRequest
        <5>. QED  BY <1>4, <3>5, <5>1 DEF DropRequest
      <4>2. /\ WellOpened(u) /\ u.portion \notin Portions
            /\ p \in Portions /\ Size(p) <= MaxSize
        BY <3>2, <4>1
      <4>. HIDE DEF p, u
      <4>3. WellOpened(m') /\ m' \in Members /\ m'.portion \notin Portions
        BY <4>1, <4>2, WrittenInv, StoredType
      <4>. QED  BY <2>1, <2>4, <2>5, <4>1, <4>2, <4>3 DEF TypeOK, WellOpened
    <3>. QED  BY <2>5, <3>3, <3>4, <3>5 DEF PopNextFromQueue
  <2>. QED  BY <1>7, <2>2, <2>3, <2>5 DEF ConfirmPortion
<1>8. ASSUME NEW c \in Consumers, Consume(c) \/ ConsumeFails(c) \/ EndConsumer(c)
      PROVE  FileInv'
  <2>1. CASE Consume(c) \/ ConsumeFails(c)
    <3>1. /\ Take(c) /\ inbox[c] \in Seq(Portions) /\ inbox[c] # <<>>
          /\ inbox' = [inbox EXCEPT ![c] = Tail(@)]
      BY <1>1, <2>1 DEF Consume, ConsumeFails, Take
    <3>2. inbox' \in [Consumers -> Seq(Portions)] /\ Head(inbox[c]) \in Portions
      BY <1>1, <3>1
    <3>3. /\ confirms' \in Seq(Portions) /\ delivered' \subseteq Consumers \X Portions
          /\ shutDowns' \in Nat /\ faults' \in 0..MaxFaults
      <4>1. CASE Consume(c)
        <5>1. /\ confirms' = Append(confirms, Head(inbox[c]))
              /\ delivered' = delivered \cup {<<c, Head(inbox[c])>>}
              /\ UNCHANGED <<shutDowns, faults>>
          BY <4>1 DEF Consume
        <5>2. <<c, Head(inbox[c])>> \in Consumers \X Portions
          BY <1>8, <3>2
        <5>3. delivered \subseteq Consumers \X Portions /\ shutDowns \in Nat
          BY DEF TypeOK
        <5>. QED  BY <1>1, <3>2, <5>1, <5>2, <5>3
      <4>2. CASE ConsumeFails(c)
        BY <1>1, <1>4, <4>2 DEF ConsumeFails, TypeOK
      <4>. QED  BY <2>1, <4>1, <4>2
    <3>. QED  BY <3>1, <3>2, <3>3 DEF Take, daemonVars, TypeOK
  <2>2. CASE EndConsumer(c)
    BY <2>2 DEF EndConsumer, TypeOK
  <2>. QED  BY <1>8, <2>1, <2>2
<1>9. CASE ShutDown \/ CloseProvider
  <2>1. shutDowns' \in Nat /\ accepting' \in BOOLEAN
    <3>1. shutDowns \in Nat /\ accepting \in BOOLEAN
      BY DEF TypeOK
    <3>2. shutDowns' \in {shutDowns, shutDowns + 1}
      BY <1>9, Zenon DEF ShutDown, CloseProvider
    <3>3. accepting' = accepting \/ accepting' = FALSE
      BY <1>9, Zenon DEF ShutDown, CloseProvider, daemonVars
    <3>4. shutDowns' \in Nat
      BY <3>1, <3>2
    <3>5. accepting' \in BOOLEAN
      BY <3>1, <3>3, Zenon
    <3>. QED  BY <3>4, <3>5
  <2>2. UNCHANGED <<m, phase, closes, running, restarts, inbox, confirms, reply,
                    delivered, pending, faults>>
    BY <1>9 DEF ShutDown, CloseProvider, daemonVars
  <2>. QED  BY <2>1, <2>2 DEF TypeOK, WellStored
<1>10. ASSUME NEW u, m' = u, phase' \in {"closed", "down"}, UNCHANGED restarts,
              running' \subseteq Consumers, inbox' \in [Consumers -> Seq(Portions)],
              confirms' \in Seq(Portions), closes' \in Nat, WellStored(u),
              phase' = "closed" => WellOpened(u), u.portion = m.portion,
              UNCHANGED <<shutDowns, accepting, reply, delivered, pending, faults>>
       PROVE  FileInv'
  BY <1>1, <1>10 DEF TypeOK, WellStored
<1>11. CASE CloseFile
  <2>. DEFINE u == ClosedFile(m)
  <2>1. /\ m.header \in Offsets /\ m.freed + 1 \in Nat /\ m.freed \in Nat /\ -1 \in Int
        /\ OffsetsFit(m.header)
    BY <1>1 DEF Members, WellStored
  <2>2. u \in Members
    BY <1>1, <2>1 DEF ClosedFile, Members
  <2>3. /\ u.file = m.file /\ u.disk = m.header /\ u.header = m.header
        /\ u.firstLog = m.firstLog /\ u.currentLogEnd = m.currentLogEnd
        /\ u.toWrite = m.toWrite /\ u.toRead = m.toRead
        /\ u.requestQueue = m.requestQueue /\ u.portion = m.portion
    BY <1>1 DEF ClosedFile, Members
  <2>4. /\ phase \in {"open", "closed"} /\ phase' = "closed" /\ m' = u
        /\ closes' = closes + 1
        /\ UNCHANGED <<shutDowns, accepting, running, restarts, inbox, confirms, reply,
                       delivered, pending, faults>>
    BY <1>11 DEF CloseFile
  <2>. HIDE DEF u
  <2>5. WellStored(u)
    BY <2>1, <2>2, <2>3 DEF WellStored
  <2>6. WellOpened(u)
    BY <2>1, <2>2, <2>3, <2>4, <2>5, SameOpened DEF WellStored
  <2>7. running' \subseteq Consumers /\ closes' \in Nat
    BY <2>4 DEF TypeOK
  <2>. QED  BY <1>1, <1>10, <2>3, <2>4, <2>5, <2>6, <2>7
<1>12. CASE Destroy
  <2>. DEFINE u == Destroyed(m)
  <2>1. u \in Members
    <3>1. m.freed \in Nat /\ m.freed + 1 \in Nat
      BY <1>1 DEF Members
    <3>. QED  BY <1>1, <3>1 DEF Destroyed, Members
  <2>2. /\ u.file = m.file /\ u.disk = m.disk /\ u.header = m.header
        /\ u.requestQueue = m.requestQueue /\ u.portion = m.portion
    BY <1>1 DEF Destroyed, Members
  <2>3. WellStored(u)
    BY <2>1, <2>2 DEF WellStored
  <2>4. inbox' \in [Consumers -> Seq(Portions)]
    BY <1>12 DEF Destroy
  <2>. QED  BY <1>1, <1>10, <1>12, <2>2, <2>3, <2>4 DEF Destroy, TypeOK
<1>13. CASE Crash
  <2>1. inbox' \in [Consumers -> Seq(Portions)]
    BY <1>13 DEF Crash
  <2>. QED  BY <1>1, <1>10, <1>13, <2>1 DEF Crash, TypeOK
<1>14. CASE Restart
  <2>. DEFINE u == Reopened(m)
  <2>1. /\ m.disk \in Offsets /\ OffsetsFit(m.disk)
        /\ m.disk.toWrite \in Nat /\ m.disk.toRead \in Nat \cup {-1}
        /\ m.file \in Seq(Line)
    BY <1>1 DEF WellStored, Members, Offsets
  <2>2. NewFile \in Members /\ NewFile.requestQueue = <<>> /\ NewFile.portion = Null
    BY NewFileInv DEF WellOpened, WellStored, NewFile
  <2>3. /\ u.file = (IF m.disk = NoHeader THEN <<>> ELSE m.file)
        /\ u.disk = m.disk /\ u.header = m.disk
        /\ u.firstLog = (IF m.disk = NoHeader THEN 0 ELSE FirstLog)
        /\ u.toWrite = m.disk.toWrite /\ u.toRead = m.disk.toRead
        /\ u.currentLogEnd = -1 /\ u.requestQueue = <<>> /\ u.portion = Null
    BY DEF Reopened, NewFile
  <2>4. u \in Members
    <3>1. u.file \in Seq(Line)
      BY <2>1, <2>3, EmptySeq
    <3>2. u.firstLog \in {0, FirstLog}
      BY <2>3
    <3>. HIDE DEF NewFile
    <3>3. u = [NewFile EXCEPT !.file = u.file, !.disk = m.disk, !.header = m.disk,
                              !.firstLog = u.firstLog,
                              !.toWrite = m.disk.toWrite, !.toRead = m.disk.toRead]
      BY <2>2, <2>3 DEF Reopened
    <3>. HIDE DEF u
    <3>. QED  BY <2>1, <2>2, <3>1, <3>2, <3>3 DEF Members
  <2>5. WellStored(u)
    <3>1. DOMAIN u.requestQueue = {}
      BY <2>3
    <3>. QED  BY <2>1, <2>3, <2>4, <3>1 DEF WellStored
  <2>6. phase' \in SetFileResults(u) /\ m' = u
    BY <1>14 DEF Restart
  <2>. HIDE DEF u
  <2>7. phase' \in {"open", "hung", "failed"}
    BY <2>6 DEF SetFileResults
  <2>8. phase' = "open" => WellOpened(u)
    <3>. SUFFICES ASSUME phase' = "open" PROVE WellOpened(u)
      OBVIOUS
    <3>1. /\ ~(FirstLog + Len(u.file) > MaxSize)
          /\ u.toRead < 0 \/ (u.toRead = u.firstLog /\ ~(u.toWrite > MaxSize))
      BY <2>6 DEF SetFileResults
    <3>2. CASE m.disk = NoHeader
      BY <2>3, <2>5, <3>2 DEF WellOpened, WithoutOffsets, NoHeader
    <3>3. CASE m.disk # NoHeader
      <4>1. u.toRead \in {-1, FirstLog} /\ u.firstLog = FirstLog
        BY <2>1, <2>3, <3>1, <3>3
      <4>2. m.disk.toRead # Text /\ u.toRead # 0
        BY <2>3, <4>1, ConstantFacts
      <4>3. u.toWrite \in FirstLog..MaxSize
        BY <2>1, <2>3, <3>3, <4>2 DEF OffsetsFit
      <4>4. Len(u.file) <= MaxSize - FirstLog
        <5>1. Len(u.file) \in Nat
          BY <2>4 DEF Members
        <5>. QED  BY <3>1, <5>1, ConstantFacts
      <4>5. m.disk = [toWrite |-> m.disk.toWrite, toRead |-> m.disk.toRead]
        BY <2>1 DEF Offsets
      <4>. QED  BY <2>3, <2>5, <4>1, <4>2, <4>3, <4>4, <4>5 DEF WellOpened, WithOffsets
    <3>. QED  BY <3>2, <3>3
  <2>9. /\ restarts' \in 0..MaxRestarts /\ running' = Consumers /\ accepting' = TRUE
        /\ shutDowns' = 0 /\ closes' = 0
        /\ UNCHANGED <<inbox, confirms, reply, delivered, pending, faults>>
    BY <1>1, <1>14 DEF Restart
  <2>10. m'.portion \notin Portions
    BY <2>3, <2>6, DataFileAssumption
  <2>. QED  BY <2>4, <2>5, <2>6, <2>7, <2>8, <2>9, <2>10 DEF TypeOK
<1>. QED
  BY <1>5, <1>6, <1>7, <1>8, <1>9, <1>11, <1>12, <1>13, <1>14 DEF Next

LEMMA FileInvariant == Spec => []FileInv
<1>1. Init => FileInv
  BY FileInvInit
<1>2. FileInv /\ [Next]_vars => FileInv'
  BY FileInvStep
<1>. QED  BY <1>1, <1>2, PTL DEF Spec

(* Every variable keeps its type, whatever fails, wraps or is restarted:   *)
(* in particular the offsets readAndDistribute takes from the lines it     *)
(* reads are positions.                                                    *)
THEOREM TypeCorrect == Spec => []TypeOK
<1>1. FileInv => TypeOK
  BY DEF FileInv
<1>. QED  BY <1>1, FileInvariant, PTL

(* In a file that has its offsets the limit holds: it never grows past     *)
(* m_maxSize, and m_toWrite never leaves it.                               *)
THEOREM StaysWithinLimit == Spec => []WithinLimit
<1>1. FileInv => WithinLimit
  <2>. SUFFICES ASSUME FileInv, phase \in {"open", "closed"}, m.firstLog = FirstLog
                PROVE  FirstLog + Len(m.file) <= MaxSize /\ m.toWrite \in FirstLog..MaxSize
    BY DEF WithinLimit
  <2>1. WithOffsets(m)
    BY ConstantFacts DEF FileInv, WellOpened, WithoutOffsets
  <2>2. Len(m.file) \in Nat
    BY DEF FileInv, TypeOK, Members
  <2>. QED  BY <2>1, <2>2, ConstantFacts DEF WithOffsets
<1>. QED  BY <1>1, FileInvariant, PTL

(* In such a file the offsets the process wrote are the ones it works      *)
(* with, although writeImpl writes m_toRead only in one branch and any     *)
(* write, seek or flush may fail.                                          *)
THEOREM HeaderStaysCurrent == Spec => []HeaderIsCurrent
<1>1. FileInv => HeaderIsCurrent
  BY ConstantFacts DEF FileInv, WellOpened, WithOffsets, WithoutOffsets, HeaderIsCurrent
<1>. QED  BY <1>1, FileInvariant, PTL

-----------------------------------------------------------------------------
(* The events around the object                                            *)

(* The destinations of a portion that have not consumed it.                *)
Waiting(p) == {c \in DestSet[p] : <<c, p>> \notin delivered}

(* A portion that is not in the file has not been consumed, and is in the  *)
(* queue at most once.                                                     *)
RequestInv ==
    /\ \A p \in Portions : reply[p] \in {"none", "queued"} =>
          \A c \in Consumers : <<c, p>> \notin delivered
    /\ \A i \in DOMAIN m.requestQueue : reply[m.requestQueue[i]] = "queued"
    /\ \A i, j \in DOMAIN m.requestQueue :
          m.requestQueue[i] = m.requestQueue[j] => i = j

(* While the file is open, every event is about m_portion.                 *)
OpenInv ==
    /\ m.freed <= 1
    /\ m.portion # Null => m.freed = 0
    /\ m.portion \in Portions =>
          /\ reply[m.portion] = "written"
          /\ m.nmbDest = Cardinality(Waiting(m.portion)) + Len(confirms)
    /\ \A c \in Consumers : inbox[c] # <<>> =>
          /\ m.portion \in Portions
          /\ c \in Waiting(m.portion)
          /\ inbox[c] = <<m.portion>>
    /\ \A i \in DOMAIN confirms : confirms[i] = m.portion

(* Once it is closed, no confirmation is the last one, and each call of    *)
(* closeFile may have deleted the portion.                                 *)
ClosedInv ==
    /\ closes >= 1
    /\ m.freed <= closes
    /\ m.portion = Null \/ m.nmbDest <= -1

(* When no file is open nothing is under way, and the destructor may have  *)
(* deleted the portion once more.                                          *)
QuietInv ==
    /\ \A c \in Consumers : inbox[c] = <<>>
    /\ confirms = <<>>
    /\ m.freed <= 1 \/ (phase = "down" /\ m.freed <= closes + 1)

DeliveryInv ==
    /\ RequestInv
    /\ phase = "open" => OpenInv
    /\ phase = "closed" => ClosedInv
    /\ phase \notin {"open", "closed"} => QuietInv

(* What the steps of the code do to m_portion, its counter and the queue.  *)
LEMMA WrittenEffect ==
    ASSUME NEW s \in Members, NEW p \in Portions
    PROVE  /\ Written(s, p).requestQueue = s.requestQueue
           /\ Dispatches(s) =>
                 /\ Written(s, p).portion = p
                 /\ Written(s, p).nmbDest = Len(Dest[p])
                 /\ Written(s, p).freed = 0
           /\ ~Dispatches(s) =>
                 /\ Written(s, p).portion = s.portion
                 /\ Written(s, p).nmbDest = s.nmbDest
                 /\ Written(s, p).freed = s.freed
           /\ \A t \in WriteFailures(s, p) :
                 /\ t.portion = s.portion /\ t.nmbDest = s.nmbDest
                 /\ t.freed = s.freed /\ t.requestQueue = s.requestQueue
<1>1. \A t \in WriteFailures(s, p) :
         /\ t.portion = s.portion /\ t.nmbDest = s.nmbDest
         /\ t.freed = s.freed /\ t.requestQueue = s.requestQueue
  BY FailureFields
<1>2. CASE Dispatches(s)
  BY <1>1, <1>2 DEF Written, Members
<1>3. CASE ~Dispatches(s)
  BY <1>1, <1>3 DEF Written, Members
<1>. QED  BY <1>2, <1>3

LEMMA ReleasedEffect ==
    ASSUME NEW s, WellOpened(s), WithOffsets(s), s.freed = 0,
           NEW t \in {Released(s)} \cup ReleaseFailures(s)
    PROVE  \/ t.portion = Null /\ t.freed = 1
           \/ t.portion = Reread /\ t.freed = 0
<1>. DEFINE d == Deleted(s)
            e == Emptied(d)
            a == Advanced(d)
<1>1. WellOpened(d) /\ WithOffsets(d) /\ d.portion = Null /\ d.freed = 1
  BY DeletedInv DEF WellOpened, WellStored
<1>2. s.header \in Offsets
  BY DEF WellOpened, WellStored, Members
<1>3. \/ t = e
      \/ t = [e EXCEPT !.disk = s.header]
      \/ t \in {ReadAndDistribute(a)} \cup ReadFailures(a)
  BY DEF Released, ReleaseFailures
<1>. HIDE DEF d
<1>4. /\ e \in Members /\ e.portion = Null /\ e.freed = 1
      /\ a \in Members /\ a.portion = Null /\ a.freed = 1
  BY <1>1, AdvancedInv
<1>5. a.header \in Offsets
  BY <1>4 DEF Members
<1>. HIDE DEF e, a
<1>6. CASE t \in {e, [e EXCEPT !.disk = s.header]}
  BY <1>4, <1>6 DEF Members
<1>7. CASE t \in {a, [a EXCEPT !.disk = a.header]}
  BY <1>4, <1>7 DEF Members
<1>8. CASE t = ReadAndDistribute(a) /\ t \notin {a, [a EXCEPT !.disk = a.header]}
  <2>1. t = [a EXCEPT !.disk = a.header,
                      !.currentLogEnd = RecordEnd(a.file, a.toRead),
                      !.portion = Reread,
                      !.nmbDest = DestCount(a.file, a.toRead),
                      !.rereadLogs = ReadLogs(a.file, a.toRead),
                      !.freed = 0]
    BY <1>8, Zenon DEF ReadAndDistribute
  <2>. QED  BY <1>4, <2>1 DEF Members
<1>. QED  BY <1>3, <1>6, <1>7, <1>8 DEF ReadFailures

(* Nobody is waited for when IsLast finds one destination left: the        *)
(* confirmation being handled is the only event there is.                  *)
LEMMA LastConfirmation ==
    ASSUME FileInv, DeliveryInv, phase = "open", confirms # <<>>, IsLast
    PROVE  /\ m.portion \in Portions /\ m.freed = 0
           /\ Waiting(m.portion) = {}
           /\ \A c \in Consumers : inbox[c] = <<>>
           /\ Tail(confirms) = <<>>
<1>1. confirms \in Seq(Portions) /\ m.portion = Head(confirms) /\ m.nmbDest = 1
  BY DEF FileInv, TypeOK, IsLast
<1>2. m.portion \in Portions /\ m.portion # Null
  BY <1>1, DataFileAssumption
<1>3. m.freed = 0 /\ m.nmbDest = Cardinality(Waiting(m.portion)) + Len(confirms)
  BY <1>2 DEF DeliveryInv, OpenInv
<1>4. /\ IsFiniteSet(Waiting(m.portion))
      /\ Cardinality(Waiting(m.portion)) \in Nat
  <2>1. Waiting(m.portion) \subseteq DestSet[m.portion]
    BY DEF Waiting
  <2>. QED  BY <1>2, <2>1, DestFacts, FS_Subset, FS_CardinalityType
<1>5. Len(confirms) \in Nat \ {0}
  BY <1>1
<1>6. Cardinality(Waiting(m.portion)) = 0 /\ Len(confirms) = 1
  <2>1. ASSUME NEW n \in Nat, NEW k \in Nat \ {0}, n + k = 1
        PROVE  n = 0 /\ k = 1
    BY <2>1
  <2>2. Cardinality(Waiting(m.portion)) + Len(confirms) = 1
    BY <1>1, <1>3
  <2>. QED  BY <1>4, <1>5, <2>1, <2>2
<1>7. Waiting(m.portion) = {}
  BY <1>4, <1>6, FS_EmptySet
<1>8. Tail(confirms) = <<>>
  <2>1. Tail(confirms) \in Seq(Portions) /\ Len(Tail(confirms)) = 0
    BY <1>1, <1>6, HeadTailProperties
  <2>. QED  BY <2>1, EmptySeq
<1>9. \A c \in Consumers : inbox[c] = <<>>
  BY <1>7 DEF DeliveryInv, OpenInv
<1>. QED  BY <1>2, <1>3, <1>7, <1>8, <1>9

(* A portion that nobody has consumed is written while no event is on its  *)
(* way: if it is handed over, the counter starts at its destinations.      *)
LEMMA StartsCounted ==
    ASSUME FileInv, NEW s \in Members, NEW p \in Portions,
           s.freed <= 1, s.portion # Null => s.freed = 0, s.portion \notin Portions,
           \A c \in Consumers : inbox[c] = <<>> /\ <<c, p>> \notin delivered,
           confirms' = <<>>, delivered' = delivered, reply'[p] = "written",
           WriteImpl(s, p)
    PROVE  OpenInv'
<1>1. m' = Written(s, p) /\ inbox \in [Consumers -> Seq(Portions)]
  BY DEF WriteImpl, FileInv, TypeOK
<1>2. CASE Dispatches(s)
  <2>1. m'.portion = p /\ m'.nmbDest = Len(Dest[p]) /\ m'.freed = 0 /\ Notify(p)
    BY <1>1, <1>2, WrittenEffect DEF WriteImpl
  <2>2. Waiting(p)' = DestSet[p] /\ DestSet[p] \subseteq Consumers
    BY DestFacts DEF Waiting
  <2>3. m'.nmbDest = Cardinality(Waiting(p)') + Len(confirms')
    <3>1. Cardinality(DestSet[p]) = Len(Dest[p]) /\ Len(Dest[p]) \in Nat
      BY DestFacts
    <3>2. Len(confirms') = 0
      OBVIOUS
    <3>. QED  BY <2>1, <2>2, <3>1, <3>2
  <2>4. ASSUME NEW c \in Consumers, inbox'[c] # <<>>
        PROVE  c \in DestSet[p] /\ inbox'[c] = <<p>>
    <3>1. inbox[c] = <<>>
      OBVIOUS
    <3>2. Append(<<>>, p) = <<p>>
      OBVIOUS
    <3>. QED  BY <2>1, <2>4, <3>1, <3>2 DEF Notify
  <2>5. DOMAIN confirms' = {}
    OBVIOUS
  <2>. QED  BY <2>1, <2>2, <2>3, <2>4, <2>5 DEF OpenInv, Waiting
<1>3. CASE ~Dispatches(s)
  <2>1. /\ m'.portion = s.portion /\ m'.nmbDest = s.nmbDest /\ m'.freed = s.freed
        /\ inbox' = inbox
    BY <1>1, <1>3, WrittenEffect DEF WriteImpl
  <2>2. DOMAIN confirms' = {}
    OBVIOUS
  <2>. QED  BY <2>1, <2>2 DEF OpenInv
<1>. QED  BY <1>2, <1>3

LEMMA DeliveryInvInit == Init => DeliveryInv
<1>. SUFFICES ASSUME Init PROVE DeliveryInv
  OBVIOUS
<1>1. /\ m.portion = Null /\ m.freed = 0 /\ m.requestQueue = <<>>
      /\ confirms = <<>> /\ delivered = {} /\ phase = "open"
      /\ \A c \in Consumers : inbox[c] = <<>>
  BY DEF Init, NewFile
<1>2. DOMAIN m.requestQueue = {} /\ DOMAIN confirms = {}
  BY <1>1
<1>3. RequestInv
  BY <1>1, <1>2 DEF RequestInv
<1>4. OpenInv
  BY <1>1, <1>2, DataFileAssumption DEF OpenInv
<1>. QED  BY <1>1, <1>3, <1>4 DEF DeliveryInv

(* A request that leaves the queue, or one that joins it.                  *)
LEMMA RequestSteps ==
    ASSUME FileInv, RequestInv, delivered' = delivered, NEW p \in Portions,
           NEW w \in {"rejected", "written", "queued", "dropped"},
           reply' = [reply EXCEPT ![p] = w]
    PROVE  /\ reply[p] = "none" /\ w # "queued" /\ m'.requestQueue = m.requestQueue
                => RequestInv'
           /\ (/\ reply[p] = "none" /\ w = "queued"
               /\ m'.requestQueue = Append(m.requestQueue, p))
                => RequestInv'
           /\ (/\ m.requestQueue # <<>> /\ p = Head(m.requestQueue)
               /\ w # "queued" /\ m'.requestQueue = Tail(m.requestQueue))
                => RequestInv' /\ reply[p] = "queued"
<1>. DEFINE q == m.requestQueue
<1>1. q \in Seq(Portions) /\ reply \in [Portions -> {"none", "rejected", "written", "queued", "dropped"}]
  BY DEF FileInv, TypeOK, Members
<1>2. /\ \A r \in Portions : reply'[r] = IF r = p THEN w ELSE reply[r]
      /\ \A r \in Portions : reply[r] \in {"none", "queued"} =>
            \A c \in Consumers : <<c, r>> \notin delivered
      /\ \A i \in DOMAIN q : reply[q[i]] = "queued" /\ q[i] \in Portions
      /\ \A i, j \in DOMAIN q : q[i] = q[j] => i = j
  BY <1>1 DEF RequestInv
<1>. HIDE DEF q
<1>3. ASSUME reply[p] = "none", w # "queued", m'.requestQueue = q
      PROVE  RequestInv'
  BY <1>2, <1>3 DEF RequestInv
<1>4. ASSUME reply[p] = "none", w = "queued", m'.requestQueue = Append(q, p)
      PROVE  RequestInv'
  <2>1. /\ \A i \in DOMAIN Append(q, p) :
              \/ i \in DOMAIN q /\ Append(q, p)[i] = q[i]
              \/ i = Len(q) + 1 /\ Append(q, p)[i] = p
        /\ \A i \in DOMAIN q : q[i] # p
    BY <1>1, <1>2, <1>4
  <2>2. \A i \in DOMAIN Append(q, p) : reply'[Append(q, p)[i]] = "queued"
    BY <1>2, <1>4, <2>1
  <2>3. \A i, j \in DOMAIN Append(q, p) : Append(q, p)[i] = Append(q, p)[j] => i = j
    BY <1>2, <2>1
  <2>4. \A r \in Portions : reply'[r] \in {"none", "queued"} =>
           \A c \in Consumers : <<c, r>> \notin delivered'
    BY <1>2, <1>4
  <2>. QED  BY <1>4, <2>2, <2>3, <2>4 DEF RequestInv
<1>5. ASSUME q # <<>>, p = Head(q), w # "queued", m'.requestQueue = Tail(q)
      PROVE  RequestInv' /\ reply[p] = "queued"
  <2>1. /\ 1 \in DOMAIN q /\ p = q[1]
        /\ \A i \in DOMAIN Tail(q) :
              i + 1 \in DOMAIN q /\ Tail(q)[i] = q[i + 1] /\ i \in Nat \ {0}
    BY <1>1, <1>5
  <2>2. \A i \in DOMAIN Tail(q) : Tail(q)[i] # p
    BY <1>2, <2>1
  <2>3. \A i \in DOMAIN Tail(q) : reply'[Tail(q)[i]] = "queued"
    BY <1>2, <2>1, <2>2
  <2>4. \A i, j \in DOMAIN Tail(q) : Tail(q)[i] = Tail(q)[j] => i = j
    BY <1>2, <2>1
  <2>5. \A r \in Portions : reply'[r] \in {"none", "queued"} =>
           \A c \in Consumers : <<c, r>> \notin delivered'
    BY <1>2, <1>5
  <2>. QED  BY <1>2, <1>5, <2>1, <2>3, <2>4, <2>5 DEF RequestInv
<1>6. reply[p] = "none" /\ w # "queued" /\ m'.requestQueue = q => RequestInv'
  BY <1>3
<1>7. reply[p] = "none" /\ w = "queued" /\ m'.requestQueue = Append(q, p) => RequestInv'
  BY <1>4
<1>8. q # <<>> /\ p = Head(q) /\ w # "queued" /\ m'.requestQueue = Tail(q)
        => RequestInv' /\ reply[p] = "queued"
  BY <1>5
<1>. QED  BY <1>6, <1>7, <1>8 DEF q

(* scheduleForWrite.                                                       *)
LEMMA ScheduleStep ==
    ASSUME FileInv, DeliveryInv, NEW p \in Portions, ScheduleForWrite(p)
    PROVE  DeliveryInv'
<1>1. /\ phase = "open" /\ phase' = "open" /\ reply[p] = "none"
      /\ confirms' = confirms /\ delivered' = delivered
  BY DEF ScheduleForWrite, RejectTooBig, WriteAtOnce, Enqueue, Schedule, daemonVars
<1>2. /\ m \in Members /\ inbox \in [Consumers -> Seq(Portions)]
      /\ confirms \in Seq(Portions)
      /\ reply \in [Portions -> {"none", "rejected", "written", "queued", "dropped"}]
  BY DEF FileInv, TypeOK
<1>3. OpenInv /\ RequestInv /\ \A c \in Consumers : <<c, p>> \notin delivered
  BY <1>1 DEF DeliveryInv, RequestInv
<1>4. m.portion # p
  BY <1>1, <1>3 DEF OpenInv
<1>5. ASSUME NEW w \in {"rejected", "written", "queued", "dropped"},
             reply' = [reply EXCEPT ![p] = w],
             m'.portion = m.portion, m'.nmbDest = m.nmbDest, m'.freed = m.freed,
             inbox' = inbox
      PROVE  OpenInv'
  <2>1. m.portion \in Portions => reply'[m.portion] = reply[m.portion]
    BY <1>2, <1>4, <1>5
  <2>. QED  BY <1>1, <1>3, <1>5, <2>1 DEF OpenInv, Waiting
<1>6. CASE RejectTooBig(p)
  <2>1. m' = m /\ inbox' = inbox /\ reply' = [reply EXCEPT ![p] = "rejected"]
    BY <1>6 DEF RejectTooBig
  <2>2. RequestInv'
    BY <1>1, <1>3, <2>1, RequestSteps
  <2>3. OpenInv'
    BY <1>5, <2>1
  <2>. QED  BY <1>1, <2>2, <2>3 DEF DeliveryInv
<1>7. CASE Enqueue(p)
  <2>1. inbox' = inbox /\ reply' = [reply EXCEPT ![p] = "queued"]
    BY <1>7 DEF Enqueue
  <2>2. /\ m'.requestQueue = Append(m.requestQueue, p)
        /\ m'.portion = m.portion /\ m'.nmbDest = m.nmbDest /\ m'.freed = m.freed
    <3>1. CASE m' = [m EXCEPT !.requestQueue = Append(@, p)]
      BY <1>2, <3>1 DEF Members
    <3>2. CASE /\ m.requestQueue = <<>>
               /\ \E s \in WriteFailures(m, p) : m' = [s EXCEPT !.requestQueue = <<p>>]
      <4>1. PICK s \in WriteFailures(m, p) : m' = [s EXCEPT !.requestQueue = <<p>>]
        BY <3>2
      <4>2. /\ s.portion = m.portion /\ s.nmbDest = m.nmbDest /\ s.freed = m.freed
            /\ s \in Members
        <5>1. WellOpened(m) /\ Size(p) <= MaxSize
          <6>1. Size(p) \in Nat /\ MaxSize \in Nat
            BY RecordType, DestFacts, ConstantFacts
          <6>. QED  BY <1>1, <1>7, <6>1 DEF Enqueue, FileInv
        <5>. QED  BY <1>2, <5>1, WrittenEffect, StoredType
      <4>3. Append(m.requestQueue, p) = <<p>>
        BY <3>2
      <4>. QED  BY <1>2, <4>1, <4>2, <4>3 DEF Members
    <3>. QED  BY <1>7, <3>1, <3>2 DEF Enqueue
  <2>3. RequestInv'
    BY <1>1, <1>3, <2>1, <2>2, RequestSteps
  <2>4. OpenInv'
    BY <1>5, <2>1, <2>2
  <2>. QED  BY <1>1, <2>3, <2>4 DEF DeliveryInv
<1>8. CASE WriteAtOnce(p)
  <2>1. WriteImpl(m, p) /\ m' = Written(m, p) /\ reply' = [reply EXCEPT ![p] = "written"]
    BY <1>8 DEF WriteAtOnce, WriteImpl
  <2>2. RequestInv'
    <3>1. m'.requestQueue = m.requestQueue
      BY <1>2, <2>1, WrittenEffect
    <3>. QED  BY <1>1, <1>3, <2>1, <3>1, RequestSteps
  <2>3. OpenInv'
    <3>1. CASE m.portion \in Portions
      <4>1. ~Dispatches(m)
        BY <3>1, DataFileAssumption DEF Dispatches
      <4>. QED  BY <1>2, <1>5, <2>1, <4>1, WrittenEffect DEF WriteImpl
    <3>2. CASE m.portion \notin Portions
      <4>1. confirms' = <<>>
        <5>1. SUFFICES ASSUME confirms # <<>> PROVE FALSE
          BY <1>1
        <5>2. 1 \in DOMAIN confirms /\ confirms[1] \in Portions
          BY <1>2, <5>1
        <5>. QED  BY <1>3, <3>2, <5>2 DEF OpenInv
      <4>2. \A c \in Consumers : inbox[c] = <<>>
        BY <1>3, <3>2 DEF OpenInv
      <4>3. m.freed <= 1 /\ (m.portion # Null => m.freed = 0)
        BY <1>3 DEF OpenInv
      <4>4. reply'[p] = "written"
        BY <1>2, <2>1
      <4>. QED  BY <1>1, <1>2, <1>3, <2>1, <3>2, <4>1, <4>2, <4>3, <4>4, StartsCounted
    <3>. QED  BY <3>1, <3>2
  <2>. QED  BY <1>1, <2>2, <2>3 DEF DeliveryInv
<1>. QED  BY <1>6, <1>7, <1>8 DEF ScheduleForWrite

(* confirmPortion.                                                         *)
LEMMA ConfirmStep ==
    ASSUME FileInv, DeliveryInv, ConfirmPortion
    PROVE  DeliveryInv'
<1>1. /\ Confirm /\ phase \in {"open", "closed"} /\ phase' = phase
      /\ confirms # <<>> /\ confirms' = Tail(confirms) /\ delivered' = delivered
      /\ closes' = closes
  BY DEF ConfirmPortion, CountConfirmation, ReleaseFails, Release, Confirm, daemonVars
<1>2. /\ m \in Members /\ m.nmbDest \in Int /\ confirms \in Seq(Portions)
      /\ m.freed \in Nat /\ m.requestQueue \in Seq(Portions)
      /\ inbox \in [Consumers -> Seq(Portions)]
      /\ reply \in [Portions -> {"none", "rejected", "written", "queued", "dropped"}]
  BY DEF FileInv, TypeOK, Members
<1>3. Head(confirms) \in Portions
  BY <1>1, <1>2
<1>4. phase = "closed" => ~IsLast
  BY <1>3, DataFileAssumption, <1>2 DEF DeliveryInv, ClosedInv, IsLast
<1>5. CASE CountConfirmation
  <2>. DEFINE u == [m EXCEPT !.nmbDest = @ - 1]
  <2>1. /\ ~IsLast /\ inbox' = inbox /\ reply' = reply
        /\ m' = IF Head(confirms) = m.portion THEN u ELSE m
    BY <1>5 DEF CountConfirmation
  <2>2. /\ u.portion = m.portion /\ u.nmbDest = m.nmbDest - 1
        /\ u.freed = m.freed /\ u.requestQueue = m.requestQueue
    BY <1>2 DEF Members
  <2>3. RequestInv'
    BY <1>1, <2>1, <2>2 DEF DeliveryInv, RequestInv
  <2>4. CASE phase = "open"
    <3>1. Head(confirms) = m.portion /\ m' = u /\ m.portion \in Portions
      <4>1. 1 \in DOMAIN confirms /\ Head(confirms) = confirms[1]
        BY <1>1, <1>2
      <4>. QED  BY <1>3, <2>1, <2>4, <4>1 DEF DeliveryInv, OpenInv
    <3>2. /\ Len(Tail(confirms)) = Len(confirms) - 1 /\ Len(confirms) \in Nat
          /\ \A i \in DOMAIN Tail(confirms) :
                i + 1 \in DOMAIN confirms /\ Tail(confirms)[i] = confirms[i + 1]
      BY <1>1, <1>2
    <3>3. Cardinality(Waiting(m.portion)) \in Nat
      <4>1. Waiting(m.portion) \subseteq DestSet[m.portion]
        BY DEF Waiting
      <4>. QED  BY <3>1, <4>1, DestFacts, FS_Subset, FS_CardinalityType
    <3>4. m'.nmbDest = Cardinality(Waiting(m.portion)) + Len(confirms')
      <4>1. m.nmbDest = Cardinality(Waiting(m.portion)) + Len(confirms)
        BY <2>4, <3>1 DEF DeliveryInv, OpenInv
      <4>. QED  BY <1>1, <2>2, <3>1, <3>2, <3>3, <4>1
    <3>5. \A p \in Portions : Waiting(p)' = Waiting(p)
      BY <1>1 DEF Waiting
    <3>6. /\ m'.portion = m.portion /\ m'.freed = m.freed
      BY <2>2, <3>1
    <3>7. OpenInv
      BY <2>4 DEF DeliveryInv
    <3>8. OpenInv'
      BY <1>1, <2>1, <3>1, <3>2, <3>4, <3>5, <3>6, <3>7 DEF OpenInv
    <3>. QED  BY <1>1, <2>3, <2>4, <3>8 DEF DeliveryInv
  <2>5. CASE phase = "closed"
    <3>1. ClosedInv
      BY <2>5 DEF DeliveryInv
    <3>2. ClosedInv'
      BY <1>1, <1>2, <2>1, <2>2, <3>1 DEF ClosedInv
    <3>. QED  BY <1>1, <2>3, <2>5, <3>2 DEF DeliveryInv
  <2>. QED  BY <1>1, <2>4, <2>5
<1>6. ASSUME IsLast
      PROVE  /\ phase = "open" /\ RequestInv
             /\ m.freed = 0 /\ confirms' = <<>>
             /\ \A c \in Consumers : inbox[c] = <<>>
  BY <1>1, <1>4, <1>6, LastConfirmation DEF DeliveryInv
<1>7. ASSUME IsLast, inbox' = inbox,
             \/ m'.portion = Null /\ m'.freed = 1
             \/ m'.portion = Reread /\ m'.freed = 0
      PROVE  OpenInv'
  <2>1. m'.portion \notin Portions /\ m'.freed <= 1 /\ (m'.portion # Null => m'.freed = 0)
    BY <1>7, DataFileAssumption
  <2>2. DOMAIN confirms' = {}
    BY <1>6, <1>7
  <2>. QED  BY <1>6, <1>7, <2>1, <2>2 DEF OpenInv
<1>8. CASE ReleaseFails
  <2>. DEFINE u == Deleted(m)
  <2>1. /\ IsLast /\ m' \in {u, [u EXCEPT !.disk = m.header]}
        /\ inbox' = inbox /\ reply' = reply
    BY <1>8 DEF ReleaseFails
  <2>2. /\ u \in Members /\ u.portion = Null /\ u.freed = 1
        /\ u.requestQueue = m.requestQueue /\ m.header \in Offsets
    <3>1. m.freed = 0
      BY <1>6, <2>1
    <3>. QED  BY <1>2, <3>1, DeletedInv DEF Members
  <2>. HIDE DEF u
  <2>3. /\ m'.portion = Null /\ m'.freed = 1 /\ m'.requestQueue = m.requestQueue
    BY <2>1, <2>2 DEF Members
  <2>4. OpenInv'
    BY <1>7, <2>1, <2>3
  <2>5. RequestInv'
    BY <1>1, <1>6, <2>1, <2>3 DEF RequestInv
  <2>. QED  BY <1>1, <1>6, <2>1, <2>4, <2>5 DEF DeliveryInv
<1>9. ASSUME Release, NEW n \in {0, 1}, NEW s \in LetGo(n), PopNextFromQueue(s, n)
      PROVE  DeliveryInv'
  <2>1. IsLast /\ phase = "open"
    BY <1>9 DEF Release
  <2>2. /\ s \in Members /\ s.requestQueue = m.requestQueue
        /\ \/ s.portion = Null /\ s.freed = 1
           \/ s.portion = Reread /\ s.freed = 0
    <3>1. WellOpened(m) /\ WithOffsets(m) /\ m.freed = 0
      <4>1. m.portion \in Portions
        BY <1>3, <2>1 DEF IsLast
      <4>. QED
        BY <1>6, <2>1, <4>1, DataFileAssumption DEF FileInv, WellOpened, WithoutOffsets
    <3>2. s \in {Released(m)} \cup ReleaseFailures(m)
      BY <1>9 DEF LetGo
    <3>. QED  BY <3>1, <3>2, ReleasedInv, ReleasedEffect
  <2>. DEFINE p == Head(s.requestQueue)
              u == Dequeued(s)
  <2>3. ASSUME CanPop(s)
        PROVE  /\ p \in Portions /\ u \in Members /\ m.requestQueue # <<>>
               /\ p = Head(m.requestQueue)
               /\ u.requestQueue = Tail(m.requestQueue)
               /\ u.portion \notin Portions
               /\ \/ u.portion = Null /\ u.freed = 1
                  \/ u.portion = Reread /\ u.freed = 0
    <3>1. m.requestQueue # <<>>
      BY <2>2, <2>3 DEF CanPop
    <3>2. Tail(m.requestQueue) \in Seq(Portions) /\ Head(m.requestQueue) \in Portions
      BY <1>2, <3>1
    <3>. QED  BY <2>2, <3>1, <3>2, DataFileAssumption DEF Dequeued, Members
  <2>4. CASE PopNothing(s, n)
    <3>1. m' = s /\ inbox' = inbox /\ reply' = reply
      BY <2>4 DEF PopNothing
    <3>2. OpenInv'
      BY <1>7, <2>1, <2>2, <3>1
    <3>3. RequestInv'
      BY <1>1, <1>6, <2>1, <2>2, <3>1 DEF RequestInv
    <3>. QED  BY <1>1, <2>1, <3>2, <3>3 DEF DeliveryInv
  <2>5. CASE PopRequest(s, n)
    <3>1. /\ CanPop(s) /\ WriteImpl(u, p) /\ m' = Written(u, p)
          /\ reply' = [reply EXCEPT ![p] = "written"]
      BY <2>5 DEF PopRequest, WriteImpl
    <3>2. /\ p \in Portions /\ u \in Members /\ m.requestQueue # <<>>
          /\ p = Head(m.requestQueue) /\ u.requestQueue = Tail(m.requestQueue)
          /\ u.portion \notin Portions
          /\ u.freed <= 1 /\ (u.portion # Null => u.freed = 0)
      BY <2>3, <3>1, DataFileAssumption
    <3>. HIDE DEF u, p
    <3>3. m'.requestQueue = Tail(m.requestQueue)
      BY <3>1, <3>2, WrittenEffect
    <3>4. RequestInv' /\ reply[p] = "queued"
      BY <1>1, <1>6, <2>1, <3>1, <3>2, <3>3, RequestSteps
    <3>5. \A c \in Consumers : <<c, p>> \notin delivered
      BY <1>6, <2>1, <3>2, <3>4 DEF RequestInv
    <3>6. reply'[p] = "written"
      BY <1>2, <3>1, <3>2
    <3>7. OpenInv'
      BY <1>1, <1>6, <2>1, <3>1, <3>2, <3>5, <3>6, StartsCounted
    <3>. QED  BY <1>1, <2>1, <3>4, <3>7 DEF DeliveryInv
  <2>6. CASE DropRequest(s, n)
    <3>1. /\ CanPop(s) /\ m' \in WriteFailures(u, p)
          /\ reply' = [reply EXCEPT ![p] = "dropped"] /\ inbox' = inbox
      BY <2>6 DEF DropRequest
    <3>2. /\ p \in Portions /\ u \in Members /\ m.requestQueue # <<>>
          /\ p = Head(m.requestQueue) /\ u.requestQueue = Tail(m.requestQueue)
          /\ \/ u.portion = Null /\ u.freed = 1
             \/ u.portion = Reread /\ u.freed = 0
      BY <2>3, <3>1
    <3>. HIDE DEF u, p
    <3>3. /\ m'.portion = u.portion /\ m'.freed = u.freed
          /\ m'.requestQueue = Tail(m.requestQueue)
      BY <3>1, <3>2, WrittenEffect
    <3>4. RequestInv'
      BY <1>1, <1>6, <2>1, <3>1, <3>2, <3>3, RequestSteps
    <3>5. OpenInv'
      BY <1>7, <2>1, <3>1, <3>2, <3>3
    <3>. QED  BY <1>1, <2>1, <3>4, <3>5 DEF DeliveryInv
  <2>. QED  BY <1>9, <2>4, <2>5, <2>6 DEF PopNextFromQueue
<1>. QED  BY <1>5, <1>8, <1>9 DEF ConfirmPortion

(* The consumers' threads.                                                 *)
LEMMA TakeStep ==
    ASSUME FileInv, DeliveryInv, NEW c \in Consumers, Take(c)
    PROVE  /\ m.portion \in Portions /\ m.portion # Null
           /\ c \in Waiting(m.portion)
           /\ Head(inbox[c]) = m.portion
           /\ \A d \in Consumers : inbox'[d] = IF d = c THEN <<>> ELSE inbox[d]
           /\ phase = "open" /\ phase' = "open" /\ m' = m /\ reply' = reply
           /\ OpenInv /\ RequestInv
<1>1. /\ phase = "open" /\ phase' = "open" /\ m' = m /\ reply' = reply
      /\ inbox[c] # <<>> /\ inbox' = [inbox EXCEPT ![c] = Tail(@)]
  BY DEF Take, daemonVars
<1>2. OpenInv /\ RequestInv /\ inbox \in [Consumers -> Seq(Portions)]
  BY <1>1 DEF DeliveryInv, FileInv, TypeOK
<1>3. /\ m.portion \in Portions /\ m.portion # Null /\ c \in Waiting(m.portion)
      /\ inbox[c] = <<m.portion>>
  BY <1>1, <1>2, DataFileAssumption DEF OpenInv
<1>4. Head(<<m.portion>>) = m.portion /\ Tail(<<m.portion>>) = <<>>
  OBVIOUS
<1>. QED  BY <1>1, <1>2, <1>3, <1>4

LEMMA ConsumerStep ==
    ASSUME FileInv, DeliveryInv, NEW c \in Consumers,
           Consume(c) \/ ConsumeFails(c) \/ EndConsumer(c)
    PROVE  DeliveryInv'
<1>1. CASE Consume(c)
  <2>. DEFINE p == m.portion
  <2>1. /\ Take(c) /\ confirms' = Append(confirms, Head(inbox[c]))
        /\ delivered' = delivered \cup {<<c, Head(inbox[c])>>}
    BY <1>1 DEF Consume
  <2>2. /\ p \in Portions /\ p # Null /\ c \in Waiting(p) /\ Head(inbox[c]) = p
        /\ \A d \in Consumers : inbox'[d] = IF d = c THEN <<>> ELSE inbox[d]
        /\ phase' = "open" /\ m' = m /\ reply' = reply /\ OpenInv /\ RequestInv
    BY <2>1, TakeStep
  <2>3. /\ reply[p] = "written" /\ m.nmbDest = Cardinality(Waiting(p)) + Len(confirms)
        /\ confirms \in Seq(Portions) /\ \A i \in DOMAIN confirms : confirms[i] = p
    BY <2>2 DEF OpenInv, FileInv, TypeOK
  <2>4. Waiting(p)' = Waiting(p) \ {c}
    BY <2>1, <2>2 DEF Waiting
  <2>5. /\ IsFiniteSet(Waiting(p)) /\ Cardinality(Waiting(p)) \in Nat
        /\ Cardinality(Waiting(p) \ {c}) = Cardinality(Waiting(p)) - 1
    <3>1. Waiting(p) \subseteq DestSet[p]
      BY DEF Waiting
    <3>2. IsFiniteSet(Waiting(p))
      BY <2>2, <3>1, DestFacts, FS_Subset
    <3>. QED  BY <2>2, <3>2, FS_RemoveElement, FS_CardinalityType
  <2>6. /\ Len(confirms') = Len(confirms) + 1 /\ Len(confirms) \in Nat
        /\ \A i \in DOMAIN confirms' : confirms'[i] = p
    <3>1. confirms' = Append(confirms, p)
      BY <2>1, <2>2
    <3>2. \A i \in DOMAIN Append(confirms, p) :
             \/ i \in DOMAIN confirms /\ Append(confirms, p)[i] = confirms[i]
             \/ Append(confirms, p)[i] = p
      BY <2>2, <2>3
    <3>. QED  BY <2>2, <2>3, <3>1, <3>2
  <2>7. m.nmbDest = Cardinality(Waiting(p)') + Len(confirms')
    BY <2>3, <2>4, <2>5, <2>6
  <2>8. \A d \in Consumers : inbox'[d] # <<>> =>
           d \in Waiting(p)' /\ inbox'[d] = <<p>>
    BY <2>2, <2>4 DEF OpenInv
  <2>9. OpenInv'
    BY <2>2, <2>3, <2>6, <2>7, <2>8 DEF OpenInv, Waiting
  <2>10. RequestInv'
    BY <2>1, <2>2, <2>3 DEF RequestInv
  <2>. QED  BY <2>2, <2>9, <2>10 DEF DeliveryInv
<1>2. CASE ConsumeFails(c)
  <2>1. Take(c) /\ confirms' = confirms /\ delivered' = delivered
    BY <1>2 DEF ConsumeFails
  <2>2. /\ \A d \in Consumers : inbox'[d] = IF d = c THEN <<>> ELSE inbox[d]
        /\ phase' = "open" /\ m' = m /\ reply' = reply /\ OpenInv /\ RequestInv
    BY <2>1, TakeStep
  <2>3. \A p \in Portions : Waiting(p)' = Waiting(p)
    BY <2>1 DEF Waiting
  <2>4. OpenInv'
    BY <2>1, <2>2, <2>3 DEF OpenInv
  <2>5. RequestInv'
    BY <2>1, <2>2 DEF RequestInv
  <2>. QED  BY <2>2, <2>4, <2>5 DEF DeliveryInv
<1>3. CASE EndConsumer(c)
  BY <1>3 DEF EndConsumer, DeliveryInv, RequestInv, OpenInv, ClosedInv, QuietInv, Waiting
<1>. QED  BY <1>1, <1>2, <1>3

(* Shutdown, crash and restart.                                            *)
LEMMA DaemonStep ==
    ASSUME FileInv, DeliveryInv,
           ShutDown \/ CloseProvider \/ CloseFile \/ Destroy \/ Crash \/ Restart
    PROVE  DeliveryInv'
<1>1. m \in Members /\ m.freed \in Nat /\ m.nmbDest \in Int /\ closes \in Nat
  BY DEF FileInv, TypeOK, Members
<1>2. CASE ShutDown \/ CloseProvider
  <2>1. UNCHANGED <<m, phase, closes, inbox, confirms, reply, delivered>>
    BY <1>2 DEF ShutDown, CloseProvider, daemonVars
  <2>. QED
    BY <2>1 DEF DeliveryInv, RequestInv, OpenInv, ClosedInv, QuietInv, Waiting
<1>3. CASE CloseFile
  <2>1. /\ phase \in {"open", "closed"} /\ phase' = "closed" /\ m' = ClosedFile(m)
        /\ closes' = closes + 1 /\ UNCHANGED <<reply, delivered>>
    BY <1>3 DEF CloseFile
  <2>2. /\ m'.portion = m.portion /\ m'.requestQueue = m.requestQueue
        /\ m'.nmbDest = IF m.portion # Null THEN -1 ELSE m.nmbDest
        /\ m'.freed = IF m.portion # Null THEN m.freed + 1 ELSE m.freed
    BY <1>1, <2>1 DEF ClosedFile, Members
  <2>3. ClosedInv'
    BY <1>1, <2>1, <2>2 DEF DeliveryInv, OpenInv, ClosedInv
  <2>. QED  BY <2>1, <2>2, <2>3 DEF DeliveryInv, RequestInv
<1>4. CASE Destroy
  <2>1. phase' = "down" /\ m' = Destroyed(m) /\ confirms' = <<>>
        /\ inbox' = [c \in Consumers |-> <<>>] /\ UNCHANGED <<reply, delivered>>
    BY <1>4 DEF Destroy
  <2>2. m'.requestQueue = m.requestQueue
    BY <1>1, <2>1 DEF Destroyed, Members
  <2>3. m'.freed \in {m.freed, m.freed + 1}
    BY <1>1, <2>1 DEF Destroyed, Members
  <2>4. m.freed <= closes /\ closes' = closes
    BY <1>4 DEF Destroy, DeliveryInv, ClosedInv
  <2>5. m'.freed <= closes' + 1
    BY <1>1, <2>3, <2>4
  <2>. QED  BY <2>1, <2>2, <2>5 DEF DeliveryInv, RequestInv, QuietInv
<1>5. CASE Crash
  <2>1. /\ phase # "down" /\ phase' = "down" /\ confirms' = <<>>
        /\ inbox' = [c \in Consumers |-> <<>>]
        /\ UNCHANGED <<m, closes, reply, delivered>>
    BY <1>5 DEF Crash
  <2>2. m.freed <= 1 \/ m.freed <= closes
    BY <2>1 DEF DeliveryInv, OpenInv, ClosedInv, QuietInv
  <2>3. m'.freed <= 1 \/ m'.freed <= closes' + 1
    BY <1>1, <2>1, <2>2
  <2>. QED  BY <2>1, <2>3 DEF DeliveryInv, RequestInv, QuietInv
<1>6. CASE Restart
  <2>1. /\ phase = "down" /\ m' = Reopened(m)
        /\ phase' \in {"open", "hung", "failed"}
        /\ UNCHANGED <<inbox, confirms, reply, delivered>>
    BY <1>6 DEF Restart, SetFileResults
  <2>2. m'.requestQueue = <<>> /\ m'.portion = Null /\ m'.freed = 0
    BY <2>1 DEF Reopened, NewFile
  <2>3. QuietInv /\ QuietInv'
    BY <2>1, <2>2 DEF DeliveryInv, QuietInv
  <2>4. RequestInv'
    <3>1. DOMAIN m'.requestQueue = {}
      BY <2>2
    <3>. QED  BY <2>1, <3>1 DEF DeliveryInv, RequestInv
  <2>5. OpenInv'
    <3>1. DOMAIN confirms' = {}
      BY <2>3 DEF QuietInv
    <3>. QED  BY <2>2, <2>3, <3>1, DataFileAssumption DEF OpenInv, QuietInv
  <2>. QED  BY <2>1, <2>3, <2>4, <2>5 DEF DeliveryInv
<1>. QED  BY <1>2, <1>3, <1>4, <1>5, <1>6

LEMMA DeliveryInvStep ==
    FileInv /\ DeliveryInv /\ [Next]_vars => DeliveryInv'
<1>. SUFFICES ASSUME FileInv, DeliveryInv, [Next]_vars PROVE DeliveryInv'
  OBVIOUS
<1>1. CASE UNCHANGED vars
  BY <1>1 DEF vars, DeliveryInv, RequestInv, OpenInv, ClosedInv, QuietInv, Waiting
<1>2. CASE \E p \in Portions : ScheduleForWrite(p)
  BY <1>2, ScheduleStep
<1>3. CASE ConfirmPortion
  BY <1>3, ConfirmStep
<1>4. CASE \E c \in Consumers : Consume(c) \/ ConsumeFails(c) \/ EndConsumer(c)
  BY <1>4, ConsumerStep
<1>5. CASE ShutDown \/ CloseProvider \/ CloseFile \/ Destroy \/ Crash \/ Restart
  BY <1>5, DaemonStep
<1>. QED  BY <1>1, <1>2, <1>3, <1>4, <1>5 DEF Next

LEMMA DeliveryInvariant == Spec => [](FileInv /\ DeliveryInv)
<1>1. Init => FileInv /\ DeliveryInv
  BY FileInvInit, DeliveryInvInit
<1>2. FileInv /\ DeliveryInv /\ [Next]_vars => FileInv' /\ DeliveryInv'
  BY FileInvStep, DeliveryInvStep
<1>. QED  BY <1>1, <1>2, PTL DEF Spec

(* A consumer's thread never reads through a pointer to a portion that     *)
(* confirmPortion or closeFile deleted, nor one that is no longer          *)
(* m_portion, however many consumers and portions there are.               *)
THEOREM EventsStayLive == Spec => []EventsPointToLivePortion
<1>1. FileInv /\ DeliveryInv => EventsPointToLivePortion
  <2>. SUFFICES ASSUME FileInv, DeliveryInv, phase = "open"
                PROVE  /\ \A c \in running : \A i \in DOMAIN inbox[c] :
                              inbox[c][i] = m.portion /\ m.freed = 0
                       /\ \A i \in DOMAIN confirms : confirms[i] = m.portion /\ m.freed = 0
    BY DEF EventsPointToLivePortion
  <2>1. OpenInv /\ running \subseteq Consumers /\ confirms \in Seq(Portions)
    BY DEF DeliveryInv, FileInv, TypeOK
  <2>2. ASSUME NEW c \in running, NEW i \in DOMAIN inbox[c]
        PROVE  inbox[c][i] = m.portion /\ m.freed = 0
    <3>1. inbox[c] # <<>>
      BY <2>2
    <3>2. inbox[c] = <<m.portion>> /\ m.portion \in Portions
      BY <2>1, <3>1 DEF OpenInv
    <3>3. i = 1
      BY <2>2, <3>2
    <3>. QED  BY <2>1, <3>2, <3>3, DataFileAssumption DEF OpenInv
  <2>3. ASSUME NEW i \in DOMAIN confirms
        PROVE  confirms[i] = m.portion /\ m.freed = 0
    <3>1. confirms[i] = m.portion /\ confirms[i] \in Portions
      BY <2>1, <2>3 DEF OpenInv
    <3>. QED  BY <2>1, <3>1, DataFileAssumption DEF OpenInv
  <2>. QED  BY <2>2, <2>3
<1>. QED  BY <1>1, DeliveryInvariant, PTL

(* m_nmbDest is what is still to be counted down: the destinations that    *)
(* have not consumed the portion and the confirmations on their way.       *)
THEOREM OutstandingStaysCounted == Spec => []OutstandingIsCounted
<1>1. FileInv /\ DeliveryInv => OutstandingIsCounted
  BY DEF DeliveryInv, OpenInv, OutstandingIsCounted, Waiting
<1>. QED  BY <1>1, DeliveryInvariant, PTL

(* No confirmation deletes a portion that was deleted before, whichever    *)
(* call of closeFile it comes between: closeFile and the destructor        *)
(* account for every deletion after the first. DeletedOnce, which they     *)
(* should keep as well, is refuted by a run.                               *)
THEOREM DeletedByCloses == Spec => []DeletedByCloseOnly
<1>1. FileInv /\ DeliveryInv => DeletedByCloseOnly
  <2>. SUFFICES ASSUME FileInv, DeliveryInv PROVE DeletedByCloseOnly
    OBVIOUS
  <2>1. m.freed \in Nat /\ closes \in Nat
    BY DEF FileInv, TypeOK, Members
  <2>2. CASE phase \in {"open", "closed"}
    <3>1. m.freed <= 1 \/ m.freed <= closes
      BY <2>2 DEF DeliveryInv, OpenInv, ClosedInv
    <3>. QED  BY <2>1, <2>2, <3>1 DEF DeletedByCloseOnly, Max
  <2>3. CASE phase \notin {"open", "closed"}
    <3>1. m.freed <= 1 \/ (phase = "down" /\ m.freed <= closes + 1)
      BY <2>3 DEF DeliveryInv, QuietInv
    <3>. QED  BY <2>1, <3>1 DEF DeletedByCloseOnly, Max
  <2>. QED  BY <2>2, <2>3
<1>. QED  BY <1>1, DeliveryInvariant, PTL

-----------------------------------------------------------------------------
(* DataFile implements PortionDelivery                                     *)

(* The portion PortionDelivery sees being distributed.                     *)
Current ==
    IF phase = "open" /\ m.portion \in Portions THEN m.portion ELSE Null

Untouched(p) == \A c \in Consumers : <<c, p>> \notin delivered

(* A step that the abstract specification does not see.                    *)
LEMMA Stutters ==
    ASSUME UNCHANGED delivered, (phase' = "open") = (phase = "open"),
           Current' = Current
    PROVE  UNCHANGED Abstract!vars
BY DEF Abstract!vars, Current

LEMMA ScheduleRefines ==
    ASSUME FileInv, DeliveryInv, NEW p \in Portions, ScheduleForWrite(p)
    PROVE  [Abstract!Next]_(Abstract!vars)
<1>1. /\ phase = "open" /\ phase' = "open" /\ reply[p] = "none"
      /\ UNCHANGED delivered
  BY DEF ScheduleForWrite, RejectTooBig, WriteAtOnce, Enqueue, Schedule, daemonVars
<1>2. m \in Members
  BY DEF FileInv, TypeOK
<1>3. CASE m'.portion = m.portion
  BY <1>1, <1>3, Stutters DEF Current
<1>4. CASE m'.portion # m.portion
  <2>1. CASE RejectTooBig(p)
    BY <1>4, <2>1 DEF RejectTooBig
  <2>2. CASE Enqueue(p)
    <3>1. m'.portion = m.portion
      <4>1. CASE m' = [m EXCEPT !.requestQueue = Append(@, p)]
        BY <1>2, <4>1 DEF Members
      <4>2. CASE \E s \in WriteFailures(m, p) : m' = [s EXCEPT !.requestQueue = <<p>>]
        <5>1. PICK s \in WriteFailures(m, p) : m' = [s EXCEPT !.requestQueue = <<p>>]
          BY <4>2
        <5>2. s \in Members /\ s.portion = m.portion
          <6>1. WellOpened(m) /\ Size(p) <= MaxSize
            <7>1. Size(p) \in Nat /\ MaxSize \in Nat
              BY RecordType, DestFacts, ConstantFacts
            <7>. QED  BY <1>1, <2>2, <7>1 DEF Enqueue, FileInv
          <6>. QED  BY <6>1, StoredType
        <5>. QED  BY <5>1, <5>2 DEF Members
      <4>. QED  BY <2>2, <4>1, <4>2 DEF Enqueue
    <3>. QED  BY <1>4, <3>1
  <2>3. CASE WriteAtOnce(p)
    <3>1. Dispatches(m) /\ m'.portion = p
      BY <1>2, <1>4, <2>3, WrittenEffect DEF WriteAtOnce, WriteImpl
    <3>2. Current = Null /\ Current' = p
      BY <1>1, <3>1, DataFileAssumption DEF Current, Dispatches
    <3>3. Untouched(p)
      BY <1>1 DEF DeliveryInv, RequestInv, Untouched
    <3>4. Abstract!Start(p)
      BY <1>1, <3>2, <3>3 DEF Abstract!Start, Abstract!Untouched, Current, Untouched
    <3>. QED  BY <3>4 DEF Abstract!Next
  <2>. QED  BY <2>1, <2>2, <2>3 DEF ScheduleForWrite
<1>. QED  BY <1>3, <1>4

LEMMA ConfirmRefines ==
    ASSUME FileInv, DeliveryInv, ConfirmPortion
    PROVE  [Abstract!Next]_(Abstract!vars)
<1>1. /\ Confirm /\ phase \in {"open", "closed"} /\ phase' = phase
      /\ confirms # <<>> /\ UNCHANGED delivered
  BY DEF ConfirmPortion, CountConfirmation, ReleaseFails, Release, Confirm, daemonVars
<1>2. m \in Members /\ m.requestQueue \in Seq(Portions)
  BY DEF FileInv, TypeOK, Members
<1>3. CASE phase = "closed"
  BY <1>1, <1>3, Stutters DEF Current
<1>4. CASE phase = "open" /\ ~IsLast
  <2>1. CountConfirmation
    BY <1>4 DEF ConfirmPortion, ReleaseFails, Release
  <2>2. m'.portion = m.portion
    BY <1>2, <2>1 DEF CountConfirmation, Members
  <2>. QED  BY <1>1, <2>2, Stutters DEF Current
<1>5. CASE phase = "open" /\ IsLast
  <2>1. /\ m.portion \in Portions /\ m.portion # Null
        /\ \A c \in DestSet[m.portion] : <<c, m.portion>> \in delivered
    BY <1>1, <1>5, LastConfirmation, DataFileAssumption DEF Waiting
  <2>2. ASSUME NEW n \in {0, 1}, NEW s \in LetGo(n)
        PROVE  /\ s \in Members /\ s.requestQueue = m.requestQueue
               /\ s.portion \notin Portions
    <3>1. WellOpened(m) /\ WithOffsets(m)
      BY <1>5, <2>1 DEF FileInv, WellOpened, WithoutOffsets
    <3>2. s \in {Released(m)} \cup ReleaseFailures(m)
      BY DEF LetGo
    <3>. QED  BY <3>1, <3>2, ReleasedInv, DataFileAssumption
  <2>3. \/ m'.portion \notin Portions
        \/ m'.portion \in Portions /\ Untouched(m'.portion)
    <3>1. CASE ReleaseFails
      <4>. DEFINE u == Deleted(m)
      <4>1. u \in Members /\ u.portion = Null
        BY <1>2, DeletedInv
      <4>2. m' \in {u, [u EXCEPT !.disk = m.header]}
        BY <3>1 DEF ReleaseFails
      <4>. HIDE DEF u
      <4>3. m'.portion = Null
        BY <4>1, <4>2 DEF Members
      <4>. QED  BY <4>3, DataFileAssumption
    <3>2. CASE ~ReleaseFails
      <4>1. PICK n \in {0, 1} : \E s \in LetGo(n) : PopNextFromQueue(s, n)
        BY <1>5, <3>2 DEF ConfirmPortion, CountConfirmation
      <4>2. PICK s \in LetGo(n) : PopNextFromQueue(s, n)
        BY <4>1
      <4>3. /\ s \in Members /\ s.requestQueue = m.requestQueue
            /\ s.portion \notin Portions
        BY <2>2
      <4>. DEFINE u == Dequeued(s)
                  p == Head(s.requestQueue)
      <4>4. ASSUME CanPop(s)
            PROVE  p \in Portions /\ Untouched(p) /\ u \in Members /\ u.portion = s.portion
        <5>1. m.requestQueue # <<>>
          BY <4>3, <4>4 DEF CanPop
        <5>2. /\ Tail(m.requestQueue) \in Seq(Portions) /\ p \in Portions
              /\ 1 \in DOMAIN m.requestQueue /\ p = m.requestQueue[1]
          BY <1>2, <4>3, <5>1
        <5>3. Untouched(p)
          BY <5>2 DEF DeliveryInv, RequestInv, Untouched
        <5>. QED  BY <4>3, <5>2, <5>3 DEF Dequeued, Members
      <4>5. CASE PopNothing(s, n)
        BY <4>3, <4>5 DEF PopNothing
      <4>6. CASE PopRequest(s, n)
        <5>1. CanPop(s) /\ m' = Written(u, p)
          BY <4>6 DEF PopRequest, WriteImpl
        <5>2. p \in Portions /\ Untouched(p) /\ u \in Members /\ u.portion \notin Portions
          BY <4>3, <4>4, <5>1
        <5>. HIDE DEF u, p
        <5>3. m'.portion \in {p, u.portion}
          BY <5>1, <5>2, WrittenEffect
        <5>. QED  BY <5>2, <5>3
      <4>7. CASE DropRequest(s, n)
        <5>1. CanPop(s) /\ m' \in WriteFailures(u, p)
          BY <4>7 DEF DropRequest
        <5>2. p \in Portions /\ u \in Members /\ u.portion \notin Portions
          BY <4>3, <4>4, <5>1
        <5>. HIDE DEF u, p
        <5>3. m'.portion = u.portion
          BY <5>1, <5>2, WrittenEffect
        <5>. QED  BY <5>2, <5>3
      <4>. QED  BY <4>2, <4>5, <4>6, <4>7 DEF PopNextFromQueue
    <3>. QED  BY <3>1, <3>2
  <2>4. \/ Current' = Null
        \/ \E q \in Portions : Untouched(q) /\ Current' = q
    BY <1>1, <1>5, <2>3 DEF Current
  <2>5. Current = m.portion
    BY <1>5, <2>1 DEF Current
  <2>6. Abstract!Finish
    BY <1>1, <1>5, <2>1, <2>4, <2>5
    DEF Abstract!Finish, Abstract!Untouched, Current, Untouched
  <2>. QED  BY <2>6 DEF Abstract!Next
<1>. QED  BY <1>1, <1>3, <1>4, <1>5

LEMMA ConsumerRefines ==
    ASSUME FileInv, DeliveryInv, NEW c \in Consumers,
           Consume(c) \/ ConsumeFails(c) \/ EndConsumer(c)
    PROVE  [Abstract!Next]_(Abstract!vars)
<1>1. CASE Consume(c)
  <2>1. Take(c) /\ delivered' = delivered \cup {<<c, Head(inbox[c])>>}
    BY <1>1 DEF Consume
  <2>2. /\ m.portion \in Portions /\ m.portion # Null /\ c \in Waiting(m.portion)
        /\ Head(inbox[c]) = m.portion
        /\ phase = "open" /\ phase' = "open" /\ m' = m
    BY <2>1, TakeStep
  <2>3. Abstract!Handle(c)
    BY <2>1, <2>2 DEF Abstract!Handle, Waiting
  <2>. QED  BY <2>3 DEF Abstract!Next
<1>2. CASE ConsumeFails(c) \/ EndConsumer(c)
  <2>1. UNCHANGED <<m, phase, delivered>>
    BY <1>2 DEF ConsumeFails, EndConsumer, Take, daemonVars
  <2>. QED  BY <2>1, Stutters DEF Current
<1>. QED  BY <1>1, <1>2

LEMMA DaemonRefines ==
    ASSUME FileInv, DeliveryInv,
           ShutDown \/ CloseProvider \/ CloseFile \/ Destroy \/ Crash \/ Restart
    PROVE  [Abstract!Next]_(Abstract!vars)
<1>1. UNCHANGED delivered
  BY DEF ShutDown, CloseProvider, CloseFile, Destroy, Crash, Restart
<1>2. CASE phase = "open" /\ phase' # "open"
  <2>1. Abstract!Stop
    BY <1>1, <1>2 DEF Abstract!Stop
  <2>. QED  BY <2>1 DEF Abstract!Next
<1>3. CASE phase # "open" /\ phase' = "open"
  <2>1. Restart
    BY <1>3 DEF ShutDown, CloseProvider, CloseFile, Destroy, Crash, daemonVars
  <2>2. m'.portion \notin Portions
    BY <2>1, DataFileAssumption DEF Restart, Reopened, NewFile
  <2>3. Abstract!Restart
    BY <1>1, <1>3, <2>2 DEF Abstract!Restart
  <2>. QED  BY <2>3 DEF Abstract!Next
<1>4. CASE phase # "open" /\ phase' # "open"
  BY <1>1, <1>4, Stutters DEF Current
<1>5. CASE phase = "open" /\ phase' = "open"
  <2>1. UNCHANGED m
    BY <1>5 DEF ShutDown, CloseProvider, CloseFile, Destroy, Crash, Restart
  <2>. QED  BY <1>1, <1>5, <2>1, Stutters DEF Current
<1>. QED  BY <1>2, <1>3, <1>4, <1>5

(* However it wraps, overlaps, fails or is restarted, the file distributes *)
(* at most one portion at a time, hands it to each destination at most     *)
(* once, ever, and lets it go only when all of them have handled it.       *)
THEOREM Refinement == Spec => ImplementsPortionDelivery
<1>1. Init => Abstract!Init
  BY DataFileAssumption DEF Init, NewFile, Abstract!Init
<1>2. FileInv /\ DeliveryInv /\ [Next]_vars => [Abstract!Next]_(Abstract!vars)
  <2>. SUFFICES ASSUME FileInv, DeliveryInv, [Next]_vars
                PROVE  [Abstract!Next]_(Abstract!vars)
    OBVIOUS
  <2>1. CASE UNCHANGED vars
    BY <2>1, Stutters DEF vars, Current
  <2>2. CASE \E p \in Portions : ScheduleForWrite(p)
    BY <2>2, ScheduleRefines
  <2>3. CASE ConfirmPortion
    BY <2>3, ConfirmRefines
  <2>4. CASE \E c \in Consumers : Consume(c) \/ ConsumeFails(c) \/ EndConsumer(c)
    BY <2>4, ConsumerRefines
  <2>5. CASE ShutDown \/ CloseProvider \/ CloseFile \/ Destroy \/ Crash \/ Restart
    BY <2>5, DaemonRefines
  <2>. QED  BY <2>1, <2>2, <2>3, <2>4, <2>5 DEF Next
<1>. QED
  BY <1>1, <1>2, DeliveryInvariant, PTL
  DEF Spec, ImplementsPortionDelivery, Abstract!Spec

-----------------------------------------------------------------------------
(* One portion behind the other, while there is room                       *)

(* No write reaches past the end of the file, where writeImpl loses the    *)
(* rest of it (DataFile.cpp:332) and goes on over the first records; and   *)
(* the program is not started again. The providers and the limit are to    *)
(* see to the first: scheduleForWrite does not look.                       *)
StraightOn ==
    /\ UNCHANGED restarts
    /\ \A p \in Portions : reply'[p] # reply[p] =>
          reply'[p] = "rejected" \/ m.toWrite + Size(p) <= MaxSize

(* Where the record of a stored portion begins.                            *)
Start(r) == r.end - Size(r.of)

(* The file holds the record of r.                                         *)
Holds(f, r) ==
    LET header == Header(r.of)
        logs == LogsArray(r.of)
    IN  /\ FirstLog <= Start(r)
        /\ r.end - 1 <= Len(f)
        /\ \A i \in DOMAIN header : f[Start(r) + i - 1] = header[i]
        /\ \A i \in DOMAIN logs : f[Start(r) + Len(header) + i - 1] = logs[i]

(* The records lie in a row, in the order of q.                            *)
InRow(q) ==
    /\ \A i, j \in DOMAIN q : i < j => q[i].end <= Start(q[j])
    /\ \A i \in DOMAIN q : i > 1 => Start(q[i]) = q[i - 1].end

(* They are what lies between m_toRead and m_toWrite.                      *)
Laid(s, q) ==
    IF q = <<>> THEN s.toRead = -1 /\ s.toWrite = FirstLog /\ s.portion = Null
    ELSE /\ s.toRead = Start(Head(q))
         /\ s.toWrite = q[Len(q)].end
         /\ \A i \in DOMAIN q : Holds(s.file, q[i])
         /\ InRow(q)

(* m_portion is the first of them.                                         *)
Chosen(s, q) ==
    /\ s.portion \in Portions =>
          Head(q) = [of |-> s.portion, end |-> s.currentLogEnd]
    /\ s.portion = Reread =>
          LET p == Head(q).of
          IN  /\ s.nmbDest = Len(Dest[p])
              /\ NmbOfLogs[p] = Len(Dest[p]) =>
                    s.rereadLogs = LogLines(p) /\ s.currentLogEnd = Head(q).end

(* The disk has the offsets, or those before the last portion, or, after   *)
(* one of n failures, those before the last portion was let go.            *)
Behind(s, q, n) ==
    \/ s.disk = s.header
    \/ IF Len(q) > 1 THEN s.disk = [toWrite |-> q[Len(q) - 1].end, toRead |-> s.toRead]
       ELSE s.disk \in {NoHeader, EmptyHeader}
    \/ n > 0 /\ (q = <<>> \/ s.disk.toWrite = s.toWrite)

InOrder(s, q, n) == Laid(s, q) /\ Chosen(s, q) /\ Behind(s, q, n)

OrderInv == phase = "open" => InOrder(m, pending, faults)

(* A file with a row of portions, or none, has its offsets.                *)
LEMMA LaidHasOffsets ==
    ASSUME NEW s, WellOpened(s), NEW q \in Seq([of : Portions, end : Nat]), Laid(s, q)
    PROVE  WithOffsets(s) /\ s.toWrite >= 1 /\ Beneath(s) = s.header
<1>1. s.toRead # 0
  <2>1. CASE q = <<>>
    BY <2>1 DEF Laid
  <2>2. CASE q # <<>>
    <3>1. 1 \in DOMAIN q /\ Head(q) = q[1]
      BY <2>2
    <3>2. s.toRead = Start(q[1]) /\ Holds(s.file, q[1])
      BY <2>2, <3>1 DEF Laid
    <3>3. FirstLog <= s.toRead
      BY <3>2, Zenon DEF Holds
    <3>. QED  BY <3>3, ConstantFacts
  <2>. QED  BY <2>1, <2>2
<1>2. WithOffsets(s)
  BY <1>1 DEF WellOpened, WithoutOffsets
<1>3. s.toWrite >= 1 /\ s.toWrite # 0
  BY <1>2, ConstantFacts DEF WithOffsets
<1>. QED  BY <1>2, <1>3 DEF Beneath

(* A write leaves its lines in the file, and the others where they were.   *)
LEMMA OverwriteLines ==
    ASSUME NEW f \in Seq(Line), NEW pos \in Nat \ {0}, NEW lines \in Seq(Line)
    PROVE  /\ \A i \in DOMAIN lines : Overwrite(f, pos, lines)[pos + i - 1] = lines[i]
           /\ \A j \in DOMAIN f : j < pos => Overwrite(f, pos, lines)[j] = f[j]
           /\ Len(Overwrite(f, pos, lines)) >= Len(f)
           /\ Len(Overwrite(f, pos, lines)) >= pos + Len(lines) - 1
<1>. DEFINE n == Max(Len(f), pos + Len(lines) - 1)
            g == Overwrite(f, pos, lines)
<1>1. Len(f) \in Nat /\ DOMAIN f = 1..Len(f) /\ Len(lines) \in Nat /\ DOMAIN lines = 1..Len(lines)
  OBVIOUS
<1>2. n \in Nat /\ n >= Len(f) /\ n >= pos + Len(lines) - 1
  BY <1>1 DEF Max
<1>3. g = [i \in 1..n |-> IF i \in pos..(pos + Len(lines) - 1)
                          THEN lines[i - pos + 1] ELSE LineAt(f, i)]
  BY DEF Overwrite
<1>4. Len(g) = n
  BY OverwriteType
<1>. HIDE DEF n, g
<1>5. ASSUME NEW i \in DOMAIN lines PROVE g[pos + i - 1] = lines[i]
  <2>1. pos + i - 1 \in 1..n /\ pos + i - 1 \in pos..(pos + Len(lines) - 1)
    BY <1>1, <1>2
  <2>2. (pos + i - 1) - pos + 1 = i
    BY <1>1
  <2>. QED  BY <1>3, <2>1, <2>2
<1>6. ASSUME NEW j \in DOMAIN f, j < pos PROVE g[j] = f[j]
  <2>1. j \in 1..n /\ j \notin pos..(pos + Len(lines) - 1) /\ j \in 1..Len(f)
    BY <1>1, <1>2, <1>6
  <2>. QED  BY <1>3, <2>1 DEF LineAt
<1>. QED  BY <1>2, <1>4, <1>5, <1>6 DEF g

(* A record that ends before a write is still there after it.              *)
LEMMA HoldsKept ==
    ASSUME NEW f \in Seq(Line), NEW pos \in Nat \ {0}, NEW lines \in Seq(Line),
           NEW r \in [of : Portions, end : Nat], Holds(f, r), r.end <= pos
    PROVE  Holds(Overwrite(f, pos, lines), r)
<1>. DEFINE g == Overwrite(f, pos, lines)
            header == Header(r.of)
            logs == LogsArray(r.of)
<1>1. /\ Len(header) \in Nat /\ DOMAIN header = 1..Len(header)
      /\ Len(logs) \in Nat /\ DOMAIN logs = 1..Len(logs)
      /\ Size(r.of) = Len(header) + Len(logs)
  BY RecordType DEF Size
<1>2. /\ FirstLog <= Start(r) /\ r.end - 1 <= Len(f) /\ r.end \in Nat
      /\ Start(r) = r.end - Len(header) - Len(logs)
      /\ \A i \in DOMAIN header : f[Start(r) + i - 1] = header[i]
      /\ \A i \in DOMAIN logs : f[Start(r) + Len(header) + i - 1] = logs[i]
  BY <1>1 DEF Holds, Start
<1>3. /\ \A j \in DOMAIN f : j < pos => g[j] = f[j]
      /\ Len(g) \in Nat /\ Len(g) >= Len(f)
  <2>1. g \in Seq(Line)
    BY OverwriteType
  <2>2. Len(g) \in Nat
    BY <2>1, LenProperties
  <2>. QED  BY <2>2, OverwriteLines, Zenon
<1>4. Len(f) \in Nat /\ DOMAIN f = 1..Len(f) /\ FirstLog = 1
  BY DEF FirstLog
<1>. HIDE DEF g, header, logs
<1>5. ASSUME NEW i \in DOMAIN header PROVE g[Start(r) + i - 1] = header[i]
  <2>1. Start(r) + i - 1 \in DOMAIN f /\ Start(r) + i - 1 < pos
    BY <1>1, <1>2, <1>4
  <2>. QED  BY <1>2, <1>3, <2>1
<1>6. ASSUME NEW i \in DOMAIN logs PROVE g[Start(r) + Len(header) + i - 1] = logs[i]
  <2>1. Start(r) + Len(header) + i - 1 \in DOMAIN f /\ Start(r) + Len(header) + i - 1 < pos
    BY <1>1, <1>2, <1>4
  <2>. QED  BY <1>2, <1>3, <2>1
<1>7. r.end - 1 <= Len(g)
  BY <1>2, <1>3, <1>4
<1>. QED  BY <1>2, <1>5, <1>6, <1>7 DEF Holds, g, header, logs

(* A portion that fits is stored in one piece, behind the others.          *)
LEMMA RecordStored ==
    ASSUME NEW s, s.file \in Seq(Line), s.toWrite \in FirstLog..MaxSize,
           NEW p \in Portions, s.toWrite + Size(p) <= MaxSize
    PROVE  /\ WriteEnd(s, p) = s.toWrite + Size(p)
           /\ Holds(WithRecord(s, p), Stored(s, p))
           /\ \A r \in [of : Portions, end : Nat] :
                 Holds(s.file, r) /\ r.end <= s.toWrite =>
                    /\ Holds(WithRecord(s, p), r)
                    /\ \A v \in PartlyWritten(s, p) : Holds(v, r)
<1>. DEFINE header == Header(p)
            logs == LogsArray(p)
            w == s.toWrite
            x == w + Len(header)
            f == Overwrite(s.file, w, header)
            g == Overwrite(f, x, logs)
<1>1. /\ header \in Seq(Line) /\ Len(header) \in Nat /\ DOMAIN header = 1..Len(header)
      /\ logs \in Seq(Line) /\ Len(logs) \in Nat /\ DOMAIN logs = 1..Len(logs)
      /\ Size(p) = Len(header) + Len(logs)
  BY RecordType DEF Size
<1>2. MaxSize \in Nat /\ FirstLog = 1 /\ w \in Nat \ {0} /\ x \in Nat \ {0}
  BY <1>1, ConstantFacts
<1>. HIDE DEF header, logs
<1>3. w + Len(header) <= MaxSize /\ x + Len(logs) <= MaxSize /\ w + Size(p) = x + Len(logs)
  BY <1>1, <1>2
<1>f. f \in Seq(Line)
  BY <1>1, <1>2, OverwriteType, Zenon
<1>4. LogsStart(s, p) = x /\ WriteEnd(s, p) = x + Len(logs)
  <2>1. LogsStart(s, p) = x
    <3>1. PlacedEnd(s, w, header) = x
      BY <1>1, <1>2, <1>3, PlacedInOnePiece
    <3>. QED  BY <3>1 DEF LogsStart, header
  <2>2. PlacedEnd(s, x, logs) = x + Len(logs)
    BY <1>1, <1>2, <1>3, <1>f, PlacedInOnePiece
  <2>. QED  BY <2>1, <2>2 DEF WriteEnd, logs
<1>5. WithRecord(s, p) = g /\ PartlyWritten(s, p) = {s.file, f, g}
  <2>. HIDE DEF w, x
  <2>0. \A h \in Seq(Line), y \in Nat, lines \in Seq(Line) :
           y + Len(lines) <= MaxSize =>
              Placed(s, h, y, lines) = Overwrite(h, y, lines) /\ FirstPart(s, h, y, lines) = h
    BY PlacedInOnePiece
  <2>1. Placed(s, s.file, w, header) = f /\ FirstPart(s, s.file, w, header) = s.file
    <3>1. w \in Nat /\ w + Len(header) <= MaxSize
      BY <1>2, <1>3
    <3>. QED  BY <1>1, <2>0, <3>1, Zenon DEF f
  <2>2. Placed(s, f, x, logs) = g /\ FirstPart(s, f, x, logs) = f
    <3>1. x \in Nat /\ x + Len(logs) <= MaxSize
      BY <1>2, <1>3
    <3>. HIDE DEF f
    <3>. QED  BY <1>1, <1>f, <2>0, <3>1, Zenon DEF g
  <2>3. WithHeader(s, p) = f /\ WithRecord(s, p) = g
    BY <1>4, <2>1, <2>2 DEF WithHeader, WithRecord, header, logs, w, x
  <2>. QED  BY <1>4, <2>1, <2>2, <2>3 DEF PartlyWritten, header, logs, w, x
<1>6. /\ f \in Seq(Line) /\ Len(f) \in Nat
      /\ \A i \in DOMAIN header : f[w + i - 1] = header[i]
      /\ Len(f) >= w + Len(header) - 1
  <2>1. f \in Seq(Line)
    BY <1>1, <1>2, OverwriteType, Zenon
  <2>2. Len(f) \in Nat
    BY <2>1, LenProperties
  <2>. QED  BY <1>1, <1>2, <2>1, <2>2, OverwriteLines, Zenon
<1>7. /\ Len(g) \in Nat /\ g \in Seq(Line)
      /\ \A i \in DOMAIN logs : g[x + i - 1] = logs[i]
      /\ \A j \in DOMAIN f : j < x => g[j] = f[j]
      /\ Len(g) >= x + Len(logs) - 1
  <2>1. g \in Seq(Line)
    BY <1>1, <1>2, <1>6, OverwriteType, Zenon
  <2>2. Len(g) \in Nat
    BY <2>1, LenProperties
  <2>. QED  BY <1>1, <1>2, <1>6, <2>1, <2>2, OverwriteLines, Zenon
<1>8. Holds(g, Stored(s, p))
  <2>. DEFINE r == Stored(s, p)
  <2>1. r.of = p /\ r.end = x + Len(logs) /\ Start(r) = w
    BY <1>1, <1>2, <1>4 DEF Stored, Start
  <2>2. ASSUME NEW i \in DOMAIN header PROVE g[w + i - 1] = header[i]
    <3>1. w + i - 1 \in DOMAIN f /\ w + i - 1 < x
      BY <1>1, <1>2, <1>6
    <3>. QED  BY <1>6, <1>7, <3>1
  <2>3. \A i \in DOMAIN logs : g[w + Len(header) + i - 1] = logs[i]
    BY <1>7
  <2>. HIDE DEF r
  <2>4. FirstLog <= Start(r) /\ r.end - 1 <= Len(g)
    BY <1>1, <1>2, <1>7, <2>1
  <2>5. Holds(g, r)
    BY <2>1, <2>2, <2>3, <2>4 DEF Holds, header, logs
  <2>. QED  BY <2>5 DEF r
<1>9. ASSUME NEW r \in [of : Portions, end : Nat], Holds(s.file, r), r.end <= w
      PROVE  Holds(f, r) /\ Holds(g, r)
  <2>1. Holds(f, r)
    BY <1>1, <1>2, <1>9, HoldsKept
  <2>2. r.end <= x
    BY <1>1, <1>2, <1>9
  <2>. QED  BY <1>1, <1>2, <1>6, <2>1, <2>2, HoldsKept
<1>. HIDE DEF f, g, w, x
<1>10. ASSUME NEW r \in [of : Portions, end : Nat], Holds(s.file, r), r.end <= w
       PROVE  Holds(WithRecord(s, p), r) /\ \A v \in PartlyWritten(s, p) : Holds(v, r)
  BY <1>5, <1>9, <1>10, Zenon
<1>11. WriteEnd(s, p) = w + Size(p)
  BY <1>3, <1>4
<1>. QED  BY <1>5, <1>8, <1>10, <1>11 DEF w

(* What readAndDistribute makes of a record: the number of destinations is *)
(* right, and where it is that of the logs too, so are the logs.           *)
LEMMA RecordRead ==
    ASSUME NEW f \in Seq(Line), NEW r \in [of : Portions, end : Nat], Holds(f, r)
    PROVE  /\ WellFormed(f, Start(r))
           /\ DestCount(f, Start(r)) = Len(Dest[r.of])
           /\ NmbOfLogs[r.of] = Len(Dest[r.of]) =>
                 ReadLogs(f, Start(r)) = LogLines(r.of) /\ RecordEnd(f, Start(r)) = r.end
<1>. DEFINE p == r.of
            pos == Start(r)
            n == Len(Dest[p])
            k == NmbOfLogs[p]
            header == Header(p)
            logs == LogsArray(p)
<1>1. p \in Portions /\ n \in Nat \ {0} /\ k \in Nat
  BY RecordType, DestFacts
<1>2. Len(header) = 3 + n /\ Len(logs) = 1 + k
  BY <1>1, RecordType
<1>3. DOMAIN header = 1..(3 + n) /\ DOMAIN logs = 1..(1 + k)
  BY <1>1, <1>2, RecordType
<1>4. r.end \in Nat /\ Len(f) \in Nat /\ pos = r.end - (4 + n + k)
  BY <1>1, RecordType DEF Start
<1>5. pos \in Nat \ {0} /\ pos + (3 + n + k) <= Len(f)
  <2>1. 1 <= pos /\ r.end - 1 <= Len(f)
    BY DEF Holds, FirstLog
  <2>. HIDE DEF p, pos, n, k
  <2>. QED  BY <1>1, <1>4, <2>1
<1>6. /\ \A i \in 1..(3 + n) : f[pos + i - 1] = header[i]
      /\ \A i \in 1..(1 + k) : f[pos + Len(header) + i - 1] = logs[i]
  BY <1>3, Zenon DEF Holds
<1>7. header[3] = <<"count", n>> /\ \A i \in 1..n : header[3 + i] = <<"dest", Dest[p][i]>>
  <2>. DEFINE first == <<<<"client", p>>, <<"provider", p>>, <<"count", n>>>>
              dests == [i \in 1..n |-> <<"dest", Dest[p][i]>>]
  <2>1. header = first \o dests
    BY DEF Header
  <2>2. Len(first) = 3 /\ first[3] = <<"count", n>> /\ Len(dests) = n
    BY <1>1
  <2>3. \A i \in 1..(3 + n) : (first \o dests)[i] = IF i <= 3 THEN first[i] ELSE dests[i - 3]
    BY <1>1, <2>2
  <2>. HIDE DEF first, header
  <2>4. header[3] = first[3]
    <3>1. 3 \in 1..(3 + n) /\ 3 <= 3
      BY <1>1
    <3>. QED  BY <2>1, <2>3, <3>1, Zenon
  <2>5. ASSUME NEW i \in 1..n PROVE header[3 + i] = dests[i]
    <3>1. 3 + i \in 1..(3 + n) /\ ~(3 + i <= 3) /\ (3 + i) - 3 = i
      BY <1>1
    <3>. HIDE DEF dests
    <3>. QED  BY <2>1, <2>3, <3>1, Zenon
  <2>. QED  BY <2>2, <2>4, <2>5
<1>8. \A i \in 1..k : logs[1 + i] = LogLines(p)[i]
  <2>. DEFINE count == <<<<"count", k>>>>
  <2>1. logs = count \o LogLines(p)
    BY DEF LogsArray
  <2>2. Len(count) = 1 /\ Len(LogLines(p)) = k
    BY <1>1 DEF LogLines
  <2>3. \A i \in 1..(1 + k) : (count \o LogLines(p))[i] =
                                  IF i <= 1 THEN count[i] ELSE LogLines(p)[i - 1]
    BY <1>1, <2>2
  <2>. HIDE DEF count, logs
  <2>. TAKE i \in 1..k
  <2>4. 1 + i \in 1..(1 + k) /\ ~(1 + i <= 1) /\ (1 + i) - 1 = i
    BY <1>1
  <2>. QED  BY <2>1, <2>3, <2>4, Zenon
<1>. HIDE DEF p, pos, n, k, header, logs
<1>9. \A i \in 0..(3 + n + k) :
         ReadPos(f, pos, i) = pos + i /\ ReadLine(f, pos, i) = f[pos + i]
  <2>. TAKE i \in 0..(3 + n + k)
  <2>1. pos + i <= Len(f) /\ pos + i \in 1..Len(f)
    <3>1. i \in Nat /\ i <= 3 + n + k /\ Len(f) \in Nat
      BY <1>1, <1>4
    <3>. QED  BY <1>1, <1>5, <3>1
  <2>. QED  BY <2>1, Zenon DEF ReadPos, ReadLine, LineAt
<1>10. ReadLine(f, pos, 2) = <<"count", n>> /\ DestCount(f, pos) = n
  <2>1. 2 \in 0..(3 + n + k) /\ 3 \in 1..(3 + n)
    BY <1>1
  <2>2. pos + 3 - 1 = pos + 2
    BY <1>5
  <2>3. ReadLine(f, pos, 2) = <<"count", n>>
    BY <1>6, <1>7, <1>9, <2>1, <2>2, Zenon
  <2>. QED  BY <2>3 DEF DestCount
<1>11. \A i \in 1..n : ReadLine(f, pos, 2 + i)[1] = "dest"
  <2>. TAKE i \in 1..n
  <2>1. 2 + i \in 0..(3 + n + k) /\ 3 + i \in 1..(3 + n)
    BY <1>1
  <2>2. pos + (3 + i) - 1 = pos + (2 + i)
    BY <1>1, <1>5
  <2>3. ReadLine(f, pos, 2 + i) = <<"dest", Dest[p][i]>>
    <3>1. ReadLine(f, pos, 2 + i) = f[pos + (2 + i)]
      BY <1>9, <2>1, Zenon
    <3>2. f[pos + (3 + i) - 1] = header[3 + i]
      BY <1>6, <2>1, Zenon
    <3>3. header[3 + i] = <<"dest", Dest[p][i]>>
      BY <1>7, Zenon
    <3>. QED  BY <2>2, <3>1, <3>2, <3>3, Zenon
  <2>. QED  BY <2>3
<1>12. WellFormed(f, pos)
  BY <1>10, <1>11 DEF WellFormed
<1>13. ASSUME k = n PROVE ReadLogs(f, pos) = LogLines(p) /\ RecordEnd(f, pos) = r.end
  <2>1. LogsCount(f, pos) = k
    BY <1>10, <1>13 DEF LogsCount
  <2>2. \A i \in 1..k : ReadLine(f, pos, 3 + n + i) = LogLines(p)[i]
    <3>. TAKE i \in 1..k
    <3>1. 3 + n + i \in 0..(3 + n + k) /\ 1 + i \in 1..(1 + k)
      BY <1>1
    <3>2. pos + Len(header) + (1 + i) - 1 = pos + (3 + n + i)
      BY <1>1, <1>2, <1>5
    <3>. QED  BY <1>6, <1>8, <1>9, <3>1, <3>2, Zenon
  <2>3. LogLines(p) = [i \in 1..k |-> LogLines(p)[i]]
    BY DEF LogLines, k
  <2>4. ReadLogs(f, pos) = [i \in 1..k |-> ReadLine(f, pos, 3 + n + i)]
    BY <1>10, <2>1 DEF ReadLogs
  <2>5. ReadLogs(f, pos) = LogLines(p)
    BY <2>2, <2>3, <2>4, Zenon
  <2>6. RecordEnd(f, pos) = pos + (3 + n + k) + 1
    <3>1. 3 + n + k \in 0..(3 + n + k)
      BY <1>1
    <3>. QED  BY <1>9, <1>10, <2>1, <3>1, Zenon DEF RecordEnd
  <2>. QED  BY <1>1, <1>4, <2>5, <2>6
<1>. QED  BY <1>10, <1>12, <1>13 DEF p, pos, n, k

LEMMA SizePositive == \A p \in Portions : Size(p) \in Nat \ {0}
<1>. TAKE p \in Portions
<1>1. Size(p) = 4 + Len(Dest[p]) + NmbOfLogs[p] /\ NmbOfLogs[p] \in Nat /\ Len(Dest[p]) \in Nat
  BY RecordType, DestFacts
<1>. QED  BY <1>1

(* No stored portion ends behind the last one.                             *)
LEMMA RowEnds ==
    ASSUME NEW q \in Seq([of : Portions, end : Nat]), q # <<>>, InRow(q)
    PROVE  /\ Len(q) \in Nat \ {0} /\ DOMAIN q = 1..Len(q)
           /\ Head(q) = q[1]
           /\ \A i \in DOMAIN q : /\ q[i] \in [of : Portions, end : Nat]
                                  /\ Start(q[i]) \in Int /\ Start(q[i]) < q[i].end
                                  /\ q[i].end <= q[Len(q)].end
<1>1. Len(q) \in Nat \ {0} /\ DOMAIN q = 1..Len(q) /\ Head(q) = q[1]
  OBVIOUS
<1>2. ASSUME NEW i \in DOMAIN q
      PROVE  /\ q[i] \in [of : Portions, end : Nat]
             /\ Start(q[i]) \in Int /\ Start(q[i]) < q[i].end
  <2>1. q[i] \in [of : Portions, end : Nat]
    BY <1>1, <1>2, ElementOfSeq
  <2>2. Size(q[i].of) \in Nat \ {0}
    <3>1. q[i].of \in Portions
      BY <2>1
    <3>. QED  BY <3>1, SizePositive
  <2>. QED  BY <2>1, <2>2 DEF Start
<1>3. ASSUME NEW i \in DOMAIN q PROVE q[i].end <= q[Len(q)].end
  <2>1. Len(q) \in DOMAIN q /\ (i < Len(q) \/ i = Len(q))
    BY <1>1
  <2>2. q[i].end \in Nat /\ q[Len(q)].end \in Nat
    BY <1>2, <2>1
  <2>3. CASE i < Len(q)
    <3>1. q[i].end <= Start(q[Len(q)])
      BY <2>1, <2>3 DEF InRow
    <3>. QED  BY <1>2, <2>1, <2>2, <3>1
  <2>. QED  BY <2>1, <2>2, <2>3
<1>. QED  BY <1>1, <1>2, <1>3

(* What a write that fails may have left in such a file and on the disk.   *)
LEMMA FailureLeaves ==
    ASSUME NEW s \in Members, Beneath(s) = s.header,
           NEW p \in Portions, NEW t \in WriteFailures(s, p)
    PROVE  /\ t.file = s.file \/ t.file \in PartlyWritten(s, p)
           /\ t.disk = t.header \/ (t.disk = s.disk /\ t.header = s.header)
<1>1. CASE t = s
  BY <1>1
<1>2. CASE t = [s EXCEPT !.disk = s.header]
  BY <1>2 DEF Members
<1>3. CASE \E f \in PartlyWritten(s, p) :
              /\ t.file = f /\ t.header = Beneath(s)
              /\ t.disk = Beneath(s) \/ (t.disk = s.disk /\ s.disk = NoHeader)
  BY <1>3
<1>4. \/ t = s
      \/ t = [s EXCEPT !.disk = s.header]
      \/ \E f \in PartlyWritten(s, p) :
            /\ t = [s EXCEPT !.file = f, !.disk = t.disk, !.header = Beneath(s)]
            /\ t.file = f /\ t.header = Beneath(s)
            /\ t.disk = Beneath(s) \/ (t.disk = s.disk /\ s.disk = NoHeader)
  BY FailureFields
<1>. QED  BY <1>1, <1>2, <1>3, <1>4

(* A portion is stored behind the others.                                  *)
LEMMA LaidBehind ==
    ASSUME NEW s, WellOpened(s), NEW q \in Seq([of : Portions, end : Nat]), Laid(s, q),
           NEW p \in Portions, s.toWrite + Size(p) <= MaxSize
    PROVE  /\ Laid(Written(s, p), Append(q, Stored(s, p)))
           /\ q # <<>> => Written(s, p).toRead = s.toRead /\ s.toRead >= 0
           /\ \A t \in WriteFailures(s, p) : Laid(t, q)
<1>. DEFINE r == Stored(s, p)
            u == Append(q, r)
            n == Len(q)
            e == s.toWrite
            t == Written(s, p)
<1>1. s \in Members /\ s.file \in Seq(Line) /\ e \in FirstLog..MaxSize /\ e \in Nat /\ e >= 1
  BY LaidHasOffsets DEF WellOpened, WellStored, WithOffsets, Members
<1>2. /\ WriteEnd(s, p) = e + Size(p)
      /\ Holds(WithRecord(s, p), r)
      /\ \A v \in [of : Portions, end : Nat] :
            Holds(s.file, v) /\ v.end <= e =>
               /\ Holds(WithRecord(s, p), v)
               /\ \A f \in PartlyWritten(s, p) : Holds(f, v)
  BY <1>1, RecordStored
<1>3. Size(p) \in Nat /\ r.of = p /\ r.end = e + Size(p) /\ Start(r) = e
  <2>1. Size(p) \in Nat
    BY SizePositive
  <2>. QED  BY <1>1, <1>2, <2>1 DEF Stored, Start
<1>4. r \in [of : Portions, end : Nat]
  <2>1. r = [of |-> p, end |-> WriteEnd(s, p)]
    BY DEF Stored
  <2>. QED  BY <1>1, <1>2, <1>3, <2>1
<1>. HIDE DEF r
<1>5. /\ n \in Nat /\ Len(u) = n + 1 /\ DOMAIN u = 1..(n + 1) /\ DOMAIN q = 1..n
      /\ u[n + 1] = r /\ \A i \in 1..n : u[i] = q[i]
      /\ u # <<>> /\ Head(u) = u[1]
  BY <1>4
<1>6. /\ t.file = WithRecord(s, p) /\ t.toWrite = r.end
      /\ t.toRead = (IF s.toRead < 0 THEN e ELSE s.toRead)
  BY <1>1, <1>2, <1>3, WrittenFields
<1>. HIDE DEF u, n, e, t
<1>7. CASE q = <<>>
  <2>1. n = 0 /\ u[1] = r
    BY <1>5, <1>7 DEF n
  <2>2. InRow(u)
    <3>1. \A i \in DOMAIN u : i = 1
      BY <1>5, <2>1
    <3>2. \A i, j \in DOMAIN u : ~(i < j)
      BY <3>1
    <3>3. \A i \in DOMAIN u : ~(i > 1)
      BY <3>1
    <3>. QED  BY <3>2, <3>3 DEF InRow
  <2>3. \A i \in DOMAIN u : Holds(t.file, u[i])
    <3>1. \A i \in DOMAIN u : u[i] = r
      BY <1>5, <2>1
    <3>. QED  BY <1>2, <1>6, <3>1
  <2>4. t.toRead = e
    BY <1>6, <1>7 DEF Laid
  <2>5. t.toRead = Start(Head(u)) /\ t.toWrite = u[Len(u)].end
    BY <1>3, <1>5, <1>6, <2>1, <2>4
  <2>6. Laid(t, u)
    BY <1>5, <2>2, <2>3, <2>5, Zenon DEF Laid
  <2>7. ASSUME NEW v \in WriteFailures(s, p) PROVE Laid(v, q)
    <3>1. v.toRead = s.toRead /\ v.toWrite = s.toWrite /\ v.portion = s.portion
      BY <1>1, <2>7, FailureFields
    <3>. QED  BY <1>7, <3>1 DEF Laid
  <2>. QED  BY <1>7, <2>6, <2>7 DEF t, u, r
<1>8. CASE q # <<>>
  <2>1. /\ s.toRead = Start(q[1]) /\ e = q[n].end /\ InRow(q)
        /\ \A i \in 1..n : Holds(s.file, q[i])
    BY <1>5, <1>8 DEF Laid, e, n
  <2>2. /\ n \in Nat \ {0}
        /\ \A i \in 1..n : /\ q[i] \in [of : Portions, end : Nat]
                           /\ Start(q[i]) \in Int /\ Start(q[i]) < q[i].end
                           /\ q[i].end <= e
    BY <1>5, <1>8, <2>1, RowEnds DEF n
  <2>3. \A i \in 1..n : /\ Holds(WithRecord(s, p), q[i])
                         /\ \A f \in PartlyWritten(s, p) : Holds(f, q[i])
    BY <1>2, <2>1, <2>2
  <2>4. \A i \in DOMAIN u : Holds(t.file, u[i])
    <3>. TAKE i \in DOMAIN u
    <3>1. i \in 1..n \/ i = n + 1
      BY <1>5
    <3>. QED  BY <1>2, <1>5, <1>6, <2>3, <3>1
  <2>5. InRow(u)
    <3>1. ASSUME NEW i \in DOMAIN u, NEW j \in DOMAIN u, i < j PROVE u[i].end <= Start(u[j])
      <4>1. i \in 1..n /\ (j \in 1..n \/ j = n + 1)
        BY <1>5, <3>1
      <4>2. CASE j \in 1..n
        <5>1. i \in DOMAIN q /\ j \in DOMAIN q
          BY <1>5, <4>1, <4>2
        <5>. QED  BY <1>5, <2>1, <3>1, <4>1, <4>2, <5>1, Zenon DEF InRow
      <4>3. CASE j = n + 1
        BY <1>3, <1>5, <2>2, <4>1, <4>3
      <4>. QED  BY <4>1, <4>2, <4>3
    <3>2. ASSUME NEW i \in DOMAIN u, i > 1 PROVE Start(u[i]) = u[i - 1].end
      <4>1. i - 1 \in 1..n /\ (i \in 1..n \/ i = n + 1)
        BY <1>5, <3>2
      <4>2. CASE i \in 1..n
        BY <1>5, <2>1, <3>2, <4>1, <4>2, Zenon DEF InRow
      <4>3. CASE i = n + 1
        <5>1. i - 1 = n
          BY <1>5, <4>3
        <5>. QED  BY <1>3, <1>5, <2>1, <4>1, <4>3, <5>1
      <4>. QED  BY <4>1, <4>2, <4>3
    <3>. QED  BY <3>1, <3>2 DEF InRow
  <2>6. s.toRead >= 0 /\ s.toRead \in Int /\ t.toRead = s.toRead
    <3>1. 1 \in 1..n /\ FirstLog = 1
      BY <2>2, ConstantFacts
    <3>2. FirstLog <= Start(q[1])
      BY <2>1, <3>1, Zenon DEF Holds
    <3>. QED  BY <1>6, <2>1, <2>2, <3>1, <3>2
  <2>7. t.toRead = Start(Head(u)) /\ t.toWrite = u[Len(u)].end
    <3>1. u[1] = q[1]
      BY <1>5, <2>2
    <3>. QED  BY <1>5, <1>6, <2>1, <2>6, <3>1
  <2>8. Laid(t, u)
    BY <1>5, <2>4, <2>5, <2>7, Zenon DEF Laid
  <2>9. ASSUME NEW v \in WriteFailures(s, p) PROVE Laid(v, q)
    <3>1. v.toRead = s.toRead /\ v.toWrite = s.toWrite
      BY <1>1, <2>9, FailureFields
    <3>2. v.file = s.file \/ v.file \in PartlyWritten(s, p)
      BY <1>1, <2>9, LaidHasOffsets, FailureLeaves
    <3>3. \A i \in DOMAIN q : Holds(v.file, q[i])
      BY <1>5, <2>1, <2>3, <3>2
    <3>4. v.toRead = Start(Head(q)) /\ v.toWrite = q[Len(q)].end
      BY <1>8, <3>1 DEF Laid
    <3>. QED  BY <1>8, <2>1, <3>3, <3>4, Zenon DEF Laid
  <2>. QED  BY <2>6, <2>8, <2>9 DEF t, u, r
<1>. QED  BY <1>7, <1>8

(* What is left when the first one is let go.                              *)
LEMMA RowWithoutFirst ==
    ASSUME NEW q \in Seq([of : Portions, end : Nat]), q # <<>>, InRow(q)
    PROVE  /\ Tail(q) \in Seq([of : Portions, end : Nat])
           /\ Len(Tail(q)) = Len(q) - 1 /\ Len(q) \in Nat \ {0}
           /\ Tail(q) = <<>> <=> q[Len(q)].end = Head(q).end
           /\ Tail(q) # <<>> =>
                 /\ InRow(Tail(q))
                 /\ Head(Tail(q)) = q[2]
                 /\ Start(Head(Tail(q))) = Head(q).end
                 /\ Tail(q)[Len(Tail(q))] = q[Len(q)]
                 /\ \A i \in DOMAIN Tail(q) : \E j \in DOMAIN q : Tail(q)[i] = q[j]
<1>. DEFINE n == Len(q)
            t == Tail(q)
<1>1. /\ n \in Nat \ {0} /\ DOMAIN q = 1..n /\ Head(q) = q[1]
      /\ \A i \in DOMAIN q : q[i].end \in Nat /\ Start(q[i]) \in Int /\ Start(q[i]) < q[i].end
  BY RowEnds
<1>2. /\ t \in Seq([of : Portions, end : Nat])
      /\ Len(t) = n - 1 /\ DOMAIN t = 1..(n - 1) /\ \A i \in 1..(n - 1) : t[i] = q[i + 1]
  OBVIOUS
<1>. HIDE DEF n, t
<1>3. CASE n = 1
  <2>1. t = <<>>
    BY <1>2, <1>3
  <2>. QED  BY <1>1, <1>2, <1>3, <2>1 DEF n, t
<1>4. CASE n > 1
  <2>1. t # <<>> /\ Len(t) \in Nat \ {0} /\ Head(t) = t[1] /\ t[1] = q[2] /\ t[Len(t)] = q[n]
    <3>1. n - 1 \in Nat \ {0} /\ 1 \in 1..(n - 1) /\ n - 1 \in 1..(n - 1) /\ (n - 1) + 1 = n
      BY <1>1, <1>4
    <3>. QED  BY <1>2, <3>1
  <2>2. 1 \in DOMAIN q /\ n \in DOMAIN q /\ 2 \in DOMAIN q /\ 2 > 1 /\ 2 - 1 = 1
    BY <1>1, <1>4
  <2>3. q[n].end # q[1].end
    <3>1. q[1].end <= Start(q[n])
      BY <1>4, <2>2, <1>1 DEF InRow
    <3>. QED  BY <1>1, <2>2, <3>1
  <2>4. Start(q[2]) = q[1].end
    BY <2>2, Zenon DEF InRow
  <2>5. \A i \in DOMAIN t : i + 1 \in DOMAIN q /\ t[i] = q[i + 1]
    BY <1>1, <1>2
  <2>6. InRow(t)
    <3>1. ASSUME NEW i \in DOMAIN t, NEW j \in DOMAIN t, i < j PROVE t[i].end <= Start(t[j])
      <4>1. i + 1 < j + 1
        BY <1>1, <1>2, <3>1
      <4>. QED  BY <2>5, <4>1, Zenon DEF InRow
    <3>2. ASSUME NEW i \in DOMAIN t, i > 1 PROVE Start(t[i]) = t[i - 1].end
      <4>1. i - 1 \in DOMAIN t /\ (i - 1) + 1 = i /\ (i + 1) - 1 = i /\ i + 1 > 1
        BY <1>1, <1>2, <3>2
      <4>2. t[i - 1] = q[i] /\ t[i] = q[i + 1] /\ i + 1 \in DOMAIN q
        BY <2>5, <4>1, Zenon
      <4>. QED  BY <4>1, <4>2, Zenon DEF InRow
    <3>. QED  BY <3>1, <3>2 DEF InRow
  <2>. QED  BY <1>1, <1>2, <2>1, <2>3, <2>4, <2>5, <2>6 DEF n, t
<1>. QED  BY <1>1, <1>3, <1>4

(* writeImpl keeps the order, whether it succeeds or fails.                *)
LEMMA WrittenInOrder ==
    ASSUME NEW s, WellOpened(s), NEW q \in Seq([of : Portions, end : Nat]),
           NEW k \in Nat, InOrder(s, q, k),
           NEW p \in Portions, s.toWrite + Size(p) <= MaxSize
    PROVE  /\ InOrder(Written(s, p), Append(q, Stored(s, p)), k)
           /\ \A t \in WriteFailures(s, p) : InOrder(t, q, k)
<1>. DEFINE r == Stored(s, p)
            u == Append(q, r)
            t == Written(s, p)
            n == Len(q)
<1>1. /\ s \in Members /\ s.toWrite \in Nat /\ s.toRead \in Int
      /\ s.header = [toWrite |-> s.toWrite, toRead |-> s.toRead]
      /\ Beneath(s) = s.header
      /\ Laid(s, q) /\ Chosen(s, q) /\ Behind(s, q, k)
  <2>1. Laid(s, q)
    BY DEF InOrder
  <2>2. WithOffsets(s) /\ Beneath(s) = s.header
    BY <2>1, LaidHasOffsets
  <2>3. s \in Members
    BY DEF WellOpened, WellStored
  <2>. QED  BY <2>1, <2>2, <2>3 DEF WithOffsets, Members, InOrder
<1>2. /\ Laid(t, u) /\ \A v \in WriteFailures(s, p) : Laid(v, q)
      /\ q # <<>> => t.toRead = s.toRead /\ s.toRead >= 0
  BY <1>1, LaidBehind
<1>3. /\ t.disk = s.header
      /\ t.currentLogEnd = (IF Dispatches(s) THEN WriteEnd(s, p) ELSE s.currentLogEnd)
      /\ t.rereadLogs = s.rereadLogs
      /\ Dispatches(s) => t.portion = p
      /\ ~Dispatches(s) => t.portion = s.portion /\ t.nmbDest = s.nmbDest
  BY <1>1, WrittenFields, WrittenEffect
<1>4. Dispatches(s) <=> q = <<>>
  BY <1>1, <1>2 DEF Laid, Dispatches
<1>5. r = [of |-> p, end |-> WriteEnd(s, p)]
  BY DEF Stored
<1>6. n \in Nat /\ Len(u) = n + 1 /\ (\A i \in 1..n : u[i] = q[i]) /\ u # <<>>
      /\ (q = <<>> => Head(u) = r) /\ (q # <<>> => Head(u) = Head(q))
  OBVIOUS
<1>7. Chosen(t, u)
  <2>1. CASE q = <<>>
    <3>1. t.portion = p /\ t.currentLogEnd = WriteEnd(s, p) /\ Head(u) = r
      BY <1>3, <1>4, <1>6, <2>1
    <3>. HIDE DEF t, u, r
    <3>. QED  BY <1>5, <3>1, DataFileAssumption DEF Chosen
  <2>2. CASE q # <<>>
    <3>1. /\ t.portion = s.portion /\ t.currentLogEnd = s.currentLogEnd
          /\ t.nmbDest = s.nmbDest /\ t.rereadLogs = s.rereadLogs /\ Head(u) = Head(q)
      BY <1>3, <1>4, <1>6, <2>2
    <3>. HIDE DEF t, u
    <3>. QED  BY <1>1, <3>1 DEF Chosen
  <2>. QED  BY <2>1, <2>2
<1>8. Behind(t, u, k)
  <2>1. CASE q = <<>>
    <3>1. s.header = EmptyHeader
      BY <1>1, <2>1 DEF Laid, EmptyHeader
    <3>2. ~(Len(u) > 1)
      BY <2>1
    <3>. HIDE DEF t, u
    <3>. QED  BY <1>3, <3>1, <3>2 DEF Behind
  <2>2. CASE q # <<>>
    <3>1. Len(u) > 1 /\ Len(u) - 1 = n /\ u[n] = q[n]
      BY <2>2
    <3>2. t.disk = [toWrite |-> q[n].end, toRead |-> t.toRead]
      BY <1>1, <1>2, <1>3, <2>2 DEF Laid
    <3>. HIDE DEF t, u, n
    <3>. QED  BY <3>1, <3>2 DEF Behind
  <2>. QED  BY <2>1, <2>2
<1>9. ASSUME NEW v \in WriteFailures(s, p) PROVE InOrder(v, q, k)
  <2>1. /\ v.portion = s.portion /\ v.currentLogEnd = s.currentLogEnd
        /\ v.nmbDest = s.nmbDest /\ v.rereadLogs = s.rereadLogs
        /\ v.toRead = s.toRead /\ v.toWrite = s.toWrite
        /\ v.disk = v.header \/ (v.disk = s.disk /\ v.header = s.header)
    BY <1>1, <1>9, FailureFields, FailureLeaves
  <2>2. Chosen(v, q)
    BY <1>1, <2>1 DEF Chosen
  <2>3. Behind(v, q, k)
    BY <1>1, <2>1 DEF Behind
  <2>. QED  BY <1>2, <2>2, <2>3 DEF InOrder
<1>. QED  BY <1>2, <1>7, <1>8, <1>9 DEF InOrder

(* So does the last confirmation of the portion in distribution: the next  *)
(* one is read back, unless there is none.                                 *)
LEMMA ReleasedInOrder ==
    ASSUME NEW s, WellOpened(s), NEW q \in Seq([of : Portions, end : Nat]),
           NEW k \in Nat, InOrder(s, q, k), s.portion \in Portions
    PROVE  /\ InOrder(Released(s), Tail(q), k)
           /\ \A t \in ReleaseFailures(s) : InOrder(t, Tail(q), k + 1)
           /\ \A t \in {Released(s)} \cup ReleaseFailures(s) : t.toWrite <= s.toWrite
<1>. DEFINE t == Deleted(s)
            u == Advanced(t)
            v == ReadAndDistribute(u)
            w == Emptied(t)
<1>1. /\ s \in Members /\ s.file \in Seq(Line) /\ s.toWrite \in FirstLog..MaxSize
      /\ s.header = [toWrite |-> s.toWrite, toRead |-> s.toRead]
      /\ Laid(s, q) /\ Chosen(s, q)
      /\ s.toWrite \in Nat /\ FirstLog <= s.toWrite /\ s.firstLog = FirstLog
  <2>1. Laid(s, q)
    BY DEF InOrder
  <2>. QED
    BY <2>1, LaidHasOffsets, ConstantFacts
    DEF WellOpened, WellStored, WithOffsets, Members, InOrder
<1>2. DOMAIN s = {"file", "disk", "header", "firstLog", "toRead", "toWrite",
                  "currentLogEnd", "portion", "nmbDest", "rereadLogs", "freed",
                  "requestQueue"}
  BY <1>1 DEF Members
<1>3. /\ q # <<>> /\ s.toWrite = q[Len(q)].end /\ InRow(q)
      /\ \A i \in DOMAIN q : Holds(s.file, q[i])
      /\ Head(q).end = s.currentLogEnd
  <2>1. q # <<>>
    BY <1>1, DataFileAssumption DEF Laid
  <2>2. Head(q) = [of |-> s.portion, end |-> s.currentLogEnd]
    BY <1>1 DEF Chosen
  <2>3. Head(q).end = s.currentLogEnd
    BY <2>2
  <2>. QED  BY <1>1, <2>1, <2>3, Zenon DEF Laid
<1>4. /\ DOMAIN t = DOMAIN s /\ t.portion = Null /\ t.file = s.file
      /\ t.toWrite = s.toWrite /\ t.currentLogEnd = s.currentLogEnd
      /\ t.header = s.header /\ t.firstLog = FirstLog
  BY <1>1, <1>2 DEF Deleted
<1>. HIDE DEF t
<1>5. CASE s.toWrite = s.currentLogEnd
  <2>1. Released(s) = w /\ ReleaseFailures(s) = {[w EXCEPT !.disk = s.header]}
    BY <1>5 DEF Released, ReleaseFailures, IsDrained, t
  <2>2. Tail(q) = <<>>
    BY <1>3, <1>5, RowWithoutFirst
  <2>. DEFINE e == [w EXCEPT !.disk = s.header]
  <2>3. /\ w.toRead = -1 /\ w.toWrite = FirstLog /\ w.portion = Null
        /\ w.disk = EmptyHeader /\ w.header = EmptyHeader
        /\ e.toRead = -1 /\ e.toWrite = FirstLog /\ e.portion = Null
    BY <1>2, <1>4 DEF Emptied, EmptyHeader
  <2>. HIDE DEF w, e
  <2>4. InOrder(w, Tail(q), k)
    BY <2>2, <2>3, DataFileAssumption DEF InOrder, Laid, Chosen, Behind
  <2>5. InOrder(e, Tail(q), k + 1)
    <3>1. k + 1 > 0
      OBVIOUS
    <3>. QED  BY <2>2, <2>3, <3>1, DataFileAssumption DEF InOrder, Laid, Chosen, Behind
  <2>6. ReleaseFailures(s) = {e}
    BY <2>1 DEF e
  <2>. QED  BY <1>1, <2>1, <2>3, <2>4, <2>5, <2>6
<1>6. CASE s.toWrite # s.currentLogEnd
  <2>. DEFINE r == Tail(q)
              h == Head(r)
              f == [u EXCEPT !.disk = u.header]
  <2>1. Released(s) = v /\ ReleaseFailures(s) = {u, f}
    BY <1>6 DEF Released, ReleaseFailures, ReadFailures, IsDrained, t
  <2>2. /\ r # <<>> /\ InRow(r) /\ r \in Seq([of : Portions, end : Nat])
        /\ Start(h) = Head(q).end /\ r[Len(r)] = q[Len(q)]
        /\ \A i \in DOMAIN r : \E j \in DOMAIN q : r[i] = q[j]
    BY <1>3, <1>6, RowWithoutFirst
  <2>3. /\ DOMAIN u = DOMAIN s /\ u.portion = Null /\ u.file = s.file
        /\ u.toWrite = s.toWrite /\ u.toRead = s.currentLogEnd /\ u.disk = s.header
    BY <1>2, <1>4 DEF Advanced
  <2>. HIDE DEF u
  <2>4. \A i \in DOMAIN r : Holds(s.file, r[i])
    BY <1>3, <2>2
  <2>5. h \in [of : Portions, end : Nat] /\ Holds(s.file, h)
    <3>1. 1 \in DOMAIN r /\ h = r[1]
      BY <2>2
    <3>2. h \in [of : Portions, end : Nat]
      <4>1. r \in Seq([of : Portions, end : Nat]) /\ 1 \in 1..Len(r)
        BY <2>2
      <4>2. r[1] \in [of : Portions, end : Nat]
        BY <4>1, ElementOfSeq, Zenon
      <4>. QED  BY <3>1, <4>2, Zenon
    <3>. HIDE DEF h, r
    <3>. QED  BY <2>4, <3>1, <3>2, Zenon
  <2>6. u.toRead = Start(h) /\ u.toRead # -1
    <3>1. FirstLog <= Start(h)
      BY <2>5, Zenon DEF Holds
    <3>2. ~(FirstLog <= -1)
      BY ConstantFacts
    <3>3. Start(h) = u.toRead
      BY <1>3, <2>2, <2>3
    <3>. QED  BY <3>1, <3>2, <3>3, Zenon
  <2>7. /\ WellFormed(u.file, u.toRead)
        /\ DestCount(u.file, u.toRead) = Len(Dest[h.of])
        /\ NmbOfLogs[h.of] = Len(Dest[h.of]) =>
              /\ ReadLogs(u.file, u.toRead) = LogLines(h.of)
              /\ RecordEnd(u.file, u.toRead) = h.end
    BY <1>1, <2>3, <2>5, <2>6, RecordRead
  <2>8. v = [u EXCEPT !.disk = u.header,
                      !.currentLogEnd = RecordEnd(u.file, u.toRead),
                      !.portion = Reread,
                      !.nmbDest = DestCount(u.file, u.toRead),
                      !.rereadLogs = ReadLogs(u.file, u.toRead),
                      !.freed = 0]
    BY <2>6, <2>7, Zenon DEF ReadAndDistribute
  <2>9. /\ v.portion = Reread /\ v.file = s.file /\ v.toWrite = s.toWrite
        /\ v.toRead = Start(h) /\ v.disk = v.header
        /\ v.nmbDest = DestCount(u.file, u.toRead)
        /\ v.rereadLogs = ReadLogs(u.file, u.toRead)
        /\ v.currentLogEnd = RecordEnd(u.file, u.toRead)
    BY <1>2, <2>3, <2>6, <2>8
  <2>. HIDE DEF v, r
  <2>10. Laid(v, r)
    BY <1>3, <2>2, <2>4, <2>9, Zenon DEF Laid
  <2>11. Chosen(v, r)
    BY <2>7, <2>9, DataFileAssumption DEF Chosen
  <2>12. Behind(v, r, k)
    BY <2>9 DEF Behind
  <2>13. /\ f.file = s.file /\ f.toWrite = s.toWrite /\ f.toRead = Start(h)
         /\ f.portion = Null /\ f.disk = f.header
    BY <1>2, <2>3, <2>6
  <2>. HIDE DEF f
  <2>14. Laid(u, r) /\ Laid(f, r)
    BY <1>3, <2>2, <2>3, <2>4, <2>6, <2>13, Zenon DEF Laid
  <2>15. Chosen(u, r) /\ Chosen(f, r)
    BY <2>3, <2>13, DataFileAssumption DEF Chosen
  <2>16. Behind(u, r, k + 1) /\ Behind(f, r, k + 1)
    <3>1. k + 1 > 0 /\ u.disk.toWrite = u.toWrite
      BY <1>1, <2>3
    <3>. QED  BY <2>13, <3>1 DEF Behind
  <2>. QED
    BY <1>1, <2>1, <2>3, <2>9, <2>10, <2>11, <2>12, <2>13, <2>14, <2>15, <2>16
    DEF InOrder, r
<1>. QED  BY <1>5, <1>6

(* What the order does not depend on.                                      *)
LEMMA SameOrder ==
    ASSUME NEW s, NEW t, NEW q, NEW k \in Nat, NEW n \in Nat, n >= k, InOrder(s, q, k),
           t.file = s.file, t.toRead = s.toRead, t.toWrite = s.toWrite,
           t.disk \in {s.disk, s.header}, t.header = s.header,
           t.portion = s.portion \/ (t.portion = Null /\ q # <<>>),
           t.currentLogEnd = s.currentLogEnd, t.rereadLogs = s.rereadLogs,
           t.nmbDest = s.nmbDest \/ t.portion # Reread
    PROVE  InOrder(t, q, n)
<1>1. Laid(t, q)
  BY Zenon DEF InOrder, Laid
<1>2. Chosen(t, q)
  <2>1. t.portion = s.portion \/ t.portion \notin Portions \cup {Reread}
    BY DataFileAssumption
  <2>. QED  BY <2>1, Zenon DEF InOrder, Chosen
<1>3. Behind(t, q, n)
  <2>1. k > 0 => n > 0
    OBVIOUS
  <2>. QED  BY <2>1 DEF InOrder, Behind
<1>. QED  BY <1>1, <1>2, <1>3 DEF InOrder

(* scheduleForWrite.                                                       *)
LEMMA ScheduleInOrder ==
    ASSUME FileInv, OrderInv, phase = "open", NEW p \in Portions, ScheduleForWrite(p), StraightOn
    PROVE  InOrder(m, pending, faults)'
<1>1. /\ m \in Members /\ WellOpened(m) /\ InOrder(m, pending, faults)
      /\ pending \in Seq([of : Portions, end : Nat]) /\ faults \in Nat
      /\ reply \in [Portions -> {"none", "rejected", "written", "queued", "dropped"}]
  BY DEF FileInv, TypeOK, OrderInv
<1>2. ASSUME reply[p] = "none", NEW x \in {"written", "queued"},
             reply' = [reply EXCEPT ![p] = x]
      PROVE  m.toWrite + Size(p) <= MaxSize
  <2>1. reply'[p] = x /\ x # "none" /\ x # "rejected"
    BY <1>1, <1>2
  <2>. QED  BY <1>2, <2>1, Zenon DEF StraightOn
<1>3. CASE RejectTooBig(p)
  BY <1>1, <1>3 DEF RejectTooBig
<1>4. CASE WriteAtOnce(p)
  <2>1. /\ m' = Written(m, p) /\ pending' = Append(pending, Stored(m, p))
        /\ faults' = faults /\ reply[p] = "none" /\ reply' = [reply EXCEPT ![p] = "written"]
    BY <1>4 DEF WriteAtOnce, Schedule, WriteImpl
  <2>. QED  BY <1>1, <1>2, <2>1, WrittenInOrder
<1>5. CASE Enqueue(p)
  <2>1. /\ pending' = pending
        /\ reply[p] = "none" /\ reply' = [reply EXCEPT ![p] = "queued"]
    BY <1>5 DEF Enqueue, Schedule
  <2>n. faults' \in Nat /\ faults' >= faults
    BY <1>1, <1>5 DEF Enqueue, Fault
  <2>2. PICK s \in WriteFailures(m, p) : \E r : m' = [s EXCEPT !.requestQueue = r]
    <3>1. m \in WriteFailures(m, p)
      BY DEF WriteFailures
    <3>2. \/ m' = [m EXCEPT !.requestQueue = Append(m.requestQueue, p)]
          \/ \E s \in WriteFailures(m, p) : m' = [s EXCEPT !.requestQueue = <<p>>]
      BY <1>5 DEF Enqueue
    <3>. QED  BY <3>1, <3>2
  <2>3. InOrder(s, pending, faults)
    BY <1>1, <1>2, <2>1, WrittenInOrder
  <2>4. s \in Members
    <3>1. Size(p) \in Nat /\ MaxSize \in Nat
      BY SizePositive, ConstantFacts
    <3>2. Size(p) <= MaxSize
      BY <1>5, <3>1 DEF Enqueue
    <3>. QED  BY <1>1, <3>2, StoredType
  <2>5. /\ m'.file = s.file /\ m'.toRead = s.toRead /\ m'.toWrite = s.toWrite
        /\ m'.disk = s.disk /\ m'.header = s.header /\ m'.portion = s.portion
        /\ m'.currentLogEnd = s.currentLogEnd /\ m'.rereadLogs = s.rereadLogs
        /\ m'.nmbDest = s.nmbDest
    <3>1. PICK r : m' = [s EXCEPT !.requestQueue = r]
      BY <2>2
    <3>. QED  BY <2>4, <3>1 DEF Members
  <2>. QED  BY <1>1, <2>1, <2>n, <2>3, <2>5, SameOrder
<1>. QED  BY <1>3, <1>4, <1>5 DEF ScheduleForWrite

(* confirmPortion, and popNextFromQueue in it.                             *)
LEMMA ConfirmInOrder ==
    ASSUME FileInv, DeliveryInv, OrderInv, phase = "open", ConfirmPortion, StraightOn
    PROVE  InOrder(m, pending, faults)'
<1>1. /\ m \in Members /\ WellOpened(m) /\ InOrder(m, pending, faults)
      /\ pending \in Seq([of : Portions, end : Nat]) /\ faults \in Nat
      /\ reply \in [Portions -> {"none", "rejected", "written", "queued", "dropped"}]
      /\ confirms \in Seq(Portions)
      /\ m.requestQueue \in Seq(Portions)
  BY DEF FileInv, TypeOK, OrderInv, Members
<1>2. ASSUME Confirm PROVE Head(confirms) \in Portions
  BY <1>1, <1>2 DEF Confirm
<1>3. CASE CountConfirmation
  <2>. DEFINE u == [m EXCEPT !.nmbDest = @ - 1]
  <2>1. /\ u.file = m.file /\ u.toRead = m.toRead /\ u.toWrite = m.toWrite
        /\ u.disk = m.disk /\ u.header = m.header /\ u.portion = m.portion
        /\ u.currentLogEnd = m.currentLogEnd /\ u.rereadLogs = m.rereadLogs
    BY <1>1 DEF Members
  <2>. HIDE DEF u
  <2>2. /\ pending' = pending /\ faults' = faults
        /\ m' = m \/ (m' = u /\ m.portion \in Portions)
    BY <1>2, <1>3 DEF CountConfirmation, u
  <2>. QED  BY <1>1, <2>1, <2>2, SameOrder, DataFileAssumption
<1>4. ASSUME IsLast, Confirm PROVE m.portion \in Portions /\ pending # <<>>
  <2>1. m.portion \in Portions
    BY <1>2, <1>4 DEF IsLast
  <2>. QED  BY <2>1 DEF FileInv
<1>5. CASE ReleaseFails
  <2>. DEFINE u == Deleted(m)
              v == [u EXCEPT !.disk = m.header]
  <2>1. m' \in {u, v} /\ pending' = pending /\ pending # <<>>
    BY <1>4, <1>5 DEF ReleaseFails
  <2>2. faults' \in Nat /\ faults' >= faults
    BY <1>1, <1>5 DEF ReleaseFails, Fault
  <2>3. /\ u \in Members
        /\ u.file = m.file /\ u.toRead = m.toRead /\ u.toWrite = m.toWrite
        /\ u.disk = m.disk /\ u.header = m.header /\ u.portion = Null
        /\ u.currentLogEnd = m.currentLogEnd /\ u.rereadLogs = m.rereadLogs
    BY <1>1, DeletedInv
  <2>. HIDE DEF u
  <2>4. /\ v.file = m.file /\ v.toRead = m.toRead /\ v.toWrite = m.toWrite
        /\ v.disk = m.header /\ v.header = m.header /\ v.portion = Null
        /\ v.currentLogEnd = m.currentLogEnd /\ v.rereadLogs = m.rereadLogs
    BY <2>3 DEF Members
  <2>. HIDE DEF v
  <2>5. Null # Reread
    BY DataFileAssumption
  <2>6. InOrder(u, pending, faults') /\ InOrder(v, pending, faults')
    BY <1>1, <2>1, <2>2, <2>3, <2>4, <2>5, SameOrder
  <2>. QED  BY <2>1, <2>6
<1>6. ASSUME Release, NEW n \in {0, 1}, NEW t \in LetGo(n), PopNextFromQueue(t, n)
      PROVE  InOrder(m, pending, faults)'
  <2>. DEFINE q == Tail(pending)
              p == Head(m.requestQueue)
              s == Dequeued(t)
              k == faults + n
  <2>1. m.portion \in Portions /\ pending # <<>>
    BY <1>4, <1>6 DEF Release
  <2>2. q \in Seq([of : Portions, end : Nat]) /\ k \in Nat
    BY <1>1, <2>1
  <2>3. t \in {Released(m)} \cup ReleaseFailures(m)
    BY DEF LetGo
  <2>4. InOrder(t, q, k) /\ t.toWrite <= m.toWrite
    <3>1. /\ InOrder(Released(m), q, faults)
          /\ \A x \in ReleaseFailures(m) : InOrder(x, q, faults + 1)
          /\ \A x \in {Released(m)} \cup ReleaseFailures(m) : x.toWrite <= m.toWrite
      BY <1>1, <2>1, ReleasedInOrder
    <3>2. CASE n = 0
      <4>1. t = Released(m) /\ k = faults
        BY <1>1, <3>2 DEF LetGo
      <4>. QED  BY <2>3, <3>1, <4>1
    <3>3. CASE n # 0
      <4>1. t \in ReleaseFailures(m) /\ k = faults + 1
        BY <1>1, <3>3 DEF LetGo
      <4>. QED  BY <2>3, <3>1, <4>1
    <3>. QED  BY <3>2, <3>3
  <2>5. WellOpened(t) /\ t \in Members /\ t.requestQueue = m.requestQueue
    <3>1. WithOffsets(m)
      BY <1>1, LaidHasOffsets DEF InOrder
    <3>. QED  BY <1>1, <2>3, <3>1, ReleasedInv
  <2>. HIDE DEF k
  <2>6. ASSUME CanPop(t), NEW x \in {"written", "dropped"}, reply' = [reply EXCEPT ![p] = x]
        PROVE  /\ WellOpened(s) /\ InOrder(s, q, k) /\ p \in Portions
               /\ s.toWrite + Size(p) <= MaxSize
    <3>1. m.requestQueue # <<>>
      BY <2>5, <2>6 DEF CanPop
    <3>2. WellOpened(s) /\ p \in Portions
      BY <2>5, <3>1, QueueInv
    <3>3. /\ s.file = t.file /\ s.toRead = t.toRead /\ s.toWrite = t.toWrite
          /\ s.disk = t.disk /\ s.header = t.header /\ s.portion = t.portion
          /\ s.currentLogEnd = t.currentLogEnd /\ s.rereadLogs = t.rereadLogs
          /\ s.nmbDest = t.nmbDest
      BY <2>5 DEF Dequeued, Members
    <3>4. m.toWrite + Size(p) <= MaxSize
      <4>1. 1 \in DOMAIN m.requestQueue /\ p = m.requestQueue[1]
        BY <1>1, <3>1
      <4>2. reply[p] = "queued"
        BY <4>1 DEF DeliveryInv, RequestInv
      <4>3. reply'[p] = x
        BY <1>1, <2>6, <3>2
      <4>4. reply'[p] # reply[p] /\ reply'[p] # "rejected"
        BY <2>6, <4>2, <4>3
      <4>. QED  BY <3>2, <4>4, Zenon DEF StraightOn
    <3>5. s.toWrite \in Nat /\ m.toWrite \in Nat /\ Size(p) \in Nat /\ MaxSize \in Nat
      BY <1>1, <2>5, <3>2, <3>3, SizePositive, ConstantFacts DEF Members
    <3>. HIDE DEF s, p, q
    <3>6. s.toWrite + Size(p) <= MaxSize
      BY <2>4, <3>3, <3>4, <3>5
    <3>7. k >= k
      BY <2>2
    <3>8. InOrder(s, q, k)
      BY <2>2, <2>4, <3>3, <3>7, SameOrder
    <3>. QED  BY <3>2, <3>6, <3>8
  <2>7. CASE PopNothing(t, n)
    <3>1. m' = t /\ pending' = q /\ faults' = k
      BY <2>7 DEF PopNothing, Fault, k
    <3>. QED  BY <2>4, <3>1
  <2>8. CASE PopRequest(t, n)
    <3>1. /\ CanPop(t) /\ m' = Written(s, p) /\ faults' = k
          /\ reply' = [reply EXCEPT ![p] = "written"]
          /\ pending' = Append(q, Stored(s, p))
      BY <2>5, <2>8 DEF PopRequest, WriteImpl, Fault, k
    <3>2. /\ WellOpened(s) /\ InOrder(s, q, k) /\ p \in Portions
          /\ s.toWrite + Size(p) <= MaxSize
      BY <2>6, <3>1
    <3>. HIDE DEF s, p, q
    <3>. QED  BY <2>2, <3>1, <3>2, WrittenInOrder
  <2>9. CASE DropRequest(t, n)
    <3>1. /\ CanPop(t) /\ m' \in WriteFailures(s, p) /\ faults' = faults + (n + 1)
          /\ reply' = [reply EXCEPT ![p] = "dropped"] /\ pending' = q
      BY <2>5, <2>9 DEF DropRequest, Fault
    <3>2. /\ WellOpened(s) /\ InOrder(s, q, k) /\ p \in Portions
          /\ s.toWrite + Size(p) <= MaxSize
      BY <2>6, <3>1
    <3>3. faults' \in Nat /\ faults' >= k
      BY <1>1, <3>1 DEF k
    <3>. HIDE DEF s, p, q
    <3>4. InOrder(m', q, k)
      BY <2>2, <3>1, <3>2, WrittenInOrder
    <3>5. InOrder(m', q, faults')
      BY <2>2, <3>3, <3>4, SameOrder
    <3>. QED  BY <3>1, <3>5
  <2>. QED  BY <1>6, <2>7, <2>8, <2>9 DEF PopNextFromQueue
<1>. QED  BY <1>3, <1>5, <1>6 DEF ConfirmPortion

LEMMA OrderInvStep ==
    FileInv /\ DeliveryInv /\ OrderInv /\ [Next]_vars /\ [StraightOn]_vars => OrderInv'
<1>. SUFFICES ASSUME FileInv, DeliveryInv, OrderInv, [Next]_vars, [StraightOn]_vars,
                     phase' = "open"
              PROVE  InOrder(m, pending, faults)'
  BY DEF OrderInv
<1>1. ASSUME phase = "open", UNCHANGED <<m, pending, faults>> PROVE InOrder(m, pending, faults)'
  BY <1>1 DEF OrderInv
<1>2. CASE UNCHANGED vars
  BY <1>1, <1>2 DEF vars
<1>3. CASE Next /\ StraightOn
  <2>1. CASE \E p \in Portions : ScheduleForWrite(p)
    <3>1. PICK p \in Portions : ScheduleForWrite(p)
      BY <2>1
    <3>2. phase = "open"
      BY <3>1 DEF ScheduleForWrite, RejectTooBig, WriteAtOnce, Enqueue, Schedule
    <3>. QED  BY <1>3, <3>1, <3>2, ScheduleInOrder
  <2>2. CASE ConfirmPortion
    <3>1. phase = "open"
      BY <2>2 DEF ConfirmPortion, CountConfirmation, ReleaseFails, Release, Confirm,
                  daemonVars
    <3>. QED  BY <1>3, <2>2, <3>1, ConfirmInOrder
  <2>3. CASE \E c \in Consumers : Consume(c) \/ ConsumeFails(c) \/ EndConsumer(c)
    <3>1. phase = "open" /\ UNCHANGED <<m, pending>>
      BY <2>3 DEF Consume, ConsumeFails, Take, EndConsumer
    <3>2. faults \in Nat /\ faults' \in Nat /\ faults' >= faults
      <4>1. faults \in Nat
        BY DEF FileInv, TypeOK
      <4>. QED  BY <2>3, <4>1 DEF Consume, ConsumeFails, EndConsumer, Fault
    <3>3. InOrder(m, pending, faults)
      BY <3>1 DEF OrderInv
    <3>. QED  BY <3>1, <3>2, <3>3, SameOrder
  <2>4. CASE ShutDown \/ CloseProvider
    BY <1>1, <2>4 DEF ShutDown, CloseProvider, daemonVars
  <2>5. CASE CloseFile \/ Destroy \/ Crash
    BY <2>5 DEF CloseFile, Destroy, Crash
  <2>6. CASE Restart
    <3>1. restarts' = restarts + 1 /\ restarts' = restarts /\ restarts \in 0..MaxRestarts
      BY <1>3, <2>6 DEF Restart, StraightOn, FileInv, TypeOK
    <3>. QED  BY <3>1, DataFileAssumption
  <2>. QED  BY <1>3, <2>1, <2>2, <2>3, <2>4, <2>5, <2>6 DEF Next
<1>. QED  BY <1>2, <1>3

LEMMA OrderInvInit == Init => OrderInv
<1>. SUFFICES ASSUME Init PROVE InOrder(m, pending, faults)
  BY DEF OrderInv
<1>1. /\ m.toRead = -1 /\ m.toWrite = FirstLog /\ m.portion = Null /\ m.disk = NoHeader
      /\ pending = <<>>
  BY DEF Init, NewFile
<1>. QED  BY <1>1, DataFileAssumption DEF InOrder, Laid, Chosen, Behind

(* What the buffer promises as long as it does not fill up.                *)
LEMMA OrderInvariant == Spec /\ [][StraightOn]_vars => [](FileInv /\ OrderInv)
<1>1. Init => OrderInv
  BY OrderInvInit
<1>2. FileInv /\ DeliveryInv /\ OrderInv /\ [Next]_vars /\ [StraightOn]_vars => OrderInv'
  BY OrderInvStep
<1>. QED  BY <1>1, <1>2, DeliveryInvariant, PTL DEF Spec

(* m_toRead is -1 when all that was stored has been let go, and only then: *)
(* "there is nothing to read" (DataFile.cpp:498) is right.                 *)
THEOREM EmptyIsDelivered == Spec /\ [][StraightOn]_vars => []EmptyMeansDelivered
<1>1. FileInv /\ OrderInv => EmptyMeansDelivered
  <2>. SUFFICES ASSUME FileInv, OrderInv, phase = "open" PROVE m.toRead = -1 <=> pending = <<>>
    BY DEF EmptyMeansDelivered
  <2>1. Laid(m, pending) /\ pending \in Seq([of : Portions, end : Nat])
    BY DEF FileInv, TypeOK, OrderInv, InOrder
  <2>2. ASSUME pending # <<>> PROVE m.toRead # -1
    <3>1. 1 \in DOMAIN pending /\ Head(pending) = pending[1]
      BY <2>1, <2>2
    <3>2. m.toRead = Start(pending[1]) /\ Holds(m.file, pending[1])
      BY <2>1, <2>2, <3>1 DEF Laid
    <3>3. FirstLog <= m.toRead
      BY <3>2, Zenon DEF Holds
    <3>. QED  BY <3>3, ConstantFacts
  <2>. QED  BY <2>1, <2>2 DEF Laid
<1>. QED  BY <1>1, OrderInvariant, PTL

(* A crash at any moment finds on the disk the offsets of the file as it   *)
(* is, or as it was before the last portion was stored, or, after a        *)
(* failure, as it was before the last portion was let go.                  *)
THEOREM DiskStaysBehind == Spec /\ [][StraightOn]_vars => []DiskIsOneWriteBehind
<1>1. FileInv /\ OrderInv => DiskIsOneWriteBehind
  BY DEF OrderInv, InOrder, Behind, DiskIsOneWriteBehind
<1>. QED  BY <1>1, OrderInvariant, PTL

(* Portions are distributed in the order in which they were stored.        *)
THEOREM OldestIsFirst == Spec /\ [][StraightOn]_vars => []OldestFirst
<1>1. FileInv /\ OrderInv => OldestFirst
  <2>. SUFFICES ASSUME FileInv, OrderInv, phase = "open", m.portion \in Portions
                PROVE  /\ pending # <<>> /\ Head(pending).of = m.portion
                       /\ Head(pending).end = m.currentLogEnd
    BY DEF OldestFirst
  <2>1. Head(pending) = [of |-> m.portion, end |-> m.currentLogEnd]
    BY DEF OrderInv, InOrder, Chosen
  <2>. QED  BY <2>1 DEF FileInv
<1>. QED  BY <1>1, OrderInvariant, PTL

(* What is read back is the oldest portion, as it was stored, when it has  *)
(* as many logs as destinations.                                           *)
THEOREM RereadStaysOldest == Spec /\ [][StraightOn]_vars => []RereadIsOldest
<1>1. FileInv /\ OrderInv => RereadIsOldest
  <2>. SUFFICES ASSUME FileInv, OrderInv, phase = "open", m.portion = Reread
                PROVE  /\ pending # <<>>
                       /\ LET p == Head(pending).of
                          IN  /\ m.nmbDest = Len(Dest[p])
                              /\ NmbOfLogs[p] = Len(Dest[p]) =>
                                    /\ m.rereadLogs = LogLines(p)
                                    /\ m.currentLogEnd = Head(pending).end
    BY DEF RereadIsOldest
  <2>1. Laid(m, pending) /\ Chosen(m, pending)
    BY DEF OrderInv, InOrder
  <2>2. pending # <<>>
    BY <2>1, DataFileAssumption DEF Laid
  <2>. QED  BY <2>1, <2>2, Zenon DEF Chosen
<1>. QED  BY <1>1, OrderInvariant, PTL
=============================================================================
