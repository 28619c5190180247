------------------------- MODULE MessageFormerProofs -------------------------
(***************************************************************************)
(* What holds of MessageFormer for every stream of bytes, every size its   *)
(* frames announce and every way the bytes are cut into reads.             *)
(***************************************************************************)
EXTENDS MessageFormer, SequenceTheorems, TLAPS

-----------------------------------------------------------------------------
(* Pieces of the stream                                                    *)

LEMMA PieceType ==
    ASSUME NEW from \in Nat, NEW n \in Nat
    PROVE  /\ Piece(from, n) \in Seq(Nat)
           /\ Len(Piece(from, n)) = n
           /\ \A k \in 1..n : Piece(from, n)[k] = from + k
           /\ from + n <= Total => Piece(from, n) \in Seq(Position)
<1>1. Piece(from, n) = [k \in 1..n |-> from + k]
  BY DEF Piece
<1>2. Piece(from, n) \in [1..n -> Nat]
  BY <1>1
<1>3. ASSUME from + n <= Total
      PROVE  Piece(from, n) \in [1..n -> Position]
  <2>1. Total \in Nat
    BY StreamAssumption DEF Total
  <2>2. \A k \in 1..n : from + k \in Position
    BY <1>3, <2>1 DEF Position
  <2>. QED  BY <1>1, <2>2
<1>4. Piece(from, n) \in Seq(Nat) /\ Len(Piece(from, n)) = n
  BY <1>2, SeqDef, LenProperties
<1>5. from + n <= Total => Piece(from, n) \in Seq(Position)
  BY <1>3, SeqDef
<1>. QED  BY <1>1, <1>4, <1>5

LEMMA PieceConcat ==
    ASSUME NEW from \in Nat, NEW n \in Nat, NEW k \in Nat
    PROVE  Piece(from, n) \o Piece(from + n, k) = Piece(from, n + k)
<1>. DEFINE s == Piece(from, n)
            t == Piece(from + n, k)
            u == Piece(from, n + k)
<1>1. /\ s \in Seq(Nat) /\ Len(s) = n
      /\ \A i \in 1..n : s[i] = from + i
  BY PieceType
<1>2. /\ t \in Seq(Nat) /\ Len(t) = k
      /\ \A i \in 1..k : t[i] = from + n + i
  BY PieceType, from + n \in Nat
<1>3. /\ u \in Seq(Nat) /\ Len(u) = n + k
      /\ \A i \in 1..(n + k) : u[i] = from + i
  BY PieceType, n + k \in Nat
<1>. HIDE DEF s, t, u
<1>4. /\ s \o t \in Seq(Nat) /\ Len(s \o t) = n + k
      /\ \A i \in 1..(n + k) : (s \o t)[i] = IF i <= n THEN s[i] ELSE t[i - n]
  BY <1>1, <1>2, ConcatProperties
<1>5. ASSUME NEW i \in 1..(n + k)
      PROVE  (s \o t)[i] = u[i]
  <2>1. CASE i <= n
    BY <1>1, <1>3, <1>4, <2>1
  <2>2. CASE ~(i <= n)
    <3>1. PICK j \in 1..k : j = i - n
      BY <2>2
    <3>2. t[j] = from + n + j /\ u[i] = from + i
      BY <1>2, <1>3
    <3>3. (s \o t)[i] = t[j]
      BY <1>4, <2>2, <3>1
    <3>4. from + n + j = from + i
      BY <3>1
    <3>. QED  BY <3>2, <3>3, <3>4
  <2>. QED  BY <2>1, <2>2
<1>6. s \o t = u
  BY <1>3, <1>4, <1>5, SeqEqual
<1>. QED  BY <1>6 DEF s, t, u

LEMMA LeftPiece ==
    ASSUME NEW from \in Nat, NEW n \in Nat, NEW k \in Int, k <= n
    PROVE  Left(Piece(from, n), k) = Piece(from, IF k > 0 THEN k ELSE 0)
<1>. DEFINE s == Piece(from, n)
            j == IF k > 0 THEN k ELSE 0
            t == SubSeq(s, 1, k)
            u == Piece(from, j)
<1>0. j \in Nat
  OBVIOUS
<1>1. /\ s \in Seq(Nat) /\ Len(s) = n
      /\ \A i \in 1..n : s[i] = from + i
  BY PieceType
<1>2. /\ u \in Seq(Nat) /\ Len(u) = j
      /\ \A i \in 1..j : u[i] = from + i
  BY <1>0, PieceType
<1>. HIDE DEF s, u
<1>3. \A i \in 1..k : s[i] \in Nat
  BY <1>1
<1>4. /\ t \in Seq(Nat) /\ Len(t) = j
      /\ \A i \in 1..k : t[i] = s[i]
  BY <1>3, SubSeqProperties
<1>5. \A i \in 1..Len(t) : t[i] = u[i]
  BY <1>1, <1>2, <1>4
<1>. HIDE DEF t, j
<1>6. t = u
  BY <1>2, <1>4, <1>5, SeqEqual
<1>. QED  BY <1>6 DEF s, t, u, j, Left

LEMMA MidPiece ==
    ASSUME NEW from \in Nat, NEW n \in Nat, NEW k \in Int, k <= n
    PROVE  Mid(Piece(from, n), k) = IF k < 0 THEN Piece(from, n)
                                    ELSE Piece(from + k, n - k)
<1>1. CASE k < 0
  BY <1>1 DEF Mid
<1>2. CASE k >= 0
  <2>. DEFINE s == Piece(from, n)
              t == SubSeq(s, k + 1, n)
              u == Piece(from + k, n - k)
  <2>1. /\ s \in Seq(Nat) /\ Len(s) = n
        /\ \A i \in 1..n : s[i] = from + i
    BY PieceType
  <2>2. /\ u \in Seq(Nat) /\ Len(u) = n - k
        /\ \A i \in 1..(n - k) : u[i] = from + k + i
    BY <1>2, PieceType, from + k \in Nat, n - k \in Nat
  <2>. HIDE DEF s, u
  <2>3. \A i \in (k + 1)..n : s[i] \in Nat
    BY <1>2, <2>1
  <2>4. /\ t \in Seq(Nat) /\ Len(t) = n - k
        /\ \A i \in 1..(n - k) : t[i] = s[k + i]
    BY <1>2, <2>3, SubSeqProperties
  <2>5. \A i \in 1..Len(t) : t[i] = u[i]
    BY <1>2, <2>1, <2>2, <2>4
  <2>. HIDE DEF t
  <2>6. t = u
    BY <2>2, <2>4, <2>5, SeqEqual
  <2>. QED  BY <1>2, <2>1, <2>6 DEF s, t, u, Mid
<1>. QED  BY <1>1, <1>2

(* The frames of the stream                                                *)
LEMMA FrameFacts ==
    ASSUME NEW i \in Frames
    PROVE  /\ Start[i] \in Nat /\ Start[i + 1] \in Nat /\ Total \in Nat
           /\ SizeOf(i) \in Int
           /\ Length(i) = IF SizeOf(i) > 0 THEN SizeOf(i) ELSE 0
           /\ Start[i + 1] = Start[i] + HeaderSize + Length(i)
<1>1. Len(Start) \in Nat /\ i \in 1..Len(Start) /\ i + 1 \in 1..Len(Start)
  BY StreamAssumption DEF Frames
<1>2. Start[i] \in Nat /\ Start[i + 1] \in Nat /\ Total \in Nat
  BY <1>1, StreamAssumption DEF Total
<1>3. Start[i] < Total
  BY StreamAssumption
<1>4. SizeOf(i) \in Int
  <2>1. Start[i] + 1 \in 1..Total
    BY <1>2, <1>3
  <2>. QED  BY <2>1, StreamAssumption DEF SizeOf
<1>. QED  BY <1>2, <1>4, StreamAssumption DEF Length

-----------------------------------------------------------------------------
(* The inductive invariant. The bytes of the read that the loop has still  *)
(* to look at are the last ones read, and what came before them of the     *)
(* current frame is in receiveBuffer, or was the size.                     *)

Consumed == received - Len(buffer)

InHeader ==
    /\ size = -1
    /\ Len(receiveBuffer) < HeaderSize
    /\ receiveBuffer = Piece(Start[done + 1], Len(receiveBuffer))
    /\ Consumed = Start[done + 1] + Len(receiveBuffer)

InMessage ==
    /\ size # -1
    /\ done + 1 \in Frames
    /\ size = SizeOf(done + 1)
    /\ Len(receiveBuffer) = 0 \/ Len(receiveBuffer) < size
    /\ receiveBuffer = Piece(Start[done + 1] + HeaderSize, Len(receiveBuffer))
    /\ Consumed = Start[done + 1] + HeaderSize + Len(receiveBuffer)

(* A closed sink is left where it is once its last read is over.           *)
FormerInv ==
    /\ TypeOK
    /\ Len(buffer) <= received
    /\ buffer = Piece(Consumed, Len(buffer))
    /\ ~closed \/ buffer # <<>> => InHeader \/ InMessage

(* Numbers and lengths that the steps below compute with.                  *)
LEMMA Numbers ==
    ASSUME FormerInv
    PROVE  /\ Len(buffer) \in Nat /\ Len(receiveBuffer) \in Nat
           /\ (buffer = <<>> <=> Len(buffer) = 0)
           /\ received \in Nat /\ Total \in Nat /\ received <= Total
           /\ Consumed \in Nat /\ Consumed + Len(buffer) = received
           /\ HeaderSize \in Nat /\ HeaderSize > 0
           /\ done \in Nat /\ size \in Int
           /\ Start[done + 1] \in Nat
<1>1. TypeOK /\ Len(buffer) <= received
  BY DEF FormerInv
<1>2. Total \in Nat /\ Len(Start) \in Nat /\ HeaderSize \in Nat /\ HeaderSize > 0
  BY StreamAssumption DEF Total
<1>3. Len(buffer) \in Nat /\ Len(receiveBuffer) \in Nat
  BY <1>1 DEF TypeOK
<1>4. buffer = <<>> <=> Len(buffer) = 0
  BY <1>1, EmptySeq DEF TypeOK
<1>5. received \in Nat /\ received <= Total /\ done \in Nat /\ size \in Int
  BY <1>1, <1>2 DEF TypeOK
<1>6. Start[done + 1] \in Nat
  <2>1. done + 1 \in 1..Len(Start)
    BY <1>1, <1>2 DEF TypeOK
  <2>. QED  BY <2>1, StreamAssumption
<1>. QED  BY <1>1, <1>2, <1>3, <1>4, <1>5, <1>6 DEF Consumed

(* While there are bytes to look at, the current frame is one of the       *)
(* stream.                                                                 *)
LEMMA CurrentFrame ==
    ASSUME FormerInv, buffer # <<>>
    PROVE  /\ done + 1 \in Frames
           /\ InHeader \/ InMessage
           /\ Consumed < Total
<1>1. Consumed < Total
  BY Numbers
<1>2. InHeader \/ InMessage
  BY DEF FormerInv
<1>3. Start[done + 1] <= Consumed
  BY <1>2, Numbers DEF InHeader, InMessage
<1>4. done \in 0..(Len(Start) - 1) /\ Len(Start) \in Nat
  BY StreamAssumption DEF FormerInv, TypeOK
<1>5. done + 1 # Len(Start)
  BY <1>1, <1>3, Numbers DEF Total
<1>. QED  BY <1>1, <1>2, <1>4, <1>5 DEF Frames

LEMMA FormerInvInit == Init => FormerInv
<1>. SUFFICES ASSUME Init PROVE FormerInv
  OBVIOUS
<1>1. Total \in Nat /\ Len(Start) \in Nat \ {0} /\ Start[1] = 0
  BY StreamAssumption DEF Total
<1>2. TypeOK
  <2>1. <<>> \in Seq(Position) /\ <<>> \in Seq(Seq(Position))
    BY EmptySeq
  <2>2. received \in 0..Total /\ done \in 0..(Len(Start) - 1) /\ size \in Int
    BY <1>1 DEF Init
  <2>. QED  BY <2>1, <2>2 DEF Init, TypeOK
<1>3. Piece(0, 0) = <<>>
  <2>1. Piece(0, 0) \in Seq(Nat) /\ Len(Piece(0, 0)) = 0
    BY PieceType
  <2>. QED  BY <2>1, EmptySeq
<1>4. Len(buffer) = 0 /\ Len(receiveBuffer) = 0 /\ Consumed = 0
  <2>1. buffer \in Seq(Nat) /\ receiveBuffer \in Seq(Nat)
    BY EmptySeq DEF Init
  <2>2. Len(buffer) = 0 /\ Len(receiveBuffer) = 0
    BY <2>1 DEF Init
  <2>3. received = 0
    BY DEF Init
  <2>. QED  BY <2>2, <2>3 DEF Consumed
<1>5. buffer = Piece(Consumed, Len(buffer))
  BY <1>3, <1>4 DEF Init
<1>6. InHeader
  BY <1>1, <1>3, <1>4, StreamAssumption DEF Init, InHeader
<1>. QED  BY <1>1, <1>2, <1>4, <1>5, <1>6 DEF FormerInv, Init

LEMMA ReadStep == FormerInv /\ ReadDataFromChild => FormerInv'
<1>. SUFFICES ASSUME FormerInv, ReadDataFromChild PROVE FormerInv'
  OBVIOUS
<1>1. PICK n \in 1..(Total - received) :
          buffer' = Piece(received, n) /\ received' = received + n
  BY DEF ReadDataFromChild
<1>2. /\ buffer = <<>> /\ ~closed
      /\ UNCHANGED <<size, receiveBuffer, done, closed, messages>>
  BY DEF ReadDataFromChild
<1>3. n \in Nat /\ received + n <= Total /\ received + n \in Nat
  BY <1>1, Numbers
<1>4. buffer' \in Seq(Position) /\ Len(buffer') = n
  BY <1>1, <1>3, Numbers, PieceType
<1>5. TypeOK'
  BY <1>1, <1>2, <1>3, <1>4, Numbers DEF FormerInv, TypeOK, Position
<1>6. Consumed' = received /\ Consumed = received
  BY <1>1, <1>2, <1>3, <1>4, Numbers DEF Consumed
<1>7. buffer' = Piece(Consumed', Len(buffer'))
  BY <1>1, <1>4, <1>6
<1>8. InHeader \/ InMessage
  BY <1>2 DEF FormerInv
<1>9. InHeader' \/ InMessage'
  BY <1>2, <1>6, <1>8 DEF InHeader, InMessage
<1>. QED  BY <1>1, <1>3, <1>4, <1>5, <1>7, <1>9, Numbers DEF FormerInv

(* What the loop takes off the bytes of the read, and adds to those kept.  *)
LEMMA TakenOff ==
    ASSUME FormerInv, NEW n \in Int, n <= Len(buffer)
    PROVE  LET k == IF n > 0 THEN n ELSE 0
           IN  /\ k \in Nat /\ k <= Len(buffer)
               /\ Left(buffer, n) = Piece(Consumed, k)
               /\ Mid(buffer, n) = Piece(Consumed + k, Len(buffer) - k)
               /\ Mid(buffer, n) \in Seq(Position)
               /\ Len(Mid(buffer, n)) = Len(buffer) - k
               /\ received - Len(Mid(buffer, n)) = Consumed + k
<1>. DEFINE k == IF n > 0 THEN n ELSE 0
<1>1. buffer = Piece(Consumed, Len(buffer))
  BY DEF FormerInv
<1>2. k \in Nat /\ k <= Len(buffer)
  BY Numbers
<1>3. Left(buffer, n) = Piece(Consumed, k)
  BY <1>1, Numbers, LeftPiece
<1>4. Mid(buffer, n) = Piece(Consumed + k, Len(buffer) - k)
  <2>1. Mid(buffer, n) = IF n < 0 THEN Piece(Consumed, Len(buffer))
                         ELSE Piece(Consumed + n, Len(buffer) - n)
    <3>1. Mid(Piece(Consumed, Len(buffer)), n) =
              IF n < 0 THEN Piece(Consumed, Len(buffer))
              ELSE Piece(Consumed + n, Len(buffer) - n)
      BY Numbers, MidPiece
    <3>. QED  BY <1>1, <3>1
  <2>2. CASE n < 0
    BY <2>1, <2>2, Numbers, Consumed + k = Consumed, Len(buffer) - k = Len(buffer)
  <2>3. CASE n >= 0
    BY <2>1, <2>3, k = n
  <2>. QED  BY <2>2, <2>3
<1>. HIDE DEF k
<1>5. /\ Consumed + k \in Nat /\ Len(buffer) - k \in Nat
      /\ Consumed + k + (Len(buffer) - k) <= Total
      /\ received - (Len(buffer) - k) = Consumed + k
  BY <1>2, Numbers
<1>6. Mid(buffer, n) \in Seq(Position) /\ Len(Mid(buffer, n)) = Len(buffer) - k
  BY <1>4, <1>5, PieceType
<1>. QED  BY <1>2, <1>3, <1>4, <1>5, <1>6 DEF k

(* Bytes that are all kept for the next read.                              *)
LEMMA AllKept ==
    ASSUME FormerInv, buffer' = <<>>, received' = received,
           NEW from \in Nat,
           receiveBuffer = Piece(from, Len(receiveBuffer)),
           Consumed = from + Len(receiveBuffer),
           receiveBuffer' = receiveBuffer \o buffer
    PROVE  /\ Len(receiveBuffer') = Len(receiveBuffer) + Len(buffer)
           /\ receiveBuffer' = Piece(from, Len(receiveBuffer'))
           /\ receiveBuffer' \in Seq(Position)
           /\ Consumed' = from + Len(receiveBuffer')
           /\ buffer' = Piece(Consumed', Len(buffer'))
           /\ Len(buffer') = 0
<1>1. receiveBuffer \in Seq(Position) /\ buffer \in Seq(Position)
  BY DEF FormerInv, TypeOK
<1>2. /\ receiveBuffer' \in Seq(Position)
      /\ Len(receiveBuffer') = Len(receiveBuffer) + Len(buffer)
  BY <1>1, ConcatProperties
<1>3. buffer = Piece(from + Len(receiveBuffer), Len(buffer))
  BY DEF FormerInv
<1>4. receiveBuffer' = Piece(from, Len(receiveBuffer) + Len(buffer))
  <2>1. Piece(from, Len(receiveBuffer)) \o Piece(from + Len(receiveBuffer), Len(buffer))
          = Piece(from, Len(receiveBuffer) + Len(buffer))
    BY PieceConcat, Numbers
  <2>. QED  BY <1>3, <2>1
<1>5. Len(buffer') = 0
  <2>1. <<>> \in Seq(Nat)
    BY EmptySeq
  <2>. QED  BY <2>1, EmptySeq
<1>6. Consumed' = received
  BY <1>5, Numbers DEF Consumed
<1>7. Piece(received, 0) = <<>>
  <2>1. Piece(received, 0) \in Seq(Nat) /\ Len(Piece(received, 0)) = 0
    BY PieceType, Numbers
  <2>. QED  BY <2>1, EmptySeq
<1>. QED  BY <1>2, <1>4, <1>5, <1>6, <1>7, Numbers

LEMMA KeepHeaderStep == FormerInv /\ KeepHeader => FormerInv'
<1>. SUFFICES ASSUME FormerInv, KeepHeader PROVE FormerInv'
  OBVIOUS
<1>1. /\ buffer # <<>> /\ size = -1
      /\ Len(receiveBuffer) + Len(buffer) < HeaderSize
      /\ receiveBuffer' = receiveBuffer \o buffer /\ buffer' = <<>>
      /\ UNCHANGED <<received, size, done, closed, messages>>
  BY DEF KeepHeader
<1>2. InHeader
  BY <1>1, CurrentFrame DEF InMessage
<1>3. /\ Len(receiveBuffer') = Len(receiveBuffer) + Len(buffer)
      /\ receiveBuffer' = Piece(Start[done + 1], Len(receiveBuffer'))
      /\ receiveBuffer' \in Seq(Position)
      /\ Consumed' = Start[done + 1] + Len(receiveBuffer')
      /\ buffer' = Piece(Consumed', Len(buffer'))
      /\ Len(buffer') = 0
  BY <1>1, <1>2, AllKept, Numbers DEF InHeader
<1>4. TypeOK'
  BY <1>1, <1>3, EmptySeq DEF FormerInv, TypeOK
<1>5. InHeader'
  BY <1>1, <1>3 DEF InHeader
<1>. QED  BY <1>1, <1>3, <1>4, <1>5, Numbers DEF FormerInv

LEMMA KeepMessageStep == FormerInv /\ KeepMessage => FormerInv'
<1>. SUFFICES ASSUME FormerInv, KeepMessage PROVE FormerInv'
  OBVIOUS
<1>1. /\ buffer # <<>> /\ size # -1
      /\ ~(Len(receiveBuffer) + Len(buffer) >= size)
      /\ receiveBuffer' = receiveBuffer \o buffer /\ buffer' = <<>>
      /\ UNCHANGED <<received, size, done, closed, messages>>
  BY DEF KeepMessage, WholeMessage
<1>2. InMessage
  BY <1>1, CurrentFrame DEF InHeader
<1>3. /\ Len(receiveBuffer') = Len(receiveBuffer) + Len(buffer)
      /\ receiveBuffer' = Piece(Start[done + 1] + HeaderSize, Len(receiveBuffer'))
      /\ receiveBuffer' \in Seq(Position)
      /\ Consumed' = Start[done + 1] + HeaderSize + Len(receiveBuffer')
      /\ buffer' = Piece(Consumed', Len(buffer'))
      /\ Len(buffer') = 0
  <2>. DEFINE from == Start[done + 1] + HeaderSize
  <2>1. /\ from \in Nat
        /\ receiveBuffer = Piece(from, Len(receiveBuffer))
        /\ Consumed = from + Len(receiveBuffer)
    <3>1. from \in Nat
      BY Numbers
    <3>2. /\ receiveBuffer = Piece(from, Len(receiveBuffer))
          /\ Consumed = from + Len(receiveBuffer)
      BY <1>2 DEF InMessage
    <3>. QED  BY <3>1, <3>2
  <2>. HIDE DEF from
  <2>2. /\ Len(receiveBuffer') = Len(receiveBuffer) + Len(buffer)
        /\ receiveBuffer' = Piece(from, Len(receiveBuffer'))
        /\ receiveBuffer' \in Seq(Position)
        /\ Consumed' = from + Len(receiveBuffer')
        /\ buffer' = Piece(Consumed', Len(buffer'))
        /\ Len(buffer') = 0
    BY <1>1, <2>1, AllKept
  <2>. QED  BY <2>2 DEF from
<1>4. TypeOK'
  BY <1>1, <1>3, EmptySeq DEF FormerInv, TypeOK
<1>5. InMessage'
  <2>1. size' = size /\ done' = done
    BY <1>1
  <2>2. Len(receiveBuffer') < size'
    BY <1>1, <1>3, <2>1, Numbers
  <2>3. /\ size # -1 /\ done + 1 \in Frames /\ size = SizeOf(done + 1)
    BY <1>2 DEF InMessage
  <2>. QED  BY <1>3, <2>1, <2>2, <2>3 DEF InMessage
<1>. QED  BY <1>1, <1>3, <1>4, <1>5, Numbers DEF FormerInv

(* The size of the current frame, once its header is there.                *)
LEMMA SizeRead ==
    ASSUME FormerInv, ReadSize
    PROVE  /\ done + 1 \in Frames
           /\ size' = SizeOf(done + 1)
           /\ done' = IF size' = -1 THEN done + 1 ELSE done
           /\ receiveBuffer' = <<>>
           /\ buffer' \in Seq(Position)
           /\ Len(buffer') <= received
           /\ buffer' = Piece(Consumed', Len(buffer'))
           /\ Consumed' = Start[done + 1] + HeaderSize
           /\ Consumed' <= received
           /\ UNCHANGED <<received, closed, messages>>
<1>. DEFINE n == HeaderSize - Len(receiveBuffer)
            header == receiveBuffer \o Left(buffer, n)
<1>1. /\ buffer # <<>> /\ size = -1
      /\ Len(receiveBuffer) + Len(buffer) >= HeaderSize
      /\ size' = Decoded(header)
      /\ done' = IF Decoded(header) = -1 THEN done + 1 ELSE done
      /\ buffer' = Mid(buffer, n)
      /\ receiveBuffer' = <<>>
      /\ UNCHANGED <<received, closed, messages>>
  BY DEF ReadSize
<1>2. done + 1 \in Frames
  BY <1>1, CurrentFrame
<1>3. /\ Len(receiveBuffer) < HeaderSize
      /\ receiveBuffer = Piece(Start[done + 1], Len(receiveBuffer))
      /\ Consumed = Start[done + 1] + Len(receiveBuffer)
  BY <1>1, CurrentFrame DEF InHeader, InMessage
<1>4. n \in Nat /\ n > 0 /\ n <= Len(buffer) /\ Len(receiveBuffer) + n = HeaderSize
  BY <1>1, <1>3, Numbers
<1>. HIDE DEF n
<1>5. /\ Left(buffer, n) = Piece(Consumed, n)
      /\ Mid(buffer, n) = Piece(Consumed + n, Len(buffer) - n)
      /\ Mid(buffer, n) \in Seq(Position)
      /\ Len(Mid(buffer, n)) = Len(buffer) - n
      /\ received - Len(Mid(buffer, n)) = Consumed + n
  BY <1>4, TakenOff
<1>6. header = Piece(Start[done + 1], HeaderSize)
  <2>1. Piece(Start[done + 1], Len(receiveBuffer)) \o Piece(Start[done + 1] + Len(receiveBuffer), n)
          = Piece(Start[done + 1], Len(receiveBuffer) + n)
    <3>1. Start[done + 1] \in Nat /\ Len(receiveBuffer) \in Nat /\ n \in Nat
      BY <1>4, Numbers
    <3>. QED  BY <3>1, PieceConcat
  <2>. QED  BY <1>3, <1>4, <1>5, <2>1
<1>7. Decoded(header) = SizeOf(done + 1)
  <2>1. /\ header \in Seq(Nat) /\ Len(header) = HeaderSize
        /\ header[1] = Start[done + 1] + 1
    <3>1. 1 \in 1..HeaderSize
      BY Numbers
    <3>2. /\ Piece(Start[done + 1], HeaderSize) \in Seq(Nat)
          /\ Len(Piece(Start[done + 1], HeaderSize)) = HeaderSize
          /\ \A k \in 1..HeaderSize :
                Piece(Start[done + 1], HeaderSize)[k] = Start[done + 1] + k
      BY PieceType, Numbers
    <3>. QED  BY <1>6, <3>1, <3>2
  <2>. HIDE DEF header
  <2>2. Head(header) = header[1]
    BY <2>1, Numbers
  <2>. QED  BY <2>1, <2>2 DEF Decoded, SizeOf
<1>8. Consumed' = Consumed + n
  BY <1>1, <1>5 DEF Consumed
<1>9. Consumed + n = Start[done + 1] + HeaderSize /\ Consumed + n <= received
  <2>1. /\ Consumed \in Nat /\ Len(receiveBuffer) \in Nat /\ Start[done + 1] \in Nat
        /\ received \in Nat /\ Len(buffer) \in Nat /\ HeaderSize \in Nat
        /\ Consumed + Len(buffer) = received
    BY Numbers
  <2>. QED  BY <1>3, <1>4, <2>1
<1>10. Len(buffer') = Len(buffer) - n /\ Len(buffer') <= received
  BY <1>1, <1>4, <1>5, Numbers
<1>. HIDE DEF header
<1>. QED  BY <1>1, <1>2, <1>5, <1>7, <1>8, <1>9, <1>10

LEMMA ReadSizeStep == FormerInv /\ ReadSize => FormerInv'
<1>. SUFFICES ASSUME FormerInv, ReadSize PROVE FormerInv'
  OBVIOUS
<1>1. /\ done + 1 \in Frames
      /\ size' = SizeOf(done + 1)
      /\ done' = IF size' = -1 THEN done + 1 ELSE done
      /\ receiveBuffer' = <<>>
      /\ buffer' \in Seq(Position)
      /\ Len(buffer') <= received
      /\ buffer' = Piece(Consumed', Len(buffer'))
      /\ Consumed' = Start[done + 1] + HeaderSize
      /\ UNCHANGED <<received, closed, messages>>
  BY SizeRead
<1>2. Len(receiveBuffer') = 0 /\ receiveBuffer' \in Seq(Position)
  BY <1>1, EmptySeq
<1>3. TypeOK'
  <2>1. size' \in Int
    BY <1>1, FrameFacts
  <2>2. done' \in 0..(Len(Start) - 1)
    <3>1. Len(Start) \in Nat /\ done \in Nat
      BY StreamAssumption, Numbers
    <3>2. done + 1 \in 1..(Len(Start) - 1)
      BY <1>1 DEF Frames
    <3>. QED  BY <1>1, <3>1, <3>2
  <2>. QED  BY <1>1, <1>2, <2>1, <2>2 DEF FormerInv, TypeOK
<1>4. ASSUME NEW from \in Nat
      PROVE  receiveBuffer' = Piece(from, Len(receiveBuffer'))
  <2>1. Piece(from, 0) \in Seq(Nat) /\ Len(Piece(from, 0)) = 0
    BY PieceType
  <2>. QED  BY <1>1, <1>2, <2>1, EmptySeq
<1>5. CASE size' = -1
  <2>1. Length(done + 1) = 0
    BY <1>1, <1>5, FrameFacts
  <2>2. Start[done' + 1] = Start[done + 1] + HeaderSize /\ Start[done' + 1] \in Nat
    <3>1. Start[done + 1 + 1] = Start[done + 1] + HeaderSize + 0
      BY <1>1, <2>1, FrameFacts
    <3>. QED  BY <1>1, <1>5, <3>1, Numbers
  <2>3. InHeader'
    <3>1. receiveBuffer' = Piece(Start[done' + 1], Len(receiveBuffer'))
      BY <1>4, <2>2
    <3>2. Len(receiveBuffer') < HeaderSize
      BY <1>2, Numbers
    <3>3. Consumed' = Start[done' + 1] + Len(receiveBuffer')
      BY <1>1, <1>2, <2>2
    <3>. QED  BY <1>5, <3>1, <3>2, <3>3 DEF InHeader
  <2>. QED  BY <1>1, <1>3, <2>3 DEF FormerInv
<1>6. CASE size' # -1
  <2>1. done' = done /\ Start[done + 1] + HeaderSize \in Nat
    BY <1>1, <1>6, Numbers
  <2>2. InMessage'
    BY <1>1, <1>2, <1>4, <1>6, <2>1, Numbers DEF InMessage
  <2>. QED  BY <1>1, <1>3, <2>2 DEF FormerInv
<1>. QED  BY <1>5, <1>6

(* What is handed up is the content of the current frame.                  *)
LEMMA HandedUp ==
    ASSUME FormerInv, AppendToBuffer
    PROVE  /\ done + 1 \in Frames
           /\ SizeOf(done + 1) # -1
           /\ messages' = Append(messages, Content(done + 1))
           /\ Content(done + 1) \in Seq(Position)
           /\ done' = done + 1 /\ size' = -1 /\ receiveBuffer' = <<>>
           /\ received' = received
           /\ closed' \in {closed, TRUE}
           /\ buffer' \in Seq(Position)
           /\ Len(buffer') <= received
           /\ buffer' = Piece(Consumed', Len(buffer'))
           /\ Consumed' = Start[done + 2]
           /\ Start[done + 2] <= received
           /\ Start[done + 2] \in Nat
<1>. DEFINE n == size - Len(receiveBuffer)
            k == IF n > 0 THEN n ELSE 0
            from == Start[done + 1] + HeaderSize
<1>1. /\ buffer # <<>> /\ size # -1
      /\ Len(receiveBuffer) + Len(buffer) >= size
      /\ messages' = Append(messages, receiveBuffer \o Left(buffer, n))
      /\ buffer' = Mid(buffer, n)
      /\ size' = -1 /\ receiveBuffer' = <<>> /\ done' = done + 1
      /\ closed' \in {closed, TRUE} /\ received' = received
  BY DEF AppendToBuffer, WholeMessage
<1>2. /\ done + 1 \in Frames
      /\ size = SizeOf(done + 1)
      /\ Len(receiveBuffer) = 0 \/ Len(receiveBuffer) < size
      /\ receiveBuffer = Piece(from, Len(receiveBuffer))
      /\ Consumed = from + Len(receiveBuffer)
  BY <1>1, CurrentFrame DEF InHeader, InMessage
<1>3. /\ Len(receiveBuffer) \in Nat /\ Len(buffer) \in Nat /\ size \in Int
      /\ Consumed \in Nat /\ received \in Nat /\ Consumed + Len(buffer) = received
      /\ from \in Nat /\ received <= Total /\ Total \in Nat /\ done \in Nat
  BY Numbers
<1>4. n \in Int /\ n <= Len(buffer) /\ k \in Nat
      /\ Len(receiveBuffer) + k = Length(done + 1)
  <2>1. Length(done + 1) = IF size > 0 THEN size ELSE 0
    BY <1>2, FrameFacts
  <2>2. /\ Len(receiveBuffer) \in Nat /\ Len(buffer) \in Nat /\ size \in Int
        /\ Len(receiveBuffer) + Len(buffer) >= size
        /\ Len(receiveBuffer) = 0 \/ Len(receiveBuffer) < size
    BY <1>1, <1>2, <1>3
  <2>. QED  BY <2>1, <2>2
<1>5. /\ k <= Len(buffer)
      /\ Left(buffer, n) = Piece(Consumed, k)
      /\ Mid(buffer, n) = Piece(Consumed + k, Len(buffer) - k)
      /\ Mid(buffer, n) \in Seq(Position)
      /\ Len(Mid(buffer, n)) = Len(buffer) - k
      /\ received - Len(Mid(buffer, n)) = Consumed + k
  BY <1>4, TakenOff
<1>6. Start[done + 2] = from + Length(done + 1) /\ Start[done + 2] \in Nat
  <2>1. done + 1 + 1 = done + 2
    BY <1>3
  <2>. QED  BY <1>2, <2>1, FrameFacts
<1>7. Content(done + 1) = Piece(from, Length(done + 1))
  BY DEF Content
<1>. HIDE DEF n, k, from
<1>8. receiveBuffer \o Left(buffer, n) = Content(done + 1)
  <2>1. Piece(from, Len(receiveBuffer)) \o Piece(from + Len(receiveBuffer), k)
          = Piece(from, Len(receiveBuffer) + k)
    <3>1. from \in Nat /\ Len(receiveBuffer) \in Nat /\ k \in Nat
      BY <1>3, <1>4
    <3>. QED  BY <3>1, PieceConcat
  <2>. QED  BY <1>2, <1>4, <1>5, <1>7, <2>1
<1>9. /\ Consumed + k = Start[done + 2] /\ Consumed + k <= received
      /\ from + Length(done + 1) <= Total
      /\ Len(buffer) - k <= received
  <2>1. /\ Len(receiveBuffer) \in Nat /\ Len(buffer) \in Nat
        /\ Consumed \in Nat /\ received \in Nat /\ Consumed + Len(buffer) = received
        /\ from \in Nat /\ received <= Total /\ Total \in Nat
        /\ k \in Nat /\ k <= Len(buffer)
        /\ Consumed = from + Len(receiveBuffer)
        /\ Len(receiveBuffer) + k = Length(done + 1)
    BY <1>2, <1>3, <1>4, <1>5
  <2>2. Consumed + k <= received /\ Len(buffer) - k <= received
    BY <2>1
  <2>3. Consumed + k = from + Length(done + 1)
    BY <2>1
  <2>. QED  BY <1>6, <2>1, <2>2, <2>3
<1>10. Content(done + 1) \in Seq(Position)
  <2>1. Length(done + 1) \in Nat
    BY <1>3, <1>4
  <2>. QED  BY <1>3, <1>7, <1>9, <2>1, PieceType
<1>11. Consumed' = Consumed + k
  BY <1>1, <1>5 DEF Consumed
<1>. QED  BY <1>1, <1>2, <1>5, <1>6, <1>8, <1>9, <1>10, <1>11

LEMMA AppendStep == FormerInv /\ AppendToBuffer => FormerInv'
<1>. SUFFICES ASSUME FormerInv, AppendToBuffer PROVE FormerInv'
  OBVIOUS
<1>1. /\ done + 1 \in Frames
      /\ messages' = Append(messages, Content(done + 1))
      /\ Content(done + 1) \in Seq(Position)
      /\ done' = done + 1 /\ size' = -1 /\ receiveBuffer' = <<>>
      /\ received' = received
      /\ closed' \in {closed, TRUE}
      /\ buffer' \in Seq(Position)
      /\ Len(buffer') <= received
      /\ buffer' = Piece(Consumed', Len(buffer'))
      /\ Consumed' = Start[done + 2]
      /\ Start[done + 2] \in Nat
  BY HandedUp
<1>2. Len(receiveBuffer') = 0 /\ receiveBuffer' \in Seq(Position)
  BY <1>1, EmptySeq
<1>3. TypeOK'
  <2>1. done' \in 0..(Len(Start) - 1)
    <3>1. Len(Start) \in Nat /\ done \in Nat
      BY StreamAssumption, Numbers
    <3>2. done + 1 \in 1..(Len(Start) - 1)
      BY <1>1 DEF Frames
    <3>. QED  BY <1>1, <3>1, <3>2
  <2>2. messages' \in Seq(Seq(Position))
    BY <1>1 DEF FormerInv, TypeOK
  <2>3. closed' \in BOOLEAN
    BY <1>1 DEF FormerInv, TypeOK
  <2>. QED  BY <1>1, <1>2, <2>1, <2>2, <2>3 DEF FormerInv, TypeOK
<1>4. InHeader'
  <2>1. Start[done' + 1] = Start[done + 2]
    BY <1>1, Numbers
  <2>2. receiveBuffer' = Piece(Start[done' + 1], Len(receiveBuffer'))
    <3>1. /\ Piece(Start[done + 2], 0) \in Seq(Nat)
          /\ Len(Piece(Start[done + 2], 0)) = 0
      BY <1>1, PieceType
    <3>. QED  BY <1>1, <1>2, <2>1, <3>1, EmptySeq
  <2>3. Len(receiveBuffer') < HeaderSize
    BY <1>2, Numbers
  <2>4. Consumed' = Start[done' + 1] + Len(receiveBuffer')
    BY <1>1, <1>2, <2>1
  <2>. QED  BY <1>1, <2>2, <2>3, <2>4 DEF InHeader
<1>. QED  BY <1>1, <1>3, <1>4 DEF FormerInv

LEMMA CloseStep == FormerInv /\ CloseThisSink => FormerInv'
<1>. SUFFICES ASSUME FormerInv, CloseThisSink PROVE FormerInv'
  OBVIOUS
<1>1. /\ buffer = <<>> /\ closed' = TRUE /\ size' = -1 /\ receiveBuffer' = <<>>
      /\ UNCHANGED <<received, buffer, done, messages>>
  BY DEF CloseThisSink
<1>2. TypeOK'
  BY <1>1, EmptySeq DEF FormerInv, TypeOK
<1>3. Consumed' = Consumed
  BY <1>1 DEF Consumed
<1>. QED  BY <1>1, <1>2, <1>3 DEF FormerInv

LEMMA FormerInvStep == FormerInv /\ [Next]_vars => FormerInv'
<1>. SUFFICES ASSUME FormerInv, [Next]_vars PROVE FormerInv'
  OBVIOUS
<1>1. CASE ReadDataFromChild
  BY <1>1, ReadStep
<1>2. CASE KeepHeader
  BY <1>2, KeepHeaderStep
<1>3. CASE ReadSize
  BY <1>3, ReadSizeStep
<1>4. CASE AppendToBuffer
  BY <1>4, AppendStep
<1>5. CASE KeepMessage
  BY <1>5, KeepMessageStep
<1>6. CASE CloseThisSink
  BY <1>6, CloseStep
<1>7. CASE UNCHANGED vars
  BY <1>7 DEF vars, FormerInv, TypeOK, InHeader, InMessage, Consumed
<1>. QED
  BY <1>1, <1>2, <1>3, <1>4, <1>5, <1>6, <1>7 DEF Next, TransformReadData

LEMMA FormerInvariant == Spec => []FormerInv
<1>. QED  BY FormerInvInit, FormerInvStep, PTL DEF Spec

-----------------------------------------------------------------------------
(* The theorems                                                            *)

(* Every variable keeps its type, for every stream and every way the bytes *)
(* are cut.                                                                *)
THEOREM FormerTypeCorrect == Spec => []TypeOK
<1>1. FormerInv => TypeOK
  BY DEF FormerInv
<1>. QED  BY <1>1, FormerInvariant, PTL

(* Whenever the event loop waits, every message whose bytes have all been  *)
(* read has been handed up.                                                *)
THEOREM FormerCatchesUp == Spec => []IdleIsCaughtUp
<1>1. ASSUME FormerInv, buffer = <<>>, ~closed, done + 1 \in Frames
      PROVE  \/ received < Start[done + 2]
             \/ received = Start[done + 2] /\ size # -1 /\ size <= 0
  <2>1. /\ Len(receiveBuffer) \in Nat /\ size \in Int /\ received \in Nat
        /\ Consumed = received /\ HeaderSize \in Nat /\ done \in Nat
    BY <1>1, Numbers
  <2>2. /\ Start[done + 1] \in Nat /\ SizeOf(done + 1) \in Int
        /\ Length(done + 1) = IF SizeOf(done + 1) > 0 THEN SizeOf(done + 1) ELSE 0
        /\ Start[done + 1 + 1] = Start[done + 1] + HeaderSize + Length(done + 1)
    BY <1>1, FrameFacts
  <2>3. Start[done + 2] = Start[done + 1] + HeaderSize + Length(done + 1)
    BY <2>1, <2>2
  <2>4. CASE InHeader
    BY <2>1, <2>2, <2>3, <2>4 DEF InHeader
  <2>5. CASE InMessage
    BY <2>1, <2>2, <2>3, <2>5 DEF InMessage
  <2>. QED  BY <1>1, <2>4, <2>5 DEF FormerInv
<1>2. FormerInv => IdleIsCaughtUp
  BY <1>1 DEF IdleIsCaughtUp
<1>. QED  BY <1>2, FormerInvariant, PTL

(* However the bytes are cut, what is handed up are the messages of the    *)
(* stream, whole, in order, none twice and none skipped.                   *)
THEOREM FormerRefinement == Spec => ImplementsFraming
<1>1. Init => Abstract!Init
  BY DEF Init, Abstract!Init
<1>2. FormerInv /\ [Next]_vars => [Abstract!Next]_(Abstract!vars)
  <2>. SUFFICES ASSUME FormerInv, [Next]_vars
                PROVE  [Abstract!Next]_(Abstract!vars)
    OBVIOUS
  <2>1. CASE ReadDataFromChild
    <3>1. received' \in (received + 1)..Total /\ UNCHANGED <<done, messages>>
      BY <2>1, Numbers DEF ReadDataFromChild
    <3>. QED  BY <3>1 DEF Abstract!Next, Abstract!Arrive, Abstract!Total, Total
  <2>2. CASE ReadSize
    <3>1. /\ done + 1 \in Frames /\ size' = SizeOf(done + 1)
          /\ done' = IF size' = -1 THEN done + 1 ELSE done
          /\ Consumed' = Start[done + 1] + HeaderSize /\ Consumed' <= received
          /\ UNCHANGED <<received, messages>>
      BY <2>2, SizeRead
    <3>2. CASE size' = -1
      <4>1. Start[done + 2] <= received
        <5>1. Length(done + 1) = 0 /\ done + 1 + 1 = done + 2
          BY <3>1, <3>2, FrameFacts, Numbers
        <5>2. Start[done + 1 + 1] = Start[done + 1] + HeaderSize + 0
          BY <3>1, <5>1, FrameFacts
        <5>. QED  BY <3>1, <5>1, <5>2, Numbers
      <4>. QED
        BY <3>1, <3>2, <4>1
        DEF Abstract!Next, Abstract!HandUp, Abstract!Frames, Frames, Abstract!SizeOf, SizeOf
    <3>3. CASE size' # -1
      BY <3>1, <3>3 DEF Abstract!vars
    <3>. QED  BY <3>2, <3>3
  <2>3. CASE AppendToBuffer
    <3>1. /\ done + 1 \in Frames /\ SizeOf(done + 1) # -1
          /\ messages' = Append(messages, Content(done + 1))
          /\ done' = done + 1 /\ received' = received
          /\ Start[done + 2] <= received
      BY <2>3, HandedUp
    <3>2. Content(done + 1) = Abstract!Content(done + 1)
      BY DEF Content, Abstract!Content, Length, Abstract!Length, SizeOf, Abstract!SizeOf,
             Piece, Abstract!Piece
    <3>. QED
      BY <3>1, <3>2
      DEF Abstract!Next, Abstract!HandUp, Abstract!Frames, Frames, Abstract!SizeOf, SizeOf
  <2>4. CASE KeepHeader \/ KeepMessage \/ CloseThisSink \/ UNCHANGED vars
    BY <2>4 DEF KeepHeader, KeepMessage, CloseThisSink, vars, Abstract!vars
  <2>. QED  BY <2>1, <2>2, <2>3, <2>4 DEF Next, TransformReadData
<1>. QED
  BY <1>1, <1>2, FormerInvariant, PTL DEF Spec, ImplementsFraming, Abstract!Spec
=============================================================================
