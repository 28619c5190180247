---------------------------- MODULE MessageFormer ----------------------------
(***************************************************************************)
(* MessageFormer: the sink that cuts the bytes read from a client's socket *)
(* into messages. A read brings as many bytes as have arrived, however the *)
(* client wrote them; each frame is a size of four bytes and a message.    *)
(*                                                                         *)
(* A QByteArray is the sequence of the positions of its bytes in the       *)
(* stream. The stream is any one: every sequence of bytes reads as frames, *)
(* those that announce a size of 0 or less being empty.                    *)
(*                                                                         *)
(* A definition Mut... is a plausible slip in the one that follows it, for *)
(* comparison; no specification uses it.                                   *)
(***************************************************************************)
EXTENDS Stream

VARIABLES
    received,      \* how many bytes have been read from the socket
    buffer,        \* buffer of transformReadData
    size,          \* m_size
    receiveBuffer, \* m_receiveBuffer
    done,          \* how many frames have been dealt with
    closed,        \* whether the sink was closed
    messages       \* the messages handed up

vars == <<received, buffer, size, receiveBuffer, done, closed, messages>>

(* QByteArray::left and mid                                                *)
Left(bytes, n) == SubSeq(bytes, 1, n)

Mid(bytes, n) == IF n < 0 THEN bytes ELSE SubSeq(bytes, n + 1, Len(bytes))

(* qFromBigEndian of the four bytes of a header                            *)
Decoded(bytes) == Value[Head(bytes)]

-----------------------------------------------------------------------------
Init ==
    /\ received = 0
    /\ buffer = <<>>
    /\ size = -1
    /\ receiveBuffer = <<>>
    /\ done = 0
    /\ closed = FALSE
    /\ messages = <<>>

(* The socket is read. Nobody does once the sink is closed, and no read    *)
(* begins while another is in progress.                                    *)
ReadDataFromChild ==
    /\ buffer = <<>>
    /\ ~closed
    /\ \E n \in 1..(Total - received) :
          /\ buffer' = Piece(received, n)
          /\ received' = received + n
    /\ UNCHANGED <<size, receiveBuffer, done, closed, messages>>

(***************************************************************************)
(* The loop of transformReadData                                           *)
(***************************************************************************)
KeepHeader ==
    /\ buffer # <<>>
    /\ size = -1
    /\ Len(receiveBuffer) + Len(buffer) < HeaderSize
    /\ receiveBuffer' = receiveBuffer \o buffer
    /\ buffer' = <<>>
    /\ UNCHANGED <<received, size, done, closed, messages>>

(* A size of 0 or less is reported by "emit SinkError(WrongFormat)", which *)
(* only names a value of the enumeration: nothing is emitted.              *)
MutReadSizeChecksFirst ==
    /\ buffer # <<>>
    /\ size = -1
    /\ Len(receiveBuffer) + Len(buffer) >= HeaderSize
    /\ LET header == receiveBuffer \o Left(buffer, HeaderSize - Len(receiveBuffer))
       IN  IF Decoded(header) <= 0 THEN UNCHANGED <<size, buffer>>
           ELSE /\ size' = Decoded(header)
                /\ buffer' = Mid(buffer, HeaderSize - Len(receiveBuffer))
    /\ receiveBuffer' = <<>>
    /\ UNCHANGED <<received, done, closed, messages>>

ReadSize ==
    /\ buffer # <<>>
    /\ size = -1
    /\ Len(receiveBuffer) + Len(buffer) >= HeaderSize
    /\ LET header == receiveBuffer \o Left(buffer, HeaderSize - Len(receiveBuffer))
       IN  /\ size' = Decoded(header)
           /\ done' = IF Decoded(header) = -1 THEN done + 1 ELSE done
    /\ buffer' = Mid(buffer, HeaderSize - Len(receiveBuffer))
    /\ receiveBuffer' = <<>>
    /\ UNCHANGED <<received, closed, messages>>

MutWholeWithNext == Len(receiveBuffer) + Len(buffer) > size

WholeMessage == Len(receiveBuffer) + Len(buffer) >= size

(* The part that reads the message may close the sink at once:             *)
(* closeThisSink then runs inside the loop.                                *)
MutHandUpKeepsSize ==
    /\ buffer # <<>>
    /\ size # -1
    /\ WholeMessage
    /\ LET n == size - Len(receiveBuffer)
       IN  /\ messages' = Append(messages, receiveBuffer \o Left(buffer, n))
           /\ buffer' = Mid(buffer, n)
    /\ size' = IF size > 0 THEN -1 ELSE size
    /\ receiveBuffer' = <<>>
    /\ done' = done + 1
    /\ closed' \in {closed, TRUE}
    /\ UNCHANGED received

AppendToBuffer ==
    /\ buffer # <<>>
    /\ size # -1
    /\ WholeMessage
    /\ LET n == size - Len(receiveBuffer)
       IN  /\ messages' = Append(messages, receiveBuffer \o Left(buffer, n))
           /\ buffer' = Mid(buffer, n)
    /\ size' = -1
    /\ receiveBuffer' = <<>>
    /\ done' = done + 1
    /\ closed' \in {closed, TRUE}
    /\ UNCHANGED received

MutKeepMessageForgets ==
    /\ buffer # <<>>
    /\ size # -1
    /\ ~WholeMessage
    /\ receiveBuffer' = buffer
    /\ buffer' = <<>>
    /\ UNCHANGED <<received, size, done, closed, messages>>

KeepMessage ==
    /\ buffer # <<>>
    /\ size # -1
    /\ ~WholeMessage
    /\ receiveBuffer' = receiveBuffer \o buffer
    /\ buffer' = <<>>
    /\ UNCHANGED <<received, size, done, closed, messages>>

TransformReadData == KeepHeader \/ ReadSize \/ AppendToBuffer \/ KeepMessage

(* closeThisSink, from the event loop: the client disconnects or the       *)
(* session ends.                                                           *)
CloseThisSink ==
    /\ buffer = <<>>
    /\ ~closed
    /\ closed' = TRUE
    /\ size' = -1
    /\ receiveBuffer' = <<>>
    /\ UNCHANGED <<received, buffer, done, messages>>

-----------------------------------------------------------------------------
Next ==
    \/ ReadDataFromChild
    \/ TransformReadData
    \/ CloseThisSink

Spec == Init /\ [][Next]_vars

(* The loop goes on until it ends: the thread that runs it is not stopped. *)
FairSpec == Spec /\ WF_vars(TransformReadData)

-----------------------------------------------------------------------------
(* Properties                                                              *)

Position == 1..Total

(* The type of every variable.                                             *)
TypeOK ==
    /\ received \in 0..Total
    /\ buffer \in Seq(Position)
    /\ size \in Int
    /\ receiveBuffer \in Seq(Position)
    /\ done \in 0..(Len(Start) - 1)
    /\ closed \in BOOLEAN
    /\ messages \in Seq(Seq(Position))

Abstract == INSTANCE Framing WITH arrived <- received

(* However the bytes are cut, what is handed up are the messages of the    *)
(* stream, whole and in order, none twice; sizes of 0 or less, and a sink  *)
(* closed in the middle of the loop, do not shift those that follow.       *)
ImplementsFraming == Abstract!Spec

(* The event loop waits with no whole message unread: what is missing is a *)
(* byte of the next frame. An empty message is only handed up with the     *)
(* first byte after it.                                                    *)
IdleIsCaughtUp ==
    buffer = <<>> /\ ~closed /\ done + 1 \in Frames =>
        \/ received < Start[done + 2]
        \/ received = Start[done + 2] /\ size # -1 /\ size <= 0

(* The loop ends for every read, whatever sizes it finds.                  *)
LoopEnds == buffer # <<>> ~> buffer = <<>>

==============================================================================
