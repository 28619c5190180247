------------------------------- MODULE Stream -------------------------------
(***************************************************************************)
(* The bytes a client sends, seen as frames: a size of HeaderSize bytes    *)
(* and as many bytes as it says. Every sequence of bytes reads this way; a *)
(* frame that announces 0 or less holds nothing. A byte is its position.   *)
(***************************************************************************)
EXTENDS Integers, Sequences

CONSTANTS
    HeaderSize,  \* the bytes of a header
    Value,       \* [positions -> Int]: the number that the bytes of the
                 \* stream stand for, read as a header from that position on
    Start        \* sequence: how many bytes come before each frame, and, at
                 \* its end, the bytes of all frames

Frames == 1..(Len(Start) - 1)
Total == Start[Len(Start)]

(* The n bytes of the stream that follow the first from ones.              *)
Piece(from, n) == [k \in 1..n |-> from + k]

SizeOf(i) == Value[Start[i] + 1]

(* A frame that announces no positive size holds nothing.                  *)
Length(i) == IF SizeOf(i) > 0 THEN SizeOf(i) ELSE 0

Content(i) == Piece(Start[i] + HeaderSize, Length(i))

(* The frames follow one another.                                          *)
ASSUME StreamAssumption ==
    /\ HeaderSize \in Nat \ {0}
    /\ Start \in Seq(Nat) /\ Start # <<>>
    /\ Start[1] = 0
    /\ Value \in [1..Total -> Int]
    /\ \A i \in Frames : /\ Start[i] < Total
                         /\ Start[i + 1] = Start[i] + HeaderSize + Length(i)

=============================================================================
