-------------------------------- MODULE Wire --------------------------------
(***************************************************************************)
(* What travels on a stream socket between the programs of LIRC, and how   *)
(* the two daemons cut it into lines (get_command in daemons/lircd.cpp and *)
(* in daemons/lircrcd.cpp are the same code).                              *)
(*                                                                         *)
(* A line is a sequence of words.  On the wire it is three pieces: the     *)
(* first characters of the text, the rest of the text, and the newline, so *)
(* that a read can end inside the text and between text and newline.  A    *)
(* stream and a buffer are sequences of pieces, and a piece stands for one *)
(* unit of PACKET_SIZE.                                                    *)
(***************************************************************************)
EXTENDS Integers, Sequences, SequencesExt

Piece(line, part) == [line |-> line, part |-> part]
Pieces(line) == <<Piece(line, 1), Piece(line, 2), Piece(line, 3)>>
PieceAt(lines, i) == Piece(lines[((i - 1) \div 3) + 1], ((i - 1) % 3) + 1)
Written(lines) == [i \in 1..(3 * Len(lines)) |-> PieceAt(lines, i)]

IsNewline(piece) == piece.part = 3
Newline(buffer) == SelectInSeq(buffer, IsNewline)       \* strchr(buffer, '\n'), 0 for NULL
First(buffer, n) == SubSeq(buffer, 1, n)
From(buffer, n) == SubSeq(buffer, n, Len(buffer))

(* The elements of seq that are in T, in their order. *)
Those(seq, T) ==
    LET picked[k \in 0..Len(seq)] ==
            IF k = 0 THEN <<>>
            ELSE IF seq[k] \in T THEN Append(picked[k - 1], seq[k]) ELSE picked[k - 1]
    IN picked[Len(seq)]

(* The text before the newline or the end of the buffer: the whole text of *)
(* a line, nothing, or characters that are no whole text of any line.      *)
Fragment == <<"fragment">>
Text(buffer) ==
    LET n == Newline(buffer)
        s == IF n = 0 THEN buffer ELSE First(buffer, n - 1)
    IN CASE s = <<>> -> <<>>
         [] Len(s) = 2 /\ s[1].part = 1 /\ s[2].part = 2 -> s[1].line
         [] OTHER -> Fragment

(* A read() from a local stream socket returns everything that is queued,  *)
(* up to the room in the caller's buffer.                                  *)
Available(stream, room) == First(stream, IF Len(stream) < room THEN Len(stream) ELSE room)

-----------------------------------------------------------------------------
(* get_command(): the state of its loop over one buffer.  Handling one     *)
(* line gives [lines |-> the line to execute or none, buffer, stream,      *)
(* more |-> is there another round?, ok |-> is the client kept?].          *)

Reading(stream, PacketSize) ==
    LET read == Available(stream, PacketSize)
    IN [buffer |-> read, stream |-> From(stream, Len(read) + 1)]

(* A buffer without a newline: "bad send packet", the client is removed.   *)
BadPacket(buffer) == Newline(buffer) = 0

(* After a line: what follows it moves to the front; a partial line is     *)
(* completed by a second read that does not wait (its timeout of 5 us is   *)
(* 0 ms), and the client is dropped when nothing is there.                 *)
NextPacket_forgets(buffer, stream, PacketSize) ==
    LET rest == From(buffer, Newline(buffer) + 1)
    IN [buffer |-> IF Newline(rest) = 0 THEN <<>> ELSE rest, stream |-> stream, ok |-> TRUE]

NextPacket_gives_up(buffer, stream, PacketSize) ==
    LET rest == From(buffer, Newline(buffer) + 1)
    IN [buffer |-> IF Newline(rest) = 0 THEN <<>> ELSE rest, stream |-> stream,
        ok |-> rest = <<>> \/ Newline(rest) > 0]

NextPacket(buffer, stream, PacketSize) ==
    LET rest == From(buffer, Newline(buffer) + 1)
        new == Available(stream, PacketSize - Len(rest))
    IN CASE rest = <<>> -> [buffer |-> <<>>, stream |-> stream, ok |-> TRUE]
         [] rest # <<>> /\ Newline(rest) > 0 -> [buffer |-> rest, stream |-> stream, ok |-> TRUE]
         [] rest # <<>> /\ Newline(rest) = 0 /\ new # <<>> ->
              [buffer |-> rest \o new, stream |-> From(stream, Len(new) + 1), ok |-> TRUE]
         [] OTHER -> [buffer |-> <<>>, stream |-> stream, ok |-> FALSE]
=============================================================================
