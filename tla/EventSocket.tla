---------------------------- MODULE EventSocket ----------------------------
(* The socket on which lircd tells its clients of button presses, one line *)
(* per press.  A line is two pieces, its beginning and its end with the    *)
(* newline, so that a read of PACKET_SIZE pieces may end within a line.    *)
EXTENDS Integers, Sequences, FiniteSets, TLC

CONSTANTS
    PACKET_SIZE,    \* pieces that fit into the buffer of a client
    MaxEvents       \* bound: lines written by lircd

ASSUME SocketAssumption == PACKET_SIZE \in Nat /\ PACKET_SIZE >= 2 /\ MaxEvents \in Nat

VARIABLES
    scene,          \* the program that reads, its options and files, and the events there are
    sock,           \* pieces not read yet
    closed,         \* lircd has gone
    written,        \* history: the events lircd has written
    handled         \* history: the events the program has handled

socket == <<scene, sock, closed, written, handled>>

line_of(event) == <<[event |-> event, newline |-> FALSE], [event |-> event, newline |-> TRUE]>>

(* lircd's write_socket() writes whole lines.  (The last one cut short,    *)
(* when lircd gives up a client that does not read, is not modelled.)      *)
lircd_writes ==
    /\ ~closed /\ Len(written) < MaxEvents
    /\ \E event \in scene.events :
          /\ sock' = sock \o line_of(event)
          /\ written' = Append(written, event)
    /\ UNCHANGED <<scene, closed, handled>>

lircd_exits ==
    /\ ~closed
    /\ closed' = TRUE
    /\ UNCHANGED <<scene, sock, written, handled>>

(* What read() of at most room pieces returns. *)
chunk(room) == SubSeq(sock, 1, IF Len(sock) < room THEN Len(sock) ELSE room)
read_chunk(room) == sock' = SubSeq(sock, Len(chunk(room)) + 1, Len(sock))

(* The position of the first newline in a buffer, 0 if there is none. *)
newline_at(buffer) ==
    LET ends == {k \in DOMAIN buffer : buffer[k].newline}
    IN IF ends = {} THEN 0 ELSE CHOOSE k \in ends : \A i \in ends : k <= i

(* sscanf() of the buffer: the first line, if all of it is there. *)
whole(line) == Len(line) = 2 /\ line = line_of(line[1].event)

(* The events of which the end is still in a buffer or in the socket. *)
events_in(pieces) ==
    LET ends[k \in 0..Len(pieces)] ==
            IF k = 0 THEN <<>>
            ELSE IF pieces[k].newline THEN Append(ends[k - 1], pieces[k].event) ELSE ends[k - 1]
    IN ends[Len(pieces)]
=============================================================================
