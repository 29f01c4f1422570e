------------------------------- MODULE Network -------------------------------
(***************************************************************************)
(* lircd, the programs that talk to it, lircrcd, and another lircd that    *)
(* this one connects to (--connect).                                       *)
(*                                                                         *)
(* Programs: irsend runs the commands of its script one after the other    *)
(* and stops at the first failure; "nc" writes all its commands at once;   *)
(* "irw" only reads events; ircat reads events and sends each to lircrcd   *)
(* for the strings of the lircrc; "moder" calls lirc_setmode() and         *)
(* lirc_getmode() by its script.                                           *)
(***************************************************************************)
EXTENDS Lircrcd

CONSTANTS
    Clients,        \* the programs
    Scenes,         \* what each program is and does, how many events there are,
                    \* what may break: see InitScene
    Daemons,        \* bound: the lircrcd processes that can be started
    MaxFailures     \* bound: failed attempts to connect to the other lircd

(* What a line may say, and an event.  Only the client that connected      *)
(* first may SIMULATE: the broadcast can take out clients ahead of the one *)
(* that get_command() is serving, and a failure of that one would then     *)
(* remove whoever is in its slot and keep it.                              *)
Words == Seq(STRING) \cup {Fragment}
Line == Words \ {Fragment}
ASSUME NetworkAssumption ==
    /\ None \notin Clients
    /\ \A s \in Scenes :
          /\ s.clients \in Seq(Clients) /\ s.script \in [Clients -> Seq(Words)]
          /\ s.events \in Seq(Line) /\ s.peer \in Seq(Line)
          /\ s.packet \in Nat /\ s.room \in Nat
          /\ s.hups \in Nat /\ s.breaks \in Nat
          /\ \A i \in 2..Len(s.clients) : \A k \in DOMAIN s.script[s.clients[i]] :
                LET line == s.script[s.clients[i]][k] IN line # <<>> => line[1] # "SIMULATE"

(* An event has a code, a repeat count, a button and a remote; a command   *)
(* of irsend is no word of the answers; a line fits into PACKET_SIZE, and  *)
(* the answer to a SEND_ONCE into an empty socket; no SIGHUP package comes *)
(* between the answers.  Number has the counts of the lists, AnswerWords   *)
(* are the words of lircd's packages.                                      *)
Event == {l \in Line : Len(l) = 4}
Request == Line \ {<<>>, <<"ERROR">>, <<"END">>}
Counts == {Number[w] : w \in DOMAIN Number}
AnswerWords ==
    {"BEGIN", "SIGHUP", "SUCCESS", "ERROR", "DATA", "END", "code", "0.9.4"} \cup DOMAIN Number
    \cup {"unknown", "remote", "command", "reps/eol", "too", "many", "repeats", "trailing", "ws", "missing",
          "hardware", "does", "not", "support", "sending", "busy:", "repeating", "already", "specified", "match",
          "no", "arguments", "given", "multiple", "transmitters", "invalid", "argument", "cannot", "maximum", "of",
          "SIMULATE", "is", "disabled", "event", "Illegal", "Cannot", "set", "open", "input", "logfile",
          "bad", "send", "packet", "directive", "transmission", "failed", "interrupted"}
ASSUME CallsAssumption ==
    /\ AnswerWords \subseteq STRING
    /\ RemoteList \in Seq(STRING \ Range(Fragment)) /\ Len(RemoteList) \in Counts
    /\ \A r \in Range(RemoteList) : CodesOf[r] \in Seq(STRING) /\ Len(CodesOf[r]) \in Counts
    /\ \A s \in Scenes :
          /\ s.events \in Seq(Event) /\ s.peer \in Seq(Event)
          /\ \A c \in Clients : s.kind[c] = "irsend" =>
                s.script[c] \in Seq(Request) /\ s.packet >= 3 /\ s.room >= 21 /\ s.hups = 0

VARIABLES
    scene,      \* the scene
    daemon,     \* lircd: its protocol state, the command it is at, clis[], cli_type[],
                \* the slots that poll() found readable and that are still to be worked off
    sock,       \* sock[c]: the connection of c to lircd, both directions and ends
    prog,       \* prog[c]: the program c
    rc, path,   \* the lircrcd processes, and the one bound to the socket's path or 0
    rsock,      \* rsock[c]: the connection of c to a lircrcd
    peer,       \* the connection to the other lircd
    told        \* history: what was written to, answered to and looked up for each program

vars == <<scene, daemon, sock, prog, rc, path, rsock, peer, told>>

Wait == "wait"
NoCtx == lirc_command_init(<<>>)
Closed == [up |-> <<>>, down |-> <<>>, srv |-> FALSE, cli |-> FALSE]
Open == [up |-> <<>>, down |-> <<>>, srv |-> TRUE, cli |-> TRUE]
NoCommand == [fd |-> None, slot |-> 0, buffer |-> <<>>]

Kind(c) == scene.kind[c]
Listeners == {c \in Clients : Kind(c) \in {"irw", "ircat"}}
Pipers == {c \in Clients : Kind(c) = "nc"}

Program(s, c) ==
    [pc |-> CASE s.kind[c] \in {"irsend", "nc"} -> "call"
              [] s.kind[c] = "irw" -> "next"
              [] s.kind[c] \in {"ircat", "moder"} -> "connect"
              [] OTHER -> "exit",
     script |-> s.script[c], ctx |-> NoCtx, buffer |-> <<>>, size |-> 0,
     code |-> <<>>, heard |-> <<>>, out |-> <<>>, returned |-> <<>>]

(* A scene: the kind and the script of each program, the order in which    *)
(* they connected, which of them over TCP, the events the receiver         *)
(* decodes, those of the other lircd (if there is one), whether connecting *)
(* to it can fail and how often it ends a connection, PACKET_SIZE and the  *)
(* pieces a socket queues before write() says EAGAIN, whether a            *)
(* transmission can fail, the SIGHUPs, whether lircd may die, and the      *)
(* programs that the user may stop.                                        *)
InitScene(s) ==
    /\ daemon = [st |-> InitDaemon, up |-> TRUE, cmd |-> NoCommand, left |-> s.events, hups |-> s.hups,
                 clis |-> s.clients, marks |-> {},
                 type |-> [i \in DOMAIN s.clients |-> IF s.clients[i] \in s.remote THEN "CT_REMOTE" ELSE "CT_LOCAL"]]
    /\ sock = [c \in Clients |-> IF c \in Range(s.clients) THEN Open ELSE Closed]
    /\ prog = [c \in Clients |-> Program(s, c)]
    /\ peer = [socket |-> "down", failure |-> 0, wait |-> 0, stream |-> <<>>, left |-> s.peer,
               end |-> None, last |-> <<>>, breaks |-> s.breaks]

Init ==
    /\ \E s \in Scenes : scene = s /\ InitScene(s)
    /\ rc = [d \in Daemons |-> InitRc]
    /\ path = 0
    /\ rsock = [c \in Clients |-> Closed]
    /\ told = [c \in Clients |-> [events |-> <<>>, answers |-> <<>>, lines |-> <<>>, presses |-> <<>>]]

-----------------------------------------------------------------------------
(* lircd: writing. *)

(* write_socket(): what fits goes out; when the queue stays full, or an    *)
(* end is closed, it fails and the caller removes the client.              *)
write_socket(s, lines) ==
    LET out == Written(lines)
        room == IF s.srv /\ s.cli THEN scene.room - Len(s.down) ELSE 0
    IN IF Len(out) <= room THEN [s EXCEPT !.down = @ \o out]
       ELSE [s EXCEPT !.down = @ \o First(out, room), !.srv = FALSE]

Result(lines) == IF lines[3] = <<"SUCCESS">> THEN "ok" ELSE "EIO"

(* Events go to every client in B, the answer to fd. *)
Told(fd, lines, events, B) ==
    [c \in Clients |->
        [events |-> told[c].events \o (IF c \in B THEN events ELSE <<>>),
         answers |-> told[c].answers \o (IF c = fd /\ lines # <<>> THEN <<Result(lines)>> ELSE <<>>),
         lines |-> told[c].lines, presses |-> told[c].presses]]

Sent(fd, lines, events, B) ==
    [c \in Clients |->
        LET s == IF c \in B /\ events # <<>> THEN write_socket(sock[c], events) ELSE sock[c]
        IN IF c = fd /\ lines # <<>> THEN write_socket(s, lines) ELSE s]

(* remove_client(): clis[] moves up, cli_type[] does not. *)
Served(c) == daemon.up /\ sock[c].srv
Kept(socks) == Those(daemon.clis, {c \in Clients : socks[c].srv})
Local == {daemon.clis[i] : i \in {j \in DOMAIN daemon.clis : daemon.type[j] # "CT_REMOTE"}}

-----------------------------------------------------------------------------
(* lircd: get_command(), the repeat timer, the receiver. *)

(* The loop over the poll results goes by slots: a removal moves clis[] up *)
(* but not the results, so that the next client is passed over and the one *)
(* behind it is read with its result, ready or not.                        *)
Slots == daemon.marks \cap DOMAIN daemon.clis
Serving(c) == Served(c) /\ daemon.cmd.fd = None /\ Slots # {} /\ daemon.clis[Min(Slots)] = c
Polling == daemon.up /\ daemon.cmd.fd = None /\ Slots = {}
Readable(c) == sock[c].up # <<>> \/ ~sock[c].cli

(* poll(): a client has something to read, or has hung up.  The one that   *)
(* waits for its repeats is not looked at.                                 *)
Polled == {i \in DOMAIN daemon.clis : daemon.clis[i] # daemon.st.repeat.fd /\ Readable(daemon.clis[i])}
LircdPolls ==
    /\ Polling /\ Polled # {}
    /\ daemon' = [daemon EXCEPT !.marks = Polled]
    /\ UNCHANGED <<scene, sock, prog, rc, path, rsock, peer, told>>

(* The first read of get_command() waits until there is something. *)
Blocked == \E c \in Clients : Serving(c) /\ ~Readable(c)
LircdReads(c) ==
    /\ Serving(c) /\ Readable(c)
    /\ LET r == Reading(sock[c].up, scene.packet)
           marks == daemon.marks \ {Min(Slots)}
       IN IF r.buffer = <<>> \/ BadPacket(r.buffer)
          THEN LET socks == [sock EXCEPT ![c].srv = FALSE, ![c].up = r.stream]
               IN sock' = socks /\ daemon' = [daemon EXCEPT !.clis = Kept(socks), !.marks = marks]
          ELSE /\ sock' = [sock EXCEPT ![c].up = r.stream]
               /\ daemon' = [daemon EXCEPT !.cmd = [fd |-> c, slot |-> Min(Slots), buffer |-> r.buffer],
                                           !.marks = marks]
    /\ UNCHANGED <<scene, prog, rc, path, rsock, peer, told>>

(* When get_command() fails, whoever is in the slot now is removed: the    *)
(* client, or another one if a broadcast has removed it before.            *)
Failing(table, slot) == {c \in Clients : slot \in DOMAIN table /\ table[slot] = c}
Sendings == IF scene.fails THEN BOOLEAN ELSE {TRUE}

LircdExecutes ==
    /\ daemon.up /\ daemon.cmd.fd # None
    /\ LET c == daemon.cmd.fd
           buffer == daemon.cmd.buffer
           B == Range(daemon.clis)
       IN \E sent \in Sendings :
          \E do \in {Directive(c, Text(buffer), sent, daemon.st)} :
          \E socks \in {Sent(c, do.out, do.cast, B)} :
          \E next \in {NextPacket(buffer, socks[c].up, scene.packet)} :
             LET kept == socks[c].srv /\ next.ok
                 more == kept /\ next.buffer # <<>>
                 stays == kept /\ ~(more /\ BadPacket(next.buffer))
                 gone == IF stays THEN {} ELSE {c} \cup Failing(Kept(Sent(None, <<>>, do.cast, B)), daemon.cmd.slot)
             IN /\ sock' = [e \in Clients |->
                              [socks[e] EXCEPT !.srv = @ /\ e \notin gone,
                                               !.up = IF e = c /\ socks[c].srv THEN next.stream ELSE @]]
                /\ daemon' = [daemon EXCEPT !.st = do.st, !.clis = Kept(sock'),
                                  !.cmd = IF more /\ stays THEN [@ EXCEPT !.buffer = next.buffer] ELSE NoCommand]
                /\ told' = [Told(c, do.out, do.cast, B) EXCEPT ![c].lines = Append(@, Text(buffer))]
    /\ UNCHANGED <<scene, prog, rc, path, rsock, peer>>

(* dosigalrm(): whether the late answer could be written is not looked at. *)
LircdRepeats ==
    /\ Polling
    /\ daemon.st.repeat.remote # None
    /\ \E sent \in Sendings :
       LET do == repeated(sent, daemon.st)
           fd == daemon.st.repeat.fd
           socks == Sent(fd, do.out, <<>>, {})
       IN /\ sock' = [c \in Clients |-> [socks[c] EXCEPT !.srv = sock[c].srv]]
          /\ told' = Told(fd, do.out, <<>>, {})
          /\ daemon' = [daemon EXCEPT !.st = do.st]
    /\ UNCHANGED <<scene, prog, rc, path, rsock, peer>>

(* loop(): a decoded button press is broadcast. *)
LircdReceives ==
    /\ Polling
    /\ daemon.left # <<>>
    /\ LET event == <<Head(daemon.left)>>
           socks == Sent(None, <<>>, event, Range(daemon.clis))
       IN /\ sock' = socks
          /\ daemon' = [daemon EXCEPT !.left = Tail(@), !.clis = Kept(socks),
                                      !.st = decoded(Head(daemon.left), @)]
          /\ told' = Told(None, <<>>, event, Range(daemon.clis))
    /\ UNCHANGED <<scene, prog, rc, path, rsock, peer>>

(* dosighup(): every client is told, and a lost peer is tried again now.   *)
LircdHups ==
    /\ Polling /\ daemon.hups > 0
    /\ LET package == << <<"BEGIN">>, <<"SIGHUP">>, <<"END">> >>
           socks == Sent(None, <<>>, package, Range(daemon.clis))
       IN /\ sock' = socks
          /\ daemon' = [daemon EXCEPT !.hups = @ - 1, !.clis = Kept(socks)]
          /\ told' = Told(None, <<>>, package, Range(daemon.clis))
          /\ peer' = IF peer.socket = "up" THEN peer ELSE [peer EXCEPT !.wait = 0, !.failure = 0]
    /\ UNCHANGED <<scene, prog, rc, path, rsock>>

LircdDies ==
    /\ scene.dies /\ daemon.up
    /\ daemon' = [daemon EXCEPT !.up = FALSE, !.clis = <<>>]
    /\ sock' = [c \in Clients |-> [sock[c] EXCEPT !.srv = FALSE, !.up = <<>>]]
    /\ UNCHANGED <<scene, prog, rc, path, rsock, peer, told>>

-----------------------------------------------------------------------------
(* The other lircd: a TCP stream, which a read may cut anywhere. *)

PeerDue_gives_up ==
    Polling /\ scene.peer # <<>> /\ peer.socket = "down" /\ peer.wait = 0 /\ peer.failure < 2
PeerDue == Polling /\ scene.peer # <<>> /\ peer.socket = "down" /\ peer.wait = 0

(* connect_to_peer(): a failure waits 5 seconds longer each time. *)
PeerConnects ==
    /\ PeerDue
    /\ \/ peer' = [peer EXCEPT !.socket = "up", !.failure = 0, !.stream = <<>>, !.end = None]
       \/ /\ scene.peerfails /\ peer.failure < MaxFailures
          /\ peer' = [peer EXCEPT !.failure = @ + 1, !.wait = peer.failure + 1]
    /\ UNCHANGED <<scene, daemon, sock, prog, rc, path, rsock, told>>

PeerWaits ==        \* five seconds pass
    /\ peer.wait > 0
    /\ peer' = [peer EXCEPT !.wait = @ - 1]
    /\ UNCHANGED <<scene, daemon, sock, prog, rc, path, rsock, told>>

(* The other lircd broadcasts, to us if we are connected, or ends the      *)
(* connection, with or without an error at our side.                       *)
PeerSays ==
    /\ peer.left # <<>>
    /\ peer' = [peer EXCEPT !.left = Tail(@),
                  !.stream = IF peer.socket = "up" /\ peer.end = None THEN @ \o Pieces(Head(peer.left)) ELSE @]
    /\ UNCHANGED <<scene, daemon, sock, prog, rc, path, rsock, told>>

PeerEnds ==
    /\ peer.socket = "up" /\ peer.end = None /\ peer.breaks > 0
    /\ \E end \in {"EOF", "error"} : peer' = [peer EXCEPT !.end = end, !.breaks = @ - 1]
    /\ UNCHANGED <<scene, daemon, sock, prog, rc, path, rsock, told>>

(* The lines of a chunk that starts with a line. *)
LinesOf(chunk) ==
    LET ends == Those(chunk, {p \in Range(chunk) : IsNewline(p)})
    IN [i \in DOMAIN ends |-> ends[i].line] \o (IF IsNewline(Last(chunk)) THEN <<>> ELSE <<Fragment>>)

(* get_peer_message(): what was read is relayed to the local clients if it *)
(* ends with a newline, and else, or at the end, the connection is given   *)
(* up.                                                                     *)
get_peer_message_any_chunk(chunk) ==
    IF chunk = <<>> THEN [ok |-> FALSE, lines |-> <<>>] ELSE [ok |-> TRUE, lines |-> LinesOf(chunk)]
get_peer_message(chunk) ==
    IF chunk = <<>> THEN [ok |-> FALSE, lines |-> <<>>]
    ELSE [ok |-> IsNewline(Last(chunk)), lines |-> LinesOf(chunk)]

(* After a failed read the buffer is not defined: it may still hold what   *)
(* was read the last time, which is then relayed again.                    *)
PeerChunks ==
    CASE peer.stream # <<>> -> {First(peer.stream, n) : n \in {m \in 1..Len(peer.stream) : m <= scene.packet}}
      [] peer.stream = <<>> /\ peer.end = "error" -> {<<>>, peer.last}
      [] OTHER -> {<<>>}

PeerReady == Polling /\ peer.socket = "up" /\ (peer.stream # <<>> \/ peer.end # None)
PeerReads ==
    /\ PeerReady
    /\ \E chunk \in PeerChunks :
       LET m == get_peer_message(chunk)
           socks == Sent(None, <<>>, m.lines, Local)
           last == IF peer.stream # <<>> THEN chunk ELSE peer.last
       IN IF m.ok
          THEN /\ sock' = socks
               /\ told' = Told(None, <<>>, m.lines, Local)
               /\ daemon' = [daemon EXCEPT !.clis = Kept(socks)]
               /\ peer' = IF peer.stream # <<>> THEN [peer EXCEPT !.stream = From(@, Len(chunk) + 1), !.last = last]
                          ELSE [peer EXCEPT !.end = "EOF"]
          ELSE /\ peer' = [peer EXCEPT !.socket = "down", !.failure = 1, !.wait = 1, !.stream = <<>>,
                                       !.end = None, !.last = last]
               /\ UNCHANGED <<sock, told, daemon>>
    /\ UNCHANGED <<scene, prog, rc, path, rsock>>

-----------------------------------------------------------------------------
(* Programs: lirc_command_run() on the connection to lircd or lircrcd.     *)

(* The string a context reads next from a connection s, or nothing yet: a  *)
(* read() waits until there is something or the other end is closed.       *)
Reads(ctx, s) == MustFill(ctx) => s.down # <<>> \/ ~s.srv
New(ctx, s) == IF MustFill(ctx) THEN Available(s.down, scene.packet - Len(ctx.buffer)) ELSE <<>>
Stepped(ctx, s) ==
    LET r == read_string(ctx, New(ctx, s)) IN ReplyLine(r.ctx, r.string)
Drained(ctx, s) == [s EXCEPT !.down = From(@, Len(New(ctx, s)) + 1)]

(* irsend: lirc_command_init() and the write of the packet. *)
Sends(c) ==
    /\ Kind(c) = "irsend" /\ prog[c].pc = "call"
    /\ IF prog[c].script = <<>>
       THEN /\ prog' = [prog EXCEPT ![c].pc = "exit"]
            /\ sock' = [sock EXCEPT ![c].cli = FALSE, ![c].down = <<>>]
       ELSE /\ prog' = [prog EXCEPT ![c].pc = Wait, ![c].script = Tail(@),
                                    ![c].ctx = lirc_command_init(Head(prog[c].script))]
            /\ sock' = [sock EXCEPT ![c].up = IF sock[c].srv THEN @ \o Pieces(Head(prog[c].script)) ELSE @]
    /\ UNCHANGED <<scene, daemon, rc, path, rsock, peer, told>>

(* send_packet(): irsend stops when a command fails. *)
Answered(c) ==
    /\ Kind(c) = "irsend" /\ prog[c].pc = Wait
    /\ Reads(prog[c].ctx, sock[c])
    /\ LET ctx == Stepped(prog[c].ctx, sock[c])
       IN IF ctx.result = None
          THEN /\ prog' = [prog EXCEPT ![c].ctx = ctx]
               /\ sock' = [sock EXCEPT ![c] = Drained(prog[c].ctx, @)]
          ELSE /\ prog' = [prog EXCEPT ![c].ctx = NoCtx, ![c].returned = Append(@, ctx.result),
                                       ![c].pc = IF ctx.result = "ok" THEN "call" ELSE "exit"]
               /\ sock' = [sock EXCEPT ![c] = IF ctx.result = "ok" THEN Drained(prog[c].ctx, @)
                                              ELSE [@ EXCEPT !.cli = FALSE, !.down = <<>>]]
    /\ UNCHANGED <<scene, daemon, rc, path, rsock, peer, told>>

(* A program that writes all its commands in one write. *)
Pipes(c) ==
    /\ Kind(c) = "nc" /\ prog[c].pc = "call"
    /\ prog' = [prog EXCEPT ![c].pc = "wrote"]
    /\ sock' = [sock EXCEPT ![c].up = @ \o Written(prog[c].script)]
    /\ UNCHANGED <<scene, daemon, rc, path, rsock, peer, told>>

(* lirc_nextcode(): a line that is already there, or a read; EOF ends the  *)
(* program.                                                                *)
NextCodes(c) ==
    /\ prog[c].pc = "next"
    /\ LET p == prog[c]
           size == IF Len(p.buffer) >= p.size THEN p.size + scene.packet ELSE p.size
           new == Available(sock[c].down, size - Len(p.buffer))
           buffer == IF HasLine(p.buffer) THEN p.buffer ELSE p.buffer \o new
       IN /\ ~HasLine(p.buffer) => sock[c].down # <<>> \/ ~sock[c].srv
          /\ IF ~HasLine(p.buffer) /\ new = <<>>
             THEN /\ prog' = [prog EXCEPT ![c].pc = "exit"]
                  /\ sock' = [sock EXCEPT ![c].cli = FALSE]
                  /\ rsock' = [rsock EXCEPT ![c].cli = FALSE]
             ELSE /\ sock' = IF HasLine(p.buffer) THEN sock
                             ELSE [sock EXCEPT ![c].down = From(@, Len(new) + 1)]
                  /\ prog' = [prog EXCEPT ![c] =
                        IF Newline(buffer) = 0 THEN [p EXCEPT !.buffer = buffer, !.size = size]
                        ELSE [p EXCEPT !.buffer = AfterCode(buffer), !.code = NextCode(buffer),
                                !.size = IF HasLine(p.buffer) THEN p.size ELSE size,
                                !.heard = Append(@, NextCode(buffer)),
                                !.pc = IF Kind(c) = "ircat" THEN "call" ELSE "next"]]
                  /\ UNCHANGED rsock
    /\ UNCHANGED <<scene, daemon, rc, path, peer, told>>

-----------------------------------------------------------------------------
(* ircat: lirc_readconfig() with an lircrc class, and lirc_code2char()     *)
(* through lircrcd.                                                        *)

Bound(d) == path = d /\ rc[d].up = "loop"

(* connect(), and IDENT; without a daemon one is launched first. *)
RcConnects(c) ==
    /\ prog[c].pc \in {"connect", "again"}
    /\ \/ \E d \in Daemons :
            /\ Bound(d)
            /\ rc' = [rc EXCEPT ![d].backlog = Append(@, c)]
            /\ rsock' = [rsock EXCEPT ![c] = [Open EXCEPT !.up = Pieces(lirc_identify)]]
            /\ prog' = [prog EXCEPT ![c].pc = "ident", ![c].ctx = lirc_command_init(lirc_identify)]
            /\ UNCHANGED sock
       \/ /\ \A d \in Daemons : ~Bound(d)
          /\ prog' = [prog EXCEPT ![c].pc = IF prog[c].pc = "connect" THEN "launch" ELSE "exit"]
          /\ sock' = [sock EXCEPT ![c].cli = prog[c].pc = "connect"]
          /\ UNCHANGED <<rc, rsock>>
    /\ UNCHANGED <<scene, daemon, path, peer, told>>

(* lircrcd's main(): opensocket() unlinks what is bound to the path.       *)
RcLaunches(c) ==
    /\ prog[c].pc = "launch"
    /\ \E d \in Daemons :
          /\ rc[d].up = "no" /\ \A e \in Daemons : rc[e].up = "no" => d <= e
          /\ rc' = [rc EXCEPT ![d] = [InitRc EXCEPT !.up = "loop"]]
          /\ path' = d
    /\ prog' = [prog EXCEPT ![c].pc = "again"]
    /\ UNCHANGED <<scene, daemon, sock, rsock, peer, told>>

(* lirc_code2char() for the press in hand; lirc_setmode(), lirc_getmode(). *)
Asks(c) ==
    /\ Kind(c) \in {"ircat", "moder"} /\ prog[c].pc = "call"
    /\ IF Kind(c) = "moder" /\ prog[c].script = <<>>
       THEN /\ prog' = [prog EXCEPT ![c].pc = "exit"]
            /\ sock' = [sock EXCEPT ![c].cli = FALSE]
            /\ rsock' = [rsock EXCEPT ![c].cli = FALSE]
       ELSE LET packet == IF Kind(c) = "moder" THEN Head(prog[c].script) ELSE lirc_code2char(prog[c].code)
            IN /\ prog' = [prog EXCEPT ![c].pc = "rcwait", ![c].ctx = lirc_command_init(packet),
                                       ![c].script = IF @ = <<>> THEN @ ELSE Tail(@)]
               /\ rsock' = [rsock EXCEPT ![c].up = IF rsock[c].srv THEN @ \o Pieces(packet) ELSE @]
               /\ UNCHANGED sock
    /\ UNCHANGED <<scene, daemon, rc, path, peer, told>>

(* ircat stops at an empty string; the modes come back as strings too.     *)
ircat(p, string) ==
    IF string = <<>> THEN [p EXCEPT !.pc = "next"] ELSE [p EXCEPT !.pc = "call", !.out = Append(@, string)]
moder(p, string) == [p EXCEPT !.pc = "call", !.out = Append(@, string)]

Continues(c, p, string) ==
    CASE Kind(c) = "ircat" -> ircat(p, string)
      [] OTHER -> moder(p, string)

RcAnswered(c) ==
    /\ prog[c].pc \in {"ident", "rcwait"}
    /\ Reads(prog[c].ctx, rsock[c])
    /\ LET ctx == Stepped(prog[c].ctx, rsock[c])
           done == [prog[c] EXCEPT !.ctx = NoCtx]
           p == CASE ctx.result = None -> [prog[c] EXCEPT !.ctx = ctx]
                  [] ctx.result = "ok" /\ done.pc = "ident" ->
                       [done EXCEPT !.pc = IF Kind(c) = "moder" THEN "call" ELSE "next"]
                  [] ctx.result = "ok" /\ done.pc = "rcwait" -> Continues(c, done, ctx.reply)
                  [] OTHER -> [done EXCEPT !.pc = "exit"]
       IN /\ prog' = [prog EXCEPT ![c] = p]
          /\ rsock' = [rsock EXCEPT ![c] = [Drained(prog[c].ctx, @) EXCEPT !.cli = p.pc # "exit"]]
          /\ sock' = [sock EXCEPT ![c].cli = p.pc # "exit"]
    /\ UNCHANGED <<scene, daemon, rc, path, peer, told>>

(* The user stops ircat. *)
Quits(c) ==
    /\ Kind(c) = "ircat" /\ c \in scene.quits /\ prog[c].pc # "exit"
    /\ prog' = [prog EXCEPT ![c].pc = "exit"]
    /\ sock' = [sock EXCEPT ![c].cli = FALSE]
    /\ rsock' = [rsock EXCEPT ![c].cli = FALSE]
    /\ UNCHANGED <<scene, daemon, rc, path, peer, told>>

-----------------------------------------------------------------------------
(* lircrcd: its loop, by slots like the one of lircd. *)

RcSlotsMarked(d) == rc[d].marks \cap 1..rc[d].clin
RcInLoop(d) == rc[d].up = "loop" /\ rc[d].cmd.fd = None
RcServing(d, c) ==
    RcInLoop(d) /\ RcSlotsMarked(d) # {} /\ rc[d].slots[Min(RcSlotsMarked(d))].fd = c
RcPolling(d) == RcInLoop(d) /\ RcSlotsMarked(d) = {}
RcReadable(c) == rsock[c].up # <<>> \/ ~rsock[c].cli

RcPolled(d) == {i \in 1..rc[d].clin : RcReadable(rc[d].slots[i].fd)}
RcPolls(d) ==
    /\ RcPolling(d) /\ RcPolled(d) # {}
    /\ rc' = [rc EXCEPT ![d].marks = RcPolled(d)]
    /\ UNCHANGED <<scene, daemon, sock, prog, path, rsock, peer, told>>

RcAccepts(d) ==
    /\ RcPolling(d) /\ rc[d].backlog # <<>>
    /\ LET c == Head(rc[d].backlog)
           new == add_client([rc[d] EXCEPT !.backlog = Tail(@)], c)
       IN /\ rc' = [rc EXCEPT ![d] = new]
          /\ rsock' = [rsock EXCEPT ![c].srv = new.clin > rc[d].clin]
    /\ UNCHANGED <<scene, daemon, sock, prog, path, peer, told>>

(* The client in slot k goes.  After the last client the loop ends, and    *)
(* who waits to be accepted is cut off with it.                            *)
Gone(d, old, k, socks) ==
    LET c == old.slots[k].fd
        new == remove_client(old, k)
        ends == new.clin = 0
    IN /\ rc' = [rc EXCEPT ![d] = [new EXCEPT !.up = IF ends THEN "closing" ELSE @,
                                              !.cmd = NoCommand, !.marks = @ \ {k},
                                              !.backlog = IF ends THEN <<>> ELSE @]]
       /\ rsock' = [e \in Clients |-> IF e = c \/ (ends /\ e \in Range(new.backlog))
                                      THEN [socks[e] EXCEPT !.srv = FALSE] ELSE socks[e]]

RcReads(d) ==
    /\ \E c \in Clients :
          /\ RcServing(d, c) /\ RcReadable(c)
          /\ LET k == Min(RcSlotsMarked(d))
                 r == Reading(rsock[c].up, scene.packet)
                 socks == [rsock EXCEPT ![c].up = r.stream]
             IN IF r.buffer = <<>> \/ BadPacket(r.buffer) THEN Gone(d, rc[d], k, socks)
                ELSE /\ rsock' = socks
                     /\ rc' = [rc EXCEPT ![d].cmd = [fd |-> c, slot |-> k, buffer |-> r.buffer],
                                         ![d].marks = @ \ {k}]
    /\ UNCHANGED <<scene, daemon, sock, prog, path, peer, told>>

RcExecutes(d) ==
    /\ rc[d].cmd.fd # None
    /\ LET c == rc[d].cmd.fd
           buffer == rc[d].cmd.buffer
           do == RcDirective(c, Text(buffer), rc[d])
           socks == [rsock EXCEPT ![c] = write_socket(@, do.out)]
           next == NextPacket(buffer, socks[c].up, scene.packet)
       IN /\ IF socks[c].srv /\ next.ok
             THEN /\ rsock' = [socks EXCEPT ![c].up = next.stream]
                  /\ rc' = [rc EXCEPT ![d] = [do.rc EXCEPT !.cmd =
                               IF next.buffer = <<>> THEN NoCommand ELSE [@ EXCEPT !.buffer = next.buffer]]]
             ELSE Gone(d, do.rc, rc[d].cmd.slot, socks)
          /\ told' = [told EXCEPT ![c].presses = @ \o do.runs]
    /\ UNCHANGED <<scene, daemon, sock, prog, path, peer>>

(* The end of main(): whatever the path is bound to now is unlinked. *)
RcUnlinks(d) ==
    /\ rc[d].up = "closing"
    /\ rc' = [rc EXCEPT ![d] = [InitRc EXCEPT !.up = "done"]]
    /\ path' = 0
    /\ UNCHANGED <<scene, daemon, sock, prog, rsock, peer, told>>

-----------------------------------------------------------------------------
Lircd == LircdPolls \/ LircdExecutes \/ LircdRepeats
Peer == PeerConnects \/ PeerWaits \/ PeerReads
Runs(c) == \/ Sends(c) \/ Answered(c) \/ Pipes(c) \/ NextCodes(c)
           \/ RcConnects(c) \/ RcLaunches(c) \/ Asks(c) \/ RcAnswered(c)
RcRuns(d) == RcPolls(d) \/ RcAccepts(d) \/ RcReads(d) \/ RcExecutes(d) \/ RcUnlinks(d)

(* When does some program or daemon have something to do? *)
Runnable(c) ==
    CASE prog[c].pc \in {"call", "connect", "again"} -> TRUE
      [] prog[c].pc = "launch" -> \E d \in Daemons : rc[d].up = "no"
      [] prog[c].pc = Wait -> Reads(prog[c].ctx, sock[c])
      [] prog[c].pc \in {"ident", "rcwait"} -> Reads(prog[c].ctx, rsock[c])
      [] prog[c].pc = "next" -> HasLine(prog[c].buffer) \/ sock[c].down # <<>> \/ ~sock[c].srv
      [] OTHER -> FALSE
RcReady(d) ==
    \/ rc[d].cmd.fd # None \/ rc[d].up = "closing"
    \/ RcPolling(d) /\ (rc[d].backlog # <<>> \/ RcPolled(d) # {})
    \/ \E c \in Clients : RcServing(d, c) /\ RcReadable(c)
Busy ==
    \/ \E c \in Clients : (Serving(c) /\ Readable(c)) \/ Runnable(c)
    \/ \E d \in Daemons : RcReady(d)
    \/ daemon.up /\ daemon.cmd.fd # None
    \/ Polling /\ (Polled # {} \/ daemon.st.repeat.remote # None)
    \/ PeerReady \/ PeerDue \/ peer.wait > 0

Quiet == ~Busy /\ UNCHANGED vars

Work ==
    \/ Lircd \/ Peer
    \/ \E c \in Clients : LircdReads(c) \/ Runs(c)
    \/ \E d \in Daemons : RcRuns(d)

Next ==
    \/ LircdPolls \/ LircdExecutes \/ LircdRepeats \/ LircdReceives \/ LircdHups \/ LircdDies
    \/ PeerConnects \/ PeerWaits \/ PeerReads \/ PeerSays \/ PeerEnds
    \/ \E c \in Clients : LircdReads(c) \/ Runs(c) \/ Quits(c)
    \/ \E d \in Daemons : RcRuns(d)
    \/ Quiet

(* The processes go on while one of them can: the weakest of the           *)
(* scheduler's promises, and enough because every script ends.  Nothing    *)
(* makes a button be pressed, another lircd speak or hang up, a SIGHUP be  *)
(* sent, a program be stopped or lircd die.  (This is WF_vars(Work), with  *)
(* Busy for ENABLED <<Work>>_vars.)                                        *)
GoesOn == []<>(~Busy) \/ []<><<Work>>_vars

Spec == Init /\ [][Next]_vars /\ GoesOn

-----------------------------------------------------------------------------
(* Properties. *)

Ended(c) == prog[c].pc = "exit"

(* lirc_command_run() implements Calls: for irsend, a call returns with    *)
(* the result lircd answered this very request with, once, and it fails    *)
(* only on a connection that is gone or has carried events: an event that  *)
(* a packet's end cuts before its newline makes the next call fail         *)
(* (lirc_client.c:110, 158, 190, lircd.cpp:1771).                          *)
CallOf(c) ==
    LET k == Len(prog[c].returned)
    IN CASE Kind(c) = "irsend" /\ prog[c].pc = Wait /\ Len(told[c].answers) > k ->
              [phase |-> "answered", request |-> scene.script[c][k + 1], result |-> told[c].answers[k + 1]]
         [] Kind(c) = "irsend" /\ prog[c].pc = Wait /\ Len(told[c].answers) <= k ->
              [phase |-> "asked", request |-> scene.script[c][k + 1], result |-> None]
         [] Kind(c) = "irsend" /\ prog[c].pc # Wait /\ k > 0 ->
              [phase |-> "returned", request |-> scene.script[c][k], result |-> prog[c].returned[k]]
         [] OTHER -> [phase |-> "idle", request |-> <<>>, result |-> None]

AllRequests == UNION {UNION {Range(s.script[c]) : c \in Clients} : s \in Scenes}

C == INSTANCE Calls WITH Callers <- Clients, Requests <- AllRequests,
                         call <- [c \in Clients |-> CallOf(c)],
                         sound <- [c \in Clients |-> sock[c].srv /\ told[c].events = <<>>]
CallsImplemented == C!Spec

(* And it returns, unless lircd waits for a client that says nothing: the  *)
(* answer of a SEND_ONCE comes when its repeats are out or interrupted,    *)
(* that of any other command at once (lircd.cpp:1244).  With less than     *)
(* three clients lircd never waits for one: a removal moves the table, not *)
(* the poll results, and it takes a third one to be read with the second   *)
(* one's result (lircd.cpp:2120).                                          *)
CallsReturn ==
    /\ [](Len(scene.clients) < 3 => ~Blocked)
    /\ \A c \in Clients : C!Returns(c) \/ <>[]Blocked

(* lirc_nextcode() hands a program the events lircd wrote to it, in order, *)
(* each once and whole, also those relayed from another lircd in chunks    *)
(* cut anywhere (lirc_client.c:1879, lircd.cpp:912).                       *)
HeardInOrder ==
    \A c \in Listeners :
        IsPrefix(prog[c].heard, told[c].events) /\ Fragment \notin Range(prog[c].heard)

(* What makes it inductive: the pieces that a listener has read and those  *)
(* on their way to it are the ones lircd wrote, beginning with the first   *)
(* line it has not heard, up to the last one or, if lircd gave it up, up   *)
(* to some piece. *)
PieceOf(L) == [line : L, part : 1..3]
Follows(L, events, heard, buffer, down, srv) ==
    /\ events \in Seq(L) /\ heard \in Seq(L)
    /\ buffer \in Seq(PieceOf(L)) /\ down \in Seq(PieceOf(L))
    /\ Len(heard) <= Len(events) /\ \A i \in 1..Len(heard) : heard[i] = events[i]
    /\ \A i \in 1..Len(buffer) : buffer[i] = PieceAt(events, 3 * Len(heard) + i)
    /\ \A i \in 1..Len(down) : down[i] = PieceAt(events, 3 * Len(heard) + Len(buffer) + i)
    /\ 3 * Len(heard) + Len(buffer) + Len(down) <= 3 * Len(events)
    /\ srv => 3 * Len(heard) + Len(buffer) + Len(down) = 3 * Len(events)

(* A listener says nothing, so that lircd never answers it. *)
Listens(c) ==
    /\ Follows(Line, told[c].events, prog[c].heard, prog[c].buffer, sock[c].down, sock[c].srv)
    /\ sock[c].up = <<>>
    /\ c # daemon.cmd.fd /\ c # daemon.st.repeat.fd
    /\ c \in Range(daemon.clis) => sock[c].srv

(* The records, and the lines of those who speak. *)
DaemonShape ==
    /\ DOMAIN daemon = {"st", "up", "cmd", "left", "clis", "type", "marks", "hups"}
    /\ DOMAIN daemon.cmd = DOMAIN NoCommand
    /\ DOMAIN daemon.st = DOMAIN InitDaemon /\ DOMAIN daemon.st.repeat = DOMAIN NotRepeating
    /\ daemon.left \in Seq(Line) /\ daemon.clis \in Seq(Clients)
    /\ daemon.cmd.fd # None => daemon.cmd.fd \in Clients /\ daemon.cmd.buffer \in Seq(PieceOf(Words))
SockShape ==
    /\ DOMAIN sock = Clients
    /\ \A c \in Clients : DOMAIN sock[c] = DOMAIN Closed /\ sock[c].up \in Seq(PieceOf(Words))
ProgShape ==
    /\ DOMAIN prog = Clients
    /\ \A c \in Clients : /\ DOMAIN prog[c] = DOMAIN Program(scene, c)
                          /\ prog[c].script \in Seq(Words) /\ prog[c].size \in Nat
PeerShape ==
    /\ DOMAIN peer = {"socket", "failure", "wait", "stream", "left", "end", "last", "breaks"}
    /\ peer.stream \in Seq(PieceOf(Line)) /\ peer.last \in Seq(PieceOf(Line)) /\ peer.left \in Seq(Line)
Shape == scene \in Scenes /\ DaemonShape /\ SockShape /\ ProgShape /\ PeerShape

HeardInv == Shape /\ \A c \in Listeners : Listens(c)

(* The commands of a client that writes several at once are executed in    *)
(* order, each once and whole, wherever the packets are cut, whatever the  *)
(* others do and when lircd dies (lircd.cpp:1771).                         *)
PipedInOrder == \A c \in Pipers : IsPrefix(told[c].lines, scene.script[c])

(* What makes it inductive: until the write nothing is executed, and after *)
(* it what get_command() holds and what is still to be read are the pieces *)
(* of the commands not yet executed, as long as the client is kept; the    *)
(* loop is never entered for a client that is gone, or without a newline.  *)
Holds(c) == IF daemon.cmd.fd = c THEN daemon.cmd.buffer ELSE <<>>
Piped(c) ==
    /\ daemon.up /\ daemon.cmd.fd = c =>
          sock[c].srv /\ prog[c].pc = "wrote" /\ Newline(daemon.cmd.buffer) # 0
    /\ \/ /\ prog[c].pc = "call" /\ prog[c].script = scene.script[c]
          /\ told[c].lines = <<>> /\ sock[c].up = <<>>
       \/ /\ prog[c].pc = "wrote"
          /\ IF Served(c)
             THEN Follows(Words, scene.script[c], told[c].lines, Holds(c), sock[c].up, TRUE)
             ELSE Follows(Words, scene.script[c], told[c].lines, <<>>, <<>>, FALSE)
PipedInv == \A c \in Pipers : Piped(c)

(* Both ways, what is written is taken in the end: every command of such a *)
(* client is executed unless lircd dies or is blocked (see CallsReturn),   *)
(* and every event written to a program that is kept is heard by it,       *)
(* without waiting for the socket while a line is in the buffer            *)
(* (lircd.cpp:1771, lirc_client.c:1879).                                   *)
Delivered ==
    \A c \in Clients :
        /\ <>(c \in Pipers /\ ~scene.dies /\ Len(scene.clients) < 3 => told[c].lines = scene.script[c])
        /\ [](c \in Listeners => <>(prog[c].heard = told[c].events \/ ~sock[c].srv \/ Ended(c)))

(* The presses that a program has heard and lircrcd runs the engine for:   *)
(* all of them but one that follows an identical press for which the       *)
(* engine was run and had no strings, as code_func() takes it for the      *)
(* question whether there are more (lircrcd.cpp:362).                      *)
Codes(presses) == [i \in DOMAIN presses |-> presses[i].code]
Strings(presses) == FlattenSeq([i \in DOMAIN presses |-> presses[i].strings])
ToLookUp(heard, presses) ==
    LET taken[i \in 0..Len(heard)] ==       \* which of the first i presses
            LET before == taken[i - 1]
                n == Len(before)
                asksForMore ==
                    /\ i > 1 /\ heard[i] = heard[i - 1] /\ before[n] = i - 1
                    /\ n <= Len(presses) /\ presses[n].strings = <<>>
            IN IF i = 0 THEN <<>> ELSE IF asksForMore THEN before ELSE Append(before, i)
    IN [j \in DOMAIN taken[Len(heard)] |-> heard[taken[Len(heard)][j]]]

(* ircat prints the strings of each press that is looked up once, in their *)
(* order, through a lircrcd that another program uses too, and comes back  *)
(* for the next press (lircrcd.cpp:320, lirc_client.c:1813).  With a third *)
(* program a slot can be used again, and add_client() leaves the strings   *)
(* in it that the former one has not fetched (lircrcd.cpp:272).            *)
OwnSlot(c) == Kind(c) = "ircat" /\ Cardinality({p \in Clients : Kind(p) \in {"ircat", "moder"}}) < 3
AllLookedUp(c) ==
    /\ Codes(told[c].presses) = ToLookUp(prog[c].heard, told[c].presses)
    /\ prog[c].out = Strings(told[c].presses)
PressesAnswered ==
    \A c \in Clients :
        /\ [](OwnSlot(c) => /\ IsPrefix(Codes(told[c].presses), ToLookUp(prog[c].heard, told[c].presses))
                            /\ IsPrefix(prog[c].out, Strings(told[c].presses)))
        /\ [](OwnSlot(c) => <>(AllLookedUp(c) \/ Ended(c)))

(* The connection to another lircd comes back after every loss             *)
(* (lircd.cpp:853).                                                        *)
PeerComesBack == [](scene.peer # <<>> /\ daemon.up => <>(peer.socket = "up" \/ ~daemon.up))

(* Messages of another lircd are not relayed to remote clients, as         *)
(* get_peer_message() says.                                                *)
RelayedLocally == \A c \in scene.remote : Range(told[c].events) \cap Range(scene.peer) = {}
=============================================================================
