-------------------------------- MODULE Lircd --------------------------------
(***************************************************************************)
(* The lircd daemon (daemons/lircd.cpp): one thread that runs the main     *)
(* loop (mywaitfordata), serves the sockets of its clients, and repeats a  *)
(* signal from a timer.                                                    *)
(*                                                                         *)
(* Asynchronous to the loop are the clients (connecting, sending commands, *)
(* hanging up), the infrared receiver, and the signals SIGALRM, SIGHUP and *)
(* SIGTERM, whose handlers only raise a flag that the loop looks at.       *)
(*                                                                         *)
(* The loop is cut into steps where something asynchronous matters: at the *)
(* flag tests, in poll(), in read(), between two commands of one read, and *)
(* between two writes of a broadcast.                                      *)
(*                                                                         *)
(* Config reload and the lifetime of the remotes are module LircdReload;   *)
(* here the remotes are fixed.                                             *)
(***************************************************************************)
EXTENDS Integers, Sequences, FiniteSets

CONSTANTS
    Fds,            \* descriptors the kernel hands out to client connections
    MaxClients,     \* MAX_CLIENTS, the size of clis[]
    Remotes, Codes, \* the names of remotes and buttons in lircd.conf
    NULL,
    MinRepeat,      \* MinRepeat[r]: min_repeat of remote r
    Links,          \* Links[c]: how many further codes hang on code c's ->next
    Xmp,            \* the remotes with the XMP flag
    RepeatMax,      \* repeat_max
    Commands,       \* the commands clients send
    Listening,      \* the listening sockets: CT_REMOTE only with --listen
    Pipelining,     \* do clients send a command before the last is answered?
    Hangups,        \* do clients hang up?
    FullSockets,    \* may a client that does not read leave its socket full?
    Terminations,   \* may SIGTERM arrive?
    InitMayFail,    \* can the driver's init_func fail?
    SendMayFail,    \* can the driver's send_func fail?
    SignalWindows,  \* may SIGALRM arrive between a flag test and what follows?
    MaxConns,       \* bound: connections in all
    MaxCmds,        \* bound: commands per connection
    MaxEvents,      \* bound: decoded button presses and peer messages
    MaxHups         \* bound: SIGHUPs

(* The directives that differ in what they do to the state: "OTHER" stands *)
(* for LIST, VERSION, SET_INPUTLOG, DRV_OPTION, SET_TRANSMITTERS, unknown  *)
(* directives and bad arguments, which only write one reply package.       *)
Ops == {"SEND_ONCE", "SEND_START", "SEND_STOP", "SIMULATE", "OTHER"}

(* An absent <repeats> argument is -1, an absent remote or code NULL. *)
Command == [op : Ops, remote : Remotes \cup {NULL}, code : Codes \cup {NULL}, reps : Int]

(* A command on the wire: the connection it came in on, its number there.  *)
Message == [owner : Nat, n : Nat, cmd : Commands]
Reply == [owner : Nat, n : Nat, ok : BOOLEAN]

ASSUME ServerAssumption ==
    /\ Fds \subseteq Nat
    /\ MaxClients \in Nat \ {0}
    /\ NULL \notin Remotes \cup Codes
    /\ MinRepeat \in [Remotes -> Nat]
    /\ Links \in [Codes -> Nat]
    /\ Xmp \subseteq Remotes
    /\ RepeatMax \in Nat
    /\ Commands \subseteq Command
    /\ \A c \in Commands : c.op \in {"SEND_ONCE", "SEND_START"} =>
            c.remote \in Remotes /\ c.code \in Codes
    /\ Listening \subseteq {"CT_LOCAL", "CT_REMOTE"}
    /\ {Pipelining, Hangups, FullSockets, Terminations, InitMayFail, SendMayFail, SignalWindows} \subseteq BOOLEAN
    /\ {MaxConns, MaxCmds, MaxEvents, MaxHups} \subseteq Nat

VARIABLES
    \* the sockets, as the kernel and the clients see them
    peer,             \* peer[fd]: "none" not open, "open", "closed" hung up
    owner,            \* owner[fd]: which connection fd stands for
    sent,             \* sent[fd]: commands sent on this connection
    inq,              \* inq[fd]: commands not yet read by the daemon
    out,              \* out[fd]: replies written to the connection
    conns,            \* connections made so far
    \* the client table
    clis, cli_type, clin,
    \* the repeat engine
    repeat_remote, repeat_code, repeat_fd, repeat_message,
    repeat_countdown, last_code, transmit_state, timer, alrm,
    \* the other signals, the infrared hardware
    hup, term, hups, events, hw,
    \* the loop
    pc,               \* where the thread is
    i, j,             \* the loop variables over clis[]: commands, broadcast
    revents,          \* what poll() reported
    fd_,              \* the fd argument of get_command
    batch,            \* the commands of one read still to be executed
    ret,              \* where a broadcast returns to
    relay,            \* is the broadcast a relayed peer message?
    \* history: transmissions of the present button press, and how many
    \* repeats the command asked for
    tx, want

sockets == <<peer, owner, sent, inq, out, conns>>
table   == <<clis, cli_type, clin>>
repeats == <<repeat_remote, repeat_code, repeat_fd, repeat_message,
             repeat_countdown, last_code, transmit_state, timer, alrm>>
signals == <<hup, term, hups, events>>
cursor  == <<i, j, revents, fd_, batch, ret, relay>>
history == <<tx, want>>
vars    == <<sockets, table, repeats, signals, hw, pc, cursor, history>>

Slots == 1..MaxClients
Types == {"CT_LOCAL", "CT_REMOTE", "unset"}
NoFd == -1
NoMessage == [owner |-> 0, n |-> 0]
NoEvents == [cli |-> [k \in Slots |-> FALSE], listen |-> {}, peer |-> FALSE,
             driver |-> FALSE]

PCs == {"sighup", "hupclear", "sigalrm", "alrmclear", "prepare", "poll", "clients",
        "read", "command", "simulated", "broadcast", "peers", "accept", "driver", "exit"}

TypeOK ==
    /\ peer \in [Fds -> {"none", "open", "closed"}]
    /\ owner \in [Fds -> Nat] /\ sent \in [Fds -> Nat]
    /\ inq \in [Fds -> Seq(Message)] /\ out \in [Fds -> Seq(Reply)]
    /\ conns \in Nat
    /\ clis \in [Slots -> Fds \cup {NoFd}]
    /\ cli_type \in [Slots -> Types]
    /\ clin \in 0..MaxClients
    /\ repeat_remote \in Remotes \cup {NULL} /\ repeat_code \in Codes \cup {NULL}
    /\ repeat_fd \in Fds \cup {NoFd}
    /\ repeat_message \in [owner : Nat, n : Nat]
    /\ repeat_countdown \in [Remotes -> Int]
    /\ last_code \in [Remotes -> Codes \cup {NULL}]
    /\ transmit_state \in Nat
    /\ {timer, alrm, hup, term, hw} \subseteq BOOLEAN
    /\ hups \in Nat /\ events \in Nat
    /\ pc \in PCs
    /\ i \in 1..MaxClients + 1 /\ j \in 1..MaxClients + 1
    /\ revents \in [cli : [Slots -> BOOLEAN], listen : SUBSET Listening,
                    peer : BOOLEAN, driver : BOOLEAN]
    /\ fd_ \in Fds \cup {NoFd}
    /\ batch \in Seq(Message)
    /\ ret \in {"hupclear", "simulated", "sighup", "accept"} /\ relay \in BOOLEAN
    /\ tx \in Nat /\ want \in Int

Init ==
    /\ peer = [f \in Fds |-> "none"]
    /\ owner = [f \in Fds |-> 0] /\ sent = [f \in Fds |-> 0]
    /\ inq = [f \in Fds |-> <<>>] /\ out = [f \in Fds |-> <<>>]
    /\ conns = 0
    /\ clis = [k \in Slots |-> NoFd]
    /\ cli_type = [k \in Slots |-> "unset"]
    /\ clin = 0
    /\ repeat_remote = NULL /\ repeat_code = NULL
    /\ repeat_fd = NoFd /\ repeat_message = NoMessage
    /\ repeat_countdown = [r \in Remotes |-> 0]
    /\ last_code = [r \in Remotes |-> NULL]
    /\ transmit_state = 0
    /\ timer = FALSE /\ alrm = FALSE /\ hup = FALSE /\ term = FALSE
    /\ hups = 0 /\ events = 0
    /\ hw = FALSE
    /\ pc = "sighup" /\ i = 1 /\ j = 1 /\ revents = NoEvents
    /\ fd_ = NoFd /\ batch = <<>> /\ ret = "sighup" /\ relay = FALSE
    /\ tx = 0 /\ want = 0

-----------------------------------------------------------------------------
(* Helpers of the handlers *)

(* use_hw(), for a number of clients and a repeat_remote. *)
use_hw(n, remote) == n > 0 \/ remote # NULL

Max2(a, b) == IF a > b THEN a ELSE b

(* Can write_socket() write a package to fd?  A hung up peer may or may    *)
(* not be noticed by a write, a descriptor that is not open always fails,  *)
(* and when the socket of a client that does not read stays full, the      *)
(* retries after EAGAIN run out.                                           *)
write_socket(fd) ==
    CASE fd \notin Fds \/ (fd \in Fds /\ peer[fd] = "none") -> {FALSE}
      [] fd \in Fds /\ peer[fd] = "open" /\ ~FullSockets -> {TRUE}
      [] OTHER -> BOOLEAN

(* send_success() and send_error(): the reply package reaches a client     *)
(* that still listens. *)
send_reply(fd, msg, ok, written) ==
    out' = IF written /\ peer[fd] = "open"
           THEN [out EXCEPT ![fd] = Append(@, [owner |-> msg.owner, n |-> msg.n, ok |-> ok])]
           ELSE out

remove_client_mutant(fd) ==      \* the shift starts one slot too late
    IF \E k \in 1..clin : clis[k] = fd
    THEN \E k \in 1..clin :
            /\ clis[k] = fd /\ \A m \in 1..k - 1 : clis[m] # fd
            /\ clis' = [m \in Slots |-> IF m > k /\ m < clin THEN clis[m + 1] ELSE clis[m]]
            /\ clin' = clin - 1
            /\ peer' = [peer EXCEPT ![fd] = "none"]
            /\ inq' = [inq EXCEPT ![fd] = <<>>]
            /\ hw' = (hw /\ use_hw(clin - 1, repeat_remote'))
            /\ UNCHANGED <<cli_type, owner, sent, conns>>
    ELSE UNCHANGED <<table, peer, inq, owner, sent, conns, hw>>

(* remove_client(fd): close fd, close the gap in clis[] (the entries of    *)
(* cli_type[] stay where they are), release unused hardware.               *)
remove_client(fd) ==
    IF \E k \in 1..clin : clis[k] = fd
    THEN \E k \in 1..clin :
            /\ clis[k] = fd /\ \A m \in 1..k - 1 : clis[m] # fd
            /\ clis' = [m \in Slots |-> IF m >= k /\ m < clin THEN clis[m + 1] ELSE clis[m]]
            /\ clin' = clin - 1
            /\ peer' = [peer EXCEPT ![fd] = "none"]
            /\ inq' = [inq EXCEPT ![fd] = <<>>]
            /\ hw' = (hw /\ use_hw(clin - 1, repeat_remote'))
            /\ UNCHANGED <<cli_type, owner, sent, conns>>
    ELSE UNCHANGED <<table, peer, inq, owner, sent, conns, hw>>

(* get_command() goes on after a handler returned 1: with the next line of *)
(* the read, or back to the client loop. *)
next_command ==
    /\ batch' = Tail(batch)
    /\ IF Len(batch) = 1 THEN pc' = "clients" /\ i' = i + 1
                         ELSE pc' = "command" /\ UNCHANGED i
    /\ UNCHANGED <<peer, owner, sent, inq, conns, table, hw>>

(* get_command() returned 0: mywaitfordata() removes clis[i], which it     *)
(* reads again, and looks at slot i once more. *)
drop_client ==
    /\ remove_client(clis[i])
    /\ batch' = <<>>
    /\ pc' = "clients"
    /\ UNCHANGED i

(* A handler that ends by writing one reply. *)
answer(ok) ==
    \E w \in write_socket(fd_) :
        /\ send_reply(fd_, Head(batch), ok, w)
        /\ IF w THEN next_command ELSE drop_client
        /\ UNCHANGED <<j, revents, fd_, ret, relay>>

(* transmit_state after sending: it walks the ->next chain of the code,    *)
(* and starts over at code->next for XMP remotes. *)
next_transmit_state(remote, code, s) ==
    IF Links[code] = 0 THEN s
    ELSE IF s < Links[code] THEN s + 1
    ELSE IF remote \in Xmp THEN 1 ELSE 0

-----------------------------------------------------------------------------
(* Signals: the handlers raise a flag; in poll() they also interrupt it    *)
(* (EINTR), and the loop starts over with the flag tests.                  *)

interrupted == IF pc = "poll" THEN "sighup" ELSE pc

(* ITIMER_REAL expires.  The instructions between the test of alrm and the *)
(* poll() call, and between dosigalrm() and "alrm = 0", are windows of a   *)
(* few instructions. *)
sigalrm ==
    /\ timer
    /\ pc \in {"prepare", "alrmclear"} => SignalWindows
    /\ timer' = FALSE /\ alrm' = TRUE
    /\ pc' = interrupted
    /\ UNCHANGED <<sockets, table, repeat_remote, repeat_code, repeat_fd, repeat_message,
                   repeat_countdown, last_code, transmit_state, signals, hw, cursor, history>>

sighup ==
    /\ hups < MaxHups
    /\ hups' = hups + 1 /\ hup' = TRUE
    /\ pc' = interrupted
    /\ UNCHANGED <<sockets, table, repeats, term, events, hw, cursor, history>>

sigterm ==
    /\ Terminations /\ ~term
    /\ term' = TRUE
    /\ pc' = interrupted
    /\ UNCHANGED <<sockets, table, repeats, hup, hups, events, hw, cursor, history>>

-----------------------------------------------------------------------------
(* Clients *)

(* The client has every answer it waits for. *)
Idle(fd) == \E k \in 1..Len(out[fd]) : out[fd][k].owner = owner[fd] /\ out[fd][k].n = sent[fd]

client_send(fd) ==
    /\ peer[fd] = "open"
    /\ sent[fd] < MaxCmds
    /\ Pipelining \/ sent[fd] = 0 \/ Idle(fd)
    /\ sent' = [sent EXCEPT ![fd] = @ + 1]
    /\ \E c \in Commands :
          inq' = [inq EXCEPT ![fd] = Append(@, [owner |-> owner[fd], n |-> sent[fd] + 1, cmd |-> c])]
    /\ UNCHANGED <<peer, owner, out, conns, table, repeats, signals, hw, pc, cursor, history>>

client_close(fd) ==
    /\ Hangups /\ peer[fd] = "open"
    /\ peer' = [peer EXCEPT ![fd] = "closed"]
    /\ UNCHANGED <<owner, sent, inq, out, conns, table, repeats, signals, hw, pc, cursor,
                   history>>

-----------------------------------------------------------------------------
(* Signal handling at the top of the loop *)

dosigterm ==
    /\ pc = "sighup" /\ term
    /\ timer' = FALSE                    \* SIGALRM is ignored from here on
    /\ repeat_remote' = NULL
    /\ peer' = [fd \in Fds |-> "none"]
    /\ hw' = (hw /\ ~use_hw(clin, NULL))
    /\ pc' = "exit"
    /\ UNCHANGED <<owner, sent, inq, out, conns, table, repeat_code, repeat_fd,
                   repeat_message, repeat_countdown, last_code, transmit_state, alrm,
                   signals, cursor, history>>

(* The SIGHUP package goes to every client whether config() worked or not. *)
dosighup ==
    /\ pc = "sighup" /\ ~term
    /\ IF hup THEN pc' = "broadcast" /\ j' = 1 /\ ret' = "hupclear" /\ relay' = FALSE
              ELSE pc' = "sigalrm" /\ UNCHANGED <<j, ret, relay>>
    /\ UNCHANGED <<sockets, table, repeats, signals, hw, i, revents, fd_, batch, history>>

hup_clear ==
    /\ pc = "hupclear"
    /\ hup' = FALSE
    /\ pc' = "sigalrm"
    /\ UNCHANGED <<sockets, table, repeats, term, hups, events, hw, cursor, history>>

no_alarm ==
    /\ pc = "sigalrm" /\ ~alrm
    /\ pc' = "prepare"
    /\ UNCHANGED <<sockets, table, repeats, signals, hw, cursor, history>>

stop_repeating_mutant1(ok) ==    \* repeat_fd is not reset
    /\ repeat_remote' = NULL /\ repeat_code' = NULL
    /\ IF repeat_fd # NoFd
       THEN \E w \in write_socket(repeat_fd) : send_reply(repeat_fd, repeat_message, ok, w)
       ELSE UNCHANGED out
    /\ UNCHANGED <<repeat_fd, repeat_message>>
    /\ hw' = (hw /\ use_hw(clin, NULL))

stop_repeating_mutant2(ok) ==    \* the hardware is not released
    /\ repeat_remote' = NULL /\ repeat_code' = NULL
    /\ IF repeat_fd # NoFd
       THEN \E w \in write_socket(repeat_fd) : send_reply(repeat_fd, repeat_message, ok, w)
       ELSE UNCHANGED out
    /\ repeat_fd' = NoFd /\ repeat_message' = NoMessage
    /\ UNCHANGED hw

stop_repeating_mutant3(ok) ==    \* the waiting client is told about success only
    /\ repeat_remote' = NULL /\ repeat_code' = NULL
    /\ IF repeat_fd # NoFd /\ ok
       THEN \E w \in write_socket(repeat_fd) : send_reply(repeat_fd, repeat_message, ok, w)
       ELSE UNCHANGED out
    /\ repeat_fd' = NoFd /\ repeat_message' = NoMessage
    /\ hw' = (hw /\ use_hw(clin, NULL))

(* Leave the repeat; whoever waits for it is told. *)
stop_repeating(ok) ==
    /\ repeat_remote' = NULL /\ repeat_code' = NULL
    /\ IF repeat_fd # NoFd
       THEN \E w \in write_socket(repeat_fd) : send_reply(repeat_fd, repeat_message, ok, w)
       ELSE UNCHANGED out
    /\ repeat_fd' = NoFd /\ repeat_message' = NoMessage
    /\ hw' = (hw /\ use_hw(clin, NULL))

(* A different button of the remote was received meanwhile. *)
repeat_interrupted ==
    /\ pc = "sigalrm" /\ alrm
    /\ last_code[repeat_remote] # repeat_code
    /\ stop_repeating(FALSE)
    /\ pc' = "alrmclear"
    /\ UNCHANGED <<peer, owner, sent, inq, conns, table, repeat_countdown, last_code,
                   transmit_state, timer, alrm, signals, cursor, history>>

(* Send the code once more; re-arm the timer unless that was the last one. *)
repeat_send ==
    /\ pc = "sigalrm" /\ alrm
    /\ last_code[repeat_remote] = repeat_code
    /\ LET r == repeat_remote
           c == repeat_code
           left == IF Links[c] = 0 \/ (transmit_state # 0 /\ transmit_state = Links[c])
                   THEN repeat_countdown[r] - 1 ELSE repeat_countdown[r]
       IN \E ok \in IF SendMayFail THEN BOOLEAN ELSE {TRUE} :
            /\ repeat_countdown' = [repeat_countdown EXCEPT ![r] = left]
            /\ transmit_state' = IF ok THEN next_transmit_state(r, c, transmit_state)
                                       ELSE transmit_state
            /\ tx' = IF ok THEN tx + 1 ELSE tx
            /\ IF ok /\ left > 0
               THEN /\ timer' = TRUE
                    /\ UNCHANGED <<repeat_remote, repeat_code, repeat_fd, repeat_message, out, hw>>
               ELSE /\ stop_repeating(TRUE)
                    /\ UNCHANGED timer
    /\ pc' = "alrmclear"
    /\ UNCHANGED <<peer, owner, sent, inq, conns, table, last_code, alrm, signals, cursor,
                   want>>

alrm_clear ==
    /\ pc = "alrmclear"
    /\ alrm' = FALSE
    /\ pc' = "prepare"
    /\ UNCHANGED <<sockets, table, repeat_remote, repeat_code, repeat_fd, repeat_message,
                   repeat_countdown, last_code, transmit_state, timer, signals, hw, cursor, history>>

enter_poll ==
    /\ pc = "prepare"
    /\ pc' = "poll"
    /\ UNCHANGED <<sockets, table, repeats, signals, hw, cursor, history>>

-----------------------------------------------------------------------------
(* poll() and what it reports *)

(* Clients with data or end of file; the one that waits for the end of its *)
(* SEND_ONCE is not in the poll set. *)
readable(k) ==
    /\ k <= clin
    /\ clis[k] # repeat_fd
    /\ inq[clis[k]] # <<>> \/ peer[clis[k]] = "closed"

(* init_func, called by add_client() and retried after every poll(). *)
init_func == IF InitMayFail THEN BOOLEAN ELSE {TRUE}

poll_return ==
    /\ pc = "poll"
    /\ \E L \in SUBSET Listening, p \in BOOLEAN, d \in BOOLEAN :
          /\ conns + Cardinality(L) <= MaxConns
          /\ p \/ d => events < MaxEvents
          /\ d => hw /\ use_hw(clin, repeat_remote)
          /\ \/ L # {} \/ p \/ d
             \/ \E k \in Slots : readable(k)
             \/ ~hw /\ use_hw(clin, repeat_remote)      \* the reconnect timeout
          /\ revents' = [cli |-> [k \in Slots |-> readable(k)],
                         listen |-> L, peer |-> p, driver |-> d]
    /\ IF ~hw /\ use_hw(clin, repeat_remote) THEN hw' \in init_func ELSE UNCHANGED hw
    /\ i' = 1
    /\ pc' = "clients"
    /\ UNCHANGED <<sockets, table, repeats, signals, j, fd_, batch, ret, relay, history>>

(* The next slot that poll() marked: slots, not clients. *)
serve_client ==
    /\ pc = "clients"
    /\ \E k \in i..clin :
          /\ revents.cli[k] /\ \A m \in i..k - 1 : ~revents.cli[m]
          /\ i' = k
          /\ revents' = [revents EXCEPT !.cli[k] = FALSE]
          /\ fd_' = clis[k]
    /\ pc' = "read"
    /\ UNCHANGED <<sockets, table, repeats, signals, hw, j, batch, ret, relay, history>>

clients_served ==
    /\ pc = "clients"
    /\ \A k \in i..clin : ~revents.cli[k]
    /\ i' = 1 /\ fd_' = NoFd
    /\ revents' = [revents EXCEPT !.cli = [k \in Slots |-> FALSE]]
    /\ pc' = "peers"
    /\ UNCHANGED <<sockets, table, repeats, signals, hw, j, batch, ret, relay, history>>

-----------------------------------------------------------------------------
(* get_command(): read() blocks until there is something to read. *)

read_commands ==
    /\ pc = "read" /\ inq[fd_] # <<>>
    /\ \E n \in 1..Len(inq[fd_]) :
          /\ batch' = SubSeq(inq[fd_], 1, n)
          /\ inq' = [inq EXCEPT ![fd_] = SubSeq(@, n + 1, Len(@))]
    /\ pc' = "command"
    /\ UNCHANGED <<peer, owner, sent, out, conns, table, repeats, signals, hw, i, j,
                   revents, fd_, ret, relay, history>>

read_eof ==
    /\ pc = "read" /\ inq[fd_] = <<>> /\ peer[fd_] = "closed"
    /\ UNCHANGED repeats
    /\ drop_client
    /\ UNCHANGED <<out, signals, j, revents, fd_, ret, relay, history>>

cmd == Head(batch).cmd
executing(op) == pc = "command" /\ cmd.op = op

other_directive ==
    /\ executing("OTHER")
    /\ UNCHANGED <<repeats, signals, history>>
    /\ \E ok \in BOOLEAN : answer(ok)

(* send_core(), refused: too many repeats, or a repeat is under way. *)
too_many == cmd.op = "SEND_ONCE" /\ cmd.reps > RepeatMax

send_refused ==
    /\ executing("SEND_ONCE") \/ executing("SEND_START")
    /\ too_many \/ repeat_remote # NULL
    /\ UNCHANGED <<repeats, signals, history>>
    /\ answer(FALSE)

send_failed ==
    /\ executing("SEND_ONCE") \/ executing("SEND_START")
    /\ ~too_many /\ repeat_remote = NULL /\ SendMayFail
    /\ repeat_countdown' = [repeat_countdown EXCEPT ![cmd.remote] = MinRepeat[cmd.remote]]
    /\ transmit_state' = 0
    /\ UNCHANGED <<repeat_remote, repeat_code, repeat_fd, repeat_message, last_code, timer, alrm,
                   signals, history>>
    /\ answer(FALSE)

countdown_mutant ==              \* <repeats> overrides min_repeat
    IF cmd.op # "SEND_ONCE" THEN RepeatMax
    ELSE IF cmd.reps < 0 THEN MinRepeat[cmd.remote] ELSE cmd.reps

(* repeats left after the first transmission *)
countdown == IF cmd.op = "SEND_ONCE" THEN Max2(MinRepeat[cmd.remote], cmd.reps) ELSE RepeatMax

first_sent_mutant ==             \* <repeats> is ignored where the countdown is set
    /\ executing("SEND_ONCE") \/ executing("SEND_START")
    /\ ~too_many /\ repeat_remote = NULL
    /\ last_code' = [last_code EXCEPT ![cmd.remote] = cmd.code]
    /\ repeat_countdown' = [repeat_countdown EXCEPT ![cmd.remote] = MinRepeat[cmd.remote]]
    /\ transmit_state' = next_transmit_state(cmd.remote, cmd.code, 0)
    /\ tx' = 1 /\ want' = countdown
    /\ UNCHANGED <<alrm, signals>>

(* The first transmission went out: send_core() up to the decision whether *)
(* the timer has to send more. *)
first_sent ==
    /\ executing("SEND_ONCE") \/ executing("SEND_START")
    /\ ~too_many /\ repeat_remote = NULL
    /\ last_code' = [last_code EXCEPT ![cmd.remote] = cmd.code]
    /\ repeat_countdown' = [repeat_countdown EXCEPT ![cmd.remote] = countdown]
    /\ transmit_state' = next_transmit_state(cmd.remote, cmd.code, 0)
    /\ tx' = 1 /\ want' = countdown
    /\ UNCHANGED <<alrm, signals>>

more_to_send == countdown > 0 \/ Links[cmd.code] > 0

send_single ==
    /\ first_sent
    /\ ~more_to_send
    /\ UNCHANGED <<repeat_remote, repeat_code, repeat_fd, repeat_message, timer>>
    /\ answer(TRUE)

(* SEND_ONCE is answered when the repeats are done. *)
send_once ==
    /\ first_sent
    /\ cmd.op = "SEND_ONCE" /\ more_to_send
    /\ repeat_remote' = cmd.remote /\ repeat_code' = cmd.code
    /\ repeat_fd' = fd_
    /\ repeat_message' = [owner |-> Head(batch).owner, n |-> Head(batch).n]
    /\ timer' = TRUE
    /\ next_command
    /\ UNCHANGED <<out, j, revents, fd_, ret, relay>>

send_start_mutant ==             \* the timer is not started
    /\ first_sent
    /\ cmd.op = "SEND_START" /\ more_to_send
    /\ UNCHANGED <<repeat_fd, repeat_message, timer>>
    /\ \E w \in write_socket(fd_) :
          /\ send_reply(fd_, Head(batch), TRUE, w)
          /\ IF w
             THEN repeat_remote' = cmd.remote /\ repeat_code' = cmd.code /\ next_command
             ELSE repeat_remote' = NULL /\ repeat_code' = NULL /\ drop_client
    /\ UNCHANGED <<j, revents, fd_, ret, relay>>

(* SEND_START is answered at once; if that fails there is no repeat. *)
send_start ==
    /\ first_sent
    /\ cmd.op = "SEND_START" /\ more_to_send
    /\ UNCHANGED <<repeat_fd, repeat_message>>
    /\ \E w \in write_socket(fd_) :
          /\ send_reply(fd_, Head(batch), TRUE, w)
          /\ timer' = (w \/ timer)
          /\ IF w
             THEN repeat_remote' = cmd.remote /\ repeat_code' = cmd.code /\ next_command
             ELSE repeat_remote' = NULL /\ repeat_code' = NULL /\ drop_client
    /\ UNCHANGED <<j, revents, fd_, ret, relay>>

stop_refused ==
    /\ executing("SEND_STOP")
    /\ \/ repeat_remote = NULL
       \/ cmd.remote \notin {NULL, repeat_remote}
       \/ cmd.code \notin {NULL, repeat_code}
    /\ UNCHANGED <<repeats, signals, history>>
    /\ answer(FALSE)

stop_matches ==
    /\ executing("SEND_STOP")
    /\ repeat_remote # NULL
    /\ cmd.remote \in {NULL, repeat_remote} /\ cmd.code \in {NULL, repeat_code}

(* send_stop()'s idea of the repeats done so far *)
done == RepeatMax - repeat_countdown[repeat_remote]

(* Not yet min_repeat repeats: let the timer do the rest. *)
stop_later ==
    /\ stop_matches /\ done < MinRepeat[repeat_remote]
    /\ repeat_countdown' = [repeat_countdown EXCEPT ![repeat_remote] = MinRepeat[repeat_remote] - done]
    /\ want' = MinRepeat[repeat_remote]
    /\ UNCHANGED <<repeat_remote, repeat_code, repeat_fd, repeat_message, last_code, transmit_state,
                   timer, alrm, signals, tx>>
    /\ answer(TRUE)

stop_now_mutant ==               \* an alarm that went off already stays
    /\ stop_matches /\ done >= MinRepeat[repeat_remote]
    /\ timer' = FALSE
    /\ repeat_remote' = NULL /\ repeat_code' = NULL
    /\ UNCHANGED <<repeat_fd, repeat_message, repeat_countdown, last_code, transmit_state, alrm,
                   signals, history>>
    /\ answer(TRUE)

(* Disarm the timer and forget an alarm that went off already. *)
stop_now ==
    /\ stop_matches /\ done >= MinRepeat[repeat_remote]
    /\ timer' = FALSE /\ alrm' = FALSE
    /\ repeat_remote' = NULL /\ repeat_code' = NULL
    /\ UNCHANGED <<repeat_fd, repeat_message, repeat_countdown, last_code, transmit_state, signals,
                   history>>
    /\ answer(TRUE)

simulate ==
    /\ executing("SIMULATE")
    /\ pc' = "broadcast" /\ j' = 1 /\ ret' = "simulated" /\ relay' = FALSE
    /\ UNCHANGED <<sockets, table, repeats, signals, hw, i, revents, fd_, batch, history>>

simulate_answer ==
    /\ pc = "simulated"
    /\ UNCHANGED <<repeats, signals, history>>
    /\ answer(TRUE)

-----------------------------------------------------------------------------
(* broadcast_message(), the SIGHUP loop, and the relay of get_peer_message: *)
(* write to one client after the other, remove those that cannot be        *)
(* written to.  A relayed message skips the slots marked CT_REMOTE.        *)

skipped == relay /\ cli_type[j] = "CT_REMOTE"

broadcast_write ==
    /\ pc = "broadcast" /\ j <= clin
    /\ IF skipped
       THEN j' = j + 1 /\ UNCHANGED <<sockets, table, hw>>
       ELSE \E w \in write_socket(clis[j]) :
              IF w THEN j' = j + 1 /\ UNCHANGED <<sockets, table, hw>>
                   ELSE UNCHANGED <<repeats, j, out>> /\ remove_client(clis[j])
    /\ UNCHANGED <<repeats, signals, pc, i, revents, fd_, batch, ret, relay, history>>

broadcast_done ==
    /\ pc = "broadcast" /\ j > clin
    /\ j' = 1
    /\ pc' = ret
    /\ UNCHANGED <<sockets, table, repeats, signals, hw, i, revents, fd_, batch, ret, relay, history>>

(* get_peer_message() *)
peer_message ==
    /\ pc = "peers"
    /\ IF revents.peer
       THEN /\ pc' = "broadcast" /\ j' = 1 /\ ret' = "accept" /\ relay' = TRUE
            /\ events' = events + 1
       ELSE pc' = "accept" /\ UNCHANGED <<j, ret, relay, events>>
    /\ revents' = [revents EXCEPT !.peer = FALSE]
    /\ UNCHANGED <<sockets, table, repeats, hup, term, hups, hw, i, fd_, batch, history>>

-----------------------------------------------------------------------------
(* add_client(): the kernel returns the lowest descriptor not in use. *)

add_client(type) ==
    /\ conns' = conns + 1
    /\ IF clin = MaxClients
       THEN UNCHANGED <<peer, owner, sent, inq, out, table, hw>>
       ELSE \E fd \in Fds :
              /\ peer[fd] = "none" /\ \A f \in Fds : f < fd => peer[f] # "none"
              /\ peer' = [peer EXCEPT ![fd] = "open"]
              /\ owner' = [owner EXCEPT ![fd] = conns']
              /\ sent' = [sent EXCEPT ![fd] = 0]
              /\ inq' = [inq EXCEPT ![fd] = <<>>] /\ out' = [out EXCEPT ![fd] = <<>>]
              /\ cli_type' = [cli_type EXCEPT ![clin + 1] = type]
              /\ clis' = [clis EXCEPT ![clin + 1] = fd]
              /\ clin' = clin + 1
              /\ IF use_hw(clin, repeat_remote) THEN UNCHANGED hw ELSE hw' \in init_func

accept_client ==
    /\ pc = "accept" /\ revents.listen # {}
    /\ LET type == IF "CT_LOCAL" \in revents.listen THEN "CT_LOCAL" ELSE "CT_REMOTE"
       IN /\ revents' = [revents EXCEPT !.listen = @ \ {type}]
          /\ add_client(type)
    /\ UNCHANGED <<repeats, signals, pc, i, j, fd_, batch, ret, relay, history>>

all_accepted ==
    /\ pc = "accept" /\ revents.listen = {}
    /\ pc' = "driver"
    /\ UNCHANGED <<sockets, table, repeats, signals, hw, cursor, history>>

-----------------------------------------------------------------------------
(* The receiver: rec_func() decodes a button, or nothing, and the message  *)
(* goes to all clients. *)

receive ==
    /\ pc = "driver"
    /\ revents.driver /\ hw /\ use_hw(clin, repeat_remote)
    /\ events' = events + 1
    /\ revents' = NoEvents
    /\ \/ /\ \E r \in Remotes, c \in Codes : last_code' = [last_code EXCEPT ![r] = c]
          /\ pc' = "broadcast" /\ j' = 1 /\ ret' = "sighup" /\ relay' = FALSE
       \/ pc' = "sighup" /\ UNCHANGED <<last_code, j, ret, relay>>
    /\ UNCHANGED <<sockets, table, repeat_remote, repeat_code, repeat_fd, repeat_message,
                   repeat_countdown, transmit_state, timer, alrm, hup, term, hups, hw, i, fd_,
                   batch, history>>

nothing_received ==
    /\ pc = "driver"
    /\ ~(revents.driver /\ hw /\ use_hw(clin, repeat_remote))
    /\ revents' = NoEvents
    /\ pc' = "sighup"
    /\ UNCHANGED <<sockets, table, repeats, signals, hw, i, j, fd_, batch, ret, relay, history>>

-----------------------------------------------------------------------------

Daemon ==
    \/ dosigterm \/ dosighup \/ hup_clear \/ no_alarm \/ repeat_interrupted \/ repeat_send
    \/ alrm_clear \/ enter_poll \/ poll_return \/ serve_client \/ clients_served
    \/ read_commands \/ read_eof \/ other_directive \/ send_refused \/ send_failed
    \/ send_single \/ send_once \/ send_start \/ stop_refused \/ stop_later \/ stop_now
    \/ simulate \/ simulate_answer \/ broadcast_write \/ broadcast_done \/ peer_message
    \/ accept_client \/ all_accepted \/ receive \/ nothing_received

Environment ==
    /\ pc # "exit"
    /\ \/ sigalrm \/ sighup \/ sigterm
       \/ \E fd \in Fds : client_send(fd) \/ client_close(fd)

Next == Daemon \/ Environment

Spec == Init /\ [][Next]_vars

-----------------------------------------------------------------------------
(* Safety *)

(* dosigalrm() dereferences repeat_remote without a test: at every point   *)
(* where the alarm flag can be seen, or the timer can still go off, there  *)
(* is a repeat.  send_stop() and the end of a repeat must leave no alarm   *)
(* behind, so the timer is never armed anew on top of a pending alarm.     *)
AlarmHasRepeat ==
    /\ timer => repeat_remote # NULL
    /\ timer /\ alrm => pc = "alrmclear"
    /\ alrm /\ pc \notin {"alrmclear", "exit"} => repeat_remote # NULL

(* The converse: a repeat never loses its timer. *)
RepeatHasAlarm == repeat_remote # NULL => timer \/ alrm

(* While the daemon waits for events the hardware is open exactly if       *)
(* use_hw(): whoever goes last, a client or a repeat, releases it, on      *)
(* every path out of a command, a broadcast and the timer.                 *)
HwMatchesUse ==
    pc = "poll" => /\ hw => use_hw(clin, repeat_remote)
                   /\ use_hw(clin, repeat_remote) /\ ~InitMayFail => hw

(* A client gets at most one answer to each of its own commands, in the    *)
(* order it sent them ("Otherwise we could mix up answer packets and send  *)
(* them back in the wrong order").                                         *)
AnswersInOrder ==
    \A fd \in Fds : \A k \in 1..Len(out[fd]) :
        /\ out[fd][k].owner = owner[fd]
        /\ out[fd][k].n <= sent[fd]
        /\ k > 1 => out[fd][k - 1].n < out[fd][k].n

(* The client table: the first clin slots hold different open sockets, and *)
(* every open socket is in the table, so that none is leaked or closed     *)
(* twice by the shifting in remove_client(). *)
TableMatchesSockets ==
    pc # "exit" =>
        /\ \A k, m \in 1..clin : clis[k] = clis[m] => k = m
        /\ \A fd \in Fds : peer[fd] # "none" <=> \E k \in 1..clin : clis[k] = fd

(* While a code without ->next is repeated, transmissions done and left    *)
(* add up to what the command asked for. *)
RepeatAccounting ==
    repeat_remote # NULL /\ pc # "exit" =>
        (Links[repeat_code] = 0 => tx + repeat_countdown[repeat_remote] = want + 1)

(* "code is repeated at least x times": a repeat does not end before       *)
(* min_repeat repeats are out, unless another button interrupted it, the   *)
(* transmitter failed, or the daemon ends.  It holds of repeats that       *)
(* nobody stops: send_stop() counts from repeat_max, whatever was asked.   *)
MinRepeatHonoured ==
    [][ /\ repeat_remote # NULL /\ repeat_remote' = NULL /\ pc' # "exit"
        /\ Links[repeat_code] = 0 /\ last_code[repeat_remote] = repeat_code
        /\ pc' = "alrmclear" => tx' # tx
        => tx' > MinRepeat[repeat_remote] ]_vars

-----------------------------------------------------------------------------
(* The inductive invariant behind TypeOK, AlarmHasRepeat, HwMatchesUse and *)
(* TableMatchesSockets; module LircdProofs proves it for all constants.    *)

simulating == pc = "simulated" \/ (pc = "broadcast" /\ ret = "simulated")

(* What the loop variables mean at each point of the loop. *)
LoopInv ==
    /\ \A k \in 1..clin : clis[k] \in Fds
    /\ pc \in {"read", "command"} \/ simulating => i \in Slots /\ fd_ \in Fds
    /\ pc \in {"read", "command"} => clin > 0
    /\ pc = "command" \/ simulating => batch # <<>>
    /\ pc # "exit" => (repeat_remote = NULL <=> repeat_code = NULL)

(* HwMatchesUse at every point of the loop. *)
HwInv ==
    pc # "exit" => /\ hw => use_hw(clin, repeat_remote)
                   /\ use_hw(clin, repeat_remote) /\ ~InitMayFail => hw

(* The conjunction that every step of the daemon preserves. *)
IndInv == TypeOK /\ LoopInv /\ TableMatchesSockets /\ AlarmHasRepeat /\ HwInv

(* RepeatHasAlarm, and between dosigalrm() and "alrm = 0" it is the timer  *)
(* that carries the repeat on.                                             *)
TimerInv == repeat_remote # NULL => timer \/ (alrm /\ pc # "alrmclear")

(* RepeatAccounting, and what was asked for is never less than min_repeat, *)
(* if repeat_max, the count that SEND_START begins with, is not.           *)
CountInv ==
    repeat_remote # NULL =>
        /\ Links[repeat_code] = 0 => tx + repeat_countdown[repeat_remote] = want + 1
        /\ MinRepeat[repeat_remote] <= RepeatMax => MinRepeat[repeat_remote] <= want

(* The answer to msg is due on fd: it is the last command the client sent, *)
(* and the answers the client has are to earlier ones. *)
Due(fd, msg) ==
    /\ msg.owner = owner[fd] /\ msg.n = sent[fd] /\ sent[fd] > 0
    /\ \A k \in 1..Len(out[fd]) : out[fd][k].n < sent[fd]

(* AnswersInOrder, for clients that wait for their answers, and where the  *)
(* answer to come is: a client has at most one command under way, which is *)
(* in its socket, being executed, or the SEND_ONCE that is being repeated. *)
AnswerInv ==
    /\ AnswersInOrder
    /\ \A fd \in Fds : inq[fd] # <<>> => /\ Len(inq[fd]) = 1 /\ Due(fd, inq[fd][1])
                                         /\ repeat_fd # fd
    /\ pc = "read" \/ pc = "command" \/ simulating => repeat_fd # fd_
    /\ pc = "command" \/ simulating => /\ Len(batch) = 1 /\ Due(fd_, batch[1])
                                       /\ inq[fd_] = <<>>
    /\ repeat_fd # NoFd => Due(repeat_fd, repeat_message)

(* As long as no client hangs up and no socket is full the table only      *)
(* grows: a client keeps its slot, and poll() did not mark the slot of the *)
(* one that waits.                                                         *)
StayInv ==
    pc # "exit" =>
        /\ \A fd \in Fds : peer[fd] # "closed"
        /\ repeat_fd # NoFd => peer[repeat_fd] = "open"
        /\ pc \in {"read", "command"} \/ simulating =>
                i <= clin /\ clis[i] = fd_ /\ ~revents.cli[i]
        /\ pc \in {"clients", "read", "command"} \/ simulating =>
                \A k \in 1..clin : revents.cli[k] => clis[k] # repeat_fd

-----------------------------------------------------------------------------
(* Liveness *)

(* The thread runs on whenever it is not blocked in poll() or read(), and  *)
(* an armed timer expires. *)
FairSpec == Spec /\ WF_vars(Daemon) /\ WF_vars(sigalrm)

answered(fd, n) ==
    \E k \in 1..Len(out[fd]) : out[fd][k].owner = owner[fd] /\ out[fd][k].n = n

(* "For each command, lircd replies with a reply package": as long as the  *)
(* client stays connected, every command is answered in the end, also the  *)
(* SEND_ONCE whose answer has to wait for the timer. *)
EveryCommandAnswered ==
    \A fd \in Fds, o \in 1..MaxConns, n \in 1..MaxCmds :
        (owner[fd] = o /\ peer[fd] = "open" /\ sent[fd] >= n)
            ~> (owner[fd] # o \/ peer[fd] # "open" \/ answered(fd, n))

=============================================================================
