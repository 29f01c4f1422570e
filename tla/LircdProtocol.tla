---------------------------- MODULE LircdProtocol ----------------------------
(***************************************************************************)
(* The command protocol of lircd (daemons/lircd.cpp): what each directive  *)
(* does with its arguments and the package it answers with.                *)
(*                                                                         *)
(* A directive gives [out |-> the lines of the answer, cast |-> the event  *)
(* lines for every client, st |-> the daemon's state after it].  The       *)
(* repeat engine behind SEND_ONCE and SEND_START, its toggle bits, minimum *)
(* repeats and linked codes are module Lircd; here a transmission has the  *)
(* repeats its command asks for.                                           *)
(***************************************************************************)
EXTENDS Wire, FiniteSets

CONSTANTS
    RemoteList,     \* the names of the remotes, in the order of lircd.conf
    CodesOf,        \* CodesOf[r]: the names of the buttons of remote r, in order
    RepeatMax,      \* repeat_max
    SendMode,       \* curr_driver->send_mode # 0
    TxMax,          \* the number of transmitters: 0 without LIRC_CAN_SET_TRANSMITTER_MASK
    AllowSimulate,  \* allow_simulate
    Writable,       \* the file names fopen(..., "w") accepts
    DriverOptions   \* the option keys the driver's DRVCTL_SET_OPTION accepts

Number == [w \in {"0", "1", "2", "3", "33"} |->
              CASE w = "0" -> 0 [] w = "1" -> 1 [] w = "2" -> 2 [] w = "3" -> 3 [] w = "33" -> 33]
MAX_TX == 32

None == "none"
Arg(args, i) == IF i <= Len(args) THEN args[i] ELSE None    \* strtok(NULL, WHITE_SPACE)
Count(list) == CHOOSE w \in DOMAIN Number : Number[w] = Len(list)

(* repeat_remote, repeat_code, repeat_fd and repeat_message, the countdown *)
(* of the repeating remote, and whether its last_code is another one.      *)
NotRepeating ==
    [remote |-> None, code |-> None, fd |-> None, message |-> <<>>, left |-> 0, other |-> FALSE]
InitDaemon == [repeat |-> NotRepeating, tx |-> {}, inputlog |-> None, options |-> {}]

-----------------------------------------------------------------------------
(* Packages. *)

send_success(message) == << <<"BEGIN">>, message, <<"SUCCESS">>, <<"END">> >>

send_error(message, what) ==
    << <<"BEGIN">>, message, <<"ERROR">>, <<"DATA">>, <<"1">>, what, <<"END">> >>

(* SUCCESS with lines of data; without lines there is no DATA part. *)
send_data(message, lines) ==
    << <<"BEGIN">>, message, <<"SUCCESS">> >>
    \o (IF lines = <<>> THEN <<>> ELSE << <<"DATA">>, <<Count(lines)>> >> \o lines)
    \o << <<"END">> >>

Answer(lines, st) == [out |-> lines, cast |-> <<>>, st |-> st]
Fail(message, what, st) == Answer(send_error(message, what), st)
Done(message, st) == Answer(send_success(message), st)

-----------------------------------------------------------------------------
(* parse_rc(): the names of a remote and a button, and a repeat count if   *)
(* the directive has one; n of the names are required.                     *)
parse_rc(args, hasReps, n) ==
    LET remote == Arg(args, 1)
        known == remote # None /\ remote \in Range(RemoteList)
        code == IF known THEN Arg(args, 2) ELSE None
        reps == IF hasReps THEN Arg(args, 3) ELSE None
        trailing == Arg(args, IF hasReps THEN 4 ELSE 3)
        failed(what) == [err |-> what, remote |-> None, code |-> None, reps |-> 0]
    IN CASE remote # None /\ ~known -> failed(<<"unknown", "remote">>)
         [] code # None /\ code \notin Range(CodesOf[remote]) -> failed(<<"unknown", "command">>)
         [] code # None /\ reps # None /\ reps \notin DOMAIN Number -> failed(<<"reps/eol">>)
         [] code # None /\ reps # None /\ reps \in DOMAIN Number /\ Number[reps] > RepeatMax ->
              failed(<<"too", "many", "repeats">>)
         [] code # None /\ trailing # None -> failed(<<"trailing", "ws">>)
         [] n > 0 /\ remote = None -> failed(<<"remote", "missing">>)
         [] n > 1 /\ known /\ code = None -> failed(<<"code", "missing">>)
         [] OTHER -> [err |-> <<>>, remote |-> remote, code |-> code,
                      reps |-> IF reps = None THEN 0 ELSE Number[reps]]

send_remote_list(message) == send_data(message, [i \in DOMAIN RemoteList |-> <<RemoteList[i]>>])
send_remote(message, r) == send_data(message, [i \in DOMAIN CodesOf[r] |-> <<"code", CodesOf[r][i]>>])
send_name(message, code) == send_data(message, << <<"code", code>> >>)

list(fd, message, args, st) ==
    LET rc == parse_rc(args, FALSE, 0)
    IN CASE rc.err # <<>> -> Fail(message, rc.err, st)
         [] rc.err = <<>> /\ rc.remote = None -> Answer(send_remote_list(message), st)
         [] rc.remote # None /\ rc.code = None -> Answer(send_remote(message, rc.remote), st)
         [] OTHER -> Answer(send_name(message, rc.code), st)

(* A SEND_ONCE with repeats is answered by the repeat timer, when the last *)
(* repeat is out; SEND_START is answered at once.  sent is the result of   *)
(* send_ir_ncode().                                                        *)
send_core(fd, message, args, once, sent, st) ==
    LET rc == parse_rc(args, once, 2)
        left == IF once THEN rc.reps ELSE RepeatMax
        repeating == [remote |-> rc.remote, code |-> rc.code, left |-> left, other |-> FALSE,
                      fd |-> IF once THEN fd ELSE st.repeat.fd,
                      message |-> IF once THEN message ELSE st.repeat.message]
    IN CASE ~SendMode -> Fail(message, <<"hardware", "does", "not", "support", "sending">>, st)
         [] SendMode /\ rc.err # <<>> -> Fail(message, rc.err, st)
         [] SendMode /\ rc.err = <<>> /\ st.repeat.remote # None ->
              Fail(message, IF once THEN <<"busy:", "repeating">> ELSE <<"already", "repeating">>, st)
         [] SendMode /\ rc.err = <<>> /\ st.repeat.remote = None /\ ~sent ->
              Fail(message, <<"transmission", "failed">>, st)
         [] OTHER ->
              LET st2 == IF left > 0 THEN [st EXCEPT !.repeat = repeating] ELSE st
              IN IF once /\ left > 0 THEN Answer(<<>>, st2) ELSE Done(message, st2)

send_once(fd, message, args, sent, st) == send_core(fd, message, args, TRUE, sent, st)
send_start(fd, message, args, sent, st) == send_core(fd, message, args, FALSE, sent, st)

send_stop(fd, message, args, st) ==
    LET rc == parse_rc(args, FALSE, 0)
    IN CASE rc.err # <<>> -> Fail(message, rc.err, st)
         [] rc.err = <<>> /\ st.repeat.remote = None -> Fail(message, <<"not", "repeating">>, st)
         [] rc.err = <<>> /\ st.repeat.remote # None /\ rc.remote \notin {None, st.repeat.remote} ->
              Fail(message, <<"specified", "remote", "does", "not", "match">>, st)
         [] rc.err = <<>> /\ st.repeat.remote # None /\ rc.remote \in {None, st.repeat.remote}
              /\ rc.code \notin {None, st.repeat.code} ->
              Fail(message, <<"specified", "code", "does", "not", "match">>, st)
         [] OTHER -> Done(message, [st EXCEPT !.repeat.remote = None, !.repeat.code = None])

set_transmitters(fd, message, args, st) ==
    LET invalid == {i \in DOMAIN args : args[i] \notin DOMAIN Number \ {"0"}}
        many == {i \in DOMAIN args : args[i] \in DOMAIN Number /\ Number[args[i]] > MAX_TX}
        stops == invalid \cup many
        first == CHOOSE i \in stops : \A j \in stops : i <= j
        channels == {Number[args[i]] : i \in DOMAIN args}
    IN CASE args = <<>> -> Fail(message, <<"no", "arguments", "given">>, st)
         [] args # <<>> /\ ~SendMode -> Fail(message, <<"hardware", "does", "not", "support", "sending">>, st)
         [] args # <<>> /\ SendMode /\ TxMax = 0 ->
              Fail(message, <<"hardware", "does", "not", "support", "multiple", "transmitters">>, st)
         [] args # <<>> /\ SendMode /\ TxMax > 0 /\ stops # {} ->
              Fail(message, IF first \in invalid THEN <<"invalid", "argument">> ELSE <<"cannot", "support">>, st)
         [] args # <<>> /\ SendMode /\ TxMax > 0 /\ stops = {} /\ \E t \in channels : t > TxMax ->
              Fail(message, <<"maximum", "of", "transmitters">>, st)
         [] OTHER -> Done(message, [st EXCEPT !.tx = channels])

(* SIMULATE <code> <repeats> <button> <remote>: the event goes to every    *)
(* client before the answer does.                                          *)
simulate(fd, message, args, st) ==
    CASE ~AllowSimulate -> Fail(message, <<"SIMULATE", "command", "is", "disabled">>, st)
      [] AllowSimulate /\ args = <<>> -> Fail(message, <<"no", "arguments", "given">>, st)
      [] AllowSimulate /\ args # <<>> /\ Len(args) # 4 -> Fail(message, <<"invalid", "event">>, st)
      [] OTHER -> [Done(message, st) EXCEPT !.cast = <<args>>]

version(fd, message, args, st) == Answer(send_data(message, << <<"0.9.4">> >>), st)

drv_option(fd, message, args, st) ==
    CASE Len(args) < 2 -> Fail(message, <<"Illegal", "argument">>, st)
      [] Len(args) >= 2 /\ args[1] \notin DriverOptions -> Fail(message, <<"Cannot", "set">>, st)
      [] OTHER -> Done(message, [st EXCEPT !.options = @ \cup {args[1]}])

set_inputlog(fd, message, args, st) ==
    CASE args = <<>> \/ Arg(args, 1) = "null" -> Done(message, [st EXCEPT !.inputlog = None])
      [] args # <<>> /\ args[1] # "null" /\ args[1] \notin Writable ->
           Fail(message, <<"Cannot", "open", "input", "logfile">>, st)
      [] OTHER -> Done(message, [st EXCEPT !.inputlog = args[1]])

-----------------------------------------------------------------------------
(* One line of get_command(): the directive's function, or an error. *)
Directive(fd, message, sent, st) ==
    LET args == Tail(message)
    IN IF message = <<>> THEN Fail(message, <<"bad", "send", "packet">>, st)
       ELSE CASE message[1] = "LIST" -> list(fd, message, args, st)
              [] message[1] = "SEND_ONCE" -> send_once(fd, message, args, sent, st)
              [] message[1] = "SEND_START" -> send_start(fd, message, args, sent, st)
              [] message[1] = "SEND_STOP" -> send_stop(fd, message, args, st)
              [] message[1] = "SET_TRANSMITTERS" -> set_transmitters(fd, message, args, st)
              [] message[1] = "SIMULATE" -> simulate(fd, message, args, st)
              [] message[1] = "VERSION" -> version(fd, message, args, st)
              [] message[1] = "DRV_OPTION" -> drv_option(fd, message, args, st)
              [] message[1] = "SET_INPUTLOG" -> set_inputlog(fd, message, args, st)
              [] OTHER -> Fail(message, <<"unknown", "directive">>, st)

(* A decoded button press is the last_code of its remote from then on.     *)
decoded(event, st) ==
    IF Len(event) = 4 /\ event[4] = st.repeat.remote
    THEN [st EXCEPT !.repeat.other = event[3] # st.repeat.code] ELSE st

(* dosigalrm(): a press of another button of the remote has interrupted    *)
(* the repeat; else one more is sent, and after the last one, or one that  *)
(* failed, the client of a SEND_ONCE gets its answer.                      *)
repeated_unanswered(sent, st) ==
    Answer(<<>>, IF st.repeat.left > 1 THEN [st EXCEPT !.repeat.left = @ - 1] ELSE [st EXCEPT !.repeat = NotRepeating])

stop_repeating(lines, st) ==
    Answer(IF st.repeat.fd = None THEN <<>> ELSE lines, [st EXCEPT !.repeat = NotRepeating])
repeated(sent, st) ==
    CASE st.repeat.other ->
           stop_repeating(send_error(st.repeat.message, <<"repeating", "interrupted">>), st)
      [] ~st.repeat.other /\ sent /\ st.repeat.left > 1 -> Answer(<<>>, [st EXCEPT !.repeat.left = @ - 1])
      [] OTHER -> stop_repeating(send_success(st.repeat.message), st)
=============================================================================
