------------------------------- MODULE Lircrcd -------------------------------
(***************************************************************************)
(* lircrcd (daemons/lircrcd.cpp): the daemon that holds one lircrc for     *)
(* several programs, so that they share its mode.  A program sends it each *)
(* button press (CODE) and asks again until it gets no more strings.       *)
(*                                                                         *)
(* A daemon is the table clis[] with its number of clients clin, the       *)
(* config, the slots that poll() found readable and that are not yet       *)
(* worked off, and the connections nobody has accepted yet.  A slot of the *)
(* table keeps its last_code and pending_strings when its client goes:     *)
(* add_client() sets only fd and ident_string.  The engine that turns a    *)
(* press into strings is module Lircrc; here it is the table Engine, and   *)
(* what it remembers of earlier presses is the config's memory.            *)
(***************************************************************************)
EXTENDS LircClient

CONSTANTS
    RcSlots,        \* MAX_CLIENTS of lircrcd.cpp
    StartConfig,    \* the config as read: [mode, memory]
    Engine          \* Engine[config][code]: [strings, config] of one button press

NeverUsed == <<"A never used code">>
Slot == [fd |-> None, ident |-> None, last |-> <<>>, pending |-> <<>>]

InitRc == [up |-> "no", slots |-> [i \in 1..RcSlots |-> Slot], clin |-> 0, config |-> StartConfig,
           backlog |-> <<>>, marks |-> {}, cmd |-> [fd |-> None, slot |-> 0, buffer |-> <<>>]]

get_client_index(rc, fd) == CHOOSE i \in 1..rc.clin : rc.slots[i].fd = fd

(* add_client(): rejects beyond MAX_CLIENTS. *)
add_client(rc, fd) ==
    IF rc.clin >= RcSlots THEN rc
    ELSE [rc EXCEPT !.clin = @ + 1,
                    !.slots = [@ EXCEPT ![rc.clin + 1].fd = fd, ![rc.clin + 1].ident = None]]

(* remove_client(): the table moves up, its last slot keeps its contents.  *)
remove_client(rc, k) ==
    [rc EXCEPT !.clin = @ - 1,
               !.slots = [i \in 1..RcSlots |-> IF i \in k..(rc.clin - 1) THEN @[i + 1] ELSE @[i]]]

send_result(message, string) == send_data(message, <<string>>)

-----------------------------------------------------------------------------
(* The directives: [out |-> the answer, rc |-> the daemon after it, runs   *)
(* |-> the presses that the engine was run for, and what it gave].         *)

RcAnswer(lines, rc) == [out |-> lines, rc |-> rc, runs |-> <<>>]
ProtocolError(message, rc) == RcAnswer(send_error(message, <<"protocol", "error">>), rc)

(* code_func(): the same code again asks for more strings of the press,    *)
(* also when the press before had none.  (The engine's error, when memory  *)
(* runs out, is left out.)                                                 *)
code_func_first_string(fd, message, args, rc) ==
    LET k == get_client_index(rc, fd)
        press == Engine[rc.config][args]
        runs == <<[code |-> args, strings |-> press.strings]>>
    IN CASE rc.slots[k].last = args ->
              RcAnswer(send_success(message), [rc EXCEPT !.slots[k].last = NeverUsed])
         [] rc.slots[k].last # args /\ press.strings = <<>> ->
              [RcAnswer(send_success(message), [rc EXCEPT !.slots[k].last = args, !.config = press.config])
                 EXCEPT !.runs = runs]
         [] OTHER ->
              [RcAnswer(send_result(message, Head(press.strings)),
                        [rc EXCEPT !.slots[k].last = args, !.config = press.config]) EXCEPT !.runs = runs]

code_func(fd, message, args, rc) ==
    LET k == get_client_index(rc, fd)
        slot == rc.slots[k]
        press == Engine[rc.config][args]
        pending == slot.pending \o press.strings
        more(s, lines) == RcAnswer(lines, [rc EXCEPT !.slots[k] = s])
        pressed(s, lines) ==
            [out |-> lines, rc |-> [rc EXCEPT !.slots[k] = s, !.config = press.config],
             runs |-> <<[code |-> args, strings |-> press.strings]>>]
    IN CASE args = <<>> -> ProtocolError(message, rc)
         [] args # <<>> /\ slot.last = args /\ slot.pending # <<>> ->
              more([slot EXCEPT !.pending = Tail(@)], send_result(message, Head(slot.pending)))
         [] args # <<>> /\ slot.last = args /\ slot.pending = <<>> ->
              more([slot EXCEPT !.last = NeverUsed], send_success(message))
         [] args # <<>> /\ slot.last # args /\ pending = <<>> ->
              pressed([slot EXCEPT !.last = args], send_success(message))
         [] OTHER ->
              pressed([slot EXCEPT !.last = args, !.pending = Tail(pending)],
                      send_result(message, Head(pending)))

ident_func(fd, message, args, rc) ==
    LET k == get_client_index(rc, fd)
    IN IF args = <<>> \/ rc.slots[k].ident # None THEN ProtocolError(message, rc)
       ELSE RcAnswer(send_success(message), [rc EXCEPT !.slots[k].ident = args[1]])

getmode_func(fd, message, args, rc) ==
    CASE args # <<>> -> ProtocolError(message, rc)
      [] args = <<>> /\ rc.config.mode # None -> RcAnswer(send_result(message, <<rc.config.mode>>), rc)
      [] OTHER -> RcAnswer(send_success(message), rc)

setmode_func(fd, message, args, rc) ==
    IF args = <<>> THEN RcAnswer(send_success(message), [rc EXCEPT !.config.mode = None])
    ELSE RcAnswer(send_result(message, <<args[1]>>), [rc EXCEPT !.config.mode = args[1]])

RcDirective(fd, message, rc) ==
    IF message = <<>> THEN RcAnswer(send_error(message, <<"bad", "send", "packet">>), rc)
    ELSE LET args == Tail(message)
         IN CASE message[1] = "CODE" -> code_func(fd, message, args, rc)
              [] message[1] = "IDENT" -> ident_func(fd, message, args, rc)
              [] message[1] = "GETMODE" -> getmode_func(fd, message, args, rc)
              [] message[1] = "SETMODE" -> setmode_func(fd, message, args, rc)
              [] OTHER -> RcAnswer(send_error(message, <<"unknown", "directive">>), rc)
=============================================================================
