---------------------------- MODULE LircdUinput ----------------------------
(***************************************************************************)
(* lircd-uinput (daemons/lircd-uinput.cpp): button presses become key      *)
(* events of a uinput device; a press that is followed by silence gets a   *)
(* release event.                                                          *)
(*                                                                         *)
(* A button name is [base, suffix]: the name with or without the release   *)
(* suffix.  KeyCodes has the names the kernel knows.                       *)
(***************************************************************************)
EXTENDS EventSocket

CONSTANTS KeyCodes      \* get_input_code(): a function from base names to codes
KEY_RESERVED == 0

VARIABLES
    upc,                \* "off", "start", "poll", "lines", "last lines", "exit"
    line_buffer,
    code_cache,         \* a function from the button names seen to [code, is_release]
    last_button_press,
    keys,               \* the device: the codes registered, those that are down, its repeat times
    \* history
    abandoned,          \* keys down that lircd-uinput has forgotten
    quiet               \* poll() has timed out since the last line

uinput == <<upc, line_buffer, code_cache, last_button_press, keys, abandoned, quiet>>

none == [base |-> "", suffix |-> FALSE]

uinput_init(on) ==
    /\ upc = IF on THEN "start" ELSE "off"
    /\ line_buffer = <<>> /\ code_cache = << >> /\ last_button_press = none
    /\ keys = [registered |-> {}, down |-> {}, delay |-> 0, period |-> 0]
    /\ abandoned = {} /\ quiet = FALSE

-----------------------------------------------------------------------------
(* Start *)

MAX_INTERVAL == 20000

(* parse_repeat(): [delay][,period], tokens of the option; 0 leaves the    *)
(* kernel's value, and so does an option that is wrong anywhere. *)
parse_repeat(opt) ==
    LET defaults == [delay |-> 0, period |-> 0]
        delay == IF opt # <<>> /\ opt[1] # "," THEN opt[1] ELSE "0"
        rest == IF opt # <<>> /\ opt[1] # "," THEN Tail(opt) ELSE opt
        number == [n \in {"0", "20", "300", "20001"} |->
                      CASE n = "0" -> 0 [] n = "20" -> 20 [] n = "300" -> 300 [] OTHER -> 20001]
        valid(n) == n \in DOMAIN number /\ number[n] <= MAX_INTERVAL
    IN IF ~valid(delay) THEN defaults
       ELSE IF rest \in {<<>>, <<",">>} THEN [defaults EXCEPT !.delay = number[delay]]
       ELSE IF rest[1] = "," /\ Len(rest) = 2 /\ valid(rest[2])
       THEN [delay |-> number[delay], period |-> number[rest[2]]]
       ELSE defaults

(* get_keycode(): a name the kernel knows, or one with the suffix behind it. *)
get_keycode(button) ==
    IF button.base \in DOMAIN KeyCodes
    THEN [code |-> KeyCodes[button.base], is_release |-> button.suffix]
    ELSE [code |-> KEY_RESERVED, is_release |-> FALSE]

(* Every key but those of the disabled buttons. *)
register_keys(disabled) ==
    ({KeyCodes[b] : b \in DOMAIN KeyCodes} \cup {KEY_RESERVED}) \
        {get_keycode(button).code : button \in disabled}

(* main(): the input is opened first, then the device is made.  An input   *)
(* or a device that cannot be opened ends the program. *)
main_fails ==
    /\ upc = "start" /\ scene.mayfail
    /\ upc' = "exit"
    /\ UNCHANGED <<socket, line_buffer, code_cache, last_button_press, keys, abandoned, quiet>>

main_starts ==
    /\ upc = "start"
    /\ LET repeat == parse_repeat(scene.repeat)
       IN keys' = [registered |-> register_keys(scene.disabled), down |-> {},
                   delay |-> repeat.delay, period |-> repeat.period]
    /\ upc' = "poll"
    /\ UNCHANGED <<socket, line_buffer, code_cache, last_button_press, abandoned, quiet>>

-----------------------------------------------------------------------------
(* Events *)

(* The kernel's part: it passes on events of registered keys only.  Value  *)
(* 0 is a release, 1 a press, 2 a repeat. *)
write_event(device, code, value) ==
    IF code \notin device.registered THEN device
    ELSE [device EXCEPT !.down = IF value = 0 THEN @ \ {code} ELSE @ \cup {code}]

(* send_message(): the code of a name is looked up once. *)
send_message(button, reps) ==
    LET entry == IF button \in DOMAIN code_cache THEN code_cache[button] ELSE get_keycode(button)
        value == IF reps + 1 > 2 THEN 2 ELSE reps + 1
    IN /\ code_cache' = [b \in DOMAIN code_cache \cup {button} |->
                             IF b = button THEN entry ELSE code_cache[b]]
       /\ IF entry.code = KEY_RESERVED THEN UNCHANGED <<keys, last_button_press>>
          ELSE /\ keys' = write_event(keys, entry.code, value)
               /\ last_button_press' = IF scene.add_release_events /\ ~entry.is_release
                                       THEN button ELSE none

(* A press that another one follows, or that has the release suffix, which *)
(* is sent as a press too, gets no release. *)
forgets(button) ==
    abandoned' = (abandoned \cup {get_keycode(b).code : b \in {last_button_press, button}})
                     \ {get_keycode(last_button_press').code}

(* process_line() *)
process_line(event) ==
    IF event.button \in scene.disabled
    THEN UNCHANGED <<keys, code_cache, last_button_press, abandoned>>
    ELSE send_message(event.button, event.rep) /\ forgets(event.button)

(* lircd_uinput(): poll() says together with the data that lircd has gone, *)
(* and one read() is the last then. *)
read_input ==
    /\ upc = "poll" /\ sock # <<>>
    /\ read_chunk(PACKET_SIZE)
    /\ line_buffer' = line_buffer \o chunk(PACKET_SIZE)
    /\ upc' = IF closed THEN "last lines" ELSE "lines"
    /\ UNCHANGED <<scene, closed, written, handled, code_cache, last_button_press, keys, abandoned, quiet>>

(* LineBuffer *)
has_lines == newline_at(line_buffer) # 0
get_next_line == SubSeq(line_buffer, 1, newline_at(line_buffer))

(* process_lines(), one line at a time. *)
process_one ==
    /\ upc \in {"lines", "last lines"} /\ has_lines
    /\ LET line == get_next_line
       IN /\ line_buffer' = SubSeq(line_buffer, Len(line) + 1, Len(line_buffer))
          /\ IF whole(line)
             THEN process_line(line[1].event) /\ handled' = Append(handled, line[1].event)
             ELSE UNCHANGED <<keys, code_cache, last_button_press, abandoned, handled>>
    /\ quiet' = FALSE
    /\ UNCHANGED <<scene, sock, closed, written, upc>>

lines_done ==
    /\ upc \in {"lines", "last lines"} /\ ~has_lines
    /\ upc' = IF upc = "lines" THEN "poll" ELSE "exit"
    /\ UNCHANGED <<socket, line_buffer, code_cache, last_button_press, keys, abandoned, quiet>>

send_release_event_plain ==             \* a mutant: the button is sent without the suffix
    IF last_button_press = none THEN UNCHANGED <<keys, code_cache, last_button_press>>
    ELSE send_message(last_button_press, 0)

(* send_release_event(): the name with the suffix, reps -1. *)
send_release_event ==
    IF last_button_press = none THEN UNCHANGED <<keys, code_cache, last_button_press>>
    ELSE send_message([last_button_press EXCEPT !.suffix = TRUE], -1)

(* poll() times out, which it does only with --add-release-events. *)
poll_timeout ==
    /\ upc = "poll" /\ scene.add_release_events /\ sock = <<>> /\ ~closed
    /\ send_release_event
    /\ quiet' = TRUE
    /\ UNCHANGED <<socket, upc, line_buffer, abandoned>>

uinput_eof ==
    /\ upc = "poll" /\ sock = <<>> /\ closed
    /\ upc' = "exit"
    /\ UNCHANGED <<socket, line_buffer, code_cache, last_button_press, keys, abandoned, quiet>>

uinput_step ==
    main_fails \/ main_starts \/ read_input \/ process_one \/ lines_done \/ poll_timeout \/ uinput_eof
=============================================================================
