------------------------------- MODULE Lircmd -------------------------------
(***************************************************************************)
(* lircmd (daemons/lircmd.cpp): button presses move a mouse, which a       *)
(* reader sees on a fifo, in one of three protocols, or as a uinput        *)
(* device.  SIGHUP makes lircmd read its file again.                       *)
(*                                                                         *)
(* A line of the file is the sequence of its words.  Sets of buttons stand *)
(* for the bit masks.  The reader decodes what is written with the         *)
(* protocol that lircmd uses; a reader of the MouseSystems protocol is not *)
(* modelled (lircmd writes IMPS/2 packets between its packets).            *)
(***************************************************************************)
EXTENDS EventSocket

CONSTANTS
    CIRCLE,         \* radius of the circle that shows the mode
    Missing, TooLong    \* no file; a line that does not fit into the buffer

VARIABLES
    mpc,            \* "off", "start", "loop", "window", "read", "exit"
    buffer,         \* loop(): pieces up to the final 0
    len, end_len,   \* loop(): what the last read() returned, where the next one writes
    hup,
    ms,
    msent,          \* msend(): its static buttons
    tm_first,
    conf,           \* number of the file that is on the disk
    dev,            \* what the reader of the device has seen
    asked           \* history: the sum of the MOVE lines used

lircmd_vars == <<mpc, buffer, len, end_len, hup, ms, msent, tm_first, conf, dev, asked>>

BUTTONS == {1, 2, 3}
ALL == "*"
Still == [x |-> 0, y |-> 0, z |-> 0]

(* The initial value of ms. *)
ms_default == [protocol |-> "MouseSystems", always_active |-> TRUE, toggle_active |-> FALSE,
               active |-> FALSE, acc_start |-> 2, acc_max |-> 20, acc_fak |-> 2, buttons |-> {}]

lircmd_init(on) ==
    /\ mpc = IF on THEN "start" ELSE "off"
    /\ buffer = <<>> /\ len = 0 /\ end_len = 0 /\ hup = FALSE
    /\ ms = ms_default /\ msent = {} /\ tm_first = <<>> /\ conf = 1
    /\ dev = [kind |-> "none", at |-> Still, down |-> {}]
    /\ asked = Still

-----------------------------------------------------------------------------
(* The file *)

moves(x, y, z) == [x |-> x, y |-> y, z |-> z, down |-> {}, up |-> {}, toggle |-> FALSE]
button_does(down, up, toggle) == [x |-> 0, y |-> 0, z |-> 0, down |-> down, up |-> up, toggle |-> toggle]

config_lines ==
    { <<"MOVE_N", moves(0, 1, 0)>>, <<"MOVE_NE", moves(1, 1, 0)>>,
      <<"MOVE_E", moves(1, 0, 0)>>, <<"MOVE_SE", moves(1, -1, 0)>>,
      <<"MOVE_S", moves(0, -1, 0)>>, <<"MOVE_SW", moves(-1, -1, 0)>>,
      <<"MOVE_W", moves(-1, 0, 0)>>, <<"MOVE_NW", moves(-1, 1, 0)>>,
      <<"MOVE_IN", moves(0, 0, -1)>>, <<"MOVE_OUT", moves(0, 0, 1)>>,
      <<"BUTTON1_DOWN", button_does({1}, {}, FALSE)>>, <<"BUTTON1_UP", button_does({}, {1}, FALSE)>>,
      <<"BUTTON1_TOGGLE", button_does({1}, {1}, TRUE)>>, <<"BUTTON1_CLICK", button_does({1}, {1}, FALSE)>>,
      <<"BUTTON2_DOWN", button_does({2}, {}, FALSE)>>, <<"BUTTON2_UP", button_does({}, {2}, FALSE)>>,
      <<"BUTTON2_TOGGLE", button_does({2}, {2}, TRUE)>>, <<"BUTTON2_CLICK", button_does({2}, {2}, FALSE)>>,
      <<"BUTTON3_DOWN", button_does({3}, {}, FALSE)>>, <<"BUTTON3_UP", button_does({}, {3}, FALSE)>>,
      <<"BUTTON3_TOGGLE", button_does({3}, {3}, TRUE)>>, <<"BUTTON3_CLICK", button_does({3}, {3}, FALSE)>> }
config_table == [d \in {line[1] : line \in config_lines} |-> (CHOOSE line \in config_lines : line[1] = d)[2]]

atoi(word) == CASE word = "1" -> 1 [] word = "2" -> 2 [] word = "3" -> 3 [] OTHER -> 0

(* PROTOCOL name: a name with words behind it counts all the same. *)
protocol_line(r, words) ==
    IF Len(words) > 1 /\ words[2] \in {"MouseSystems", "IMPS/2", "IntelliMouse"}
    THEN [r EXCEPT !.ms.protocol = words[2]] ELSE r

(* ACCELERATOR start max factor: a word too many brings back the values in use. *)
accelerator_line(r, words) ==
    LET number(k, otherwise) == IF Len(words) > k THEN atoi(words[k + 1]) ELSE otherwise
    IN IF Len(words) > 4
       THEN [r EXCEPT !.ms.acc_start = ms.acc_start, !.ms.acc_max = ms.acc_max,
                      !.ms.acc_fak = ms.acc_fak]
       ELSE [r EXCEPT !.ms.acc_start = number(1, @), !.ms.acc_max = number(2, @),
                      !.ms.acc_fak = number(3, @)]

(* directive remote button *)
directive_line(r, words) ==
    LET activates == words[1] \in {"ACTIVATE", "TOGGLE_ACTIVATE"}
    IN IF Len(words) # 3 \/ ~(activates \/ words[1] \in DOMAIN config_table \cup {"IGNORE"}) THEN r
       ELSE [r EXCEPT !.ms.always_active = @ /\ ~activates,
                      !.list = Append(@, [tm_directive |-> words[1], tm_remote |-> words[2],
                                          tm_button |-> words[3]])]

config_line(r, words) ==
    CASE words = <<>> \/ words[1] = "#" -> r
      [] words # <<>> /\ words[1] = "PROTOCOL" -> protocol_line(r, words)
      [] words # <<>> /\ words[1] = "ACCELERATOR" -> accelerator_line(r, words)
      [] OTHER -> directive_line(r, words)

(* The loop ends at a line that is too long. *)
read_lines(r, file) ==
    LET lines[k \in 0..Len(file)] ==
            IF k = 0 THEN r
            ELSE LET s == lines[k - 1]
                 IN CASE s.failed -> s
                      [] ~s.failed /\ file[k] = TooLong -> [s EXCEPT !.failed = TRUE]
                      [] OTHER -> config_line(s, file[k])
    IN lines[Len(file)]

read_config_forgets(file) ==            \* a mutant: the state starts anew
    read_lines([ms |-> ms_default, list |-> <<>>, failed |-> FALSE], file)

(* read_config(): the new list, and new_ms, which begins as a copy of ms. *)
read_config(file) ==
    read_lines([ms |-> [ms EXCEPT !.always_active = TRUE, !.toggle_active = FALSE],
                list |-> <<>>, failed |-> FALSE], file)

-----------------------------------------------------------------------------
(* The device and its reader *)

bit(set, b, value) == IF b \in set THEN value ELSE 0
is_set(byte, value) == (byte \div value) % 2 = 1
signed(n, modulus) == IF n >= modulus \div 2 THEN n - modulus ELSE n

(* A signed char as the byte that is written. *)
octet(d) == IF d < 0 THEN d + 256 ELSE d

imps_2(buttons, dx, dy, dz) ==
    << bit(buttons, 1, 1) + bit(buttons, 3, 2) + bit(buttons, 2, 4) + 8
       + (IF dx < 0 THEN 16 ELSE 0) + (IF dy < 0 THEN 32 ELSE 0),
       octet(dx), octet(dy), octet(dz) >>

im_serial(buttons, dx, dy, dz) ==
    << bit(buttons, 1, 32) + bit(buttons, 3, 16) + 64 + (octet(dx) \div 64) + 4 * (octet(dy) \div 64),
       octet(dx) % 64, octet(dy) % 64,
       (IF dz < 0 THEN 15 ELSE IF dz > 0 THEN 1 ELSE 0) + bit(buttons, 2, 16) >>

(* What a reader takes a packet for; y counts upwards. *)
reads_imps_2(packet) ==
    [x |-> packet[2] - (IF is_set(packet[1], 16) THEN 256 ELSE 0),
     y |-> packet[3] - (IF is_set(packet[1], 32) THEN 256 ELSE 0),
     z |-> signed(packet[4], 256),
     down |-> {b \in BUTTONS : is_set(packet[1], CASE b = 1 -> 1 [] b = 2 -> 4 [] b = 3 -> 2)}]

reads_im_serial(packet) ==
    [x |-> signed((packet[1] % 4) * 64 + packet[2], 256),
     y |-> - signed(((packet[1] \div 4) % 4) * 64 + packet[3], 256),
     z |-> signed(packet[4] % 16, 16),
     down |-> {b \in BUTTONS : CASE b = 1 -> is_set(packet[1], 32) [] b = 2 -> is_set(packet[4], 16)
                                 [] b = 3 -> is_set(packet[1], 16)}]

plus(at, f, d) == [x |-> at.x + f * d.x, y |-> at.y + f * d.y, z |-> at.z + f * d.z]

(* What the reader sees of one packet, or of one set of events.  A uinput  *)
(* device counts y downwards. *)
sees(d, protocol, buttons, dx, dy, dz, buttp, buttr) ==
    LET sy == IF protocol = "IntelliMouse" THEN -dy ELSE dy
    IN CASE d.kind = "uinput" ->
              [x |-> dx, y |-> -sy, z |-> dz, down |-> (d.down \cup buttp) \ buttr]
         [] d.kind = "fifo" /\ protocol = "IntelliMouse" ->
              reads_im_serial(im_serial(buttons, dx, sy, dz))
         [] OTHER -> reads_imps_2(imps_2(buttons, dx, dy, dz))

(* The device after f equal packets. *)
after(d, f, seen) ==
    IF f = 0 \/ d.kind = "none" THEN d
    ELSE [d EXCEPT !.at = plus(@, f, seen), !.down = seen.down]

(* The factor of msend(). *)
accelerated(m, rep) ==
    IF rep < m.acc_start THEN 1
    ELSE IF rep * m.acc_fak >= m.acc_max THEN m.acc_max ELSE rep * m.acc_fak

(* msend() on s, which holds what it changes: ms, buttons, dev. *)
msend(s, dx, dy, dz, rep, buttp, buttr) ==
    LET buttons == (s.buttons \cup buttp) \ buttr
    IN [s EXCEPT !.buttons = buttons,
                 !.dev = after(@, accelerated(s.ms, rep),
                               sees(@, s.ms.protocol, buttons, dx, dy, dz, buttp, buttr))]

mouse_move(s, dx, dy, dz, rep) == msend(s, dx, dy, dz, rep, {}, {})

(* mouse_button(): repeats do nothing. *)
mouse_button(s, down, up, rep) ==
    IF rep # 0 THEN s
    ELSE [msend(s, 0, 0, 0, rep, down, up) EXCEPT !.ms.buttons = (@ \cup down) \ up]

-----------------------------------------------------------------------------
(* The mode *)

dd == <<1, 0, -1, -1, -1, 0, 1, 1>>
dd_at(i) == dd[(i % 8) + 1]

(* One eighth of the circle: whether each of its steps is a diagonal one. *)
octant ==
    LET walk[k \in 0..CIRCLE] ==
            IF k = 0 THEN [d |-> 1 - CIRCLE, incX |-> 0, incY |-> 2 * CIRCLE, x |-> 0, y |-> CIRCLE, steps |-> <<>>]
            ELSE LET s == walk[k - 1]
                     diagonal == s.d >= 0
                     turn == IF diagonal THEN 1 ELSE 0
                 IN IF s.x >= s.y THEN s
                    ELSE [d |-> s.d - turn * (s.incY - 2) + s.incX + 3, incX |-> s.incX + 2,
                          incY |-> s.incY - 2 * turn, x |-> s.x + 1, y |-> s.y - turn,
                          steps |-> Append(s.steps, diagonal)]
    IN walk[CIRCLE].steps

eighth(s, i, dirx, diry) ==
    LET moved[k \in 0..Len(octant)] ==
            IF k = 0 THEN s
            ELSE mouse_move(moved[k - 1], dirx * dd_at(i + IF octant[k] THEN 0 ELSE 7),
                            diry * dd_at(i + IF octant[k] THEN 2 ELSE 1), 0, 0)
    IN moved[Len(octant)]

mouse_circle(s, dirx, diry) ==
    LET drawn[i \in 0..8] == IF i = 0 THEN s ELSE eighth(drawn[i - 1], i - 1, dirx, diry)
    IN drawn[8]

activate(s) == mouse_circle([s EXCEPT !.ms.active = TRUE], 1, 1)
deactivate_keeps(s) == mouse_circle([s EXCEPT !.ms.active = FALSE], -1, 1)   \* a mutant: buttons stay down
deactivate(s) == mouse_circle([mouse_button(s, {}, BUTTONS, 0) EXCEPT !.ms.active = FALSE], -1, 1)

(* What a directive does to the mode. *)
changes_mode(s, directive, rep) ==
    CASE directive = "ACTIVATE" /\ ~s.ms.active /\ ~s.ms.always_active -> activate(s)
      [] directive = "TOGGLE_ACTIVATE" /\ rep = 0 /\ ~s.ms.always_active ->
            IF s.ms.active THEN deactivate(s)
            ELSE [activate(s) EXCEPT !.ms.toggle_active = TRUE]
      [] OTHER -> s

(* What a line of config_table does: the move, then the buttons. *)
moves_by(s, e, rep) ==
    IF <<e.x, e.y, e.z>> = <<0, 0, 0>> THEN s
    ELSE [mouse_move(s, e.x, e.y, e.z, rep) EXCEPT !.asked = plus(@, accelerated(s.ms, rep), e)]

presses(s, e, rep) ==
    LET clicks == e.down # {} /\ e.up # {} /\ ~e.toggle
        held == e.up \cap s.ms.buttons # {}
    IN CASE clicks -> mouse_button(mouse_button(s, e.down, {}, rep), {}, e.up, rep)
         [] e.toggle -> mouse_button(s, IF held THEN {} ELSE e.down, IF held THEN e.up ELSE {}, rep)
         [] ~clicks /\ ~e.toggle /\ e.down \cup e.up # {} -> mouse_button(s, e.down, e.up, rep)
         [] OTHER -> s

does(s, e, rep) == presses(moves_by(s, e, rep), e, rep)

(* The mode of s has been changed: the line acts if a mode is on. *)
acts(s, directive, rep) ==
    IF directive \in DOMAIN config_table /\ (s.ms.active \/ s.ms.always_active)
    THEN does(s, config_table[directive], rep) ELSE s

matches(tm, event) == tm.tm_remote \in {ALL, event.remote} /\ tm.tm_button \in {ALL, event.button}
uses(s, tm, event) ==
    IF ~matches(tm, event) THEN s
    ELSE acts(changes_mode([s EXCEPT !.found = TRUE], tm.tm_directive, event.rep), tm.tm_directive, event.rep)

conv(s, list, event) ==
    LET used[k \in 0..Len(list)] == IF k = 0 THEN s ELSE uses(used[k - 1], list[k], event)
    IN used[Len(list)]

(* mouse_conv(): a button that no line names ends the mode that ACTIVATE began. *)
unless_found(s) ==
    IF ~s.found /\ s.ms.active /\ ~s.ms.always_active /\ ~s.ms.toggle_active THEN deactivate(s) ELSE s

mouse_conv(event) ==
    \E s \in {unless_found(conv([ms |-> ms, buttons |-> msent, dev |-> dev, asked |-> asked,
                                 found |-> FALSE], tm_first, event))} :
        ms' = s.ms /\ msent' = s.buttons /\ dev' = s.dev /\ asked' = s.asked

-----------------------------------------------------------------------------
(* main() *)

usable(file) == file # Missing /\ ~read_config(file).failed

lircmd_fails ==
    /\ mpc = "start"
    /\ ~(usable(scene.files[conf]) /\ ~scene.mayfail)
    /\ mpc' = "exit"
    /\ UNCHANGED <<socket, buffer, len, end_len, hup, ms, msent, tm_first, conf, dev, asked>>

(* A uinput device that cannot be made is done without. *)
lircmd_starts ==
    /\ mpc = "start"
    /\ usable(scene.files[conf])
    /\ LET r == read_config(scene.files[conf]) IN ms' = r.ms /\ tm_first' = r.list
    /\ \E kind \in {scene.device} \cup (IF scene.device = "uinput" /\ scene.mayfail THEN {"none"} ELSE {}) :
          dev' = [dev EXCEPT !.kind = kind]
    /\ mpc' = "loop"
    /\ UNCHANGED <<socket, buffer, len, end_len, hup, msent, conf, asked>>

(* The user edits the file. *)
edit ==
    /\ mpc \notin {"off", "exit"} /\ conf < Len(scene.files)
    /\ conf' = conf + 1
    /\ UNCHANGED <<socket, mpc, buffer, len, end_len, hup, ms, msent, tm_first, dev, asked>>

(* SIGHUP is blocked but around read(): what comes at another time comes   *)
(* when it is unblocked, before read().  read() is left only if it waits. *)
sighup ==
    /\ mpc \in {"window", "read"} /\ conf > 1 /\ ~hup
    /\ hup' = TRUE
    /\ mpc' = IF mpc = "read" THEN "loop" ELSE mpc
    /\ UNCHANGED <<socket, buffer, len, end_len, ms, msent, tm_first, conf, dev, asked>>

(* dohup(): a file that cannot be read leaves everything as it is. *)
dohup ==
    /\ mpc = "loop" /\ hup
    /\ IF ~usable(scene.files[conf]) THEN UNCHANGED <<ms, tm_first>>
       ELSE LET r == read_config(scene.files[conf]) IN ms' = r.ms /\ tm_first' = r.list
    /\ hup' = FALSE
    /\ UNCHANGED <<socket, mpc, buffer, len, end_len, msent, conf, dev, asked>>

unblock ==
    /\ mpc = "loop" /\ ~hup /\ newline_at(buffer) = 0
    /\ mpc' = "window"
    /\ UNCHANGED <<socket, buffer, len, end_len, hup, ms, msent, tm_first, conf, dev, asked>>

lircmd_read ==
    /\ mpc = "window" /\ sock = <<>> /\ ~closed
    /\ mpc' = "read"
    /\ UNCHANGED <<socket, buffer, len, end_len, hup, ms, msent, tm_first, conf, dev, asked>>

take_line_drops(b) ==                   \* a mutant: the queued lines go with the first
    /\ buffer' = <<>> /\ end_len' = 0
    /\ IF whole(SubSeq(b, 1, newline_at(b)))
       THEN mouse_conv(b[1].event) /\ handled' = Append(handled, b[1].event)
       ELSE UNCHANGED <<handled, ms, msent, dev, asked>>

(* The first line of buffer b is used, what follows it moves to the front. *)
take_line(b) ==
    /\ buffer' = SubSeq(b, newline_at(b) + 1, Len(b))
    /\ end_len' = Len(buffer')
    /\ IF whole(SubSeq(b, 1, newline_at(b)))
       THEN mouse_conv(b[1].event) /\ handled' = Append(handled, b[1].event)
       ELSE UNCHANGED <<handled, ms, msent, dev, asked>>

room == PACKET_SIZE - end_len

(* read() returns: with no newline the text is dropped, as end_len is 0. *)
read_returns ==
    /\ mpc \in {"window", "read"} /\ sock # <<>>
    /\ LET b == SubSeq(buffer, 1, end_len) \o chunk(room)
       IN IF newline_at(b) # 0 THEN take_line(b)
          ELSE /\ buffer' = b /\ end_len' = 0
               /\ UNCHANGED <<handled, ms, msent, dev, asked>>
    /\ read_chunk(room)
    /\ len' = Len(chunk(room))
    /\ mpc' = "loop"
    /\ UNCHANGED <<scene, closed, written, hup, tm_first, conf>>

(* loop() goes on without a read() while there is a line in the buffer.    *)
(* The 0 is written at len + end_len all the same.  Within the buffer that *)
(* is behind the text, or on its final 0.                                  *)
next_line ==
    /\ mpc = "loop" /\ ~hup /\ newline_at(buffer) # 0
    /\ take_line(buffer)
    /\ UNCHANGED <<scene, sock, closed, written, mpc, len, hup, tm_first, conf>>

(* Behind the end of the buffer the 0 hits nothing that loop() reads again *)
(* (next_line), or it ends the program.                                    *)
overrun ==
    /\ mpc = "loop" /\ ~hup /\ newline_at(buffer) # 0
    /\ len + end_len > PACKET_SIZE
    /\ mpc' = "exit"
    /\ dev' = [dev EXCEPT !.kind = "none"]
    /\ UNCHANGED <<socket, buffer, len, end_len, hup, ms, msent, tm_first, conf, asked>>

(* lircd has gone: SIGTERM removes the device. *)
lircmd_eof ==
    /\ mpc \in {"window", "read"} /\ sock = <<>> /\ closed
    /\ mpc' = "exit"
    /\ dev' = [dev EXCEPT !.kind = "none"]
    /\ UNCHANGED <<socket, buffer, len, end_len, hup, ms, msent, tm_first, conf, asked>>

lircmd_step ==
    \/ lircmd_fails \/ lircmd_starts \/ edit \/ sighup \/ dohup \/ unblock \/ lircmd_read
    \/ read_returns \/ next_line \/ overrun \/ lircmd_eof
=============================================================================
