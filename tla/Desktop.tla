------------------------------ MODULE Desktop ------------------------------
(***************************************************************************)
(* The two programs that turn button presses into input events, each alone *)
(* with the lircd it is connected to: lircmd, a mouse, and lircd-uinput, a *)
(* keyboard.                                                               *)
(***************************************************************************)
EXTENDS LircdUinput, Lircmd

CONSTANTS LircmdScenes, UinputScenes

(* Repeats are counted from 0; a file is its lines; "" is the name of no   *)
(* key.                                                                    *)
ASSUME DesktopAssumption ==
    /\ CIRCLE \in Nat
    /\ "" \notin DOMAIN KeyCodes
    /\ \A s \in UinputScenes : \A e \in s.events :
          e.button \in [base : STRING, suffix : BOOLEAN] /\ e.rep \in Nat
    /\ \A s \in LircmdScenes :
          /\ \A e \in s.events : e.rep \in Nat
          /\ s.device \in {"fifo", "uinput"}
          /\ s.files # <<>>
          /\ s.files \in Seq({Missing} \cup Seq({TooLong} \cup Seq(STRING)))

vars == <<socket, uinput, lircmd_vars>>

Init ==
    /\ \/ scene \in LircmdScenes /\ uinput_init(FALSE) /\ lircmd_init(TRUE)
       \/ scene \in UinputScenes /\ uinput_init(TRUE) /\ lircmd_init(FALSE)
    /\ sock = <<>> /\ closed = FALSE /\ written = <<>> /\ handled = <<>>

lircd_step == (lircd_writes \/ lircd_exits) /\ UNCHANGED <<uinput, lircmd_vars>>

Next ==
    \/ lircd_step
    \/ uinput_step /\ UNCHANGED lircmd_vars
    \/ lircmd_step /\ UNCHANGED uinput

Spec == Init /\ [][Next]_vars

-----------------------------------------------------------------------------

(* No press is lost, used twice or used out of order while its line is cut *)
(* by the end of a buffer or waits in it behind others (loop() of lircmd,  *)
(* LineBuffer of lircd-uinput): what lircd has written is what has been    *)
(* used and what still is in the buffers, and a program that waits for     *)
(* more has used all of it. *)
NothingLost ==
    /\ upc # "exit" /\ mpc # "exit" =>
          written = handled \o events_in(line_buffer) \o events_in(SubSeq(buffer, 1, end_len)) \o events_in(sock)
    /\ upc = "poll" \/ mpc = "read" => written = handled \o events_in(sock)

(* Wherever the mouse's file is edited and read again, whatever protocol    *)
(* and mode it sets: the buttons the reader of the device sees down are    *)
(* the ones lircmd's toggles start from, and the pointer is where the MOVE *)
(* lines put it; the circles that show the mode bring it back.  (A uinput  *)
(* pointer goes the wrong way vertically but with IntelliMouse, so that    *)
(* only its other axes count.) *)
PointerFollows ==
    dev.kind = "none" \/ (dev.kind = "fifo" /\ ms.protocol = "MouseSystems")
    \/ /\ dev.down = ms.buttons /\ ms.buttons = msent
       /\ dev.at.x = asked.x /\ dev.at.z = asked.z
       /\ dev.kind = "fifo" => dev.at.y = asked.y

(* A mouse that is not active has no button down, however its mode was     *)
(* left (mouse_conv()).  It is said of the file lircmd was started with: a *)
(* new one that asks for activation can be read while a button is down.    *)
InactiveIsUp ==
    ~ms.active /\ ~ms.always_active /\ conf = 1 => dev.down = {}

(* With --add-release-events no key stays down once lircd has been quiet   *)
(* for the time of poll() (send_release_event()), but for the keys that    *)
(* lircd-uinput does not remember: another press came before the release,  *)
(* or the press was a line with the release suffix.                        *)
ReleasedWhenQuiet ==
    quiet => keys.down \subseteq abandoned

-----------------------------------------------------------------------------
(* What makes these inductive. *)

(* The pieces of a stream are pairs. *)
Piece(E) == [event : E, newline : BOOLEAN]
Paired(pieces) ==
    /\ pieces # <<>> => ~pieces[1].newline /\ pieces[Len(pieces)].newline
    /\ \A k \in 1..(Len(pieces) - 1) :
          IF pieces[k].newline THEN ~pieces[k + 1].newline
          ELSE pieces[k + 1] = [event |-> pieces[k].event, newline |-> TRUE]

(* A buffer and the socket hold whole lines together, and the events that  *)
(* were written and are not handled yet.                                   *)
Stream(E, held, queued, done, all) ==
    /\ held \in Seq(Piece(E)) /\ queued \in Seq(Piece(E))
    /\ done \in Seq(E) /\ all \in Seq(E)
    /\ Paired(held \o queued)
    /\ all = (done \o events_in(held)) \o events_in(queued)

(* One of the two programs runs.  While it waits it holds no whole line.   *)
StreamInv ==
    /\ \/ /\ upc = "off" /\ mpc # "off" /\ scene \in LircmdScenes
          /\ line_buffer = <<>> /\ end_len = Len(buffer)
          /\ Stream(scene.events, buffer, sock, handled, written)
       \/ /\ mpc = "off" /\ upc # "off" /\ scene \in UinputScenes
          /\ buffer = <<>> /\ end_len = 0
          /\ Stream(scene.events, line_buffer, sock, handled, written)
    /\ upc \in {"start", "poll"} => newline_at(line_buffer) = 0
    /\ mpc \in {"window", "read"} => newline_at(buffer) = 0

IsButton(name) == name = [base |-> name.base, suffix |-> name.suffix] /\ name.suffix \in BOOLEAN

(* Only the last button has a key down that is not forgotten, and its      *)
(* release will find it.                                                   *)
KeyInv ==
    /\ DOMAIN keys = {"registered", "down", "delay", "period"}
    /\ IsButton(last_button_press)
    /\ \A b \in DOMAIN code_cache : code_cache[b] = get_keycode(b)
    /\ last_button_press # none =>
          get_keycode(last_button_press).code # KEY_RESERVED /\ ~last_button_press.suffix
    /\ keys.down \subseteq keys.registered \ {KEY_RESERVED}
    /\ keys.down \subseteq abandoned \cup {get_keycode(last_button_press).code}
    /\ quiet => last_button_press = none

(* The mouse, as the functions of lircmd pass it on. *)
Place == [x : Int, y : Int, z : Int]
Settings ==
    [protocol : {"MouseSystems", "IMPS/2", "IntelliMouse"}, always_active : BOOLEAN, toggle_active : BOOLEAN,
     active : BOOLEAN, acc_start : Nat, acc_max : Nat, acc_fak : Nat, buttons : SUBSET BUTTONS]
Mouse ==
    [ms : Settings, buttons : SUBSET BUTTONS, asked : Place, found : BOOLEAN,
     dev : [kind : {"none", "fifo", "uinput"}, at : Place, down : SUBSET BUTTONS]]
TransMouse == [tm_directive : STRING, tm_remote : STRING, tm_button : STRING]

(* The reader of the device sees what lircmd means. *)
Follows(s) ==
    /\ s.buttons = s.ms.buttons
    /\ s.dev.kind = "none" => s.dev.down = {}
    /\ s.dev.kind # "none" =>
          /\ s.dev.down = s.buttons
          /\ s.dev.at.x = s.asked.x /\ s.dev.at.z = s.asked.z
          /\ s.dev.kind = "fifo" => s.dev.at.y = s.asked.y
Rests(s) == ~s.ms.active /\ ~s.ms.always_active => s.buttons = {}

TheMouse == [ms |-> ms, buttons |-> msent, dev |-> dev, asked |-> asked, found |-> FALSE]

(* Until a file is edited no button is down in a mouse that is not active. *)
MouseInv ==
    /\ TheMouse \in Mouse /\ tm_first \in Seq(TransMouse)
    /\ mpc # "exit" => Follows(TheMouse) /\ (conf = 1 => Rests(TheMouse))
    /\ mpc \in {"off", "start"} => ms.active = FALSE /\ ms.buttons = {} /\ asked = dev.at /\ dev.kind = "none"
    /\ mpc = "exit" => dev.kind = "none"
    /\ mpc # "off" => conf \in 1..Len(scene.files)
    /\ conf = 1 => ~hup
    /\ InactiveIsUp

(* ACCELERATOR starts with a repeat.  (With 0 msend() would multiply the   *)
(* first press by 0 and write nothing, not even its buttons.) *)
PressesCount == ms.acc_start >= 1

=============================================================================
