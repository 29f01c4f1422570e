------------------------------- MODULE Drivers -------------------------------
(***************************************************************************)
(* lircd and the drivers that receive codes: one of them at a time, with   *)
(* its descriptors (Port) and its rec_func (SerialDrivers, HidDrivers),    *)
(* called from lircd's event loop.                                         *)
(*                                                                         *)
(* rec_func() is not atomic: while it waits for the next byte lircd runs   *)
(* its event loop, so that clients come and go, and the device is closed   *)
(* and opened, in the middle of a packet.                                  *)
(*                                                                         *)
(* A scene is a driver, the packets its device sends, the steps of         *)
(* init_func() that may fail, how often something may fail, how many       *)
(* clients come, how often the device is unplugged (and which step fails   *)
(* then), and whether a client stays until all is read.  A packet is       *)
(* what comes without a pause (its items are bytes, events or transfers),  *)
(* the pause before it, and the code it stands for (<<>> if it is only a   *)
(* part of one).                                                           *)
(***************************************************************************)
EXTENDS Port, HidDrivers

CONSTANTS Scenes, MaxRepeatCount, MaxOut

Serial ==    \* these keep the number of the descriptor they close
  {"creative", "pixelview", "logitech", "pcmak", "mp3anywhere", "silitek", "ea65", "mouseremote", "mouseremote_ps2",
   "uirt2", "pinsys", "accent"}
Hiddev == {"dvico", "bw6130", "asusdh", "macmini", "sonyir"}
Default == {"default", "default_mode2"}
(* Drivers that wait in read() and not in waitfordata(). *)
Blocking == {"livedrive_midi", "livedrive_seq"}
Threaded == {"zotac", "atwf83", "ati", "aw", "dfc", "i2cuser"}
AllDrivers ==
  Serial \cup Hiddev \cup Default \cup Blocking \cup Threaded
  \cup {"usbx", "tira", "irlink", "mplay", "mplay_nowheel", "sb0540", "samsung", "alsa_usb", "devinput", "creative_infracd"}

ASSUME ScenesAssumption ==
  \A s \in Scenes :
    /\ s.driver \in AllDrivers /\ s.link \in BOOLEAN
    /\ s.lock \in [name : {"", "dead", "other"}, target : {"", "dead", "other"}]
    /\ s.rc \in {"none", "off", "on"}
    /\ {s.faults, s.others, s.clients, s.unplugs} \subseteq Nat

VARIABLES
  scene,
  x,        \* the descriptors, see Port
  m,        \* what the driver keeps, see SerialDrivers
  mode,     \* "wait": in mywaitfordata(); "due": it found the device readable; "read": blocked in read()
  line,     \* items that arrived and were not read
  c,        \* the thread or child of the driver
  pipe,     \* what it wrote and rec_func() has not read
  at,       \* the packet that is being sent and how much of it was
  since,    \* the first packet that begins after a pause since the device was opened
  clients,  \* clin
  left,     \* faults, connections and unpluggings that may still happen
  plugged,
  out       \* what rec_func() gave to decode_all(), in order

vars == <<scene, x, m, mode, line, c, pipe, at, since, clients, left, plugged, out>>

d == scene.driver

(* Drivers whose device is not opened with O_NONBLOCK. *)
BlockingDevice ==
  Blocking \cup {"dvico", "bw6130", "asusdh", "sb0540", "macmini", "samsung", "sonyir", "devinput", "zotac",
                 "atwf83", "ati", "aw", "dfc", "i2cuser", "alsa_usb", "creative_infracd", "default"}

InitFunc(y, fail) ==
  CASE d = "creative" -> creative_init(y, fail) [] d = "pixelview" -> pixelview_init(y, fail)
    [] d = "logitech" -> logitech_init(y, fail) [] d = "pcmak" -> pcmak_init(y, fail)
    [] d = "mp3anywhere" -> mp3anywhere_init(y, fail) [] d = "silitek" -> silitek_init(y, fail)
    [] d = "ea65" -> ea65_init(y, fail) [] d = "mouseremote" -> mouseremote_init(y, fail)
    [] d = "mouseremote_ps2" -> mouseremote_ps2_init(y, fail) [] d = "uirt2" -> uirt2_init(y, fail)
    [] d = "usbx" -> usbx_init(y, fail) [] d = "pinsys" -> pinsys_init(y, fail)
    [] d = "accent" -> accent_init(y, fail) [] d = "tira" -> tira_init(y, fail)
    [] d = "mplay" -> mplay_init(y, fail) [] d = "mplay_nowheel" -> mplay_nowheel_init(y, fail)
    [] d \in {"livedrive_midi", "livedrive_seq"} -> livedrive_init(y, fail)
    [] d \in {"dvico", "bw6130", "asusdh", "macmini", "sonyir"} -> hiddev_init(y, fail)
    [] d = "sb0540" -> sb0540_init(y, fail) [] d = "samsung" -> samsung_init(y, fail)
    [] d = "devinput" -> devinput_init_fwd(y, fail) [] d = "alsa_usb" -> alsa_usb_init(y, fail)
    [] d = "creative_infracd" -> creative_infracd_init(y, fail)
    [] d = "zotac" -> zotac_init(y, fail) [] d = "atwf83" -> atwf83_init(y, fail)
    [] d = "ati" -> ati_init(y, fail) [] d = "aw" -> awlibusb_init(y, fail) [] d = "dfc" -> dfc_init(y, fail)
    [] d = "i2cuser" -> i2cuser_init(y, fail) [] d = "irlink" -> irlink_init(y, fail)
    [] d \in {"default", "default_mode2"} -> default_init(y, fail, scene.kind)
DeinitFunc(y) ==
  CASE d = "creative" -> creative_deinit(y) [] d = "pixelview" -> pixelview_deinit(y)
    [] d = "logitech" -> logitech_deinit(y) [] d = "pcmak" -> pcmak_deinit(y)
    [] d = "mp3anywhere" -> mp3anywhere_deinit(y) [] d = "silitek" -> silitek_deinit(y)
    [] d = "ea65" -> ea65_deinit(y) [] d \in {"mouseremote", "mouseremote_ps2"} -> mouseremote_deinit(y)
    [] d = "uirt2" -> uirt2_deinit(y) [] d = "pinsys" -> pinsys_deinit(y) [] d = "accent" -> accent_deinit(y)
    [] d = "usbx" -> usbx_deinit(y) [] d = "tira" -> tira_deinit(y)
    [] d \in {"mplay", "mplay_nowheel"} -> mplayfamily_deinit(y) [] d \in Blocking -> livedrive_deinit(y)
    [] d \in {"dvico", "bw6130", "asusdh", "macmini", "sonyir", "sb0540", "samsung"} -> hiddev_deinit(y)
    [] d = "devinput" -> devinput_deinit(y) [] d = "alsa_usb" -> alsa_usb_deinit(y)
    [] d = "creative_infracd" -> creative_infracd_deinit(y)
    [] d = "zotac" -> zotac_deinit(y) [] d = "atwf83" -> atwf83_deinit(y)
    [] d = "ati" -> ati_deinit(y) [] d = "aw" -> awlibusb_deinit(y) [] d = "dfc" -> dfc_deinit(y)
    [] d = "i2cuser" -> i2cuser_deinit(y) [] d = "irlink" -> irlink_deinit(y)
    [] d \in {"default", "default_mode2"} -> default_deinit(y)
RecFunc(item) ==
  CASE d = "creative" -> creative_rec(m, item) [] d = "pixelview" -> pixelview_rec(m, item)
    [] d = "logitech" -> logitech_rec(m, item) [] d = "pcmak" -> pcmak_rec(m, item)
    [] d = "mp3anywhere" -> mp3anywhere_rec(m, item) [] d = "silitek" -> silitek_rec(m, item)
    [] d = "ea65" -> ea65_rec(m, item) [] d = "mouseremote" -> mouseremote_rec(m, item)
    [] d = "mouseremote_ps2" -> mouseremote_ps2_rec(m, item) [] d = "uirt2" -> uirt2_rec(m, item)
    [] d = "usbx" -> usbx_rec(m, item) [] d = "pinsys" -> pinsys_rec(m, item)
    [] d = "accent" -> accent_rec(m, item) [] d = "tira" -> tira_rec(m, item)
    [] d \in {"mplay", "mplay_nowheel"} -> mplayfamily_rec(m, item)
    [] d = "livedrive_midi" -> livedrive_rec_midi(m, item) [] d = "livedrive_seq" -> livedrive_rec_seq(m, item)
    [] d \in {"dvico", "bw6130", "asusdh"} -> hiddev_rec(m, item) [] d = "sb0540" -> sb0540_rec(m, item)
    [] d = "macmini" -> macmini_rec(m, item) [] d = "samsung" -> samsung_rec(m, item)
    [] d = "sonyir" -> sonyir_rec(m, item) [] d = "devinput" -> devinput_rec(m, item, x.dev # None)
    [] d = "creative_infracd" -> creative_infracd_rec(m, item)
    [] d = "alsa_usb" -> alsa_usb_rec(m, item) [] d \in {"zotac", "atwf83"} -> repeat_rec(m, item)
    [] d \in {"ati", "aw", "dfc", "i2cuser"} -> code_rec(m, item) [] d = "irlink" -> irlink_readdata(m, item)
    [] d = "default" -> default_rec(m, item, scene.length) [] d = "default_mode2" -> default_readdata(m, item)
(* waitfordata() timed out; read() failed or had nothing. *)
RecTimeout ==
  CASE d = "usbx" -> usbx_timeout(m) [] d = "pinsys" -> pinsys_timeout(m) [] d = "tira" -> tira_timeout(m)
    [] d = "accent" -> accent_timeout(m) [] OTHER -> Drop(m)
RecEmpty ==
  CASE d = "usbx" -> usbx_empty(m) [] d \in {"mplay", "mplay_nowheel"} -> mplayfamily_empty(m)
    [] d = "silitek" /\ plugged -> silitek_empty(m)
    [] d \in {"dvico", "bw6130", "asusdh"} /\ ~m.busy -> hiddev_empty(m)
    [] d \in {"macmini", "sb0540", "samsung", "devinput", "zotac", "atwf83", "ati", "dfc",
              "default", "default_mode2", "irlink"} -> hiddev_empty(m)
    [] OTHER -> Drop(m)
ReadLoop(item) ==
  CASE d = "zotac" -> zotac_press(c, item) [] d = "atwf83" -> atwf83_press(c, item)
    [] d = "ati" -> ati_read_loop(c, item) [] d = "aw" -> aw_read_loop(c, item)
    [] d = "dfc" -> dfc_read_loop(c, item) [] d = "i2cuser" -> i2cuser_read_loop(c, item)

-----------------------------------------------------------------------------
packet == scene.packets[at[1]]
Sending == at[1] <= Len(scene.packets)
(* No byte will come soon: a packet is over and a pause follows. *)
Pause == Sending => at[2] = 0 /\ packet.pause # ""

HasOpen(what) == \E f \in Fds : x.open[f] = what
Delivering == plugged /\ HasOpen("dev")
use_hw == clients > 0
Polled == use_hw /\ x.fd # None
Queue == IF d \in Threaded THEN pipe ELSE line
(* What poll() says of drv.fd; a device that is gone is readable for ever. *)
Readable ==
  /\ Polled /\ x.fd \in Fds
  /\ \/ x.open[x.fd] \in {"dev", "r"} /\ Queue # <<>>
     \/ x.open[x.fd] \in {"dead", "null"}
     \/ x.open[x.fd] = "r" /\ x.live = 0 /\ ~HasOpen("w")
Working ==
  /\ Polled /\ x.open[x.fd] \in {"dev", "r", "null"} /\ x.rc # "off"
  /\ (d \in Threaded => x.live > 0 /\ ~c.over)

Init ==
  /\ scene \in Scenes
  /\ x = my_open([NewPort EXCEPT !.link = scene.link, !.lock = scene.lock, !.rc = scene.rc])
  /\ m = NewDriver /\ c = NewChild
  /\ mode = "wait"
  /\ line = <<>> /\ pipe = <<>> /\ out = <<>>
  /\ at = <<1, 0>> /\ since = 1
  /\ clients = 0 /\ plugged = TRUE
  /\ left = [faults |-> scene.faults, others |-> scene.others, clients |-> scene.clients, unplugs |-> scene.unplugs]

(* The next item of the device.  Before a pause ends every wait of lircd   *)
(* for more of the packet has timed out.                                   *)
Sends ==
  LET first == at[2] = 0
      last == at[2] + 1 = Len(packet.items)
      item == packet.items[at[2] + 1] IN
  /\ Sending /\ (scene.steady => Working)
  /\ (first /\ packet.pause # "") =>
        /\ line = <<>> /\ pipe = <<>> /\ mode # "due"
        /\ mode = "wait" => ~m.busy
  /\ line' = IF Delivering THEN Append(line, item) ELSE line
  /\ at' = IF last THEN <<at[1] + 1, 0>> ELSE <<at[1], at[2] + 1>>
  /\ m' = IF ~first \/ packet.pause = "" THEN m
          ELSE [m EXCEPT !.near = FALSE, !.idle = @ \/ packet.pause = "idle"]
  /\ c' = IF first /\ d = "i2cuser" /\ packet.pause = "idle" THEN [c EXCEPT !.pressed = FALSE] ELSE c
  /\ UNCHANGED <<scene, x, mode, pipe, since, clients, left, plugged, out>>

Unplugs ==
  /\ plugged /\ left.unplugs > 0
  /\ left' = [left EXCEPT !.unplugs = @ - 1]
  /\ plugged' = FALSE /\ line' = <<>>
  /\ x' = [x EXCEPT !.open = [f \in Fds |-> IF @[f] = "dev" THEN "dead" ELSE @[f]],
                    !.rc = IF @ = "none" THEN @ ELSE "gone"]
  /\ UNCHANGED <<scene, m, mode, c, pipe, at, since, clients, out>>
Plugs ==
  /\ ~plugged /\ plugged' = TRUE
  /\ x' = [x EXCEPT !.rc = IF @ = "none" THEN @ ELSE "off"]
  /\ UNCHANGED <<scene, m, mode, line, c, pipe, at, since, clients, left, out>>

(* Another program locks the port, and unlocks it or ends without doing so.*)
OtherLocks ==
  /\ x.lock.name \in {"", "dead"} /\ left.others > 0
  /\ x' = [x EXCEPT !.lock.name = "other"]
  /\ left' = [left EXCEPT !.others = @ - 1]
  /\ UNCHANGED <<scene, m, mode, line, c, pipe, at, since, clients, plugged, out>>
OtherEnds ==
  /\ x.lock.name = "other"
  /\ \E file \in {"", "dead"} : x' = [x EXCEPT !.lock.name = file]
  /\ UNCHANGED <<scene, m, mode, line, c, pipe, at, since, clients, left, plugged, out>>

-----------------------------------------------------------------------------
(* init_func(); what was not read is lost with the old descriptor. *)
Initialises(y, come) ==
  \E fail \in (IF ~plugged THEN {scene.missing} ELSE {""} \cup (IF left.faults > 0 THEN scene.fails ELSE {})) :
    /\ x' = InitFunc(y, fail).x
    /\ left' = [left EXCEPT !.faults = IF plugged /\ fail # "" THEN @ - 1 ELSE @,
                            !.clients = @ - come]
    /\ line' = <<>> /\ pipe' = <<>> /\ c' = NewChild
    /\ since' = Min({i \in DOMAIN scene.packets : (i > at[1] \/ at = <<i, 0>>) /\ scene.packets[i].pause # ""}
                      \cup {Len(scene.packets) + 1})

Serving == mode = "wait" \/ mode = "due"
(* add_client(): init_func() for the first one; its failure is only logged.*)
Connects ==
  LET y == Open(x, "client") IN
  /\ Serving /\ ~(d \in Blocking /\ m.busy)
  /\ left.clients > 0 /\ clients' = clients + 1 /\ Room(x)
  /\ IF use_hw THEN /\ x' = y /\ left' = [left EXCEPT !.clients = @ - 1]
                    /\ UNCHANGED <<line, pipe, c, since>>
     ELSE Initialises(y, 1)
  /\ UNCHANGED <<scene, m, mode, at, plugged, out>>
(* remove_client(): deinit_func() after the last one. *)
Leaves ==
  LET f == CHOOSE g \in Fds : x.open[g] = "client"
      y == Close(x, f) IN
  /\ Serving /\ ~(d \in Blocking /\ m.busy)
  /\ clients > 0 /\ clients' = clients - 1
  /\ scene.steady => ~Sending /\ line = <<>> /\ ~m.busy
  /\ IF clients > 1 THEN x' = y /\ UNCHANGED <<line, pipe>>
     ELSE x' = DeinitFunc(y) /\ line' = <<>> /\ pipe' = <<>>
  /\ UNCHANGED <<scene, m, mode, c, at, since, left, plugged, out>>
(* Without a descriptor init_func() is called again every second. *)
Reconnects ==
  /\ mode = "wait" /\ use_hw /\ x.fd = None /\ Room(x)
  /\ Initialises(x, 0)
  /\ UNCHANGED <<scene, m, mode, at, clients, plugged, out>>

Polls ==
  /\ mode = "wait" /\ Readable /\ ~(d \in Blocking /\ m.busy)
  /\ mode' = "due"
  /\ UNCHANGED <<scene, x, m, line, c, pipe, at, since, clients, left, plugged, out>>
(* What a call of the driver leaves behind, and the rest of line and pipe. *)
After(s, rest) ==
  /\ m' = [s EXCEPT !.out = <<>>, !.then = ""]
  /\ out' = out \o s.out
  /\ x' = CASE s.then = "deinit" -> DeinitFunc(x) [] s.then = "reopen" -> accent_reopen(x) [] OTHER -> x
  /\ IF d \in Threaded THEN line' = line /\ pipe' = rest
     ELSE line' = (IF s.then \in {"flush", "reopen"} THEN <<>> ELSE rest) /\ pipe' = pipe
  /\ UNCHANGED <<scene, c, at, since, clients, left, plugged>>
(* The read() that follows: the descriptor may be another one by now, with *)
(* nothing to read.                                                        *)
Reads ==
  /\ \/ mode = "due"
     \/ mode = "read" /\ (Queue # <<>> \/ ~Delivering)
     \/ mode = "wait" /\ d \in Blocking /\ m.busy /\ (Queue # <<>> \/ ~Delivering)
  /\ IF ~Polled
     THEN mode' = "wait" /\ UNCHANGED <<scene, x, m, line, c, pipe, at, since, clients, left, plugged, out>>
     ELSE IF Queue # <<>> THEN mode' = "wait" /\ After(RecFunc(Head(Queue)), Tail(Queue))
     ELSE IF d \in BlockingDevice /\ Delivering /\ mode = "due"
     THEN mode' = "read" /\ UNCHANGED <<scene, x, m, line, c, pipe, at, since, clients, left, plugged, out>>
     ELSE mode' = "wait" /\ After(RecEmpty, <<>>)
TimesOut ==
  /\ mode = "wait" /\ m.busy /\ d \notin Blocking
  /\ ~Readable /\ (Delivering /\ Polled => Pause)
  /\ mode' = "wait" /\ After(RecTimeout, Queue)

-----------------------------------------------------------------------------
(* The thread or the child. *)
Steps(s, rest) ==
  /\ c' = [s EXCEPT !.writes = <<>>]
  /\ pipe' = pipe \o s.writes
  /\ line' = rest
  /\ x' = IF s.over /\ d \notin {"zotac", "atwf83"} THEN [x EXCEPT !.live = @ - 1] ELSE x
  /\ UNCHANGED <<scene, m, mode, at, since, clients, left, plugged, out>>
(* The device is gone: atwf83's thread tells lircd, a child just ends. *)
ReadFails ==
  CASE d = "zotac" -> zotac_read_fails(c) [] d = "atwf83" -> Exits(c) [] OTHER -> [Exits(c) EXCEPT !.writes = <<>>]
ChildReads ==
  /\ d \in Threaded /\ x.live > 0 /\ ~c.over
  /\ IF line # <<>> THEN Steps(ReadLoop(Head(line)), Tail(line))
     ELSE HasOpen("dead") /\ Steps(ReadFails, <<>>)
(* A key that is held; the thread of zotac does not wait while none is. *)
ChildRepeats ==
  /\ d \in {"zotac", "atwf83"} /\ x.live > 0 /\ ~c.over /\ Delivering
  /\ c.pressed \/ d = "zotac"
  /\ line = <<>> /\ pipe = <<>> /\ Len(out) < MaxOut
  /\ Steps(repeat_again(c, MaxRepeatCount), line)

(* Nothing to do, or blocked in read() until the next press. *)
Quiet ==
  /\ ~Sending /\ (mode = "read" \/ (mode = "wait" /\ ~Readable /\ ~m.busy))
  /\ UNCHANGED vars

Lircd == Reconnects \/ Polls \/ Reads \/ TimesOut \/ ChildReads
Next == Sends \/ Unplugs \/ Plugs \/ OtherLocks \/ OtherEnds \/ Connects \/ Leaves \/ Lircd \/ ChildRepeats \/ Quiet

(* lircd's loop and the children go on, and a device that was started      *)
(* sends the rest of its packet.                                           *)
Spec == Init /\ [][Next]_vars /\ WF_vars(Lircd) /\ WF_vars(Sends)
-----------------------------------------------------------------------------
(* Codes without the repeats a thread makes while a key is held. *)
Presses == IF d \in {"zotac", "atwf83"} THEN SelectSeq(out, LAMBDA o : o.repeat # "yes") ELSE out
Sent == {i \in DOMAIN scene.packets : i < at[1] /\ scene.packets[i].code # <<>>}
Code(i) == scene.packets[i].code[1]
IsSubSeq(s, t) ==
  LET found[i \in 0..Len(t)] ==
        IF i = 0 THEN 0
        ELSE LET k == found[i - 1] IN IF k < Len(s) /\ s[k + 1] = t[i] THEN k + 1 ELSE k
  IN found[Len(t)] = Len(s)

(* decode_all() gets the codes of packets the device sent, each once and   *)
(* in the order they were sent, whatever came in between: parts of         *)
(* packets, a packet split by a reopening of the device, clients that come *)
(* and go while rec_func() waits.  And it gets all of them that arrived    *)
(* since the first pause after the device was opened.                      *)
Framed ==
  /\ IsSubSeq(Presses, FlattenSeq([i \in 1..(at[1] - 1) |-> scene.packets[i].code]))
  /\ (Working /\ mode = "wait" /\ ~m.busy /\ line = <<>> /\ pipe = <<>>)
       => \A i \in Sent : i >= since => \E j \in DOMAIN out : out[j] = Code(i)
(* The descriptor lircd polls for the device is one the driver has opened, *)
(* not a number that was closed and may belong to a client by now.         *)
OwnFd == Polled => x.fd \in Fds /\ x.open[x.fd] \in {"dev", "dead", "r", "null"}
(* These keep a descriptor of each session: the device, or the end of the  *)
(* pipe that belongs to the child.                                         *)
Leaking == {"mplay", "ati", "aw", "dfc"}
(* Without clients lircd does not hold the device: no descriptor, no lock  *)
(* file, no child is left of init_func(), however it went.                 *)
NothingLeaks ==
  clients = 0 /\ d \notin Leaking => (\A f \in Fds : x.open[f] \in {"", "client"}) /\ x.live = 0
    /\ \A f \in DOMAIN x.lock : x.lock[f] # "own"
(* The steps of init_func() after whose failure a driver leaves drv.fd on  *)
(* a number that is closed, or what it opened or locked behind.            *)
Unclean(e) ==
  CASE e \in Serial -> {"lock", "reset", "baud", "csize", "rtscts", "rts", "flush"}
    [] e = "mplay_nowheel" -> {"open"} [] e = "creative_infracd" -> {"open", "detect"}
    [] e = "zotac" -> {"pipe", "flags"} [] e = "atwf83" -> {"pipe"}
    [] e = "ati" -> {"open", "claim", "fork"} [] e \in {"aw", "dfc"} -> {"find", "open", "claim", "fork"}
    [] e = "i2cuser" -> {"pipe", "open", "slave", "fork"} [] OTHER -> {}
(* OwnFd and NothingLeaks are about scenes where none of them fails, where *)
(* no other program takes the lock of a driver that keeps the number, and  *)
(* where the child of i2cuser lives as long as the session.                *)
CleanScenes ==
  \A s \in Scenes :
    /\ s.fails \cap Unclean(s.driver) = {}
    /\ s.unplugs > 0 => s.missing \notin Unclean(s.driver) /\ s.driver # "i2cuser"
    /\ s.driver \in Serial => s.others = 0
    /\ s.driver = "pinsys" => s.lock.name # "other"

(* A device that is there, and is not locked by another program, while a   *)
(* client stays is in use after a while.  zotac's, once it was unplugged,  *)
(* is not: remove_code, the "code that triggers device remove", never gets *)
(* to lircd.                                                               *)
RemovalsHeard == <>[](use_hw /\ plugged /\ x.lock.name # "other") => []<>Working

(* It is with all the others, and with zotac's until it is unplugged:      *)
(* after failures of init_func(), after unplugging, and when a lock file   *)
(* is left of a program that crashed.                                      *)
Reopened == (d = "zotac" => scene.unplugs = 0) => RemovalsHeard

=============================================================================
