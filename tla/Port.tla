-------------------------------- MODULE Port --------------------------------
(***************************************************************************)
(* What the init_func and deinit_func of the drivers do to the process:    *)
(* file descriptors, lock files, children (lib/serial.c and plugins/*.c).  *)
(*                                                                         *)
(* A port x is a record: open[f] is what descriptor f is open on, "" if it *)
(* is free; fd is drv.fd; dev is the descriptor (or the handle) of the     *)
(* device where the driver keeps another one, r and w are the ends of its  *)
(* pipe; tid is the thread or child it knows of and live the ones that     *)
(* run.  -1 is "none" as in the code.                                      *)
(*                                                                         *)
(* rc is what /sys/class/rc says of the protocol lirc of the device:       *)
(* "none" (there is no such protocol), "off", "on", "gone" with the device.*)
(*                                                                         *)
(* link says whether the name of the device is a symbolic link, and lock   *)
(* what is in the lock file of the name, and of the file it links to: ""   *)
(* if there is none, else the pid of this process ("own"), of another one  *)
(* that runs ("other") or that has ended ("dead").                         *)
(*                                                                         *)
(* An init operator takes the port and the step that fails ("" if none),   *)
(* and returns the port and whether init_func() returned nonzero.          *)
(***************************************************************************)
EXTENDS Integers, Sequences, FiniteSets

CONSTANT Fds    \* the descriptors

ASSUME FdsAssumption == Fds \subseteq Nat /\ IsFiniteSet(Fds)

None == -1

(* Descriptors do not run out: a bound of the model.  add_client() opens   *)
(* one and init_func() three at most.                                      *)
Free(x) == {f \in Fds : x.open[f] = ""}
Room(x) == Cardinality(Free(x)) >= 4

Lowest(x) == CHOOSE f \in Fds : x.open[f] = "" /\ \A g \in Fds : x.open[g] = "" => f <= g
Open(x, what) == [x EXCEPT !.open[Lowest(x)] = what]
Close(x, f) == IF f \in Fds THEN [x EXCEPT !.open[f] = ""] ELSE x
(* open(), with the new descriptor in drv.fd or in the driver's own variable *)
OpenFd(x) == [Open(x, "dev") EXCEPT !.fd = Lowest(x)]
OpenDev(x) == [Open(x, "dev") EXCEPT !.dev = Lowest(x)]
Pipe(x) ==
  LET one == Open(x, "r")
      two == Open(one, "w") IN [two EXCEPT !.r = Lowest(x), !.w = Lowest(one)]

NewPort ==
  [open |-> [f \in Fds |-> ""], fd |-> None, dev |-> None, r |-> None, w |-> None,
   tid |-> None, live |-> 0, rc |-> "none", link |-> FALSE, lock |-> [name |-> "", target |-> ""]]

Failed(x) == [x |-> x, ok |-> FALSE]
Done(x) == [x |-> x, ok |-> TRUE]

(* open(O_EXCL), again after the file of a process that has ended was      *)
(* removed.  The pid of this process runs as well.                         *)
Lockable_fresh(x) == x.lock.name = ""   \* mutant: a stale lock file stays
Lockable(x) == x.lock.name \in {"", "dead"}
(* Whether the other file could be locked is not looked at: the result of  *)
(* the inner call is compared with -1.                                     *)
tty_create_lock(x) ==
  [x EXCEPT !.lock = [name |-> "own",
                      target |-> IF x.link /\ @.target \in {"", "dead"} THEN "own" ELSE @.target]]
(* Every lock file with the pid of this process. *)
tty_delete_lock_name(x) == [x EXCEPT !.lock.name = ""]   \* mutant: not the one of the link's target
tty_delete_lock(x) == [x EXCEPT !.lock = [f \in DOMAIN @ |-> IF @[f] = "own" THEN "" ELSE @[f]]]
Refused(x, fail) == fail = "lock" \/ ~Lockable(x)

-----------------------------------------------------------------------------
(* Serial drivers that keep the number of the closed descriptor. *)
tty_deinit(x) == tty_delete_lock(Close(x, x.fd))
creative_deinit(x) == tty_deinit(x)
pixelview_deinit(x) == tty_deinit(x)
logitech_deinit(x) == tty_deinit(x)
pcmak_deinit(x) == tty_deinit(x)
mp3anywhere_deinit(x) == tty_deinit(x)
silitek_deinit(x) == tty_deinit(x)
ea65_deinit(x) == tty_deinit(x)
mouseremote_deinit(x) == tty_deinit(x)
uirt2_deinit(x) == tty_deinit(x)
pinsys_deinit(x) == tty_deinit(x)
accent_deinit(x) == tty_deinit(x)
usbx_deinit_keeps_fd(x) == tty_delete_lock(Close(x, x.fd))   \* mutant
usbx_deinit(x) == tty_delete_lock([Close(x, x.fd) EXCEPT !.fd = None])

(* tty_create_lock(), open(), and the settings of the line, one of which   *)
(* may fail; undone is the port after deinit_func() then. *)
tty_opened(x) == OpenFd(tty_create_lock(x))
serial_init(x, fail, undone, settings) ==
  IF Refused(x, fail) THEN Failed(x)
  ELSE CASE fail = "open" -> Failed(tty_delete_lock([tty_opened(x) EXCEPT !.open = x.open, !.fd = None]))
         [] fail \in settings -> Failed(undone)
         [] OTHER -> Done(tty_opened(x))

creative_init(x, fail) == serial_init(x, fail, creative_deinit(tty_opened(x)), {"reset", "baud"})
pixelview_init(x, fail) == serial_init(x, fail, pixelview_deinit(tty_opened(x)), {"reset", "baud"})
logitech_init(x, fail) == serial_init(x, fail, logitech_deinit(tty_opened(x)), {"reset", "baud"})
pcmak_init(x, fail) == serial_init(x, fail, pcmak_deinit(tty_opened(x)), {"reset", "baud"})
mp3anywhere_init(x, fail) == serial_init(x, fail, mp3anywhere_deinit(tty_opened(x)), {"reset", "baud"})
silitek_init(x, fail) == serial_init(x, fail, silitek_deinit(tty_opened(x)), {"reset", "baud"})
ea65_init(x, fail) == serial_init(x, fail, ea65_deinit(tty_opened(x)), {"reset", "baud"})
mouseremote_init(x, fail) == serial_init(x, fail, mouseremote_deinit(tty_opened(x)), {"reset", "baud", "csize"})
mouseremote_ps2_init(x, fail) == serial_init(x, fail, mouseremote_deinit(tty_opened(x)), {})
uirt2_init(x, fail) == serial_init(x, fail, uirt2_deinit(tty_opened(x)), {"reset", "baud", "csize", "rtscts"})
usbx_init(x, fail) == serial_init(x, fail, usbx_deinit(tty_opened(x)), {"reset", "baud", "rtscts"})

(* pinsys looks for its receiver on the other ports when it cannot open    *)
(* the device; autodetect() takes back the locks it makes, so the port it  *)
(* finds is opened without one.                                            *)
pinsys_init(x, fail) ==
  IF fail = "detected" THEN Done(OpenFd(x))
  ELSE serial_init(x, fail, pinsys_deinit(tty_opened(x)), {"reset", "baud", "rts", "flush"})

(* accent_open_serial_port() does not close the descriptor when a setting  *)
(* fails.                                                                  *)
accent_init(x, fail) ==
  LET locked == [tty_create_lock(x) EXCEPT !.fd = None] IN
  IF Refused(x, fail) THEN Failed(x)
  ELSE CASE fail = "open" -> Failed(accent_deinit(locked))
         [] fail \in {"reset", "baud", "flush"} -> Failed(accent_deinit(Open(locked, "dev")))
         [] OTHER -> Done(OpenFd(locked))
(* The same port again after a jam of zeroes. *)
accent_reopen(x) == OpenFd(Close(x, x.fd))

(* irlink_close() *)
irlink_deinit(x) == IF x.fd = None THEN x ELSE usbx_deinit(x)
(* The settings fail without notice: the tty functions return 0, not -1. *)
irlink_init(x, fail) ==
  LET locked == [tty_create_lock(x) EXCEPT !.fd = None] IN
  IF Refused(x, fail) THEN Failed([x EXCEPT !.fd = None])
  ELSE CASE fail = "open" -> Failed(tty_delete_lock(locked))
         [] fail = "detect" -> Failed(irlink_deinit(OpenFd(locked)))
         [] OTHER -> Done(OpenFd(locked))

(* An answer of a Tira or of an Ira makes the device known. *)
tira_deinit(x) == usbx_deinit([x EXCEPT !.tid = None, !.live = IF x.tid = None THEN @ ELSE @ - 1])
tira_init(x, fail) ==
  LET y == IF x.tid = None THEN x ELSE tira_deinit(x)
      locked == tty_create_lock(y) IN
  IF Refused(y, fail) THEN Failed(y)
  ELSE CASE fail = "open" -> Failed(tty_delete_lock([locked EXCEPT !.fd = None]))
         [] fail = "detect" -> Failed(tira_deinit(OpenFd(locked)))
         [] OTHER -> Done(OpenFd(locked))
(* In timing mode a child reads the device and drv.fd is its pipe. *)
tira_setup_timing(x, fail) ==
  LET y == OpenFd(tty_create_lock(IF x.tid = None THEN x ELSE tira_deinit(x)))
      p == Pipe(y) IN
  CASE fail \in {"lock", "open", "detect"} -> tira_init(x, fail)
    [] fail = "pipe" -> Failed(tira_deinit(Close(Close(y, x.r), x.w)))   \* the numbers of an older pipe
    [] fail = "fork" -> Failed(tira_deinit(Close(Close(p, p.r), p.w)))
    [] OTHER -> Done([Close(Close(p, y.fd), p.w) EXCEPT !.fd = p.r, !.tid = 1, !.live = @ + 1])

(* mplayfamily_init(): the branches for the settings, for the receiver and *)
(* for the thread come after one that is always taken.                     *)
mplayfamily_deinit(x) ==
  LET y == Close(Close(x, x.r), x.w)
      z == [y EXCEPT !.r = None, !.w = None]
  IN IF x.fd = None THEN z ELSE tty_delete_lock([Close(z, x.fd) EXCEPT !.fd = None, !.dev = None])
mplayfamily_init(x, fail, nowheel) ==
  LET p == IF nowheel \/ fail = "pipe" THEN x ELSE Pipe(x)
      failed == fail \in {"pipe", "open"} \/ Refused(x, fail)
      opened == IF fail = "pipe" \/ Refused(x, fail) THEN p
                ELSE IF fail = "open" THEN [tty_create_lock(p) EXCEPT !.dev = None]
                ELSE OpenDev(tty_create_lock(p))
      y == IF failed THEN mplayfamily_deinit(opened) ELSE opened
  IN [x |-> [y EXCEPT !.fd = IF nowheel THEN y.dev ELSE y.r], ok |-> ~failed]
mplay_init(x, fail) == mplayfamily_init(x, fail, FALSE)
mplay_nowheel_init(x, fail) == mplayfamily_init(x, fail, TRUE)

-----------------------------------------------------------------------------
(* Devices without a lock. *)
livedrive_deinit(x) == Close(x, x.fd)
livedrive_init(x, fail) ==
  IF fail = "open" THEN Failed([x EXCEPT !.fd = None]) ELSE Done(OpenFd(x))

hiddev_deinit(x) == [Close(x, x.fd) EXCEPT !.fd = None]
hiddev_init(x, fail) == livedrive_init(x, fail)
(* A failure of an ioctl() leaves the device open. *)
sb0540_init(x, fail) == IF fail = "flags" THEN Failed(OpenFd(x)) ELSE hiddev_init(x, fail)
samsung_init(x, fail) == sb0540_init(x, fail)

(* default.c.  The protocol lirc is switched on; how that goes is only     *)
(* logged.                                                                 *)
visit_rc(rc) == IF rc = "off" THEN "on" ELSE rc
set_rc_protocol(x) == [x EXCEPT !.rc = visit_rc(@)]
my_open(x) == set_rc_protocol(x)
default_deinit(x) == [Close(x, x.fd) EXCEPT !.fd = None]
(* kind is what the device is: a socket, a fifo, another file, or a LIRC   *)
(* device, with what it can do ("none": nothing lircd supports).           *)
default_init(x, fail, kind) ==
  LET y == set_rc_protocol(x)
      opened == OpenFd(y) IN
  CASE fail = "stat" -> Failed(y)
    [] fail = "open" -> Failed([y EXCEPT !.fd = None])
    [] \/ fail = "connect" /\ kind = "socket"
       \/ kind = "file"
       \/ fail = "features" /\ kind \in {"lirccode", "mode2", "none"}
       \/ fail \in {"length", "long"} /\ kind = "lirccode"
       \/ kind = "none" -> Failed(default_deinit(opened))
    [] OTHER -> Done(opened)

(* uinputfd is x.dev: the device that gets what lircd does not want. *)
devinput_deinit(x) ==
  LET y == [Close(x, x.dev) EXCEPT !.dev = None] IN [Close(y, y.fd) EXCEPT !.fd = None]
devinput_init_fwd(x, fail) ==
  LET opened == OpenFd(x) IN
  CASE fail = "locate" -> Failed(x)
    [] fail = "open" -> Failed([x EXCEPT !.fd = None])
    [] fail = "uinput" -> Done([opened EXCEPT !.dev = None])   \* setup_uinputfd() closes it
    [] OTHER -> Done([Open(opened, "uinput") EXCEPT !.dev = Lowest(opened)])

alsa_usb_deinit(x) == [Close(x, x.fd) EXCEPT !.fd = None]
alsa_usb_init(x, fail) == IF fail \in {"open", "info", "poll"} THEN Failed(x) ELSE Done(OpenFd(x))

creative_infracd_deinit(x) == Close(Close(x, x.fd), x.dev)
creative_infracd_init(x, fail) ==
  LET opened == OpenDev(x) IN
  CASE fail = "open" -> Failed(x)
    [] fail = "detect" -> Failed(Open(x, "dev"))   \* is_my_device() said no
    [] fail = "null" -> Failed([Close(opened, opened.dev) EXCEPT !.fd = None, !.dev = x.dev])
    [] OTHER -> Done([Open(opened, "null") EXCEPT !.fd = Lowest(opened)])

(* zotac and atwf83: fd_hidraw is x.dev, and a thread writes to the pipe. *)
repeat_deinit(x) ==
  LET y == Close(Close(Close(x, x.dev), x.w), x.r)
  IN [y EXCEPT !.dev = None, !.r = None, !.w = None, !.fd = None, !.live = 0]
zotac_deinit(x) == repeat_deinit(x)
atwf83_deinit(x) == repeat_deinit(x)
atwf83_init(x, fail) ==
  LET opened == OpenDev(x)
      hid == [opened EXCEPT !.fd = opened.dev]
      p == Pipe(hid)
      both == [p EXCEPT !.fd = p.r] IN
  CASE fail = "open" -> Failed([x EXCEPT !.dev = None])
    [] fail = "pipe" -> Failed(Close(hid, hid.dev))
    [] fail = "thread" -> Failed(both)
    [] OTHER -> Done([both EXCEPT !.live = 1])
zotac_init(x, fail) == IF fail = "flags" THEN Failed(OpenDev(x)) ELSE atwf83_init(x, fail)

(* The drivers on libusb and on I2C: a child reads the device.  dev is     *)
(* dev_handle or i2c_fd.  The parent keeps the write end of the pipe where *)
(* the code does not close it, and the variable child keeps the old pid.   *)
usb_failed(p) == Failed([Close(Close(Close(p, p.dev), p.r), p.w) EXCEPT !.dev = None, !.r = None, !.w = None])
awlibusb_init(x, fail) ==
  LET p == Pipe(x)
      y == [p EXCEPT !.fd = p.r]
      opened == OpenDev(y) IN
  CASE fail = "pipe" -> Failed(x)
    [] fail \in {"find", "open"} -> usb_failed(y)
    [] fail = "claim" -> usb_failed(opened)
    [] fail = "fork" -> usb_failed([opened EXCEPT !.tid = None])
    [] OTHER -> Done([opened EXCEPT !.tid = 1, !.live = @ + 1])
(* Here a device that is not there, or has other endpoints, leaves the     *)
(* pipe open.                                                              *)
ati_init(x, fail) ==
  LET p == Pipe(x) IN
  IF fail = "find" THEN Failed([p EXCEPT !.fd = p.r, !.r = None, !.w = None]) ELSE awlibusb_init(x, fail)
dfc_init(x, fail) == awlibusb_init(x, fail)
usb_deinit(x) ==
  LET y == Close(Close(x, x.dev), x.fd)
  IN [y EXCEPT !.dev = None, !.fd = None, !.live = IF x.tid # None /\ @ > 0 THEN @ - 1 ELSE @]

ati_deinit(x) == usb_deinit(x)
awlibusb_deinit(x) == usb_deinit(x)
dfc_deinit(x) == usb_deinit(x)

i2cuser_init(x, fail) ==
  LET p == Pipe(x)
      y == [p EXCEPT !.fd = p.r]
      opened == OpenDev(y) IN
  CASE fail = "pipe" -> Failed(x)
    [] fail = "open" -> Failed([Close(Close(y, y.r), y.w) EXCEPT !.dev = None])
    [] fail \in {"slave", "fork"} ->
         Failed([Close(Close(Close(opened, opened.dev), opened.r), opened.w)
                   EXCEPT !.tid = IF fail = "fork" THEN None ELSE @])
    [] OTHER -> Done([Close(opened, opened.w) EXCEPT !.tid = 1, !.live = @ + 1])
(* The pid is remembered after the child's end: kill() fails then, and     *)
(* nothing is closed.                                                      *)
i2cuser_deinit(x) ==
  IF x.tid # None /\ x.live = 0 THEN x
  ELSE [Close(Close(x, x.dev), x.fd) EXCEPT !.live = IF x.tid # None THEN @ - 1 ELSE @]
=============================================================================
