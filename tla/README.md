# LIRC in TLA+

A formal model of LIRC, the infrared remote control package: its daemon
`lircd`, the configuration it serves, the way of a signal through transmitter,
receiver and decoders, the client library with `lircrc` and `lircrcd`, the
programs `irrecord`, `lircmd` and `lircd-uinput`, and the receiving side of 37
hardware drivers. Every definition is translated from the C and C++ sources; `PROJECT.json` names for each one the lines it stands for, and for
each property a plausible slip in those lines that would break it.

Sources are quoted below as `file:line`; `lircd.cpp` is
`src/daemons/lircd.cpp`.

## The system

    driver plug-in --pulses--> receive.c, ir_remote.c --code--> lircd --broadcast--> clients
           ^                                                     |  ^                   |
           +------------- transmit.c <---- repeat engine --------+  +---- commands -----+
                                               ^
                                          SIGALRM timer
    lircd.conf --config_file.c--> list of remotes      SIGHUP: read again
    client program --lirc_client.c--> code2char (lircrc)   or   lircrcd (shared mode)

`lircd` is one thread. `loop()` calls `mywaitfordata()`, which handles raised
signal flags, polls all sockets and the driver, executes the commands of
clients, accepts connections, and returns when the driver has data. Signal
handlers only raise flags. What makes the daemon hard is that nearly every
handler can end up, several calls deep, in a function that changes a global
table: a failed write removes a client; removing a client closes the hardware
and frees a descriptor number; a decoder that needs the next pulse calls
`mywaitfordata()` again, from inside `decode_all()`.

### Inventory

| Component | State | Operations | What is hard | What makes it correct |
|---|---|---|---|---|
| Event loop, client table (`lircd.cpp`) | `clis`, `cli_type`, `clin`, poll results, flags `hup`, `alrm`, `term` | `mywaitfordata`, `add_client`, `remove_client`, `get_command`, `broadcast_message`, `get_peer_message` | the table is shifted while poll results, loop indices and `repeat_fd` refer to it; signals at any instruction | table = open sockets; answers in order and to their owner; hardware open exactly while used |
| Repeat engine (`lircd.cpp`, `transmit.c`) | `repeat_remote`, `repeat_code`, `repeat_fd`, `repeat_message`, `repeat_countdown`, `transmit_state`, the timer | `send_core`, `send_stop`, `dosigalrm`, `schedule_repeat_timer` | alarm races with SEND_STOP; delayed answer; owner gone; transmission fails; min_repeat | no alarm without a repeat, no repeat without an alarm; everything asked for is sent; every command answered |
| Configuration reload (`lircd.cpp`, `config_file.c`) | `remotes`, `free_remotes`, `last_remote`, `repeat_remote`, `decoding` | `config`, `dosighup`, `free_old_remotes` | pointers into a list that is replaced; a second SIGHUP before the first list is freed; the decoder waiting inside the list | no list lost, none freed while used; the repeat continues |
| Peers (`lircd.cpp`, `--connect`) | per peer: socket, `connection_failure`, next attempt | `connect_to_peer`, `connect_to_peers`, `get_peer_message` | back-off, chunks of TCP, reconnect while commands run | attempts never stop; only whole lines are relayed |
| Command framing (`lircd.cpp`) | line buffer of `get_command` | split reads, long lines | partial lines over several reads | every line executed once |
| Receive and transmit buffers (`receive.c`, `transmit.c`) | `rptr`, `wptr`, pending pulse/space, `too_long`, `sum` | `get_next_pulse`, `unget_rec_buffer`, `sync_rec_buffer` | time-out in the middle of a signal, then another remote tries the same data | what one lircd sends, another decodes, for every protocol |
| Button matching (`ir_remote.c`, `release.c`) | `last_code`, `reps`, `toggle_bit_mask_state`, release times | `get_code`, `set_code`, `decode_all`, `get_release_data` | toggle bits, multi-part codes, repeat detection by time | repeat count continues only for the same press |
| `lircd.conf` reader and writer (`config_file.c`, `dump_config.c`) | section mode, current remote, include stack | `read_config_recursive`, `fprint_remotes` | nested sections, errors half way through, includes spliced into a list | the list is what the lines define; what is written is read back |
| `lircrc` interpreter (`lirc_client.c`) | `next_code`, `next_config` and `ecno` of each entry, `current_mode`, `next` | `lirc_code2char`, `lirc_setmode`, `lirc_readconfig` | one code over several calls; overlapping sequences; modes changed by an entry; includes | sequences followed exactly; `once`, `quit`, `mode` as documented |
| Client side of the protocol (`lirc_client.c`) | reply parser, read buffer | `lirc_command_run`, `lirc_nextcode` | broadcasts between reply lines, short reads | each command gets its own reply |
| `lircrcd` | client table, shared mode, pending strings | CODE, MODE, GETMODE, IDENT | one mode for many clients, launched by any of them | each press gives its strings once |
| `lircmd`, `lircd-uinput` | buffers, state of the mouse, cache of key codes | `loop`, `mouse_conv`, reload; `LineBuffer`, release on time-out | several lines per read, reload at any time, release order | no press lost; pointer and buttons as asked for; keys come up |
| `irrecord` | statistics of lengths, the remote so far, retries | lengths, toggle bits, buttons, `-u`, `-a`, `-t` | noise, retries, names typed twice, conversions in several passes | the written file decodes what was pressed |
| Serial ports, lock files, plug-ins | `drv.fd`, pipes, threads, children, lock files, packet state | `init_func`, `deinit_func`, `rec_func` | the event loop runs inside `rec_func()`; failures half way through `init_func()` | whole packets only, own descriptors only, nothing left behind |
| Start-up, options, logging, driver administration, Python, packaging | - | - | sequential | not modelled |

`PROJECT.json` ("components") has the same list in more detail with the status
of each part, and "hazards" the places where the code is hard to test, each at
its line.

## Modules

| Module | Models |
|---|---|
| `Lircd` | event loop, client table, commands, repeat engine, broadcasts, signals |
| `LircdProofs` | inductive invariant of `Lircd` and what follows from it; the timer and the countdown of a repeat; the order of answers |
| `MCLircd` | command sets and remotes of the instances TLC checks |
| `LircdReload` | SIGHUP, lists of remotes and every pointer into them, nested waits of decoders |
| `LircdReloadProofs` | inductive invariant of `LircdReload` and what follows from it |
| `MCLircdReload` | configurations of the instances TLC checks |
| `Lircrc` | `lirc_code2char()`: button sequences, repeats, flags and modes of a client program |
| `LircrcFile` | `lirc_readconfig()`: the reader of lircrc files with includes, composed with `Lircrc` |
| `LircrcProofs` | inductive invariant of `Lircrc` and what follows from it |
| `MCLircrc` | lircrc files of the instance TLC checks |
| `IrRemote` | struct `ir_remote`, its predicates, button matching, repeats, toggle bits, release events |
| `Receive` | receive buffer, `receive_decode()`, the decoders of all protocols |
| `Transmit`, `Sender` | transmit buffer, the encoders of all protocols; what a press puts on the line |
| `SignalPath`, `MCSignalPath` | sender and receiver composed; one remote for each protocol |
| `ConfigFile` | reader and writer of `lircd.conf` |
| `Lengths` | how `irrecord` finds gap, protocol and lengths |
| `Irrecord`, `MCIrrecord` | `irrecord` with its user and the remote control, on top of `Receive`, `Sender`, `Lengths` and `ConfigFile` |
| `Wire` | stream sockets, lines in pieces, `get_command()` |
| `LircdProtocol` | `lircd`'s directives and the packages they answer with |
| `LircClient` | `lirc_command_run()`, `lirc_nextcode()` |
| `Lircrcd` | `lircrcd` |
| `Calls` | abstract: what `lirc_command_run()` promises |
| `Network`, `MCNetwork` | `lircd`, its clients, `lircrcd` and another `lircd` composed; implements `Calls` |
| `NetworkProofs` | inductive invariant of `Network`: what is on its way to a listener, and what of a piping client's commands is still to be executed |
| `CallsProofs` | inductive invariant of the calls of `irsend`; `Network` implements `Calls` |
| `Port` | `init_func`, `deinit_func` of the drivers: descriptors, lock files, threads, children |
| `SerialDrivers`, `HidDrivers` | `rec_func`, `decode_func` of the drivers |
| `Drivers`, `MCDrivers` | one driver under `lircd`'s event loop |
| `DriversProofs` | inductive invariant of `Drivers`: the port of each driver at rest, in use, given up |
| `EventSocket` | the socket with lines of events, in pieces |
| `LircdUinput`, `Lircmd` | the two programs |
| `Desktop`, `MCDesktop` | each of them with its `lircd` |
| `Induction` | induction over a set of numbers, and what a loop written as a recursive function keeps |
| `DesktopProofs` | inductive invariants of `Desktop` and what follows from them |

`Lircd` leaves the configuration alone and `LircdReload` the clients: together
with the bytes of the wire, which `Network` has, their product is beyond TLC.
Where two models meet, one has the other's behaviour as an operator or a table:
`LircdProtocol` gives a transmission the repeats its command asks for, and
`Lircrcd` looks up the strings of a press that `Lircrc` works out.

A definition that a comment calls a mutant, or whose name ends in `_mutant`, is
no part of the model: it is the slip that the property it is listed with in
`PROJECT.json` must notice.

### Lircd

The thread's position is `pc`. The loop is cut into steps exactly where
something asynchronous can make a difference:

| `pc` | Code |
|---|---|
| `sighup`, `hupclear`, `sigalrm`, `alrmclear` | the flag tests at the top of `mywaitfordata()` and the assignments `hup = 0`, `alrm = 0` that come after the handler (`lircd.cpp:1980`-`1993`) |
| `prepare`, `poll` | between the flag tests and `poll()`, in `poll()` |
| `clients`, `read`, `command` | the loop over the marked slots; `read()` in `get_command()`, which blocks; one command of what was read |
| `broadcast`, `simulated` | one `write_socket()` of a loop over clients; back in `simulate()` |
| `peers`, `accept`, `driver` | the rest of the loop body |
| `exit` | after `dosigterm()` |

Variables keep the names of the program (`clis`, `clin`, `repeat_fd`, ...). The
other side is modelled too: `peer`, `inq` and `out` are the sockets as the
kernel and the clients see them, `owner` tells two connections with the same
descriptor number apart, `tx` and `want` count transmissions. `accept()` returns
the lowest free descriptor, as POSIX says, because reuse of descriptor numbers
is one of the hazards.

A command is a record of directive, remote, code and `<repeats>`. Directives
that only write a reply (LIST, VERSION, SET_TRANSMITTERS, DRV_OPTION, ..., and
malformed lines) are the one directive `OTHER`. A write to a client that has
hung up may succeed or fail, a write to a closed descriptor fails. With
`FullSockets`, so may a write to a client that is there but does not read:
`write_socket()` gives up after some tries on EAGAIN, and its callers remove the
client. (What a package written in part does to its reader is in `Network`.) The driver's
`init_func` and `send_func` may fail where the constants allow it. Signals
interrupt `poll()`; `SignalWindows` says whether SIGALRM may also arrive in the
two windows of a few instructions, between the test of `alrm` and `poll()` and
between `dosigalrm()` and `alrm = 0`.

Left out: time (the alarm comes at some point after it is armed), the bytes of
a message, release events, and the nested call of `mywaitfordata()` by a
decoder, which is what `LircdReload` is about.

### LircdReload

A list of remotes is a *generation* of `heap`; `remotes` and `free_remotes` are
generations (0 is NULL), a pointer to a remote is a generation and a position,
and `freed` holds what `free_config()` has freed. `nest` is the caller of
`mywaitfordata()`: `loop()`, `rec_buffer_clear()`, or a decoder, so the
configuration can be replaced in the middle of `decode_all()`. Reading a freed
remote is undefined: it gives the old contents or a crash (`crash`).

The repeat engine appears as far as it holds pointers: SEND_ONCE with
`min_repeat` 0, SEND_STOP, and the alarm. A file may be good, broken or missing.
A broken file gives an *empty* list: `sort_by_bit_count()` turns the error value
`(void*)-1` of the parser into NULL (`config_file.c:714`-`755`), so the branch
of `config()` for that value is never taken, and the model follows the code.

### Lircrc

The program runs the loop that `lirc_client.h:45`-`50` shows: it takes a code
and calls `lirc_code2char()` until there is no string left. `pc` is `wait` in
`lirc_nextcode()`, `call` before the first call, `scan` inside a call, `string`
when the program has got one. A step of `scan` is one round of the loop over the
entries, with everything `lirc_iscode()` and `lirc_execute()` do:

| Action | Code (`lirc_client.c`) |
|---|---|
| `entry_ignored` | no match, or wrong mode, or after a quit; the position in the sequence and `toggle_reset` are updated all the same (1775-1782, 1800) |
| `entry_part` | a sequence has advanced, or an entry without button (1787) |
| `entry_executed` | `lirc_execute()`: modes, `once`, the config line whose turn it is (1569-1598, 1784) |
| `scan_ended` | the string of a quitting entry is returned, or `next` goes back to `first` (1802-1809) |
| `crash` | `strcasecmp()` of a wildcard (see below) |

An entry is its position in the file, `Len(first) + 1` is the pointer NULL. The
files are the constant `Files`: entries as the parser has filled them before the
`end` line; what happens at `end` and at the end of the file (`rep_delay`, the
start-up mode, `ecno`) is part of the model. Strings are only compared, so
upper and lower case do not appear; a config string is the number of its line.

`presses`, `since`, `matched`, `passed` and `left` are history: no guard reads
them. The properties compare the code's state with them, because the code keeps
no presses at all, only a position that it corrects ("rebases") after a wrong
button.

`LircrcFile` puts the reader before the loop: `Init` reads a file of the
constant `Disks` line by line, as `lirc_readconfig_only_internal()` does, with a
stack of open files, and the loop then runs on the entries that came out. A
line is its tokens; the value of `config` keeps its characters, because the
escapes of `lirc_parse_string()` are part of what is read.

Left out: `sscanf()` and `strdup()` failing.

### The signal path: IrRemote, Receive, Transmit, Sender, SignalPath

The C functions work on the globals `rec_buffer` and `send_buffer`; here each is
a record that the operators pass along (`w` in `Receive`, `t` in `Transmit`),
with the line and the clock in it. What a file says of a remote is a record
`r`, what lircd remembers of it a record `st`. All protocols of `ir_remote.h` are
there: space encoding with and without header, biphase (RC5, RC6), space first,
RC-MM, Grundig, Bang & Olufsen, XMP, serial, raw codes, toggle bits and masks,
sequences of codes, and receivers that decode in hardware (LIRCCODE).

Actions of `SignalPath`: `Press` (a press of 1 to `MaxFrames` signals, possibly
after noise, is put on the line with `send_ir_ncode()` and the gaps between the
signals), `SimsendEnds` (the end of a file of `irsimsend`), and `Decode`, one
round of the receiver's loop: `rec_func()` with `rec_buffer_clear()`, then
`decode_all()` for every remote in turn, with a time-out wherever a decoder waits.
`Waits` says who waits: the default driver, `lircd` with its release events,
whose wait loses the decoder's time-out, or the file driver.

Times are microseconds and codes numbers of a few bits, small enough for the
integers of TLC; the width of `ir_code` plays no part at that size.

### Irrecord, Lengths, ConfigFile

`Irrecord` is a state machine in `u.phase`, from one wait of the program to the
next: `Start` (options, the file given), `PressAsTold` and `PressGarbled` (the
user and the remote control), `GetLengths`, `GetGap`, `GivesUp`,
`GetToggleBitMask`, `EnterName`, `RecordButton`, `RecordRaw`, `DataTimeout`,
`Finish`. `Lengths` is the statistics behind `get_lengths()`: classes of lengths,
headers, repeats, trailers, bit counts. The pulses come from `Sender` and are read
with `Receive`, so that the program faces the merged pulses and trailing spaces of
a real line. The file it writes goes through the writer and reader of `ConfigFile`
and is given to the decoders again: the properties compare what lircd reports.

A line of `lircd.conf` is a sequence of tokens that know how they are read (word,
number, flags, serial mode). `read_config_recursive()`, `defineRemote()`,
`ir_remotes_append()`, `sort_by_bit_count()` and the checks at `end remote` are
modelled over a disk with include patterns and files that cannot be opened.

### Network: Wire, LircdProtocol, LircClient, Lircrcd, Calls

A line is three pieces on the wire (text, rest of the text, newline), a buffer
holds `packet` pieces, so reads end inside a text, before a newline and after it.
`LircdProtocol` has every directive with its argument errors; a directive returns
the lines of the answer, the lines of a broadcast and the daemon's next state. The timer's
part has the interrupted and the failed repeat, too.
`LircClient` is the reply parser of `lirc_command_run()` state by state, and
`lirc_nextcode()`. `Lircrcd` keeps the faults of its table: a slot keeps the last
code and the pending strings of its former client. The engine behind it is a table
`Engine[config][code]`, whose `config` has the mode and what is remembered of earlier
presses. In `Network` every process has
its own `pc`; `irsend`, `irw`, `ircat`, a program that writes all commands at once,
one that sets modes, another `lircd` that sends chunks cut anywhere, and up to two
`lircrcd` processes run against each other. lircd may die or be told to read its file
again, transmissions may fail, sockets may be full, another lircd may end a connection
with or without an error, and the user may stop ircat.

Both daemons' loops go by slots: `LircdPolls` and `RcPolls` mark the slots that
`poll()` found readable (`marks`), and each is worked off in its turn, while a
removal moves the table and not the marks. So the client behind one that left is
passed over, and the next is read with its result; if it has nothing to say, lircd
waits for it (`Blocked`). lircrcd's sockets are non-blocking, but a read that finds
nothing is a `poll()` without end there, too.

The scenes of `Network` are limited (`NetworkAssumption`, `CallsAssumption`): where
irsend runs lircd gets no SIGHUP, and a socket has room for 21 pieces, the longest
answer to a SEND_ONCE; only the client that connected first may SIMULATE, as its
broadcast could otherwise take out clients ahead of the one that is served.

`Calls` is the abstract specification: a request is asked, answered at most once,
and returned with the answer it got; only a connection that broke or carried
events may lose it. `CallsImplemented` is `C!Spec` under the refinement mapping
`CallOf`, which reads a call's phase from what lircd has answered and what the
program has returned. That a call returns at all is a property of its own,
`CallsReturn`, since it needs fairness.

### Drivers: Port, SerialDrivers, HidDrivers

`Port` has the process's side of a driver: for every step of `init_func()` that
can fail, which descriptors, lock files, pipes, threads and children are left, and
what `deinit_func()` closes. `SerialDrivers` and `HidDrivers` have `rec_func()`
and `decode_func()` byte by byte, event by event: each operator gets the driver's
static variables and what was read, and returns more (it waits), a drop or a code.
37 drivers are modelled this way, the kernel's default driver among them with the
switch of `/sys/class/rc` to the protocol lirc, and irlink, whose bytes are
lengths.

`Drivers` puts one of them under lircd's loop. `rec_func()` is not atomic: while
it waits, clients leave and come, so the device is closed and opened in the middle
of a packet. Packets lose bytes, a device is unplugged and plugged in, other
programs lock the port and crash. A scene names the driver, its packets, and what
may fail.

Not in these models: sending, `drvctl`, and the settings of a line beyond their
success.

### Desktop: EventSocket, LircdUinput, Lircmd

A line is two pieces, a read takes up to `PACKET_SIZE` of them. `LircdUinput` has
the line buffer, the cache of codes, the release on a time-out of `poll()`, the
keys the device registers, and the kernel's filter of keys that are not.
`Lircmd` has its file with every directive, the reload at SIGHUP and its window
before `read()`, modes, toggles, acceleration, the circles that show the mode, and
the bytes written for IMPS/2, IntelliMouse and the other protocols, which a
reader of the device (`dev`) decodes again; `asked` is where the presses should
have put the pointer. `len` is kept from the last `read()`, as in `loop()`: while
lines are queued, the 0 of `lircmd.cpp:852` goes where that read would have ended.
`overrun` is the case where that is behind the buffer; the program then ends, or it
goes on as if nothing had happened (`next_line`).

Left out: the last line cut short, when lircd gives up a program that does not read;
a reader of the MouseSystems protocol (lircmd writes IMPS/2 packets
between its packets), a fifo that is full, and upper and lower case of names. On
uinput the vertical axis is compared for no protocol, as it is turned round for all
but IntelliMouse. No file of the run has an acceleration that starts at 0.

## Runs

Bounds are named in the modules: `MaxConns` connections, `MaxCmds` commands per
connection, `MaxEvents` buttons and peer messages, `MaxHups` and `MaxReloads`
SIGHUPs, `MaxSends` SEND_ONCEs, `MaxCodes` presses and `MaxRep` repeats of each,
`MaxPresses` and `MaxFrames` signals, `MaxNames` names typed, `Room` (descriptors do
not run out: four are free when a client connects). Once the bounded
environment has stopped, the daemon may wait in `poll()` for ever; that is why
deadlock is not checked in most runs. (`Irrecord`, `Network` and `Drivers` have
an explicit step for the end instead, and are checked.)

Passing runs:

- **LircdCommands**: two clients, three connections with two commands each
  (SEND_ONCE with and without repeats, SEND_START, SEND_STOP, OTHER), an
  `init_func` that may fail.
  `AnswersInOrder` and `RepeatHasAlarm` hold. Three connections on two
  descriptors are what makes a number be reused. Nothing is broadcast: it is a
  broadcast that notices the death of a waiting client (see below).
- **LircdBroadcast**: every directive with a received button or peer message,
  a SIGHUP, SIGTERM, hang-ups, full sockets, failing transmissions and alarms at any
  instruction. `AlarmHasRepeat`, `HwMatchesUse` and `TableMatchesSockets` hold.
- **LircdAnswered**: a remote with `min_repeat` 2 and one with 0, the XMP flag, a
  button with chained codes, absent, small and excessive `<repeats>`, failing
  transmissions. `RepeatAccounting` (done and outstanding transmissions add up to
  what was asked for), `MinRepeatHonoured`, and under fairness
  `EveryCommandAnswered` hold, without SEND_STOP and without alarms in the windows.
- **ReloadLists**: two SIGHUPs at any instruction with the file good, broken or
  missing and the remote or button gone, a repeat, a waiting decoder.
  `ListsAccounted`, `RepeatLive` and `RepeatKeepsRemote` hold. Two reloads are
  needed, and enough, for a list to be replaced while its predecessor is held.
- **LircrcPresses**: four files and six presses of two buttons with up to two
  repeats each, `lirc_setmode()` between any two calls. The files have sequences
  of three and four buttons that overlap themselves, below and above an entry
  that quits; two modes that are entered once; a start-up mode and entries
  without buttons; and a wildcard behind a button. Six presses complete the
  longest sequence after falling back in it, and enter, leave and re-enter a
  mode. `SequenceTracksPresses`, `NothingAfterQuit`, `OncePerMode` hold.
  The files come from disks with includes within entries and modes, a file that
  includes itself, and fourteen kinds of broken lines; `ReadAsMeant` compares what
  the reader made of them with what their lines say.
- **SignalPath**: fourteen remotes, one for each protocol and coding, alone, and
  two in one file in both orders; two presses of one to three signals, which is
  what repeat counting, toggle bits, minimum repeats and a suppressed repeat need;
  noise before a press; a buffer of 14 data, so that it fills up. `AllDecoded`
  compares the reports with the presses, at every step and at the end, `GapsAgree`
  the gap the receiver works out with the sender's, `ReceiverAdvances` says that
  noise cannot hold the receiver.
- **Irrecord**: five remote controls (space and pulse encoding, RC5, RC6, one that
  sends a signal once per press) from the first press to the written file, with
  garbled presses, timeouts and names typed twice; raw recording, a hardware
  decoder, `-u`, `-a`, `-t` with its conversions; files with includes, errors and
  every flag. 5 samples for 80 and 2 or 3 retries for 30 keep the same decisions.
  `RecordedWorks`, `ConvertedAlike`, `ReadAsDefined`, `RoundTrip`, `UpdateKeeps`
  hold, and `Ends` under fairness.
- **Network**: ten scenes of one to three programs (see `MCNetwork`), with
  buffers of four to seven pieces, which cut lines at every place. `HeardInOrder`,
  `PipedInOrder`, the refinement `CallsImplemented`, and under fairness `CallsReturn`,
  `Delivered`, `PressesAnswered` and `PeerComesBack` hold. `CallsReturn` says that with
  less than three clients lircd never waits for one that is silent, and that every call
  returns unless it does; `PressesAnswered` that every press is looked up except the one
  that is taken for a question (`ToLookUp`), for up to two programs. What is excepted
  is listed under "Further disagreements".
- **Drivers**: 37 drivers, each with packets that are whole, cut and repeated, up
  to two clients in turn, each step of `init_func()` failing, devices unplugged,
  ports locked. `Framed` (codes of whole packets only, in order, and all of them
  once a pause was seen), `OwnFd`, `NothingLeaks`, and under fairness `Reopened`
  hold. `Reopened` leaves out a zotac receiver that was unplugged (see below).
  `Leaking` names the four drivers, and `Unclean` for each driver the steps of
  `init_func()`, where the last two do not; an ASSUME of `MCDrivers` has TLC
  evaluate that the scenes are without those steps (`CleanScenes`).
- **Desktop**: five files of lircmd on a fifo and on uinput, changed and reloaded
  at any time, and five set-ups of lircd-uinput; three lines and a buffer of five
  pieces, which is what it takes for one to be cut while two are queued. `NothingLost`, `PointerFollows`,
  `InactiveIsUp` and `ReleasedWhenQuiet` hold.

Violation runs, each a disagreement between the code and what a manual page or a
comment says of it:

- **VRelayedRemote**: `remove_client()` shifts `clis[]` but not `cli_type[]`
  (`lircd.cpp:584`). After a local client has left, the relay of another lircd's
  messages at 936, which is to skip remote clients (comment at 933), sends them
  to one (`RelayedLocally`).
- **VHupLost**: SIGHUP between `dosighup()` and `hup = 0` (1987) is forgotten, and
  the file is never read again, under fairness (`ReReadOnHup`; `lircd.8:357`). With
  `HupWindows = {}`, every configuration having the repeated button, it is.

Some passing runs exclude by a constant, a scene or a named exception what the runs
above and the list below show: SEND_STOP, full sockets and the signal windows
(LircdAnswered), three clients (LircdCommands), open ends of serial signals
(`open_ended` in SignalPath), includes within a remote and names refused the second
time (Irrecord), drivers that leak (`Leaking`) and failures half way through
`init_func()` after which they do (`Unclean`), an unplugged zotac receiver
(`Reopened`), keys that lircd-uinput forgets or never had (`abandoned`). The theorems
below hold with all of it, or name what they exclude.

### Further disagreements

Met while modelling, and not kept as runs of their own. Where a property is named,
TLC finds it violated once what is given with it is changed. In lircd:

- A client leaves while the next one's command is ready: the poll results are not
  shifted (2120-2128), the command is passed over, and the third client, which is
  silent, is read. lircd waits for it for ever, and irsend for its answer, against
  `lircd.8:212` "For each command, lircd replies" (`CallsReturn` without
  `<>[]Blocked`, in the scene `Sending`).
- SIGALRM between `dosigalrm()`, which re-arms the timer, and `alrm = 0` (1991): the
  repeat stands still and its client is never answered (`EveryCommandAnswered`, with
  `SignalWindows = TRUE`).
- `send_stop()` takes the repeats done from `repeat_max` (1676), although a SEND_ONCE
  counts from what was asked for, so that it ends below its minimum, against
  `ir_remote_types.h:192` "repeated at least x times" (`MinRepeatHonoured`, with
  `CommandsSend` and `MinRepeat1`).
- SEND_STOP ends another client's SEND_ONCE. Its client is not answered and, since
  `repeat_fd` still names it, not polled either (`lircd.cpp:1691`; `lircd.8:212`).
- The client waiting for its SEND_ONCE dies in a broadcast; `repeat_fd` is kept,
  the next connection gets the number, is not polled, and receives the answer
  (`lircd.cpp:576`).
- Removing a client shifts `clis[]` but not the poll results, so even the client that
  is to be ignored, since it waits for its repeats, can be read from (`lircd.cpp:2124`).
- `get_decoding()` returns the address of a variable instead of its value, so a
  list is freed while `decode_all()` waits inside it (`ir_remote.c:852`).
- A repeat moved to a new list finds `repeat_countdown` 0, ends, and is answered
  SUCCESS (`lircd.cpp:1925`).
- `mywaitfordata()` drops the decoder's timeout once the release time is over
  (`lircd.cpp:2070`; `receive.h:62`).
- `last_remote->last_code` is read (1880) although `set_code()` may not have set it.
- A read error from another lircd writes before the buffer, and may relay once more
  what was read the last time (`get_peer_message()`);
  DRV_OPTION without an argument reads through NULL.
- A command that comes in the same read as a SEND_ONCE is answered before it
  (`lircd.cpp:1825`, against the comment at 2014). `Pipelining` = FALSE says
  that clients wait for each answer.
- A client that sends SIMULATE and hangs up is removed in the broadcast; the
  reply then fails and another client, now in its slot, is removed
  (`lircd.cpp:2124`).
- `last_remote` stays in the freed list when its remote is gone
  (`lircd.cpp:1877`); the next signal reads it.
- The SIGHUP package is sent even if the file was not read (`lircd.cpp:655`,
  against `lircd.8:197`); one that arrives while a repeat holds the old list is
  refused and not retried (522).
- A `<repeats>` greater than `repeat_max` is an error; `lircd.8:156` says it is
  replaced by the maximum.
- `dosigalrm()` reports SUCCESS also when the transmission failed, and does not look
  whether the answer could be written: a client whose socket is full gets a part of it,
  stays connected, and waits (`lircd.cpp:1245`).
- In a `lircrc` sequence, a wildcard that follows a code without one makes
  rebasing call `strcasecmp()` with `(char*)-1` (`lirc_client.c:1692`, 1694), a
  crash; `configure.html` allows wildcards anywhere. `OrderlyIsSafe` says that
  nothing else leads there.
- The mark of `once` is cleared only by an entry with the flag `mode`, for the
  mode that is current; a mode left by `lirc_setmode()` or by another entry's
  `mode =` does not give its string again (`lirc_client.c:1575`-`1583`).
- A quitting entry whose repeats are filtered does not hide them from the entries
  below it (`lirc_client.c:1664`, 1776).
- A gap of a second or more makes `schedule_repeat_timer()` pass a `tv_usec` that
  `setitimer()` refuses (`lircd.cpp:1199`).

Receiving (`receive.c`, `ir_remote.c`):

- What is put back after the open end of a serial signal overwrites the pulse
  before it; the last signal of a serial remote is lost.
- After `get_gap()` fails for a raw button the buffer is not rewound for the next.
- RC-MM and XMP return 0, not -1, when a bit cannot be read.
- A serial remote whose one has no space, or whose zero has no pulse, makes the
  decoder loop for ever (`receive.c:801`).

Client library and `lircrcd`:

- lircrcd takes a press that follows the same press without strings for the question
  whether there are more, and does not look it up (`lircrcd.cpp:362`), against
  `lircrcd.8:64` (`PressesAnswered` with all that was heard for `ToLookUp`, in the
  scene `Repeated`).
- The strings that a program has not fetched when it ends go to the next one in its
  slot of lircrcd's table (`lircrcd.cpp:272`; `lircrcd.8:62`). It takes three programs:
  one that stays, one that quits in the middle of a press, one that comes after it
  (`PressesAnswered` without `OwnSlot`).
- An event cut by the end of the buffer exactly before its newline is dropped by
  `lirc_command_init()`, and its newline makes the next call return EPROTO.
- Over TCP, partial reads are handed out as whole lines; a reply keeps only its last
  data line; `lirc_deinit()` does not reset the static `end_len`.
- With `lircrcd`, `irexec` loops after a press without strings (`lirc_client.c:1834`,
  `irexec.cpp:110`). lircrcd's poll results are shifted like those of lircd.
- `lircrcd`'s CODE ignores the program's name; a second launch unlinks the first daemon's socket, and a daemon that
  dies unlinks its successor's.
- The lircrc reader leaves included files open after an error, `include` without an
  argument and a bare `#!` line crash it, and three flags joined by `|` fail.

`lircd.conf` and `irrecord`:

- With `--dynamic-codes` every key but two is an "unknown definition".
- An include within a remote loses the included remotes (`rem->next = NULL` at `end
  remote`); an included file that cannot be opened loses all remotes read before
  it (`config_file.c:874`, "ignoring this child file for now"); a broken one fails
  the whole file unless a later match of the pattern succeeds.
- The flag RAW_CODES without a `raw_codes` section reads through NULL; REVERSE
  reverses only the first code of a sequence.
- The writer always writes parity N, and drops a header, `pre` or `post` with one
  part 0.
- `irrecord -t -i` of an RC5 remote writes a file that no longer decodes, and of a
  serial one a file on which lircd hangs.
- A second code is stored when the second signal could not be decoded, and stays
  for the buttons after it (`irrecord.c:1951`); `rec_func()` stamps the remote that
  `decode_func()` then judges (1581).
- A button typed again is removed before its name is checked; a data timeout costs
  two retries; `merge_lengths()` forgets to divide by 100; lists are not reset
  between the remotes of `-a`; "Successfully written" is printed regardless.
- A remote control with a single class of pulses makes `get_scheme()` loop.

Drivers:

- When the read of an unplugged zotac receiver fails, the repeat thread calls
  `zotac_deinit()`, cancels itself there and ends at the next `close()`
  (`zotac.c:135`, 314, 318). The "code that triggers device remove" (`zotac.c:46`)
  is never written, and lircd never opens the device again (`RemovalsHeard`, in the
  scene of an unplugged zotac of `MCDrivers`).
- Most serial drivers keep the number of the closed `drv.fd`; when the next
  `init_func()` fails before `open()`, or after it in a setting of the line, lircd
  polls a descriptor that may be a client's (`creative.c:115`).
- So do i2cuser and creative_infracd when their `init_func()` fails, zotac and atwf83
  when `pipe()` does (`drv.fd` is the closed hidraw device then), and ati, aw and dfc
  (the closed pipe). creative_infracd leaves a device open that is not its own, and
  the mplay driver without the wheel its lock file when the device cannot be opened.
- mplay leaks the device of each session; ati, aw and dfc the end of the pipe that
  is their child's; zotac a hidraw device when flags cannot be set; accent the port
  when it cannot be set.
- zotac's idle thread does not wait, and repeats a code that nobody pressed.
- `i2cuser_deinit()` returns early once the child is gone.
- An empty lock file blocks the port for ever; two programs that find the same
  stale lock can remove each other's new one (`serial.c:343`); a failed lock of the
  link's target is not noticed.
- pinsys opens the port it found without a lock; bte reports success always;
  silitek, usbx, ea65 and mp3anywhere can report codes made of parts of packets when
  opened in the middle of one.
- default.c does not notice a protocol that another program switches off again.

lircmd and lircd-uinput:

- MouseSystems falls through and also writes IMPS/2 packets, with 4 of the
  documented 5 bytes (`lircmd.8`). On uinput MOVE_N moves the pointer down unless
  the protocol is IntelliMouse.
- `toggle_active` is never reset, so after one TOGGLE_ACTIVATE the mode is no longer
  left by an unused button (`configure.html`).
- A reload that adds ACTIVATE while a button is down leaves it down.
- `buffer[len + end_len] = 0` uses the `len` of an earlier read, and can be written
  behind the end of the buffer (`lircmd.cpp:852`).
- SIGHUP just before `read()` waits for the next event.
- ACCELERATOR with a start of 0, or a word that is no number, makes the first press
  count 0 times: neither its move nor its button is written (`lircmd.cpp:340`).
- lircd-uinput forgets a key when another button is pressed before its timeout, so
  it stays down; a line with the release suffix is written as a press; repeats are
  written although its manual page says that only press and release are; when lircd
  goes, only one read of what it had written is used.

Hazards that no property covers, for these reasons: the pointers left in a freed
list (`ir_remote.c:740`, `lircd.cpp:1877`, 1880), the gap of a second (1199), the
stale descriptor (`creative.c:115`), the race for a stale lock (`serial.c:343`),
the loop of the serial decoder (`receive.c:801`) and the lost remotes
(`config_file.c:874`) are flaws the models contain or name, so a property would be
false; the filtered repeats (`lirc_client.c:1664`) have no stated meaning.

### Fairness

`FairSpec` of `Lircd` and `LircdReload` assumes weak fairness of `Daemon` (the thread keeps
running; it stands still only in a `poll()` with nothing to report or in a
`read()` with nothing to read, where no step of the daemon is enabled) and of
`sigalrm` (an armed `ITIMER_REAL` expires). Clients, the receiver and other
signals are not fair: nobody has to send anything.

`Network` assumes that the processes go on while one of them can (`GoesOn`, which is
weak fairness of all of them together, written without ENABLED); every script is
finite, so no process starves another. Nothing makes a button be pressed, another
lircd speak or lircd die. `Drivers` assumes weak fairness of lircd's loop with its
threads and children, and of a device in the middle of a packet. `Irrecord` assumes that there is a
next step until the program has ended: each of its waits has a timeout.
`SignalPath` assumes it of the receiver's loop. `Lircrc`, `Desktop` and
`LircdCommands` are checked without fairness.

## Theorems

TLAPS checks all proofs; they hold for every value of the constants that
satisfies the named assumption, so for any number of clients, remotes, commands
and reloads.

**Lircd** (`ServerAssumption`: types of the constants, and that a SEND command
names an existing remote and button, which `send_core()` has looked up before).

    IndInv == TypeOK /\ LoopInv /\ TableMatchesSockets /\ AlarmHasRepeat /\ HwInv

`AlarmHasRepeat` is close to inductive, the table and the hardware are not. A
removal happens at five places with an index or descriptor that was read
earlier, so `LoopInv` says what `i`, `fd_` and `batch` mean at each `pc`. The
hardware test at `poll()` follows from the same test at every `pc` (`HwInv`),
which in turn needs to know that `clin` counts the open sockets. Lemma
`RemoveClient` says once what a removal does to table, sockets and hardware,
`Answer` does the same for a handler that ends in a reply, `StopRepeating` for
the end of a repeat; each action then has a lemma of its own, and `NextInd`
collects them.

- `IndInvariant`, `TypeCorrect`: no index leaves the table.
- `AlarmSafe`: `dosigalrm()`, which does not test `repeat_remote`, never runs
  without a repeat, wherever the alarm arrives. It is the reason for `alrm = 0`
  in `send_stop()`.
- `TableSafe`: table and open sockets stay in step.
- `HwSafe`: at every `poll()` the hardware is open only if somebody uses it, and,
  if `init_func` does not fail, always when somebody does.

Three more properties are true of the code only as long as it does not run into
one of the disagreements above. Their theorems say so in a hypothesis about the
behaviour, which excludes the one step that goes wrong and nothing else:

- `RepeatGoesOn`: a repeat has a timer or an alarm to come, if no SIGALRM hits the
  instructions before `alrm = 0` (`AlarmNotWiped`). The invariant `TimerInv` adds
  that between `dosigalrm()` and `alrm = 0` it is the timer that carries the repeat
  on. `RepeatGoesOnOutsideWindows` is the same without the hypothesis, for
  `SignalWindows` = FALSE.
- `RepeatsCounted`, `MinRepeatSent`: transmissions done and left add up, and no
  repeat ends below `min_repeat`, with SEND_STOP too, if a SEND_STOP that matches
  meets a repeat which counts down from `repeat_max` (`StopCounts`: `send_stop()`
  takes the repeats done from there). `CountInv` relates the countdown to what was
  asked for, and that to `min_repeat`.
- `AnswersOrdered`: clients that wait for their answers get each once, in order,
  and nobody else's, if the client that waits for its SEND_ONCE is not read from
  (`WaiterNotRead`; a shifted table makes it so) and not closed (`WaiterConnected`;
  a broadcast does). `AnswerInv` says where the one answer that is due is: its
  command is in the socket, being executed, or being repeated. Without hang-ups
  the table only grows and both hypotheses are consequences (`StayInv`), which
  gives `AnswersOrderedWhileConnected`: any number of clients, any signals,
  broadcasts, failing transmissions and stopped repeats. It takes three constants:
  clients wait for each answer (`~Pipelining`), do not hang up (`~Hangups`), and
  read what they are sent before their sockets are full (`~FullSockets`), as lircd
  gives up one that does not, also the one that waits.

**LircdReload** (`ReloadAssumption`: types of the constants).

    IndInv == TypeOK /\ PointersInHeap /\ ListsAccounted /\ RepeatLive

Most actions change one remote in place and no list. They preserve the *shape* of
the heap, names and buttons of every list, and the invariant speaks of nothing
else (lemmas `ShapeLists`, `ShapeKeeps`, `ShapeStep`, `QuietStep`). What is left
is `config()`, which adds a generation, and `free_old_remotes()`, where the
pointers move (`MappedFound`, `MapStateShape`, `RepeatMoves`). `PointersInHeap`
says that the pointers the mapping reads were valid at some time, and that an
alarm finds a repeat.

- `ReloadIndInvariant`: the inductive invariant.
- `ListsSafe`: no list leaked, none freed that `remotes` or `free_remotes` names.
- `RepeatSafe`: the repeat is in a live remote that has its button.
- `RepeatMovesSafely`: a reload moves a repeat only to a remote of the same name
  with the repeated button as the last one sent (an action property).

**Lircrc** (`LircrcAssumption`: types of the constants; NULL is no name, the
wildcard no remote or button).

    IndInv == TypeOK /\ LoopInv /\ SequenceTracksPresses /\ MatchInv
                /\ NothingAfterQuit /\ OnceInv /\ OrderlyIsSafe

The main result is that rebasing is right. The code compares the sequence with
itself, never with the presses. That this amounts to the same is lemma
`MatchPair`: of a press that matched the later code, the earlier code matches the
press exactly if it matches that code. Here the order of wildcards comes in; then one more press
turns the longest part before it into the longest part after it (`EndsStep`,
`Resume`, `AdvanceTracks`). `LoopInv` and `seen` say which entries have
already seen the present press when a call returns in the middle of the file.
`MatchInv` keeps the matches above the loop and a quit at the end of it;
`OnceInv` counts the string that is still to come.

- `LircrcIndInvariant`: the inductive invariant, positions and config lines in
  range included.
- `SequencesFollowed`: a sequence is never completed without having been
  pressed, and none that was pressed is missed, for every file with wildcards
  first.
- `QuitIsLast`: over all calls for a code, matches come in the order of the file,
  each once, and none after one that quits.
- `OnceIsOnce`: the string of a `once` entry comes at most once more than its
  mode was left explicitly.
- `WildcardsFirstIsSafe`: the crash needs a misplaced wildcard.

**Desktop** (`SocketAssumption`: the buffer holds a line, which is two pieces;
`DesktopAssumption`: repeats are counted from 0, the empty name is that of no key,
a file is a sequence of lines, `CIRCLE` any radius).

The programs' loops (over the pieces of a buffer, the lines of a file, the entries of
a list, the steps of a circle) are recursive functions. `Induction` proves
induction over a *set* of numbers from the least element of its complement, which
needs no operator parameter, and from it that the function of such a loop exists
(`Rounds`) and that what every round keeps holds after all of them (`RoundsStay`).

- `NothingIsLost`: what lircd wrote is what was handled and what is still in a
  buffer or the socket, and who waits for more has used it all. `StreamInv` says
  that a buffer and the socket behind it hold whole lines *together* (`Paired`), so
  that a cut line is completed by the next read; the events of a joined stream are
  the joined events (`EventsConcat`), and the first line can be taken off
  (`FirstLine`).
- `QuietReleases`: with `KeyInv` (the cache holds what the names mean; only the last
  button's key is down and not forgotten).
- `ReaderFollows`, `InactiveMouseIsUp`: the reader of the device sees the buttons and
  moves that were asked for, and an inactive mouse has no button down until its
  file is edited. `MouseInv` relates the settings, the buttons `msend()` keeps for
  itself, the device and the list of directives; it is shown to survive
  every line of every file, every directive in every mode, and the circle of any
  radius, whose eight parts cancel out (`CircleBack`). That a packet is read as it
  was meant, negative moves included, is `ReadsImps` and `ReadsSerial`. The hypothesis
  `PressesCount` excludes files with ACCELERATOR 0: then `msend()` multiplies the
  first press by 0 (`lircmd.cpp:340`) and writes nothing, not even its buttons.

**Network** (`NetworkAssumption`: no program is called "none"; the scripts and
events of a scene are lines, packet size and room are numbers).

    HeardInv == Shape /\ \A c \in Listeners : Listens(c)
    PipedInv == \A c \in Pipers : Piped(c)

- `EventsInOrder`: a program hears a prefix of the events written to it, whole
  lines only.
- `CommandsInOrder`: lircd executes a prefix of the commands that a client wrote at
  once, each whole and once, also when it drops the client half-way or dies.

`Follows` relates the two ends of a connection by position, not by content: what the
listener has taken, its buffer and the queue of the socket are, one behind the
other, the pieces 1, 2, ... of the events written, up to the last one while lircd
keeps the client (lemmas `FollowsWrite`, `FollowsRead`, `FollowsTake`). A write
that fails half way leaves a cut line at the end, which is why the end is asked for
only of a client that is kept, and why a client that is not kept must not be in
`clis[]` any more (`Listens`): the next broadcast would continue a line behind the
cut. Listeners share lircd with clients that command it, so the invariant also says
that a listener is never the client whose command is executed or repeated, and
`Shape` types what lircd reads: a SIMULATE sends lines of a client to all others
(`DirectiveEffect`), a chunk of another lircd is relayed only if it is whole lines
(`PeerLines`).

`CommandsInOrder` uses the same relation the other way round, with
`get_command()` as the one that takes: `FollowsNext` shows that a round of its loop,
with or without the second read, keeps the buffer at the first command that is not
executed. The relation holds only as long as lircd keeps the client (`Served`), so
`Piped` also says that the loop never runs for a client that is gone or over a
buffer without a newline; a client's own command can be what makes lircd give
it up (an answer that does not fit), between two rounds.

**Calls** (`NetworkAssumption` and `CallsAssumption`: an event has four words, as
`broadcast_message()` and SIMULATE write it; a request of `irsend` is neither empty
nor one of the words ERROR and END, with which an answer would be mistaken for
another; a line fits into `PACKET_SIZE` and the seven lines of the longest answer to a
SEND_ONCE into an empty socket, because `dosigalrm()` does not look at the result of
its write; where irsend runs lircd gets no SIGHUP, whose package the parser skips, but
which the invariant of what is on its way to irsend does not have;
lists are as long as `Number` can count; and the words of the answers are strings,
which the provers do not know of a literal).

    CallsInv == HeardInv /\ EventShape
                  /\ \A c \in Clients : Kind(c) = "irsend" => Calling(c)

- `CommandsImplementCalls`: `Spec => CallsImplemented`. A request is carried out at
  most once, the call returns the result lircd answered this very request with, and
  it fails only on a connection that lircd closed or wrote an event to.

`Calling` says where a call is. The request is in one place (`Somewhere`: in the
socket, in the buffer of `get_command()`, or waiting for the end of its repeats) or
it is answered, and then nowhere. What the program has read and what is on its way
is a stream of lines, of which it says what `lirc_command_run()` will make of it:

| State | The stream |
|---|---|
| `Calm` | no answer yet: pieces of events, the last one whole unless the connection broke |
| `InSync` | pieces of events, what is left of the answer, events; the parser's state is the one after the part it has read (`At`), and only a broken connection lacks the end |
| `Gap` | the repeat timer could not write all of the answer, for events filled the socket: pieces of it, perhaps its END, then events |
| `Cut` | the connection broke inside a line |

For each there is a lemma on what one `read_string()` does (`SkipReads`,
`LineReads`, `RestReads`, `GapReads`, `CutReads`), one on what lircd's write
adds (`EventsGrow`, `AnswerGrows`), and that every directive answers with exactly one
package for the command it was given, or puts it off (`DirectiveReplies`). The
steps of `Next` then map to one of `Calls` each: an answer to `Answer` (with the
break of connections the same step may bring), any other step of lircd to `Break`,
the steps of `irsend` to `Ask`, `Return` and `Lose` or a stutter.

**Drivers** (`FdsAssumption`: descriptors are a finite set of numbers;
`ScenesAssumption`: types of a scene; the theorems are about scenes that satisfy
`CleanScenes`).

    DInv == SceneInv /\ DriverInv /\ PortInv

- `DriversPortInvariant`: the inductive invariant.
- `DriversOwnFd`: `drv.fd` is never a number that was closed, or that a client got
  since; what lircd polls and reads for the device is what the driver opened.
- `DriversNothingLeaks`: no descriptor, lock file or child outlives the last
  client, except in the four drivers of `Leaking`.

Neither property is inductive. That a session leaves nothing behind depends on
what `drv.fd`, the descriptor of the device, the ends of the pipe, the pid and the
lock files were when it began, and each of the 37 drivers keeps these in its own
way. `PortInv` says of each what the port is *at rest* (`AtRest`), *in use* (`InUse`) and
*given up*, with clients but without `drv.fd` (`Vacant`). Per driver there is a
lemma that its `init_func()` takes a port at rest to one in use, and a failure back
to one at rest (`SerialBegins`, `UsbxBegins`, ..., collected in `InitSession`), and
that its `deinit_func()` ends a session (`DeinitEnds`). That is not all that closes a
device: `rec_func()` does when `read()` fails, from whatever point of a packet it is
at, and then `drv.fd` has to be -1, as clients are still there (`Returns`, `RecReturns`:
only drivers that forget the number do, and only accent opens the port again, after
16 zeroes, which is why `DriverInv` bounds its buffer). Clients get their numbers
from the same table (`ClientCarried`, `ClientGone`), other programs take lock files
(`LockCarried`), the cable turns descriptors dead (`DeadCarried`), and children end by
themselves (`PortSteps`).

`CleanScenes` excludes what is listed under *Further disagreements*: a failing
step of `init_func()` that `Unclean` names for the driver; with unplugging, such a step as
the one that fails while the device is gone, and i2cuser, which does not close anything
after its child has ended; another program's lock of a driver that keeps the number of
the closed descriptor, as `init_func()` then fails before it resets `drv.fd`; and for
pinsys a foreign lock when lircd starts. `Room` is the bound on descriptors.

Only model-checked: the properties of `SignalPath` and `Irrecord`, the framing of the
drivers' packets (`Framed`) and the lircrc reader (`ReadAsMeant`).
The codecs, the reader and writer of `lircd.conf` are built on bit
operations, or on RECURSIVE operators over nested data, which cost a module its
SMT backend; `Framed` is about what 37 folds over bytes compute. The liveness
properties (`EveryCommandAnswered`, `CallsReturn`, `Delivered`, `PressesAnswered`, `PeerComesBack`, `Reopened`, `Ends`,
`ReceiverAdvances`) and ENABLED are out of reach of the provers.

## Plan

What is left, in the order of its worth:

1. Proof: the strings of a press through `lircrcd` (the first part of
   `PressesAnswered`).
2. Sending by the drivers that have protocols of their own (tira, girs, irtoy).
3. The drivers on top of libusb and sound cards that are left (commandir, srm7500,
   audio, libftdi).

## Not modelled

- Start-up, options, pid file, permissions and log file of the programs: sequential
  code around system calls, without state that later steps depend on.
- Driver administration (`drv_admin.c`, `dlopen()` and directory scans) and
  portability helpers (`curl_poll`, privilege dropping).
- Sending by hardware drivers, `drvctl`, and the drivers named in the plan:
  commandir and srm7500 are device protocols of thousands of lines that cannot be
  told from the code alone to be right or wrong.
- irw, mode2, xmode2, irpty and other tools that are a loop over what is modelled.
- Python bindings, systemd units, packaging, documentation.
