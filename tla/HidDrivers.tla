----------------------------- MODULE HidDrivers -----------------------------
(***************************************************************************)
(* rec_func and decode_func of the drivers that read events of the kernel, *)
(* and the threads and children that read a USB or I2C device for lircd.   *)
(* m, More(), Drop() and Report() are those of SerialDrivers.  An event is *)
(* a record; large constants are named: the hid of an event is the part of *)
(* the report it stands for, a value -1 or -86 (ffffffaa) is signed.       *)
(***************************************************************************)
EXTENDS SerialDrivers

(* The two coordinates that follow the button code of the wheel; n is      *)
(* wheel_count, code x_movement.  A movement that is too long leaves       *)
(* wheel_count as it is.                                                   *)
mousegrid ==
  << <<0, 21, 21, 22, 22, 22, 22, 23, 23>>, <<5, 13, 17, 18, 18, 18, 22, 23, 23>>,
     <<5, 9, 14, 18, 18, 18, 19, 19, 19>>, <<6, 10, 10, 14, 14, 18, 19, 19, 19>>,
     <<6, 10, 10, 14, 14, 15, 19, 19, 19>>, <<6, 10, 10, 10, 15, 15, 15, 15, 19>>,
     <<6, 6, 11, 11, 11, 15, 15, 15, 15>>, <<7, 7, 11, 11, 11, 15, 15, 15, 15>>,
     <<7, 7, 11, 11, 11, 11, 15, 15, 15>> >>
bw6130_wheel(m, y) ==
  LET x == m.code[1]
      s == [m EXCEPT !.code = <<x % 16>>]
      directions == (((x & 240) \div 2) | ((y & 240) \div 4)) | 128 IN
  IF x % 16 > 8 \/ y % 16 > 8 THEN Drop(s)
  ELSE Report([s EXCEPT !.n = 0], <<mousegrid[(x % 16) + 1][(y % 16) + 1] | directions>>, m.rep)
(* A button of the bw6130, which says when it is released. *)
bw6130_event(m, e) ==
  CASE m.n = 2 -> bw6130_wheel(m, e.value)
    [] m.n = 1 -> Drop([m EXCEPT !.code = <<e.value>>, !.n = 2])
    [] m.n = 0 /\ e.hid = "bw6130" /\ e.value \notin {-1, -86} ->
         LET s == [m EXCEPT !.rep = IF m.last = <<e.value>> THEN "yes" ELSE @, !.last = <<e.value>>]
         IN IF e.value = 64 THEN Drop([s EXCEPT !.n = 1]) ELSE Report(s, <<e.value>>, s.rep)
    [] m.n = 0 /\ e.hid = "bw6130" /\ e.value = -86 -> Drop([m EXCEPT !.rep = "no", !.last = <<0>>])
    [] OTHER -> Drop(m)

(* dvico, bw6130 and asusdh.  An event "prefix" announces another one; an  *)
(* Asus button is eight of them.                                           *)
dvico_event(m, e) ==
  LET r == IF e.value >= 32768 THEN "yes" ELSE "no" IN
  IF r = "yes" /\ m.idle THEN Drop([m EXCEPT !.rep = r])
  ELSE Report([m EXCEPT !.rep = r], <<e.value % 32768>>, r)
hiddev_rec(m, ev) ==
  LET b == Append(m.buf, ev)
      first == IF b[1].hid = "prefix" THEN 2 ELSE 1
      e == b[first] IN
  IF Len(b) < first THEN More(m, b)
  ELSE IF e.hid = "dvico" THEN dvico_event(m, e)
  ELSE IF e.hid = "asus" /\ Len(b) < first + 7 THEN More(m, b)
  ELSE IF e.hid = "asus" /\ b[first + 1].value # 0 THEN Report(m, <<b[first + 1].value>>, m.rep)
  ELSE bw6130_event(m, e)

sb0540_rec(m, uref) ==
  IF ~uref.report THEN Drop(m)
  ELSE Report(m, <<131, 34, reverse(uref.value), complement(reverse(uref.value))>>, "no")

(* Four events; all zero is a repeat. *)
macmini_rec(m, ev) ==
  LET b == Append(m.buf, ev) IN
  IF Len(b) < 4 THEN More(m, b)
  ELSE IF b # <<0, 0, 0, 0>> THEN Report([m EXCEPT !.code = b], b, "gap")
  ELSE IF m.idle THEN Drop(m) ELSE Report(m, m.code, "yes")

(* Three kinds of reports; the third is a bit map, where the number of the *)
(* first bit that is set counts.                                           *)
samsung_rec(m, uref) ==
  LET used == {i \in DOMAIN uref.value : uref.value[i] > 0}
      i == Min(used)
      top == CHOOSE k \in 0..7 : uref.value[i] >= 2^k /\ uref.value[i] < 2^(k + 1) IN
  CASE uref.report \in {1, 3} -> Report(m, <<uref.usage, uref.value[uref.report \div 2 + 1]>>, "no")
    [] uref.report = 4 -> Report(m, <<uref.usage, IF used = {} THEN 0 ELSE 8 * (i - 1) + 1 + top>>, "no")
    [] OTHER -> Drop(m)

sonyir_rec(m, msg) ==
  IF Len(msg) # 6 \/ msg[1] # 1 \/ msg[3] >= 128 THEN Drop(m)
  ELSE Report(m, <<msg[4], msg[5], msg[3]>>, "no")

hiddev_empty(m) == [Drop(m) EXCEPT !.then = "deinit"]

LIRC_VALUE_MASK == 16777215
(* default.c: a code of the length the kernel driver told, read at once.   *)
default_rec(m, bytes, length) == IF Len(bytes) = length THEN Report(m, bytes, "gap") ELSE hiddev_empty(m)
(* A space after the longest possible one is skipped; no length is 0.      *)
default_readdata(m, data) ==
  LET value == IF data = <<"space", 0>> THEN <<"space", 1>> ELSE data IN
  IF ~m.busy /\ m.last = <<"space", LIRC_VALUE_MASK>> /\ data[1] = "space" THEN More(m, <<data>>)
  ELSE Report([m EXCEPT !.last = value], value, "gap")

(* Where events can be passed on, uinput gets what is not a key. *)
devinput_rec(m, e, uinput) ==
  LET button == e.type = "key" /\ e.code \in 256..337
      value == IF e.value = 2 /\ e.type = "key" THEN 1 ELSE e.value
      repeat == CASE e.type # "key" -> "gap" [] e.type = "key" /\ e.value = 2 -> "yes" [] OTHER -> "no" IN
  IF uinput /\ (e.type \in {"rel", "abs", "syn"} \/ button)
  THEN [Drop(m) EXCEPT !.out = <<[bits |-> <<e.code, e.value>>, repeat |-> "uinput"]>>]
  ELSE IF e.type = "syn" THEN Drop(m)
  ELSE Report(m, <<e.code, value>>, repeat)

-----------------------------------------------------------------------------
(* Threads and children.  c is the state of one, writes what it put into   *)
(* the pipe at this step, over whether it ends.                            *)
NewChild == [pressed |-> FALSE, current |-> <<>>, count |-> 0, inited |-> FALSE, writes |-> <<>>, over |-> FALSE]
Released == <<0>>
Removed == <<16777215>>
Writes(c, what) == [c EXCEPT !.writes = what]
Exits(c) == [c EXCEPT !.over = TRUE, !.writes = <<Removed>>]

(* Key or release; the key is sent again while it is held. *)
atwf83_press(c, ev) ==
  LET key == (ev.rd = 8 /\ ev.code # 0) \/ (ev.rd = 6 /\ ev.code > 2)
      s == IF key THEN [c EXCEPT !.pressed = TRUE, !.count = 0, !.current = <<ev.code>>]
           ELSE [c EXCEPT !.pressed = FALSE, !.current = Released]
  IN Writes(s, <<s.current>>)
repeat_again(c, max_repeat_count) ==
  IF c.count + 1 >= max_repeat_count THEN Exits(c)
  ELSE Writes([c EXCEPT !.count = @ + 1], <<c.current>>)
(* What a report of the receiver means: a key of a keyboard with or        *)
(* without shift, a key of another kind, nothing pressed, or nothing new.  *)
zotac_getcode(uref) ==
  CASE uref.report = 1 /\ uref.value # 0 -> <<1, uref.value + (IF uref.shift THEN 268435456 ELSE 0)>>
    [] uref.report \in {2, 3, 4} /\ uref.value # 0 -> <<1, uref.value>>
    [] uref.report \in 1..4 /\ uref.value = 0 -> <<2, 0>>
    [] OTHER -> <<0, 0>>
(* read() fails: zotac_deinit() cancels the thread it is called in, which  *)
(* ends at the first close(), with everything still open, drv.fd in use    *)
(* and nothing said to lircd. *)
zotac_read_fails(c) == [c EXCEPT !.over = TRUE]
zotac_press(c, uref) ==
  LET got == zotac_getcode(uref)
      s == IF got[1] = 1 THEN [c EXCEPT !.pressed = TRUE, !.count = 0, !.current = <<got[2]>>]
           ELSE [c EXCEPT !.pressed = FALSE, !.current = Released]
  IN IF got[1] = 0 THEN Writes(c, <<>>) ELSE Writes(s, <<s.current>>)
(* zotac_rec() and atwf83_rec(); code is main_code. *)
repeat_rec(m, ev) ==
  CASE ev = Released -> Drop([m EXCEPT !.code = <<>>])
    [] ev = Removed -> [Drop(m) EXCEPT !.then = "deinit"]
    [] OTHER -> Report([m EXCEPT !.code = ev], ev, IF m.code = ev THEN "yes" ELSE "no")

(* The first transfer of one byte is not a code. *)
ati_read_loop(c, buf) ==
  LET n == Len(buf) IN
  IF ~c.inited /\ n = 1 THEN Writes([c EXCEPT !.inited = TRUE], <<>>)
  ELSE Writes([c EXCEPT !.inited = TRUE],
              << [i \in 1..5 |-> IF i < n THEN buf[i] ELSE IF i = n THEN buf[n] & 15 ELSE 0] >>)
aw_read_loop(c, buf) ==
  IF ~c.inited /\ Len(buf) = 1 THEN Writes([c EXCEPT !.inited = TRUE], <<>>)
  ELSE Writes([c EXCEPT !.inited = TRUE], <<Tail(buf)>>)
(* The bytes of several transfers make up a code; current is rcv_code. *)
dfc_read_loop(c, buf) ==
  LET all == c.current \o Tail(buf)
      codes == Len(all) \div 6 IN
  Writes([c EXCEPT !.current = SubSeq(all, 6 * codes + 1, Len(all))],
         [i \in 1..codes |-> SubSeq(all, 6 * i - 5, 6 * i)])
(* A code that stays is written again after a while: pressed is "within    *)
(* REPEAT_TIME".                                                           *)
i2cuser_read_loop(c, buf) ==
  LET new == (buf[1] & 127) * 64 + buf[2] \div 4 IN
  IF buf[1] < 128 \/ (<<new>> = c.current /\ c.pressed) THEN Writes(c, <<>>)
  ELSE Writes([c EXCEPT !.current = <<new>>, !.pressed = TRUE], << <<new \div 256, new % 256>> >>)
(* rec_func() of these drivers: a code as rec_buffer_clear() reads it. *)
code_rec(m, code) == Report(m, code, "gap")
=============================================================================
