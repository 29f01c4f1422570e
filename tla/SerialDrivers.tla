---------------------------- MODULE SerialDrivers ----------------------------
(***************************************************************************)
(* rec_func and decode_func of the drivers that read codes as bytes from a *)
(* serial port or a sound card.                                            *)
(*                                                                         *)
(* m holds what a driver keeps: buf are the bytes read in the current call *)
(* of rec_func(), busy whether that call waits for another one, out        *)
(* the code it returned (<<>> for NULL), code, last and n its static       *)
(* variables and rep the static repeat_state, near and idle how long the   *)
(* last code is ago: near as long as the bytes come without a pause, idle  *)
(* after a pause that is too long for a repeat.  Each operator is given    *)
(* the byte that read() returned; the operators named _timeout say what    *)
(* happens when none comes in time, the ones named _empty what happens     *)
(* when read() has nothing to return.  then is what rec_func() does to the *)
(* device on top of that.                                                  *)
(* A code is its bits, as map_code() gets them, and whether the driver     *)
(* says it is a repeat: "yes", "no", or "gap" if map_gap() decides.        *)
(***************************************************************************)
EXTENDS Integers, Sequences, SequencesExt

More(m, b) == [m EXCEPT !.buf = b, !.busy = TRUE]
Drop(m) == [m EXCEPT !.buf = <<>>, !.busy = FALSE]   \* rec_func() returns NULL
Report(m, bits, repeat) ==
  [Drop(m) EXCEPT !.out = <<[bits |-> bits, repeat |-> repeat]>>, !.idle = FALSE, !.near = TRUE]

NewDriver ==
  [buf |-> <<>>, busy |-> FALSE, out |-> <<>>, code |-> <<>>, last |-> <<>>, n |-> 0, rep |-> "gap",
   near |-> FALSE, idle |-> TRUE, then |-> ""]

(* A driver that reads a fixed number of bytes and takes what it gets. *)
Fixed(m, byte, count, repeat) ==
  LET b == Append(m.buf, byte) IN IF Len(b) < count THEN More(m, b) ELSE Report(m, b, repeat)

reverse(b) == FoldFunction(LAMBDA i, sum : sum + i, 0,
                           [i \in 0..7 |-> IF (b \div 2^i) % 2 = 1 THEN 2^(7 - i) ELSE 0])
complement(b) == 255 - b
bit(b, i) == (b \div 2^i) % 2
(* The operators of C on bytes: which bits are set. *)
ones(b) == {i \in 0..7 : bit(b, i) = 1}
byte_of(set) == FoldSet(LAMBDA i, sum : 2^i + sum, 0, set)
a & b == byte_of(ones(a) \cap ones(b))
a | b == byte_of(ones(a) \cup ones(b))
a ^^ b == byte_of((ones(a) \cup ones(b)) \ (ones(a) \cap ones(b)))
signed(b) == IF b > 127 THEN b - 256 ELSE b   \* (char)b

(* Six bytes 4d 05 b ~b ac 21; the bytes of each half go out reversed. *)
creative_rec_unchecked(m, byte) ==   \* mutant: the complement is not compared
  LET b == Append(m.buf, byte) IN
  IF b[1] # 77 \/ (Len(b) > 1 /\ b[2] # 5) THEN Drop(m)
  ELSE IF Len(b) < 6 THEN More(m, b)
  ELSE Report(m, <<reverse(b[6]), reverse(b[5]), reverse(b[4]), reverse(b[3])>>, "gap")
creative_rec(m, byte) ==
  LET b == Append(m.buf, byte) IN
  IF b[1] # 77 \/ (Len(b) > 1 /\ b[2] # 5) THEN Drop(m)
  ELSE IF Len(b) < 6 THEN More(m, b)
  ELSE IF b[3] # complement(b[4]) THEN Drop(m)
  ELSE Report(m, <<reverse(b[6]), reverse(b[5]), reverse(b[4]), reverse(b[3])>>, "gap")

pixelview_rec(m, byte) ==
  LET b == Append(m.buf, byte)
      start_stop(i) == 2 * reverse(b[i]) + 1 IN
  IF Len(b) < 3 THEN More(m, b) ELSE Report(m, <<start_stop(1), start_stop(2), start_stop(3)>>, "gap")

(* Up to AA, or one byte of the mouse; b[2] may be one of an earlier call, *)
(* it is m.last here.                                                      *)
logitech_rec(m, byte) ==
  LET b == Append(m.buf, byte)
      second == IF Len(b) > 1 THEN b[2] ELSE IF m.last = <<>> THEN 0 ELSE m.last[1]
      s == [m EXCEPT !.last = <<second>>] IN
  IF byte \in 64..111 THEN Report([m EXCEPT !.last = <<byte>>], <<160, byte>>, "gap")
  ELSE IF byte = 170 \/ Len(b) = 15 THEN Report(s, <<160, second>>, "gap")
  ELSE More(s, b)

(* A key is sent at least twice after AA; n is repeat_counter, last the    *)
(* pressed key.                                                            *)
pcmak_keys == 1..43 \cup 65..107 \cup 47..49 \cup {95, 121, 117}
pcmak_rec(m, byte) ==
  LET b == Append(m.buf, byte) IN
  CASE byte = 170 -> More([m EXCEPT !.n = 0], b)
    [] byte \in pcmak_keys /\ m.n < 1 -> More([m EXCEPT !.n = 1, !.last = <<byte>>], b)
    [] byte \in pcmak_keys /\ m.n >= 1 /\ m.last = <<byte>> -> Report(m, <<170, byte>>, "gap")
    [] OTHER -> More(m, b)

(* d5 aa ee code ad, ended by the first ad. *)
mp3anywhere_rec(m, byte) ==
  LET b == Append(m.buf, byte) IN
  IF \E i \in DOMAIN b : i # 4 /\ b[i] # <<213, 170, 238, 0, 173>>[i] THEN Drop(m)
  ELSE IF byte = 173 THEN Report(m, <<213, 170, 238, b[4]>>, "gap")
  ELSE More(m, b)

(* The movements of the mouse become codes of their own, by their length   *)
(* in the two directions; 0 is none of them.                               *)
mouse_code(dx, dy) ==
  LET x == IF dx < 0 THEN -dx ELSE dx
      y == IF dy < 0 THEN -dy ELSE dy
      length(a, b) == IF a = 2 /\ b # 1 THEN {512} ELSE IF a = 8 THEN {1024} ELSE {}
      bits == (IF dy < 0 THEN {128} ELSE {}) \cup (IF dx < 0 THEN {8} ELSE {})
              \cup (IF y \in {1, 2, 8} THEN {16} \cup length(y, x) ELSE {})
              \cup (IF x \in {1, 2, 8} THEN {1} \cup length(x, y) ELSE {})
              \cup (IF y \in {4, 16} THEN {16, 32} ELSE IF x \in {4, 16} THEN {1, 2} ELSE {})
  IN FoldSet(+, 0, bits)
mouse_event(m, dx, dy, stat) ==
  LET code == mouse_code(dx, dy) IN
  IF code # 0 THEN Report(m, <<8, code + 256, 127>>, "gap")
  ELSE IF dx = 0 /\ dy = 0 THEN Report(m, <<8, 2048 + stat, 127>>, "gap")
  ELSE Drop(m)

(* A byte that starts a packet in the middle of one starts over, and is    *)
(* lost itself; a byte that cannot start one is skipped.                   *)
mouseremote_rec(m, byte) ==
  LET b == Append(m.buf, byte)
      first == b[1] IN
  IF Len(b) = 1 /\ (byte & 192) # 64 THEN More(m, <<>>)
  ELSE IF Len(b) > 1 /\ ((byte & 64) # 0 \/ byte = 128) THEN More(m, <<>>)
  ELSE IF Len(b) < 3 THEN More(m, b)
  ELSE IF (first & 12) # 12 /\ b[3] = 63
  THEN Report(m, <<8, b[2] + (first & 3) * 64, 127>>, "gap")
  ELSE mouse_event(m, signed((first & 3) * 64 + (b[2] & 63)), -signed((first & 12) * 16 + (b[3] & 63)),
                   4 * bit(first, 5) + bit(first, 4))
mouseremote_ps2_rec(m, byte) ==
  LET b == Append(m.buf, byte)
      first == b[1] IN
  IF Len(b) = 1 /\ (byte & 12) # 8 THEN More(m, <<>>)
  ELSE IF Len(b) < 3 THEN More(m, b)
  ELSE IF b[3] = 127 THEN (IF first # 8 THEN Drop(m) ELSE Report(m, <<8, b[2], 127>>, "gap"))
  ELSE mouse_event(m, signed(b[2]), signed(b[3]), 4 * bit(first, 0) + (first & 6) \div 2)

(* Three bytes; last is the array b, which keeps what was in it: read() of *)
(* an empty line returns -1, and silitek_read() takes that for a byte.     *)
silitek_mouse == {124, 127, 253, 254}
silitek_length(v) == IF bit(v, 5) = 1 THEN 32 - (v & 31) ELSE v & 31
silitek_bits(b) ==
  LET x == silitek_length(b[2])
      y == silitek_length(b[3])
      sign == 16 * bit(b[2], 5) + bit(b[3], 5)
      pos == CASE x > 0 /\ y = 0 -> 1 [] x > y /\ y > 0 -> 2 [] x = y /\ x > 0 -> 3
               [] y > x /\ x > 0 -> 4 [] y > 0 /\ x = 0 -> 5 [] OTHER -> 0
      button == CASE b[1] = 253 -> <<160, 187>> [] b[1] = 254 -> <<10, 187>> [] b[1] = 127 -> <<170, 187>>
                  [] OTHER -> <<128, 128>>
  IN IF b[1] \notin silitek_mouse THEN <<IF b[1] = 42 THEN 204 ELSE 187, b[2], b[3]>>
     ELSE <<170>> \o (IF b[2] = 128 /\ b[3] = 128 THEN button ELSE <<sign, pos>>)
silitek_slow(b) ==
  /\ b[1] \in silitek_mouse /\ ~(b[2] = 128 /\ b[3] = 128)
  /\ silitek_length(b[2]) < 4 /\ silitek_length(b[3]) < 4
silitek_rec(m, byte) ==
  LET b == Append(m.buf, byte) IN
  IF b[1] \notin silitek_mouse \cup {63, 49, 42} THEN Drop(m)
  ELSE IF Len(b) < 3 THEN More(m, b)
  ELSE Report([m EXCEPT !.last = silitek_bits(b)], silitek_bits(b), IF silitek_slow(b) THEN "no" ELSE "gap")
silitek_empty(m) ==
  silitek_rec(m, IF m.last = <<>> THEN 0 ELSE m.last[Len(m.buf) + 1])

(* The answer of one read() of up to five bytes; another second byte keeps *)
(* the code.                                                               *)
ea65_code(m, data) ==
  CASE data[2] = 1 -> <<data[3], data[4], data[5]>> [] data[2] = 4 -> <<255, data[3], data[4]>>
    [] OTHER -> m.code
ea65_rec(m, data) ==
  IF Len(data) < 4 \/ data[1] # 160 \/ (data[2] = 1 /\ Len(data) < 5) THEN Drop(m)
  ELSE Report([m EXCEPT !.code = ea65_code(m, data)], ea65_code(m, data), IF m.idle THEN "no" ELSE "yes")

uirt2_rec(m, byte) == Fixed(m, byte, 6, "gap")

(* Up to six bytes; the lowest bit is the repeat flag.  A shorter packet   *)
(* is taken as it is.                                                      *)
usbx_end(m, b) ==
  LET n == Len(b) IN
  Report(m, [b EXCEPT ![n] = @ - bit(@, 0)], IF bit(b[n], 0) = 1 THEN "yes" ELSE "no")
usbx_rec(m, byte) ==
  LET b == Append(m.buf, byte) IN IF Len(b) < 6 THEN More(m, b) ELSE usbx_end(m, b)
usbx_timeout(m) == usbx_end(m, m.buf)
usbx_empty(m) == [Drop(m) EXCEPT !.then = "deinit"]

(* Three bytes; with the repeat flag set they are masked. *)
pinsys_rec(m, byte) ==
  LET b == Append(m.buf, byte)
      r == bit(b[3], 6) = 1 IN
  IF Len(b) < 3 THEN More(m, b)
  ELSE Report(m, IF r THEN <<b[1], b[2] ^^ 232, b[3] ^^ 64>> ELSE b, IF r /\ ~m.idle THEN "yes" ELSE "gap")
pinsys_timeout(m) == [Drop(m) EXCEPT !.then = "flush"]

(* Each byte is followed by a shift, the last one too. *)
tira_rec(m, byte) ==
  LET b == Append(m.buf, byte) IN
  IF Len(b) < 6 THEN More(m, b) ELSE Report(m, Append(b, 0), "gap")
tira_timeout(m) == [Drop(m) EXCEPT !.then = "flush"]

(* A packet ends with a pause or with the 16th byte; last is last_code.  A *)
(* line of zeroes without a pause is a jam: the port is opened again.      *)
accent_end(m, b) ==
  LET none == [Drop(m) EXCEPT !.last = <<>>] IN
  CASE b = <<0>> ->
         IF m.last # <<>> /\ ~m.idle THEN [Report(m, m.last, "gap") EXCEPT !.then = "flush"] ELSE none
    [] b # <<0>> /\ Len(b) < 8 -> none
    [] Len(b) >= 8 /\ SubSeq(b, 1, 3) = <<144, 70, 66>> ->
         [Report([m EXCEPT !.last = SubSeq(b, 1, 8)], SubSeq(b, 1, 8), "gap") EXCEPT !.then = "flush"]
    [] Len(b) = 16 /\ (\A i \in DOMAIN b : b[i] = 0) -> [none EXCEPT !.then = "reopen"]
    [] OTHER -> none
accent_rec(m, byte) ==
  LET b == Append(m.buf, byte) IN IF Len(b) < 16 THEN More(m, b) ELSE accent_end(m, b)
accent_timeout(m) == accent_end(m, m.buf)

(* A MIDI message from F0 to F7: vendor[3], dev, filler[2] (not there if   *)
(* dev is NONREMOTE), keygroup, remote[2], key[2], end.  A byte of MIDI    *)
(* has seven bits; the eighth ones are in keygroup.                        *)
livedrive_length(b) == IF Len(b) > 4 /\ b[5] = 97 THEN 11 ELSE 13
livedrive_code(b) ==
  LET field(i) == b[livedrive_length(b) - i]
      eighth(i) == bit(field(5), i)
  IN <<reverse(field(4)) | eighth(3), reverse(field(3)) | eighth(2),
       reverse(field(2)) | eighth(1), reverse(field(1)) | eighth(0)>>
livedrive_message(m, byte) ==
  LET b == Append(m.buf, byte) IN
  IF b[1] # 240 THEN More(m, <<>>)
  ELSE IF Len(b) < livedrive_length(b) THEN More(m, b)
  ELSE IF byte # 247 THEN Drop(m)
  ELSE Report(m, livedrive_code(b), IF m.idle THEN "no" ELSE "yes")
livedrive_rec_midi(m, byte) == livedrive_message(m, byte)
(* The sequencer device wraps each byte into a packet of its own. *)
livedrive_rec_seq(m, seq) == livedrive_message(m, seq.data)

alsa_usb_rec(m, byte) ==
  Report([m EXCEPT !.code = <<byte>>], <<byte>>, IF m.code = <<byte>> /\ ~m.idle THEN "yes" ELSE "no")

(* The command of a SCSI device. *)
creative_infracd_rec(m, cmd) == Report(m, <<132, 53, reverse(cmd), complement(reverse(cmd))>>, "no")

(* n is timeout_repetition_flag: a repeat that came too late ends them.    *)
mplayfamily_rec_handle_repetition(m) ==
  IF m.n = 1 THEN Drop(m) ELSE IF m.idle THEN [Drop(m) EXCEPT !.n = 1] ELSE Report(m, m.code, "yes")
(* The knob sends its code again and again: what comes without a pause is  *)
(* one press.                                                              *)
mplayfamily_rec_handle_new(m, byte) ==
  LET again == byte = 130 /\ m.code = <<130>>
      s == [m EXCEPT !.code = <<byte>>, !.n = 0] IN
  IF again /\ m.near THEN Drop(m) ELSE Report(s, <<byte>>, IF again /\ ~m.idle THEN "yes" ELSE "no")
mplayfamily_rec(m, byte) ==
  IF byte = 126 THEN mplayfamily_rec_handle_repetition(m) ELSE mplayfamily_rec_handle_new(m, byte)
mplayfamily_empty(m) == [Drop(m) EXCEPT !.then = "deinit"]
(* A byte is the length of a pulse or of a space, which alternate; FE and  *)
(* FF say that a long one has begun, which lircd's clock measures up to    *)
(* the next byte.  n is 0 if a pulse is next.                              *)
IRLINK_PERIOD(value, timescale) == (1000000 * value) \div timescale
irlink_length(byte) ==
  IF byte >= 128 THEN IRLINK_PERIOD((byte % 128) \div 2, 3600) ELSE IRLINK_PERIOD(byte \div 2, 14400)
irlink_level(m) ==
  CASE m.code = <<254>> -> "pulse" [] m.code = <<255>> -> "space" [] OTHER -> IF m.n = 0 THEN "pulse" ELSE "space"
irlink_measured(m) ==
  CASE m.code = <<254>> -> <<[bits |-> <<"space", -1>>, repeat |-> "gap"]>>
    [] m.code = <<255>> -> <<[bits |-> <<"pulse", -1>>, repeat |-> "gap"]>>
    [] OTHER -> <<>>
irlink_readdata(m, byte) ==
  LET s == Report([m EXCEPT !.n = IF irlink_level(m) = "pulse" THEN 1 ELSE 0, !.code = <<>>],
                  <<irlink_level(m), irlink_length(byte)>>, "gap") IN
  IF byte \in {254, 255} THEN More([m EXCEPT !.code = <<byte>>], <<>>)
  ELSE [s EXCEPT !.out = irlink_measured(m) \o @]

=============================================================================
