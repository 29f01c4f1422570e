------------------------------ MODULE Irrecord ------------------------------
(***************************************************************************)
(* irrecord (tools/irrecord-ui.cpp and lib/irrecord.c) with its user and   *)
(* the remote control: finding the lengths, recording buttons, looking for *)
(* toggle bits, writing lircd.conf; and the non-interactive uses -a and -t. *)
(*                                                                         *)
(* The program waits for the line, the keyboard or a timeout; one action   *)
(* is what it does from one wait to the next.                              *)
(***************************************************************************)
EXTENDS Lengths, Sender, ConfigFile

CONSTANTS
  Cases,           \* <<remote control, command line>>: what it transmits, and
                   \* a record with the fields of struct opts
  Names,           \* what the user types, "" ends the recording
  BadNames,        \* the names record_buttons() refuses
  TOGGLE_RETRIES,  \* toggle_state_init(): 30
  RETRIES,         \* get_button_data(): 30
  Idle,            \* pause between presses
  HoldFrames,      \* signals while a button is held, to find the lengths
  MaxFrames,       \* signals while a button is recorded
  MaxNames,        \* how often the user types a name
  Noise            \* a press the receiver garbles

VARIABLES
  dev,      \* the remote control
  tx,       \* its toggle bits
  opts,     \* the command line
  u,        \* irrecord: phase, the remote, the recorded buttons ...
  g,        \* the driver and the decoder, a record of module Receive
  presses,  \* the number of presses to find the lengths
  file      \* lircd.conf as the run leaves it, or <<>>

vars == <<dev, tx, opts, u, g, presses, file>>

mode2 == g.w.mode = "MODE2"
ended == {"done", "failed", "hangs", "crashed"}

Init ==
  /\ \E c \in Cases : dev = c[1] /\ opts = c[2]
  /\ tx = fresh(dev)
  /\ u = [phase |-> "start", r |-> blank, a |-> analysis(30, 100), ncodes |-> <<>>,
          name |-> "", names |-> 0, next |-> <<>>, retries |-> 0, last |-> 0, flag |-> FALSE,
          gaps |-> <<>>, lastmaxcount |-> 0, tgl |-> <<>>]
  /\ g \in {receiver(<<blank>>, rec_buffer("plain", "MODE2", 0)),
            receiver(<<blank>>, rec_buffer("plain", "LIRCCODE", bit_count(dev)))}
  /\ opts.lirccode <=> g.w.mode = "LIRCCODE"
  /\ presses = 0
  /\ file = opts.template

-----------------------------------------------------------------------------
(* flushhw() drops what the device has delivered; resethw() also empties   *)
(* the receive buffer.                                                     *)
flushhw(x) == [x EXCEPT !.w.line = <<>>, !.w.waited = 0, !.w.now = IF mode2 THEN 0 ELSE @]
resethw(x) ==
  [receiver(<<u.r>>, [rec_buffer("plain", x.w.mode, x.w.code_length) EXCEPT !.now = x.w.now])
     EXCEPT !.st = x.st]
RECURSIVE drained(_)
drained(w) == IF w.line = <<>> THEN w ELSE drained(rec_buffer_clear(w))   \* rec_func(NULL)
with_remote(x, r) == [x EXCEPT !.st = <<fresh(r)>>, !.last_remote = 0, !.last_decoded = 0]

(* The conversions of a remote: common bits of all codes to pre and post   *)
(* data and back, ones and zeroes exchanged, the trailing pulse as a bit.  *)
mapped_codes(r, f) ==
  [r EXCEPT !.codes = [k \in DOMAIN @ |->
     [@[k] EXCEPT !.seq = [i \in DOMAIN @ |-> f[@[i]]]]]]
all_codes(r) == FlattenSeq([k \in DOMAIN r.codes |-> IF k = 1 THEN <<r.codes[1].seq[1]>>
                                                     ELSE r.codes[k].seq])
common(r, i) == \A j \in DOMAIN all_codes(r) : bit(all_codes(r)[j], i) = bit(all_codes(r)[1], i)
(* "only even numbers should go to pre/post data" *)
bytewise(r, n) == IF n % 8 # 0 /\ (r.bits - n) % 8 # 0 THEN n - (n % 8) ELSE n
pre_count(r) ==
  bytewise(r, Cardinality({i \in 0..(r.bits - 1) : \A j \in i..(r.bits - 1) : common(r, j)}))
post_count(r) ==
  bytewise(r, Cardinality({i \in 0..(r.bits - 1) : \A j \in 0..i : common(r, j)}))
get_pre_data(r) ==
  LET n == pre_count(r)
      bits == r.bits - n
      moved == mapped_codes(r, [c \in Nat |-> c % 2^bits])
  IN IF r.bits = 0 \/ Len(r.codes) < 2 \/ n <= 0 THEN r
     ELSE [moved EXCEPT !.bits = bits, !.pre_data_bits = n,
                        !.pre_data = Last(all_codes(r)) \div 2^bits]
get_post_data_in_place(r) ==
  LET n == post_count(r) IN
  IF r.bits = 0 \/ Len(r.codes) < 2 \/ n <= 0 THEN r
  ELSE [mapped_codes(r, [c \in Nat |-> c % 2^n]) EXCEPT !.bits = @ - n, !.post_data_bits = n,
                                                   !.post_data = Last(all_codes(r)) % 2^n]

get_post_data(r) ==
  LET n == post_count(r)
      moved == mapped_codes(r, [c \in Nat |-> c \div 2^n])
  IN IF r.bits = 0 \/ Len(r.codes) < 2 \/ n <= 0 THEN r
     ELSE [moved EXCEPT !.bits = @ - n, !.post_data_bits = n,
                        !.post_data = Last(all_codes(r)) % 2^n]
remove_pre_data(r) ==
  IF r.pre_data_bits = 0 \/ r.pre_p # 0 \/ r.pre_s # 0 THEN r
  ELSE [mapped_codes(r, [c \in Nat |-> c | (r.pre_data * 2^r.bits)])
          EXCEPT !.bits = @ + r.pre_data_bits, !.pre_data = 0, !.pre_data_bits = 0]
remove_post_data(r) ==
  IF r.post_data_bits = 0 THEN r
  ELSE [mapped_codes(r, [c \in Nat |-> (c * 2^r.post_data_bits) | r.post_data])
          EXCEPT !.bits = @ + r.post_data_bits, !.post_data = 0, !.post_data_bits = 0]
invert_data_of_codes(r) ==
  [mapped_codes(r, [c \in Nat |-> c ^^ gen_mask(r.bits)])
     EXCEPT !.pone = r.pzero, !.sone = r.szero, !.pzero = r.pone, !.szero = r.sone]

invert_data(r) ==
  [mapped_codes(r, [c \in Nat |-> c ^^ gen_mask(r.bits)])
     EXCEPT !.pone = r.pzero, !.sone = r.szero, !.pzero = r.pone, !.szero = r.sone,
            !.pre_data = IF has_pre(r) THEN @ ^^ gen_mask(r.pre_data_bits) ELSE @,
            !.post_data = IF has_post(r) THEN @ ^^ gen_mask(r.post_data_bits) ELSE @]
remove_trail(r) ==
  LET same(x, y) == expect(r, x, y)
      v == IF same(r.ptrail, r.pone) THEN 1 ELSE 0
  IN IF \/ r.proto # "SPACE_ENC" \/ r.ptrail = 0
        \/ same(r.pone, r.pzero) \/ same(r.pzero, r.pone)
        \/ ~same(r.sone, r.szero) \/ ~same(r.szero, r.sone)
        \/ ~same(r.ptrail, r.pone) /\ ~same(r.ptrail, r.pzero)
     THEN r
     ELSE [r EXCEPT !.post_data_bits = @ + 1, !.post_data = 2 * @ + v, !.ptrail = 0]

(* null: the remote has no codes at all, not even an empty list. *)
set_toggle_bit_mask(r, xor, null) ==
  LET bits == bit_count(r) IN
  IF null THEN r
  ELSE IF \E i \in 0..(bits - 1) : xor = 2^i
  THEN [r EXCEPT !.toggle_bit_mask = xor,
                 !.codes = [k \in DOMAIN @ |-> [@[k] EXCEPT !.seq[1] = @ & (gen_mask(30) - xor)]]]
  ELSE IF bits = 15 /\ xor = 1023 THEN [r EXCEPT !.toggle_mask = xor]
  ELSE [r EXCEPT !.toggle_bit_mask = xor]
-----------------------------------------------------------------------------
(* analyse_remote(): the signals of a raw definition, three times each,    *)
(* are the input of get_lengths(); then each button is decoded.            *)
signal_line(b) == on_line(b.signals)
emulated_gap(r, b) ==
  IF is_const(r) THEN r.gap - FoldLeft(LAMBDA n, x : n + x, 0, b.signals) ELSE r.gap
thrice(r, b) == signal_line(b) \o space(emulated_gap(r, b)) \o signal_line(b)
                  \o space(emulated_gap(r, b)) \o signal_line(b)
emulation_readdata(r) == FlattenSeq([k \in DOMAIN r.codes |-> space(1000000) \o thrice(r, r.codes[k])])

second_analysed(two, one, name) ==
  <<[name |-> name, signals |-> <<>>,
     seq |-> IF two.ctx.ok /\ two.ctx.code # one.ctx.code
             THEN <<one.ctx.code, two.ctx.code>> ELSE <<one.ctx.code>>]>>
first_analysed(one, r, name) ==
  IF ~one.ctx.ok THEN <<>>
  ELSE second_analysed(receive_decode(r, rec_buffer_clear(one.w), one.st, <<>>, FALSE, FALSE), one, name)
analysed_button(r, raw, b) ==
  LET w == [rec_buffer("file", "MODE2", 0) EXCEPT !.line = space(1000000) \o thrice(raw, b) \o
                                                           space(emulated_gap(raw, b))]
  IN first_analysed(receive_decode(r, w, fresh(r), <<>>, FALSE, FALSE), r, b.name)
analysed_buttons(r, raw) ==
  [r EXCEPT !.name = raw.name, !.freq = raw.freq,
            !.codes = FlattenSeq([k \in DOMAIN raw.codes |-> analysed_button(r, raw, raw.codes[k])])]
analysed_lengths(a, x, raw) ==
  LET r == IF is_rc6(a.r) /\ a.r.bits >= 5 THEN [a.r EXCEPT !.rc6_mask = 2^(a.r.bits - 5)] ELSE a.r IN
  [a |-> a, out |-> x.out \o (IF a.sts = "ok" THEN fprint_remote(analysed_buttons(r, raw)) ELSE <<>>)]
analyse_remote(x, raw) ==
  LET once == emulation_readdata(raw)
      empty == [lengths_state_init(x.a) EXCEPT !.r = blank, !.eps = raw.eps, !.aeps = raw.aeps]
  IN analysed_lengths(all_lengths(empty, FlattenSeq([i \in 1..SAMPLES |-> once]), FALSE), x, raw)
(* The lists of lengths are kept from one remote to the next. *)
do_analyse(rems) ==
  FoldLeft(analyse_remote, [a |-> analysis(0, 0), out |-> <<>>], SelectSeq(rems, is_raw)).out

(* irrecord -t with the options of opts.test *)
tested(r) ==
  LET trail(x) == IF "trail" \in opts.test THEN remove_trail(x) ELSE x
      pre(x) == IF "pre" \in opts.test THEN get_pre_data(x) ELSE x
      post(x) == IF "post" \in opts.test THEN get_post_data(x) ELSE x
      invert(x) == IF "invert" \in opts.test THEN invert_data(x) ELSE x
  IN invert(post(pre(remove_post_data(remove_pre_data(trail(r))))))
-----------------------------------------------------------------------------
(* main() up to the first wait: init(), which uses the template, and       *)
(* do_init() and get_name(), which end the program or go on.               *)
from_template(t) ==
  IF opts.update \/ t.pre_p # 0 \/ t.pre_s # 0 \/ t.post_p # 0 \/ t.post_s # 0
  THEN [t EXCEPT !.codes = <<>>]
  ELSE [t EXCEPT !.codes = <<>>, !.bits = bit_count(t), !.pre_data_bits = 0, !.post_data_bits = 0]
started(x) ==
  LET named == IF opts.update THEN x.r ELSE [x.r EXCEPT !.name = "new"]
      r == IF mode2 THEN named
           ELSE [named EXCEPT !.bits = g.w.code_length, !.eps = 30, !.aeps = 100]
  IN [x EXCEPT !.r = r,
               !.phase = IF opts.template # <<>> THEN "name" ELSE IF mode2 THEN "lengths" ELSE "gap"]
given == read_config(opts.disk, opts.template)
batch == opts.template # <<>> /\ (opts.analyse \/ opts.test # {})
bad_template(c) ==
  opts.template # <<>> /\ ((opts.force /\ ~opts.update) \/ c.sts = "error" \/ c.rems = <<>>)
with_template(c) ==
  IF opts.template = <<>> THEN u
  ELSE [u EXCEPT !.r = from_template(c.rems[1]), !.ncodes = IF opts.update THEN c.rems[1].codes ELSE <<>>]
batch_output(rems) ==
  IF opts.analyse THEN do_analyse(rems) ELSE fprint_remotes([i \in DOMAIN rems |-> tested(rems[i])])
Start ==
  /\ u.phase = "start"
  /\ \E c \in {given} :
       IF opts.template # <<>> /\ c.sts = "crash"
       THEN /\ u' = [u EXCEPT !.phase = "crashed"]
            /\ UNCHANGED <<g, file>>
       ELSE IF bad_template(c)
       THEN /\ u' = [u EXCEPT !.phase = "failed"]
            /\ UNCHANGED <<g, file>>
       ELSE IF batch
       THEN /\ u' = [u EXCEPT !.phase = "done"]
            /\ file' = batch_output(c.rems)
            /\ UNCHANGED g
       ELSE /\ u' = started(with_template(c))
            /\ g' = with_remote(g, u'.r)
            /\ UNCHANGED file
  /\ UNCHANGED <<dev, tx, opts, presses>>

(* init_func() of the driver fails. *)
HardwareFails ==
  /\ u.phase = "start"
  /\ ~batch
  /\ u' = [u EXCEPT !.phase = "failed"]
  /\ UNCHANGED <<dev, tx, opts, g, presses, file>>

(* do_get_toggle_bit_mask() before or after the buttons, and               *)
(* do_record_buttons().                                                    *)
toggle_phase(x, after) ==
  [x EXCEPT !.phase = "toggle",
            !.tgl = [after |-> after, retries |-> TOGGLE_RETRIES, found |-> FALSE, seq |-> 0, repeats |-> 0,
                     flag |-> FALSE, first |-> 0, last |-> 0]]
recording(x) == IF is_rc6(x.r) THEN toggle_phase(x, FALSE) ELSE [x EXCEPT !.phase = "name"]
-----------------------------------------------------------------------------
(* mode2_get_lengths(): all that the line holds, up to a result.  A        *)
(* failure is not looked at by main().                                     *)
measured(a) ==
  LET mine == [a.r EXCEPT !.name = u.r.name] IN
  IF a.sts \in {"raw_ok", "too_long"}
  THEN [mine EXCEPT !.proto = "RAW_CODES", !.eps = a.eps, !.aeps = a.aeps]
  ELSE IF a.sts = "no_gap" THEN [mine EXCEPT !.gap = DEFAULT_GAP] ELSE mine
GetLengths ==
  /\ u.phase = "lengths" /\ g.w.line # <<>>
  /\ \E a \in {all_lengths(u.a, g.w.line, opts.force)} :
       LET free == [analysis(a.eps, a.aeps) EXCEPT !.sts = a.sts]
           x == [u EXCEPT !.a = free, !.r = measured(a)]
       IN /\ u' = IF a.sts \in {"again", "again_info"} THEN [u EXCEPT !.a = a, !.r = measured(a)]
                  ELSE IF a.sts = "loops" THEN [x EXCEPT !.phase = "hangs"] ELSE recording(x)
          /\ g' = with_remote(flushhw(g), measured(a))
  /\ UNCHANGED <<dev, tx, opts, presses, file>>

(* lirccode_get_lengths() and get_gap_length(): the time between two codes; *)
(* the time of a code that raised the count is not kept.                   *)
GetGap ==
  LET now == g.w.now + Head(g.w.line).dt IN
  /\ u.phase = "gap" /\ g.w.line # <<>>
  /\ \E gaps \in {merge_lengths(u.a, add_length(u.gaps, now - u.last))} :
       LET most == Max({gaps[i].count : i \in DOMAIN gaps})
           r == [u.r EXCEPT !.gap = calc_signal(gaps[Min(enough(gaps))])]
       IN /\ g' = IF u.flag /\ enough(gaps) # {} THEN with_remote(flushhw([g EXCEPT !.w.now = now]), r)
                  ELSE [g EXCEPT !.w.line = Tail(@), !.w.now = now, !.w.decoded = Head(g.w.line).n]
          /\ u' = IF ~u.flag THEN [u EXCEPT !.flag = TRUE, !.last = now]
                  ELSE IF enough(gaps) # {} THEN recording([u EXCEPT !.r = r, !.gaps = <<>>])
                  ELSE IF most > u.lastmaxcount THEN [u EXCEPT !.gaps = gaps, !.lastmaxcount = most]
                  ELSE [u EXCEPT !.gaps = gaps, !.last = now]
  /\ UNCHANGED <<dev, tx, opts, presses, file>>

(* Ten seconds without data end the program. *)
GivesUp ==
  /\ u.phase \in {"lengths", "gap", "toggle"} /\ g.w.line = <<>>
  /\ u.phase = "toggle" => u.tgl.retries > 0
  /\ u' = [u EXCEPT !.phase = "failed"]
  /\ UNCHANGED <<dev, tx, opts, g, presses, file>>
-----------------------------------------------------------------------------
(* get_toggle_bit_mask(): rec_func() and decode_func() on a press; for     *)
(* RC-6 the position of the long bit is tried out first.                   *)
decode_func(r, x) ==
  receive_decode(r, x.w, x.st[1],
                 IF x.last_remote = 1 THEN <<r, x.st[1]>> ELSE <<>>, x.last_remote = 1, FALSE)
RECURSIVE with_rc6_mask(_, _, _)
with_rc6_mask(r, x, i) ==
  LET s == [r EXCEPT !.rc6_mask = 2^i]
      then(d) == IF d.ctx.ok THEN [r |-> s, d |-> d]
                 ELSE with_rc6_mask(r, [x EXCEPT !.w = d.w, !.st = <<d.st>>], i + 1)
  IN IF i >= r.bits THEN [r |-> r, d |-> refused(x.w, x.st[1])] ELSE then(decode_func(s, x))
toggle_decoded(x) ==
  (IF is_rc6(u.r) /\ u.r.rc6_mask = 0 THEN with_rc6_mask(u.r, x, 0)
   ELSE [r |-> u.r, d |-> decode_func(u.r, x)]) @@ [y |-> x]
toggle_press == toggle_decoded(rec_func(<<u.r>>, g))

(* What the code of a press tells: a new press or a repeat of the last one, *)
(* and whether its bits differ from those of the first press.              *)
new_press(ctx) == ctx.ok /\ u.tgl.flag /\ (~ctx.repeat_flag \/ ctx.code # u.tgl.last)
toggles_found(ctx) == new_press(ctx) /\ ~u.tgl.found /\ u.tgl.first ^^ ctx.code # 0
toggle_counted(ctx) ==
  [u.tgl EXCEPT !.flag = @ \/ ctx.ok,
                !.first = IF ctx.ok /\ ~u.tgl.flag THEN ctx.code ELSE @,
                !.seq = IF new_press(ctx) THEN @ + 1 ELSE @,
                !.retries = IF new_press(ctx) \/ ~ctx.ok THEN @ - 1 ELSE @,
                !.found = @ \/ toggles_found(ctx),
                !.repeats = IF ctx.ok /\ ~new_press(ctx) THEN @ + 1 ELSE @,
                !.last = IF ctx.ok THEN ctx.code ELSE @]
toggle_masked(r, ctx) ==
  [set_toggle_bit_mask(r, u.tgl.first ^^ ctx.code, ~u.tgl.after)
     EXCEPT !.min_repeat = u.tgl.repeats \div (u.tgl.seq + 1)]
with_gaps(st, ctx) ==
  [st EXCEPT !.min_remaining_gap = IF ctx.ok THEN ctx.min_remaining_gap ELSE @,
             !.max_remaining_gap = IF ctx.ok THEN ctx.max_remaining_gap ELSE @]
GetToggleBitMask ==
  /\ u.phase = "toggle" /\ u.tgl.retries > 0 /\ g.w.line # <<>>
  /\ \E t \in {toggle_press} :
       LET ctx == t.d.ctx IN
       /\ ~t.y.w.stuck /\ ~t.d.w.stuck
       /\ g' = [t.y EXCEPT !.w = IF ctx.ok THEN t.d.w ELSE drained(t.d.w), !.st = <<with_gaps(t.d.st, ctx)>>]
       /\ u' = [u EXCEPT !.tgl = toggle_counted(ctx),
                         !.r = IF toggles_found(ctx) THEN toggle_masked(t.r, ctx) ELSE t.r]
  /\ UNCHANGED <<dev, tx, opts, presses, file>>

(* The result: without toggle bits RC-6 is given up, and the file that is  *)
(* removed then is the one the user named.                                 *)
ToggleBitsDone ==
  LET r == IF u.tgl.found /\ u.tgl.seq > 0
           THEN [u.r EXCEPT !.min_repeat = u.tgl.repeats \div u.tgl.seq] ELSE u.r
      lost == ~u.tgl.found /\ is_rc6(u.r)
  IN /\ u.phase = "toggle" /\ u.tgl.retries <= 0
     /\ u' = [u EXCEPT !.r = r, !.phase = IF lost THEN "failed" ELSE IF u.tgl.after THEN "done" ELSE "name"]
     /\ file' = IF lost THEN <<>> ELSE IF u.tgl.after THEN fprint_remotes(<<r>>) ELSE file
     /\ g' = flushhw(g)
     /\ UNCHANGED <<dev, tx, opts, presses>>
-----------------------------------------------------------------------------
(* get_button_name() and the checks of the name: a button of that name is  *)
(* forgotten first.                                                        *)
ncode_list_remove_name(list, n) ==
  LET at == {i \in DOMAIN list : list[i].name = n} IN
  IF at = {} THEN list ELSE RemoveAt(list, Min(at))
EnterName(n) ==
  LET ncodes == ncode_list_remove_name(u.ncodes, n) IN
  /\ u.phase = "name" /\ n # ""
  /\ u.names < MaxNames
  /\ u' = [u EXCEPT !.names = @ + 1, !.ncodes = ncodes, !.name = n, !.retries = RETRIES,
                    !.phase = IF n \in BadNames THEN "name" ELSE "data"]
  /\ g' = IF n \in BadNames THEN g ELSE [flushhw(g) EXCEPT !.last_remote = 0]
  /\ UNCHANGED <<dev, tx, opts, presses, file>>

(* STS_BTN_SOFT_ERROR and STS_BTN_TIMEOUT in get_button_data(). *)
retried_gives_up_button(x, cost) ==
  IF x.retries <= cost THEN [x EXCEPT !.phase = "name"] ELSE [x EXCEPT !.retries = @ - cost]

retried_uncounted(x, cost) == IF x.retries <= cost THEN [x EXCEPT !.phase = "failed"] ELSE x

retried(x, cost) ==
  IF x.retries <= cost THEN [x EXCEPT !.phase = "failed"] ELSE [x EXCEPT !.retries = @ - cost]
ncode_list_add(x, b) == [x EXCEPT !.ncodes = Append(@, b), !.phase = "name"]

(* A button: the first signal that can be decoded, and the one after it.   *)
(* A second code is stored when the second signal cannot be decoded; it    *)
(* stays in btn_state for the buttons that follow.                         *)
RECURSIVE first_decoded(_, _)
first_decoded(r, w) ==
  LET then(d) == IF d.ctx.ok \/ d.w.stuck THEN d ELSE first_decoded(r, d.w) IN
  IF w.line = <<>> THEN refused(w, g.st[1])
  ELSE then(receive_decode(r, rec_buffer_clear(w), g.st[1], <<>>, FALSE, FALSE))
second_code(r, w, code) ==
  LET tried(d) == [w |-> d.w, next |-> IF ~d.ctx.ok /\ d.ctx.code # code THEN <<d.ctx.code>> ELSE u.next] IN
  \* without data read() fails, and the code stays
  tried(receive_decode(r, IF ~mode2 /\ w.line = <<>> THEN w ELSE rec_buffer_clear(w),
                        g.st[1], <<>>, FALSE, FALSE))
record_second(d) ==
  [d |-> d, s |-> IF d.ctx.ok THEN second_code(u.r, d.w, d.ctx.code) ELSE [w |-> d.w, next |-> <<>>]]
recorded == record_second(first_decoded(u.r, g.w))
RecordButton ==
  /\ u.phase = "data" /\ ~opts.force /\ g.w.line # <<>>
  /\ \E x \in {recorded} :
       /\ ~x.d.w.stuck /\ ~x.s.w.stuck
       /\ \/ /\ x.d.ctx.ok
             /\ u' = ncode_list_add([u EXCEPT !.next = x.s.next],
                        [name |-> u.name, seq |-> <<x.d.ctx.code>> \o x.s.next, signals |-> <<>>])
             /\ g' = [g EXCEPT !.w = x.s.w]
          \/ /\ ~x.d.ctx.ok
             /\ u' = retried(u, 1)
             /\ g' = flushhw(resethw(g))
          \/ /\ ~x.d.ctx.ok             \* the hardware cannot be reset
             /\ u' = [u EXCEPT !.phase = "failed"]
             /\ g' = flushhw(g)
  /\ UNCHANGED <<dev, tx, opts, presses, file>>

(* A call that waits for the next datum. *)
blocked ==
  /\ g.w.line # <<>>
  /\ \/ /\ u.phase = "toggle" /\ u.tgl.retries > 0
        /\ \E t \in {toggle_press} : t.y.w.stuck \/ t.d.w.stuck
     \/ /\ u.phase = "data" /\ ~opts.force
        /\ \E x \in {recorded} : x.d.w.stuck \/ x.s.w.stuck

(* With -f: the data up to the next gap. *)
raw_data_ok(r, d, sum) ==
  /\ d.t = "s"
  /\ IF is_const(r) THEN d.n > (rest(r.gap, sum) * (100 - r.eps)) \div 100
     ELSE d.n > (r.gap * (100 - r.eps)) \div 100
RECURSIVE raw_signal(_, _, _)
raw_signal(r, line, sig) ==
  LET d == IF line = <<>> THEN [t |-> "s", n |-> r.gap] ELSE Head(line)
      sum == FoldLeft(LAMBDA x, y : x + y, 0, sig)
  IN IF Len(sig) + 1 >= MAX_SIGNALS THEN [ok |-> FALSE, sig |-> sig, line |-> line]
     ELSE IF raw_data_ok(r, d, sum)
     THEN [ok |-> Len(sig) % 2 = 1, sig |-> sig, line |-> IF line = <<>> THEN line ELSE Tail(line)]
     ELSE raw_signal(r, IF line = <<>> THEN line ELSE Tail(line), Append(sig, d.n))
RecordRaw ==
  LET d == Head(g.w.line)
      bad == d.t = "p" \/ d.n < u.r.gap - (u.r.gap * u.r.eps) \div 100
      s == raw_signal(u.r, Tail(g.w.line), <<>>)
  IN /\ u.phase = "data" /\ opts.force /\ g.w.line # <<>>
     /\ IF bad \/ ~s.ok
        THEN u' = retried(u, 1) /\ g' = flushhw(g)
        ELSE /\ u' = ncode_list_add(u, [name |-> u.name, seq |-> <<0>>, signals |-> s.sig])
             /\ g' = [g EXCEPT !.w.line = s.line]
     /\ UNCHANGED <<dev, tx, opts, presses, file>>

(* Without data for ten seconds; no_data makes it count twice. *)
DataTimeout ==
  /\ u.phase = "data" /\ g.w.line = <<>>
  /\ u' = retried(u, IF opts.force THEN 1 ELSE 2)
  /\ UNCHANGED <<dev, tx, opts, g, presses, file>>

(* An empty name: the buttons are written to the temporary file, read back *)
(* and the common bits taken out; then the toggle bits, or the file.       *)
read_back(mine) ==
  LET r == IF has_toggle_bit_mask(mine) THEN set_toggle_bit_mask(mine, mine.toggle_bit_mask, FALSE)
           ELSE mine
  IN IF opts.update THEN r ELSE get_post_data(get_pre_data(r))
finished(c) ==
  LET mine == c.rems[1]
      x == [u EXCEPT !.r = read_back(mine)]
  IN IF c.sts # "ok" THEN [u EXCEPT !.phase = "failed"]
     ELSE IF opts.force THEN [u EXCEPT !.r = mine, !.phase = "done"]
     ELSE IF ~has_toggle_bit_mask(mine) /\ opts.template = <<>> THEN toggle_phase(x, TRUE)
     ELSE [x EXCEPT !.phase = "done"]
Finish ==
  LET tmpfile == fprint_remote([u.r EXCEPT !.codes = u.ncodes]) IN
  /\ u.phase = "name"
  /\ \/ /\ is_raw(u.r)
        /\ u' = [u EXCEPT !.phase = "done"]
        /\ file' = tmpfile
        /\ UNCHANGED g
     \/ /\ ~is_raw(u.r)
        /\ u' = finished(read_config(no_disk, tmpfile))
        /\ file' = IF u'.phase = "done" THEN fprint_remotes(<<u'.r>>) ELSE file
        /\ g' = with_remote(flushhw(resethw(g)), u'.r)
     \/ /\ ~is_raw(u.r)          \* the hardware cannot be reset
        /\ u' = [u EXCEPT !.phase = "failed"]
        /\ UNCHANGED <<file, g>>
  /\ UNCHANGED <<dev, tx, opts, presses>>

(* The user holds a button: the pauses between presses differ. *)
signals(st, k, frames) ==
  IF mode2 THEN signals_of(dev, st, k, frames, FALSE)
  ELSE hardware_codes(dev, st, k, frames, Idle + presses * 5000)
Press(k, frames) ==
  /\ presses' = IF u.phase \in {"lengths", "gap"} THEN presses + 1 ELSE presses
  /\ \E s \in {signals(prepared(dev, tx, k), k, frames)} :
       /\ tx' = s.st
       /\ g' = [g EXCEPT !.w.line = @ \o (IF mode2 THEN space(g.w.waited + Idle + presses * 5000) ELSE <<>>)
                                      \o s.line]
  /\ UNCHANGED <<dev, opts, u, file>>

(* Lengths: different buttons in turn.  Toggle bits: one button, not held. *)
(* A button to record: the one of that name, again if nothing happens.      *)
button_named(n) == CHOOSE k \in DOMAIN dev.codes : dev.codes[k].name = n
PressAsTold ==
  \/ /\ u.phase = "lengths" /\ g.w.line = <<>>
     /\ \E frames \in HoldFrames : Press(1 + (presses % Len(dev.codes)), frames)
  \/ /\ u.phase = "gap" /\ g.w.line = <<>>
     /\ \E frames \in HoldFrames : Press(1, frames)
  \/ /\ g.w.line = <<>> \/ blocked
     /\ \/ u.phase = "toggle" /\ Press(1, 1)
        \/ u.phase = "data" /\ \E frames \in 1..MaxFrames : Press(button_named(u.name), frames)

(* With -f any signal after a pause would do: there the pause is missing.  *)
PressGarbled ==
  /\ u.phase = "data" /\ mode2
  /\ g.w.line = <<>>
  /\ g' = [g EXCEPT !.w.line = @ \o (IF opts.force THEN <<>> ELSE space(g.w.waited + Idle)) \o Noise]
  /\ UNCHANGED <<dev, tx, opts, u, presses, file>>

-----------------------------------------------------------------------------
Next ==
  \/ Start \/ HardwareFails
  \/ PressAsTold \/ PressGarbled
  \/ GetLengths \/ GetGap \/ GivesUp
  \/ GetToggleBitMask \/ ToggleBitsDone
  \/ \E n \in Names : EnterName(n)
  \/ RecordButton \/ RecordRaw \/ DataTimeout
  \/ Finish
  \/ u.phase \in ended /\ UNCHANGED vars

(* Every wait of the program has a timeout and the user answers: there is  *)
(* a next step until the program has ended.  (Next is enabled until then;  *)
(* said without ENABLED, which is costly here.)                            *)
Goes_on == []<><<TRUE>>_vars \/ <>[](u.phase \in ended)

Spec == Init /\ [][Next]_vars /\ Goes_on
-----------------------------------------------------------------------------
(* Properties *)

(* What a lircd with the definitions rems reports for one signal of button *)
(* k.                                                                      *)
reported(rems, k, toggled_bits) ==
  LET name(m) == IF m = <<>> THEN <<>>
                 ELSE <<rems[m[1].remote].name, rems[m[1].remote].codes[m[1].button].name>>
      heard(line) == receiver(rems, [g.w EXCEPT !.line = (IF mode2 THEN space(1000000) ELSE <<>>) \o line,
                                                !.data = <<>>, !.rptr = 0, !.waited = 0])
      st == [fresh(dev) EXCEPT !.toggle_bit_mask_state = toggled_bits]
  IN name(rec_func(rems, heard(signals(st, k, 1).line)).msg)
written == read_config(no_disk, file)

(* lircd reads the file irrecord has written, and reports every button     *)
(* under the name it was given, whichever toggle bits it sends             *)
(* (get_lengths(), record_buttons(), get_pre_data(), get_post_data(),      *)
(* get_toggle_bit_mask(), fprint_remote() and read_config() together; also *)
(* for -a).  Buttons with a second code are left out: it is stored when   *)
(* decoding it has failed.                                                 *)
RecordedWorks ==
  (u.phase = "done" /\ opts.test = {} /\ file # <<>>) =>
    LET r == written.rems[1] IN
    /\ written.sts = "ok"
    /\ \A b \in ToSet(r.codes) :
        Len(b.seq) = 1 =>
          \A bits \in {0, dev.toggle_bit_mask} :
            reported(<<r>>, button_named(b.name), bits) = <<r.name, b.name>>

(* The file that irrecord -t writes, with trailing pulses as bits, common  *)
(* bits moved, ones and zeroes exchanged, means the same to lircd as the   *)
(* file that was given: it reports the same for every button.              *)
ConvertedAlike ==
  (u.phase = "done" /\ opts.test # {}) =>
    \A k \in DOMAIN dev.codes : \A bits \in {0, dev.toggle_bit_mask} :
      reported(written.rems, k, bits) = reported(given.rems, k, bits)

(* What lircd.conf means: the text with the include lines replaced by what *)
(* they name, each remote of it read by itself, in the order of size.      *)
RECURSIVE inlined(_, _, _)
inlined(d, text, depth) ==
  LET of(line) == IF line = <<>> \/ line[1].w # "include" THEN <<line>>
                  ELSE IF depth > MAX_INCLUDES \/ line[2].w \notin DOMAIN d.glob THEN <<>>
                  ELSE FlattenSeq([i \in DOMAIN d.glob[line[2].w] |->
                                     inlined(d, d.files[d.glob[line[2].w][i]], depth + 1)])
  IN FlattenSeq([i \in DOMAIN text |-> of(text[i])])
defined_remotes(text) ==
  LET begun == SelectSeq([i \in DOMAIN text |-> i], LAMBDA i : text[i] = begins("remote"))
      end(i) == Min({j \in i..Len(text) : text[j] = ends("remote")})
  IN [k \in DOMAIN begun |-> read_config(no_disk, SubSeq(text, begun[k], end(begun[k]))).rems[1]]
in_order(rems) ==
  LET before(i, j) == remote_bits_cmp(rems[i], rems[j]) < (IF i < j THEN 1 ELSE 0)
      place(j) == 1 + Cardinality({i \in DOMAIN rems : before(i, j)})
  IN IF \E i \in DOMAIN rems : rems[i].manual_sort # 0 THEN rems
     ELSE [n \in DOMAIN rems |-> rems[CHOOSE j \in DOMAIN rems : place(j) = n]]

(* Every remote of lircd.conf and of the files it includes is in the list, *)
(* with its own definitions only and in the documented order, wherever     *)
(* between the remotes the include lines stand and however often a remote  *)
(* is gone through again after it was read (read_config_recursive(),       *)
(* ir_remotes_append(), sort_by_bit_count()).  Includes within a remote,   *)
(* which lose remotes, are not among the files.                            *)
ReadAsDefined ==
  (u.phase = "done" /\ opts.template # <<>>) =>
    given.rems = in_order(defined_remotes(inlined(opts.disk, opts.template, 0)))

(* What was read, written and read again is what was read, apart from the  *)
(* flag that remembers REVERSE (fprint_remotes(), read_config()).          *)
RoundTrip ==
  (u.phase = "done" /\ opts.template # <<>>) =>
    LET plain(r) == [r EXCEPT !.flags = @ \ {"COMPAT_REVERSE"}] IN
    read_config(no_disk, fprint_remotes(given.rems)).rems = [i \in DOMAIN given.rems |-> plain(given.rems[i])]

(* With -u, the buttons of the file that was given are in the file that is *)
(* written: get_button_name() forgets a button before it is recorded       *)
(* anew, and every way out of get_button_data() that does not record it    *)
(* must not write the file.  (A button whose name is refused the second    *)
(* time it is typed, BadNames, is lost with its first code.)               *)
UpdateKeeps ==
  (u.phase = "done" /\ opts.update) =>
    {b.name : b \in ToSet(given.rems[1].codes)} \ BadNames \subseteq
      {b.name : b \in ToSet(written.rems[1].codes)}

(* The program comes to an end, whatever the user does or does not press:  *)
(* every wait has a timeout and every retry is counted.                    *)
Ends == <>(u.phase \in ended)
=============================================================================
