------------------------------ MODULE Transmit ------------------------------
(***************************************************************************)
(* The transmit buffer: lib/transmit.c.  The global send_buffer is a       *)
(* record t; data are the lengths, pulse first, and pend what has not been *)
(* added yet because the next length may be of the same kind.              *)
(***************************************************************************)
EXTENDS IrRemote

CONSTANT WBUF_SIZE
ASSUME WBufAssumption == WBUF_SIZE \in Nat \ {0}

LIRCD_EXACT_GAP_THRESHOLD == 10000

clear_send_buffer ==
  [data |-> <<>>, too_long |-> FALSE, pendingp |-> 0, pendings |-> 0, sum |-> 0, own |-> TRUE]

add_send_buffer(t, data) ==
  IF Len(t.data) < WBUF_SIZE THEN [t EXCEPT !.data = Append(@, data), !.sum = @ + data]
  ELSE [t EXCEPT !.too_long = TRUE]
add_pulse(t) ==
  IF t.pendingp > 0 THEN [add_send_buffer(t, t.pendingp) EXCEPT !.pendingp = 0] ELSE t
add_space(t) ==
  IF t.pendings > 0 THEN [add_send_buffer(t, t.pendings) EXCEPT !.pendings = 0] ELSE t

send_pulse(t, data) ==
  IF t.pendingp > 0 THEN [t EXCEPT !.pendingp = @ + data]
  ELSE [add_space(t) EXCEPT !.pendingp = data]
send_space(t, data) ==
  IF t.data = <<>> /\ t.pendingp = 0 THEN t   \* "first signal is a space!"
  ELSE IF t.pendings > 0 THEN [t EXCEPT !.pendings = @ + data]
  ELSE [add_pulse(t) EXCEPT !.pendings = data]
send_pair(t, p, s) == send_space(send_pulse(t, p), s)
send_pair_space_first(t, p, s) == send_pulse(send_space(t, s), p)

bad_send_buffer(t) == t.too_long \/ (Len(t.data) = WBUF_SIZE /\ t.pendingp > 0)
check_send_buffer(t) == t.data # <<>> /\ \A i \in DOMAIN t.data : t.data[i] # 0
flush_send_buffer(t) == add_space(add_pulse(t))
sync_send_buffer(t) ==
  LET ends(x) == IF x.data # <<>> /\ Len(x.data) % 2 = 0
                 THEN [x EXCEPT !.data = SubSeq(@, 1, Len(@) - 1)] ELSE x
  IN ends(add_pulse(t))

send_header(r, t) == IF has_header(r) THEN send_pair(t, r.phead, r.shead) ELSE t
send_foot(r, t) == IF has_foot(r) THEN send_pair_space_first(t, r.pfoot, r.sfoot) ELSE t
send_lead(r, t) == IF r.plead # 0 THEN send_pulse(t, r.plead) ELSE t
send_trail(r, t) == IF r.ptrail # 0 THEN send_pulse(t, r.ptrail) ELSE t

(* send_data(): position m of a bit counts from the end of the whole code, *)
(* as mask does; the toggle bits replace (one bit) or invert (several) the *)
(* bits of the code.                                                       *)
sent_bit(r, st, v, m) ==
  LET toggles == bit(r.toggle_bit_mask, m) = 1
      state == bit(st.toggle_bit_mask_state, m)
      v1 == IF ~toggles THEN v
            ELSE IF bits_set(r.toggle_bit_mask) = 1 THEN state ELSE (v + state) % 2
  IN IF bit(r.toggle_mask, m) = 1 /\ st.toggle_mask_state % 2 = 1 THEN 1 - v1 ELSE v1

send_bit(r, t, v, m) ==
  LET f == IF bit(r.rc6_mask, m) = 1 THEN 2 ELSE 1   \* 2 for a bi-phase remote only
      p == f * (IF v = 1 THEN r.pone ELSE r.pzero)
      s == f * (IF v = 1 THEN r.sone ELSE r.szero)
      space_first == IF v = 1 THEN is_biphase(r) \/ is_space_first(r) ELSE f = 1 /\ is_space_first(r)
  IN IF space_first THEN send_pair_space_first(t, p, s) ELSE send_pair(t, p, s)

send_symbol(r, t, v) ==
  LET s == IF is_xmp(r) THEN r.szero + v * r.sone ELSE <<r.szero, r.sone, r.stwo, r.sthree>>[v + 1] IN
  send_pair(t, IF is_xmp(r) THEN r.pzero ELSE <<r.pzero, r.pone, r.ptwo, r.pthree>>[v + 1], s)

bits_at_once(r) == IF is_rcmm(r) THEN 2 ELSE IF is_xmp(r) THEN 4 ELSE 1
send_value(r, st, t, v, m) ==
  IF bits_at_once(r) = 1 THEN send_bit(r, t, sent_bit(r, st, v, m), m) ELSE send_symbol(r, t, v)
RECURSIVE send_units(_, _, _, _, _, _)
send_units(r, st, t, data, bits, done) ==
  LET unit == bits_at_once(r) IN
  IF bits <= 0 THEN t
  ELSE send_units(r, st, send_value(r, st, t, (data \div 2^(bits - unit)) % 2^unit,
                                    bit_count(r) - 1 - done),
                  data, bits - unit, done + unit)

send_data(r, st, t, data, bits, done) ==
  IF bits % bits_at_once(r) # 0 \/ done % bits_at_once(r) # 0 THEN t
  ELSE send_units(r, st, t, data, bits, done)

send_pre(r, st, t) ==
  LET gap(x) == IF r.pre_p > 0 /\ r.pre_s > 0 THEN send_pair(x, r.pre_p, r.pre_s) ELSE x IN
  IF has_pre(r) THEN gap(send_data(r, st, t, r.pre_data, r.pre_data_bits, 0)) ELSE t
send_post(r, st, t) ==
  IF ~has_post(r) THEN t
  ELSE send_data(r, st, IF r.post_p > 0 /\ r.post_s > 0 THEN send_pair(t, r.post_p, r.post_s) ELSE t,
                 r.post_data, r.post_data_bits, r.pre_data_bits + r.bits)

send_repeat(r, t) == send_trail(r, send_pair(send_lead(r, t), r.prepeat, r.srepeat))

send_body(r, st, t, code) ==
  send_trail(r, send_post(r, st, send_data(r, st, send_pre(r, st, send_lead(r, t)),
                                           code, r.bits, r.pre_data_bits)))
send_code(r, st, t, code, repeat) ==
  LET head(x) == IF ~repeat \/ "NO_HEAD_REP" \notin r.flags THEN send_header(r, x) ELSE x
      foot(x) == IF ~repeat \/ "NO_FOOT_REP" \notin r.flags THEN send_foot(r, x) ELSE x
      sum(x) == IF ~repeat /\ {"NO_HEAD_REP", "CONST_LENGTH"} \subseteq r.flags
                THEN [x EXCEPT !.sum = @ - (r.phead + r.shead)] ELSE x
  IN sum(foot(send_body(r, st, head(t), code)))

-----------------------------------------------------------------------------
(* init_send_or_sim(): the signal of button k, with the repeats that       *)
(* follow it closely.  The result is ok, the buffer and the state of the   *)
(* remote.                                                                 *)
RECURSIVE send_signals(_, _)
send_signals(t, signals) ==
  IF signals = <<>> THEN t ELSE send_signals(add_send_buffer(t, Head(signals)), Tail(signals))
total(signals) == MapThenSumSet(LAMBDA i : signals[i], DOMAIN signals)

one_signal(r, st, t, k, repeat, sim) ==
  LET b == r.codes[k]
      plain == IF sim \/ st.transmit_state[k] = 0 THEN b.seq[1] ELSE b.seq[st.transmit_state[k] + 1]
      code == IF repeat /\ has_repeat_mask(r) THEN plain ^^ r.repeat_mask ELSE plain
  IN IF repeat /\ has_repeat(r)
     THEN send_repeat(r, IF "REPEAT_HEADER" \in r.flags THEN send_header(r, t) ELSE t)
     ELSE IF ~is_raw(r) THEN [send_code(r, st, t, code, repeat) EXCEPT !.own = TRUE]
     ELSE IF t.data # <<>> THEN send_signals(t, b.signals)
     ELSE [t EXCEPT !.data = b.signals, !.own = FALSE, !.sum = @ + total(b.signals)]

toggled(r, st, repeat, sim) ==
  IF sim \/ ~has_toggle_mask(r) \/ is_raw(r) \/ (repeat /\ has_repeat(r)) THEN st
  ELSE [st EXCEPT !.toggle_mask_state = IF @ = 3 THEN 2 ELSE @ + 1]

gap_fails(r, t, repeat) ==
  /\ ~(has_repeat_gap(r) /\ repeat /\ has_repeat(r))
  /\ is_const(r) /\ min_gap(r) <= t.sum
set_gaps(r, st, t, repeat) ==
  LET used == IF is_const(r) /\ min_gap(r) > t.sum THEN t.sum ELSE 0 IN
  IF has_repeat_gap(r) /\ repeat /\ has_repeat(r)
  THEN [st EXCEPT !.min_remaining_gap = r.repeat_gap, !.max_remaining_gap = r.repeat_gap]
  ELSE [st EXCEPT !.min_remaining_gap = min_gap(r) - used,
                  !.max_remaining_gap = max_gap(r) - used]

next_transmit_state(r, st, k) ==
  LET b == r.codes[k]
      n == get_next_ir_code_node(b, st.transmit_state[k])
  IN [st EXCEPT !.transmit_state[k] =
        IF n = 0 /\ is_xmp(r) /\ @ # 0 THEN get_next_ir_code_node(b, 0) ELSE n]

RECURSIVE init_send_loop(_, _, _, _, _, _)
(* A repeat that has to follow closely goes into the same buffer. *)
unrolled(t) == IF t.own THEN t ELSE send_signals([t EXCEPT !.data = <<>>, !.own = TRUE], t.data)
joined_gap(t, gap) == [flush_send_buffer(send_space(unrolled(t), gap)) EXCEPT !.sum = 0]
signal_sent(r, st, t, k) ==
  LET done == st.transmit_state[k] = 0 IN
  IF /\ st.repeat_countdown > 0 \/ ~done
     /\ st.min_remaining_gap < LIRCD_EXACT_GAP_THRESHOLD
  THEN init_send_loop(r, [st EXCEPT !.repeat_countdown = IF done THEN @ - 1 ELSE @],
                      joined_gap(t, st.min_remaining_gap), k, TRUE, FALSE)
  ELSE [ok |-> check_send_buffer(t), t |-> t, st |-> st]
signal_put(r, st, t, k, repeat, sim) ==
  IF bad_send_buffer(t) THEN [ok |-> FALSE, t |-> t, st |-> st]
  ELSE IF sim THEN [ok |-> check_send_buffer(t), t |-> t, st |-> st]
  ELSE IF gap_fails(r, t, repeat) THEN [ok |-> FALSE, t |-> t, st |-> set_gaps(r, st, t, repeat)]
  ELSE signal_sent(r, next_transmit_state(r, set_gaps(r, st, t, repeat), k), t, k)
init_send_loop(r, st, t, k, repeat, sim) ==
  IF is_raw(r) /\ ~(repeat /\ has_repeat(r)) /\ r.codes[k].signals = <<>>
  THEN [ok |-> FALSE, t |-> t, st |-> st]
  ELSE signal_put(r, toggled(r, st, repeat, sim),
                  sync_send_buffer(one_signal(r, st, t, k, repeat, sim)), k, repeat, sim)

(* A remote named "lirc" sends the mark of the end, and nothing is done to *)
(* its state. *)
LIRC_EOF == 134217728
init_send_or_sim(r, st, k, repeat, sim) ==
  CASE is_grundig(r) \/ is_serial(r) \/ is_bo(r) -> [ok |-> FALSE, t |-> clear_send_buffer, st |-> st]
    [] ~(is_grundig(r) \/ is_serial(r) \/ is_bo(r)) /\ r.name = "lirc" ->
         [ok |-> TRUE, t |-> [clear_send_buffer EXCEPT !.data = <<LIRC_EOF + 1>>], st |-> st]
    [] OTHER -> init_send_loop(r, IF sim \/ repeat THEN st ELSE [st EXCEPT !.repeat_countdown = r.min_repeat],
                               clear_send_buffer, k, repeat, sim)
send_buffer_put(r, st, k, repeating) == init_send_or_sim(r, st, k, repeating, FALSE)
init_sim(r, st, k, repeat) == init_send_or_sim(r, st, k, repeat, TRUE)

(* calculate_signal_lengths() of config_file.c: a trial run of every code, *)
(* plain and repeated, gives the range of the lengths of a signal.         *)
sim_sums(runs) == {x.t.sum : x \in {y \in runs : y.ok /\ y.t.sum # 0}}
signal_lengths(r, sums) ==
  IF sums = {} THEN [r EXCEPT !.min_gap_length = min_gap(r), !.max_total_signal_length = max_gap(r)]
  ELSE IF is_const(r)
  THEN [r EXCEPT !.min_gap_length = larger(min_gap(r) - Max(sums), 0),
                 !.max_total_signal_length = max_gap(r)]
  ELSE [r EXCEPT !.min_gap_length = min_gap(r), !.max_total_signal_length = Max(sums) + max_gap(r)]
calculate_signal_lengths(r) ==
  LET plain(k, j) == [r EXCEPT !.codes[k].seq = <<r.codes[k].seq[j]>>] IN
  signal_lengths(r, sim_sums({init_sim(plain(k, j), fresh(r), k, repeat) :
                                <<k, j, repeat>> \in {x \in (1..Len(r.codes)) \X (1..3) \X BOOLEAN :
                                                        x[2] <= Len(r.codes[x[1]].seq)}}))
=============================================================================
