------------------------------- MODULE Sender -------------------------------
(***************************************************************************)
(* What a press of a button puts on the line: sent by lircd                *)
(* (send_ir_ncode()), by a remote control of a protocol lircd cannot send, *)
(* or as the codes of a receiver that decodes in hardware.                 *)
(***************************************************************************)
EXTENDS Transmit, SequencesExt

(* A buffer as the line carries it. *)
on_line(data) == [j \in DOMAIN data |-> [t |-> IF j % 2 = 1 THEN "p" ELSE "s", n |-> data[j]]]
space(n) == <<[t |-> "s", n |-> n]>>

(* send_ir_ncode() for the first signal and for the repeats; between two   *)
(* signals there is the remaining gap.                                     *)
RECURSIVE signals_of(_, _, _, _, _)
signals_from(r, s, k, frames) ==
  LET st == [s.st EXCEPT !.last_code = k]
      followed(more) == [more EXCEPT !.line = on_line(s.t.data) \o space(st.min_remaining_gap) \o @]
  IN IF ~s.ok THEN [ok |-> FALSE, line |-> <<>>, st |-> s.st]
     ELSE IF frames = 1 THEN [ok |-> TRUE, line |-> on_line(s.t.data), st |-> st]
     ELSE followed(signals_of(r, st, k, frames - 1, TRUE))
signals_of(r, st, k, frames, repeating) ==
  signals_from(r, send_buffer_put(r, st, k, repeating), k, frames)

prepared(r, st, k) ==
  [st EXCEPT !.toggle_mask_state = IF has_toggle_mask(r) THEN 0 ELSE @,
             !.toggle_bit_mask_state =
                IF has_toggle_bit_mask(r) THEN @ ^^ r.toggle_bit_mask ELSE @,
             !.transmit_state[k] = 0]

(* The remotes lircd cannot send: what the device itself transmits. *)
RECURSIVE sent_grundig(_, _, _, _)
sent_grundig(r, t, code, bits) ==
  LET symbols == <<<<3>>, <<2, 0>>, <<1, 1>>, <<0, 2>>>>[((code \div 2^(bits - 2)) % 4) + 1]
      pair(x, m) == send_pair_space_first(x, <<r.pzero, r.pone, r.ptwo, r.pthree>>[m + 1],
                                             <<r.szero, r.sone, r.stwo, r.sthree>>[m + 1])
      one == pair(t, symbols[1])
  IN IF bits = 0 THEN t
     ELSE sent_grundig(r, IF Len(symbols) = 2 THEN pair(one, symbols[2]) ELSE one, code, bits - 2)
RECURSIVE sent_bo(_, _, _, _, _)
sent_bo(r, t, code, bits, lastbit) ==
  LET v == bit(code, bits - 1)
      m == IF v = 0 THEN (IF lastbit = 1 THEN 1 ELSE 2) ELSE (IF lastbit = 1 THEN 2 ELSE 3)
  IN IF bits = 0 THEN t
     ELSE sent_bo(r, send_pair(t, <<r.pzero, r.pone, r.ptwo, r.pthree>>[m + 1],
                                  <<r.szero, r.sone, r.stwo, r.sthree>>[m + 1]), code, bits - 1, v)
sent_byte(r, t, byte) ==
  LET n == r.bits_in_byte
      ones == bits_set(byte)
      parity == IF r.parity = "none" THEN <<>>
                ELSE <<IF r.parity = "even" THEN ones % 2 ELSE 1 - (ones % 2)>>
      bits == [j \in 1..n |-> bit(byte, j - 1)] \o parity
  IN send_space(FoldLeft(LAMBDA x, v : IF v = 1 THEN send_space(x, r.sone) ELSE send_pulse(x, r.pzero),
                         send_pulse(t, serial_base(r)), bits), serial_stop(r))
device_signal(r, k) ==
  LET code == r.codes[k].seq[1]
      bo_start == send_pair(send_pair(clear_send_buffer, r.pone, r.sone), r.pone, r.sone)
  IN sync_send_buffer(
       IF is_grundig(r) THEN sent_grundig(r, send_lead(r, clear_send_buffer), code, r.bits)
       ELSE IF is_bo(r)
       THEN send_trail(r, sent_bo(r, send_header(r, bo_start), code, r.bits, 1))
       ELSE sent_byte(r, clear_send_buffer, code))
device_signals(r, st, k, frames) ==
  LET line(one) == FlattenSeq([j \in 1..frames |-> IF j = 1 THEN one ELSE space(r.gap) \o one]) IN
  [ok |-> TRUE, line |-> line(on_line(device_signal(r, k).data)),
   st |-> [st EXCEPT !.min_remaining_gap = r.gap, !.max_remaining_gap = r.gap]]

(* What a receiver that decodes in hardware makes of it: the bits sent,    *)
(* with the time since the signal before.                                  *)
hardware_codes(r, st, k, frames, idle) ==
  LET all == gen_ir_code(r, r.pre_data, r.codes[k].seq[1], r.post_data)
      code == MapThenSumSet(LAMBDA m : sent_bit(r, st, bit(all, m), m) * 2^m, 0..(bit_count(r) - 1))
  IN [ok |-> TRUE, st |-> st,
      line |-> [j \in 1..frames |-> [t |-> "code", n |-> code, dt |-> IF j = 1 THEN idle ELSE r.gap]]]
=============================================================================
