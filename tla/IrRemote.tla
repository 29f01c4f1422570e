------------------------------ MODULE IrRemote ------------------------------
(***************************************************************************)
(* A remote of lircd.conf and what the daemon knows about it:              *)
(* lib/ir_remote.h and lib/ir_remote.c.                                    *)
(*                                                                         *)
(* A remote r is a record with the fields of struct ir_remote that the     *)
(* file sets; what changes while the daemon runs is a record st of its     *)
(* own, made by fresh(r).  A button is a record [name, seq, signals]: seq   *)
(* is the code of the button followed by those of its ir_code_node list,   *)
(* signals its raw signal.  A node is its position in that list, 0 is the  *)
(* null pointer; a button is its position in r.codes, and the two dynamic  *)
(* codes come after them.  Times are microseconds.                         *)
(***************************************************************************)
EXTENDS Integers, Sequences, FiniteSets, FiniteSetsExt, Bitwise, TLC

CONSTANTS
  resolution,  \* curr_driver->resolution
  dyncodes     \* --dynamic-codes

(* What a definition of lircd.conf starts from: config_file.c fills the    *)
(* record with zeroes before it reads the remote.                          *)
no_remote ==
  [name |-> "", proto |-> "SPACE_ENC", flags |-> {}, codes |-> <<>>,
   eps |-> 30, aeps |-> 100,
   phead |-> 0, shead |-> 0, pthree |-> 0, sthree |-> 0, ptwo |-> 0, stwo |-> 0,
   pone |-> 0, sone |-> 0, pzero |-> 0, szero |-> 0, plead |-> 0, ptrail |-> 0,
   pfoot |-> 0, sfoot |-> 0, prepeat |-> 0, srepeat |-> 0,
   pre_data_bits |-> 0, pre_data |-> 0, post_data_bits |-> 0, post_data |-> 0,
   pre_p |-> 0, pre_s |-> 0, post_p |-> 0, post_s |-> 0, bits |-> 0,
   gap |-> 0, gap2 |-> 0, repeat_gap |-> 0, toggle_mask |-> 0,
   toggle_bit_mask |-> 0, rc6_mask |-> 0, ignore_mask |-> 0, repeat_mask |-> 0,
   suppress_repeat |-> 0, min_repeat |-> 0, min_code_repeat |-> 0,
   baud |-> 0, bits_in_byte |-> 8, parity |-> "none", stop_bits |-> 2,
   freq |-> 38000, duty_cycle |-> 0, driver |-> "", manual_sort |-> 0, toggle_bit |-> 0,
   min_gap_length |-> 0, max_total_signal_length |-> 0]
(* A struct ir_remote that is all zero. *)
blank == [no_remote EXCEPT !.proto = "none", !.eps = 0, !.aeps = 0, !.bits_in_byte = 0,
                           !.stop_bits = 0, !.freq = 0]

(* The toggle bits to transmit first are those of the first button,        *)
(* inverted, so that a single one starts from 0.                           *)
first_toggle_state(r) ==
  LET set == r.codes[1].seq[1] & r.toggle_bit_mask IN
  IF r.proto = "RAW_CODES" \/ r.codes = <<>> \/ set = 0 THEN 0 ELSE set ^^ r.toggle_bit_mask

fresh(r) ==
  [reps |-> 0, toggle_mask_state |-> 0, toggle_bit_mask_state |-> first_toggle_state(r),
   toggle_code |-> 0, last_code |-> 0, last_send |-> 0, repeat_countdown |-> 0,
   min_remaining_gap |-> 0, max_remaining_gap |-> 0, release_detected |-> FALSE,
   current |-> [k \in 1..Len(r.codes) |-> 0],
   transmit_state |-> [k \in 1..Len(r.codes) |-> 0],
   dyncode |-> 0, dyn |-> <<0, 0>>]

-----------------------------------------------------------------------------
(* The predicates of ir_remote.h *)
is_raw(r) == r.proto = "RAW_CODES"
is_space_first(r) == r.proto = "SPACE_FIRST"
is_rcmm(r) == r.proto = "RCMM"
is_grundig(r) == r.proto = "GRUNDIG"
is_bo(r) == r.proto = "BO"
is_serial(r) == r.proto = "SERIAL"
is_xmp(r) == r.proto = "XMP"
is_biphase(r) == r.proto \in {"RC5", "RC6"} \/ r.rc6_mask > 0
is_const(r) == "CONST_LENGTH" \in r.flags
has_repeat(r) == r.prepeat > 0 /\ r.srepeat > 0
has_repeat_gap(r) == r.repeat_gap > 0
has_pre(r) == r.pre_data_bits > 0
has_post(r) == r.post_data_bits > 0
has_header(r) == r.phead > 0 /\ r.shead > 0
has_foot(r) == r.pfoot > 0 /\ r.sfoot > 0
serial_base(r) == 1000000 \div r.baud
serial_stop(r) == (serial_base(r) * r.stop_bits) \div 2
has_toggle_bit_mask(r) == r.toggle_bit_mask > 0
has_ignore_mask(r) == r.ignore_mask > 0
has_repeat_mask(r) == r.repeat_mask > 0
has_toggle_mask(r) == r.toggle_mask > 0
min_gap(r) == IF r.gap2 # 0 /\ r.gap2 < r.gap THEN r.gap2 ELSE r.gap
max_gap(r) == IF r.gap2 > r.gap THEN r.gap2 ELSE r.gap

(* Comparing a measured length with the one of the file: either tolerance  *)
(* will do.                                                                *)
larger(a, b) == IF a > b THEN a ELSE b
aeps(r) == larger(resolution, r.aeps)
expect(r, delta, exdelta) ==
  LET off == IF exdelta > delta THEN exdelta - delta ELSE delta - exdelta IN
  off <= (exdelta * r.eps) \div 100 \/ off <= aeps(r)
expect_at_least(r, delta, exdelta) ==
  delta + (exdelta * r.eps) \div 100 >= exdelta \/ delta + aeps(r) >= exdelta
expect_at_most(r, delta, exdelta) ==
  delta <= exdelta + (exdelta * r.eps) \div 100 \/ delta <= exdelta + aeps(r)
upper_limit(r, val) == larger((val * (100 + r.eps)) \div 100, val + aeps(r))

(* Codes as bits *)
bit_count(r) == r.pre_data_bits + r.bits + r.post_data_bits
bit(data, i) == (data \div 2^i) % 2
bits_set(data) == Cardinality({i \in 0..30 : bit(data, i) = 1})
reverse(data, n) == MapThenSumSet(LAMBDA i : bit(data, i) * 2^(n - 1 - i), 0..(n - 1))
gen_mask(n) == 2^n - 1
gen_ir_code(r, pre, code, post) ==
  (((pre & gen_mask(r.pre_data_bits)) * 2^r.bits
     + (IF is_raw(r) THEN code ELSE code & gen_mask(r.bits))) * 2^r.post_data_bits)
    + (post & gen_mask(r.post_data_bits))

(* The nodes of a button *)
get_ir_code(b, node) == IF Len(b.seq) > 1 /\ node # 0 THEN b.seq[node + 1] ELSE b.seq[1]
get_next_ir_code_node(b, node) == IF node + 2 <= Len(b.seq) THEN node + 1 ELSE 0

-----------------------------------------------------------------------------
(* Which button a received code belongs to.                                *)
match_ir_code(r, a, b) ==
  \/ (r.ignore_mask | a) = (r.ignore_mask | b)
  \/ (r.ignore_mask | a) = (r.ignore_mask | (b ^^ r.toggle_bit_mask))

code_all(r, b, node) == gen_ir_code(r, r.pre_data, get_ir_code(b, node), r.post_data)

(* The position in a sequence of codes after one that does not continue    *)
(* it: the longest part of what was received that is a beginning of the    *)
(* sequence and is continued by this code.  flag is never set again in the *)
(* loop, so that one part that fails to fit ends the search.               *)
fits(b, cur, search) ==
  \A j \in 0..(cur - search - 1) : get_ir_code(b, j) = get_ir_code(b, search + j)
find_longest_match(r, b, cur, all) ==
  LET tried == {s \in 1..cur : /\ \A t \in 1..s : fits(b, cur, t)
                               /\ match_ir_code(r, code_all(r, b, cur - s), all)}
  IN IF tried = {} THEN [matched |-> FALSE, node |-> 0]
     ELSE [matched |-> TRUE, node |-> get_next_ir_code_node(b, cur - Min(tried))]
-----------------------------------------------------------------------------
(* get_code(): pre and post data have to be right, apart from toggled and  *)
(* ignored bits; then every button of the remote sees the code, and moves  *)
(* in its own sequence.                                                    *)
part_mask(r, mask, part) ==
  IF part = "pre" THEN shiftR(mask, r.bits + r.post_data_bits)
  ELSE IF part = "code" THEN shiftR(mask, r.post_data_bits) & gen_mask(r.bits)
  ELSE mask & gen_mask(r.post_data_bits)
tolerated(r, part) ==
  (IF has_toggle_bit_mask(r) THEN part_mask(r, r.toggle_bit_mask, part) ELSE 0)
    | (IF has_ignore_mask(r) THEN part_mask(r, r.ignore_mask, part) ELSE 0)
same_apart(a, b, mask) == (a | mask) = (b | mask)

(* The second signal of a pair whose bits alternate (toggle_mask). *)
untoggled(r, st, ctx) ==
  IF has_toggle_mask(r) /\ st.toggle_mask_state % 2 = 1
  THEN [ctx EXCEPT !.pre = @ ^^ part_mask(r, r.toggle_mask, "pre"),
                   !.code = @ ^^ part_mask(r, r.toggle_mask, "code"),
                   !.post = @ ^^ part_mask(r, r.toggle_mask, "post")]
  ELSE ctx

(* One button: whether the code is its next one, and where its sequence    *)
(* stands afterwards.                                                      *)
button_step(r, b, cur, all, repeat_flag) ==
  LET direct(want) == \/ match_ir_code(r, want, all)
                      \/ /\ repeat_flag
                         /\ has_repeat_mask(r)
                         /\ match_ir_code(r, want, all ^^ r.repeat_mask)
  IN IF direct(code_all(r, b, cur))
     THEN [matched |-> TRUE, direct |-> TRUE, node |-> get_next_ir_code_node(b, cur)]
     ELSE find_longest_match(r, b, cur, all) @@ [direct |-> FALSE]

(* The button found: matches replace one another until one completes its   *)
(* code; have_code is only set by a direct match.                          *)
found_button(steps) ==
  LET hits == {k \in DOMAIN steps : steps[k].matched}
      complete == {k \in hits : steps[k].direct /\ steps[k].node = 0}
      seen == IF complete = {} THEN hits ELSE {k \in hits : k <= Min(complete)}
  IN IF hits = {} THEN 0 ELSE Max(seen)

dyncode_step(st, code) ==
  LET d == IF st.dyn[st.dyncode + 1] # code THEN (st.dyncode + 1) % 2 ELSE st.dyncode
  IN [st EXCEPT !.dyncode = d, !.dyn[d + 1] = code]

(* get_code(): the button, 0 for none, the toggle bits and the new state.  *)
(* all is the whole code, steps what the buttons made of it.               *)
right_parts(r, ctx) ==
  /\ has_pre(r) => same_apart(ctx.pre, r.pre_data, tolerated(r, "pre"))
  /\ has_post(r) => same_apart(ctx.post, r.post_data, tolerated(r, "post"))
whole(r, ctx) ==
  gen_ir_code(r, ctx.pre, ctx.code, ctx.post)
    ^^ (IF ctx.repeat_flag /\ has_repeat_mask(r) THEN r.repeat_mask ELSE 0)
code_found(r, st0, st, found, all) ==
  LET second == has_toggle_mask(r) /\ st0.toggle_mask_state % 2 = 1 IN
  [found |-> IF second /\ found # st0.toggle_code THEN 0 ELSE found,
   toggle |-> all & r.toggle_bit_mask,
   st |-> IF found # 0 /\ has_toggle_mask(r)
          THEN [st EXCEPT !.toggle_code = IF second THEN 0 ELSE found] ELSE st]
code_seen(r, st, code, all, steps, button) ==
  LET stepped == [st EXCEPT !.current = [k \in DOMAIN steps |-> steps[k].node]]
      dyn == dyncode_step(stepped, code)
  IN IF button = 0 /\ dyncodes THEN code_found(r, st, dyn, Len(r.codes) + 1 + dyn.dyncode, all)
     ELSE code_found(r, st, stepped, button, all)
code_tried(r, st, ctx, all, steps) == code_seen(r, st, ctx.code, all, steps, found_button(steps))
code_read(r, st, ctx, all) ==
  IF right_parts(r, ctx)
  THEN code_tried(r, st, ctx, all, [k \in 1..Len(r.codes) |->
         button_step(r, r.codes[k], st.current[k], all, ctx.repeat_flag)])
  ELSE [found |-> 0, toggle |-> 0, st |-> st]
plain_code(r, st, ctx) == code_read(r, st, ctx, whole(r, ctx))
get_code(r, st, ctx) == plain_code(r, st, untoggled(r, st, ctx))

-----------------------------------------------------------------------------
(* set_code(): repeat or new press, and the code reported. *)
seq_of(r, k) == IF k <= Len(r.codes) THEN r.codes[k].seq ELSE <<0>>
node_of(r, st, k) == IF k <= Len(r.codes) THEN st.current[k] ELSE 0
code_of(r, st, k) == IF k <= Len(r.codes) THEN r.codes[k].seq[1] ELSE st.dyn[k - Len(r.codes)]

LONGEST_REPEAT == 1000000

is_repeat(r, st, k, toggle, ctx, decoded_last, now) ==
  /\ decoded_last
  /\ k = st.last_code \/ node_of(r, st, k) # 0
  /\ ctx.repeat_flag /\ ~st.release_detected
  /\ now - st.last_send < LONGEST_REPEAT
  /\ has_toggle_bit_mask(r) => toggle = st.toggle_bit_mask_state

counted(r, st, k) ==
  IF has_toggle_mask(r)
  THEN IF st.toggle_mask_state = 3
       THEN [st EXCEPT !.reps = @ + 1, !.toggle_mask_state = 2]
       ELSE [st EXCEPT !.toggle_mask_state = @ + 1]
  ELSE [st EXCEPT !.reps = IF node_of(r, st, k) = 0 THEN @ + 1 ELSE @]

first(r, st, k, toggle) ==
  [st EXCEPT !.reps = IF Len(seq_of(r, k)) > 1 /\ node_of(r, st, k) = 0 THEN 1 ELSE 0,
             !.toggle_mask_state = IF has_toggle_mask(r) THEN 1 ELSE @,
             !.toggle_code = IF has_toggle_mask(r) THEN k ELSE @,
             !.toggle_bit_mask_state = IF has_toggle_bit_mask(r) THEN toggle ELSE @]

set_code(r, st, k, toggle, ctx, decoded_last, now) ==
  LET st1 == IF is_repeat(r, st, k, toggle, ctx, decoded_last, now)
             THEN counted(r, st, k) ELSE first(r, st, k, toggle)
  IN [st1 EXCEPT !.release_detected = FALSE,
                 !.last_code = IF node_of(r, st, k) = 0 THEN k ELSE @,
                 !.last_send = now,
                 !.min_remaining_gap = ctx.min_remaining_gap,
                 !.max_remaining_gap = ctx.max_remaining_gap]

reported_code(r, st, k) ==
  LET code == gen_ir_code(r, r.pre_data, code_of(r, st, k), r.post_data) IN
  IF "COMPAT_REVERSE" \in r.flags THEN reverse(code, bit_count(r)) ELSE code
=============================================================================
