------------------------------- MODULE Lengths -------------------------------
(***************************************************************************)
(* How irrecord finds the gap, the protocol and the lengths of a remote    *)
(* from the pulses and spaces of many presses: get_lengths() of            *)
(* lib/irrecord.c and what it calls.                                       *)
(*                                                                         *)
(* The static variables of irrecord.c, the struct lengths_state and the    *)
(* remote under construction are one record a.  A list of struct lengths   *)
(* is a sequence; the head of the list is its first element.               *)
(***************************************************************************)
EXTENDS Receive, SequencesExt

CONSTANTS
  SAMPLES,       \* signals wanted (80 in irrecord.h)
  MAX_SIGNALS    \* data of the longest signal (200 in irrecord.h)

ASSUME SamplesAssumption == SAMPLES \in Nat \ {0} /\ MAX_SIGNALS \in Nat \ (0..8)

TH_SPACE_ENC == 80
TH_HEADER == 90
TH_REPEAT == 90
TH_TRAIL == 90
TH_LEAD == 90
TH_IS_BIT == 10
TH_RC6_SIGNAL == 550
MIN_GAP == 20000
DEFAULT_GAP == 50000

analysis(eps, epsabs) ==
  [r |-> blank, eps |-> eps, aeps |-> epsabs, sts |-> "again",
   first_space |-> <<>>, first_pulse |-> <<>>, first_sum |-> <<>>, first_gap |-> <<>>,
   first_repeat_gap |-> <<>>, first_signal_length |-> <<>>, first_headerp |-> <<>>,
   first_headers |-> <<>>, first_1lead |-> <<>>, first_3lead |-> <<>>, first_trail |-> <<>>,
   first_repeatp |-> <<>>, first_repeats |-> <<>>, pulse_loop |-> FALSE,
   lengths |-> [i \in 0..(MAX_SIGNALS - 1) |-> 0], signals |-> <<>>,
   first_length |-> 0, first_lengths |-> 0, second_lengths |-> 0,
   count_spaces |-> 0, count_signals |-> 0, count_3repeats |-> 0, count_5repeats |-> 0,
   mode |-> "GET_GAP", count |-> 0, sum |-> 0, data |-> nothing, average |-> 0,
   maxspace |-> 0, remaining_gap |-> 0, header |-> 0, first_signal |-> -1]

(* lengths_state_init(): the counters and the state, not the lists. *)
lengths_state_init(a) ==
  [a EXCEPT !.first_length = 0, !.first_lengths = 0, !.second_lengths = 0, !.count_spaces = 0,
            !.count_signals = 0, !.count_3repeats = 0, !.count_5repeats = 0, !.mode = "GET_GAP",
            !.count = 0, !.sum = 0, !.average = 0, !.maxspace = 0, !.remaining_gap = 0,
            !.header = 0, !.first_signal = -1, !.sts = "again"]
-----------------------------------------------------------------------------
(* Lists of lengths *)
new_length(n) ==
  [count |-> 1, sum |-> n, min |-> n, max |-> n,
   lower_bound |-> (n \div 100) * 100, upper_bound |-> (n \div 100) * 100 + 99]
calc_signal(l) == IF l.count = 0 THEN 0 ELSE l.sum \div l.count

add_length(list, n) ==
  LET at == {i \in DOMAIN list : list[i].lower_bound <= n /\ n <= list[i].upper_bound} IN
  IF at = {} THEN Append(list, new_length(n))
  ELSE [list EXCEPT ![Min(at)] = [@ EXCEPT !.count = @ + 1, !.sum = @ + n,
                                           !.min = Min({@, n}), !.max = Max({@, n})]]

(* Two classes become one when both lie within the tolerance of their      *)
(* common mean.  The relative tolerance is compared without the division   *)
(* by 100 that would make it a percentage.                                 *)
alike(a, l, m) ==
  LET mean == (l.sum + m.sum) \div (l.count + m.count) IN
  \/ \A x \in {l, m} : x.max <= mean + a.aeps /\ x.min + a.aeps >= mean
  \/ \A x \in {l, m} : x.max <= mean * (100 + a.eps) /\ x.min >= mean * (100 - a.eps)
joined(l, m) ==
  [count |-> l.count + m.count, sum |-> l.sum + m.sum,
   min |-> Min({l.min, m.min}), max |-> Max({l.max, m.max}),
   lower_bound |-> Min({l.lower_bound, m.lower_bound}),
   upper_bound |-> Max({l.upper_bound, m.upper_bound})]
RECURSIVE merge_lengths(_, _)
merge_lengths(a, list) ==
  LET absorb(acc, m) == IF alike(a, acc[1], m) THEN <<joined(acc[1], m), acc[2]>>
                        ELSE <<acc[1], Append(acc[2], m)>>
      then(x) == <<x[1]>> \o merge_lengths(a, x[2])
  IN IF list = <<>> THEN <<>> ELSE then(FoldLeft(absorb, <<Head(list), <<>>>>, Tail(list)))

(* add_length() and merge_lengths() on one of the lists. *)
noted(a, list, n) == [a EXCEPT ![list] = merge_lengths(a, add_length(@, n))]

(* get_max_length(): the first of the longest classes, and the sum. *)
get_max_length(list) ==
  CHOOSE i \in DOMAIN list : \A j \in DOMAIN list :
    list[j].count < list[i].count \/ (list[j].count = list[i].count /\ i <= j)
top(list) == list[get_max_length(list)]
counted_all(list) == FoldLeft(LAMBDA n, l : n + l.count, 0, list)
prevails(list, th) == top(list).count >= (counted_all(list) * th) \div 100
unlink_length(list, i) == RemoveAt(list, i)
second(list) == LET others == unlink_length(list, get_max_length(list)) IN top(others)
-----------------------------------------------------------------------------
(* The parts of a signal.  Each returns a, with sts "fail" for 0.          *)
fails(a) == [a EXCEPT !.sts = "fail"]

get_trail_length(a) ==
  IF is_biphase(a.r) \/ ~prevails(a.first_trail, TH_TRAIL) THEN a
  ELSE [a EXCEPT !.r.ptrail = calc_signal(top(a.first_trail))]

is_rc6(r) == r.proto = "RC6" \/ r.rc6_mask > 0
get_lead_length(a) ==
  LET x == calc_signal(top(a.first_1lead))
      y == calc_signal(second(a.first_1lead))
      low == Min({x, y})
      high == Max({x, y})
      off == IF 2 * low > high THEN 2 * low - high ELSE high - 2 * low
  IN IF ~is_biphase(a.r) \/ has_header(a.r) \/ is_rc6(a.r) THEN a
     ELSE IF prevails(a.first_1lead, TH_LEAD) THEN [a EXCEPT !.r.plead = x]
     ELSE IF off < (high * a.eps) \div 100 \/ off < a.aeps THEN [a EXCEPT !.r.plead = low]
     ELSE a

get_header_length(a) ==
  IF a.first_headerp = <<>> THEN a
  ELSE IF prevails(a.first_headerp, TH_HEADER) /\ prevails(a.first_headers, TH_HEADER)
  THEN [a EXCEPT !.r.phead = calc_signal(top(a.first_headerp)),
                 !.r.shead = calc_signal(top(a.first_headers)),
                 !.r.flags = IF a.first_lengths < a.second_lengths
                             THEN @ \cup {"NO_HEAD_REP"} ELSE @]
  ELSE a

get_repeat_length(a) ==
  LET three == a.count_3repeats > SAMPLES \div 2
      five == a.count_5repeats > SAMPLES \div 2
      with_header == a.count_5repeats > a.count_3repeats
  IN IF three = five THEN (IF three THEN fails(a) ELSE a)
     ELSE IF ~prevails(a.first_repeatp, TH_REPEAT) \/ ~prevails(a.first_repeats, TH_REPEAT) THEN a
     ELSE IF with_header /\ ~has_header(a.r) THEN fails(a)
     ELSE [a EXCEPT !.r.flags = IF with_header THEN @ \cup {"REPEAT_HEADER"} ELSE @,
                    !.r.prepeat = calc_signal(top(a.first_repeatp)),
                    !.r.srepeat = calc_signal(top(a.first_repeats)),
                    !.r.repeat_gap = IF is_const(a.r) THEN @
                                     ELSE calc_signal(top(a.first_repeat_gap))]

(* get_scheme(): signals of one length mean space or pulse encoding.  With *)
(* a single class of pulses the list is made to lead back to itself.       *)
get_scheme(a) ==
  LET length == CHOOSE i \in DOMAIN a.lengths : \A j \in DOMAIN a.lengths :
                  a.lengths[j] < a.lengths[i] \/ (a.lengths[j] = a.lengths[i] /\ i <= j)
      sum == FoldLeft(LAMBDA n, i : n + a.lengths[i], 0, [i \in 1..(MAX_SIGNALS - 1) |-> i])
      looped == [a EXCEPT !.pulse_loop = Len(a.first_pulse) = 1]
      short(list) == calc_signal(top(list)) < TH_RC6_SIGNAL
                     \/ calc_signal(second(list)) < TH_RC6_SIGNAL
      short_pulse == IF looped.pulse_loop THEN calc_signal(top(a.first_pulse)) < TH_RC6_SIGNAL
                     ELSE short(a.first_pulse)
  IN IF a.lengths[length] >= (TH_SPACE_ENC * sum) \div 100
     THEN [a EXCEPT !.r.bits = length + 1, !.r.proto = "SPACE_ENC"]
     ELSE IF Len(a.first_space) = 1
     THEN [looped EXCEPT !.r.bits = length + 1, !.r.proto = "SPACE_ENC"]
     ELSE [looped EXCEPT !.r.proto =
             IF length > 20 /\ short_pulse /\ short(a.first_space) THEN "RC6" ELSE "RC5"]

(* The two candidates for a bit: the most frequent class, and the next one *)
(* if it is frequent enough.                                               *)
candidate2(list) ==
  LET i == get_max_length(list)
      others == unlink_length(list, i)
  IN IF others = <<>> THEN {}
     ELSE IF top(others).count < (list[i].count * TH_IS_BIT) \div 100 THEN {}
     ELSE {calc_signal(top(others))}

(* Bi-phase: half a bit, from the single and the double lengths. *)
halves(x, y) == (Min({x, y}) + Max({x, y}) \div 2) \div 2
bit_lengths(r, p1, s1, p2s, s2s) ==
  LET ps == {p1} \cup p2s
      ss == {s1} \cup s2s
      half == IF p2s = {} THEN 0 ELSE halves(p1, CHOOSE x \in p2s : TRUE)
      shalf == IF s2s = {} THEN 0 ELSE halves(s1, CHOOSE x \in s2s : TRUE)
      lens == [r EXCEPT !.pone = Max(ps), !.sone = Max(ss), !.pzero = Min(ps), !.szero = Min(ss)]
  IN IF is_biphase(r)
     THEN [r EXCEPT !.pone = half, !.sone = shalf, !.pzero = half, !.szero = shalf]
     ELSE IF p2s # {} /\ \E p \in ps : expect(r, r.ptrail, p) THEN [lens EXCEPT !.ptrail = 0]
     ELSE lens
no_encoding(r, p2s, s2s) ==
  IF is_biphase(r) THEN p2s = {} \/ s2s = {} ELSE (p2s = {}) = (s2s = {})

(* A header that looks like a bit is one. *)
header_removed(r) ==
  LET as_bit(p, s) == expect(r, r.phead, p) /\ expect(r, r.shead, s)
      bare == [r EXCEPT !.phead = 0, !.shead = 0, !.flags = @ \ {"NO_HEAD_REP"}]
  IN IF ~has_header(r) \/ (has_repeat(r) /\ "NO_HEAD_REP" \notin r.flags) THEN r
     ELSE IF ~is_biphase(r) /\ (as_bit(r.pone, r.sone) \/ as_bit(r.pzero, r.szero)) THEN bare
     ELSE IF is_biphase(r) /\ expect(r, r.shead, r.sone) THEN [bare EXCEPT !.plead = r.phead]
     ELSE r

data_bits(a, r) ==
  LET length == calc_signal(top(a.first_signal_length)) - r.plead - r.phead - r.shead
                  + (r.pone + r.sone) \div 2
  IN IF is_biphase(r) THEN length \div (r.pone + r.sone) - (IF is_rc6(r) THEN 1 ELSE 0)
     ELSE (r.bits - (IF has_header(r) THEN 2 ELSE 0) + 1
             - (IF r.ptrail > 0 THEN 2 ELSE 0)) \div 2
with_lengths(a, r) == [a EXCEPT !.r = [r EXCEPT !.bits = data_bits(a, r)], !.sts = "ok"]
get_data_length(a) ==
  LET r == [a.r EXCEPT !.eps = a.eps, !.aeps = a.aeps]
      found(p2s, s2s) ==
        IF no_encoding(r, p2s, s2s) THEN fails([a EXCEPT !.r = r])
        ELSE with_lengths(a, header_removed(bit_lengths(r, calc_signal(top(a.first_pulse)),
                                                        calc_signal(top(a.first_space)), p2s, s2s)))
  IN IF a.sts = "fail" THEN a                            \* get_repeat_length() has failed
     ELSE IF a.pulse_loop THEN [a EXCEPT !.sts = "loops"]   \* get_max_length() never returns
     ELSE IF ~prevails(a.first_pulse, TH_IS_BIT) \/ ~prevails(a.first_space, TH_IS_BIT) THEN fails(a)
     ELSE found(candidate2(a.first_pulse), candidate2(a.first_space))

found_lengths(a) ==
  get_data_length(get_repeat_length(
    get_lead_length(get_trail_length(get_header_length(get_scheme(a))))))
-----------------------------------------------------------------------------
(* What a complete signal adds, by its length. *)
noted_all(a, lists) ==
  FoldLeft(LAMBDA b, i : noted(b, lists[i], a.signals[i]), a, [i \in DOMAIN lists |-> i])
compute_lengths_4_signals(a) ==
  noted_all(a, <<"first_repeatp", "first_repeats", "first_trail", "first_repeat_gap">>)
compute_lengths_6_signals(a) ==
  noted_all(a, <<"first_headerp", "first_headers", "first_repeatp", "first_repeats",
                 "first_trail", "first_repeat_gap">>)
signals_in(a) == a.count - 2
middle_noted(a) ==   \* signals[2] to signals[count - 3]
  FoldLeft(LAMBDA x, i : noted(x, IF i % 2 = 0 THEN "first_space" ELSE "first_pulse", a.signals[i]),
           noted(a, "first_1lead", a.signals[1]), [i \in 1..(signals_in(a) - 2) |-> i + 2])
end_noted(a) ==
  LET n == signals_in(a) IN
  [noted(noted(a, "first_trail", a.signals[n + 1]), "first_signal_length", a.sum - a.data.n)
     EXCEPT !.lengths[n] = @ + 1]
header_noted(a) ==
  IF a.first_signal = 1 \/ (a.first_length > 2 /\ a.first_length - 2 # signals_in(a))
  THEN noted(noted(noted(a, "first_3lead", a.signals[3]),
                   "first_headerp", a.signals[1]), "first_headers", a.signals[2])
  ELSE a
compute_lengths_many_signals(a) ==
  LET n == signals_in(a)
      as_first(b) == [b EXCEPT !.first_lengths = @ + 1, !.first_length = n,
                               !.header = a.signals[1] + a.signals[2]]
      as_next(b) == [b EXCEPT !.lengths[n] = @ - 1, !.lengths[n + 2] = @ + 1, !.second_lengths = @ + 1]
      kind(b) == IF a.first_signal = 1 THEN as_first(b)
                 ELSE IF a.first_signal = 0 /\ a.first_length - 2 = n THEN as_next(b) ELSE b
  IN kind(header_noted(end_noted(middle_noted(a))))

signal_complete(a) ==
  [(IF a.count = 4 THEN compute_lengths_4_signals([a EXCEPT !.count_3repeats = @ + 1])
    ELSE IF a.count = 6 THEN compute_lengths_6_signals([a EXCEPT !.count_5repeats = @ + 1])
    ELSE IF a.count > 6 THEN compute_lengths_many_signals([a EXCEPT !.count_signals = @ + 1])
    ELSE a) EXCEPT !.count = 0, !.sum = 0]
-----------------------------------------------------------------------------
(* get_lengths(), one datum: looking for the gap ... *)
must_be_gap(a, n) ==
  \/ n > MIN_GAP
  \/ n > 100 * a.average
  \/ n >= 5000 /\ a.count_spaces > 10 /\ n > 5 * a.average
  \/ n < 5000 /\ a.count_spaces > 10 /\ n > (5 * a.maxspace) \div 2

(* scan_gap1() and scan_gap2(): the sums of signal and gap agree, or the   *)
(* gaps do.                                                                *)
enough(list) == {i \in DOMAIN list : list[i].count > SAMPLES}
scan_gap(a) ==
  IF enough(a.first_sum) # {}
  THEN [a EXCEPT !.mode = "HAVE_GAP", !.r.flags = @ \cup {"CONST_LENGTH"},
                 !.r.gap = calc_signal(a.first_sum[Min(enough(a.first_sum))])]
  ELSE IF enough(a.first_gap) # {}
  THEN [a EXCEPT !.mode = "HAVE_GAP", !.r.gap = calc_signal(a.first_gap[Min(enough(a.first_gap))])]
  ELSE a

gap_noted(a, d) ==
  scan_gap([noted(noted(a, "first_sum", a.sum), "first_gap", d.n)
              EXCEPT !.sum = 0, !.count_spaces = 0, !.average = 0, !.maxspace = 0])
gap_seen(a, d) ==
  IF a.mode = "GET_GAP" THEN a
  ELSE [a EXCEPT !.count = 0, !.sts = "again_info",
                 !.remaining_gap = IF is_const(a.r) THEN rest(a.r.gap, d.n) ELSE a.r.gap]
space_seen(a, d) ==
  [a EXCEPT !.average = IF @ = 0 THEN d.n ELSE (@ * a.count_spaces + d.n) \div (a.count_spaces + 1),
            !.count_spaces = IF a.average = 0 THEN @ ELSE @ + 1,
            !.maxspace = IF a.average = 0 THEN d.n ELSE Max({@, d.n})]
gap_datum(a, d) ==
  LET b == [a EXCEPT !.sum = @ + d.n] IN
  IF a.sum = 0 /\ d.t = "s" THEN a
  ELSE IF d.t = "s" /\ a.average = 0 /\ d.n > 100000 THEN [a EXCEPT !.sum = 0]
  ELSE IF d.t = "s" /\ a.average # 0 /\ must_be_gap(a, d.n) THEN gap_seen(gap_noted(b, d), d)
  ELSE [(IF d.t = "s" THEN space_seen(b, d) ELSE b)
          EXCEPT !.sts = IF a.count > SAMPLES * MAX_SIGNALS * 2 THEN "no_gap" ELSE "again"]

(* ... and, with the gap known, taking the signals apart. *)
signal_ended(a, d) ==
  LET span == a.remaining_gap + a.header
      short == d.n <= (span * (100 + a.eps)) \div 100 \/ d.n <= span + a.aeps
  IN IF a.count_signals >= SAMPLES THEN found_lengths(a)
     ELSE [a EXCEPT !.first_signal = IF short THEN 0 ELSE 1, !.header = IF short THEN 0 ELSE @]
signal_datum(a0, d) ==
  LET left == IF is_const(a0.r) THEN rest(a0.r.gap, a0.sum) ELSE a0.r.gap
      a == [a0 EXCEPT !.signals = Append(SubSeq(@, 1, a0.count - 1), d.n),
                      !.remaining_gap = left, !.sum = @ + d.n]
      ends == a0.count > 2 /\ (d.n >= (left * (100 - a0.eps)) \div 100 \/ d.n >= left - a0.aeps)
  IN IF a0.count = 1 /\ d.t = "s" THEN [a0 EXCEPT !.count = 0]
     ELSE IF a0.count > MAX_SIGNALS THEN [a0 EXCEPT !.sts = "too_long"]
     ELSE IF ~ends THEN a
     ELSE IF d.t = "p" THEN [a EXCEPT !.r.gap = 0, !.sts = "no_gap"]
     ELSE signal_ended(signal_complete(a), d)

datum_seen(a, d) == IF a.mode = "GET_GAP" THEN gap_datum(a, d) ELSE signal_datum(a, d)
get_lengths(a, d, force) ==
  LET as_raw(b) == IF b.sts = "again_info" /\ force THEN [b EXCEPT !.sts = "raw_ok"] ELSE b IN
  IF d.t = "none" THEN [a EXCEPT !.data = d, !.sts = "timeout"]
  ELSE as_raw(datum_seen([a EXCEPT !.data = d, !.count = @ + 1, !.sts = "again"], d))

(* The loop over get_lengths(): what the line holds, until it is done (the *)
(* first half of it and then the other, so that recursion stays shallow).  *)
RECURSIVE all_lengths(_, _, _)
all_lengths(a, line, force) ==
  LET half == Len(line) \div 2 IN
  IF line = <<>> \/ a.sts \notin {"again", "again_info"} THEN a
  ELSE IF half = 0 THEN get_lengths(a, Head(line), force)
  ELSE all_lengths(all_lengths(a, SubSeq(line, 1, half), force), SubSeq(line, half + 1, Len(line)), force)
=============================================================================
