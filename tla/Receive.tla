------------------------------- MODULE Receive -------------------------------
(***************************************************************************)
(* The receive buffer and the decoders of lib/receive.c, over readdata()   *)
(* of the default driver (a live line) and of the file driver.             *)
(*                                                                         *)
(* The C functions work on the global rec_buffer, the line and the clock;  *)
(* here these are one record w, and a function that changes them returns   *)
(* the new w.  Its result is in w.ok (a flag), w.n (a length, 0 for none)   *)
(* or w.v (a datum or a code, Fail for (ir_code)-1).  A datum is a record  *)
(* [t, n] with t "p" or "s".                                               *)
(***************************************************************************)
EXTENDS IrRemote

CONSTANT RBUF_SIZE
ASSUME RBufAssumption == RBUF_SIZE \in Nat \ {0}

REC_SYNC == 8
MIN_RECEIVE_TIMEOUT == 100000
Fail == -1

nothing == [t |-> "none", n |-> 0]
eof == [t |-> "eof", n |-> 0]

(* The line holds what is still to come.  wait tells who waits for it:     *)
(* "plain" is waitfordata() of receive.c, "lircd" the daemon's             *)
(* mywaitfordata() in its place, and "file" the file driver, which does    *)
(* not wait.  A live line delivers a datum when it ends; stuck says that   *)
(* the wait has no end before the next datum.                              *)
rec_buffer(wait, mode, code_length) ==
  [wait |-> wait, stuck |-> FALSE, release_time |-> 0, mode |-> mode, code_length |-> code_length, line |-> <<>>, waited |-> 0, now |-> 0,
   data |-> <<>>, rptr |-> 0, too_long |-> FALSE, pend |-> [p |-> 0, s |-> 0],
   sum |-> 0, at_eof |-> FALSE, decoded |-> 0, ok |-> TRUE, n |-> 0, v |-> nothing]
wptr(w) == Len(w.data)

yes(w) == [w EXCEPT !.ok = TRUE]
no(w) == [w EXCEPT !.ok = FALSE]
other(k) == IF k = "p" THEN "s" ELSE "p"
set_pending(w, k, n) == [w EXCEPT !.pend[k] = n]
no_pending(w) == [w EXCEPT !.pend = [p |-> 0, s |-> 0]]

(* default_readdata() and readdata() of the file driver: a wait of timeout *)
(* microseconds, or a line of the file.                                    *)
(* mywaitfordata() shortens the wait to the time of the last release, and  *)
(* forgets the timeout altogether once that time is over.                  *)
Forever == 0
live(w) == w.wait # "file"
wait_time(w, timeout) ==
  IF w.wait # "lircd" \/ w.release_time = 0 \/ timeout = Forever THEN timeout
  ELSE IF w.now > w.release_time THEN Forever
  ELSE Min({timeout, larger(w.release_time - w.now, 1)})

take_datum(w) == [w EXCEPT !.v = Head(w.line), !.line = Tail(@), !.waited = 0]
readdata(w, timeout) ==
  LET waited(t) ==
        IF w.line # <<>> /\ (t = Forever \/ w.waited + t >= Head(w.line).n)
        THEN take_datum([w EXCEPT !.now = @ + Head(w.line).n - w.waited, !.at_eof = FALSE])
        ELSE [w EXCEPT !.v = nothing, !.now = @ + t, !.waited = @ + t,
                       !.at_eof = FALSE, !.stuck = @ \/ t = Forever]
  IN
  IF live(w) THEN waited(wait_time(w, timeout))
  ELSE IF w.line = <<>> THEN [w EXCEPT !.v = eof, !.at_eof = TRUE]
       ELSE take_datum([w EXCEPT !.at_eof = FALSE])

(* get_next_rec_buffer(): what was read before, or the next datum. *)
receive_timeout(usec) == larger(2 * usec, MIN_RECEIVE_TIMEOUT)
get_next_rec_buffer(w, maxusec) ==
  LET stored(x) == IF x.v \in {nothing, eof} THEN x
                   ELSE [x EXCEPT !.data = Append(@, x.v), !.rptr = @ + 1, !.sum = @ + x.v.n]
      d == w.data[w.rptr + 1]
  IN
  IF w.rptr < wptr(w) THEN [w EXCEPT !.v = d, !.rptr = @ + 1, !.sum = @ + d.n]
  ELSE IF wptr(w) < RBUF_SIZE THEN stored(readdata(w, receive_timeout(maxusec)))
  ELSE [w EXCEPT !.too_long = TRUE, !.v = nothing]

rewind(w) ==
  no_pending([w EXCEPT !.rptr = 0, !.too_long = FALSE, !.sum = 0, !.at_eof = FALSE])

(* rec_buffer_clear(): what no decoder has used is kept, otherwise the     *)
(* buffer starts with the next datum.  In LIRC_MODE_LIRCCODE the driver    *)
(* reads a whole code instead.                                             *)
starts(x) == [x EXCEPT !.data = <<x.v>>]
rec_buffer_clear_keeps(w) ==
  LET kept == SubSeq(w.data, w.rptr + 1, wptr(w)) IN
  rewind(IF kept # <<>> THEN [w EXCEPT !.data = kept]
         ELSE starts(readdata([w EXCEPT !.data = <<>>], Forever)))

rec_buffer_clear(w) ==
  LET kept == SubSeq(w.data, w.rptr + 1, wptr(w)) IN
  rewind(IF w.mode = "LIRCCODE"
         THEN [w EXCEPT !.decoded = Head(w.line).n, !.line = Tail(@), !.now = @ + Head(w.line).dt]
         ELSE IF kept # <<>> /\ w.rptr > 0 THEN [w EXCEPT !.data = kept]
         ELSE starts(readdata([w EXCEPT !.data = <<>>], Forever)))

unget_rec_buffer(w, count) ==
  [w EXCEPT !.rptr = @ - count,
            !.sum = @ - (w.data[w.rptr - count + 1].n
                          + (IF count = 2 THEN w.data[w.rptr].n ELSE 0))]
unget_rec_buffer_delta(w, delta) ==
  [w EXCEPT !.rptr = @ - 1, !.sum = @ - delta, !.data[w.rptr].n = delta]

(* get_next_pulse() and get_next_space() *)
get_next(w, k, maxusec) ==
  LET of_kind(x) == [x EXCEPT !.n = IF x.v.t = k THEN x.v.n ELSE 0] IN
  of_kind(get_next_rec_buffer(w, maxusec))

(* A pulse and a space, or the other way round; w.v is both lengths. *)
pair_with(x, k, maxusec) ==
  LET both(y) == [y EXCEPT !.v = <<x.n, y.n>>] IN both(get_next(x, k, maxusec))
get_pair(w, k, maxusec, maxother) == pair_with(get_next(w, k, maxusec), other(k), maxother)
complete(w) == w.v[1] # 0 /\ w.v[2] # 0
pair_length(w) == w.v[1] + w.v[2]

(* sync_pending_pulse() and sync_pending_space() *)
sync_pending(r, w, k) ==
  LET met(x) == IF x.n # 0 /\ expect(r, x.n, w.pend[k]) THEN yes(set_pending(x, k, 0)) ELSE no(x) IN
  IF w.pend[k] = 0 THEN yes(w) ELSE met(get_next(w, k, w.pend[k]))

(* expectpulse() and expectspace(): a pending length of the same kind has  *)
(* merged with this one on the line.                                       *)
read_length(r, w, k, exdelta) ==
  LET good(x) == x.n # 0 /\ w.pend[k] <= x.n /\ expect(r, x.n - w.pend[k], exdelta)
      met(x) == IF good(x) THEN yes(set_pending(x, k, 0)) ELSE no(x)
  IN IF ~w.ok THEN w ELSE met(get_next(w, k, w.pend[k] + exdelta))
expected(r, w, k, exdelta) == read_length(r, sync_pending(r, w, other(k)), k, exdelta)
expectpulse(r, w, exdelta) == expected(r, w, "p", exdelta)
expectspace(r, w, exdelta) == expected(r, w, "s", exdelta)
then_pending(w, k, n) == IF w.ok THEN set_pending(w, k, n) ELSE w

(* A length that is skipped when the file gives none, and otherwise puts   *)
(* back count data when it does not come.                                  *)
expected_or_back(r, w, k, exdelta, skip, count) ==
  LET back(x) == IF x.ok THEN x ELSE unget_rec_buffer(x, count) IN
  IF skip /\ exdelta = 0 THEN yes(w) ELSE back(expected(r, w, k, exdelta))

(* expectone() and expectzero(): a one may have no pulse or no space. *)
rc6_bit(r, i) == bit(r.rc6_mask, bit_count(r) - 1 - i) = 1
bit_unit(r, i) == IF is_biphase(r) /\ rc6_bit(r, i) THEN 2 ELSE 1
bit_pulse(r, i, one) == bit_unit(r, i) * (IF one THEN r.pone ELSE r.pzero)
bit_space(r, i, one) == bit_unit(r, i) * (IF one THEN r.sone ELSE r.szero)
(* The first half has been read; the other is read or left pending. *)
second_half(r, w, i, one) ==
  IF ~w.ok THEN w
  ELSE IF is_biphase(r) /\ one THEN set_pending(w, "p", bit_pulse(r, i, one))
  ELSE IF is_biphase(r) \/ (~is_space_first(r) /\ r.ptrail = 0)
  THEN set_pending(w, "s", bit_space(r, i, one))
  ELSE IF is_space_first(r) THEN expected_or_back(r, w, "p", bit_pulse(r, i, one), TRUE, 2)
  ELSE expected_or_back(r, w, "s", bit_space(r, i, one), one, 2)
expectbit(r, w, i, one) ==
  LET space == IF is_biphase(r) THEN one ELSE is_space_first(r) IN
  second_half(r,
    IF space THEN expected_or_back(r, w, "s", bit_space(r, i, one), TRUE, 1)
    ELSE expected_or_back(r, w, "p", bit_pulse(r, i, one), one, 1), i, one)

-----------------------------------------------------------------------------
(* sync_rec_buffer(): the gap before a signal.  The remote decoded last    *)
(* knows how long it has to be, so that what is left of a signal it did    *)
(* not decode is passed over, REC_SYNC pairs at most.  w.n is the gap.     *)
RECURSIVE sync_gap(_, _, _, _)
sync_gap(w, lr, lst, count) ==
  LET spaced(x) == IF x.n = 0 \/ count = REC_SYNC THEN [x EXCEPT !.n = 0]
                   ELSE sync_gap(x, lr, lst, count + 1)
      pulsed(x) == IF x.n = 0 THEN x ELSE spaced(get_next(x, "s", 1000000))
  IN IF w.n = 0 \/ expect_at_least(lr, w.n, lst.min_remaining_gap) THEN w
     ELSE pulsed(get_next(w, "p", 1000000))

(* last is the remote decoded last and its state, <<>> for none. *)
sync_rec_buffer(r, w, last) ==
  LET gap(x) == IF x.n = 0 THEN x ELSE [x EXCEPT !.sum = 0]
      after(x) == IF last = <<>> \/ is_rcmm(r) THEN x ELSE sync_gap(x, last[1], last[2], 0)
  IN gap(after(get_next(w, "s", 1000000)))

(* It also ends the alternation of a toggle mask after too long a gap. *)
restarts_toggle(r, w, last) ==
  /\ last # <<>> /\ ~is_rcmm(r) /\ has_toggle_mask(r) /\ w.n # 0
  /\ ~expect_at_most(last[1], w.n, last[2].max_remaining_gap)

RECURSIVE expect_all(_, _, _)
expect_all(r, w, wanted) ==
  LET then(x) == IF x.ok THEN expect_all(r, x, Tail(wanted)) ELSE x IN
  IF wanted = <<>> THEN yes(w) ELSE then(expected(r, w, Head(wanted)[1], Head(wanted)[2]))

(* The header of RC-MM is told by the length of the pair, like its bits. *)
rcmm_header(r, w) ==
  LET pair(p, s) == IF s.n # 0 /\ expect(r, p.n + s.n, r.phead + r.shead) THEN yes(s)
                    ELSE no(unget_rec_buffer(s, 2))
      pulsed(p) == IF p.n = 0 THEN no(unget_rec_buffer(p, 1)) ELSE pair(p, get_next(p, "s", r.shead))
  IN pulsed(get_next(w, "p", r.phead))
(* The space of a header is left pending, unless repeats do not have it. *)
header_space(r, w) ==
  LET read(s) == IF s.n = 0 THEN set_pending(yes(s), "s", r.shead)
                 ELSE IF expect(r, r.shead, s.n) THEN yes(s) ELSE no(unget_rec_buffer(s, 2))
  IN IF w.ok /\ "NO_HEAD_REP" \in r.flags THEN read(get_next(w, "s", r.shead))
     ELSE then_pending(w, "s", r.shead)
get_header(r, w) ==
  IF is_rcmm(r) THEN rcmm_header(r, w)
  ELSE IF is_bo(r)
  THEN expect_all(r, w, <<<<"p", r.pone>>, <<"s", r.sone>>, <<"p", r.pone>>,
                          <<"s", r.sone>>, <<"p", r.phead>>, <<"s", r.shead>>>>)
  ELSE IF r.shead = 0 THEN then_pending(sync_pending(r, w, "s"), "p", r.phead)
  ELSE header_space(r, expected_or_back(r, w, "p", r.phead, FALSE, 1))

get_foot(r, w) == expect_all(r, w, <<<<"s", r.sfoot>>, <<"p", r.pfoot>>>>)

get_lead(r, w) ==
  IF r.plead = 0 THEN yes(w) ELSE then_pending(sync_pending(r, w, "s"), "p", r.plead)

get_trail(r, w) ==
  LET then(x) == IF x.ok THEN sync_pending(r, x, "p") ELSE x IN
  then(IF r.ptrail # 0 THEN expectpulse(r, w, r.ptrail) ELSE yes(w))

gap_wait(r, gap) == gap - (gap * r.eps) \div 100
get_gap_taken(r, w, gap) ==
  LET met(x) == IF x.v = nothing THEN yes(x)
                ELSE IF x.v.t # "s" THEN no(x)
                ELSE [x EXCEPT !.ok = expect_at_least(r, x.v.n, gap)]
  IN met(get_next_rec_buffer(w, gap_wait(r, gap)))

get_gap(r, w, gap) ==
  LET met(x) == IF x.v = nothing THEN yes(x)
                ELSE IF x.v.t # "s" THEN no(x)
                ELSE [unget_rec_buffer(x, 1) EXCEPT !.ok = expect_at_least(r, x.v.n, gap)]
  IN met(get_next_rec_buffer(w, gap_wait(r, gap)))

rest(gap, sum) == IF gap > sum THEN gap - sum ELSE 0
repeat_rest(r, w, gap) ==
  IF is_const(r) THEN rest(gap, w.sum) ELSE IF has_repeat_gap(r) THEN r.repeat_gap ELSE gap

(* Lead, the pulse and space of a repeat, trail and gap. *)
repeat_code(r, w) ==
  IF ~w.ok THEN w
  ELSE IF is_biphase(r) THEN expect_all(r, w, <<<<"s", r.srepeat>>, <<"p", r.prepeat>>>>)
  ELSE then_pending(expectpulse(r, w, r.prepeat), "s", r.srepeat)
repeat_trail(r, w) == IF w.ok THEN get_trail(r, w) ELSE w
repeat_end(r, w) == IF w.ok THEN get_gap(r, w, repeat_rest(r, w, min_gap(r))) ELSE w
get_repeat(r, w) == repeat_end(r, repeat_trail(r, repeat_code(r, get_lead(r, w))))
-----------------------------------------------------------------------------
(* get_data(), one operator per protocol; w.v is the code. *)
failed(w) == [w EXCEPT !.v = Fail]
coded(w, code) == [w EXCEPT !.v = code]

(* RC-MM: two bits per pair, told by the length of the pair. *)
four(r) == <<r.pzero + r.szero, r.pone + r.sone, r.ptwo + r.stwo, r.pthree + r.sthree>>
all_pulses(r) == r.pzero + r.pone + r.ptwo + r.pthree
all_spaces(r) == r.szero + r.sone + r.stwo + r.sthree
symbol(r, sum) ==
  LET m == {i \in 1..4 : expect(r, sum, four(r)[i])} IN IF m = {} THEN Fail ELSE Min(m) - 1

RECURSIVE get_rcmm(_, _, _, _)
get_rcmm(r, w, bits, code) ==
  LET d(x) == symbol(r, pair_length(x))
      then(x) == IF ~complete(x) \/ d(x) = Fail THEN failed(x)
                 ELSE get_rcmm(r, x, bits - 2, 4 * code + d(x))
  IN IF bits = 0 THEN coded(w, code)
     ELSE then(get_pair(w, "p", all_pulses(r), all_spaces(r)))

(* Grundig: symbols of two, three, four and six units, two bits for each   *)
(* pair that sums to six.                                                  *)
RECURSIVE get_grundig(_, _, _, _, _)
grundig_pair(laststate, state) ==
  IF state = 3 THEN 0
  ELSE IF laststate = 2 /\ state = 0 THEN 1
  ELSE IF laststate = 1 /\ state = 1 THEN 2
  ELSE IF laststate = 0 /\ state = 2 THEN 3 ELSE Fail
get_grundig(r, w, bits, code, laststate) ==
  LET then(x, state) ==
        LET pair == grundig_pair(laststate, state) IN
        IF ~complete(x) \/ state = Fail THEN failed(x)
        ELSE IF pair # Fail THEN get_grundig(r, x, bits - 2, 4 * code + pair, -1)
        ELSE IF laststate = -1 THEN get_grundig(r, x, bits, code, state)
        ELSE failed(x)
      told(x) == then(x, symbol(r, pair_length(x)))
  IN IF bits = 0 THEN coded(w, code)
     ELSE told(get_pair(w, "s", all_spaces(r), all_pulses(r)))

(* Bang & Olufsen: what a pair means depends on the bit before. *)
RECURSIVE get_bo(_, _, _, _, _)
get_bo(r, w, bits, code, lastbit) ==
  LET is(x, pulse, space) == expect(r, x.v[1], pulse) /\ expect(r, x.v[2], space)
      zero(x) == IF lastbit = 1 THEN is(x, r.pone, r.sone) ELSE is(x, r.ptwo, r.stwo)
      one(x) == IF lastbit = 1 THEN is(x, r.ptwo, r.stwo) ELSE is(x, r.pthree, r.sthree)
      then(x) == IF ~complete(x) \/ (~zero(x) /\ ~one(x)) THEN failed(x)
                 ELSE IF zero(x) THEN get_bo(r, x, bits - 1, 2 * code, 0)
                 ELSE get_bo(r, x, bits - 1, 2 * code + 1, 1)
  IN IF bits = 0 THEN coded(w, code)
     ELSE then(get_pair(w, "p", all_pulses(r), all_spaces(r)))

(* XMP: a nibble per pair, told by how much longer than zero it is. *)
RECURSIVE get_xmp(_, _, _, _)
xmp_nibble(r, length) ==
  LET above == length - (r.pzero + r.szero) + r.sone \div 2 IN
  \* the division truncates towards zero, and n is unsigned
  IF above <= -r.sone THEN 16 ELSE IF above < 0 THEN 0 ELSE above \div r.sone
get_xmp(r, w, bits, code) ==
  LET n(x) == xmp_nibble(r, pair_length(x))
      then(x) == IF ~complete(x) \/ n(x) >= 16 THEN failed(x)
                 ELSE get_xmp(r, x, bits - 4, 16 * code + n(x))
  IN IF bits = 0 THEN coded(w, code)
     ELSE then(get_pair(w, "p", r.pzero, r.szero + 16 * r.sone))

(* Space or pulse encoded, space first and bi-phase: bit by bit, a one is  *)
(* tried before a zero.  w.v is the bit.                                   *)
RECURSIVE get_bits(_, _, _, _, _)
zero_read(w) == IF w.ok THEN coded(w, 0) ELSE failed(w)
one_or_zero(r, w, i) == IF w.ok THEN coded(w, 1) ELSE zero_read(expectbit(r, w, i, FALSE))
get_bits(r, w, bits, i, code) ==
  LET then(x) == IF x.v = Fail THEN x ELSE get_bits(r, x, bits - 1, i + 1, 2 * code + x.v) IN
  IF bits = 0 THEN coded(w, code) ELSE then(one_or_zero(r, expectbit(r, w, i, TRUE), i))

(* Serial: runs of equal bits share a pulse or a space.  The loop variables *)
(* are a record c: delta is what is left of the length read last.          *)
RECURSIVE get_serial(_, _, _, _)
parity_bit(r) == IF r.parity = "none" THEN 0 ELSE 1
max_run(r, space) ==
  IF space THEN r.sone * (r.bits_in_byte + parity_bit(r)) + serial_stop(r)
  ELSE r.pzero * (1 + r.bits_in_byte + parity_bit(r))
serial_read(r, w, c, bits) ==
  LET open_end(x) == /\ x.n = 0 /\ c.space
                     /\ c.received + r.bits_in_byte + parity_bit(r) >= bits
      d(x) == IF open_end(x) THEN max_run(r, TRUE) ELSE x.n
      read(x) == [w |-> x, c |-> [c EXCEPT !.delta = d(x), !.origdelta = d(x)]]
  IN IF c.delta # 0 THEN [w |-> w, c |-> c]
     ELSE read(get_next(w, IF c.space THEN "s" ELSE "p", max_run(r, c.space)))
byte_done(r, code) ==
  LET pb == parity_bit(r) IN
  shiftR(code, r.bits_in_byte + pb) * 2^r.bits_in_byte
    + reverse(shiftR(code, pb) & gen_mask(r.bits_in_byte), r.bits_in_byte)

turned(c) == [c EXCEPT !.space = IF c.delta = 0 THEN ~@ ELSE @]
(* The bit that is read first of what is left. *)
serial_bit(c, expecting) ==
  LET v == IF c.space THEN 1 ELSE 0 IN
  [c EXCEPT !.delta = rest(@, expecting), !.received = @ + 1, !.code = 2 * @ + v, !.parity = (@ + v) % 2]
serial_added(r, w, c, was_space, bits) ==
  IF c.received % (r.bits_in_byte + parity_bit(r)) # 0 THEN get_serial(r, w, turned(c), bits)
  ELSE IF \/ r.parity = "even" /\ c.parity = 1
          \/ r.parity = "odd" /\ c.parity = 0
          \/ was_space /\ c.delta = 0
  THEN failed(w)
  ELSE get_serial(r, set_pending(w, "s", serial_stop(r)),
         turned([c EXCEPT !.parity = 0, !.stop_bit = TRUE, !.code = byte_done(r, @)]), bits)
(* c.delta has lost what was pending. *)
serial_step(r, w, c, pending, bits) ==
  LET expecting == IF c.space THEN r.sone ELSE r.pzero IN
  IF c.delta < 0 THEN failed(w)
  ELSE IF pending > 0 /\ c.stop_bit
  THEN get_serial(r, set_pending(no_pending(w), "p", serial_base(r)),
         [c EXCEPT !.gap_delta = c.delta, !.delta = 0, !.stop_bit = FALSE, !.space = FALSE], bits)
  ELSE IF pending > 0 THEN get_serial(r, no_pending(w), turned(c), bits)
  ELSE IF c.delta > expecting \/ expect(r, c.delta, expecting)
  THEN serial_added(r, w, serial_bit(c, expecting), c.space, bits)
  ELSE IF c.delta = c.origdelta THEN failed(w)
  ELSE get_serial(r, w, turned([c EXCEPT !.delta = 0]), bits)
serial_length(r, read, pending, bits) ==
  IF read.c.delta = 0 THEN failed(read.w)
  ELSE serial_step(r, read.w,
         [read.c EXCEPT !.delta = IF expect(r, @, pending) THEN 0 ELSE @ - pending], pending, bits)

get_serial(r, w, c, bits) ==
  IF c.received >= bits /\ ~c.stop_bit
  THEN coded(no_pending(IF c.gap_delta # 0 THEN unget_rec_buffer_delta(w, c.gap_delta) ELSE w), c.code)
  ELSE serial_length(r, serial_read(r, w, c, bits), w.pend[IF c.space THEN "s" ELSE "p"], bits)

(* Two bits or four at a time. *)
get_units(r, w, bits) ==
  IF ~w.ok THEN (IF is_grundig(r) THEN failed(w) ELSE coded(w, 0))
  ELSE IF is_rcmm(r) THEN get_rcmm(r, w, bits, 0)
  ELSE IF is_xmp(r) THEN get_xmp(r, w, bits, 0)
  ELSE get_grundig(r, w, bits, 0, -1)
get_data(r, w, bits, done) ==
  LET width == IF is_xmp(r) THEN 4 ELSE 2 IN
  IF is_rcmm(r) \/ is_xmp(r) \/ is_grundig(r)
  THEN IF bits % width # 0 \/ done % width # 0 THEN failed(w)
       ELSE get_units(r, sync_pending(r, w, IF is_grundig(r) THEN "p" ELSE "s"), bits)
  ELSE IF is_serial(r)
  THEN get_serial(r, set_pending(w, "p", serial_base(r)),
         [delta |-> 0, origdelta |-> 0, space |-> FALSE, stop_bit |-> FALSE, received |-> 0,
          code |-> 0, parity |-> 0, gap_delta |-> 0],
         IF r.parity = "none" THEN bits ELSE bits + bits \div r.bits_in_byte)
  ELSE IF is_bo(r) THEN get_bo(r, w, bits, 0, 1)
  ELSE get_bits(r, w, bits, done, 0)

(* get_pre() and get_post(); update_mode is for irrecord -u. *)
pre_mismatch(r, pre) ==
  /\ r.pre_data # 0
  /\ ~same_apart(pre, r.pre_data, shiftR(r.toggle_bit_mask, r.post_data_bits))
pre_read(r, w, update_mode) ==
  LET coded_as(x, code) == IF x.ok THEN coded(set_pending(x, "s", r.pre_s), code) ELSE failed(x) IN
  IF w.v = Fail \/ (update_mode /\ pre_mismatch(r, w.v)) THEN failed(w)
  ELSE IF r.pre_p > 0 /\ r.pre_s > 0 THEN coded_as(expectpulse(r, w, r.pre_p), w.v)
  ELSE w
get_pre(r, w, update_mode) == pre_read(r, get_data(r, w, r.pre_data_bits, 0), update_mode)
post_data(r, w) ==
  IF w.ok THEN get_data(r, w, r.post_data_bits, r.pre_data_bits + r.bits) ELSE failed(w)
get_post(r, w) ==
  post_data(r, IF r.post_p > 0 /\ r.post_s > 0
               THEN then_pending(expectpulse(r, w, r.post_p), "s", r.post_s) ELSE yes(w))
-----------------------------------------------------------------------------
(* receive_decode(): one remote tries to read the signal from the start of *)
(* the buffer.  The result is the new w, the state of the remote and the   *)
(* decode_ctx_t, whose ok is the return value.                             *)
no_ctx == [ok |-> FALSE, pre |-> 0, code |-> 0, post |-> 0, repeat_flag |-> FALSE,
           min_remaining_gap |-> 0, max_remaining_gap |-> 0]
refused(w, st) == [w |-> w, st |-> st, ctx |-> no_ctx]

(* The buttons of a raw remote.  A signal that breaks off is read again    *)
(* from the gap, one whose gap is too short is not.                        *)
RECURSIVE raw_button(_, _, _, _)
raw_ended(r, w, last, k) ==
  IF w.ok THEN coded(w, r.codes[k].seq[1]) ELSE raw_button(r, w, last, k + 1)
raw_read(r, w, last, k) ==
  IF w.ok
  THEN raw_ended(r, get_gap(r, w, IF is_const(r) THEN min_gap(r) - w.sum ELSE min_gap(r)), last, k)
  ELSE raw_button(r, sync_rec_buffer(r, rewind(w), last), last, k + 1)
raw_button(r, w, last, k) ==
  IF k > Len(r.codes) THEN failed(w)
  ELSE raw_read(r, expect_all(r, w, [i \in 1..Len(r.codes[k].signals) |->
                     <<IF i % 2 = 1 THEN "p" ELSE "s", r.codes[k].signals[i]>>]), last, k)

(* A signal whose header repeats do not have is as long as a repeat. *)
without_header_kept(r, w, header) == w

without_header(r, w, header) ==
  IF header /\ is_const(r) /\ "NO_HEAD_REP" \in r.flags
  THEN [w EXCEPT !.sum = @ - (r.phead + r.shead)] ELSE w

(* Lead, pre data, code, post data, trail, foot and gap, up to the first   *)
(* that is not there; f is what has been read, part of it one code.        *)
frame_begun(w) == [w |-> w, ok |-> w.ok, pre |-> 0, code |-> 0, post |-> 0]
part(f, name, w) == [f EXCEPT !.w = w, !.ok = w.v # Fail, ![name] = w.v]
ended_by(f, w) == [f EXCEPT !.w = w, !.ok = w.ok]
with_pre(r, f, update_mode) ==
  IF f.ok /\ has_pre(r) THEN part(f, "pre", get_pre(r, f.w, update_mode)) ELSE f
with_code(r, f) == IF f.ok THEN part(f, "code", get_data(r, f.w, r.bits, r.pre_data_bits)) ELSE f
with_post(r, f) == IF f.ok /\ has_post(r) THEN part(f, "post", get_post(r, f.w)) ELSE f
foot(r, w) == IF w.ok /\ has_foot(r) THEN get_foot(r, w) ELSE w
gap_after(r, w) ==
  get_gap(r, w, IF is_rcmm(r) THEN 1000
                ELSE IF is_const(r) THEN rest(min_gap(r), w.sum) ELSE min_gap(r))
frame_gap(r, w, header) == IF w.ok THEN gap_after(r, without_header(r, w, header)) ELSE w
frame_end(r, f, header) ==
  IF f.ok THEN ended_by(f, frame_gap(r, foot(r, get_trail(r, f.w)), header)) ELSE f
frame(r, w, header, update_mode) ==
  frame_end(r, with_post(r, with_code(r, with_pre(r, frame_begun(get_lead(r, w)), update_mode))), header)
raw_frame(w) ==
  [w |-> w, ok |-> w.v # Fail, pre |-> 0, code |-> IF w.v = Fail THEN 0 ELSE w.v, post |-> 0]

(* What LIRC_MODE_LIRCCODE knows: the code, and the time a signal takes. *)
whole_code(r, w) ==
  [ok |-> TRUE, post |-> w.decoded & gen_mask(r.post_data_bits),
   code |-> shiftR(w.decoded, r.post_data_bits) & gen_mask(r.bits),
   pre |-> shiftR(w.decoded, r.post_data_bits + r.bits), w |-> w]
signal_length(r) ==
  LET sum == r.phead + r.shead + larger(r.pone + r.sone, r.pzero + r.szero) * bit_count(r)
               + r.plead + r.ptrail + r.pfoot + r.sfoot + r.pre_p + r.pre_s + r.post_p + r.post_s
  IN IF sum >= r.gap THEN r.gap - 1 ELSE sum

decoded_ctx(r, st, w, f, sync) ==
  LET soon == w.mode = "LIRCCODE" /\ w.now - st.last_send < 325000
      early == /\ ~has_repeat(r) \/ st.reps < r.min_code_repeat
               /\ expect_at_most(r, sync, st.max_remaining_gap)
  IN [ok |-> TRUE, pre |-> f.pre, code |-> f.code, post |-> f.post, repeat_flag |-> early \/ soon,
      min_remaining_gap |-> IF is_const(r) THEN rest(min_gap(r), w.sum) ELSE min_gap(r),
      max_remaining_gap |-> IF is_const(r) THEN rest(max_gap(r), w.sum) ELSE max_gap(r)]

repeat_ctx(r, st, w) ==
  [ok |-> TRUE, pre |-> r.pre_data, code |-> code_of(r, st, st.last_code), post |-> r.post_data,
   repeat_flag |-> TRUE, min_remaining_gap |-> repeat_rest(r, w, min_gap(r)),
   max_remaining_gap |-> repeat_rest(r, w, max_gap(r))]

(* The code of a signal, sync is the gap before it. *)
frame_decoded(r, f, st, sync) ==
  IF f.ok THEN [w |-> f.w, st |-> st, ctx |-> decoded_ctx(r, st, f.w, f, sync)]
  ELSE [refused(f.w, st) EXCEPT !.ctx.code = f.code]
header_decoded(r, w, st, last, sync, update_mode) ==
  LET headless == "NO_HEAD_REP" \in r.flags /\ expect_at_most(r, sync, max_gap(r)) IN
  IF has_header(r) /\ ~w.ok /\ ~headless THEN refused(w, st)
  ELSE frame_decoded(r, IF is_raw(r) THEN raw_frame(raw_button(r, w, last, 1))
                        ELSE frame(r, w, w.ok, update_mode), st, sync)
code_decoded(r, w, st, last, sync, update_mode) ==
  header_decoded(r, IF has_header(r) THEN get_header(r, w) ELSE no(w), st, last, sync, update_mode)

(* A repeat of the remote that was decoded last is looked for first.  t is *)
(* w, whether that has settled it, and whether there is a repeat.          *)
repeat_tried(w, last, r) ==
  IF w.ok THEN [w |-> w, settled |-> TRUE, repeat |-> TRUE]
  ELSE [w |-> sync_rec_buffer(r, rewind(w), last), settled |-> FALSE, repeat |-> FALSE]
repeat_header(r, w) ==
  IF "REPEAT_HEADER" \in r.flags /\ has_header(r) THEN get_header(r, w) ELSE yes(w)
repeat_after(r, w, last) ==
  IF w.ok THEN repeat_tried(get_repeat(r, w), last, r)
  ELSE [w |-> w, settled |-> TRUE, repeat |-> FALSE]
try_repeat(r, w, last, is_last) ==
  IF has_repeat(r) /\ is_last THEN repeat_after(r, repeat_header(r, w), last)
  ELSE [w |-> w, settled |-> FALSE, repeat |-> FALSE]
repeat_or_code(r, t, st, last, sync, update_mode) ==
  IF ~t.settled THEN code_decoded(r, t.w, st, last, sync, update_mode)
  ELSE IF ~t.repeat \/ st.last_code = 0 THEN refused(t.w, st)
  ELSE [w |-> t.w, st |-> st, ctx |-> repeat_ctx(r, st, t.w)]
toggle_restarted(r, w, st, last) ==
  IF restarts_toggle(r, w, last) THEN [st EXCEPT !.toggle_mask_state = 0, !.toggle_code = 0] ELSE st
signal_decode(r, w, st, last, is_last, update_mode) ==
  IF w.n = 0 THEN refused(w, st)
  ELSE repeat_or_code(r, try_repeat(r, w, last, is_last), toggle_restarted(r, w, st, last),
                      last, w.n, update_mode)

lirccode_decode(r, w, st) ==
  IF is_raw(r) \/ w.code_length # bit_count(r) THEN refused(w, st)
  ELSE frame_decoded(r, whole_code(r, [w EXCEPT !.sum = signal_length(r)]), st,
                     w.now - st.last_send - signal_length(r))

receive_decode(r, w, st, last, is_last, update_mode) ==
  IF w.at_eof /\ wptr(w) - w.rptr <= 1
  THEN [w |-> [w EXCEPT !.at_eof = FALSE], st |-> st,
        ctx |-> [no_ctx EXCEPT !.ok = TRUE]]   \* code LIRC_EOF, none of the bits of a code
  ELSE IF w.mode = "LIRCCODE" THEN lirccode_decode(r, w, st)
  ELSE signal_decode(r, sync_rec_buffer(r, rewind(w), last), st, last, is_last, update_mode)

-----------------------------------------------------------------------------
(* decode_all(): the remotes R in their order; g is what the daemon keeps: *)
(* w, the states st of the remotes, last_remote, last_decoded (0 for none), *)
(* the release data, and in msg what is returned, <<>> for NULL.           *)
receiver(R, w) ==
  [w |-> w, st |-> [i \in DOMAIN R |-> fresh(R[i])], last_remote |-> 0, last_decoded |-> 0,
   release |-> <<>>, release2 |-> <<>>, msg |-> <<>>]

(* register_button_press(): a new button ends the one before. *)
RELEASE_MARGIN == 10000
register_button_press(g, r, m) ==
  [g EXCEPT !.release2 = IF m.reps = 0 /\ g.release # <<>> THEN g.release ELSE @,
            !.release = <<m>>,
            !.w.release_time = g.w.now
              + upper_limit(r, r.max_total_signal_length - r.min_gap_length)
              + receive_timeout(upper_limit(r, r.min_gap_length)) + RELEASE_MARGIN]

(* A button was found: it is a part of a code, a repeat that is            *)
(* suppressed, or a message.                                               *)
button_found(R, g, i, k) ==
  LET r == R[i]
      st == g.st[i]
      partial == (has_toggle_mask(r) /\ st.toggle_mask_state % 2 = 1) \/ node_of(r, st, k) # 0
      cleared == [j \in DOMAIN R |->
                    [g.st[j] EXCEPT !.current =
                       [c \in DOMAIN @ |-> IF j = i /\ c = k /\ is_xmp(r)
                                           THEN get_next_ir_code_node(r.codes[c], 0) ELSE 0]]]
      reps == st.reps - (IF Len(seq_of(r, k)) > 1 THEN 1 ELSE 0)
      m == [remote |-> i, button |-> k, code |-> reported_code(r, st, k),
            reps |-> IF reps > 0 THEN reps - r.suppress_repeat ELSE reps]
  IN IF partial THEN g
     ELSE IF reps > 0 /\ reps <= r.suppress_repeat THEN [g EXCEPT !.st = cleared]
     ELSE register_button_press([g EXCEPT !.st = cleared, !.msg = <<m>>], r, m)

RECURSIVE decode_from(_, _, _)
matched(R, g, i, d, c) ==
  IF d.ctx.ok /\ c.found # 0
  THEN button_found(R, [g EXCEPT !.w = d.w, !.last_remote = i, !.last_decoded = i,
                          !.st[i] = set_code(R[i], c.st, c.found, c.toggle, d.ctx,
                                             g.last_decoded = i, d.w.now)], i, c.found)
  ELSE decode_from(R, [g EXCEPT !.w = d.w,
                         !.st[i] = [(IF d.ctx.ok THEN c.st ELSE d.st) EXCEPT !.toggle_mask_state = 0]],
                   i + 1)
decoded_by(R, g, i, d) == matched(R, g, i, d, get_code(R[i], d.st, d.ctx))
last_of(R, g) == IF g.last_remote = 0 THEN <<>> ELSE <<R[g.last_remote], g.st[g.last_remote]>>
decode_from(R, g, i) ==
  IF i > Len(R) THEN [g EXCEPT !.last_remote = 0]
  ELSE decoded_by(R, g, i,
         receive_decode(R[i], g.w, g.st[i], last_of(R, g), g.last_remote = i, FALSE))
decode_all(R, g) == decode_from(R, [g EXCEPT !.msg = <<>>], 1)

(* default_rec() *)
rec_func(R, g) == decode_all(R, [g EXCEPT !.w = rec_buffer_clear(@)])
=============================================================================
