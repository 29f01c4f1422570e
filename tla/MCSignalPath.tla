---------------------------- MODULE MCSignalPath ----------------------------
(* Instances of SignalPath: one remote of each protocol, two buttons each. *)
EXTENDS SignalPath

button(name, code) == [name |-> name, seq |-> <<code>>, signals |-> <<>>]
two == <<button("one", 1), button("two", 2)>>
remote(f) == calculate_signal_lengths(f @@ no_remote)

nec == remote([name |-> "nec", codes |-> two, bits |-> 2, pre_data_bits |-> 2, pre_data |-> 2,
  phead |-> 9000, shead |-> 4500, pone |-> 560, sone |-> 1690, pzero |-> 560, szero |-> 560,
  ptrail |-> 560, prepeat |-> 9000, srepeat |-> 2250, gap |-> 108000, flags |-> {"CONST_LENGTH"},
  suppress_repeat |-> 1])
rc5 == remote([name |-> "rc5", proto |-> "RC5", codes |-> two, bits |-> 3, pone |-> 889, sone |-> 889,
  pzero |-> 889, szero |-> 889, plead |-> 889, gap |-> 113792, flags |-> {"CONST_LENGTH"},
  toggle_bit_mask |-> 4])
rc6 == remote([name |-> "rc6", proto |-> "RC6", codes |-> two, bits |-> 2, pre_data_bits |-> 1,
  phead |-> 2664, shead |-> 888, pone |-> 444, sone |-> 444, pzero |-> 444, szero |-> 444,
  gap |-> 108000, rc6_mask |-> 4, toggle_bit_mask |-> 4])

sf == remote([name |-> "sf", proto |-> "SPACE_FIRST", codes |-> two, bits |-> 2, plead |-> 600,
  pone |-> 500, sone |-> 1500, pzero |-> 500, szero |-> 500, gap |-> 50000])
rcmm == remote([name |-> "rcmm", proto |-> "RCMM", codes |-> two, bits |-> 4, phead |-> 417, shead |-> 278,
  pzero |-> 167, szero |-> 278, pone |-> 167, sone |-> 444, ptwo |-> 167, stwo |-> 612,
  pthree |-> 167, sthree |-> 779, ptrail |-> 167, gap |-> 27000, aeps |-> 70, eps |-> 10])
xmp == remote([name |-> "xmp", proto |-> "XMP", bits |-> 4, pzero |-> 210, szero |-> 760, sone |-> 137,
  ptrail |-> 210, gap |-> 80000,
  codes |-> <<[name |-> "one", seq |-> <<3, 9>>, signals |-> <<>>],
              [name |-> "two", seq |-> <<4, 9>>, signals |-> <<>>]>>])
raw == remote([name |-> "raw", proto |-> "RAW_CODES", gap |-> 40000,
  codes |-> <<[name |-> "one", seq |-> <<1>>, signals |-> <<900, 900, 900>>],
              [name |-> "two", seq |-> <<2>>, signals |-> <<900, 1800, 900, 900, 900>>]>>])
head1 == remote([name |-> "head1", codes |-> two, bits |-> 2, phead |-> 3000, shead |-> 3000,
  pone |-> 500, sone |-> 2000, pzero |-> 500, szero |-> 1000, ptrail |-> 500, gap |-> 60000,
  flags |-> {"CONST_LENGTH", "NO_HEAD_REP"}])
pairs == remote([name |-> "pairs", codes |-> two, bits |-> 3, phead |-> 3000, shead |-> 3000,
  pone |-> 500, sone |-> 2000, pzero |-> 500, szero |-> 1000, ptrail |-> 500, gap |-> 60000,
  toggle_mask |-> 8, post_data_bits |-> 1, post_data |-> 1, pfoot |-> 700, sfoot |-> 4000])
macro == remote([name |-> "macro", bits |-> 2, pre_data_bits |-> 1, pre_data |-> 1, pre_p |-> 900, pre_s |-> 900,
  pone |-> 500, sone |-> 2000, pzero |-> 500, szero |-> 1000, ptrail |-> 500, gap |-> 60000,
  codes |-> <<[name |-> "one", seq |-> <<1, 2>>, signals |-> <<>>],
              [name |-> "two", seq |-> <<1, 3>>, signals |-> <<>>]>>])
short == remote([name |-> "short", codes |-> two, bits |-> 2, pone |-> 1200, sone |-> 600, pzero |-> 600,
  szero |-> 600, gap |-> 8000, min_repeat |-> 1])
grundig == remote([name |-> "grundig", proto |-> "GRUNDIG", codes |-> two, bits |-> 4, plead |-> 528,
  pzero |-> 528, szero |-> 528, pone |-> 528, sone |-> 1056, ptwo |-> 528, stwo |-> 1584,
  pthree |-> 528, sthree |-> 2640, gap |-> 100000])
bo == remote([name |-> "bo", proto |-> "BO", codes |-> two, bits |-> 3, phead |-> 200, shead |-> 15000,
  pone |-> 200, sone |-> 3000, ptwo |-> 200, stwo |-> 6000, pthree |-> 200, sthree |-> 9000,
  ptrail |-> 200, gap |-> 100000])
serial == remote([name |-> "serial", proto |-> "SERIAL", codes |-> two, bits |-> 4, baud |-> 1000,
  bits_in_byte |-> 4, parity |-> "even", pone |-> 1000, sone |-> 1000, pzero |-> 1000, szero |-> 1000,
  gap |-> 100000])

Singles == {nec, rc5, rc6, sf, rcmm, xmp, raw, head1, pairs, macro, short, grundig, bo, serial}
MCFiles == {<<r>> : r \in Singles} \cup {<<nec, rc5>>, <<rc5, nec>>}
pulse(n) == [t |-> "p", n |-> n]
MCNoises == {<<>>, <<pulse(300), space(350)[1], pulse(2000)>>,
               [j \in 1..31 |-> [t |-> IF j % 2 = 1 THEN "p" ELSE "s", n |-> 300]]}
=============================================================================
