----------------------------- MODULE MCIrrecord -----------------------------
(* Instances of Irrecord: remote controls of nine and more bits, so that   *)
(* signals are longer than repeat codes; two of them with eight bits that  *)
(* all buttons have, to be taken out of the codes.                         *)
EXTENDS Irrecord

button(name, code) == [name |-> name, seq |-> <<code>>, signals |-> <<>>]
remote(f) == calculate_signal_lengths(f @@ no_remote)
two(a, b) == <<button("KEY_1", a), button("KEY_2", b)>>

nec == remote([name |-> "nec", codes |-> two(521, 522), bits |-> 10, phead |-> 9000, shead |-> 4500,
  pone |-> 560, sone |-> 1690, pzero |-> 560, szero |-> 560, ptrail |-> 560,
  gap |-> 108000, flags |-> {"CONST_LENGTH"}])
pulses == remote([name |-> "pulses", codes |-> two(325, 581), bits |-> 10, pone |-> 1200, sone |-> 600,
  pzero |-> 600, szero |-> 600, phead |-> 2400, shead |-> 600, gap |-> 45000, flags |-> {"CONST_LENGTH"}])
rc5 == remote([name |-> "rc5", proto |-> "RC5", codes |-> two(4, 85), bits |-> 9, pone |-> 889, sone |-> 889,
  pzero |-> 889, szero |-> 889, plead |-> 889, gap |-> 113792, flags |-> {"CONST_LENGTH"},
  toggle_bit_mask |-> 128])

shot == remote([name |-> "shot", codes |-> two(261, 310), bits |-> 9, phead |-> 9000, shead |-> 4500,
  pone |-> 560, sone |-> 1690, pzero |-> 560, szero |-> 560, ptrail |-> 560,
  prepeat |-> 9000, srepeat |-> 2250, gap |-> 108000, flags |-> {"CONST_LENGTH"}])
rc6 == remote([name |-> "rc6", proto |-> "RC6", codes |-> two(4, 85), bits |-> 21, pone |-> 444, sone |-> 444,
  pzero |-> 444, szero |-> 444, phead |-> 2666, shead |-> 889, gap |-> 107000, flags |-> {"CONST_LENGTH"},
  rc6_mask |-> 65536, toggle_bit_mask |-> 65536])
signal_of(r, k) == send_buffer_put(r, fresh(r), k, FALSE).t.data
raw == [remote([name |-> "raw", gap |-> 45000, eps |-> 30, aeps |-> 100, proto |-> "RAW_CODES"]) EXCEPT
         !.codes = <<[name |-> "KEY_1", seq |-> <<1>>, signals |-> signal_of(pulses, 1)],
                     [name |-> "KEY_2", seq |-> <<2>>, signals |-> signal_of(pulses, 2)]>>]

plain == [force |-> FALSE, update |-> FALSE, analyse |-> FALSE, test |-> {}, template |-> <<>>,
          disk |-> no_disk, lirccode |-> FALSE]
known(d) == [plain EXCEPT !.template = fprint_remotes(<<d>>)]

(* Files: old keys, bits that do not fit, comments, sequences of codes, a  *)
(* button that is called begin; includes before, after and between.        *)
w(s) == word(s)
remote_text(name, lines, codes) ==
  <<begins("remote"), <<w("name"), w(name)>>>> \o lines \o <<begins("codes")>> \o codes
    \o <<ends("codes"), ends("remote")>>
code(name, n) == <<w(name), num(n)>>
space_enc == <<pair("one", 560, 1690), pair("zero", 560, 560), pair("header", 9000, 4500),
               entry("ptrail", 560), entry("eps", 30), entry("aeps", 100)>>
old == remote_text("old", space_enc \o
  <<<<w("flags"), flag_list(<<"SPACE_ENC", "REVERSE">>)>>, <<w("flags"), flag_list(<<"CONST_LENGTH">>)>>,
    entry("bits", 8), entry("pre_data_bits", 4), entry("pre_data", 19), entry("gap", 108000),
    entry("frequency", 36000), entry("min_repeat", 1), entry("min_code_repeat", 2), <<w("#"), w("x")>>>>,
  <<code("KEY_1", 131), code("KEY_2", 67), <<w("begin"), num(257), w("#"), w("x")>>>>)
toggling == remote_text("toggling",
  <<<<w("flags"), flag_list(<<"SHIFT_ENC">>)>>, pair("one", 889, 889), pair("zero", 889, 889),
    entry("plead", 889), entry("eps", 30), entry("aeps", 100), entry("bits", 9), pair("gap", 113792, 90000),
    entry("repeat_bit", 2), entry("duty_cycle", 33), entry("suppress_repeat", 2)>>,
  <<code("KEY_1", 4), code("KEY_2", 85)>>)
chars == remote_text("chars",
  <<<<w("flags"), flag_list(<<"SERIAL">>)>>, entry("baud", 2000), <<w("serial_mode"), serial(7, "none", 3)>>,
    entry("bits", 7), entry("gap", 60000), <<w("driver"), w("default")>>>>, <<code("KEY_1", 65)>>)
raw_text == <<begins("remote"), <<w("name"), w("raws")>>, entry("gap", 40000), entry("eps", 30),
              entry("aeps", 100), begins("raw_codes"), <<w("name"), w("KEY_1")>>,
              <<num(900), num(900)>>, <<num(900)>>, <<w("name"), w("KEY_2")>>,
              <<num(900), num(1800), num(900), num(900), num(900), num(900)>>, <<num(900)>>,
              ends("raw_codes"), ends("remote")>>
by_hand(text) == <<<<w("#")>>, <<>>>> \o text
include(pattern) == <<<<w("include"), w(pattern)>>>>
disk == [files |-> [old |-> old, toggling |-> include("chars") \o toggling, chars |-> by_hand(chars), raws |-> raw_text,
                    loop |-> include("loop") \o chars, broken |-> Front(chars), gone |-> <<>>],
         unreadable |-> {"gone"},
         glob |-> [all |-> <<"old", "raws", "toggling">>, chars |-> <<"chars">>, loop |-> <<"loop">>,
                   broken |-> <<"broken">>, gone |-> <<"gone">>, none |-> <<>>]]
test(text, t) == [plain EXCEPT !.test = t, !.template = text, !.disk = disk]
read_from(f) == read_config(no_disk, f).rems[1]
Texts == {old \o include("none") \o toggling \o chars, include("all"), raw_text \o include("chars") \o old,
          include("chars") \o raw_text \o include("all"), include("loop"),
          chars \o <<begins("remote"), entry("manual_sort", 1)>> \o Tail(old) \o include("chars")}
BadTexts == {include("broken") \o old, old \o include("gone"), Front(old), Tail(old),
             <<begins("remote"), <<w("flags"), flag_list(<<"RAW_CODES">>)>>, <<w("name"), w("x")>>, ends("remote")>>}

MCCases ==
  {<<d, plain>> : d \in {nec, pulses, rc5, shot, rc6}}
    \cup {<<nec, [plain EXCEPT !.force = TRUE]>>, <<rc5, [plain EXCEPT !.lirccode = TRUE]>>,
          <<nec, known(nec)>>, <<nec, [known(nec) EXCEPT !.update = TRUE]>>,
          <<nec, [known(nec) EXCEPT !.force = TRUE]>>,
          <<pulses, [known(raw) EXCEPT !.analyse = TRUE]>>, <<nec, [known(nec) EXCEPT !.analyse = TRUE]>>}
    \cup {<<d, [known(d) EXCEPT !.test = t]>> :
            d \in {nec, pulses}, t \in {{"pre"}, {"post", "invert"}, {"trail", "pre", "post"}}}
    \cup {<<d, test(f, t)>> : d \in {read_from(old), read_from(toggling)}, f \in Texts,
                              t \in {{"post"}, {"trail", "pre"}}}
    \cup {<<read_from(old), test(old \o include("none"), t)>> : t \in {{"invert"}, {"invert", "post", "pre"}}}
    \cup {<<nec, test(f, {"pre"})>> : f \in BadTexts}
MCNoise == <<[t |-> "p", n |-> 300], [t |-> "s", n |-> 350], [t |-> "p", n |-> 2000]>>
=============================================================================
