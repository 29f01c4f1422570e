----------------------------- MODULE ConfigFile -----------------------------
(***************************************************************************)
(* lircd.conf: read_config() of lib/config_file.c with its includes, its   *)
(* checks and its sorting, and fprint_remotes() of lib/dump_config.c.      *)
(*                                                                         *)
(* A file is a sequence of lines, a line a sequence of tokens.  A token is *)
(* a word that may also be read as a number (n, -1 if it is none), as a    *)
(* list of flags or as a serial mode <<bits in a byte, parity, stop bits    *)
(* times two>>.  A disk d holds files, some of which cannot be opened, and *)
(* says which ones the pattern of an include line matches.                 *)
(***************************************************************************)
EXTENDS Transmit, SequencesExt

CONSTANT MAX_INCLUDES    \* depth of include lines (10)

ASSUME MaxIncludesAssumption == MAX_INCLUDES \in Nat

DEFAULT_FREQ == 38000
word(s) == [w |-> s, n |-> -1, list |-> <<>>, mode |-> <<>>]
num(i) == [word(ToString(i)) EXCEPT !.n = i]
flag_list(names) == [word("|") EXCEPT !.list = names]
serial(bits, parity, stop) == [word("8N1") EXCEPT !.mode = <<bits, parity, stop>>]
is_num(tok) == tok.n >= 0

no_disk == [files |-> << >>, unreadable |-> {}, glob |-> << >>]

-----------------------------------------------------------------------------
(* The lines of a remote: defineRemote() *)
protocols == {"RAW_CODES", "RC5", "SHIFT_ENC", "RC6", "RCMM", "SPACE_ENC", "SPACE_FIRST",
              "GRUNDIG", "BO", "SERIAL", "XMP"}
all_flags == protocols \cup {"REVERSE", "NO_HEAD_REP", "NO_FOOT_REP", "CONST_LENGTH", "REPEAT_HEADER"}

number_of == [k \in {"bits", "eps", "aeps", "plead", "ptrail", "pre_data_bits", "pre_data",
                     "post_data_bits", "post_data", "repeat_gap", "repeat_mask", "toggle_bit",
                     "toggle_bit_mask", "toggle_mask", "rc6_mask", "ignore_mask", "manual_sort",
                     "suppress_repeat", "min_repeat", "min_code_repeat", "duty_cycle", "baud"} |-> k]
               @@ [repeat_bit |-> "toggle_bit", frequency |-> "freq"]
pair_of == [header |-> <<"phead", "shead">>, three |-> <<"pthree", "sthree">>, two |-> <<"ptwo", "stwo">>,
            one |-> <<"pone", "sone">>, zero |-> <<"pzero", "szero">>, foot |-> <<"pfoot", "sfoot">>,
            repeat |-> <<"prepeat", "srepeat">>, pre |-> <<"pre_p", "pre_s">>, post |-> <<"post_p", "post_s">>]

(* A second flags line adds to the first one, protocols too. *)
parseFlags(r, names) ==
  LET given == {IF names[i] = "SHIFT_ENC" THEN "RC5" ELSE names[i] : i \in DOMAIN names}
      proto == given \cap protocols
      many == Cardinality({i \in DOMAIN names : names[i] \in protocols}) > 1
  IN [ok |-> names # <<>> /\ given \subseteq all_flags /\ ~many,
      r |-> [r EXCEPT !.flags = @ \cup (given \ protocols),
                      !.proto = IF proto \subseteq {@} THEN @
                                ELSE IF @ = "none" THEN CHOOSE p \in proto : TRUE ELSE "several"]]

serial_mode(r, m) ==
  [ok |-> m # <<>> /\ m[1] \in 5..9 /\ m[2] \in {"none", "even", "odd"} /\ (m[3] = 3 \/ m[3] % 2 = 0),
   r |-> IF m = <<>> THEN r ELSE [r EXCEPT !.bits_in_byte = m[1], !.parity = m[2], !.stop_bits = m[3]]]

(* With --dynamic-codes no key but the two names is known: the others are  *)
(* in the else branch.                                                     *)
defineRemote(r, line) ==
  LET key == line[1].w
      val == line[2]
      two == Len(line) > 2
      set(ok, x) == [ok |-> ok, r |-> IF ok THEN x ELSE r]
  IN IF key = "name" THEN set(TRUE, [r EXCEPT !.name = val.w])
     ELSE IF dyncodes THEN set(key = "dyncodes_name", r)
     ELSE IF key = "driver" THEN set(TRUE, [r EXCEPT !.driver = val.w])
     ELSE IF key = "flags" THEN parseFlags(r, val.list)
     ELSE IF key = "serial_mode" THEN serial_mode(r, val.mode)
     ELSE IF key = "gap"
     THEN set(is_num(val) /\ (two => is_num(line[3])),
              [r EXCEPT !.gap = val.n, !.gap2 = IF two THEN line[3].n ELSE @])
     ELSE IF key \in DOMAIN number_of THEN set(is_num(val), [r EXCEPT ![number_of[key]] = val.n])
     ELSE IF key \in DOMAIN pair_of /\ two
     THEN set(is_num(val) /\ is_num(line[3]),
              [r EXCEPT ![pair_of[key][1]] = val.n, ![pair_of[key][2]] = line[3].n])
     ELSE set(FALSE, r)

(* The bits that do not fit are cut off. *)
sanityChecks(r, defined) ==
  LET cut(codes) == [k \in DOMAIN codes |->
                       [codes[k] EXCEPT !.seq = [i \in DOMAIN @ |-> @[i] & gen_mask(r.bits)]]]
  IN [ok |-> r.name # "" /\ (defined \/ is_raw(r)),
      r |-> IF is_raw(r) THEN r
            ELSE [r EXCEPT !.pre_data = @ & gen_mask(r.pre_data_bits),
                           !.post_data = @ & gen_mask(r.post_data_bits), !.codes = cut(@)]]
-----------------------------------------------------------------------------
(* The reader.  rems is the list top_rem, rem the remote being read and at *)
(* its place in the list (0 once the list has lost it); defined says that  *)
(* it has codes, and null that a remote of the list has none; codes,       *)
(* button and signals are the arrays under construction.                   *)
empty_list == [mode |-> "none", rems |-> <<>>, rem |-> blank, at |-> 0, defined |-> FALSE, null |-> {},
          codes |-> <<>>, button |-> "", signals |-> <<>>, err |-> FALSE, crash |-> FALSE]

broken(p) == [p EXCEPT !.err = TRUE]
checkMode(p, mode, q) == IF p.mode = mode THEN q ELSE broken(p)

addSignal(p, toks) ==
  IF \A i \in DOMAIN toks : is_num(toks[i])
  THEN [p EXCEPT !.signals = @ \o [i \in DOMAIN toks |-> toks[i].n]] ELSE broken(p)

(* A code and those that follow it, up to a comment. *)
defineCode(p, line) ==
  LET end == {i \in 3..Len(line) : line[i].w = "#"}
      codes == SubSeq(line, 2, IF end = {} THEN Len(line) ELSE Min(end) - 1)
  IN IF \A i \in DOMAIN codes : is_num(codes[i])
     THEN [p EXCEPT !.codes = Append(@, [name |-> line[1].w, signals |-> <<>>,
                                         seq |-> [i \in DOMAIN codes |-> codes[i].n]])]
     ELSE broken(p)

(* The raw button that has been read, if any; they are numbered. *)
close_raw(p) ==
  IF p.mode # "raw_name" THEN p
  ELSE IF Len(p.signals) % 2 = 0 THEN broken(p)
  ELSE [p EXCEPT !.codes = Append(@, [name |-> p.button, seq |-> <<Len(@) + 1>>, signals |-> p.signals]),
                 !.mode = "raw_codes"]
raw_line(p, line) ==
  IF line[1].w = "name"
  THEN LET q == close_raw(p) IN
       IF q.err THEN q ELSE [q EXCEPT !.button = line[2].w, !.signals = <<>>, !.mode = "raw_name"]
  ELSE IF p.mode = "raw_codes" THEN broken(p) ELSE addSignal(p, line)

begin_section(p, what) ==
  CASE what = "remote" ->
         LET r == [blank EXCEPT !.freq = DEFAULT_FREQ] IN
         checkMode(p, "none", [p EXCEPT !.mode = "remote", !.rem = r, !.rems = Append(@, r),
                                        !.at = Len(p.rems) + 1, !.defined = FALSE])
    [] what = "codes" ->
         IF p.defined THEN broken(p) ELSE checkMode(p, "remote", [p EXCEPT !.mode = "codes", !.codes = <<>>])
    [] what = "raw_codes" ->
         IF p.defined THEN broken(p)
         ELSE checkMode(p, "remote", [p EXCEPT !.mode = "raw_codes", !.codes = <<>>, !.rem.proto = "RAW_CODES"])

(* "end remote" also cuts the list behind the remote. *)
end_remote(p) ==
  LET s == sanityChecks(p.rem, p.defined) IN
  IF ~s.ok THEN broken(p)
  ELSE [p EXCEPT !.mode = "none", !.rem = s.r,
                 !.rems = IF p.at = 0 THEN @ ELSE Append(SubSeq(@, 1, p.at - 1), s.r),
                 !.null = {i \in @ : i < p.at} \cup (IF p.defined \/ p.at = 0 THEN {} ELSE {p.at})]
with_codes(p) == [p EXCEPT !.mode = "remote", !.rem.codes = p.codes, !.defined = TRUE]
end_section(p, what) ==
  CASE what = "remote" -> checkMode(p, "remote", end_remote(p))
    [] what = "codes" -> checkMode(p, "codes", with_codes(p))
    [] what = "raw_codes" -> LET q == close_raw(p) IN
                             IF q.err THEN q ELSE checkMode(q, "raw_codes", with_codes(q))

(* What is not an include line *)
read_line(p, line) ==
  LET key == line[1].w
      section == Len(line) > 1 /\ line[2].w \in {"codes", "raw_codes", "remote"}
  IN IF Len(line) = 1 THEN IF p.mode = "raw_name" THEN addSignal(p, line) ELSE broken(p)
     ELSE IF key = "begin" /\ section THEN begin_section(p, line[2].w)
     ELSE IF key = "end" /\ section THEN end_section(p, line[2].w)
     ELSE IF p.mode = "codes" THEN defineCode(p, line)
     ELSE IF key \in {"begin", "end"} THEN broken(p)
     ELSE IF p.mode = "remote"
     THEN LET d == defineRemote(p.rem, line) IN IF d.ok THEN [p EXCEPT !.rem = d.r] ELSE broken(p)
     ELSE IF p.mode \in {"raw_codes", "raw_name"} THEN raw_line(p, line) ELSE p
-----------------------------------------------------------------------------
(* What is done to a remote when its file has been read, and once more     *)
(* when the file that includes it has been read: old keys are turned into  *)
(* new ones.                                                               *)
reversed(r) ==
  IF is_raw(r) \/ "REVERSE" \notin r.flags THEN r
  ELSE [r EXCEPT !.pre_data = IF has_pre(r) THEN reverse(@, r.pre_data_bits) ELSE @,
                 !.post_data = IF has_post(r) THEN reverse(@, r.post_data_bits) ELSE @,
                 !.codes = [k \in DOMAIN @ |-> [@[k] EXCEPT !.seq[1] = reverse(@, r.bits)]],
                 !.flags = (@ \ {"REVERSE"}) \cup {"COMPAT_REVERSE"}]
with_toggle_mask(r) ==
  LET mask == 2^(bit_count(r) - r.toggle_bit) IN
  IF r.toggle_bit = 0 THEN r
  ELSE [r EXCEPT !.rc6_mask = IF r.proto = "RC6" /\ @ = 0 THEN mask ELSE @,
                 !.toggle_bit_mask = IF has_toggle_bit_mask(r) THEN @ ELSE mask, !.toggle_bit = 0]
with_serial(r) ==
  LET none(p, s) == r.baud > 0 /\ p = 0 /\ s = 0 IN
  IF ~is_serial(r) THEN r
  ELSE [r EXCEPT !.pzero = IF none(r.pzero, r.szero) THEN serial_base(r) ELSE @,
                 !.sone = IF none(r.pone, r.sone) THEN serial_base(r) ELSE @,
                 !.bits_in_byte = IF @ = 0 THEN 8 ELSE @]
with_repeats(r) ==
  IF has_repeat(r) /\ r.min_code_repeat <= r.min_repeat THEN r ELSE [r EXCEPT !.min_code_repeat = 0]
completed(r) == calculate_signal_lengths(with_repeats(with_serial(with_toggle_mask(reversed(r)))))

(* Reading a file; a file that cannot be opened returns an empty list in   *)
(* place of the one it was to be added to, one with an error leaves the    *)
(* list and parse_error to the includer.                                   *)
RECURSIVE read_lines(_, _, _, _), read_all_included(_, _, _, _)
all_read(p) ==
  IF p.crash THEN p
  ELSE IF p.err \/ p.mode # "none" THEN [empty_list EXCEPT !.err = TRUE]
  ELSE IF p.null # {} THEN [p EXCEPT !.crash = TRUE]        \* codes == NULL
  ELSE [p EXCEPT !.rems = [i \in DOMAIN @ |-> completed(@[i])]]
read_config_recursive(d, text, depth) == all_read(read_lines(d, text, empty_list, depth))

ir_remotes_append_in_front(p, child) ==
  [p EXCEPT !.rems = (IF child.err THEN <<>> ELSE child.rems) \o @, !.err = child.err, !.crash = child.crash]

ir_remotes_append(p, child) ==
  [p EXCEPT !.rems = @ \o (IF child.err THEN <<>> ELSE child.rems), !.err = child.err, !.crash = child.crash]
read_included(d, p, name, depth) ==
  IF p.crash \/ depth > MAX_INCLUDES THEN p
  ELSE IF name \in d.unreadable THEN [p EXCEPT !.rems = <<>>, !.at = 0, !.null = {}]
  ELSE ir_remotes_append(p, read_config_recursive(d, d.files[name], depth + 1))
read_all_included(d, p, names, depth) ==
  IF names = <<>> THEN p
  ELSE read_all_included(d, read_included(d, p, Head(names), depth), Tail(names), depth)

(* Line by line (by halves of the text), up to an error; comments and      *)
(* empty lines are skipped.                                                *)
read_lines(d, text, p, depth) ==
  LET line == Head(text)
      half == Len(text) \div 2
      names == IF line[2].w \in DOMAIN d.glob THEN d.glob[line[2].w] ELSE <<>>
  IN IF text = <<>> \/ p.err \/ p.crash THEN p
     ELSE IF half > 0
     THEN read_lines(d, SubSeq(text, half + 1, Len(text)),
                     read_lines(d, SubSeq(text, 1, half), p, depth), depth)
     ELSE IF line = <<>> \/ line[1].w = "#" THEN p
     ELSE IF Len(line) > 1 /\ line[1].w = "include" THEN read_all_included(d, p, names, depth)
     ELSE read_line(p, line)

(* Sorting: what is decoded faster comes first, others keep their order.   *)
size(r) == IF is_raw(r) THEN Len(r.codes) ELSE bit_count(r)
remote_bits_cmp(x, y) ==
  IF is_raw(x) # is_raw(y) THEN (IF is_raw(x) THEN 1 ELSE -1) ELSE size(x) - size(y)
sorted_in(list, r) ==
  LET slower == {i \in DOMAIN list : remote_bits_cmp(list[i], r) > 0}
      at == IF slower = {} THEN Len(list) + 1 ELSE Min(slower)
  IN InsertAt(list, at, r)
sort_by_bit_count(list) ==
  IF \E i \in DOMAIN list : list[i].manual_sort # 0 THEN list ELSE FoldLeft(sorted_in, <<>>, list)

read_config(d, text) ==
  LET result(p) == [sts |-> IF p.crash THEN "crash" ELSE IF p.err THEN "error" ELSE "ok",
                    rems |-> IF p.crash \/ p.err THEN <<>> ELSE sort_by_bit_count(p.rems)]
  IN result(read_config_recursive(d, text, 0))
-----------------------------------------------------------------------------
(* The writer *)
optional(cond, line) == IF cond THEN <<line>> ELSE <<>>
entry(key, n) == <<word(key), num(n)>>
pair(key, p, s) == <<word(key), num(p), num(s)>>
begins(what) == <<word("begin"), word(what)>>
ends(what) == <<word("end"), word(what)>>

fprint_flags(r) ==
  LET given == {f \in r.flags \cup {r.proto} : f \in all_flags} IN
  optional(given # {}, <<word("flags"), flag_list(SetToSeq(given))>>)
fprint_remote_gap(r) == IF r.gap2 # 0 THEN <<pair("gap", r.gap, r.gap2)>> ELSE <<entry("gap", r.gap)>>
(* The lines of the keys that are not 0. *)
with_number(r, keys) ==
  FlattenSeq([i \in DOMAIN keys |-> optional(r[keys[i]] # 0, entry(keys[i], r[keys[i]]))])

fprint_lengths(r) ==
  optional(has_header(r), pair("header", r.phead, r.shead))
    \o optional(r.pthree # 0 \/ r.sthree # 0, pair("three", r.pthree, r.sthree))
    \o optional(r.ptwo # 0 \/ r.stwo # 0, pair("two", r.ptwo, r.stwo))
    \o <<pair("one", r.pone, r.sone), pair("zero", r.pzero, r.szero)>>
    \o with_number(r, <<"plead">>)
    \o optional(has_foot(r), pair("foot", r.pfoot, r.sfoot))
fprint_data(r) ==
  (IF has_pre(r) THEN <<entry("pre_data_bits", r.pre_data_bits), entry("pre_data", r.pre_data)>> ELSE <<>>)
    \o (IF has_post(r) THEN <<entry("post_data_bits", r.post_data_bits), entry("post_data", r.post_data)>>
        ELSE <<>>)
    \o optional(r.pre_p # 0 /\ r.pre_s # 0, pair("pre", r.pre_p, r.pre_s))
    \o optional(r.post_p # 0 /\ r.post_s # 0, pair("post", r.post_p, r.post_s))
fprint_masks(r) ==
  with_number(r, <<"min_code_repeat">>)
    \o <<entry("toggle_bit_mask", r.toggle_bit_mask)>>
    \o with_number(r, <<"toggle_mask", "repeat_mask", "rc6_mask", "ignore_mask">>)
    \o (IF is_serial(r)      \* the parity is always N
        THEN <<entry("baud", r.baud), <<word("serial_mode"), serial(r.bits_in_byte, "none", r.stop_bits)>>>>
        ELSE <<>>)
fprint_remote_head(r) ==
  LET coded(lines) == IF is_raw(r) THEN <<>> ELSE lines IN
  <<begins("remote"), <<word("name"), word(r.name)>>>>
    \o with_number(r, <<"manual_sort">>)
    \o optional(r.driver # "", <<word("driver"), word(r.driver)>>)
    \o coded(<<entry("bits", r.bits)>>)
    \o fprint_flags(r)
    \o <<entry("eps", r.eps), entry("aeps", r.aeps)>>
    \o coded(fprint_lengths(r))
    \o with_number(r, <<"ptrail">>)
    \o optional(has_repeat(r), pair("repeat", r.prepeat, r.srepeat))
    \o coded(fprint_data(r))
    \o fprint_remote_gap(r)
    \o with_number(r, <<"repeat_gap", "suppress_repeat", "min_repeat">>)
    \o coded(fprint_masks(r))
    \o optional(r.freq # 0, entry("frequency", r.freq))
    \o with_number(r, <<"duty_cycle">>)

(* Six lengths of a raw signal on a line *)
rows_full_only(s) ==
  [k \in 1..(Len(s) \div 6) |-> [j \in 1..6 |-> num(s[6 * (k - 1) + j])]]

rows(s) ==
  [k \in 1..((Len(s) + 5) \div 6) |->
     [j \in 1..(IF 6 * k <= Len(s) THEN 6 ELSE Len(s) - 6 * (k - 1)) |-> num(s[6 * (k - 1) + j])]]
fprint_remote_signal(r, b) ==
  IF is_raw(r) THEN <<<<word("name"), word(b.name)>>>> \o rows(b.signals)
  ELSE <<<<word(b.name)>> \o [i \in DOMAIN b.seq |-> num(b.seq[i])]>>
fprint_remote_signals(r) ==
  LET kind == IF is_raw(r) THEN "raw_codes" ELSE "codes" IN
  <<begins(kind)>>
    \o FlattenSeq([k \in DOMAIN r.codes |-> fprint_remote_signal(r, r.codes[k])])
    \o <<ends(kind)>>
fprint_comment(r) == <<<<word("#"), word(r.name)>>>>
fprint_remote(r) ==
  fprint_comment(r) \o fprint_remote_head(r) \o fprint_remote_signals(r) \o <<ends("remote")>>
fprint_remotes(rems) == FlattenSeq([i \in DOMAIN rems |-> fprint_remote(rems[i]) \o << <<>> >>])
=============================================================================
