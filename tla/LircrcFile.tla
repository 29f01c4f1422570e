----------------------------- MODULE LircrcFile -----------------------------
(***************************************************************************)
(* The reader of lircrc files (lirc_readconfig() in lib/lirc_client.c):    *)
(* where the file is looked for, include files on a stack of open files,   *)
(* the two kinds of lines, entries and modes, and what is refused.         *)
(*                                                                         *)
(* A text is a sequence of lines split into their tokens, the way strtok() *)
(* and lirc_trim() split them: [eq |-> FALSE, words] without an equals     *)
(* sign, [eq |-> TRUE, key, val] with one.  The value of "flags" keeps its *)
(* separators, that of "config" is a sequence of characters, and the name  *)
(* of an include file is a record with its quotes.                         *)
(*                                                                         *)
(* The entries are those of module Lircrc, but config holds the strings.   *)
(***************************************************************************)
EXTENDS Lircrc, SequencesExt

CONSTANTS
    MAX_INCLUDES,       \* bound: 10 in the code
    Disks,              \* the file systems, each with what lirc_readconfig() is asked for
    Rejected            \* the strings that the check function of the program refuses

(* A disk: the texts of its files by path, whether XDG_CONFIG_HOME is set, *)
(* and the argument file. *)
Path(dir, name) == [dir |-> dir, name |-> name, quotes |-> <<>>]
HOME == <<"/", "home">>

-----------------------------------------------------------------------------
(* Strings: lirc_parse_string() with characters as numbers *)

backslash == 92

letters == (97 :> 7) @@ (98 :> 8) @@ (101 :> 27) @@ (102 :> 12) @@ (110 :> 10) @@ (114 :> 13) @@
           (116 :> 9) @@ (118 :> 11) @@ (10 :> 0)

octal == 48..55
hex_digit(c) == IF c \in 48..57 THEN c - 48 ELSE IF c \in 97..102 THEN c - 87
                ELSE IF c \in 65..70 THEN c - 55 ELSE -1

(* The digits at the beginning of str, at most n. *)
digits_of(str, digits, n) ==
    LET count == CHOOSE k \in 0..Len(str) :
                     /\ k <= n /\ \A i \in 1..k : str[i] \in digits
                     /\ k = n \/ k = Len(str) \/ str[k + 1] \notin digits
    IN SubSeq(str, 1, count)

number(digits, base) == FoldLeft(LAMBDA acc, c : (acc * base + hex_digit(c)) % 256, 0, digits)

(* The character of the escape sequence str begins with (behind the        *)
(* backslash), and how many characters it takes. *)
lirc_parse_escape(str) ==
    IF str = <<>> THEN [char |-> 0, taken |-> 0]
    ELSE LET c == str[1]
             oct == digits_of(str, octal, 3)
             hex == digits_of(Tail(str), {d \in 48..102 : hex_digit(d) # -1}, Len(str))
         IN IF c \in DOMAIN letters THEN [char |-> letters[c], taken |-> 1]
            ELSE IF c \in octal THEN [char |-> number(oct, 8), taken |-> Len(oct)]
            ELSE IF c = 120 THEN [char |-> number(hex, 16), taken |-> 1 + Len(hex)]
            ELSE [char |-> IF c \in 64..90 THEN c - 64 ELSE c, taken |-> 1]

RECURSIVE lirc_parse_string(_)
lirc_parse_string(str) ==
    IF str = <<>> THEN <<>>
    ELSE IF str[1] # backslash THEN <<str[1]>> \o lirc_parse_string(Tail(str))
    ELSE LET escape == lirc_parse_escape(Tail(str))
         IN <<escape.char>> \o lirc_parse_string(SubSeq(str, 2 + escape.taken, Len(str)))

(* What a C program sees of it. *)
c_string(str) ==
    IF \E k \in DOMAIN str : str[k] = 0
    THEN SubSeq(str, 1, (CHOOSE k \in DOMAIN str : str[k] = 0 /\ \A i \in 1..k - 1 : str[i] # 0) - 1)
    ELSE str

-----------------------------------------------------------------------------
(* Numbers and flags *)

strtoul(val) == LET value == ("0" :> 0) @@ ("1" :> 1) @@ ("2" :> 2) @@ ("3" :> 3)
                IN IF val # <<>> /\ val[1] \in DOMAIN value THEN value[val[1]] ELSE 0

(* The tokens strtok() finds in val, separated by delims. *)
RECURSIVE strtok(_, _)
strtok(val, delims) ==
    LET begins == {k \in DOMAIN val : val[k] \notin delims}
        from == CHOOSE k \in begins : \A i \in begins : k <= i
        ends == {k \in from..Len(val) : val[k] \in delims}
        to == IF ends = {} THEN Len(val) + 1 ELSE CHOOSE k \in ends : \A i \in ends : k <= i
    IN IF begins = {} THEN <<>>
       ELSE <<SubSeq(val, from, to - 1)>> \o strtok(SubSeq(val, to + 1, Len(val)), delims)

(* Only the first flag may be followed by "|". *)
lirc_flags(val) ==
    LET tokens == strtok(val, {" ", "|"})
        after == LET ends == {k \in DOMAIN val : \E i \in 1..k - 1 : /\ val[i] \notin {" ", "|"}
                                                                   /\ val[k] \in {" ", "|"}}
                 IN IF ends = {} THEN <<>>
                    ELSE SubSeq(val, 1 + CHOOSE k \in ends : \A i \in ends : k <= i, Len(val))
        found == IF tokens = <<>> THEN <<>> ELSE <<tokens[1]>> \o strtok(after, {" "})
    IN {flag \in Flags : \E k \in DOMAIN found : found[k] = <<flag>>}

-----------------------------------------------------------------------------
(* Finding files *)

(* lirc_parse_include(): a pair of quotes is removed. *)
lirc_parse_include(name) ==
    IF name.quotes \in {<<"\"", "\"">>, <<"<", ">">>} THEN [name EXCEPT !.quotes = <<>>] ELSE name

get_freedesktop_path(disk) ==
    IF disk.xdg THEN Path(<<"/", "xdg">>, "lircrc") ELSE Path(HOME \o <<".config">>, "lircrc")

(* Without a name: the file in the home directory.  "~/" is the home       *)
(* directory, other names are relative to the directory of the file that   *)
(* has the include line. *)
lirc_getfilename(disk, file, current_file) ==
    IF file = NULL
    THEN IF get_freedesktop_path(disk) \in DOMAIN disk.files THEN get_freedesktop_path(disk)
         ELSE Path(HOME, ".lircrc")
    ELSE IF file.quotes = <<>> /\ file.dir # <<>> /\ file.dir[1] = "~"
    THEN [file EXCEPT !.dir = HOME \o Tail(@)]
    ELSE IF (file.quotes = <<>> /\ file.dir # <<>> /\ file.dir[1] = "/") \/ current_file = NULL
    THEN file
    ELSE [file EXCEPT !.dir = current_file.dir \o @]

(* The path of the file that is opened, NULL if there is none; the system  *)
(* wide files replace a missing file of the user. *)
lirc_open(disk, file, current_file) ==
    LET root_files == <<Path(<<"/", "etc", "lirc">>, "lircrc"), Path(<<"/", "etc">>, "lircrc")>>
        tried == <<lirc_getfilename(disk, file, current_file)>> \o
                 IF file = NULL THEN root_files ELSE <<>>
        exist == {k \in DOMAIN tried : tried[k] \in DOMAIN disk.files}
    IN IF exist = {} THEN NULL ELSE tried[CHOOSE k \in exist : \A i \in exist : k <= i]

-----------------------------------------------------------------------------
(* The state of lirc_readconfig_only_internal(): stack is the filestack,   *)
(* innermost file first, each with the lines still to be read; new_entry   *)
(* and mode are NULL outside of "begin" and "end".  ret is -1 after an     *)
(* error, -2 stands for the crash on a token that is not there. *)

blank_entry ==
    [prog |-> NULL, code |-> <<>>, rep |-> 0, rep_delay |-> 0, ign_first_events |-> 0,
     config |-> <<>>, change_mode |-> NULL, mode |-> NULL, flags |-> {}]

refused(rd) == [rd EXCEPT !.ret = -1]

(* "end" of an entry: it joins the list before its strings are checked. *)
end_entry(rd) ==
    LET entry == [rd.new_entry EXCEPT !.mode = rd.mode]
    IN [rd EXCEPT !.entries = Append(@, entry), !.new_entry = NULL,
                  !.ret = IF entry.prog # NULL /\ entry.prog = lirc_prog
                             /\ \E k \in DOMAIN entry.config : entry.config[k] \in Rejected
                          THEN -1 ELSE 0]

(* lirc_mode(); token2 is NULL if the line has one word. *)
lirc_mode(rd, token, token2) ==
    IF token = "begin" /\ token2 = NULL
    THEN IF rd.new_entry = NULL THEN [rd EXCEPT !.new_entry = blank_entry] ELSE refused(rd)
    ELSE IF token = "begin"
    THEN IF rd.new_entry = NULL /\ rd.mode = NULL THEN [rd EXCEPT !.mode = token2] ELSE refused(rd)
    ELSE IF token = "end" /\ token2 = NULL
    THEN IF rd.new_entry # NULL THEN end_entry(rd) ELSE refused(rd)
    ELSE IF token = "end"
    THEN IF rd.mode # NULL /\ rd.new_entry = NULL /\ rd.mode = token2
         THEN [rd EXCEPT !.mode = NULL] ELSE refused(rd)
    ELSE rd

mode_line_keeps_remote(rd, words) ==       \* a mutant: the remote outlives its entry
    LET done == lirc_mode(rd, words[1], IF Len(words) = 1 THEN NULL ELSE words[2])
    IN IF Len(words) > 2 THEN rd
       ELSE IF done.ret = 0 THEN done ELSE [done EXCEPT !.mode = NULL, !.new_entry = NULL]

(* A line for lirc_mode(): the remote is forgotten behind it.  More than   *)
(* two words are a warning. *)
mode_line(rd, words) ==
    LET done == lirc_mode(rd, words[1], IF Len(words) = 1 THEN NULL ELSE words[2])
    IN IF Len(words) > 2 THEN rd
       ELSE IF done.ret = 0 THEN [done EXCEPT !.remote = LIRC_ALL]
       ELSE [done EXCEPT !.mode = NULL, !.new_entry = NULL]

(* The stack of open files. *)
stack_push(disk, rd, name) == [rd EXCEPT !.stack = <<[name |-> name, rest |-> disk.files[name]]>> \o @]
stack_pop(rd) == [rd EXCEPT !.stack = Tail(@)]

(* lirc_readline(): the next line of the innermost file, also one without  *)
(* a newline at its end.  NULL is the end of the file. *)
lirc_readline(rd) == IF rd.stack[1].rest = <<>> THEN NULL ELSE rd.stack[1].rest[1]

include_line(disk, rd, words) ==
    IF Len(rd.stack) >= MAX_INCLUDES THEN refused(rd)
    ELSE IF Len(words) = 1 THEN [rd EXCEPT !.ret = -2]
    ELSE LET name == lirc_open(disk, lirc_parse_include(words[2]), rd.stack[1].name)
         IN IF name = NULL THEN refused(rd)
            ELSE stack_push(disk, rd, name)

(* Only the outermost file may name the class of lircrcd it belongs to. *)
class_line(rd, words) ==
    IF Len(words) = 1 THEN [rd EXCEPT !.ret = -2]
    ELSE IF Len(rd.stack) = 1 THEN [rd EXCEPT !.lircrc_class = words[2]] ELSE rd

(* parse_shebang(): the class is the name of the file; it crashes if       *)
(* lirc_readconfig() was not given one. *)
parse_shebang(disk, rd, words) ==
    IF Len(words) < 2 THEN [rd EXCEPT !.ret = -2]
    ELSE IF words[2] # "lircrc" THEN [rd EXCEPT !.lircrc_class = NULL]
    ELSE IF disk.file = NULL THEN [rd EXCEPT !.ret = -2]
    ELSE [rd EXCEPT !.lircrc_class = disk.file.name]

word_line(disk, rd, words) ==
    IF words = <<>> \/ words[1] \in {"#", "#!"} THEN rd
    ELSE IF words[1] = "lircrc_class" THEN class_line(rd, words)
    ELSE IF words[1] = "include" THEN include_line(disk, rd, words)
    ELSE mode_line(rd, words)

star(val) == IF val[1] = "*" THEN LIRC_ALL ELSE val[1]

(* A line with an equals sign belongs to the open entry.  A button is one  *)
(* of the remote named last. *)
eq_line(rd, key, val) ==
    LET set(entry) == [rd EXCEPT !.new_entry = entry]
        new == rd.new_entry
    IN CASE key = "#" -> rd
         [] key # "#" /\ new = NULL -> refused(rd)
         [] OTHER ->
            CASE key = "prog"   -> set([new EXCEPT !.prog = val[1]])
              [] key = "remote" -> [rd EXCEPT !.remote = star(val)]
              [] key = "button" -> set([new EXCEPT !.code = Append(@, [remote |-> rd.remote,
                                                                       button |-> star(val)])])
              [] key = "delay"  -> set([new EXCEPT !.rep_delay = strtoul(val)])
              [] key = "ignore_first_events" -> set([new EXCEPT !.ign_first_events = strtoul(val)])
              [] key = "repeat" -> set([new EXCEPT !.rep = strtoul(val)])
              [] key = "config" -> set([new EXCEPT !.config = Append(@, c_string(lirc_parse_string(val)))])
              [] key = "mode"   -> set([new EXCEPT !.change_mode = val[1]])
              [] key = "flags"  -> set([new EXCEPT !.flags = lirc_flags(val)])
              [] OTHER -> rd

(* One round of the loop: a line of the innermost file, or its end. *)
read_line(disk, rd) ==
    IF lirc_readline(rd) = NULL THEN stack_pop(rd)
    ELSE LET line == lirc_readline(rd)
             shebang == rd.firstline /\ ~line.eq /\ line.words # <<>> /\ line.words[1] = "#!"
             begun == [rd EXCEPT !.stack[1].rest = Tail(@), !.firstline = FALSE]
             known == IF shebang THEN parse_shebang(disk, begun, line.words) ELSE begun
         IN IF known.ret # 0 THEN known
            ELSE IF line.eq THEN eq_line(known, line.key, line.val)
            ELSE word_line(disk, known, line.words)

RECURSIVE read_lines(_, _)
read_lines(disk, rd) ==
    IF rd.stack = <<>> \/ rd.ret # 0 THEN rd ELSE read_lines(disk, read_line(disk, rd))

(* lirc_readconfig(): an entry that is still open at the end of the file   *)
(* is closed, after an error nothing is left of it. *)
lirc_readconfig(disk) ==
    LET name == lirc_open(disk, disk.file, NULL)
        begun == [stack |-> <<>>, entries |-> <<>>, new_entry |-> NULL, mode |-> NULL,
                  remote |-> LIRC_ALL, lircrc_class |-> NULL, ret |-> 0, firstline |-> TRUE]
        read == read_lines(disk, stack_push(disk, begun, name))
        ended == IF read.ret = 0 /\ read.new_entry # NULL THEN end_entry(read) ELSE read
    IN IF name = NULL THEN [ret |-> -1, entries |-> <<>>, lircrc_class |-> NULL]
       ELSE [ret |-> ended.ret, entries |-> IF ended.ret = 0 THEN ended.entries ELSE <<>>,
             lircrc_class |-> ended.lircrc_class]

(* For module Lircrc it matters how many strings there are. *)
as_counted(entries) == [e \in DOMAIN entries |-> [entries[e] EXCEPT !.config = Len(@)]]

FilesRead == {as_counted(lirc_readconfig(disk).entries) :
                  disk \in {d \in Disks : lirc_readconfig(d).ret = 0}}

-----------------------------------------------------------------------------
(* What a file means, said of its lines as a whole: the include lines are  *)
(* replaced by the files they name, and every line is judged by the lines  *)
(* before it. *)

unusable == [eq |-> FALSE, words |-> <<"unusable">>]

RECURSIVE inlined(_, _, _)
inlined(disk, name, depth) ==
    FlattenSeq([k \in DOMAIN disk.files[name] |->
        LET line == disk.files[name][k]
            target == lirc_open(disk, lirc_parse_include(line.words[2]), name)
        IN IF line.eq \/ line.words = <<>> \/ line.words[1] \notin {"include", "lircrc_class"}
           THEN <<line>>
           ELSE IF Len(line.words) = 1 THEN <<unusable>>
           ELSE IF line.words[1] = "lircrc_class" THEN <<>>
           ELSE IF depth = MAX_INCLUDES \/ target = NULL THEN <<unusable>>
           ELSE inlined(disk, target, depth + 1)])

(* The lines that count. *)
lines_of(disk) ==
    SelectSeq(inlined(disk, lirc_open(disk, disk.file, NULL), 1),
              LAMBDA line : IF line.eq THEN line.key # "#"
                            ELSE /\ Len(line.words) \in 1..2 /\ line.words[1] \notin {"#", "#!"})

is(line, word, n) == ~line.eq /\ line.words[1] = word /\ Len(line.words) = n

(* Is an entry open, is a mode open in front of line k? *)
entry_open(lines, k) ==
    \E j \in 1..k - 1 : is(lines[j], "begin", 1) /\ \A i \in j + 1..k - 1 : ~is(lines[i], "end", 1)
mode_open(lines, k) ==
    LET open == {j \in 1..k - 1 : /\ is(lines[j], "begin", 2)
                                  /\ \A i \in j + 1..k - 1 : ~is(lines[i], "end", 2)}
    IN IF open = {} THEN NULL ELSE lines[CHOOSE j \in open : TRUE].words[2]

misplaced(lines, k) ==
    \/ lines[k].eq /\ ~entry_open(lines, k)
    \/ lines[k] = unusable
    \/ is(lines[k], "begin", 1) /\ entry_open(lines, k)
    \/ is(lines[k], "end", 1) /\ ~entry_open(lines, k)
    \/ is(lines[k], "begin", 2) /\ (entry_open(lines, k) \/ mode_open(lines, k) # NULL)
    \/ is(lines[k], "end", 2) /\ (entry_open(lines, k) \/ mode_open(lines, k) # lines[k].words[2])

(* The entry that begins at line k. *)
entry_at(lines, k) ==
    LET ends == {j \in k + 1..Len(lines) : is(lines[j], "end", 1)}
        to == IF ends = {} THEN Len(lines) + 1 ELSE CHOOSE j \in ends : \A i \in ends : j <= i
        body == SelectSeq(SubSeq(lines, k + 1, to - 1), LAMBDA line : line.eq)
        having(key) == {j \in DOMAIN body : body[j].key = key}
        last_of(js) == CHOOSE j \in js : \A i \in js : i <= j
        given(key) == IF having(key) = {} THEN NULL ELSE body[last_of(having(key))].val[1]
        value(key) == IF having(key) = {} THEN 0 ELSE strtoul(body[last_of(having(key))].val)
        buttons == SetToSortSeq(having("button"), <)
        strings == SetToSortSeq(having("config"), <)
        remote(j) == LET named == {i \in having("remote") : i < j}
                     IN IF named = {} THEN LIRC_ALL ELSE star(body[last_of(named)].val)
    IN [prog |-> given("prog"), mode |-> mode_open(lines, k), change_mode |-> given("mode"),
        code |-> [j \in DOMAIN buttons |-> [remote |-> remote(buttons[j]),
                                            button |-> star(body[buttons[j]].val)]],
        rep |-> value("repeat"), rep_delay |-> value("delay"),
        ign_first_events |-> value("ignore_first_events"),
        config |-> [j \in DOMAIN strings |-> c_string(lirc_parse_string(body[strings[j]].val))],
        flags |-> IF having("flags") = {} THEN {}
                  ELSE LET val == body[last_of(having("flags"))].val
                       IN {flag \in Flags : \E i \in DOMAIN val : val[i] = flag}]

meaning(disk) ==
    LET lines == lines_of(disk)
        begins == SetToSortSeq({k \in DOMAIN lines : is(lines[k], "begin", 1)}, <)
    IN [e \in DOMAIN begins |-> entry_at(lines, begins[e])]

usable(disk) ==
    /\ lirc_open(disk, disk.file, NULL) # NULL
    /\ LET lines == lines_of(disk) IN \A k \in DOMAIN lines : ~misplaced(lines, k)
    /\ \A e \in DOMAIN meaning(disk) :
          LET entry == meaning(disk)[e]
          IN entry.prog = lirc_prog => \A k \in DOMAIN entry.config : entry.config[k] \notin Rejected

(* The ways to write a string. *)
octal_of(c) == <<backslash, 48 + (c \div 64), 48 + ((c \div 8) % 8), 48 + (c % 8)>>
hex_of(c) == LET digit(d) == IF d < 10 THEN 48 + d ELSE 87 + d
             IN <<backslash, 120, digit(c \div 16), digit(c % 16)>>
written(str, style) ==
    FlattenSeq([k \in DOMAIN str |->
        IF style = "hex" THEN hex_of(str[k])
        ELSE IF style # "plain" THEN octal_of(str[k])
        ELSE IF str[k] \in 0..26 THEN <<backslash, 64 + str[k]>>
        ELSE IF str[k] = backslash THEN <<backslash, backslash>>
        ELSE <<str[k]>>])

EscapesDecode ==
    \A c, d \in {0, 1, 7, 10, 27, 48, 55, 65, 92, 97, 102, 120, 255}, style \in {"hex", "octal", "plain"} :
        lirc_parse_string(written(<<c, d>>, style)) = <<c, d>>

MeaningsOfFiles == {entries_of(as_counted(meaning(disk))) : disk \in {d \in Disks : usable(d)}}

ReadersAgree ==
    \A disk \in Disks :
        LET read == lirc_readconfig(disk)
        IN /\ (read.ret = 0) = usable(disk)
           /\ usable(disk) => read.entries = meaning(disk)

(* The entries that buttons are looked up in are those the user wrote: an  *)
(* include file stands for its lines wherever its include line is, in an   *)
(* entry or a mode or outside; the remote named last counts for a button   *)
(* within its entry only; an entry has the mode around it; an unfinished   *)
(* file ends what is open.  A file with a line in a wrong place, an        *)
(* include file too deep or missing, or a string the program refuses, is   *)
(* refused as a whole.  Escape sequences give the character they stand for *)
(* whatever follows them. *)
ReadAsMeant == presses = <<>> => first \in MeaningsOfFiles /\ ReadersAgree /\ EscapesDecode
=============================================================================
