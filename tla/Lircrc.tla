------------------------------- MODULE Lircrc -------------------------------
(***************************************************************************)
(* What a client program makes of a button press (lib/lirc_client.c):      *)
(* lirc_code2char() looks through the entries of the lircrc file for those *)
(* that match, follows button sequences, filters repeats, switches modes   *)
(* and hands out one string per call, until there is none left.            *)
(*                                                                         *)
(* The program is the loop that lirc_client.h shows: for each code of      *)
(* lirc_nextcode() it calls lirc_code2char() until that returns NULL.      *)
(* Between two calls it may call lirc_setmode().                           *)
(*                                                                         *)
(* A step is one round of the loop over the entries.  Names of remotes,    *)
(* buttons, programs and modes are compared, nothing else.                 *)
(***************************************************************************)
EXTENDS Integers, Sequences

CONSTANTS
    NULL,
    LIRC_ALL,           \* the wildcard "*"
    Remotes, Buttons,
    Names,              \* of programs and modes
    lirc_prog,          \* the name this program gave to lirc_init()
    Files,              \* the lircrc files: sequences of entries as written
    SetModes,           \* the modes the program itself may set
    MaxCodes,           \* bound: button presses
    MaxRep              \* bound: repeats of a press

Flags == {"once", "quit", "mode", "startup_mode", "toggle_reset"}

(* One step of a button sequence. *)
Code == [remote : Remotes \cup {LIRC_ALL}, button : Buttons \cup {LIRC_ALL}]

(* config is the number of config lines.  "begin <mode>" puts an entry     *)
(* into a mode, "mode = ..." is change_mode. *)
Entry == [prog : Names \cup {NULL}, code : Seq(Code), rep : Nat, rep_delay : Nat,
          ign_first_events : Nat, config : Nat, change_mode : Names \cup {NULL},
          mode : Names \cup {NULL}, flags : SUBSET Flags]

Press == [remote : Remotes, button : Buttons, rep : Nat]

ASSUME LircrcAssumption ==
    /\ NULL \notin Names
    /\ LIRC_ALL \notin Remotes \cup Buttons
    /\ lirc_prog \in Names \cup {NULL}
    /\ Files \subseteq Seq(Entry)
    /\ SetModes \subseteq Names \cup {NULL}
    /\ MaxCodes \in Nat /\ MaxRep \in Nat

VARIABLES
    first,          \* the entries; their position stands for the pointer
    next_code,      \* next_code[e]: the code of entry e expected next
    next_config,    \* next_config[e]: its config line that is next
    ecno,           \* the entries with the flag ecno
    current_mode,
    next,           \* config->next; Len(first) + 1 stands for NULL
    pc,             \* in the program: "wait", "call", "string"; "scan" in the call
    code,           \* the code it works on
    scan, quit_happened, s,       \* local variables of lirc_code2char_internal()
    \* history
    presses,        \* the presses so far, repeats not counted
    since,          \* since[e]: how many there were when e was last completed
    matched,        \* the entries that matched the present code, in order
    passed,         \* passed[e]: strings of e handed out
    left            \* left[m]: how often mode m was left by the flag "mode"

state   == <<next_code, next_config, ecno, current_mode>>
local   == <<scan, quit_happened, s>>
history == <<presses, since, matched, passed, left>>
vars    == <<first, state, next, pc, code, local, history>>

Entries == 1..Len(first)
Past == Len(first) + 1
NoString == [entry |-> 0, config |-> 0]

TypeOK ==
    /\ first \in Seq(Entry)
    /\ next_code \in [Entries -> Nat] /\ next_config \in [Entries -> Nat]
    /\ \A e \in Entries :
          /\ first[e].code # <<>> => next_code[e] \in 1..Len(first[e].code)
          /\ first[e].config # 0 => next_config[e] \in 1..first[e].config
    /\ ecno \subseteq Entries
    /\ current_mode \in Names \cup {NULL}
    /\ next \in 1..Past /\ scan \in 1..Past
    /\ pc \in {"wait", "call", "scan", "string", "crashed"}
    /\ code \in Press
    /\ quit_happened \in BOOLEAN
    /\ s \in [entry : Nat, config : Nat]
    /\ presses \in Seq(Press)
    /\ since \in [Entries -> Nat]
    /\ matched \in Seq(Entries)
    /\ passed \in [Entries -> Nat] /\ left \in [Names -> Nat]

-----------------------------------------------------------------------------
(* lirc_readconfig() *)

(* lirc_mode() at "end": without a delay, repeats start after rep - 1. *)
at_end(entry) ==
    [entry EXCEPT !.rep_delay = IF @ = 0 /\ entry.rep > 0 THEN entry.rep - 1 ELSE @]

(* lirc_startupmode(): the first startup_mode entry that has a mode loses  *)
(* it to the program; without one, a mode named like the program.          *)
starts(file, e) ==
    LET asks(x) == "startup_mode" \in file[x].flags /\ file[x].change_mode # NULL
    IN asks(e) /\ \A x \in 1..e - 1 : ~asks(x)

startupmode(file) ==
    IF \E e \in DOMAIN file : starts(file, e)
    THEN file[CHOOSE e \in DOMAIN file : starts(file, e)].change_mode
    ELSE IF lirc_prog # NULL /\ \E e \in DOMAIN file : file[e].mode = lirc_prog
    THEN lirc_prog ELSE NULL

entries_of(file) ==
    [e \in DOMAIN file |-> IF starts(file, e) THEN [at_end(file[e]) EXCEPT !.change_mode = NULL]
                                              ELSE at_end(file[e])]

Init ==
    /\ \E file \in Files :
          /\ first = entries_of(file)
          /\ current_mode = startupmode(file)
    /\ ecno = {e \in Entries : /\ current_mode # NULL /\ "once" \in first[e].flags
                               /\ first[e].change_mode = current_mode}
    /\ next_code = [e \in Entries |-> 1]
    /\ next_config = [e \in Entries |-> 1]
    /\ next = 1
    /\ pc = "wait" /\ code \in [remote : Remotes, button : Buttons, rep : {MaxRep}]
    /\ scan = 1 /\ quit_happened = FALSE /\ s = NoString
    /\ presses = <<>> /\ since = [e \in Entries |-> 0]
    /\ matched = <<>>
    /\ passed = [e \in Entries |-> IF e \in ecno THEN 1 ELSE 0]
    /\ left = [m \in Names |-> 0]

-----------------------------------------------------------------------------
(* The program and its user *)

button_press ==
    /\ pc = "wait" /\ Len(presses) < MaxCodes
    /\ code' \in [remote : Remotes, button : Buttons, rep : {0}]
    /\ presses' = Append(presses, code')
    /\ matched' = <<>>
    /\ pc' = "call"
    /\ UNCHANGED <<first, state, next, local, since, passed, left>>

button_repeat ==
    /\ pc = "wait" /\ presses # <<>> /\ code.rep < MaxRep
    /\ code' = [code EXCEPT !.rep = @ + 1]
    /\ matched' = <<>>
    /\ pc' = "call"
    /\ UNCHANGED <<first, state, next, local, presses, since, passed, left>>

lirc_setmode ==
    /\ pc \in {"wait", "string"}
    /\ current_mode' \in SetModes
    /\ UNCHANGED <<first, next_code, next_config, ecno, next, pc, code, local, history>>

lirc_code2char ==
    /\ pc \in {"call", "string"}
    /\ scan' = next /\ quit_happened' = FALSE /\ s' = NoString
    /\ pc' = "scan"
    /\ UNCHANGED <<first, state, next, code, history>>

-----------------------------------------------------------------------------
(* lirc_iscode() *)

(* strcasecmp() of remote and button, unless c has a wildcard. *)
matches(c, press) == c.remote \in {LIRC_ALL, press.remote} /\ c.button \in {LIRC_ALL, press.button}

(* rep_filter() for repeat number rep. *)
rep_filter(entry, rep) ==
    LET start == IF entry.ign_first_events # 0 THEN 0 ELSE 1
        delay == IF entry.ign_first_events # 0 THEN entry.ign_first_events ELSE entry.rep_delay
    IN \/ rep < start
       \/ entry.rep = 0 /\ delay > 0 /\ rep = delay + start
       \/ entry.rep > 0 /\ rep >= delay + start /\ (rep - (delay + start)) % entry.rep = 0

(* Does the code come next in entry e? *)
expected(e) == matches(first[e].code[next_code[e]], code)

(* The result of lirc_iscode(): 2 is a match, 1 a part of a sequence.  An  *)
(* entry without buttons is never more than a part. *)
iscode(e) ==
    LET codes == first[e].code
    IN IF codes = <<>> THEN (IF rep_filter(first[e], code.rep) THEN 1 ELSE 0)
       ELSE IF ~expected(e) THEN 0
       ELSE IF Len(codes) = 1 THEN (IF rep_filter(first[e], code.rep) THEN 2 ELSE 0)
       ELSE IF code.rep # 0 THEN 0
       ELSE IF next_code[e] = Len(codes) THEN 2 ELSE 1

(* Rebasing: would entry e be at position x now?  Its first codes have to  *)
(* match those that the last presses matched, and the new code. *)
resumes(e, x) ==
    LET codes == first[e].code
        shift == next_code[e] + 1 - x
    IN /\ \A k \in 1..x - 2 : matches(codes[k], codes[k + shift])
       /\ matches(codes[x - 1], code)

rebase_mutant(e) ==              \* a mismatch starts the sequence over
    next_code' = [next_code EXCEPT ![e] = IF matches(first[e].code[1], code) THEN 2 ELSE 1]

(* The furthest position of which that is true. *)
rebase(e) ==
    \E x \in 1..next_code[e] :
        /\ x > 1 => resumes(e, x)
        /\ \A y \in x + 1..next_code[e] : ~resumes(e, y)
        /\ next_code' = [next_code EXCEPT ![e] = x]

(* strcasecmp() of codes p and q does not look whether q is LIRC_ALL,      *)
(* which is (char* )-1. *)
compares_wildcard(p, q) ==
    \/ q.remote = LIRC_ALL /\ p.remote # LIRC_ALL
    \/ p.remote \in {LIRC_ALL, q.remote} /\ q.button = LIRC_ALL /\ p.button # LIRC_ALL

rebase_crashes(e) ==
    LET codes == first[e].code
    IN /\ codes # <<>> /\ code.rep = 0 /\ ~expected(e)
       /\ \E x \in 2..next_code[e] : LET shift == next_code[e] + 1 - x IN
            /\ \A y \in x + 1..next_code[e] : ~resumes(e, y)
            /\ \E k \in 1..x - 2 :
                  /\ compares_wildcard(codes[k], codes[k + shift])
                  /\ \A m \in 1..k - 1 : matches(codes[m], codes[m + shift])

(* What lirc_iscode() does to next_code. *)
advance(e) ==
    LET codes == first[e].code
    IN IF Len(codes) = 0 \/ (code.rep # 0 /\ (Len(codes) > 1 \/ ~expected(e)))
       THEN UNCHANGED <<next_code, since>>
       ELSE IF expected(e)
       THEN IF next_code[e] = Len(codes)
            THEN /\ next_code' = [next_code EXCEPT ![e] = 1]
                 /\ since' = [since EXCEPT ![e] = Len(presses)]
            ELSE next_code' = [next_code EXCEPT ![e] = @ + 1] /\ UNCHANGED since
       ELSE rebase(e) /\ UNCHANGED since

(* toggle_reset: another button was pressed. *)
toggle_resets(e) ==
    /\ "toggle_reset" \in first[e].flags
    /\ first[e].code # <<>> /\ code.rep = 0 /\ ~expected(e)

-----------------------------------------------------------------------------
(* lirc_execute() *)

cleared_mutant(e) ==             \* every mode is left
    IF "mode" \in first[e].flags THEN {} ELSE ecno

(* The flags after lirc_clearmode(), which an entry with the flag "mode"   *)
(* calls. *)
cleared(e) ==
    IF "mode" \in first[e].flags /\ current_mode # NULL
    THEN {x \in ecno : first[x].change_mode # current_mode} ELSE ecno

only_once(e) == first[e].change_mode # NULL /\ "once" \in first[e].flags

(* Does the entry have a string for this program, this time? *)
passes(e) ==
    /\ first[e].config # 0
    /\ first[e].prog # NULL /\ lirc_prog \in {NULL, first[e].prog}
    /\ ~(only_once(e) /\ e \in cleared(e))

(* "the config strings will be passed to the applications by turns" *)
turn(e) == IF next_config[e] = first[e].config THEN 1 ELSE next_config[e] + 1

lirc_execute(e) ==
    /\ ecno' = IF only_once(e) THEN cleared(e) \cup {e} ELSE cleared(e)
    /\ current_mode' = IF first[e].change_mode # NULL THEN first[e].change_mode
                       ELSE IF "mode" \in first[e].flags THEN NULL ELSE current_mode
    /\ left' = IF "mode" \in first[e].flags /\ current_mode # NULL
               THEN [left EXCEPT ![current_mode] = @ + 1] ELSE left
    /\ IF passes(e)
       THEN /\ s' = [entry |-> e, config |-> next_config[e]]
            /\ next_config' = [next_config EXCEPT ![e] = turn(e)]
            /\ passed' = [passed EXCEPT ![e] = @ + 1]
       ELSE s' = NoString /\ UNCHANGED <<next_config, passed>>

-----------------------------------------------------------------------------
(* The loop of lirc_code2char_internal() *)

active(e) == first[e].mode \in {NULL, current_mode}

examining == pc = "scan" /\ scan <= Len(first) /\ ~rebase_crashes(scan)

counts == iscode(scan) > 0 /\ active(scan) /\ ~quit_happened

entry_ignored ==
    /\ examining /\ ~counts
    /\ advance(scan)
    /\ next_config' = IF toggle_resets(scan) THEN [next_config EXCEPT ![scan] = 1] ELSE next_config
    /\ scan' = scan + 1
    /\ UNCHANGED <<first, ecno, current_mode, next, pc, code, quit_happened, s, presses, matched,
                   passed, left>>

go_on_mutant(string) ==         \* quit only ends the present call
    IF string # NoString
    THEN next' = scan + 1 /\ pc' = "string" /\ UNCHANGED <<scan, quit_happened>>
    ELSE /\ quit_happened' = ("quit" \in first[scan].flags)
         /\ scan' = scan + 1 /\ UNCHANGED <<next, pc>>

(* The flag "quit", and where the next call goes on. *)
go_on(string) ==
    IF "quit" \in first[scan].flags
    THEN quit_happened' = TRUE /\ next' = Past /\ scan' = scan + 1 /\ UNCHANGED pc
    ELSE /\ UNCHANGED quit_happened
         /\ IF string # NoString THEN next' = scan + 1 /\ pc' = "string" /\ UNCHANGED scan
                                 ELSE scan' = scan + 1 /\ UNCHANGED <<next, pc>>

entry_part ==
    /\ examining /\ counts /\ iscode(scan) = 1
    /\ advance(scan)
    /\ s' = NoString
    /\ go_on(NoString)
    /\ matched' = Append(matched, scan)
    /\ UNCHANGED <<first, next_config, ecno, current_mode, code, presses, passed, left>>

entry_executed ==
    /\ examining /\ counts /\ iscode(scan) = 2
    /\ advance(scan)
    /\ lirc_execute(scan)
    /\ go_on(s')
    /\ matched' = Append(matched, scan)
    /\ UNCHANGED <<first, code, presses>>

(* The end of the list: a string of a quitting entry, or nothing more. *)
scan_ended ==
    /\ pc = "scan" /\ scan = Past
    /\ IF s # NoString THEN pc' = "string" /\ UNCHANGED next
                       ELSE pc' = "wait" /\ next' = 1
    /\ UNCHANGED <<first, state, code, local, history>>

crash ==
    /\ pc = "scan" /\ scan <= Len(first) /\ rebase_crashes(scan)
    /\ pc' = "crashed"
    /\ UNCHANGED <<first, state, next, code, local, history>>

-----------------------------------------------------------------------------

Program == lirc_code2char \/ entry_ignored \/ entry_part \/ entry_executed \/ scan_ended \/ crash

Next == button_press \/ button_repeat \/ lirc_setmode \/ Program

Spec == Init /\ [][Next]_vars

-----------------------------------------------------------------------------
(* Safety *)

(* Wildcards that rebasing can cope with: no code with a wildcard follows  *)
(* one without, for remotes and for buttons. *)
Orderly(codes) ==
    \A j, k \in 1..Len(codes) : j < k =>
        /\ codes[k].remote = LIRC_ALL => codes[j].remote = LIRC_ALL
        /\ codes[k].button = LIRC_ALL => codes[j].button = LIRC_ALL

(* How many presses entry e has seen: the present one only if the loop has *)
(* been there. *)
reached == IF pc = "scan" THEN scan ELSE next
seen(e) == IF pc \in {"call", "scan", "string"} /\ code.rep = 0 /\ e >= reached
           THEN Len(presses) - 1 ELSE Len(presses)

(* Of the first n presses, those after the last completion of e end with   *)
(* the first q codes of e. *)
EndsWith(e, n, q) ==
    /\ q <= n - since[e]
    /\ \A k \in 1..q : matches(first[e].code[k], presses[n - q + k])

(* A button sequence is followed faithfully: its position is the longest   *)
(* part of it that the presses since its last completion end with.  It is  *)
(* never completed without having been pressed, and none that was pressed  *)
(* is missed, whichever other entries match, quit or change the mode.      *)
SequenceTracksPresses ==
    pc # "crashed" =>
        \A e \in Entries :
            Len(first[e].code) > 1 /\ Orderly(first[e].code) =>
                LET here == next_code[e] - 1
                IN /\ EndsWith(e, seen(e), here)
                   /\ \A q \in here + 1..Len(first[e].code) : ~EndsWith(e, seen(e), q)

(* "each matching configuration is executed in order of appearance", each  *)
(* once for a code, and "Configurations further below will not be          *)
(* executed" after a match with the flag quit, over all calls for a code.  *)
NothingAfterQuit ==
    \A a, b \in 1..Len(matched) : a < b =>
        /\ matched[a] < matched[b]
        /\ "quit" \notin first[matched[a]].flags

(* "The config string is passed to the application only the first time the *)
(* mode is entered or you have explicitly left this mode"; to start in a   *)
(* mode counts as the first time. *)
OncePerMode ==
    \A e \in Entries : only_once(e) => passed[e] <= left[first[e].change_mode] + 1

(* Rebasing never runs into a wildcard if they are where it expects them.  *)
OrderlyIsSafe == pc = "crashed" => \E e \in Entries : ~Orderly(first[e].code)

-----------------------------------------------------------------------------
(* The inductive invariant; module LircrcProofs proves it for all          *)
(* constants. *)

working == pc \in {"call", "scan", "string"}

(* What the variables of the loop mean. *)
LoopInv ==
    /\ pc \in {"wait", "call"} => next = 1
    /\ working => presses # <<>> /\ (code.rep = 0 => presses[Len(presses)] = code)
    /\ pc = "scan" /\ (quit_happened \/ s # NoString) => next = Past
    /\ pc # "crashed" => \A e \in Entries : since[e] <= seen(e)

(* The matches so far are above the loop, and a quit has sent it past the  *)
(* end. *)
MatchInv ==
    working => \A k \in 1..Len(matched) :
        /\ matched[k] < reached
        /\ "quit" \in first[matched[k]].flags => (pc = "scan" /\ quit_happened) \/ reached = Past

(* An entry without ecno has a string to give for the mode left last. *)
OnceInv ==
    \A e \in Entries : only_once(e) =>
        passed[e] + (IF e \in ecno THEN 0 ELSE 1) <= left[first[e].change_mode] + 1

(* The conjunction that every step preserves. *)
IndInv ==
    /\ TypeOK /\ LoopInv
    /\ SequenceTracksPresses
    /\ MatchInv /\ NothingAfterQuit
    /\ OnceInv
    /\ OrderlyIsSafe

=============================================================================
