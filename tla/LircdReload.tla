----------------------------- MODULE LircdReload -----------------------------
(***************************************************************************)
(* How lircd replaces its configuration on SIGHUP (daemons/lircd.cpp:      *)
(* config(), dosighup(), free_old_remotes()) while a signal is repeated    *)
(* from the timer and while a button is decoded (lib/ir_remote.c).         *)
(*                                                                         *)
(* config() keeps the old list of remotes as free_remotes, and             *)
(* mywaitfordata() frees it after its next poll(), when the pointers into  *)
(* it have been moved to the new list.  A decoder of pulses and spaces     *)
(* waits for more data by calling mywaitfordata() again, so the            *)
(* configuration can be replaced and freed in the middle of decode_all().  *)
(*                                                                         *)
(* A list of remotes is a generation of the heap, a pointer to a remote is *)
(* a generation and a position in its list, and a button is its name: a    *)
(* button always lives in the generation of its remote.                    *)
(***************************************************************************)
EXTENDS Integers, Sequences

CONSTANTS
    NULL,
    Names, Codes,   \* names of remotes and buttons
    Configs,        \* what lircd.conf may define: sequences of remotes
    FileStates,     \* and in which states it is found: "good", "bad", "missing"
    Repeats,        \* the <repeats> clients ask for with SEND_ONCE
    DecodeWaits,    \* does the driver wait for data while it decodes?
    HupWindows,     \* the points after the test of hup where SIGHUP may arrive
    MaxReloads,     \* bound: SIGHUPs
    MaxSends        \* bound: SEND_ONCE commands

Remote == [name : Names, codes : SUBSET Codes]

ASSUME ReloadAssumption ==
    /\ NULL \notin Codes
    /\ Configs \subseteq Seq(Remote)
    /\ FileStates \subseteq {"good", "bad", "missing"}
    /\ Repeats \subseteq Nat
    /\ DecodeWaits \in BOOLEAN /\ HupWindows \subseteq {"hupclear", "alarm"}
    /\ MaxReloads \in Nat /\ MaxSends \in Nat

VARIABLES
    heap,           \* heap[g]: the list of remotes read as number g
    freed,          \* the generations given to free_config()
    remotes, free_remotes,          \* list heads: a generation, 0 for NULL
    last_remote, repeat_remote,     \* pointers to remotes
    repeat_code,
    decoding,       \* the list decode_all() walks, 0 for NULL
    remote,         \* decode_all()'s position in it
    arg,            \* the list rec_func() was called with
    hup, timer, alrm,
    pc,
    nest,           \* the caller of mywaitfordata(): loop, rec_buffer_clear, decoder
    event,          \* why poll() returned
    \* bounds and history
    reloads, sends,
    unread,         \* SIGHUP came after lircd.conf was last read
    tx, want        \* transmissions of the repeat so far, repeats asked for

lists    == <<heap, freed, remotes, free_remotes>>
pointers == <<last_remote, repeat_remote, repeat_code>>
decoder  == <<decoding, remote, arg>>
flags    == <<hup, timer, alrm>>
history  == <<reloads, sends, unread, tx, want>>
vars     == <<lists, pointers, decoder, flags, pc, nest, event, history>>

Pointer == [gen : Nat, k : Nat]
Ptr(g, k) == [gen |-> g, k |-> k]
Nil == Ptr(0, 0)                  \* the NULL pointer
Loaded == [name : Names, codes : SUBSET Codes, last_code : Codes \cup {NULL}, repeat_countdown : Int]

TypeOK ==
    /\ heap \in Seq(Seq(Loaded))
    /\ freed \subseteq Nat
    /\ {remotes, free_remotes, decoding, arg} \subseteq Nat
    /\ {last_remote, repeat_remote, remote} \subseteq Pointer
    /\ repeat_code \in Codes \cup {NULL}
    /\ {hup, timer, alrm, unread} \subseteq BOOLEAN
    /\ pc \in {"top", "hupclear", "alarm", "poll", "woken", "events", "decode", "crashed"}
    /\ nest \in {"loop", "clear", "decode"}
    /\ event \in {"signal", "timeout", "command", "data"}
    /\ {reloads, sends, tx, want} \subseteq Nat

-----------------------------------------------------------------------------
(* Lists of remotes *)

(* read_config(): the remotes of the file, freshly allocated and cleared. *)
read_config(conf) ==
    [k \in DOMAIN conf |-> [name |-> conf[k].name, codes |-> conf[k].codes,
                            last_code |-> NULL, repeat_countdown |-> 0]]

At(p) == heap[p.gen][p.k]

(* get_ir_remote(): the first remote of list g with that name (the name    *)
(* "lirc" of the internal remote is none of Names). *)
get_ir_remote(g, name) ==
    LET matches == {k \in IF g = 0 THEN {} ELSE 1..Len(heap[g]) :
                      heap[g][k].name = name /\ \A m \in 1..k - 1 : heap[g][m].name # name}
    IN IF matches = {} THEN Nil ELSE Ptr(g, CHOOSE k \in matches : TRUE)

-----------------------------------------------------------------------------

Init ==
    /\ \E conf \in Configs :
          /\ heap = <<read_config(conf)>>
          /\ remotes = IF conf = <<>> THEN 0 ELSE 1
    /\ freed = {}
    /\ free_remotes = 0
    /\ last_remote = Nil /\ repeat_remote = Nil /\ repeat_code = NULL
    /\ decoding = 0 /\ remote = Nil /\ arg = 0
    /\ hup = FALSE /\ timer = FALSE /\ alrm = FALSE
    /\ pc = "top" /\ nest = "loop" /\ event = "signal"
    /\ reloads = 0 /\ sends = 0 /\ unread = FALSE /\ tx = 0 /\ want = 0

-----------------------------------------------------------------------------
(* The environment: signals, clients, the receiver *)

interrupted == IF pc = "poll" THEN pc' = "woken" /\ event' = "signal" ELSE UNCHANGED <<pc, event>>

sighup ==
    /\ reloads < MaxReloads
    /\ pc \in {"hupclear", "alarm"} => pc \in HupWindows
    /\ hup' = TRUE
    /\ reloads' = reloads + 1 /\ unread' = TRUE
    /\ interrupted
    /\ UNCHANGED <<lists, pointers, decoder, timer, alrm, nest, sends, tx, want>>

sigalrm ==
    /\ timer
    /\ timer' = FALSE /\ alrm' = TRUE
    /\ interrupted
    /\ UNCHANGED <<lists, pointers, decoder, hup, nest, history>>

(* A command or data of the receiver ends poll(), and so does the timeout  *)
(* of a decoder that waits for the next pulse or space.                    *)
poll_return ==
    /\ pc = "poll"
    /\ \/ event' \in {"command", "data"}
       \/ event' = "timeout" /\ nest = "decode"
    /\ pc' = "woken"
    /\ UNCHANGED <<lists, pointers, decoder, flags, nest, history>>

-----------------------------------------------------------------------------
(* The top of mywaitfordata(): signals *)

config_mutant ==                 \* the old list is forgotten when a newer one comes
    /\ unread' = FALSE
    /\ \E state \in FileStates, conf \in Configs :
          IF state = "missing"
          THEN UNCHANGED lists
          ELSE /\ free_remotes' = remotes
               /\ IF state = "bad" \/ conf = <<>>
                  THEN remotes' = 0 /\ UNCHANGED heap
                  ELSE heap' = Append(heap, read_config(conf)) /\ remotes' = Len(heap) + 1
               /\ UNCHANGED freed

(* config(): refused while an old list is around.  A file with an error    *)
(* gives an empty list, because sort_by_bit_count() replaces the error     *)
(* value (void* )-1 of read_config_recursive() by NULL.                    *)
config ==
    /\ unread' = (unread /\ free_remotes # 0)
    /\ \E state \in FileStates, conf \in Configs :
          IF free_remotes # 0 \/ state = "missing"
          THEN UNCHANGED lists
          ELSE /\ free_remotes' = remotes
               /\ IF state = "bad" \/ conf = <<>>
                  THEN remotes' = 0 /\ UNCHANGED heap
                  ELSE heap' = Append(heap, read_config(conf)) /\ remotes' = Len(heap) + 1
               /\ UNCHANGED freed

(* dosighup(): the SIGHUP packages go out whatever config() did. *)
dosighup ==
    /\ pc = "top" /\ hup
    /\ config
    /\ pc' = "hupclear"
    /\ UNCHANGED <<pointers, decoder, flags, nest, event, reloads, sends, tx, want>>

hup_clear ==
    /\ pc = "hupclear"
    /\ hup' = FALSE
    /\ pc' = "alarm"
    /\ UNCHANGED <<lists, pointers, decoder, timer, alrm, nest, event, history>>

no_hup ==
    /\ pc = "top" /\ ~hup
    /\ pc' = "alarm"
    /\ UNCHANGED <<lists, pointers, decoder, flags, nest, event, history>>

no_alarm ==
    /\ pc = "alarm" /\ ~alrm
    /\ pc' = "poll"
    /\ UNCHANGED <<lists, pointers, decoder, flags, nest, event, history>>

(* dosigalrm(): another button of the remote was decoded meanwhile. *)
repeat_interrupted ==
    /\ pc = "alarm" /\ alrm
    /\ At(repeat_remote).last_code # repeat_code
    /\ repeat_remote' = Nil /\ repeat_code' = NULL
    /\ alrm' = FALSE
    /\ pc' = "poll"
    /\ UNCHANGED <<lists, last_remote, decoder, hup, timer, nest, event, history>>

repeat_send ==
    /\ pc = "alarm" /\ alrm
    /\ At(repeat_remote).last_code = repeat_code
    /\ LET left == At(repeat_remote).repeat_countdown - 1
       IN /\ heap' = [heap EXCEPT ![repeat_remote.gen][repeat_remote.k] =
                                 [At(repeat_remote) EXCEPT !.repeat_countdown = left]]
          /\ IF left > 0
             THEN timer' = TRUE /\ UNCHANGED <<repeat_remote, repeat_code>>
             ELSE repeat_remote' = Nil /\ repeat_code' = NULL /\ UNCHANGED timer
    /\ tx' = tx + 1
    /\ alrm' = FALSE
    /\ pc' = "poll"
    /\ UNCHANGED <<freed, remotes, free_remotes, last_remote, decoder, hup, nest, event,
                   reloads, sends, unread, want>>

-----------------------------------------------------------------------------
(* After poll(): free_old_remotes() *)

(* get_decoding() returns the address of the variable decoding, which is   *)
(* no list of remotes. *)
get_decoding == -1

is_in_remotes(g, p) == p.gen = g

mapped_mutant(p, code) ==        \* the button is not looked for
    get_ir_remote(remotes, At(p).name)

(* The place in the new list of the remote p points to, if that remote is  *)
(* there and has the given button. *)
mapped(p, code) ==
    LET found == get_ir_remote(remotes, At(p).name)
    IN IF found # Nil /\ code \in At(found).codes THEN found ELSE Nil

(* last_remote moves to the new list; if its remote or its button is gone  *)
(* it keeps pointing into the old one. *)
map_last_remote ==
    IF is_in_remotes(free_remotes, last_remote)
    THEN LET found == mapped(last_remote, At(last_remote).last_code)
         IN last_remote' = IF found # Nil THEN found ELSE last_remote
    ELSE last_remote' = Nil

(* is the old list still needed by the repeat? *)
repeat_stuck == is_in_remotes(free_remotes, repeat_remote) /\ mapped(repeat_remote, repeat_code) = Nil

map_repeat_remote_mutant ==      \* the repeat stays where it is
    UNCHANGED repeat_remote

(* The repeat goes on in the new list; the timer keeps its remaining time. *)
map_repeat_remote ==
    repeat_remote' = IF is_in_remotes(free_remotes, repeat_remote) /\ ~repeat_stuck
                     THEN mapped(repeat_remote, repeat_code) ELSE repeat_remote

map_state_mutant ==              \* the button sent last is forgotten
    heap' = heap

(* What the two remotes that were found take over from the old ones: the   *)
(* button sent last, and where they are the same that of the repeat.       *)
map_state ==
    heap' = [g \in DOMAIN heap |-> [k \in DOMAIN heap[g] |->
        IF repeat_remote' # repeat_remote /\ repeat_remote' = Ptr(g, k)
        THEN [heap[g][k] EXCEPT !.last_code = repeat_code]
        ELSE IF last_remote' \notin {Nil, last_remote} /\ last_remote' = Ptr(g, k)
        THEN [heap[g][k] EXCEPT !.last_code = At(last_remote).last_code]
        ELSE heap[g][k]]]

free_old_remotes ==
    IF free_remotes = 0 \/ get_decoding = free_remotes
    THEN UNCHANGED <<lists, pointers>>
    ELSE /\ map_last_remote /\ map_repeat_remote /\ map_state
         /\ IF repeat_stuck
            THEN UNCHANGED <<freed, free_remotes>>
            ELSE freed' = freed \cup {free_remotes} /\ free_remotes' = 0
         /\ UNCHANGED <<remotes, repeat_code>>

(* A decoder waits no longer than its timeout, whatever poll() returned.   *)
poll_returned ==
    /\ pc = "woken"
    /\ free_old_remotes
    /\ \/ pc' = "decode" /\ nest = "decode"
       \/ pc' = "top" /\ event = "signal"
       \/ pc' = "events" /\ event \in {"command", "data"}
    /\ UNCHANGED <<decoder, flags, nest, event, history>>

-----------------------------------------------------------------------------
(* Commands of clients *)

(* send_core() for SEND_ONCE with min_repeat 0. *)
send_once ==
    /\ pc = "events" /\ event = "command"
    /\ sends < MaxSends /\ repeat_remote = Nil
    /\ \E name \in Names, code \in Codes, reps \in Repeats :
          LET found == get_ir_remote(remotes, name)
          IN /\ found # Nil /\ code \in At(found).codes
             /\ heap' = [heap EXCEPT ![found.gen][found.k] =
                            [At(found) EXCEPT !.last_code = code, !.repeat_countdown = reps]]
             /\ IF reps > 0
                THEN repeat_remote' = found /\ repeat_code' = code /\ timer' = TRUE
                ELSE UNCHANGED <<repeat_remote, repeat_code, timer>>
             /\ tx' = 1 /\ want' = reps
    /\ sends' = sends + 1
    /\ pc' = "top"
    /\ UNCHANGED <<freed, remotes, free_remotes, last_remote, decoder, hup, alrm, nest, event,
                   reloads, unread>>

send_stop ==
    /\ pc = "events" /\ event = "command" /\ repeat_remote # Nil
    /\ repeat_remote' = Nil /\ repeat_code' = NULL
    /\ timer' = FALSE /\ alrm' = FALSE
    /\ pc' = "top"
    /\ UNCHANGED <<lists, last_remote, decoder, hup, nest, event, history>>

(* Any other command, or one that is refused. *)
other_command ==
    /\ pc = "events" /\ event = "command"
    /\ pc' = "top"
    /\ UNCHANGED <<lists, pointers, decoder, flags, nest, event, history>>

-----------------------------------------------------------------------------
(* Receiving *)

first(g) == IF g = 0 THEN Nil ELSE Ptr(g, 1)
next(p) == IF p.k < Len(heap[p.gen]) THEN Ptr(p.gen, p.k + 1) ELSE Nil

decode_all(g) == decoding' = g /\ remote' = first(g) /\ pc' = "decode"

(* mywaitfordata() returns 1 to loop(), which calls rec_func(remotes); the *)
(* driver decodes what it has, or first waits for a pulse or space.        *)
rec_func ==
    /\ pc = "events" /\ event = "data" /\ nest = "loop"
    /\ arg' = remotes
    /\ \/ DecodeWaits /\ nest' = "clear" /\ pc' = "top" /\ UNCHANGED <<decoding, remote>>
       \/ nest' = "decode" /\ decode_all(remotes)
    /\ UNCHANGED <<lists, pointers, flags, event, history>>

buffer_cleared ==
    /\ pc = "events" /\ event = "data" /\ nest = "clear"
    /\ nest' = "decode" /\ decode_all(arg)
    /\ UNCHANGED <<lists, pointers, arg, flags, event, history>>

data_arrived ==
    /\ pc = "events" /\ event = "data" /\ nest = "decode"
    /\ pc' = "decode"
    /\ UNCHANGED <<lists, pointers, decoder, flags, nest, event, history>>

(* The decoder of the present remote needs another pulse or space. *)
decode_wait ==
    /\ pc = "decode" /\ remote # Nil /\ DecodeWaits
    /\ pc' = "top"
    /\ UNCHANGED <<lists, pointers, decoder, flags, nest, event, history>>

decode_failed ==
    /\ pc = "decode" /\ remote # Nil
    /\ remote' = next(remote)
    /\ UNCHANGED <<lists, pointers, decoding, arg, flags, pc, nest, event, history>>

(* set_code() and the rest of decode_all(), back in loop(). *)
decode_succeeded ==
    /\ pc = "decode" /\ remote # Nil
    /\ \E code \in At(remote).codes :
          heap' = [heap EXCEPT ![remote.gen][remote.k] = [At(remote) EXCEPT !.last_code = code]]
    /\ last_remote' = remote
    /\ decoding' = 0 /\ remote' = Nil /\ arg' = 0
    /\ nest' = "loop" /\ pc' = "top"
    /\ UNCHANGED <<freed, remotes, free_remotes, repeat_remote, repeat_code, flags, event,
                   history>>

all_failed ==
    /\ pc = "decode" /\ remote = Nil
    /\ last_remote' = Nil
    /\ decoding' = 0 /\ arg' = 0
    /\ nest' = "loop" /\ pc' = "top"
    /\ UNCHANGED <<lists, repeat_remote, repeat_code, remote, flags, event, history>>

(* sync_rec_buffer() looks at last_remote, every decoder at its remote.    *)
dangling(p) == p.gen \in freed

decoder_dangles ==
    pc = "decode" /\ remote # Nil /\ (dangling(remote) \/ (DecodeWaits /\ dangling(last_remote)))

(* Freed memory may still hold the old data (the actions above), or not.   *)
crash ==
    /\ decoder_dangles
    /\ pc' = "crashed"
    /\ UNCHANGED <<lists, pointers, decoder, flags, nest, event, history>>

-----------------------------------------------------------------------------

Daemon ==
    \/ dosighup \/ hup_clear \/ no_hup \/ no_alarm \/ repeat_interrupted \/ repeat_send
    \/ poll_returned \/ send_once \/ send_stop \/ other_command
    \/ rec_func \/ buffer_cleared \/ data_arrived
    \/ decode_wait \/ decode_failed \/ decode_succeeded \/ all_failed \/ crash

Environment == pc # "crashed" /\ (sighup \/ sigalrm \/ poll_return)

Next == Daemon \/ Environment

Spec == Init /\ [][Next]_vars

-----------------------------------------------------------------------------
(* Safety *)

(* Every list that was read is in use, waiting to be freed, or freed: none *)
(* is leaked by a reload on top of a reload, none is freed while it is one *)
(* of the two lists lircd works with. *)
ListsAccounted ==
    /\ freed \subseteq 1..Len(heap)
    /\ remotes # 0 => remotes \in 1..Len(heap) \ freed
    /\ free_remotes # 0 => free_remotes \in 1..Len(heap) \ freed
    /\ remotes # 0 => remotes # free_remotes
    /\ \A g \in 1..Len(heap) : heap[g] # <<>> => g \in {remotes, free_remotes} \cup freed

(* The repeat survives reloads: dosigalrm() and send_stop() never look at  *)
(* a freed remote, and the remote they look at has the button.             *)
RepeatLive ==
    repeat_remote # Nil =>
        /\ repeat_remote.gen \in {remotes, free_remotes} \ {0}
        /\ repeat_remote.k \in 1..Len(heap[repeat_remote.gen])
        /\ repeat_code \in At(repeat_remote).codes

(* A reload moves the repeat to a remote of the same name, and leaves the  *)
(* button that was sent last with it, so that dosigalrm() does not take    *)
(* the reload for another button. *)
RepeatKeepsRemote ==
    [][ repeat_remote # Nil /\ repeat_remote' \notin {Nil, repeat_remote} =>
          /\ heap'[repeat_remote'.gen][repeat_remote'.k].name = At(repeat_remote).name
          /\ heap'[repeat_remote'.gen][repeat_remote'.k].last_code = repeat_code ]_vars

(* Every pointer was valid once, the alarm finds a repeat. *)
PointersInHeap ==
    /\ \A p \in {last_remote, repeat_remote, remote} :
          p # Nil => p.gen \in 1..Len(heap) /\ p.k \in 1..Len(heap[p.gen])
    /\ \A g \in {remotes, free_remotes, arg} : g # 0 => g \in 1..Len(heap) /\ heap[g] # <<>>
    /\ timer \/ alrm => repeat_remote # Nil
    /\ ~(timer /\ alrm)

(* The conjunction that every step preserves; module LircdReloadProofs     *)
(* proves it for all constants. *)
IndInv == TypeOK /\ PointersInHeap /\ ListsAccounted /\ RepeatLive

(* Liveness: "On receiving SIGHUP lircd re-reads the lircd.conf            *)
(* configuration file" (lircd.8:357), after the signal and not before it.  *)
(* A SIGHUP between dosighup() and hup = 0 is forgotten.                   *)
ReReadOnHup == unread ~> ~unread

(* The thread runs on unless it is blocked in poll(); alarms expire.       *)
FairSpec == Spec /\ WF_vars(Daemon) /\ WF_vars(sigalrm)

=============================================================================
