----------------------------- MODULE SignalPath -----------------------------
(***************************************************************************)
(* From the button of one lircd to the message of another: a sender with   *)
(* the remotes R transmits presses (send_core() and the repeat timer of    *)
(* lircd, or irsimsend into a file), a receiver with the same remotes      *)
(* decodes them (the loop of lircd over the default driver, or             *)
(* irsimreceive over the file driver).  Noise may precede a press.         *)
(***************************************************************************)
EXTENDS Receive, Sender

CONSTANTS
  Files,        \* the lircd.conf files: sequences of remotes
  MaxPresses,   \* presses of a run
  MaxFrames,    \* signals of a press
  Idle,         \* the shortest pause of the user between two presses
  Waits,        \* who waits for the driver: a subset of {"plain", "lircd", "file"}
  Noises        \* what may be on the line before a press

VARIABLES
  R,      \* the remotes of this run
  tx,     \* the sender: the states of its remotes
  g,      \* the receiver, a record of module Receive
  sent,   \* the presses, oldest first
  out     \* the messages, oldest first

vars == <<R, tx, g, sent, out>>

Init ==
  /\ R \in Files
  /\ tx = [i \in DOMAIN R |-> fresh(R[i])]
  /\ \/ \E wait \in Waits : g = receiver(R, rec_buffer(wait, "MODE2", 0))
     \/ g = receiver(R, rec_buffer("plain", "LIRCCODE", bit_count(R[1])))
  /\ sent = <<>>
  /\ out = <<>>

-----------------------------------------------------------------------------
(* irsimsend repeats a name it has just sent as a repeat.                  *)
simsend_repeats(i, k) ==
  /\ ~live(g.w)
  /\ sent # <<>>
  /\ Last(sent).remote = i /\ Last(sent).button = k

sender(i) == IF live(g.w) THEN R[i] ELSE [R[i] EXCEPT !.min_repeat = 0]

pressed(i, k, frames) ==
  LET st == prepared(R[i], tx[i], k) IN
  IF g.w.mode = "LIRCCODE" THEN hardware_codes(R[i], st, k, frames, Idle)
  ELSE IF is_grundig(R[i]) \/ is_bo(R[i]) \/ is_serial(R[i]) THEN device_signals(R[i], st, k, frames)
  ELSE signals_of(sender(i), st, k, frames, simsend_repeats(i, k))
(* The user waits; a file only holds the gap of the signal before. *)
pause == IF live(g.w) THEN g.w.waited + Idle
         ELSE IF sent = <<>> THEN Idle ELSE tx[Last(sent).remote].min_remaining_gap
idle(n) == IF g.w.mode = "LIRCCODE" THEN <<>> ELSE space(n)
before(noise) == IF noise = <<>> THEN idle(pause) ELSE idle(pause) \o noise \o idle(Idle)

Press(i, k, frames, noise) ==
  /\ Len(sent) < MaxPresses
  /\ g.w.line = <<>> \/ ~live(g.w)
  /\ live(g.w) \/ wptr(g.w) = 0   \* the file is written first
  /\ noise = <<>> \/ (live(g.w) /\ g.w.mode = "MODE2")
  /\ has_toggle_mask(R[i]) => frames % 2 = 0   \* such a device sends pairs
  /\ (g.w.mode = "LIRCCODE") =>
       /\ bit_count(R[i]) = g.w.code_length
       /\ ~is_raw(R[i]) /\ ~has_toggle_mask(R[i]) /\ Len(R[i].codes[k].seq) = 1
  /\ \E s \in {pressed(i, k, frames)} :
       /\ s.ok
       /\ g' = [g EXCEPT !.w.line = @ \o before(noise) \o s.line]
       /\ tx' = [tx EXCEPT ![i] = s.st]
  /\ sent' = Append(sent, [remote |-> i, button |-> k, frames |-> frames, noisy |-> noise # <<>>])
  /\ UNCHANGED <<R, out>>

(* The end of the file: the gap after the last signal. *)
SimsendEnds ==
  /\ ~live(g.w) /\ sent # <<>> /\ wptr(g.w) = 0
  /\ Len(sent) = MaxPresses
  /\ Last(g.w.line).t = "p"
  /\ g' = [g EXCEPT !.w.line = @ \o space(tx[Last(sent).remote].min_remaining_gap)]
  /\ UNCHANGED <<R, tx, sent, out>>

-----------------------------------------------------------------------------
(* The receiver: loop() of lircd calls rec_func() when the driver has      *)
(* data; simreceive() until the end of the file.                           *)
Decode ==
  /\ g.w.line # <<>>
  /\ live(g.w) \/ Last(g.w.line).t = "s" \/ wptr(g.w) # 0
  /\ g' = rec_func(R, g)
  /\ ~g'.w.stuck   \* a call that waits goes on when the next datum comes
  /\ out' = out \o g'.msg
  /\ UNCHANGED <<R, tx, sent>>

Next ==
  \/ \E i \in DOMAIN R : \E k \in 1..Len(R[i].codes), n \in 1..MaxFrames, noise \in Noises :
       Press(i, k, n, noise)
  \/ SimsendEnds
  \/ Decode

Spec == Init /\ [][Next]_vars /\ WF_vars(Decode)
-----------------------------------------------------------------------------
(* Properties *)

(* A repeat of irsimsend continues the press before, unless the toggle     *)
(* bits say that the button was released in between.                       *)
continues(j) ==
  /\ j > 1 /\ ~live(g.w)
  /\ sent[j - 1].remote = sent[j].remote /\ sent[j - 1].button = sent[j].button
  /\ ~has_toggle_bit_mask(R[sent[j].remote])

(* The codes that the signals of a press complete. *)
completed(j) ==
  LET r == R[sent[j].remote]
      n == sent[j].frames + (IF r.gap < LIRCD_EXACT_GAP_THRESHOLD /\ live(g.w) /\ g.w.mode = "MODE2"
                             THEN r.min_repeat ELSE 0)
      parts == Len(r.codes[sent[j].button].seq)
  IN IF has_toggle_mask(r) THEN n \div 2
     ELSE IF is_xmp(r) THEN larger(n - (parts - 1), 0) ELSE n \div parts

RECURSIVE first_reps(_)
first_reps(j) == IF continues(j) THEN first_reps(j - 1) + completed(j - 1) ELSE 0

(* The messages the documentation promises for press j: one for each       *)
(* signal, counting from 0, without the repeats that are to be suppressed. *)
promised(j) ==
  LET r == R[sent[j].remote]
      all == [n \in 1..completed(j) |->
                [remote |-> sent[j].remote, button |-> sent[j].button,
                 reps |-> first_reps(j) + n - 1]]
  IN [n \in DOMAIN SelectSeq(all, LAMBDA m : m.reps = 0 \/ m.reps > r.suppress_repeat) |->
        LET m == SelectSeq(all, LAMBDA x : x.reps = 0 \/ x.reps > r.suppress_repeat)[n] IN
        [m EXCEPT !.reps = IF @ = 0 THEN 0 ELSE @ - r.suppress_repeat]]

reported == [n \in DOMAIN out |-> [remote |-> out[n].remote, button |-> out[n].button, reps |-> out[n].reps]]

(* Signals the code loses: the last one of a serial remote (what is put    *)
(* back after an open end overwrites the pulse before it), and, when lircd *)
(* has lost its timeout, the signal that RC-MM reads noise into.           *)
open_ended ==
  /\ live(g.w)
  /\ \E j \in DOMAIN sent : \/ is_serial(R[sent[j].remote])
                            \/ is_rcmm(R[sent[j].remote]) /\ sent[j].noisy /\ g.w.wait = "lircd"

(* Whatever was pressed, and whatever noise came before it, is reported:   *)
(* one message for each signal that completes a code, in order, and with   *)
(* the number of the repeat (receive_decode(), get_code() and set_code()   *)
(* undo what send_code() and init_send_or_sim() do, for every protocol).   *)
(* At no time has the receiver reported anything else: no button of        *)
(* another remote that happens to match, no repeat taken for a press.      *)
AllDecoded ==
  ~open_ended =>
     LET all == FlattenSeq([j \in DOMAIN sent |-> promised(j)])
     IN IsPrefix(reported, all) /\ (g.w.line = <<>> => reported = all)

(* The receiver works out from the lengths it measured how long the gap    *)
(* after the last signal is; the sender from the lengths it sent.  They    *)
(* agree, although one subtracts what the other never added.               *)
GapsAgree ==
  \A i \in DOMAIN R :
    (/\ g.w.line = <<>> /\ g.w.mode = "MODE2" /\ sent # <<>> /\ Last(sent).remote = i
     /\ g.last_remote = i) =>
       /\ g.st[i].min_remaining_gap = tx[i].min_remaining_gap
       /\ g.st[i].max_remaining_gap = tx[i].max_remaining_gap

(* Every call of rec_func() uses up something, even when no remote can     *)
(* read the signal: noise cannot keep lircd in the same place.             *)
unread(w) == Len(w.line) + (IF w.rptr > 0 THEN wptr(w) - w.rptr ELSE 0)
ReceiverAdvances == [][Decode => unread(g'.w) < unread(g.w)]_vars
=============================================================================
