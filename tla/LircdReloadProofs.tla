-------------------------- MODULE LircdReloadProofs --------------------------
(***************************************************************************)
(* LircdReload for every set of configurations and any number of reloads:  *)
(* no list of remotes is leaked or freed too early, and the repeat never   *)
(* looks at a freed remote.                                                *)
(*                                                                         *)
(* Most steps change at most last_code and repeat_countdown of a remote:   *)
(* the heap keeps its shape, and with it everything the invariant says     *)
(* about pointers that do not move.                                        *)
(***************************************************************************)
EXTENDS LircdReload, SequenceTheorems, TLAPS

Heap == Seq(Seq(Loaded))

(* The same lists of remotes with the same names and buttons. *)
SameShape(h) ==
    /\ Len(h) = Len(heap)
    /\ \A g \in 1..Len(heap) :
          /\ Len(h[g]) = Len(heap[g])
          /\ \A k \in 1..Len(heap[g]) : h[g][k].name = heap[g][k].name /\ h[g][k].codes = heap[g][k].codes

(* Pointers to remotes that exist. *)
Valid(h, p) == p.gen \in 1..Len(h) /\ p.k \in 1..Len(h[p.gen])

(* Two sequences of the same length, one empty and one not, do not exist. *)
LEMMA EmptyLen == ASSUME NEW S, NEW s \in Seq(S) PROVE s = <<>> <=> Len(s) = 0
  BY EmptySeq

(* What a valid pointer points to. *)
LEMMA AtLoaded ==
    ASSUME IndInv, NEW p, Valid(heap, p)
    PROVE  At(p) \in Loaded
<1>1. heap \in Seq(Seq(Loaded))
  BY DEF IndInv, TypeOK
<1>2. heap[p.gen] \in Seq(Loaded) /\ p.k \in 1..Len(heap[p.gen])
  BY <1>1 DEF Valid
<1> QED
  BY <1>2 DEF At

(* Writing to a remote leaves its name and its buttons. *)
LEMMA WriteRemote ==
    ASSUME NEW r \in Loaded, NEW c \in Codes \cup {NULL}, NEW n \in Int
    PROVE  /\ \A l \in {[r EXCEPT !.last_code = c], [r EXCEPT !.repeat_countdown = n]} :
                l \in Loaded /\ l.name = r.name /\ l.codes = r.codes
           /\ r.repeat_countdown \in Int
  BY DEF Loaded

LEMMA WriteBoth ==
    ASSUME NEW r \in Loaded, NEW c \in Codes \cup {NULL}, NEW n \in Int
    PROVE  LET l == [r EXCEPT !.last_code = c, !.repeat_countdown = n]
           IN l \in Loaded /\ l.name = r.name /\ l.codes = r.codes
<1> DEFINE a == [r EXCEPT !.last_code = c]
           b == [a EXCEPT !.repeat_countdown = n]
<1>1. a \in Loaded /\ a.name = r.name /\ a.codes = r.codes
  BY WriteRemote
<1>2. b \in Loaded /\ b.name = a.name /\ b.codes = a.codes
  <2> HIDE DEF a
  <2> QED
    BY <1>1, WriteRemote
<1>3. b = [r EXCEPT !.last_code = c, !.repeat_countdown = n]
  BY DEF Loaded
<1> QED
  BY <1>1, <1>2, <1>3

(* Changing one remote gives a heap of the same shape. *)
LEMMA Update ==
    ASSUME heap \in Heap, NEW p \in Pointer, Valid(heap, p), NEW l \in Loaded,
           l.name = At(p).name, l.codes = At(p).codes
    PROVE  LET h == [heap EXCEPT ![p.gen][p.k] = l]
           IN h \in Heap /\ SameShape(h)
<1> DEFINE inner == [heap[p.gen] EXCEPT ![p.k] = l]
           h == [heap EXCEPT ![p.gen] = inner]
<1>1. heap[p.gen] \in Seq(Loaded) /\ p.gen \in 1..Len(heap) /\ p.k \in 1..Len(heap[p.gen])
  BY DEF Heap, Valid
<1>2. inner \in Seq(Loaded) /\ Len(inner) = Len(heap[p.gen])
  BY <1>1
<1>3. h \in Heap /\ Len(h) = Len(heap)
  BY <1>1, <1>2 DEF Heap
<1>4. \A g \in 1..Len(heap) : h[g] = IF g = p.gen THEN inner ELSE heap[g]
  BY <1>1 DEF Heap
<1>5. \A k \in 1..Len(heap[p.gen]) : inner[k] = IF k = p.k THEN l ELSE heap[p.gen][k]
  BY <1>1
<1>6. SameShape(h)
  BY <1>1, <1>2, <1>3, <1>4, <1>5 DEF SameShape, At
<1> QED
  BY <1>3, <1>6

(* What the invariant says of the lists depends on the shape of the heap. *)
LEMMA ShapeLists ==
    ASSUME IndInv, heap' \in Heap, SameShape(heap'), UNCHANGED <<freed, remotes, free_remotes>>
    PROVE  /\ ListsAccounted'
           /\ \A g \in {remotes, free_remotes, arg} : g # 0 => g \in 1..Len(heap') /\ heap'[g] # <<>>
           /\ \A p \in Pointer : Valid(heap, p) => Valid(heap', p) /\ heap'[p.gen][p.k].codes = At(p).codes
<1> USE DEF IndInv, TypeOK
<1>1. Len(heap') = Len(heap) /\ \A g \in 1..Len(heap) : Len(heap'[g]) = Len(heap[g])
  BY DEF SameShape
<1>2. \A g \in 1..Len(heap) : heap'[g] = <<>> <=> heap[g] = <<>>
  <2> TAKE g \in 1..Len(heap)
  <2>1. heap \in Heap
    BY DEF Heap
  <2> HIDE DEF IndInv, TypeOK
  <2>2. heap[g] \in Seq(Loaded) /\ heap'[g] \in Seq(Loaded) /\ Len(heap'[g]) = Len(heap[g])
    BY <1>1, <2>1 DEF Heap
  <2>3. (heap'[g] = <<>> <=> Len(heap'[g]) = 0) /\ (heap[g] = <<>> <=> Len(heap[g]) = 0)
    BY <2>2, EmptyLen
  <2> QED
    BY <2>2, <2>3
<1>3. ListsAccounted'
  BY <1>1, <1>2 DEF ListsAccounted
<1>4. \A g \in {remotes, free_remotes, arg} : g # 0 => g \in 1..Len(heap') /\ heap'[g] # <<>>
  BY <1>1, <1>2 DEF PointersInHeap
<1>5. \A p \in Pointer : Valid(heap, p) => Valid(heap', p) /\ heap'[p.gen][p.k].codes = At(p).codes
  BY DEF SameShape, Valid, At
<1> QED
  BY <1>3, <1>4, <1>5

(* The present pointers are valid, in the words of Valid. *)
LEMMA ValidPointers ==
    ASSUME IndInv
    PROVE  /\ last_remote # Nil => Valid(heap, last_remote)
           /\ repeat_remote # Nil => Valid(heap, repeat_remote)
           /\ remote # Nil => Valid(heap, remote)
           /\ {last_remote, repeat_remote, remote} \subseteq Pointer
  BY DEF IndInv, TypeOK, PointersInHeap, Valid

(* A step that changes the heap within its shape, and moves no list. *)
LEMMA ShapeStep ==
    ASSUME IndInv, TypeOK', SameShape(heap'), UNCHANGED <<freed, remotes, free_remotes>>,
           \A p \in {last_remote', repeat_remote', remote'} : p # Nil => Valid(heap, p),
           arg' \in {0, arg, remotes},
           timer' \/ alrm' => repeat_remote' # Nil, ~(timer' /\ alrm'),
           repeat_remote' # Nil =>
                repeat_remote'.gen \in {remotes, free_remotes} \ {0} /\ repeat_code' \in At(repeat_remote').codes
    PROVE  IndInv'
<1>1. heap' \in Heap
  BY DEF TypeOK, Heap
<1>2. ListsAccounted'
  BY <1>1, ShapeLists
<1>3. \A p \in {last_remote', repeat_remote', remote'} :
         p # Nil => Valid(heap', p) /\ heap'[p.gen][p.k].codes = At(p).codes
  BY <1>1, ShapeLists DEF TypeOK
<1>4. \A g \in {remotes', free_remotes', arg'} : g # 0 => g \in 1..Len(heap') /\ heap'[g] # <<>>
  BY <1>1, ShapeLists
<1>5. PointersInHeap'
  BY <1>3, <1>4 DEF PointersInHeap, Valid, Nil, Ptr
<1>6. RepeatLive'
  BY <1>3 DEF RepeatLive, Valid, At, Nil, Ptr
<1> QED
  BY <1>2, <1>5, <1>6 DEF IndInv

(* A step that touches neither lists nor pointers. *)
LEMMA QuietStep ==
    ASSUME IndInv, TypeOK', UNCHANGED <<lists, pointers, remote>>, arg' \in {0, arg, remotes},
           timer' \/ alrm' => timer \/ alrm, ~(timer' /\ alrm')
    PROVE  IndInv'
<1>1. SameShape(heap')
  BY DEF SameShape, lists
<1>2. \A p \in {last_remote', repeat_remote', remote'} : p # Nil => Valid(heap, p)
  BY ValidPointers DEF pointers
<1>3. timer' \/ alrm' => repeat_remote' # Nil
  BY DEF IndInv, PointersInHeap, pointers
<1>4. repeat_remote' # Nil =>
          repeat_remote'.gen \in {remotes, free_remotes} \ {0} /\ repeat_code' \in At(repeat_remote').codes
  BY DEF IndInv, RepeatLive, pointers, lists, At
<1> QED
  BY <1>1, <1>2, <1>3, <1>4, ShapeStep DEF lists

(* get_ir_remote() returns a remote of the list, or the null pointer. *)
LEMMA Found ==
    ASSUME heap \in Heap, NEW g \in Nat, g # 0 => g \in 1..Len(heap), NEW name
    PROVE  LET found == get_ir_remote(g, name)
           IN found # Nil => /\ found \in Pointer /\ Valid(heap, found)
                             /\ found.gen = g /\ g # 0
                             /\ At(found).name = name
<1> DEFINE matches == {k \in IF g = 0 THEN {} ELSE 1..Len(heap[g]) :
                          heap[g][k].name = name /\ \A m \in 1..k - 1 : heap[g][m].name # name}
<1> SUFFICES ASSUME matches # {}
             PROVE  \A k \in matches : LET found == Ptr(g, k) IN
                       /\ found \in Pointer /\ Valid(heap, found)
                       /\ found.gen = g /\ g # 0
                       /\ At(found).name = name
  BY DEF get_ir_remote
<1> TAKE k \in matches
<1>1. g # 0 /\ k \in 1..Len(heap[g]) /\ heap[g][k].name = name
  OBVIOUS
<1>2. heap[g] \in Seq(Loaded)
  BY <1>1 DEF Heap
<1> QED
  BY <1>1, <1>2 DEF Ptr, Pointer, Valid, At

-----------------------------------------------------------------------------
(* The actions that touch neither lists nor pointers *)

LEMMA QuietActions ==
    ASSUME IndInv,
           \/ sighup \/ sigalrm \/ poll_return \/ hup_clear \/ no_hup \/ no_alarm
           \/ other_command \/ data_arrived \/ decode_wait \/ crash
    PROVE  IndInv'
<1> USE DEF IndInv, TypeOK, PointersInHeap, lists, pointers, decoder, flags, history
<1>1. CASE sighup
  BY <1>1, QuietStep DEF sighup, interrupted
<1>2. CASE sigalrm
  BY <1>2, QuietStep DEF sigalrm, interrupted
<1>3. CASE poll_return
  BY <1>3, QuietStep DEF poll_return
<1>4. CASE hup_clear
  BY <1>4, QuietStep DEF hup_clear
<1>5. CASE no_hup
  BY <1>5, QuietStep DEF no_hup
<1>6. CASE no_alarm
  BY <1>6, QuietStep DEF no_alarm
<1>7. CASE other_command
  BY <1>7, QuietStep DEF other_command
<1>8. CASE data_arrived
  BY <1>8, QuietStep DEF data_arrived
<1>9. CASE decode_wait
  BY <1>9, QuietStep DEF decode_wait
<1>10. CASE crash
  BY <1>10, QuietStep DEF crash
<1> QED
  BY <1>1, <1>2, <1>3, <1>4, <1>5, <1>6, <1>7, <1>8, <1>9, <1>10

(* The end of a repeat *)
LEMMA StopActions ==
    ASSUME IndInv, repeat_interrupted \/ send_stop
    PROVE  IndInv'
<1> USE DEF IndInv, TypeOK, lists, pointers, decoder, flags, history
<1>1. SameShape(heap')
  BY DEF SameShape, repeat_interrupted, send_stop
<1>2. repeat_remote' = Nil /\ repeat_code' = NULL /\ Nil \in Pointer
  BY DEF repeat_interrupted, send_stop, Nil, Ptr, Pointer
<1>3. ~alrm' /\ UNCHANGED <<lists, last_remote, remote, arg>>
  BY DEF repeat_interrupted, send_stop
<1>4. ~timer'
  BY DEF repeat_interrupted, send_stop, PointersInHeap
<1>5. TypeOK'
  BY <1>2 DEF repeat_interrupted, send_stop
<1>6. \A p \in {last_remote', repeat_remote', remote'} : p # Nil => Valid(heap, p)
  BY <1>2, <1>3, ValidPointers
<1> QED
  BY <1>1, <1>2, <1>3, <1>4, <1>5, <1>6, ShapeStep

(* repeat_send changes the countdown of the repeated remote. *)
LEMMA RepeatSendStep == ASSUME IndInv, repeat_send PROVE IndInv'
<1> USE DEF IndInv, TypeOK, lists, pointers, decoder, flags, history
<1> DEFINE left == At(repeat_remote).repeat_countdown - 1
           l == [At(repeat_remote) EXCEPT !.repeat_countdown = left]
<1>1. repeat_remote # Nil /\ ~timer
  BY DEF repeat_send, PointersInHeap
<1>2. Valid(heap, repeat_remote) /\ repeat_remote \in Pointer
  BY <1>1, ValidPointers
<1>3. At(repeat_remote) \in Loaded
  <2> HIDE DEF IndInv, TypeOK
  <2> QED
    BY <1>2, AtLoaded
<1>4. l \in Loaded /\ l.name = At(repeat_remote).name /\ l.codes = At(repeat_remote).codes
  <2>1. left \in Int
    BY <1>3 DEF Loaded
  <2> QED
    BY <1>3, <2>1, WriteRemote
<1>5. heap' = [heap EXCEPT ![repeat_remote.gen][repeat_remote.k] = l]
  BY DEF repeat_send
<1>6. heap' \in Heap /\ SameShape(heap')
  BY <1>2, <1>4, <1>5, Update DEF Heap
<1>7. \/ repeat_remote' = repeat_remote /\ repeat_code' = repeat_code /\ timer'
      \/ repeat_remote' = Nil /\ repeat_code' = NULL /\ ~timer'
  BY <1>1 DEF repeat_send
<1>8. ~alrm' /\ UNCHANGED <<freed, remotes, free_remotes, last_remote, remote, arg>>
  BY DEF repeat_send
<1>9. TypeOK'
  <2>1. heap' \in Seq(Seq(Loaded)) /\ Nil \in Pointer
    BY <1>6 DEF Heap, Nil, Ptr, Pointer
  <2>2. tx' \in Nat /\ pc' = "poll"
    BY DEF repeat_send
  <2>3. UNCHANGED <<freed, remotes, free_remotes, last_remote, decoder, hup, nest, event,
                    reloads, sends, unread, want>>
    BY DEF repeat_send
  <2>4. {hup', timer', alrm', unread'} \subseteq BOOLEAN
    BY DEF repeat_send
  <2> QED
    BY <1>7, <2>1, <2>2, <2>3, <2>4
<1>10. \A p \in {last_remote', repeat_remote', remote'} : p # Nil => Valid(heap, p)
  BY <1>7, <1>8, ValidPointers
<1>11. repeat_remote' # Nil =>
          repeat_remote'.gen \in {remotes, free_remotes} \ {0} /\ repeat_code' \in At(repeat_remote').codes
  <2>1. CASE repeat_remote' = repeat_remote /\ repeat_code' = repeat_code
    BY <2>1 DEF RepeatLive, At
  <2> QED
    BY <2>1, <1>7
<1> QED
  BY <1>6, <1>7, <1>8, <1>9, <1>10, <1>11, <1>1, ShapeStep

(* send_once finds a remote of the current list. *)
LEMMA SendOnceStep == ASSUME IndInv, send_once PROVE IndInv'
<1> USE DEF IndInv, TypeOK, lists, pointers, decoder, flags, history
<1>1. PICK name \in Names, code \in Codes, reps \in Repeats :
          LET found == get_ir_remote(remotes, name)
          IN /\ found # Nil /\ code \in At(found).codes
             /\ heap' = [heap EXCEPT ![found.gen][found.k] =
                            [At(found) EXCEPT !.last_code = code, !.repeat_countdown = reps]]
             /\ IF reps > 0
                THEN repeat_remote' = found /\ repeat_code' = code /\ timer' = TRUE
                ELSE UNCHANGED <<repeat_remote, repeat_code, timer>>
             /\ tx' = 1 /\ want' = reps
  BY DEF send_once
<1> DEFINE found == get_ir_remote(remotes, name)
           l == [At(found) EXCEPT !.last_code = code, !.repeat_countdown = reps]
<1>2. found \in Pointer /\ Valid(heap, found) /\ found.gen = remotes /\ remotes # 0
  BY <1>1, Found DEF PointersInHeap, Heap
<1>3. At(found) \in Loaded
  BY <1>2 DEF Valid, At
<1>4. reps \in Nat
  BY ReloadAssumption
<1>5. l \in Loaded /\ l.name = At(found).name /\ l.codes = At(found).codes
  <2>1. code \in Codes \cup {NULL} /\ reps \in Int
    BY <1>4
  <2> QED
    BY <1>3, <2>1, WriteBoth, Zenon
<1>6. heap' = [heap EXCEPT ![found.gen][found.k] = l]
  BY <1>1
<1>7. heap' \in Heap /\ SameShape(heap')
  BY <1>2, <1>5, <1>6, Update DEF Heap
<1>8. repeat_remote = Nil /\ ~timer /\ ~alrm
  BY DEF send_once, PointersInHeap
<1>9. ~alrm' /\ UNCHANGED <<freed, remotes, free_remotes, last_remote, remote, arg>>
  BY <1>8 DEF send_once
<1>10. \/ repeat_remote' = found /\ repeat_code' = code /\ timer'
       \/ repeat_remote' = Nil /\ repeat_code' = repeat_code /\ ~timer'
  BY <1>1, <1>8
<1>11. TypeOK'
  <2>1. heap' \in Seq(Seq(Loaded))
    BY <1>7 DEF Heap
  <2>2. sends' \in Nat /\ tx' \in Nat /\ want' \in Nat /\ pc' = "top"
    BY <1>1, <1>4 DEF send_once
  <2>3. UNCHANGED <<freed, remotes, free_remotes, last_remote, decoder, hup, nest, event,
                    reloads, unread>>
    BY DEF send_once
  <2>4. repeat_remote' \in Pointer /\ repeat_code' \in Codes \cup {NULL}
    BY <1>2, <1>8, <1>10
  <2>5. {hup', timer', alrm', unread'} \subseteq BOOLEAN
    BY <1>1 DEF send_once
  <2> QED
    BY <2>1, <2>2, <2>3, <2>4, <2>5
<1>12. \A p \in {last_remote', repeat_remote', remote'} : p # Nil => Valid(heap, p)
  BY <1>2, <1>9, <1>10, ValidPointers
<1>13. repeat_remote' # Nil =>
          repeat_remote'.gen \in {remotes, free_remotes} \ {0} /\ repeat_code' \in At(repeat_remote').codes
  BY <1>1, <1>2, <1>10 DEF At
<1>14. (timer' \/ alrm' => repeat_remote' # Nil) /\ ~(timer' /\ alrm') /\ arg' = arg
  BY <1>1, <1>9, <1>10
<1> HIDE DEF found, l
<1> QED
  BY <1>7, <1>9, <1>11, <1>12, <1>13, <1>14, ShapeStep

-----------------------------------------------------------------------------
(* The decoder *)

(* The first remote of a list that is in use exists. *)
LEMMA FirstValid ==
    ASSUME IndInv, NEW g \in {remotes, free_remotes, arg}
    PROVE  first(g) \in Pointer /\ (first(g) # Nil => Valid(heap, first(g)))
<1> USE DEF IndInv, TypeOK
<1>1. CASE g = 0
  BY <1>1 DEF first, Nil, Ptr, Pointer
<1>2. CASE g # 0
  <2>1. g \in 1..Len(heap) /\ heap[g] # <<>>
    BY <1>2 DEF PointersInHeap
  <2>2. Len(heap[g]) \in Nat /\ Len(heap[g]) # 0
    BY <2>1, EmptyLen
  <2>3. first(g) = Ptr(g, 1) /\ g \in Nat /\ 1 \in 1..Len(heap[g])
    BY <1>2, <2>1, <2>2 DEF first
  <2>4. Ptr(g, 1).gen = g /\ Ptr(g, 1).k = 1 /\ Ptr(g, 1) \in Pointer
    BY <2>3 DEF Ptr, Pointer
  <2> HIDE DEF IndInv, TypeOK
  <2> QED
    BY <2>1, <2>3, <2>4 DEF Valid
<1> QED
  BY <1>1, <1>2

(* and so does the one after a remote of the list. *)
LEMMA NextValid ==
    ASSUME heap \in Heap, NEW p \in Pointer, Valid(heap, p)
    PROVE  next(p) \in Pointer /\ (next(p) # Nil => Valid(heap, next(p)))
<1> DEFINE n == Len(heap[p.gen])
<1>1. p.gen \in Nat /\ p.k \in Nat /\ n \in Nat
  BY DEF Pointer, Valid, Heap
<1>2. CASE p.k < n
  <2>1. next(p) = [gen |-> p.gen, k |-> p.k + 1]
    BY <1>2 DEF next, Ptr
  <2>2. next(p) \in Pointer /\ next(p).gen = p.gen /\ next(p).k = p.k + 1
    BY <1>1, <2>1 DEF Pointer
  <2>3. p.k + 1 \in 1..n
    <3> HIDE DEF n
    <3> QED
      BY <1>1, <1>2
  <2> QED
    BY <2>2, <2>3 DEF Valid
<1>3. CASE ~(p.k < n)
  BY <1>3 DEF next, Nil, Ptr, Pointer
<1> QED
  BY <1>2, <1>3

(* None of these moves a list or the repeat. *)
LEMMA DecoderActions ==
    ASSUME IndInv, rec_func \/ buffer_cleared \/ decode_failed \/ all_failed
    PROVE  IndInv'
<1> USE DEF IndInv, TypeOK, lists, pointers, decoder, flags, history
<1>1. SameShape(heap') /\ UNCHANGED <<lists, repeat_remote, repeat_code, timer, alrm>>
  BY DEF SameShape, rec_func, buffer_cleared, decode_failed, all_failed
<1>2. remote' \in Pointer /\ (remote' # Nil => Valid(heap, remote'))
  <2>1. CASE rec_func
    BY <2>1, FirstValid, ValidPointers DEF rec_func, decode_all
  <2>2. CASE buffer_cleared
    BY <2>2, FirstValid DEF buffer_cleared, decode_all
  <2>3. CASE decode_failed
    <3>1. remote \in Pointer /\ Valid(heap, remote)
      BY <2>3, ValidPointers DEF decode_failed
    <3> QED
      BY <2>3, <3>1, NextValid DEF decode_failed, Heap
  <2>4. CASE all_failed
    BY <2>4, ValidPointers DEF all_failed
  <2> QED
    BY <2>1, <2>2, <2>3, <2>4
<1>3. last_remote' \in {last_remote, Nil} /\ Nil \in Pointer
  BY DEF rec_func, buffer_cleared, decode_failed, all_failed, Nil, Ptr, Pointer
<1>4. arg' \in {0, arg, remotes}
  BY DEF rec_func, buffer_cleared, decode_failed, all_failed
<1>5. TypeOK'
  <2>1. decoding' \in Nat
    BY DEF rec_func, buffer_cleared, decode_failed, all_failed, decode_all
  <2>2. /\ pc' \in {"top", "hupclear", "alarm", "poll", "woken", "events", "decode", "crashed"}
        /\ nest' \in {"loop", "clear", "decode"}
    BY DEF rec_func, buffer_cleared, decode_failed, all_failed, decode_all
  <2>3. UNCHANGED <<event, history, flags>>
    BY DEF rec_func, buffer_cleared, decode_failed, all_failed
  <2> QED
    BY <1>1, <1>2, <1>3, <1>4, <2>1, <2>2, <2>3
<1>6. \A p \in {last_remote', repeat_remote', remote'} : p # Nil => Valid(heap, p)
  BY <1>1, <1>2, <1>3, ValidPointers
<1>7. (timer' \/ alrm' => repeat_remote' # Nil) /\ ~(timer' /\ alrm')
  BY <1>1 DEF PointersInHeap
<1>8. repeat_remote' # Nil =>
          repeat_remote'.gen \in {remotes, free_remotes} \ {0} /\ repeat_code' \in At(repeat_remote').codes
  BY <1>1 DEF RepeatLive, At
<1> QED
  BY <1>1, <1>4, <1>5, <1>6, <1>7, <1>8, ShapeStep

(* set_code() writes to the decoded remote, which becomes last_remote. *)
LEMMA DecodeSucceededStep == ASSUME IndInv, decode_succeeded PROVE IndInv'
<1> USE DEF IndInv, TypeOK, lists, pointers, decoder, flags, history
<1>1. PICK code \in At(remote).codes :
          heap' = [heap EXCEPT ![remote.gen][remote.k] = [At(remote) EXCEPT !.last_code = code]]
  BY DEF decode_succeeded
<1>2. remote \in Pointer /\ Valid(heap, remote)
  BY ValidPointers DEF decode_succeeded
<1>3. At(remote) \in Loaded
  <2> HIDE DEF IndInv, TypeOK
  <2> QED
    BY <1>2, AtLoaded
<1>4. heap' \in Heap /\ SameShape(heap')
  <2> DEFINE l == [At(remote) EXCEPT !.last_code = code]
  <2>1. code \in Codes \cup {NULL}
    BY <1>3 DEF Loaded
  <2>2. l \in Loaded /\ l.name = At(remote).name /\ l.codes = At(remote).codes
    <3>1. 0 \in Int
      OBVIOUS
    <3> QED
      BY <1>3, <2>1, <3>1, WriteRemote
  <2> HIDE DEF l
  <2>3. heap' = [heap EXCEPT ![remote.gen][remote.k] = l]
    BY <1>1 DEF l
  <2> QED
    BY <1>2, <2>2, <2>3, Update DEF Heap
<1>5. last_remote' = remote /\ remote' = Nil /\ arg' = 0 /\ Nil \in Pointer
  BY DEF decode_succeeded, Nil, Ptr, Pointer
<1>6. UNCHANGED <<freed, remotes, free_remotes, repeat_remote, repeat_code, timer, alrm>>
  BY DEF decode_succeeded
<1>7. TypeOK'
  <2>1. heap' \in Seq(Seq(Loaded))
    BY <1>4 DEF Heap
  <2>2. decoding' = 0 /\ pc' = "top" /\ nest' = "loop" /\ UNCHANGED <<flags, event, history>>
    BY DEF decode_succeeded
  <2> QED
    BY <1>5, <1>6, <2>1, <2>2
<1>8. \A p \in {last_remote', repeat_remote', remote'} : p # Nil => Valid(heap, p)
  BY <1>2, <1>5, <1>6, ValidPointers
<1>9. (timer' \/ alrm' => repeat_remote' # Nil) /\ ~(timer' /\ alrm')
  BY <1>6 DEF PointersInHeap
<1>10. repeat_remote' # Nil =>
          repeat_remote'.gen \in {remotes, free_remotes} \ {0} /\ repeat_code' \in At(repeat_remote').codes
  BY <1>6 DEF RepeatLive, At
<1> QED
  BY <1>4, <1>5, <1>6, <1>7, <1>8, <1>9, <1>10, ShapeStep

-----------------------------------------------------------------------------
(* free_old_remotes() *)

(* What a heap of the same shape has in common with the present one. *)
LEMMA ShapeKeeps ==
    ASSUME heap \in Heap, NEW h \in Heap, SameShape(h)
    PROVE  /\ Len(h) = Len(heap)
           /\ \A g \in 1..Len(heap) : h[g] = <<>> <=> heap[g] = <<>>
           /\ \A p \in Pointer : Valid(heap, p) => Valid(h, p) /\ h[p.gen][p.k].codes = At(p).codes
<1>1. Len(h) = Len(heap) /\ \A g \in 1..Len(heap) : Len(h[g]) = Len(heap[g])
  BY DEF SameShape
<1>2. \A g \in 1..Len(heap) : h[g] = <<>> <=> heap[g] = <<>>
  BY <1>1, EmptyLen DEF Heap
<1>3. \A p \in Pointer : Valid(heap, p) => Valid(h, p) /\ h[p.gen][p.k].codes = At(p).codes
  BY DEF SameShape, Valid, At
<1> QED
  BY <1>1, <1>2, <1>3

(* A heap written remote by remote is a heap. *)
LEMMA Rewritten ==
    ASSUME heap \in Heap, NEW h,
           DOMAIN h = DOMAIN heap, h = [g \in DOMAIN heap |-> h[g]],
           \A g \in 1..Len(heap) :
              /\ DOMAIN h[g] = DOMAIN heap[g] /\ h[g] = [k \in DOMAIN heap[g] |-> h[g][k]]
              /\ \A k \in 1..Len(heap[g]) :
                    h[g][k] \in Loaded /\ h[g][k].name = heap[g][k].name /\ h[g][k].codes = heap[g][k].codes
    PROVE  h \in Heap /\ SameShape(h)
<1>1. DOMAIN heap = 1..Len(heap) /\ Len(heap) \in Nat
  BY DEF Heap
<1>2. ASSUME NEW g \in 1..Len(heap)
      PROVE  h[g] \in Seq(Loaded) /\ Len(h[g]) = Len(heap[g])
  <2> DEFINE s == heap[g]
             t == h[g]
  <2>1. s \in Seq(Loaded)
    BY <1>2 DEF Heap
  <2>2. DOMAIN s = 1..Len(s) /\ Len(s) \in Nat
    BY <2>1
  <2>3. t = [k \in 1..Len(s) |-> t[k]] /\ \A k \in 1..Len(s) : t[k] \in Loaded
    BY <1>2, <2>2
  <2> HIDE DEF s, t
  <2>4. t \in [1..Len(s) -> Loaded]
    BY <2>3
  <2>5. t \in Seq(Loaded)
    BY <2>2, <2>4, SeqDef
  <2>6. Len(t) = Len(s)
    BY <2>2, <2>4, <2>5, LenProperties
  <2> QED
    BY <2>5, <2>6 DEF s, t
<1>3. h \in [1..Len(heap) -> Seq(Loaded)]
  BY <1>1, <1>2
<1>4. h \in Seq(Seq(Loaded))
  BY <1>1, <1>3, SeqDef
<1>5. Len(h) = Len(heap)
  BY <1>1, <1>3, <1>4, LenProperties
<1> QED
  BY <1>2, <1>4, <1>5 DEF Heap, SameShape

(* mapped() finds a remote of the current list with the button. *)
LEMMA MappedFound ==
    ASSUME IndInv, NEW p, NEW code
    PROVE  LET m == mapped(p, code)
           IN m # Nil => /\ m \in Pointer /\ Valid(heap, m)
                         /\ m.gen = remotes /\ remotes # 0 /\ code \in At(m).codes
<1> DEFINE found == get_ir_remote(remotes, At(p).name)
<1>1. found # Nil => found \in Pointer /\ Valid(heap, found) /\ found.gen = remotes /\ remotes # 0
  BY Found DEF IndInv, TypeOK, PointersInHeap, Heap
<1> QED
  BY <1>1 DEF mapped

(* map_state writes to last_code only. *)
LEMMA MapStateShape ==
    ASSUME IndInv, free_remotes # 0, map_last_remote, map_state
    PROVE  heap' \in Heap /\ SameShape(heap')
<1> USE DEF IndInv, TypeOK
<1>1. last_remote' \notin {Nil, last_remote} => At(last_remote).last_code \in Codes \cup {NULL}
  <2> SUFFICES ASSUME last_remote' \notin {Nil, last_remote}
               PROVE  At(last_remote).last_code \in Codes \cup {NULL}
    OBVIOUS
  <2>1. last_remote # Nil
    BY DEF map_last_remote, is_in_remotes, Nil, Ptr
  <2>2. Valid(heap, last_remote)
    BY <2>1, ValidPointers
  <2>3. At(last_remote) \in Loaded
    <3> HIDE DEF IndInv, TypeOK
    <3> QED
      BY <2>2, AtLoaded
  <2> QED
    BY <2>3 DEF Loaded
<1>2. ASSUME NEW g \in 1..Len(heap), NEW k \in 1..Len(heap[g])
      PROVE  /\ heap'[g][k] \in Loaded
             /\ heap'[g][k].name = heap[g][k].name /\ heap'[g][k].codes = heap[g][k].codes
  <2> DEFINE r == heap[g][k]
  <2>1. heap[g] \in Seq(Loaded) /\ g \in DOMAIN heap /\ k \in DOMAIN heap[g]
    <3>1. heap \in Seq(Seq(Loaded))
      OBVIOUS
    <3> HIDE DEF IndInv, TypeOK
    <3> QED
      BY <1>2, <3>1
  <2>2. r \in Loaded
    BY <2>1
  <2>3. heap'[g][k] = r \/ \E c \in Codes \cup {NULL} : heap'[g][k] = [r EXCEPT !.last_code = c]
    <3>1. heap'[g][k] =
            IF repeat_remote' # repeat_remote /\ repeat_remote' = Ptr(g, k)
            THEN [r EXCEPT !.last_code = repeat_code]
            ELSE IF last_remote' \notin {Nil, last_remote} /\ last_remote' = Ptr(g, k)
            THEN [r EXCEPT !.last_code = At(last_remote).last_code]
            ELSE r
      BY <2>1, Zenon DEF map_state
    <3> HIDE DEF r
    <3>2. CASE repeat_remote' # repeat_remote /\ repeat_remote' = Ptr(g, k)
      BY <3>1, <3>2
    <3>3. CASE ~(repeat_remote' # repeat_remote /\ repeat_remote' = Ptr(g, k))
      BY <1>1, <3>1, <3>3
    <3> QED
      BY <3>2, <3>3
  <2> HIDE DEF r
  <2>4. \A c \in Codes \cup {NULL} :
           LET l == [r EXCEPT !.last_code = c] IN l \in Loaded /\ l.name = r.name /\ l.codes = r.codes
    BY <2>2 DEF Loaded
  <2> QED
    BY <2>2, <2>3, <2>4 DEF r
<1>3. /\ DOMAIN heap' = DOMAIN heap /\ heap' = [g \in DOMAIN heap |-> heap'[g]]
      /\ \A g \in DOMAIN heap :
            DOMAIN heap'[g] = DOMAIN heap[g] /\ heap'[g] = [k \in DOMAIN heap[g] |-> heap'[g][k]]
  BY DEF map_state
<1>4. DOMAIN heap = 1..Len(heap)
  OBVIOUS
<1> QED
  BY <1>2, <1>3, <1>4, Rewritten DEF Heap

(* The repeat moves to the same remote and button of the new list.  *)
LEMMA RepeatMoves ==
    ASSUME IndInv, free_remotes # 0, map_repeat_remote, map_state,
           repeat_remote' # repeat_remote
    PROVE  /\ heap'[repeat_remote'.gen][repeat_remote'.k].name = At(repeat_remote).name
           /\ heap'[repeat_remote'.gen][repeat_remote'.k].last_code = repeat_code
<1> USE DEF IndInv, TypeOK
<1> DEFINE found == get_ir_remote(remotes, At(repeat_remote).name)
           g == found.gen
           k == found.k
           r == heap[g][k]
<1>1. repeat_remote' = found /\ found # Nil
  BY DEF map_repeat_remote, repeat_stuck, mapped
<1>2. found \in Pointer /\ Valid(heap, found) /\ At(found).name = At(repeat_remote).name
  BY <1>1, Found DEF PointersInHeap, Heap
<1> HIDE DEF found
<1>3. g \in DOMAIN heap /\ k \in DOMAIN heap[g] /\ r \in Loaded
  <2>1. g \in 1..Len(heap) /\ k \in 1..Len(heap[g]) /\ heap[g] \in Seq(Loaded)
    BY <1>2 DEF Valid
  <2>2. heap \in Seq(Seq(Loaded))
    OBVIOUS
  <2> HIDE DEF IndInv, TypeOK
  <2> QED
    BY <2>1, <2>2
<1>4. found = Ptr(g, k)
  BY <1>2 DEF Pointer, Ptr
<1>5. heap'[g][k] = [r EXCEPT !.last_code = repeat_code]
  BY <1>1, <1>3, <1>4, Zenon DEF map_state
<1>6. r.name = At(repeat_remote).name
  BY <1>2 DEF At
<1> HIDE DEF g, k, r
<1>7. heap'[g][k].name = r.name /\ heap'[g][k].last_code = repeat_code
  BY <1>3, <1>5 DEF Loaded
<1> QED
  BY <1>1, <1>6, <1>7 DEF g, k

(* free_old_remotes(): whether or not the old list can go, the repeat and  *)
(* last_remote point to remotes that exist, and the repeat to one of the   *)
(* lists that are left. *)
LEMMA PollReturnedStep == ASSUME IndInv, poll_returned PROVE IndInv'
<1> USE DEF IndInv, TypeOK, lists, pointers, decoder, flags, history
<1>1. /\ pc' \in {"top", "hupclear", "alarm", "poll", "woken", "events", "decode", "crashed"}
      /\ UNCHANGED <<decoding, remote, arg, hup, timer, alrm, nest, event, history>>
  BY DEF poll_returned
<1>2. CASE free_remotes = 0 \/ get_decoding = free_remotes
  <2>1. UNCHANGED <<lists, pointers>>
    BY <1>2 DEF poll_returned, free_old_remotes
  <2>2. TypeOK'
    BY <1>1, <2>1
  <2> QED
    BY <1>1, <2>1, <2>2, QuietStep DEF PointersInHeap
<1>3. CASE free_remotes # 0 /\ get_decoding # free_remotes
  <2>1. /\ map_last_remote /\ map_repeat_remote /\ map_state
        /\ IF repeat_stuck
           THEN UNCHANGED <<freed, free_remotes>>
           ELSE freed' = freed \cup {free_remotes} /\ free_remotes' = 0
        /\ UNCHANGED <<remotes, repeat_code>>
    BY <1>3 DEF poll_returned, free_old_remotes
  <2>2. heap' \in Heap /\ SameShape(heap')
    BY <1>3, <2>1, MapStateShape
  <2>3. last_remote' \in Pointer /\ (last_remote' # Nil => Valid(heap, last_remote'))
    <3>1. \/ last_remote' \in {Nil, last_remote}
          \/ last_remote' # Nil /\ \E c : last_remote' = mapped(last_remote, c)
      BY <2>1 DEF map_last_remote
    <3>2. Nil \in Pointer
      BY DEF Nil, Ptr, Pointer
    <3> QED
      BY <3>1, <3>2, MappedFound, ValidPointers
  <2>4. \/ repeat_remote' = repeat_remote /\ (repeat_stuck \/ ~is_in_remotes(free_remotes, repeat_remote))
        \/ repeat_remote' # Nil /\ repeat_remote' = mapped(repeat_remote, repeat_code) /\ ~repeat_stuck
    BY <2>1 DEF map_repeat_remote, repeat_stuck
  <2>5. repeat_remote' \in Pointer /\ (repeat_remote' # Nil => Valid(heap, repeat_remote'))
    BY <2>4, MappedFound, ValidPointers
  <2>6. repeat_remote' # Nil =>
           repeat_remote'.gen \in {remotes, free_remotes'} \ {0} /\ repeat_code' \in At(repeat_remote').codes
    <3>1. CASE repeat_remote' = mapped(repeat_remote, repeat_code) /\ repeat_remote' # Nil
      BY <2>1, <3>1, MappedFound
    <3>2. CASE repeat_remote' = repeat_remote /\ (repeat_stuck \/ ~is_in_remotes(free_remotes, repeat_remote))
      <4>1. repeat_remote # Nil =>
               repeat_remote.gen \in {remotes, free_remotes} \ {0} /\ repeat_code \in At(repeat_remote).codes
        BY DEF RepeatLive
      <4>2. repeat_stuck => free_remotes' = free_remotes
        BY <2>1
      <4>3. At(repeat_remote') = At(repeat_remote)
        BY <3>2 DEF At
      <4> QED
        BY <2>1, <3>2, <4>1, <4>2, <4>3 DEF is_in_remotes
    <3> QED
      BY <2>4, <3>1, <3>2
  <2>7. (timer' \/ alrm' => repeat_remote' # Nil) /\ ~(timer' /\ alrm')
    BY <1>1, <2>4 DEF PointersInHeap
  <2>8. TypeOK'
    <3>1. freed' \subseteq Nat /\ free_remotes' \in Nat
      <4>1. \/ freed' = freed /\ free_remotes' = free_remotes
            \/ freed' = freed \cup {free_remotes} /\ free_remotes' = 0
        BY <2>1
      <4>2. freed \subseteq Nat /\ free_remotes \in Nat
        OBVIOUS
      <4>3. freed \cup {free_remotes} \subseteq Nat /\ 0 \in Nat
        BY <4>2
      <4> QED
        BY <4>1, <4>2, <4>3, Zenon
    <3>2. heap' \in Seq(Seq(Loaded))
      BY <2>2 DEF Heap
    <3> QED
      BY <1>1, <2>1, <2>3, <2>5, <3>1, <3>2
  <2>9. CASE repeat_stuck
    BY <1>1, <2>1, <2>2, <2>3, <2>5, <2>6, <2>7, <2>8, <2>9, ValidPointers, ShapeStep
  <2>10. CASE ~repeat_stuck
    <3>1. freed' = freed \cup {free_remotes} /\ free_remotes' = 0 /\ remotes' = remotes
      BY <2>1, <2>10
    <3>2. heap \in Heap
      BY DEF Heap
    <3>3. /\ Len(heap') = Len(heap) /\ \A g \in 1..Len(heap) : heap'[g] = <<>> <=> heap[g] = <<>>
          /\ \A p \in Pointer : Valid(heap, p) => Valid(heap', p) /\ heap'[p.gen][p.k].codes = At(p).codes
      BY <2>2, <3>2, ShapeKeeps
    <3>4. ListsAccounted'
      BY <1>3, <3>1, <3>3 DEF ListsAccounted
    <3>5. \A g \in {remotes', free_remotes', arg'} : g # 0 => g \in 1..Len(heap') /\ heap'[g] # <<>>
      BY <1>1, <3>1, <3>3 DEF PointersInHeap
    <3>6. \A p \in {last_remote', repeat_remote', remote'} : p # Nil => Valid(heap', p)
      BY <1>1, <2>3, <2>5, <3>3, ValidPointers
    <3>7. PointersInHeap'
      BY <2>7, <3>5, <3>6 DEF PointersInHeap, Valid, Nil, Ptr
    <3>8. RepeatLive'
      BY <2>5, <2>6, <3>1, <3>3 DEF RepeatLive, Valid, At, Nil, Ptr
    <3> QED
      BY <2>8, <3>4, <3>7, <3>8
  <2> QED
    BY <2>9, <2>10
<1> QED
  BY <1>2, <1>3

-----------------------------------------------------------------------------
(* config() *)

(* The remotes of a file, as read. *)
LEMMA ReadConfig ==
    ASSUME NEW conf \in Configs
    PROVE  /\ read_config(conf) \in Seq(Loaded)
           /\ Len(read_config(conf)) = Len(conf)
           /\ conf # <<>> => read_config(conf) # <<>>
<1> DEFINE r == read_config(conf)
<1>1. conf \in Seq(Remote)
  BY ReloadAssumption
<1>2. DOMAIN conf = 1..Len(conf) /\ Len(conf) \in Nat
  BY <1>1
<1>3. \A k \in 1..Len(conf) : conf[k].name \in Names /\ conf[k].codes \in SUBSET Codes
  <2>1. \A k \in 1..Len(conf) : conf[k] \in Remote
    BY <1>1
  <2> QED
    BY <2>1 DEF Remote
<1>4. r \in [1..Len(conf) -> Loaded]
  BY <1>2, <1>3 DEF read_config, Loaded
<1> HIDE DEF r
<1>5. r \in Seq(Loaded)
  BY <1>2, <1>4, SeqDef
<1>6. Len(r) = Len(conf)
  BY <1>2, <1>4, <1>5, LenProperties
<1>7. conf # <<>> => r # <<>>
  BY <1>1, <1>5, <1>6, EmptyLen
<1> QED
  BY <1>5, <1>6, <1>7 DEF r

(* A new list is added to the heap, or the lists stay as they are. *)
LEMMA DosighupStep == ASSUME IndInv, dosighup PROVE IndInv'
<1> USE DEF IndInv, TypeOK, lists, pointers, decoder, flags, history
<1>1. pc' = "hupclear" /\ UNCHANGED <<pointers, decoder, flags, nest, event, reloads, sends, tx, want>>
  BY DEF dosighup
<1>2. unread' \in BOOLEAN
  BY DEF dosighup, config
<1>3. CASE UNCHANGED lists
  <2>1. TypeOK'
    BY <1>1, <1>2, <1>3
  <2> QED
    BY <1>1, <1>3, <2>1, QuietStep DEF PointersInHeap
<1>4. CASE ~UNCHANGED lists
  <2>1. PICK conf \in Configs :
           /\ free_remotes = 0 /\ free_remotes' = remotes /\ freed' = freed
           /\ \/ remotes' = 0 /\ heap' = heap
              \/ conf # <<>> /\ heap' = Append(heap, read_config(conf)) /\ remotes' = Len(heap) + 1
    BY <1>4 DEF dosighup, config
  <2>2. CASE remotes' = 0 /\ heap' = heap
    <3>1. TypeOK'
      BY <1>1, <1>2, <2>1, <2>2
    <3>2. ListsAccounted'
      BY <2>1, <2>2 DEF ListsAccounted
    <3>3. PointersInHeap'
      BY <1>1, <2>1, <2>2 DEF PointersInHeap
    <3>4. RepeatLive'
      BY <1>1, <2>1, <2>2 DEF RepeatLive, At
    <3> QED
      BY <3>1, <3>2, <3>3, <3>4
  <2>3. CASE conf # <<>> /\ heap' = Append(heap, read_config(conf)) /\ remotes' = Len(heap) + 1
    <3> DEFINE n == Len(heap)
               new == read_config(conf)
    <3>1. new \in Seq(Loaded) /\ new # <<>>
      BY <2>3, ReadConfig
    <3> HIDE DEF new
    <3>2. heap \in Seq(Seq(Loaded)) /\ n \in Nat
      OBVIOUS
    <3>3. /\ heap' \in Seq(Seq(Loaded)) /\ Len(heap') = n + 1
          /\ \A g \in 1..n : heap'[g] = heap[g]
          /\ heap'[n + 1] = new
      BY <2>3, <3>1, <3>2, AppendProperties DEF new
    <3> HIDE DEF n
    <3>4. freed \subseteq Nat /\ remotes \in Nat
      OBVIOUS
    <3>5. TypeOK'
      BY <1>1, <1>2, <2>1, <2>3, <3>2, <3>3 DEF n
    <3>6. ListsAccounted'
      <4>1. remotes # 0 => remotes \in 1..n /\ remotes \notin freed
        BY DEF ListsAccounted, n
      <4>2. n + 1 \notin freed
        BY <3>2 DEF ListsAccounted, n
      <4>3. \A g \in 1..n : heap[g] # <<>> => g \in {remotes} \cup freed
        BY <2>1, <3>2 DEF ListsAccounted, n
      <4>4. n + 1 \in 1..n + 1 /\ n + 1 \notin 1..n /\ n + 1 # 0 /\ 1..n \subseteq 1..n + 1
        BY <3>2
      <4>5. \A g \in 1..n + 1 : g = n + 1 \/ g \in 1..n
        BY <3>2
      <4>6. remotes' = n + 1 /\ free_remotes' = remotes /\ freed' = freed
        BY <2>1, <2>3 DEF n
      <4>7. freed \subseteq 1..n
        BY DEF ListsAccounted, n
      <4>8. freed' \subseteq 1..Len(heap')
        BY <3>3, <4>4, <4>6, <4>7
      <4>9. /\ remotes' # 0 => remotes' \in 1..Len(heap') \ freed'
            /\ free_remotes' # 0 => free_remotes' \in 1..Len(heap') \ freed'
            /\ remotes' # 0 => remotes' # free_remotes'
        BY <3>3, <4>1, <4>2, <4>4, <4>6
      <4>10. \A g \in 1..Len(heap') : heap'[g] # <<>> => g \in {remotes', free_remotes'} \cup freed'
        BY <3>3, <4>3, <4>5, <4>6
      <4> QED
        BY <4>8, <4>9, <4>10 DEF ListsAccounted
    <3>7. PointersInHeap'
      <4>1. /\ \A p \in {last_remote, repeat_remote, remote} :
                   p # Nil => p.gen \in 1..n /\ p.k \in 1..Len(heap[p.gen])
            /\ \A g \in {remotes, arg} : g # 0 => g \in 1..n /\ heap[g] # <<>>
        BY DEF PointersInHeap, n
      <4>2. n + 1 \in 1..n + 1 /\ 1..n \subseteq 1..n + 1
        BY <3>2
      <4>3. \A p \in {last_remote, repeat_remote, remote} :
               p # Nil => p.gen \in 1..Len(heap') /\ p.k \in 1..Len(heap'[p.gen])
        BY <3>3, <4>1, <4>2
      <4>4. \A g \in {n + 1, remotes, arg} : g # 0 => g \in 1..Len(heap') /\ heap'[g] # <<>>
        <5>1. n + 1 \in 1..Len(heap') /\ heap'[n + 1] # <<>>
          BY <3>1, <3>3, <4>2
        <5>2. \A g \in {remotes, arg} : g # 0 => g \in 1..Len(heap') /\ heap'[g] # <<>>
          BY <3>3, <4>1, <4>2
        <5> TAKE g \in {n + 1, remotes, arg}
        <5>3. g = n + 1 \/ g \in {remotes, arg}
          OBVIOUS
        <5> QED
          BY <5>1, <5>2, <5>3, Zenon
      <4>5. remotes' = n + 1 /\ free_remotes' = remotes
        BY <2>1, <2>3 DEF n
      <4>6. (timer \/ alrm => repeat_remote # Nil) /\ ~(timer /\ alrm)
        BY DEF PointersInHeap
      <4> QED
        BY <1>1, <4>3, <4>4, <4>5, <4>6 DEF PointersInHeap
    <3>8. RepeatLive'
      BY <1>1, <2>1, <2>3, <3>2, <3>3 DEF RepeatLive, PointersInHeap, At, n
    <3> QED
      BY <3>5, <3>6, <3>7, <3>8
  <2> QED
    BY <2>1, <2>2, <2>3
<1> QED
  BY <1>3, <1>4

-----------------------------------------------------------------------------

LEMMA InitInd == ASSUME Init PROVE IndInv
<1>1. PICK conf \in Configs :
         heap = <<read_config(conf)>> /\ remotes = IF conf = <<>> THEN 0 ELSE 1
  BY DEF Init
<1> DEFINE r == read_config(conf)
<1>2. r \in Seq(Loaded) /\ Len(r) = Len(conf) /\ (conf # <<>> => r # <<>>) /\ conf \in Seq(Remote)
  BY ReadConfig, ReloadAssumption
<1> HIDE DEF r
<1>3. heap = <<r>>
  BY <1>1 DEF r
<1>4. heap \in Seq(Seq(Loaded)) /\ Len(heap) = 1 /\ heap[1] = r
  BY <1>2, <1>3
<1>5. conf = <<>> => r = <<>>
  BY <1>2, EmptyLen
<1>6. TypeOK
  <2>1. Nil \in Pointer
    BY DEF Nil, Ptr, Pointer
  <2>2. remotes \in Nat
    BY <1>1
  <2>3. {remotes, free_remotes, decoding, arg} \subseteq Nat /\ {reloads, sends, tx, want} \subseteq Nat
    BY <2>2 DEF Init
  <2>4. {last_remote, repeat_remote, remote} \subseteq Pointer /\ freed \subseteq Nat
    BY <2>1 DEF Init
  <2>5. {hup, timer, alrm, unread} \subseteq BOOLEAN /\ repeat_code \in Codes \cup {NULL}
    BY DEF Init
  <2> QED
    BY <1>4, <2>3, <2>4, <2>5 DEF Init, TypeOK
<1>7. ListsAccounted
  BY <1>1, <1>2, <1>4, <1>5 DEF Init, ListsAccounted
<1>8. PointersInHeap
  BY <1>1, <1>2, <1>4 DEF Init, PointersInHeap
<1>9. RepeatLive
  BY DEF Init, RepeatLive
<1> QED
  BY <1>6, <1>7, <1>8, <1>9 DEF IndInv

LEMMA NextInd == ASSUME IndInv, [Next]_vars PROVE IndInv'
<1>1. CASE UNCHANGED vars
  <2>1. TypeOK'
    BY <1>1 DEF vars, IndInv, TypeOK, lists, pointers, decoder, flags, history
  <2> QED
    BY <1>1, <2>1, QuietStep DEF vars, decoder, flags, IndInv, PointersInHeap
<1>2. CASE Next
  BY <1>2, QuietActions, StopActions, RepeatSendStep, SendOnceStep, DecoderActions, DecodeSucceededStep,
     PollReturnedStep, DosighupStep, Zenon
     DEF Next, Daemon, Environment
<1> QED
  BY <1>1, <1>2

(* The inductive invariant: types, every pointer refers to a remote that   *)
(* was read, a running timer has a repeat, and the two facts below.        *)
THEOREM ReloadIndInvariant == Spec => []IndInv
<1>1. Init => IndInv
  BY InitInd
<1>2. IndInv /\ [Next]_vars => IndInv'
  BY NextInd
<1> QED
  BY <1>1, <1>2, PTL DEF Spec

(* config() and free_old_remotes() lose no list of remotes and free none   *)
(* that remotes or free_remotes still names, however many SIGHUPs arrive   *)
(* and wherever the decoder waits. *)
THEOREM ListsSafe == Spec => []ListsAccounted
<1>1. IndInv => ListsAccounted
  BY DEF IndInv
<1> QED
  BY <1>1, ReloadIndInvariant, PTL

(* The remote that dosigalrm() and send_stop() dereference is never freed  *)
(* and has the repeated button. *)
THEOREM RepeatSafe == Spec => []RepeatLive
<1>1. IndInv => RepeatLive
  BY DEF IndInv
<1> QED
  BY <1>1, ReloadIndInvariant, PTL

(* A reload moves the repeat only to a remote of the same name, and hands  *)
(* over the repeated button, so that dosigalrm() goes on with it: every    *)
(* other step keeps the repeat, ends it, or begins one. *)
THEOREM RepeatMovesSafely == Spec => RepeatKeepsRemote
<1> DEFINE Kept ==
      repeat_remote # Nil /\ repeat_remote' \notin {Nil, repeat_remote} =>
          /\ heap'[repeat_remote'.gen][repeat_remote'.k].name = At(repeat_remote).name
          /\ heap'[repeat_remote'.gen][repeat_remote'.k].last_code = repeat_code
<1>1. IndInv /\ [Next]_vars => [Kept]_vars
  <2> SUFFICES ASSUME IndInv, Next, repeat_remote # Nil, repeat_remote' \notin {Nil, repeat_remote}
               PROVE  /\ heap'[repeat_remote'.gen][repeat_remote'.k].name = At(repeat_remote).name
                      /\ heap'[repeat_remote'.gen][repeat_remote'.k].last_code = repeat_code
    OBVIOUS
  <2>1. poll_returned
    BY DEF Next, Daemon, Environment, sighup, sigalrm, poll_return, dosighup, hup_clear, no_hup, no_alarm,
           repeat_interrupted, repeat_send, send_once, send_stop, other_command, rec_func, buffer_cleared,
           data_arrived, decode_wait, decode_failed, decode_succeeded, all_failed, crash, pointers
  <2>2. free_remotes # 0 /\ map_repeat_remote /\ map_state
    BY <2>1 DEF poll_returned, free_old_remotes, pointers
  <2> QED
    BY <2>2, RepeatMoves
<1> QED
  BY <1>1, ReloadIndInvariant, PTL DEF Spec, RepeatKeepsRemote

=============================================================================
