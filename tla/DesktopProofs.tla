---------------------------- MODULE DesktopProofs ----------------------------
(***************************************************************************)
(* Proofs about lircmd and lircd-uinput, for every file, every stream of   *)
(* events and every size of the buffers.                                   *)
(***************************************************************************)
EXTENDS Desktop, Induction, SequenceTheorems

-----------------------------------------------------------------------------
(* Streams *)

(* The loop of events_in. *)
LEMMA EventsLoop ==
    ASSUME NEW p, Len(p) \in Nat
    PROVE  \E g : /\ events_in(p) = g[Len(p)]
                  /\ g[0] = <<>>
                  /\ \A k \in 1..Len(p) :
                        g[k] = IF p[k].newline THEN Append(g[k - 1], p[k].event) ELSE g[k - 1]
<1>. DEFINE One(v, k) == IF p[k].newline THEN Append(v, p[k].event) ELSE v
            Loop(g, n) == g = [k \in 0..n |-> IF k = 0 THEN <<>> ELSE One(g[k - 1], k)]
            S == {n \in Nat : \E g : Loop(g, n)}
            R == CHOOSE g : Loop(g, Len(p))
<1>1. events_in(p) = R[Len(p)]
  BY Zenon DEF events_in
<1>. HIDE DEF One
<1>2. 0 \in S
  <2>. DEFINE g == [k \in 0..0 |-> <<>>]
  <2>1. Loop(g, 0)
    OBVIOUS
  <2>. QED  BY <2>1
<1>3. ASSUME NEW n \in Nat, n \in S PROVE n + 1 \in S
  <2>1. PICK g : Loop(g, n)
    BY <1>3
  <2>. DEFINE h == [k \in 0..(n + 1) |-> IF k <= n THEN g[k] ELSE One(g[n], k)]
  <2>2. Loop(h, n + 1)
    BY <2>1
  <2>. HIDE DEF h, Loop
  <2>3. \E f : Loop(f, n + 1)
    BY <2>2, Zenon
  <2>. QED  BY <2>3
<1>. HIDE DEF S
<1>4. Len(p) \in S
  BY <1>2, <1>3, SetInduction
<1>5. \E g : Loop(g, Len(p))
  BY <1>4 DEF S
<1>6. Loop(R, Len(p))
  BY <1>5, Zenon
<1>. HIDE DEF R
<1>7. R[0] = <<>> /\ \A k \in 1..Len(p) : R[k] = One(R[k - 1], k)
  BY <1>6
<1>. QED  BY <1>1, <1>7, Zenon DEF One

LEMMA EventsType ==
    ASSUME NEW E, NEW p \in Seq(Piece(E))
    PROVE  events_in(p) \in Seq(E)
<1>1. PICK g : /\ events_in(p) = g[Len(p)]
               /\ g[0] = <<>>
               /\ \A k \in 1..Len(p) :
                     g[k] = IF p[k].newline THEN Append(g[k - 1], p[k].event) ELSE g[k - 1]
  BY EventsLoop
<1>. DEFINE S == {n \in Nat : n <= Len(p) => g[n] \in Seq(E)}
<1>2. 0 \in S
  BY <1>1, EmptySeq
<1>3. ASSUME NEW n \in Nat, n \in S PROVE n + 1 \in S
  <2>1. SUFFICES ASSUME n + 1 <= Len(p) PROVE g[n + 1] \in Seq(E)
    OBVIOUS
  <2>2. p[n + 1] \in Piece(E) /\ g[n] \in Seq(E)
    BY <1>3, <2>1
  <2>3. g[n + 1] = IF p[n + 1].newline THEN Append(g[n], p[n + 1].event) ELSE g[n]
    BY <1>1, <2>1
  <2>. QED  BY <2>2, <2>3 DEF Piece
<1>. HIDE DEF S
<1>4. Len(p) \in S
  BY <1>2, <1>3, SetInduction
<1>. QED  BY <1>1, <1>4 DEF S

(* The events of two parts of a stream. *)
LEMMA EventsConcat ==
    ASSUME NEW E, NEW p \in Seq(Piece(E)), NEW q \in Seq(Piece(E))
    PROVE  events_in(p \o q) = events_in(p) \o events_in(q)
<1>. DEFINE Step(g, s, k) == g[k] = IF s[k].newline THEN Append(g[k - 1], s[k].event) ELSE g[k - 1]
<1>0. p \o q \in Seq(Piece(E)) /\ Len(p \o q) = Len(p) + Len(q) /\ Len(p) \in Nat /\ Len(q) \in Nat
  OBVIOUS
<1>1. PICK g : events_in(p \o q) = g[Len(p) + Len(q)] /\ g[0] = <<>>
                 /\ \A k \in 1..(Len(p) + Len(q)) : Step(g, p \o q, k)
  <2>. DEFINE pq == p \o q
  <2>1. Len(pq) \in Nat
    BY <1>0
  <2>2. \E g : events_in(pq) = g[Len(pq)] /\ g[0] = <<>> /\ \A k \in 1..Len(pq) : Step(g, pq, k)
    <3>. HIDE DEF pq
    <3>. QED  BY <2>1, EventsLoop
  <2>. QED  BY <1>0, <2>2
<1>2. PICK f : events_in(p) = f[Len(p)] /\ f[0] = <<>> /\ \A k \in 1..Len(p) : Step(f, p, k)
  BY <1>0, EventsLoop
<1>3. PICK h : events_in(q) = h[Len(q)] /\ h[0] = <<>> /\ \A k \in 1..Len(q) : Step(h, q, k)
  BY <1>0, EventsLoop
<1>. DEFINE S == {n \in Nat : n <= Len(p) => g[n] = f[n]}
            T == {n \in Nat : n <= Len(q) => h[n] \in Seq(E) /\ g[Len(p) + n] = events_in(p) \o h[n]}
<1>4. 0 \in S
  BY <1>1, <1>2
<1>5. ASSUME NEW n \in Nat, n \in S PROVE n + 1 \in S
  <2>1. SUFFICES ASSUME n + 1 <= Len(p) PROVE g[n + 1] = f[n + 1]
    OBVIOUS
  <2>2. (p \o q)[n + 1] = p[n + 1] /\ n + 1 \in 1..Len(p) /\ n + 1 \in 1..(Len(p) + Len(q)) /\ (n + 1) - 1 = n
    BY <1>0, <2>1
  <2>3. Step(g, p \o q, n + 1) /\ Step(f, p, n + 1)
    BY <1>1, <1>2, <2>2
  <2>. QED  BY <1>5, <2>1, <2>2, <2>3
<1>. HIDE DEF S
<1>6. Len(p) \in S
  BY <1>0, <1>4, <1>5, SetInduction
<1>. USE DEF S
<1>7. events_in(p) \in Seq(E)
  BY EventsType
<1>8. 0 \in T
  <2>1. g[Len(p) + 0] = events_in(p)
    BY <1>0, <1>2, <1>6
  <2>2. h[0] \in Seq(E) /\ events_in(p) \o h[0] = events_in(p)
    BY <1>3, <1>7, EmptySeq, ConcatEmptySeq
  <2>. QED  BY <2>1, <2>2
<1>9. ASSUME NEW n \in Nat, n \in T PROVE n + 1 \in T
  <2>1. SUFFICES ASSUME n + 1 <= Len(q) PROVE h[n + 1] \in Seq(E) /\ g[Len(p) + (n + 1)] = events_in(p) \o h[n + 1]
    OBVIOUS
  <2>2. /\ (p \o q)[Len(p) + n + 1] = q[n + 1] /\ n + 1 \in 1..Len(q) /\ (n + 1) - 1 = n
        /\ Len(p) + n + 1 \in 1..(Len(p) + Len(q)) /\ (Len(p) + n + 1) - 1 = Len(p) + n
        /\ q[n + 1] \in Piece(E)
    BY <1>0, <2>1
  <2>3. Step(g, p \o q, Len(p) + n + 1) /\ Step(h, q, n + 1)
    BY <1>1, <1>3, <2>2
  <2>4. h[n] \in Seq(E) /\ g[Len(p) + n] = events_in(p) \o h[n]
    BY <1>9, <2>1
  <2>5. CASE q[n + 1].newline
    <3>1. h[n + 1] = Append(h[n], q[n + 1].event)
      BY <2>2, <2>3, <2>5
    <3>2. g[Len(p) + n + 1] = Append(events_in(p) \o h[n], q[n + 1].event)
      BY <2>2, <2>3, <2>4, <2>5
    <3>3. q[n + 1].event \in E
      BY <2>2 DEF Piece
    <3>5. Append(events_in(p) \o h[n], q[n + 1].event) = events_in(p) \o Append(h[n], q[n + 1].event)
      <4>. DEFINE e == q[n + 1].event
                  a == events_in(p)
                  c == h[n]
      <4>1. e \in E /\ a \in Seq(E) /\ c \in Seq(E)
        BY <1>7, <2>4, <3>3
      <4>. HIDE DEF e, a, c, S, T
      <4>2. a \o c \in Seq(E) /\ <<e>> \in Seq(E)
        BY <4>1
      <4>3. Append(a \o c, e) = (a \o c) \o <<e>> /\ Append(c, e) = c \o <<e>>
        BY <4>1, <4>2, AppendIsConcat
      <4>4. (a \o c) \o <<e>> = a \o (c \o <<e>>)
        BY ONLY <4>1, <4>2, ConcatAssociative
      <4>5. Append(a \o c, e) = a \o Append(c, e)
        BY <4>3, <4>4, Zenon
      <4>. QED  BY <4>5 DEF e, a, c
    <3>6. h[n + 1] \in Seq(E)
      BY <2>4, <3>1, <3>3
    <3>7. Len(p) + (n + 1) = Len(p) + n + 1
      BY <1>0
    <3>. QED  BY <3>1, <3>2, <3>5, <3>6, <3>7
  <2>6. CASE ~q[n + 1].newline
    <3>1. h[n + 1] = h[n] /\ g[Len(p) + n + 1] = g[Len(p) + n]
      BY <2>2, <2>3, <2>6
    <3>2. Len(p) + (n + 1) = Len(p) + n + 1
      BY <1>0
    <3>. QED  BY <2>4, <3>1, <3>2
  <2>. QED  BY <2>5, <2>6
<1>. HIDE DEF T
<1>10. Len(q) \in T
  BY <1>0, <1>8, <1>9, SetInduction
<1>. QED  BY <1>0, <1>1, <1>3, <1>10 DEF T

LEMMA EventsEmpty ==
    events_in(<<>>) = <<>>
BY EventsLoop

LEMMA EventsLine ==
    ASSUME NEW E, NEW e \in E
    PROVE  line_of(e) \in Seq(Piece(E)) /\ Len(line_of(e)) = 2 /\ events_in(line_of(e)) = <<e>>
<1>1. line_of(e) \in Seq(Piece(E)) /\ Len(line_of(e)) = 2
  BY DEF line_of, Piece
<1>2. ~line_of(e)[1].newline /\ line_of(e)[2].newline /\ line_of(e)[2].event = e
  BY DEF line_of
<1>3. PICK g : events_in(line_of(e)) = g[2] /\ g[0] = <<>>
                 /\ \A k \in 1..2 : g[k] = IF line_of(e)[k].newline THEN Append(g[k - 1], line_of(e)[k].event)
                                            ELSE g[k - 1]
  BY <1>1, EventsLoop
<1>4. g[1] = <<>>
  BY <1>2, <1>3
<1>5. g[2] = Append(g[1], e)
  <2>1. 2 \in 1..2 /\ 2 - 1 = 1
    OBVIOUS
  <2>2. g[2] = IF line_of(e)[2].newline THEN Append(g[1], line_of(e)[2].event) ELSE g[1]
    BY <1>3, <2>1, Zenon
  <2>. QED  BY <1>2, <2>2, Zenon
<1>6. Append(<<>>, e) = <<e>>
  OBVIOUS
<1>. QED  BY <1>1, <1>3, <1>4, <1>5, <1>6

(* The first newline. *)
LEMMA NewlineAt ==
    ASSUME NEW E, NEW b \in Seq(Piece(E))
    PROVE  /\ newline_at(b) \in 0..Len(b)
           /\ newline_at(b) = 0 => \A k \in 1..Len(b) : ~b[k].newline
           /\ newline_at(b) # 0 => b[newline_at(b)].newline /\ \A k \in 1..(newline_at(b) - 1) : ~b[k].newline
<1>. DEFINE ends == {k \in DOMAIN b : b[k].newline}
<1>1. newline_at(b) = IF ends = {} THEN 0 ELSE CHOOSE k \in ends : \A i \in ends : k <= i
  BY Zenon DEF newline_at
<1>2. DOMAIN b = 1..Len(b) /\ Len(b) \in Nat /\ ends \in SUBSET Nat
  OBVIOUS
<1>3. CASE ends = {}
  BY <1>1, <1>2, <1>3
<1>4. CASE ends # {}
  <2>. HIDE DEF ends
  <2>1. \E k \in ends : \A i \in ends : k <= i
    BY <1>2, <1>4, Least
  <2>2. newline_at(b) \in ends /\ \A i \in ends : newline_at(b) <= i
    BY <1>1, <1>4, <2>1, Zenon
  <2>. USE DEF ends
  <2>. QED  BY <1>2, <2>2
<1>. QED  BY <1>3, <1>4

LEMMA EventsNone ==
    ASSUME NEW E, NEW b \in Seq(Piece(E)), newline_at(b) = 0
    PROVE  events_in(b) = <<>>
<1>1. PICK g : /\ events_in(b) = g[Len(b)]
               /\ g[0] = <<>>
               /\ \A k \in 1..Len(b) : g[k] = IF b[k].newline THEN Append(g[k - 1], b[k].event) ELSE g[k - 1]
  BY EventsLoop
<1>2. \A k \in 1..Len(b) : g[k] = g[k - 1]
  BY <1>1, NewlineAt
<1>. DEFINE S == {n \in Nat : n <= Len(b) => g[n] = <<>>}
<1>3. 0 \in S
  BY <1>1
<1>4. ASSUME NEW n \in Nat, n \in S PROVE n + 1 \in S
  BY <1>2, <1>4
<1>. HIDE DEF S
<1>5. Len(b) \in S
  BY <1>3, <1>4, SetInduction
<1>. QED  BY <1>1, <1>5 DEF S

(* The first line of a buffer in front of the rest of the stream. *)
LEMMA FirstLine ==
    ASSUME NEW E, NEW b \in Seq(Piece(E)), NEW q \in Seq(Piece(E)),
           Paired(b \o q), newline_at(b) # 0
    PROVE  /\ newline_at(b) = 2 /\ Len(b) >= 2 /\ b[1].event \in E
           /\ SubSeq(b, 1, 2) = line_of(b[1].event) /\ whole(SubSeq(b, 1, 2))
           /\ SubSeq(b, 3, Len(b)) \in Seq(Piece(E))
           /\ Paired(SubSeq(b, 3, Len(b)) \o q)
           /\ events_in(b) = <<b[1].event>> \o events_in(SubSeq(b, 3, Len(b)))
<1>. DEFINE n == newline_at(b)
            r == SubSeq(b, 3, Len(b))
<1>1. n \in 1..Len(b) /\ b[n].newline /\ (\A k \in 1..(n - 1) : ~b[k].newline) /\ Len(b) \in Nat /\ Len(q) \in Nat
  BY NewlineAt
<1>2. /\ b \o q \in Seq(Piece(E)) /\ Len(b \o q) = Len(b) + Len(q)
      /\ \A k \in 1..Len(b) : (b \o q)[k] = b[k]
  OBVIOUS
<1>3. ~b[1].newline /\ n # 1
  BY <1>1, <1>2 DEF Paired
<1>4. b[2] = [event |-> b[1].event, newline |-> TRUE] /\ Len(b) >= 2
  BY <1>1, <1>2, <1>3 DEF Paired
<1>5. n = 2
  BY <1>1, <1>3, <1>4
<1>0. Len(b) \in Nat /\ Len(q) \in Nat /\ Len(b) >= 2
  BY <1>1, <1>4
<1>6. b[1].event \in E /\ b[1] = [event |-> b[1].event, newline |-> FALSE]
  <2>1. b[1] \in Piece(E)
    BY <1>4
  <2>. QED  BY <1>3, <2>1 DEF Piece
<1>7. SubSeq(b, 1, 2) = line_of(b[1].event)
  <2>1. \A k \in 1..2 : b[k] \in Piece(E)
    BY <1>1, <1>4
  <2>2. /\ SubSeq(b, 1, 2) \in Seq(Piece(E)) /\ Len(SubSeq(b, 1, 2)) = 2
        /\ \A k \in 1..2 : SubSeq(b, 1, 2)[k] = b[k]
    BY <2>1, SubSeqProperties
  <2>3. SubSeq(b, 1, 2) = <<b[1], b[2]>>
    <3>. DEFINE s == SubSeq(b, 1, 2)
                u == <<b[1], b[2]>>
    <3>1. u \in Seq(Piece(E)) /\ Len(u) = 2 /\ u[1] = b[1] /\ u[2] = b[2]
      BY <2>1
    <3>. HIDE DEF s, u
    <3>2. s \in Seq(Piece(E)) /\ Len(s) = 2 /\ \A k \in 1..2 : s[k] = u[k]
      BY <2>2, <3>1 DEF s
    <3>3. s = u
      BY <3>1, <3>2, SeqEqual
    <3>. QED  BY <3>3 DEF s, u
  <2>. QED  BY <1>4, <1>6, <2>3 DEF line_of
<1>8. whole(SubSeq(b, 1, 2))
  BY <1>6, <1>7, EventsLine DEF whole, line_of
<1>9. r \in Seq(Piece(E)) /\ Len(r) = Len(b) - 2 /\ \A k \in 1..Len(r) : r[k] = b[k + 2]
  <2>1. \A k \in 3..Len(b) : b[k] \in Piece(E)
    BY <1>4
  <2>2. /\ r \in Seq(Piece(E)) /\ Len(r) = IF 3 <= Len(b) THEN Len(b) - 3 + 1 ELSE 0
        /\ \A k \in 1..(Len(b) - 3 + 1) : r[k] = b[3 + k - 1]
    BY <1>1, <2>1, SubSeqProperties
  <2>. HIDE DEF r, n
  <2>3. CASE Len(b) = 2
    BY <2>2, <2>3
  <2>4. CASE Len(b) > 2
    <3>1. Len(b) - 3 + 1 = Len(b) - 2 /\ \A k \in 1..(Len(b) - 2) : 3 + k - 1 = k + 2
      BY <1>1
    <3>2. Len(r) = Len(b) - 2
      BY <1>1, <2>2, <2>4
    <3>3. ASSUME NEW k \in 1..Len(r) PROVE r[k] = b[k + 2]
      BY <1>1, <2>2, <2>4, <3>1, <3>2
    <3>. QED  BY <2>2, <3>2, <3>3
  <2>5. Len(b) = 2 \/ Len(b) > 2
    <3>. DEFINE size == Len(b)
    <3>1. size \in Nat /\ size >= 2
      BY <1>0
    <3>. HIDE DEF size
    <3>2. size = 2 \/ size > 2
      BY ONLY <3>1
    <3>. QED  BY <3>2 DEF size
  <2>. QED  BY <2>3, <2>4, <2>5, Zenon
<1>10. /\ r \o q \in Seq(Piece(E)) /\ Len(r \o q) = Len(b \o q) - 2
       /\ \A k \in 1..Len(r \o q) : (r \o q)[k] = (b \o q)[k + 2]
  <2>. HIDE DEF r
  <2>1. /\ Len(r \o q) = Len(r) + Len(q) /\ r \o q \in Seq(Piece(E))
        /\ \A k \in 1..(Len(r) + Len(q)) : (r \o q)[k] = IF k <= Len(r) THEN r[k] ELSE q[k - Len(r)]
    BY <1>9, ConcatProperties
  <2>2. /\ Len(b \o q) = Len(b) + Len(q)
        /\ \A k \in 1..(Len(b) + Len(q)) : (b \o q)[k] = IF k <= Len(b) THEN b[k] ELSE q[k - Len(b)]
    BY ConcatProperties
  <2>3. Len(r) + Len(q) = (Len(b) + Len(q)) - 2
    BY <1>0, <1>9
  <2>4. ASSUME NEW k \in 1..(Len(r) + Len(q)) PROVE (r \o q)[k] = (b \o q)[k + 2]
    <3>1. /\ (r \o q)[k] = IF k <= Len(r) THEN r[k] ELSE q[k - Len(r)]
          /\ (b \o q)[k + 2] = IF k + 2 <= Len(b) THEN b[k + 2] ELSE q[(k + 2) - Len(b)]
      BY <1>0, <1>9, <2>1, <2>2
    <3>2. CASE k <= Len(r)
      BY <1>0, <1>9, <3>1, <3>2
    <3>3. CASE ~(k <= Len(r))
      BY <1>0, <1>9, <3>1, <3>3
    <3>. QED  BY <3>2, <3>3
  <2>. QED  BY <2>1, <2>2, <2>3, <2>4
<1>11. Paired(r \o q)
  <2>. DEFINE all == b \o q
              rest == r \o q
  <2>. HIDE DEF r, all, rest
  <2>1. /\ Len(rest) = Len(all) - 2 /\ Len(rest) \in Nat /\ Len(all) \in Nat
        /\ \A k \in 1..Len(rest) : rest[k] = all[k + 2]
    BY <1>2, <1>10 DEF all, rest
  <2>2. all[2].newline /\ Paired(all)
    BY <1>2, <1>4 DEF all
  <2>3. ASSUME Len(rest) > 0 PROVE ~rest[1].newline /\ rest[Len(rest)].newline
    <3>1. /\ 2 \in 1..(Len(all) - 1) /\ all # <<>>
          /\ rest[1] = all[2 + 1] /\ rest[Len(rest)] = all[Len(all)]
      BY <1>2, <2>1, <2>3 DEF all
    <3>. QED  BY <2>2, <3>1 DEF Paired
  <2>4. rest # <<>> => Len(rest) > 0
    BY <1>10 DEF rest
  <2>5. ASSUME NEW k \in 1..(Len(rest) - 1)
        PROVE  IF rest[k].newline THEN ~rest[k + 1].newline
               ELSE rest[k + 1] = [event |-> rest[k].event, newline |-> TRUE]
    <3>1. k + 2 \in 1..(Len(all) - 1) /\ k \in 1..Len(rest) /\ k + 1 \in 1..Len(rest) /\ (k + 1) + 2 = (k + 2) + 1
      BY <2>1
    <3>2. rest[k] = all[k + 2]
      BY <2>1, <3>1
    <3>3. rest[k + 1] = all[(k + 2) + 1]
      BY <2>1, <3>1
    <3>. QED  BY <2>2, <3>1, <3>2, <3>3, Zenon DEF Paired
  <2>6. Paired(rest)
    BY <2>3, <2>4, <2>5 DEF Paired
  <2>. QED  BY <2>6 DEF rest
<1>12. b = SubSeq(b, 1, 2) \o r
  <2>1. b = SubSeq(b, 1, Len(b))
    BY SubSeqFull
  <2>. QED  BY <1>1, <1>4, <2>1, ConcatAdjacentSubSeq
<1>13. events_in(b) = <<b[1].event>> \o events_in(r)
  <2>. HIDE DEF r
  <2>1. line_of(b[1].event) \in Seq(Piece(E)) /\ events_in(line_of(b[1].event)) = <<b[1].event>>
    BY <1>6, EventsLine
  <2>2. events_in(line_of(b[1].event) \o r) = events_in(line_of(b[1].event)) \o events_in(r)
    BY <1>9, <2>1, EventsConcat
  <2>. QED  BY <1>7, <1>12, <2>1, <2>2
<1>. QED  BY <1>4, <1>5, <1>6, <1>7, <1>8, <1>9, <1>11, <1>13

LEMMA PairedLine ==
    ASSUME NEW E, NEW p \in Seq(Piece(E)), NEW e \in E, Paired(p)
    PROVE  Paired(p \o line_of(e))
<1>. DEFINE l == line_of(e)
            all == p \o l
<1>1. l \in Seq(Piece(E)) /\ Len(l) = 2
  BY EventsLine
<1>2. l[1] = [event |-> e, newline |-> FALSE] /\ l[2] = [event |-> e, newline |-> TRUE]
  BY DEF line_of
<1>. HIDE DEF l
<1>3. /\ Len(all) = Len(p) + 2 /\ Len(p) \in Nat
      /\ \A k \in 1..(Len(p) + 2) : all[k] = IF k <= Len(p) THEN p[k] ELSE l[k - Len(p)]
  <2>1. /\ Len(all) = Len(p) + Len(l)
        /\ \A k \in 1..(Len(p) + Len(l)) : all[k] = IF k <= Len(p) THEN p[k] ELSE l[k - Len(p)]
    BY <1>1, ConcatProperties, Zenon
  <2>. HIDE DEF all
  <2>. QED  BY <1>1, <2>1
<1>. HIDE DEF all
<1>. DEFINE n == Len(p)
<1>4. all[n + 1] = l[1] /\ all[n + 2] = l[2] /\ Len(all) = n + 2 /\ n \in Nat /\ \A k \in 1..n : all[k] = p[k]
  <2>1. ((n + 1) - n = 1) /\ ((n + 2) - n = 2) /\ ~(n + 1 <= n) /\ ~(n + 2 <= n) /\ n + 1 \in 1..(n + 2) /\ n + 2 \in 1..(n + 2)
        /\ \A k \in 1..n : k \in 1..(n + 2) /\ k <= n
    BY <1>3
  <2>. QED  BY <1>3, <2>1, Zenon
<1>5. n > 0 => ~p[1].newline /\ p[n].newline
  BY DEF Paired
<1>6. \A k \in 1..(n - 1) : IF p[k].newline THEN ~p[k + 1].newline
                           ELSE p[k + 1] = [event |-> p[k].event, newline |-> TRUE]
  BY DEF Paired
<1>. HIDE DEF n
<1>7. ~all[1].newline /\ all[Len(all)].newline
  BY ONLY <1>2, <1>4, <1>5
<1>8. ASSUME NEW k \in 1..(n + 2 - 1)
      PROVE  IF all[k].newline THEN ~all[k + 1].newline
             ELSE all[k + 1] = [event |-> all[k].event, newline |-> TRUE]
  <2>1. CASE k = n + 1
    <3>1. all[k] = l[1] /\ all[k + 1] = l[2]
      <4>1. k + 1 = n + 2
        BY ONLY <1>4, <2>1
      <4>. QED  BY <1>4, <2>1, <4>1, Zenon
    <3>. QED  BY ONLY <1>2, <3>1
  <2>2. CASE k = n
    BY ONLY <1>2, <1>4, <1>5, <1>8, <2>2
  <2>3. CASE k < n
    <3>1. k \in 1..(n - 1) /\ k \in 1..n /\ k + 1 \in 1..n
      BY ONLY <1>4, <1>8, <2>3
    <3>2. all[k] = p[k] /\ all[k + 1] = p[k + 1]
      BY <1>4, <3>1, Zenon
    <3>. QED  BY <1>6, <3>1, <3>2, Zenon
  <2>4. k = n + 1 \/ k = n \/ k < n
    BY ONLY <1>4, <1>8
  <2>. QED  BY <2>1, <2>2, <2>3, <2>4
<1>9. Paired(all)
  <2>1. \A k \in 1..(Len(all) - 1) : IF all[k].newline THEN ~all[k + 1].newline
             ELSE all[k + 1] = [event |-> all[k].event, newline |-> TRUE]
    <3>1. Len(all) - 1 = n + 2 - 1
      BY ONLY <1>4
    <3>. QED  BY <1>8, <3>1, Zenon
  <2>. QED  BY <1>7, <2>1, Zenon DEF Paired
<1>. QED  BY <1>9 DEF all, l

(* lircd writes a line. *)
LEMMA StreamWrites ==
    ASSUME NEW E, NEW b, NEW s, NEW h, NEW w, Stream(E, b, s, h, w), NEW e \in E
    PROVE  Stream(E, b, s \o line_of(e), h, Append(w, e))
<1>. DEFINE l == line_of(e)
<1>1. l \in Seq(Piece(E)) /\ events_in(l) = <<e>>
  BY EventsLine
<1>. HIDE DEF l
<1>2. /\ b \in Seq(Piece(E)) /\ s \in Seq(Piece(E)) /\ h \in Seq(E) /\ w \in Seq(E) /\ Paired(b \o s)
      /\ w = (h \o events_in(b)) \o events_in(s)
  BY DEF Stream
<1>3. s \o l \in Seq(Piece(E)) /\ b \o s \in Seq(Piece(E)) /\ Append(w, e) \in Seq(E)
  BY <1>1, <1>2
<1>4. Paired(b \o (s \o l))
  <2>0. b \in Seq(Piece(E)) /\ s \in Seq(Piece(E)) /\ l \in Seq(Piece(E))
    BY <1>1, <1>2, Zenon
  <2>1. (b \o s) \o l = b \o (s \o l)
    BY ONLY <2>0, ConcatAssociative
  <2>. QED  BY <1>2, <1>3, <2>1, PairedLine DEF l
<1>5. Append(w, e) = (h \o events_in(b)) \o events_in(s \o l)
  <2>. DEFINE x == h \o events_in(b)
              y == events_in(s)
  <2>1. events_in(s \o l) = y \o <<e>>
    BY <1>1, <1>2, EventsConcat
  <2>2. events_in(b) \in Seq(E) /\ y \in Seq(E)
    BY <1>2, EventsType
  <2>3. x \in Seq(E) /\ <<e>> \in Seq(E)
    BY <1>2, <2>2
  <2>4. w = x \o y
    BY <1>2
  <2>. HIDE DEF x, y
  <2>5. Append(w, e) = (x \o y) \o <<e>>
    BY <1>2, <2>4, AppendIsConcat
  <2>6. (x \o y) \o <<e>> = x \o (y \o <<e>>)
    BY ONLY <2>2, <2>3, ConcatAssociative
  <2>. QED  BY <2>1, <2>5, <2>6 DEF x
<1>. QED  BY <1>2, <1>3, <1>4, <1>5 DEF Stream, l

(* A program reads n pieces. *)
LEMMA StreamReads ==
    ASSUME NEW E, NEW b, NEW s, NEW h, NEW w, Stream(E, b, s, h, w), NEW n \in 0..Len(s)
    PROVE  Stream(E, b \o SubSeq(s, 1, n), SubSeq(s, n + 1, Len(s)), h, w)
<1>. DEFINE c == SubSeq(s, 1, n)
            r == SubSeq(s, n + 1, Len(s))
<1>1. /\ b \in Seq(Piece(E)) /\ s \in Seq(Piece(E)) /\ h \in Seq(E) /\ w \in Seq(E) /\ Paired(b \o s)
      /\ w = (h \o events_in(b)) \o events_in(s)
  BY DEF Stream
<1>2. c \in Seq(Piece(E)) /\ r \in Seq(Piece(E))
  BY <1>1
<1>3. s = c \o r
  <2>1. SubSeq(s, 1, n) \o SubSeq(s, n + 1, Len(s)) = SubSeq(s, 1, Len(s))
    <3>1. Len(s) \in Nat /\ 1 \in 1..(Len(s) + 1) /\ n \in (1 - 1)..Len(s) /\ Len(s) \in n..Len(s)
      BY <1>1
    <3>. QED  BY <1>1, <3>1, ConcatAdjacentSubSeq, Zenon
  <2>. QED  BY <1>1, <2>1, SubSeqFull
<1>. HIDE DEF c, r
<1>4. b \o s = (b \o c) \o r
  <2>1. b \in Seq(Piece(E))
    BY <1>1
  <2>2. (b \o c) \o r = b \o (c \o r)
    BY ONLY <1>2, <2>1, ConcatAssociative
  <2>. QED  BY <1>3, <2>2, Zenon
<1>5. b \o c \in Seq(Piece(E))
  BY <1>1, <1>2
<1>6. w = (h \o events_in(b \o c)) \o events_in(r)
  <2>1. events_in(s) = events_in(c) \o events_in(r) /\ events_in(b \o c) = events_in(b) \o events_in(c)
    BY <1>1, <1>2, <1>3, EventsConcat
  <2>2. events_in(b) \in Seq(E) /\ events_in(c) \in Seq(E) /\ events_in(r) \in Seq(E) /\ h \in Seq(E)
    BY <1>1, <1>2, EventsType
  <2>3. (h \o events_in(b)) \o (events_in(c) \o events_in(r)) = (h \o (events_in(b) \o events_in(c))) \o events_in(r)
    <3>1. PICK x, y, z, q : x = events_in(b) /\ y = events_in(c) /\ z = events_in(r) /\ q = h \o x
      OBVIOUS
    <3>2. h \in Seq(E) /\ x \in Seq(E) /\ y \in Seq(E)
      BY <2>2, <3>1
    <3>3. q \in Seq(E) /\ y \in Seq(E) /\ z \in Seq(E)
      BY <2>2, <3>1
    <3>4. (h \o x) \o y = h \o (x \o y)
      BY ONLY <3>2, ConcatAssociative
    <3>5. (q \o y) \o z = q \o (y \o z)
      BY ONLY <3>3, ConcatAssociative
    <3>. QED  BY ONLY <3>1, <3>4, <3>5
  <2>. QED  BY <1>1, <2>1, <2>3, Zenon
<1>. QED  BY <1>1, <1>2, <1>4, <1>5, <1>6 DEF Stream, c, r

(* A program uses a line. *)
LEMMA StreamTakes ==
    ASSUME NEW E, NEW b, NEW s, NEW h, NEW w, Stream(E, b, s, h, w), newline_at(b) # 0
    PROVE  /\ newline_at(b) = 2 /\ whole(SubSeq(b, 1, 2)) /\ b[1].event \in E
           /\ SubSeq(b, 1, 2) = line_of(b[1].event) /\ Len(SubSeq(b, 1, 2)) = 2
           /\ Stream(E, SubSeq(b, 3, Len(b)), s, Append(h, b[1].event), w)
<1>. DEFINE r == SubSeq(b, 3, Len(b))
            e == b[1].event
<1>1. /\ b \in Seq(Piece(E)) /\ s \in Seq(Piece(E)) /\ h \in Seq(E) /\ w \in Seq(E) /\ Paired(b \o s)
      /\ w = (h \o events_in(b)) \o events_in(s)
  BY DEF Stream
<1>2. /\ newline_at(b) = 2 /\ whole(SubSeq(b, 1, 2)) /\ e \in E /\ SubSeq(b, 1, 2) = line_of(e)
      /\ r \in Seq(Piece(E)) /\ Paired(r \o s) /\ events_in(b) = <<e>> \o events_in(r)
  BY <1>1, FirstLine
<1>. HIDE DEF r, e
<1>3. events_in(r) \in Seq(E) /\ <<e>> \in Seq(E) /\ Append(h, e) \in Seq(E) /\ Append(h, e) = h \o <<e>>
  BY <1>1, <1>2, EventsType, AppendIsConcat
<1>4. h \o (<<e>> \o events_in(r)) = Append(h, e) \o events_in(r)
  <2>1. h \in Seq(E) /\ <<e>> \in Seq(E) /\ events_in(r) \in Seq(E)
    BY <1>1, <1>3, Zenon
  <2>2. (h \o <<e>>) \o events_in(r) = h \o (<<e>> \o events_in(r))
    BY ONLY <2>1, ConcatAssociative
  <2>. QED  BY <1>3, <2>2, Zenon
<1>5. Stream(E, r, s, Append(h, e), w)
  BY <1>1, <1>2, <1>3, <1>4, Zenon DEF Stream
<1>6. Len(line_of(e)) = 2
  BY <1>2, EventsLine
<1>. QED  BY <1>2, <1>5, <1>6 DEF r, e

(* A program that holds no line gets one with what it reads. *)
LEMMA StreamFills ==
    ASSUME NEW E, NEW b, NEW s, NEW h, NEW w, Stream(E, b, s, h, w),
           newline_at(b) = 0, s # <<>>,
           NEW n \in 0..Len(s), n = Len(s) \/ Len(b) + n >= 2
    PROVE  newline_at(b \o SubSeq(s, 1, n)) # 0
<1>. DEFINE c == SubSeq(s, 1, n)
            all == b \o s
            new == b \o c
<1>1. b \in Seq(Piece(E)) /\ s \in Seq(Piece(E)) /\ Paired(all) /\ Len(b) \in Nat /\ Len(s) \in Nat /\ Len(s) > 0
  BY DEF Stream
<1>2. c \in Seq(Piece(E)) /\ Len(c) = n /\ \A k \in 1..n : c[k] = s[k]
  BY <1>1
<1>. HIDE DEF c
<1>3. /\ Len(all) = Len(b) + Len(s)
      /\ \A k \in 1..(Len(b) + Len(s)) : all[k] = IF k <= Len(b) THEN b[k] ELSE s[k - Len(b)]
  BY <1>1, ConcatProperties
<1>4. /\ new \in Seq(Piece(E)) /\ Len(new) = Len(b) + n
      /\ \A k \in 1..(Len(b) + n) : new[k] = IF k <= Len(b) THEN b[k] ELSE c[k - Len(b)]
  BY <1>1, <1>2, ConcatProperties
<1>. DEFINE lb == Len(b)
            ls == Len(s)
<1>5. lb \in Nat /\ ls \in Nat /\ ls > 0 /\ n \in 0..ls /\ (n = ls \/ lb + n >= 2)
  BY <1>1
<1>6. all # <<>>
  BY <1>1
<1>. HIDE DEF all, new, lb, ls
<1>7. ASSUME NEW k \in 1..(lb + n) PROVE new[k] = all[k]
  <2>1. k \in 1..(lb + ls) /\ (~(k <= lb) => k - lb \in 1..n)
    BY ONLY <1>5, <1>7
  <2>2. new[k] = IF k <= lb THEN b[k] ELSE c[k - lb]
    BY <1>4, Zenon DEF lb
  <2>3. all[k] = IF k <= lb THEN b[k] ELSE s[k - lb]
    BY <1>3, <2>1, Zenon DEF lb, ls
  <2>. QED  BY <1>2, <2>1, <2>2, <2>3, Zenon
<1>8. Len(all) = lb + ls /\ Len(new) = lb + n
  BY <1>3, <1>4 DEF lb, ls
<1>9. \E k \in 1..(lb + n) : all[k].newline
  <2>1. ~all[1].newline /\ all[lb + ls].newline
    BY <1>1, <1>6, <1>8, Zenon DEF Paired
  <2>2. lb + ls >= 2
    BY ONLY <1>5, <2>1
  <2>3. all[2].newline
    <3>1. 1 \in 1..((lb + ls) - 1) /\ 1 + 1 = 2
      BY ONLY <1>5, <2>2
    <3>2. all[1 + 1] = [event |-> all[1].event, newline |-> TRUE]
      BY <1>1, <1>8, <2>1, <3>1, Zenon DEF Paired
    <3>. QED  BY ONLY <3>2
  <2>4. CASE n = ls
    BY ONLY <1>5, <2>1, <2>2, <2>4
  <2>5. CASE lb + n >= 2
    BY ONLY <1>5, <2>3, <2>5
  <2>. QED  BY <1>5, <2>4, <2>5
<1>10. \E k \in 1..Len(new) : new[k].newline
  BY <1>7, <1>8, <1>9, Zenon
<1>11. newline_at(new) # 0
  BY <1>4, <1>10, NewlineAt
<1>. QED  BY <1>11 DEF new, c

-----------------------------------------------------------------------------
(* Nothing is lost. *)

LEMMA StreamInit == Init => StreamInv
<1>. SUFFICES ASSUME Init PROVE StreamInv
  OBVIOUS
<1>1. Stream(scene.events, <<>>, <<>>, <<>>, <<>>)
  <2>1. events_in(<<>>) = <<>>
    BY EventsEmpty
  <2>. QED  BY <2>1 DEF Stream, Paired
<1>2. newline_at(<<>>) = 0
  BY DEF newline_at
<1>3. /\ line_buffer = <<>> /\ buffer = <<>> /\ end_len = 0 /\ sock = <<>> /\ written = <<>> /\ handled = <<>>
      /\ \/ scene \in LircmdScenes /\ upc = "off" /\ mpc = "start"
         \/ scene \in UinputScenes /\ upc = "start" /\ mpc = "off"
  BY DEF Init, uinput_init, lircmd_init
<1>. QED  BY <1>1, <1>2, <1>3 DEF StreamInv

LEMMA StreamLircd == StreamInv /\ lircd_step => StreamInv'
<1>. SUFFICES ASSUME StreamInv, lircd_step PROVE StreamInv'
  OBVIOUS
<1>1. UNCHANGED <<scene, handled, upc, line_buffer, mpc, buffer, end_len>>
  BY DEF lircd_step, lircd_writes, lircd_exits, uinput, lircmd_vars
<1>2. CASE lircd_writes
  <2>1. PICK event \in scene.events : sock' = sock \o line_of(event) /\ written' = Append(written, event)
    BY <1>2 DEF lircd_writes
  <2>2. ASSUME NEW b, Stream(scene.events, b, sock, handled, written)
        PROVE  Stream(scene.events, b, sock', handled, written')
    BY <2>1, <2>2, StreamWrites
  <2>. QED  BY <1>1, <2>2 DEF StreamInv
<1>3. CASE lircd_exits
  BY <1>1, <1>3 DEF StreamInv, lircd_exits
<1>. QED  BY <1>2, <1>3 DEF lircd_step

(* What read() takes. *)
LEMMA ChunkIs ==
    ASSUME NEW E, sock \in Seq(E), NEW size \in Nat
    PROVE  \E n \in 0..Len(sock) :
              /\ n = (IF Len(sock) < size THEN Len(sock) ELSE size)
              /\ chunk(size) = SubSeq(sock, 1, n) /\ Len(chunk(size)) = n
<1>. DEFINE n == IF Len(sock) < size THEN Len(sock) ELSE size
<1>1. n \in 0..Len(sock)
  OBVIOUS
<1>2. Len(SubSeq(sock, 1, n)) = n
  BY <1>1
<1>. QED  BY <1>1, <1>2 DEF chunk

LEMMA StreamUinput == StreamInv /\ uinput_step /\ UNCHANGED lircmd_vars => StreamInv'
<1>. SUFFICES ASSUME StreamInv, uinput_step, UNCHANGED lircmd_vars PROVE StreamInv'
  OBVIOUS
<1>1. /\ mpc = "off" /\ upc # "off" /\ scene \in UinputScenes /\ buffer = <<>> /\ end_len = 0
      /\ Stream(scene.events, line_buffer, sock, handled, written)
  BY DEF StreamInv, uinput_step, main_fails, main_starts, read_input, process_one, lines_done,
         poll_timeout, uinput_eof
<1>2. mpc' = mpc /\ buffer' = buffer /\ end_len' = end_len
  BY DEF lircmd_vars
<1>3. UNCHANGED <<scene, closed, written>>
  BY DEF uinput_step, main_fails, main_starts, read_input, process_one, lines_done,
         poll_timeout, uinput_eof, socket
<1>4. SUFFICES /\ upc' # "off" /\ Stream(scene.events, line_buffer', sock', handled', written)
               /\ upc' \in {"start", "poll"} => newline_at(line_buffer') = 0
  BY <1>1, <1>2, <1>3 DEF StreamInv
<1>5. CASE read_input
  <2>1. sock \in Seq(Piece(scene.events))
    BY <1>1 DEF Stream
  <2>2. PICK n \in 0..Len(sock) : chunk(PACKET_SIZE) = SubSeq(sock, 1, n) /\ Len(chunk(PACKET_SIZE)) = n
    BY <2>1, ChunkIs, SocketAssumption
  <2>3. line_buffer' = line_buffer \o SubSeq(sock, 1, n) /\ sock' = SubSeq(sock, n + 1, Len(sock))
    BY <1>5, <2>2 DEF read_input, read_chunk
  <2>4. Stream(scene.events, line_buffer', sock', handled, written)
    BY <1>1, <2>3, StreamReads
  <2>. QED  BY <1>5, <2>4 DEF read_input
<1>6. CASE process_one
  <2>1. newline_at(line_buffer) # 0 /\ upc' \in {"lines", "last lines"} /\ sock' = sock
    BY <1>6 DEF process_one, has_lines
  <2>2. /\ newline_at(line_buffer) = 2 /\ whole(SubSeq(line_buffer, 1, 2)) /\ Len(SubSeq(line_buffer, 1, 2)) = 2
        /\ SubSeq(line_buffer, 1, 2) = line_of(line_buffer[1].event)
        /\ Stream(scene.events, SubSeq(line_buffer, 3, Len(line_buffer)), sock,
                  Append(handled, line_buffer[1].event), written)
    BY <1>1, <2>1, StreamTakes
  <2>3. SubSeq(line_buffer, 1, 2)[1].event = line_buffer[1].event
    BY <2>2 DEF line_of
  <2>4. /\ line_buffer' = SubSeq(line_buffer, 2 + 1, Len(line_buffer))
        /\ handled' = Append(handled, SubSeq(line_buffer, 1, 2)[1].event)
    BY <1>6, <2>2 DEF process_one, get_next_line
  <2>5. 2 + 1 = 3
    OBVIOUS
  <2>. QED  BY <2>1, <2>2, <2>3, <2>4, <2>5, Zenon
<1>7. CASE lines_done
  BY <1>1, <1>7 DEF lines_done, has_lines, socket
<1>8. CASE main_fails \/ main_starts \/ poll_timeout \/ uinput_eof
  <2>1. UNCHANGED <<line_buffer, sock, handled>>
    BY <1>8 DEF main_fails, main_starts, poll_timeout, uinput_eof, socket
  <2>2. upc' # "off" /\ (upc' \in {"start", "poll"} => newline_at(line_buffer) = 0)
    BY <1>8 DEF main_fails, main_starts, poll_timeout, uinput_eof, StreamInv
  <2>. QED  BY <1>1, <2>1, <2>2
<1>. QED  BY <1>5, <1>6, <1>7, <1>8 DEF uinput_step

(* What a buffer holds that has no whole line. *)
LEMMA StreamRest ==
    ASSUME NEW E, NEW b, NEW s, NEW h, NEW w, Stream(E, b, s, h, w), newline_at(b) = 0
    PROVE  Len(b) \in 0..1
<1>1. b \in Seq(Piece(E)) /\ s \in Seq(Piece(E)) /\ Paired(b \o s)
  BY DEF Stream
<1>. DEFINE all == b \o s
<1>2. /\ Len(all) = Len(b) + Len(s) /\ Len(b) \in Nat /\ Len(s) \in Nat
      /\ \A k \in 1..Len(b) : all[k] = b[k]
  BY <1>1
<1>3. \A k \in 1..Len(b) : ~b[k].newline
  BY <1>1, NewlineAt
<1>. HIDE DEF all
<1>4. ASSUME Len(b) > 1 PROVE FALSE
  <2>1. 1 \in 1..(Len(all) - 1) /\ 1 \in 1..Len(b) /\ 2 \in 1..Len(b) /\ 1 + 1 = 2
    BY <1>2, <1>4
  <2>2. ~all[1].newline /\ ~all[2].newline
    BY <1>2, <1>3, <2>1, Zenon
  <2>3. all[1 + 1] = [event |-> all[1].event, newline |-> TRUE]
    BY <1>1, <2>1, <2>2, Zenon DEF Paired, all
  <2>. QED  BY <2>1, <2>2, <2>3
<1>5. \A n \in Nat : ~(n > 1) => n \in 0..1
  OBVIOUS
<1>. QED  BY <1>2, <1>4, <1>5, Zenon

(* A line is used. *)
LEMMA TakesLine ==
    ASSUME NEW E, NEW b, NEW s, Stream(E, b, s, handled, written), newline_at(b) # 0, take_line(b)
    PROVE  /\ b[1].event \in E /\ mouse_conv(b[1].event)
           /\ Stream(E, buffer', s, handled', written) /\ end_len' = Len(buffer')
<1>1. /\ newline_at(b) = 2 /\ whole(SubSeq(b, 1, 2)) /\ b[1].event \in E
      /\ Stream(E, SubSeq(b, 3, Len(b)), s, Append(handled, b[1].event), written)
  BY StreamTakes
<1>2. /\ buffer' = SubSeq(b, 2 + 1, Len(b)) /\ end_len' = Len(buffer')
      /\ mouse_conv(b[1].event) /\ handled' = Append(handled, b[1].event)
  BY <1>1 DEF take_line
<1>3. 2 + 1 = 3
  OBVIOUS
<1>. QED  BY <1>1, <1>2, <1>3, Zenon

(* The line that read_returns finds. *)
LEMMA ReadFinds ==
    ASSUME StreamInv, read_returns
    PROVE  \E b, s : /\ Stream(scene.events, b, s, handled, written) /\ newline_at(b) # 0
                     /\ take_line(b) /\ sock' = s /\ scene \in LircmdScenes
<1>1. /\ upc = "off" /\ scene \in LircmdScenes /\ end_len = Len(buffer) /\ newline_at(buffer) = 0
      /\ Stream(scene.events, buffer, sock, handled, written)
  BY DEF StreamInv, read_returns
<1>2. sock \in Seq(Piece(scene.events)) /\ buffer \in Seq(Piece(scene.events)) /\ sock # <<>>
  BY <1>1 DEF Stream, read_returns
<1>3. Len(buffer) \in 0..1
  BY <1>1, StreamRest
<1>4. room \in Nat /\ Len(buffer) + room >= 2
  BY <1>1, <1>3, SocketAssumption DEF room
<1>5. PICK n \in 0..Len(sock) : /\ n = (IF Len(sock) < room THEN Len(sock) ELSE room)
                                /\ chunk(room) = SubSeq(sock, 1, n) /\ Len(chunk(room)) = n
  BY <1>2, <1>4, ChunkIs
<1>6. SubSeq(buffer, 1, end_len) = buffer
  BY <1>1, <1>2, SubSeqFull
<1>. DEFINE b == buffer \o SubSeq(sock, 1, n)
            s == SubSeq(sock, n + 1, Len(sock))
<1>7. Stream(scene.events, b, s, handled, written)
  BY <1>1, StreamReads
<1>8. newline_at(b) # 0
  <2>1. n = Len(sock) \/ Len(buffer) + n >= 2
    BY <1>4, <1>5
  <2>. QED  BY <1>1, <1>2, <2>1, StreamFills
<1>9. take_line(b) /\ sock' = s
  <2>1. b = SubSeq(buffer, 1, end_len) \o chunk(room)
    BY <1>5, <1>6
  <2>. QED  BY <1>5, <1>8, <2>1, Zenon DEF read_returns, read_chunk
<1>. HIDE DEF b, s
<1>. QED  BY <1>1, <1>7, <1>8, <1>9

LEMMA StreamLircmd == StreamInv /\ lircmd_step /\ UNCHANGED uinput => StreamInv'
<1>. SUFFICES ASSUME StreamInv, lircmd_step, UNCHANGED uinput PROVE StreamInv'
  OBVIOUS
<1>1. /\ upc = "off" /\ mpc # "off" /\ scene \in LircmdScenes /\ line_buffer = <<>> /\ end_len = Len(buffer)
      /\ Stream(scene.events, buffer, sock, handled, written)
  BY DEF StreamInv, lircmd_step, lircmd_fails, lircmd_starts, edit, sighup, dohup, unblock, lircmd_read,
         read_returns, next_line, overrun, lircmd_eof
<1>2. upc' = upc /\ line_buffer' = line_buffer
  BY DEF uinput
<1>3. UNCHANGED <<scene, closed, written>>
  BY DEF lircmd_step, lircmd_fails, lircmd_starts, edit, sighup, dohup, unblock, lircmd_read,
         read_returns, next_line, overrun, lircmd_eof, socket
<1>4. SUFFICES /\ mpc' # "off" /\ Stream(scene.events, buffer', sock', handled', written)
               /\ end_len' = Len(buffer')
               /\ mpc' \in {"window", "read"} => newline_at(buffer') = 0
  BY <1>1, <1>2, <1>3 DEF StreamInv
<1>5. CASE read_returns
  BY <1>5, ReadFinds, TakesLine DEF read_returns
<1>6. CASE next_line
  BY <1>1, <1>6, TakesLine DEF next_line
<1>7. CASE ~read_returns /\ ~next_line
  <2>1. UNCHANGED <<buffer, end_len, sock, handled>>
    BY <1>7 DEF lircmd_step, lircmd_fails, lircmd_starts, edit, sighup, dohup, unblock, lircmd_read,
                overrun, lircmd_eof, socket
  <2>2. mpc' # "off" /\ (mpc' \in {"window", "read"} => newline_at(buffer) = 0)
    BY <1>1, <1>7 DEF lircmd_step, lircmd_fails, lircmd_starts, edit, sighup, dohup, unblock, lircmd_read,
                overrun, lircmd_eof, StreamInv
  <2>. QED  BY <1>1, <2>1, <2>2
<1>. QED  BY <1>5, <1>6, <1>7

LEMMA StreamInvariant == Spec => []StreamInv
<1>1. StreamInv /\ UNCHANGED vars => StreamInv'
  BY DEF StreamInv, vars, socket, uinput, lircmd_vars
<1>2. StreamInv /\ [Next]_vars => StreamInv'
  BY <1>1, StreamLircd, StreamUinput, StreamLircmd DEF Next
<1>. QED  BY <1>2, StreamInit, PTL DEF Spec

(* What the parts give. *)
LEMMA StreamKeepsAll == StreamInv => NothingLost
<1>. SUFFICES ASSUME StreamInv PROVE NothingLost
  OBVIOUS
<1>1. PICK E, b : /\ Stream(E, b, sock, handled, written)
                  /\ \/ upc = "off" /\ line_buffer = <<>> /\ buffer = b /\ end_len = Len(buffer)
                     \/ mpc = "off" /\ line_buffer = b /\ buffer = <<>> /\ end_len = 0
                  /\ upc = "poll" \/ mpc = "read" => newline_at(b) = 0
  BY DEF StreamInv
<1>2. /\ b \in Seq(Piece(E)) /\ sock \in Seq(Piece(E)) /\ handled \in Seq(E)
      /\ written = (handled \o events_in(b)) \o events_in(sock)
  BY <1>1 DEF Stream
<1>3. events_in(b) \in Seq(E) /\ events_in(<<>>) = <<>>
  BY <1>2, EventsType, EventsEmpty
<1>4. SubSeq(b, 1, Len(b)) = b /\ SubSeq(<<>>, 1, 0) = <<>>
  BY <1>2, SubSeqFull
<1>5. handled \o events_in(b) \in Seq(E)
  BY <1>2, <1>3
<1>6. /\ (handled \o events_in(b)) \o <<>> = handled \o events_in(b)
      /\ (handled \o <<>>) \o events_in(b) = handled \o events_in(b)
  BY <1>2, <1>5, ConcatEmptySeq
<1>7. written = ((handled \o events_in(line_buffer)) \o events_in(SubSeq(buffer, 1, end_len))) \o events_in(sock)
  BY ONLY <1>1, <1>2, <1>3, <1>4, <1>6
<1>8. newline_at(b) = 0 => written = handled \o events_in(sock)
  <2>1. newline_at(b) = 0 => events_in(b) = <<>>
    BY <1>2, EventsNone
  <2>2. handled \o <<>> = handled
    BY <1>2, ConcatEmptySeq
  <2>. QED  BY <1>2, <2>1, <2>2, Zenon
<1>. QED  BY <1>1, <1>7, <1>8, Zenon DEF NothingLost

(* Whatever lircd writes and wherever the reads cut it, lircmd (loop()) and *)
(* lircd-uinput (LineBuffer) use every press once and in order: an         *)
(* unfinished line is all that a buffer keeps when no whole one is there. *)
THEOREM NothingIsLost == Spec => []NothingLost
<1>. QED  BY StreamInvariant, StreamKeepsAll, PTL

-----------------------------------------------------------------------------
(* Keys are released. *)

LEMMA NoneIsReserved == get_keycode(none).code = KEY_RESERVED
BY DesktopAssumption DEF get_keycode, none

LEMMA KeyInit == Init => KeyInv
<1>. SUFFICES ASSUME Init PROVE KeyInv
  OBVIOUS
<1>1. /\ code_cache = << >> /\ last_button_press = none /\ abandoned = {} /\ quiet = FALSE
      /\ keys = [registered |-> {}, down |-> {}, delay |-> 0, period |-> 0]
  BY DEF Init, uinput_init
<1>2. IsButton(none)
  BY DEF none, IsButton
<1>. QED  BY <1>1, <1>2 DEF KeyInv

(* The cache has nothing that get_keycode() would not say. *)
LEMMA CacheKept ==
    ASSUME KeyInv, NEW button, NEW reps, send_message(button, reps)
    PROVE  \A b \in DOMAIN code_cache' : code_cache'[b] = get_keycode(b)
<1>1. (IF button \in DOMAIN code_cache THEN code_cache[button] ELSE get_keycode(button)) = get_keycode(button)
  BY DEF KeyInv
<1>. QED  BY <1>1 DEF send_message, KeyInv

(* What is sent. *)
LEMMA SendsCode ==
    ASSUME KeyInv, NEW button, NEW reps, send_message(button, reps)
    PROVE  LET entry == get_keycode(button)
           IN IF entry.code = KEY_RESERVED THEN UNCHANGED <<keys, last_button_press>>
              ELSE /\ keys' = write_event(keys, entry.code, IF reps + 1 > 2 THEN 2 ELSE reps + 1)
                   /\ last_button_press' = IF scene.add_release_events /\ ~entry.is_release
                                           THEN button ELSE none
<1>1. (IF button \in DOMAIN code_cache THEN code_cache[button] ELSE get_keycode(button)) = get_keycode(button)
  BY DEF KeyInv
<1>. QED  BY <1>1 DEF send_message

LEMMA KeyWritten ==
    ASSUME KeyInv, NEW code, code # KEY_RESERVED, NEW value
    PROVE  LET new == write_event(keys, code, value)
           IN /\ DOMAIN new = {"registered", "down", "delay", "period"}
              /\ new.down \subseteq new.registered \ {KEY_RESERVED}
              /\ new.down \subseteq keys.down \cup {code}
              /\ value = 0 => code \notin new.down
BY DEF KeyInv, write_event

LEMMA KeyProcess ==
    ASSUME KeyInv, NEW event, IsButton(event.button), process_line(event), quiet' = FALSE
    PROVE  KeyInv'
<1>1. CASE event.button \in scene.disabled
  BY <1>1 DEF process_line, KeyInv
<1>2. CASE event.button \notin scene.disabled
  <2>. DEFINE button == event.button
              code == get_keycode(button).code
  <2>1. send_message(button, event.rep) /\ forgets(button)
    BY <1>2 DEF process_line
  <2>2. /\ get_keycode(last_button_press).code \in abandoned' \cup {get_keycode(last_button_press').code}
        /\ code \in abandoned' \cup {get_keycode(last_button_press').code}
        /\ abandoned \subseteq abandoned' \cup {get_keycode(last_button_press').code}
    BY <2>1 DEF forgets
  <2>3. \A b \in DOMAIN code_cache' : code_cache'[b] = get_keycode(b)
    BY <2>1, CacheKept
  <2>4. CASE code = KEY_RESERVED
    <3>1. UNCHANGED <<keys, last_button_press>>
      BY <2>1, <2>4, SendsCode
    <3>. QED  BY <2>2, <2>3, <3>1 DEF KeyInv
  <2>5. CASE code # KEY_RESERVED
    <3>1. PICK value : keys' = write_event(keys, code, value)
      BY <2>1, <2>5, SendsCode
    <3>2. last_button_press' \in {button, none} /\ (last_button_press' # none => ~get_keycode(button).is_release)
      BY <2>1, <2>5, SendsCode
    <3>3. ~get_keycode(button).is_release => ~button.suffix
      BY <2>5 DEF get_keycode
    <3>4. IsButton(none)
      BY DEF none, IsButton
    <3>5. /\ DOMAIN keys' = {"registered", "down", "delay", "period"}
          /\ keys'.down \subseteq keys'.registered \ {KEY_RESERVED}
          /\ keys'.down \subseteq keys.down \cup {code}
      <4>. HIDE DEF code
      <4>. QED  BY <2>5, <3>1, KeyWritten
    <3>6. keys'.down \subseteq abandoned' \cup {get_keycode(last_button_press').code}
      BY <2>2, <3>5 DEF KeyInv
    <3>. QED  BY <2>3, <2>5, <3>2, <3>3, <3>4, <3>5, <3>6 DEF KeyInv
  <2>. QED  BY <2>4, <2>5
<1>. QED  BY <1>1, <1>2

LEMMA KeyTimeout ==
    ASSUME KeyInv, poll_timeout
    PROVE  KeyInv'
<1>1. send_release_event /\ abandoned' = abandoned
  BY DEF poll_timeout
<1>2. CASE last_button_press = none
  BY <1>1, <1>2 DEF send_release_event, KeyInv
<1>3. CASE last_button_press # none
  <2>. DEFINE button == [last_button_press EXCEPT !.suffix = TRUE]
              code == get_keycode(last_button_press).code
  <2>1. send_message(button, -1)
    BY <1>1, <1>3 DEF send_release_event
  <2>2. code # KEY_RESERVED /\ IsButton(last_button_press)
    BY <1>3 DEF KeyInv
  <2>3. get_keycode(button).code = code /\ get_keycode(button).is_release
    BY <2>2 DEF get_keycode, IsButton
  <2>4. \A b \in DOMAIN code_cache' : code_cache'[b] = get_keycode(b)
    BY <2>1, CacheKept
  <2>5. keys' = write_event(keys, code, 0) /\ last_button_press' = none
    <3>1. (IF -1 + 1 > 2 THEN 2 ELSE -1 + 1) = 0
      OBVIOUS
    <3>. QED  BY <2>1, <2>2, <2>3, <3>1, SendsCode
  <2>6. /\ DOMAIN keys' = {"registered", "down", "delay", "period"}
        /\ keys'.down \subseteq keys'.registered \ {KEY_RESERVED}
        /\ keys'.down \subseteq keys.down \cup {code} /\ code \notin keys'.down
    BY <2>2, <2>5, KeyWritten
  <2>7. keys'.down \subseteq abandoned
    BY <2>6 DEF KeyInv
  <2>8. IsButton(none)
    BY DEF none, IsButton
  <2>. QED  BY <1>1, <2>4, <2>5, <2>6, <2>7, <2>8 DEF KeyInv
<1>. QED  BY <1>2, <1>3

LEMMA KeyUinput ==
    ASSUME StreamInv, KeyInv, uinput_step
    PROVE  KeyInv'
<1>1. CASE process_one
  <2>1. upc # "off" /\ newline_at(line_buffer) # 0
    BY <1>1 DEF process_one, has_lines
  <2>2. scene \in UinputScenes /\ Stream(scene.events, line_buffer, sock, handled, written)
    BY <2>1 DEF StreamInv
  <2>3. /\ newline_at(line_buffer) = 2 /\ whole(SubSeq(line_buffer, 1, 2)) /\ line_buffer[1].event \in scene.events
        /\ SubSeq(line_buffer, 1, 2) = line_of(line_buffer[1].event)
    BY <2>1, <2>2, StreamTakes
  <2>4. SubSeq(line_buffer, 1, 2)[1].event = line_buffer[1].event
    BY <2>3 DEF line_of
  <2>5. process_line(line_buffer[1].event) /\ quiet' = FALSE
    BY <1>1, <2>3, <2>4, Zenon DEF process_one, get_next_line
  <2>6. IsButton(line_buffer[1].event.button)
    BY <2>2, <2>3, DesktopAssumption DEF IsButton
  <2>. QED  BY <2>5, <2>6, KeyProcess
<1>2. CASE poll_timeout
  BY <1>2, KeyTimeout
<1>3. CASE main_starts
  BY <1>3 DEF main_starts, KeyInv
<1>4. CASE main_fails \/ read_input \/ lines_done \/ uinput_eof
  <2>1. UNCHANGED <<code_cache, last_button_press, keys, abandoned, quiet>>
    BY <1>4 DEF main_fails, read_input, lines_done, uinput_eof
  <2>. QED  BY <2>1 DEF KeyInv
<1>. QED  BY <1>1, <1>2, <1>3, <1>4 DEF uinput_step

(* lircd-uinput --add-release-events: send_release_event() finds the key of *)
(* the last press, whatever names, codes, disabled buttons and repeats     *)
(* there are, so that only forgotten presses outlast poll()'s time. *)
THEOREM QuietReleases == Spec => []ReleasedWhenQuiet
<1>1. KeyInv /\ UNCHANGED uinput => KeyInv'
  BY DEF KeyInv, uinput
<1>2. StreamInv /\ KeyInv /\ [Next]_vars => KeyInv'
  BY <1>1, KeyUinput DEF Next, vars, lircd_step
<1>3. KeyInv => ReleasedWhenQuiet
  BY NoneIsReserved DEF KeyInv, ReleasedWhenQuiet
<1>. QED  BY <1>2, <1>3, KeyInit, StreamInvariant, PTL DEF Spec

-----------------------------------------------------------------------------
(* What the reader of the device takes a packet for *)

Unit == {-1, 0, 1}

LEMMA UnitBytes ==
    ASSUME NEW d \in Unit
    PROVE  /\ octet(d) = (IF d < 0 THEN 255 ELSE d) /\ octet(d) % 64 = (IF d < 0 THEN 63 ELSE d)
           /\ octet(d) \div 64 = (IF d < 0 THEN 3 ELSE 0)
BY DEF Unit, octet

LEMMA ReadsImps ==
    ASSUME NEW B \in SUBSET BUTTONS, NEW dx \in Unit, NEW dy \in Unit, NEW dz \in Unit
    PROVE  reads_imps_2(imps_2(B, dx, dy, dz)) = [x |-> dx, y |-> dy, z |-> dz, down |-> B]
<1>. DEFINE b1 == bit(B, 1, 1)
            b2 == bit(B, 2, 4)
            b3 == bit(B, 3, 2)
            sx == IF dx < 0 THEN 16 ELSE 0
            sy == IF dy < 0 THEN 32 ELSE 0
            byte == b1 + b3 + b2 + 8 + sx + sy
            packet == imps_2(B, dx, dy, dz)
<1>1. packet[1] = byte /\ packet[2] = octet(dx) /\ packet[3] = octet(dy) /\ packet[4] = octet(dz)
  BY DEF imps_2
<1>2. /\ b1 \in {0, 1} /\ (b1 = 1 <=> 1 \in B) /\ b2 \in {0, 4} /\ (b2 = 4 <=> 2 \in B)
      /\ b3 \in {0, 2} /\ (b3 = 2 <=> 3 \in B)
      /\ sx \in {0, 16} /\ (sx = 16 <=> dx < 0) /\ sy \in {0, 32} /\ (sy = 32 <=> dy < 0)
  BY DEF bit
<1>. HIDE DEF b1, b2, b3, sx, sy, packet
<1>3. /\ is_set(byte, 1) <=> b1 = 1
      /\ is_set(byte, 2) <=> b3 = 2
      /\ is_set(byte, 4) <=> b2 = 4
      /\ is_set(byte, 16) <=> sx = 16
      /\ is_set(byte, 32) <=> sy = 32
  BY ONLY <1>2 DEF is_set, byte
<1>. HIDE DEF byte
<1>4. /\ packet[2] - (IF is_set(packet[1], 16) THEN 256 ELSE 0) = dx
      /\ packet[3] - (IF is_set(packet[1], 32) THEN 256 ELSE 0) = dy
  <2>1. octet(dx) = (IF dx < 0 THEN 255 ELSE dx) /\ octet(dy) = (IF dy < 0 THEN 255 ELSE dy)
    BY UnitBytes
  <2>2. dx \in {-1, 0, 1} /\ dy \in {-1, 0, 1}
    BY DEF Unit
  <2>. QED  BY ONLY <1>1, <1>2, <1>3, <2>1, <2>2
<1>5. signed(packet[4], 256) = dz
  <2>1. octet(dz) = (IF dz < 0 THEN 255 ELSE dz) /\ 256 \div 2 = 128
    BY UnitBytes
  <2>. QED  BY <1>1, <2>1 DEF signed, Unit
<1>6. {b \in BUTTONS : is_set(packet[1], CASE b = 1 -> 1 [] b = 2 -> 4 [] b = 3 -> 2)} = B
  <2>1. ASSUME NEW b \in BUTTONS PROVE is_set(packet[1], CASE b = 1 -> 1 [] b = 2 -> 4 [] b = 3 -> 2) <=> b \in B
    <3>1. CASE b = 1
      BY <1>1, <1>2, <1>3, <3>1
    <3>2. CASE b = 2
      BY <1>1, <1>2, <1>3, <3>2
    <3>3. CASE b = 3
      BY <1>1, <1>2, <1>3, <3>3
    <3>. QED  BY <3>1, <3>2, <3>3 DEF BUTTONS
  <2>. QED  BY <2>1
<1>. QED  BY <1>4, <1>5, <1>6 DEF reads_imps_2, packet

LEMMA ReadsSerial ==
    ASSUME NEW B \in SUBSET BUTTONS, NEW dx \in Unit, NEW dy \in Unit, NEW dz \in Unit
    PROVE  reads_im_serial(im_serial(B, dx, -dy, dz)) = [x |-> dx, y |-> dy, z |-> dz, down |-> B]
<1>. DEFINE b1 == bit(B, 1, 32)
            b2 == bit(B, 2, 16)
            b3 == bit(B, 3, 16)
            hx == octet(dx) \div 64
            hy == octet(-dy) \div 64
            first == b1 + b3 + 64 + hx + 4 * hy
            wheel == IF dz < 0 THEN 15 ELSE IF dz > 0 THEN 1 ELSE 0
            last == wheel + b2
            packet == im_serial(B, dx, -dy, dz)
<1>1. packet[1] = first /\ packet[2] = octet(dx) % 64 /\ packet[3] = octet(-dy) % 64 /\ packet[4] = last
  BY DEF im_serial
<1>2. /\ b1 \in {0, 32} /\ (b1 = 32 <=> 1 \in B) /\ b2 \in {0, 16} /\ (b2 = 16 <=> 2 \in B)
      /\ b3 \in {0, 16} /\ (b3 = 16 <=> 3 \in B)
  BY DEF bit
<1>3. -dy \in Unit
  BY DEF Unit
<1>4. /\ hx = (IF dx < 0 THEN 3 ELSE 0) /\ octet(dx) % 64 = (IF dx < 0 THEN 63 ELSE dx)
      /\ hy = (IF -dy < 0 THEN 3 ELSE 0) /\ octet(-dy) % 64 = (IF -dy < 0 THEN 63 ELSE -dy)
  BY <1>3, UnitBytes
<1>5. dx \in {-1, 0, 1} /\ dy \in {-1, 0, 1} /\ dz \in {-1, 0, 1} /\ hx \in {0, 3} /\ hy \in {0, 3}
  BY <1>4 DEF Unit
<1>6. wheel \in {0, 1, 15}
  OBVIOUS
<1>. HIDE DEF b1, b2, b3, hx, hy, packet, wheel
<1>7. /\ first % 4 = hx /\ (first \div 4) % 4 = hy
      /\ is_set(first, 32) <=> b1 = 32
      /\ is_set(first, 16) <=> b3 = 16
      /\ last % 16 = wheel
      /\ is_set(last, 16) <=> b2 = 16
  BY ONLY <1>2, <1>5, <1>6 DEF is_set, first, last
<1>. HIDE DEF first, last
<1>8. signed((packet[1] % 4) * 64 + packet[2], 256) = dx
  <2>1. hx * 64 + (octet(dx) % 64) = (IF dx < 0 THEN 255 ELSE dx) /\ 256 \div 2 = 128
    BY ONLY <1>4, <1>5
  <2>. QED  BY ONLY <1>1, <1>5, <1>7, <2>1 DEF signed
<1>9. - signed(((packet[1] \div 4) % 4) * 64 + packet[3], 256) = dy
  <2>1. hy * 64 + (octet(-dy) % 64) = (IF -dy < 0 THEN 255 ELSE -dy) /\ 256 \div 2 = 128
    BY ONLY <1>4, <1>5
  <2>. QED  BY ONLY <1>1, <1>5, <1>7, <2>1 DEF signed
<1>10. signed(packet[4] % 16, 16) = dz
  <2>1. 16 \div 2 = 8
    OBVIOUS
  <2>. QED  BY ONLY <1>1, <1>5, <1>7, <2>1 DEF signed, wheel
<1>11. {b \in BUTTONS : CASE b = 1 -> is_set(packet[1], 32) [] b = 2 -> is_set(packet[4], 16)
                          [] b = 3 -> is_set(packet[1], 16)} = B
  <2>1. ASSUME NEW b \in BUTTONS PROVE (CASE b = 1 -> is_set(packet[1], 32) [] b = 2 -> is_set(packet[4], 16)
                          [] b = 3 -> is_set(packet[1], 16)) <=> b \in B
    <3>1. CASE b = 1
      BY <1>1, <1>2, <1>7, <3>1
    <3>2. CASE b = 2
      BY <1>1, <1>2, <1>7, <3>2
    <3>3. CASE b = 3
      BY <1>1, <1>2, <1>7, <3>3
    <3>. QED  BY <3>1, <3>2, <3>3 DEF BUTTONS
  <2>. QED  BY <2>1
<1>. QED  BY <1>8, <1>9, <1>10, <1>11 DEF reads_im_serial, packet

-----------------------------------------------------------------------------
(* Moves and buttons *)

Device == [kind : {"none", "fifo", "uinput"}, at : Place, down : SUBSET BUTTONS]

LEMMA SeesTrue ==
    ASSUME NEW d \in Device, d.kind # "none", NEW protocol, NEW B \in SUBSET BUTTONS,
           NEW dx \in Unit, NEW dy \in Unit, NEW dz \in Unit, NEW buttp, NEW buttr,
           B = (d.down \cup buttp) \ buttr
    PROVE  LET seen == sees(d, protocol, B, dx, dy, dz, buttp, buttr)
           IN /\ seen.x = dx /\ seen.y \in Unit /\ seen.z = dz /\ seen.down = B
              /\ d.kind = "fifo" => seen.y = dy
<1>. DEFINE sy == IF protocol = "IntelliMouse" THEN -dy ELSE dy
            seen == sees(d, protocol, B, dx, dy, dz, buttp, buttr)
<1>1. dy \in Unit /\ -dy \in Unit /\ -(-dy) = dy
  BY DEF Unit
<1>2. CASE d.kind = "uinput"
  <2>1. seen = [x |-> dx, y |-> -sy, z |-> dz, down |-> (d.down \cup buttp) \ buttr]
    BY <1>2 DEF sees
  <2>. QED  BY <1>1, <1>2, <2>1
<1>3. CASE d.kind = "fifo" /\ protocol = "IntelliMouse"
  <2>1. seen = reads_im_serial(im_serial(B, dx, -dy, dz))
    BY <1>3 DEF sees
  <2>2. seen = [x |-> dx, y |-> dy, z |-> dz, down |-> B]
    BY <2>1, ReadsSerial
  <2>. HIDE DEF seen
  <2>3. seen.x = dx /\ seen.y = dy /\ seen.z = dz /\ seen.down = B
    BY ONLY <2>2
  <2>. QED  BY <1>1, <2>3 DEF seen
<1>4. CASE d.kind = "fifo" /\ protocol # "IntelliMouse"
  <2>1. seen = reads_imps_2(imps_2(B, dx, dy, dz))
    BY <1>4 DEF sees
  <2>2. seen = [x |-> dx, y |-> dy, z |-> dz, down |-> B]
    BY <2>1, ReadsImps
  <2>. HIDE DEF seen
  <2>3. seen.x = dx /\ seen.y = dy /\ seen.z = dz /\ seen.down = B
    BY ONLY <2>2
  <2>. QED  BY <1>1, <2>3 DEF seen
<1>. QED  BY <1>2, <1>3, <1>4 DEF Device

LEMMA FactorType ==
    ASSUME NEW m \in Settings, NEW rep \in Nat
    PROVE  /\ accelerated(m, rep) \in Nat
           /\ m.acc_start >= 1 => accelerated(m, 0) = 1
<1>1. m.acc_fak \in Nat /\ m.acc_max \in Nat /\ m.acc_start \in Nat
  BY DEF Settings
<1>2. \A a, b \in Nat : a * b \in Nat
  OBVIOUS
<1>3. rep * m.acc_fak \in Nat
  BY <1>1, <1>2, Zenon
<1>. QED  BY <1>1, <1>3 DEF accelerated

(* Mouse t is s after f packets. *)
Sent(s, t, dx, dy, dz, f, B) ==
    /\ t \in Mouse /\ t.ms = s.ms /\ t.asked = s.asked /\ t.found = s.found
    /\ t.buttons = B
    /\ t.dev.kind = s.dev.kind
    /\ s.dev.kind = "none" => t.dev = s.dev
    /\ s.dev.kind # "none" =>
          /\ t.dev.at.x = s.dev.at.x + f * dx /\ t.dev.at.z = s.dev.at.z + f * dz
          /\ s.dev.kind = "fifo" => t.dev.at.y = s.dev.at.y + f * dy
          /\ t.dev.down = IF f = 0 THEN s.dev.down ELSE B

LEMMA Msends ==
    ASSUME NEW s \in Mouse, s.dev.kind # "none" => s.dev.down = s.buttons,
           NEW dx \in Unit, NEW dy \in Unit, NEW dz \in Unit, NEW rep \in Nat,
           NEW buttp \in SUBSET BUTTONS, NEW buttr \in SUBSET BUTTONS
    PROVE  Sent(s, msend(s, dx, dy, dz, rep, buttp, buttr), dx, dy, dz,
                accelerated(s.ms, rep), (s.buttons \cup buttp) \ buttr)
<1>. DEFINE t == msend(s, dx, dy, dz, rep, buttp, buttr)
            f == accelerated(s.ms, rep)
            d == s.dev
            B == (s.buttons \cup buttp) \ buttr
            seen == sees(d, s.ms.protocol, B, dx, dy, dz, buttp, buttr)
<1>1. d \in Device /\ s.ms \in Settings /\ B \in SUBSET BUTTONS /\ d.at \in Place
  BY DEF Mouse, Device
<1>2. f \in Nat
  BY <1>1, FactorType
<1>3. t = [s EXCEPT !.buttons = B, !.dev = after(d, f, seen)]
  BY DEF msend
<1>4. after(d, f, seen) \in Device /\ after(d, f, seen).kind = d.kind /\ (d.kind = "none" => after(d, f, seen) = d)
      /\ (d.kind # "none" =>
            /\ after(d, f, seen).at.x = d.at.x + f * dx /\ after(d, f, seen).at.z = d.at.z + f * dz
            /\ d.kind = "fifo" => after(d, f, seen).at.y = d.at.y + f * dy
            /\ after(d, f, seen).down = IF f = 0 THEN d.down ELSE B)
  <2>. HIDE DEF f, d, B, seen
  <2>1. CASE d.kind = "none"
    BY <1>1, <2>1 DEF after
  <2>2. CASE d.kind # "none" /\ f = 0
    <3>1. after(d, f, seen) = d
      BY <2>2 DEF after
    <3>2. f * dx = 0 /\ f * dy = 0 /\ f * dz = 0
      BY <2>2 DEF Unit
    <3>. QED  BY <1>1, <2>2, <3>1, <3>2 DEF Device, Place
  <2>3. CASE d.kind # "none" /\ f # 0
    <3>1. seen.x = dx /\ seen.y \in Unit /\ seen.z = dz /\ seen.down = B /\ (d.kind = "fifo" => seen.y = dy)
      <4>1. B = (d.down \cup buttp) \ buttr
        BY <2>3 DEF d, B
      <4>. QED  BY <1>1, <2>3, <4>1, SeesTrue DEF seen
    <3>2. after(d, f, seen) = [d EXCEPT !.at = plus(d.at, f, seen), !.down = B]
      BY <1>1, <2>3, <3>1 DEF after, Device
    <3>3. plus(d.at, f, seen) = [x |-> d.at.x + f * dx, y |-> d.at.y + f * seen.y, z |-> d.at.z + f * dz]
      BY <3>1 DEF plus
    <3>4. f * dx \in Int /\ f * seen.y \in Int /\ f * dz \in Int
      <4>1. \A a \in Nat : \A b \in Unit : a * b \in Int
        BY DEF Unit
      <4>. QED  BY <1>2, <3>1, <4>1, Zenon
    <3>5. plus(d.at, f, seen) \in Place
      BY <1>1, <3>3, <3>4 DEF Place
    <3>. DEFINE p == plus(d.at, f, seen)
                new == after(d, f, seen)
    <3>6. p.x = d.at.x + f * dx /\ p.z = d.at.z + f * dz /\ (d.kind = "fifo" => p.y = d.at.y + f * dy) /\ p \in Place
      BY <3>1, <3>3, <3>5
    <3>7. new = [d EXCEPT !.at = p, !.down = B]
      BY <3>2
    <3>. HIDE DEF p, new
    <3>8. new.at = p /\ new.down = B /\ new.kind = d.kind /\ new \in Device
      BY <1>1, <3>6, <3>7 DEF Device
    <3>. QED  BY <2>3, <3>6, <3>8 DEF new
  <2>. QED  BY <2>1, <2>2, <2>3
<1>. DEFINE new == after(d, f, seen)
<1>. HIDE DEF f, d, B, seen, new
<1>5. /\ t \in Mouse /\ t.ms = s.ms /\ t.asked = s.asked /\ t.found = s.found
      /\ t.buttons = B /\ t.dev = new
  <2>1. new \in Device /\ t = [s EXCEPT !.buttons = B, !.dev = new]
    BY <1>3, <1>4 DEF new
  <2>. HIDE DEF t
  <2>. QED  BY <1>1, <2>1 DEF Mouse, Device
<1>. QED  BY <1>4, <1>5 DEF d, f, B, new, Sent

(* What moves leave alone. *)
Alike(s) == {t \in Mouse : /\ t.ms = s.ms /\ t.asked = s.asked /\ t.found = s.found /\ t.buttons = s.buttons
                           /\ t.dev.kind = s.dev.kind /\ t.dev.down = s.dev.down
                           /\ s.dev.kind = "none" => t.dev = s.dev}

Moved(s, t, dx, dy, dz, f) ==
    /\ t \in Alike(s)
    /\ s.dev.kind # "none" =>
          /\ t.dev.at.x = s.dev.at.x + f * dx /\ t.dev.at.z = s.dev.at.z + f * dz
          /\ s.dev.kind = "fifo" => t.dev.at.y = s.dev.at.y + f * dy

LEMMA MovesLeave ==
    ASSUME NEW s \in Mouse, s.dev.kind # "none" => s.dev.down = s.buttons,
           NEW dx \in Unit, NEW dy \in Unit, NEW dz \in Unit, NEW rep \in Nat
    PROVE  Moved(s, mouse_move(s, dx, dy, dz, rep), dx, dy, dz, accelerated(s.ms, rep))
<1>. DEFINE t == mouse_move(s, dx, dy, dz, rep)
            f == accelerated(s.ms, rep)
<1>1. {} \in SUBSET BUTTONS
  OBVIOUS
<1>2. /\ t \in Mouse /\ t.ms = s.ms /\ t.asked = s.asked /\ t.found = s.found
      /\ t.buttons = s.buttons
      /\ t.dev.kind = s.dev.kind
      /\ s.dev.kind = "none" => t.dev = s.dev
      /\ s.dev.kind # "none" =>
            /\ t.dev.at.x = s.dev.at.x + f * dx /\ t.dev.at.z = s.dev.at.z + f * dz
            /\ s.dev.kind = "fifo" => t.dev.at.y = s.dev.at.y + f * dy
            /\ t.dev.down = IF f = 0 THEN s.dev.down ELSE s.buttons
  <2>1. Sent(s, t, dx, dy, dz, f, (s.buttons \cup {}) \ {})
    BY <1>1, Msends DEF mouse_move
  <2>2. (s.buttons \cup {}) \ {} = s.buttons
    OBVIOUS
  <2>. HIDE DEF t, f
  <2>. QED  BY <2>1, <2>2 DEF Sent
<1>. HIDE DEF t, f
<1>3. t \in Alike(s)
  BY <1>2 DEF Alike
<1>. QED  BY <1>2, <1>3 DEF t, f, Moved

(* Mouse t is s with the buttons B down. *)
Pressed(s, t, B) ==
    t \in Mouse /\ Follows(t) /\ t.found = s.found /\ t.ms = [s.ms EXCEPT !.buttons = t.buttons] /\ t.buttons = B

LEMMA ButtonsFollow ==
    ASSUME NEW s \in Mouse, Follows(s), s.ms.acc_start >= 1,
           NEW down \in SUBSET BUTTONS, NEW up \in SUBSET BUTTONS, NEW rep \in Nat
    PROVE  Pressed(s, mouse_button(s, down, up, rep), IF rep # 0 THEN s.buttons ELSE (s.buttons \cup down) \ up)
<1>. DEFINE t == mouse_button(s, down, up, rep)
<1>0. s.ms \in Settings /\ s.buttons \in SUBSET BUTTONS /\ s.dev \in Device /\ s.buttons = s.ms.buttons
  BY DEF Mouse, Device, Follows
<1>1. CASE rep # 0
  <2>1. t = s
    BY <1>1 DEF mouse_button
  <2>2. s.ms = [s.ms EXCEPT !.buttons = s.buttons]
    BY <1>0 DEF Settings
  <2>. QED  BY <1>1, <2>1, <2>2 DEF Pressed
<1>2. CASE rep = 0
  <2>. DEFINE m == msend(s, 0, 0, 0, 0, down, up)
              B == (s.buttons \cup down) \ up
  <2>1. accelerated(s.ms, 0) = 1
    BY <1>0, FactorType
  <2>2. /\ m \in Mouse /\ m.ms = s.ms /\ m.asked = s.asked /\ m.found = s.found /\ m.buttons = B
        /\ m.dev.kind = s.dev.kind
        /\ s.dev.kind = "none" => m.dev = s.dev
        /\ s.dev.kind # "none" =>
              /\ m.dev.at.x = s.dev.at.x + 1 * 0 /\ m.dev.at.z = s.dev.at.z + 1 * 0
              /\ s.dev.kind = "fifo" => m.dev.at.y = s.dev.at.y + 1 * 0
              /\ m.dev.down = m.buttons
    <3>1. 0 \in Unit /\ 0 \in Nat /\ 1 # 0 /\ (s.dev.kind # "none" => s.dev.down = s.buttons)
      BY DEF Unit, Follows
    <3>2. Sent(s, m, 0, 0, 0, 1, B)
      <4>1. Sent(s, m, 0, 0, 0, accelerated(s.ms, 0), B)
        BY <3>1, Msends
      <4>. QED  BY ONLY <2>1, <4>1
    <3>. HIDE DEF m, B
    <3>. QED  BY <3>2 DEF Sent
  <2>3. s.dev.at.x + 1 * 0 = s.dev.at.x /\ s.dev.at.y + 1 * 0 = s.dev.at.y /\ s.dev.at.z + 1 * 0 = s.dev.at.z
    BY <1>0 DEF Device, Place
  <2>4. t = [m EXCEPT !.ms.buttons = (m.ms.buttons \cup down) \ up]
    BY <1>2 DEF mouse_button
  <2>. HIDE DEF m, t
  <2>5. B \in SUBSET BUTTONS /\ (m.ms.buttons \cup down) \ up = B
    BY <1>0, <2>2
  <2>. HIDE DEF B
  <2>6. [m.ms EXCEPT !.buttons = B] \in Settings
    BY <1>0, <2>2, <2>5 DEF Settings
  <2>7. t = [m EXCEPT !.ms = [m.ms EXCEPT !.buttons = B]]
    BY <2>2, <2>4, <2>5 DEF Mouse
  <2>8. /\ t \in Mouse /\ t.ms = [s.ms EXCEPT !.buttons = B] /\ t.buttons = B /\ t.dev = m.dev
        /\ t.asked = s.asked /\ t.found = s.found
    BY <2>2, <2>6, <2>7 DEF Mouse
  <2>9. t.ms.buttons = B
    BY <1>0, <2>8 DEF Settings
  <2>10. Follows(t)
    BY <2>2, <2>3, <2>8, <2>9 DEF Follows
  <2>. QED  BY <1>2, <2>8, <2>10 DEF t, B, Pressed
<1>. QED  BY <1>1, <1>2

-----------------------------------------------------------------------------
(* The circle *)

LEMMA OctantType == octant \in Seq(BOOLEAN)
<1>. DEFINE W == [d : Int, incX : Int, incY : Int, x : Int, y : Int, steps : Seq(BOOLEAN)]
            v == [d |-> 1 - CIRCLE, incX |-> 0, incY |-> 2 * CIRCLE, x |-> 0, y |-> CIRCLE, steps |-> <<>>]
            Turn(s) == IF s.d >= 0 THEN 1 ELSE 0
            Step(s) == IF s.x >= s.y THEN s
                       ELSE [d |-> s.d - Turn(s) * (s.incY - 2) + s.incX + 3, incX |-> s.incX + 2,
                             incY |-> s.incY - 2 * Turn(s), x |-> s.x + 1, y |-> s.y - Turn(s),
                             steps |-> Append(s.steps, s.d >= 0)]
            Loop(g) == g = [k \in 0..CIRCLE |-> IF k = 0 THEN v ELSE Step(g[k - 1])]
            R == CHOOSE g : Loop(g)
<1>1. octant = R[CIRCLE].steps
  BY Zenon DEF octant
<1>0. CIRCLE \in Nat
  BY DesktopAssumption
<1>2. v \in W /\ CIRCLE \in Nat
  <2>1. 1 - CIRCLE \in Int /\ 2 * CIRCLE \in Int /\ CIRCLE \in Int /\ <<>> \in Seq(BOOLEAN)
    BY ONLY <1>0
  <2>. QED  BY <1>0, <2>1
<1>3. ASSUME NEW s \in W PROVE Step(s) \in W
  <2>1. CASE s.d >= 0
    BY <2>1
  <2>2. CASE ~(s.d >= 0)
    BY <2>2
  <2>. QED  BY <2>1, <2>2
<1>. HIDE DEF W, v, Step
<1>4. \E g : Loop(g)
  <2>. DEFINE F == [p \in W \X (1..CIRCLE) |-> Step(p[1])]
  <2>1. F \in [W \X (1..CIRCLE) -> W]
    BY <1>3
  <2>2. \A w \in W : \A k \in 1..CIRCLE : F[<<w, k>>] = Step(w)
    OBVIOUS
  <2>. HIDE DEF F
  <2>3. PICK g \in [0..CIRCLE -> W] : g[0] = v /\ \A k \in 1..CIRCLE : g[k] = F[<<g[k - 1], k>>]
    <3>1. \E g : LoopStates(g, CIRCLE, W, v, F)
      BY <1>2, <2>1, Rounds, Zenon
    <3>. QED  BY <3>1, Zenon DEF LoopStates
  <2>4. ASSUME NEW k \in 0..CIRCLE PROVE g[k] = IF k = 0 THEN v ELSE Step(g[k - 1])
    <3>1. k # 0 => k \in 1..CIRCLE /\ k - 1 \in 0..CIRCLE
      BY ONLY <1>2, <2>4
    <3>2. k # 0 => g[k - 1] \in W
      BY <3>1
    <3>. QED  BY <2>2, <2>3, <3>1, <3>2, Zenon
  <2>5. Loop(g)
    BY <2>4
  <2>. QED  BY <2>5
<1>5. Loop(R)
  BY <1>4, Zenon
<1>. HIDE DEF R
<1>6. R[0] = v /\ \A k \in 1..CIRCLE : R[k] = Step(R[k - 1])
  BY <1>2, <1>5
<1>7. R[CIRCLE] \in W
  <2>1. R[0] \in W /\ \A k \in 1..CIRCLE : R[k - 1] \in W => R[k] \in W
    BY <1>2, <1>3, <1>6
  <2>2. \A k \in 0..CIRCLE : R[k] \in W
    BY <1>2, <2>1, RoundsStay, Zenon
  <2>. QED  BY <1>2, <2>2
<1>. QED  BY <1>1, <1>7 DEF W

(* Of the steps of an octant so many are diagonal, so many are not. *)
Counts(P, Q) ==
    /\ P \in [0..Len(octant) -> Nat] /\ Q \in [0..Len(octant) -> Nat] /\ P[0] = 0 /\ Q[0] = 0
    /\ \A k \in 1..Len(octant) : IF octant[k] THEN P[k] = P[k - 1] + 1 /\ Q[k] = Q[k - 1]
                                 ELSE P[k] = P[k - 1] /\ Q[k] = Q[k - 1] + 1

LEMMA OctantCounts == \E P, Q : Counts(P, Q)
<1>. DEFINE n == Len(octant)
            F == [p \in Nat \X (1..n) |-> p[1] + IF octant[p[2]] THEN 1 ELSE 0]
            G == [p \in Nat \X (1..n) |-> p[1] + IF octant[p[2]] THEN 0 ELSE 1]
<1>1. n \in Nat
  BY OctantType
<1>2. F \in [Nat \X (1..n) -> Nat] /\ G \in [Nat \X (1..n) -> Nat]
  OBVIOUS
<1>3. \A a \in Nat : \A k \in 1..n : /\ F[<<a, k>>] = a + IF octant[k] THEN 1 ELSE 0
                                     /\ G[<<a, k>>] = a + IF octant[k] THEN 0 ELSE 1
  OBVIOUS
<1>. HIDE DEF F, G, n
<1>4. PICK P \in [0..n -> Nat] : P[0] = 0 /\ \A k \in 1..n : P[k] = F[<<P[k - 1], k>>]
  <2>1. \E g : LoopStates(g, n, Nat, 0, F)
    BY <1>1, <1>2, 0 \in Nat, Rounds, Zenon
  <2>. QED  BY <2>1, Zenon DEF LoopStates
<1>5. PICK Q \in [0..n -> Nat] : Q[0] = 0 /\ \A k \in 1..n : Q[k] = G[<<Q[k - 1], k>>]
  <2>1. \E g : LoopStates(g, n, Nat, 0, G)
    BY <1>1, <1>2, 0 \in Nat, Rounds, Zenon
  <2>. QED  BY <2>1, Zenon DEF LoopStates
<1>6. ASSUME NEW k \in 1..n PROVE IF octant[k] THEN P[k] = P[k - 1] + 1 /\ Q[k] = Q[k - 1]
                                  ELSE P[k] = P[k - 1] /\ Q[k] = Q[k - 1] + 1
  <2>1. P[k - 1] \in Nat /\ Q[k - 1] \in Nat
    BY <1>1, <1>4, <1>5
  <2>2. P[k] = P[k - 1] + (IF octant[k] THEN 1 ELSE 0) /\ Q[k] = Q[k - 1] + IF octant[k] THEN 0 ELSE 1
    BY <1>3, <1>4, <1>5, <2>1, Zenon
  <2>. QED  BY ONLY <2>1, <2>2
<1>7. Counts(P, Q)
  BY <1>4, <1>5, <1>6 DEF Counts, n
<1>. QED  BY <1>7

Times(n, u) == IF u = 0 THEN 0 ELSE IF u = 1 THEN n ELSE 0 - n
Sign == {-1, 1}
Along(dir, i) == IF dir = 1 THEN dd_at(i) ELSE -dd_at(i)

LEMMA Directions ==
    /\ dd_at(0) = 1 /\ dd_at(1) = 0 /\ dd_at(2) = -1 /\ dd_at(3) = -1 /\ dd_at(4) = -1 /\ dd_at(5) = 0
    /\ dd_at(6) = 1 /\ dd_at(7) = 1 /\ dd_at(8) = 1 /\ dd_at(9) = 0 /\ dd_at(10) = -1 /\ dd_at(11) = -1
    /\ dd_at(12) = -1 /\ dd_at(13) = 0 /\ dd_at(14) = 1
BY DEF dd_at, dd

LEMMA DirectionUnit ==
    ASSUME NEW i \in 0..14, NEW dir \in Sign
    PROVE  dir * dd_at(i) = Along(dir, i) /\ Along(dir, i) \in Unit
<1>1. dd_at(i) \in Unit
  BY Directions DEF Unit
<1>. QED  BY <1>1 DEF Along, Sign, Unit

(* Mouse t is s after p steps (ax, ay) and q steps (bx, by). *)
Shifted(s, t, p, q, ax, bx, ay, by) ==
    /\ t \in Alike(s)
    /\ s.dev.kind # "none" =>
          /\ t.dev.at.x = s.dev.at.x + (Times(p, ax) + Times(q, bx))
          /\ s.dev.kind = "fifo" => t.dev.at.y = s.dev.at.y + (Times(p, ay) + Times(q, by))
          /\ t.dev.at.z = s.dev.at.z

Steady(s) == s.ms.acc_start >= 1 /\ (s.dev.kind # "none" => s.dev.down = s.buttons)

AlikeMove(s, t, u, dx, dy) ==
    /\ u \in Alike(s)
    /\ s.dev.kind # "none" => /\ u.dev.at.x = t.dev.at.x + dx /\ u.dev.at.z = t.dev.at.z
                              /\ s.dev.kind = "fifo" => u.dev.at.y = t.dev.at.y + dy

LEMMA ShiftOne ==
    ASSUME NEW s \in Mouse, Steady(s), NEW t, NEW p \in Nat, NEW q \in Nat,
           NEW ax \in Unit, NEW bx \in Unit, NEW ay \in Unit, NEW by \in Unit,
           Shifted(s, t, p, q, ax, bx, ay, by)
    PROVE  /\ Shifted(s, mouse_move(t, ax, ay, 0, 0), p + 1, q, ax, bx, ay, by)
           /\ Shifted(s, mouse_move(t, bx, by, 0, 0), p, q + 1, ax, bx, ay, by)
<1>0. t \in Mouse /\ Steady(t) /\ t.dev.kind = s.dev.kind
  BY DEF Steady, Shifted, Alike
<1>1. t.dev.at \in Place /\ s.dev.at \in Place /\ t.ms \in Settings
  BY <1>0 DEF Mouse
<1>2. accelerated(t.ms, 0) = 1
  BY <1>0, <1>1, FactorType DEF Steady
<1>3. ASSUME NEW dx \in Unit, NEW dy \in Unit
      PROVE  AlikeMove(s, t, mouse_move(t, dx, dy, 0, 0), dx, dy)
  <2>0. PICK u : u = mouse_move(t, dx, dy, 0, 0)
    OBVIOUS
  <2>1. 0 \in Unit /\ 0 \in Nat
    BY DEF Unit
  <2>2. /\ u \in Alike(t)
        /\ t.dev.kind # "none" =>
              /\ u.dev.at.x = t.dev.at.x + 1 * dx /\ u.dev.at.z = t.dev.at.z + 1 * 0
              /\ t.dev.kind = "fifo" => u.dev.at.y = t.dev.at.y + 1 * dy
    <3>1. Moved(t, u, dx, dy, 0, accelerated(t.ms, 0))
      BY <1>0, <2>0, <2>1, MovesLeave DEF Steady
    <3>. QED  BY <1>2, <3>1 DEF Moved
  <2>3. u \in Alike(s)
    BY <2>2 DEF Alike, Shifted
  <2>4. 1 * dx = dx /\ 1 * dy = dy /\ t.dev.at.z + 1 * 0 = t.dev.at.z
    BY <1>1 DEF Unit, Place
  <2>5. AlikeMove(s, t, u, dx, dy)
    BY <1>0, <2>2, <2>3, <2>4 DEF AlikeMove
  <2>. QED  BY <2>0, <2>5
<1>4. /\ t.dev.at.x \in Int /\ t.dev.at.y \in Int /\ s.dev.at.x \in Int /\ s.dev.at.y \in Int
  BY <1>1 DEF Place
<1>5. ASSUME NEW a \in Unit, NEW n \in Nat
      PROVE  Times(n + 1, a) = Times(n, a) + a /\ Times(n, a) \in Int
  BY DEF Times, Unit
<1>6. /\ \A c \in Unit : c \in Int
      /\ \A x, y, c, d, e \in Int : (x = y + (c + d)) => /\ x + e = y + ((c + e) + d)
                                                        /\ x + e = y + (c + (d + e))
  BY DEF Unit
<1>7. Shifted(s, mouse_move(t, ax, ay, 0, 0), p + 1, q, ax, bx, ay, by)
  <2>1. PICK u : u = mouse_move(t, ax, ay, 0, 0)
    OBVIOUS
  <2>2. AlikeMove(s, t, u, ax, ay)
    BY <1>3, <2>1
  <2>3. Shifted(s, u, p + 1, q, ax, bx, ay, by)
    BY <1>4, <1>5, <1>6, <2>2 DEF Shifted, AlikeMove
  <2>. QED  BY <2>1, <2>3
<1>8. Shifted(s, mouse_move(t, bx, by, 0, 0), p, q + 1, ax, bx, ay, by)
  <2>1. PICK u : u = mouse_move(t, bx, by, 0, 0)
    OBVIOUS
  <2>2. AlikeMove(s, t, u, bx, by)
    BY <1>3, <2>1
  <2>3. Shifted(s, u, p, q + 1, ax, bx, ay, by)
    BY <1>4, <1>5, <1>6, <2>2 DEF Shifted, AlikeMove
  <2>. QED  BY <2>1, <2>3
<1>. QED  BY <1>7, <1>8

LEMMA EighthMoves ==
    ASSUME NEW s \in Mouse, Steady(s), NEW i \in 0..7, NEW dirx \in Sign, NEW diry \in Sign,
           NEW P, NEW Q, Counts(P, Q)
    PROVE  Shifted(s, eighth(s, i, dirx, diry), P[Len(octant)], Q[Len(octant)],
                   Along(dirx, i), Along(dirx, i + 7), Along(diry, i + 2), Along(diry, i + 1))
<1>. DEFINE n == Len(octant)
            Step(w, k) == mouse_move(w, dirx * dd_at(i + IF octant[k] THEN 0 ELSE 7),
                                     diry * dd_at(i + IF octant[k] THEN 2 ELSE 1), 0, 0)
            Loop(g) == g = [k \in 0..n |-> IF k = 0 THEN s ELSE Step(g[k - 1], k)]
            R == CHOOSE g : Loop(g)
            Holds(w, k) == Shifted(s, w, P[k], Q[k], Along(dirx, i), Along(dirx, i + 7),
                                   Along(diry, i + 2), Along(diry, i + 1))
<1>1. eighth(s, i, dirx, diry) = R[n]
  BY Zenon DEF eighth
<1>2. n \in Nat
  BY OctantType
<1>. HIDE DEF n
<1>3. /\ dirx * dd_at(i + 0) = Along(dirx, i) /\ Along(dirx, i) \in Unit
      /\ dirx * dd_at(i + 7) = Along(dirx, i + 7) /\ Along(dirx, i + 7) \in Unit
      /\ diry * dd_at(i + 2) = Along(diry, i + 2) /\ Along(diry, i + 2) \in Unit
      /\ diry * dd_at(i + 1) = Along(diry, i + 1) /\ Along(diry, i + 1) \in Unit
  <2>1. i \in 0..14 /\ i + 7 \in 0..14 /\ i + 2 \in 0..14 /\ i + 1 \in 0..14 /\ i + 0 = i
    OBVIOUS
  <2>. QED  BY <2>1, DirectionUnit
<1>4. ASSUME NEW k \in 1..n, NEW w, Holds(w, k - 1) PROVE Holds(Step(w, k), k)
  <2>1. P[k - 1] \in Nat /\ Q[k - 1] \in Nat
    <3>1. k - 1 \in 0..n
      BY <1>2
    <3>. QED  BY <3>1 DEF Counts, n
  <2>2. CASE octant[k]
    <3>1. P[k] = P[k - 1] + 1 /\ Q[k] = Q[k - 1]
      BY <2>2 DEF Counts, n
    <3>2. Step(w, k) = mouse_move(w, Along(dirx, i), Along(diry, i + 2), 0, 0)
      BY <1>3, <2>2
    <3>3. Shifted(s, mouse_move(w, Along(dirx, i), Along(diry, i + 2), 0, 0), P[k - 1] + 1, Q[k - 1],
                  Along(dirx, i), Along(dirx, i + 7), Along(diry, i + 2), Along(diry, i + 1))
      BY <1>3, <1>4, <2>1, ShiftOne
    <3>. QED  BY ONLY <3>1, <3>2, <3>3
  <2>3. CASE ~octant[k]
    <3>1. P[k] = P[k - 1] /\ Q[k] = Q[k - 1] + 1
      BY <2>3 DEF Counts, n
    <3>2. Step(w, k) = mouse_move(w, Along(dirx, i + 7), Along(diry, i + 1), 0, 0)
      BY <1>3, <2>3
    <3>3. Shifted(s, mouse_move(w, Along(dirx, i + 7), Along(diry, i + 1), 0, 0), P[k - 1], Q[k - 1] + 1,
                  Along(dirx, i), Along(dirx, i + 7), Along(diry, i + 2), Along(diry, i + 1))
      BY <1>3, <1>4, <2>1, ShiftOne
    <3>. QED  BY ONLY <3>1, <3>2, <3>3
  <2>. QED  BY <2>2, <2>3
<1>5. Holds(s, 0)
  <2>1. s \in Alike(s) /\ s.dev.at \in Place
    BY DEF Alike, Mouse
  <2>2. P[0] = 0 /\ Q[0] = 0
    BY DEF Counts
  <2>3. (\A a : Times(0, a) = 0) /\ \A x \in Int : x + (0 + 0) = x
    <3>1. 0 - 0 = 0
      OBVIOUS
    <3>2. \A x \in Int : x + (0 + 0) = x
      OBVIOUS
    <3>. QED  BY <3>1, <3>2, Zenon DEF Times
  <2>. QED  BY <1>3, <2>1, <2>2, <2>3 DEF Shifted, Place
<1>6. ASSUME NEW w \in Alike(s), NEW k \in 1..n PROVE Step(w, k) \in Alike(s)
  <2>1. \E dx, dy \in Unit : Step(w, k) = mouse_move(w, dx, dy, 0, 0)
    <3>1. CASE octant[k]
      BY <1>3, <3>1
    <3>2. CASE ~octant[k]
      BY <1>3, <3>2
    <3>. QED  BY <3>1, <3>2
  <2>2. PICK dx, dy \in Unit : Step(w, k) = mouse_move(w, dx, dy, 0, 0)
    BY <2>1, Zenon
  <2>3. w \in Mouse /\ (w.dev.kind # "none" => w.dev.down = w.buttons) /\ 0 \in Unit /\ 0 \in Nat
    BY DEF Alike, Steady, Unit
  <2>4. Moved(w, Step(w, k), dx, dy, 0, accelerated(w.ms, 0))
    BY <2>2, <2>3, MovesLeave
  <2>. HIDE DEF Step
  <2>. QED  BY <2>4 DEF Moved, Alike
<1>. HIDE DEF Holds, Step
<1>7. \E g : Loop(g)
  <2>. DEFINE W == Alike(s)
              F == [p \in W \X (1..n) |-> Step(p[1], p[2])]
  <2>0. s \in W
    BY DEF Alike
  <2>. HIDE DEF W
  <2>1. F \in [W \X (1..n) -> W]
    BY <1>6 DEF W
  <2>2. \A w \in W : \A k \in 1..n : F[<<w, k>>] = Step(w, k)
    OBVIOUS
  <2>. HIDE DEF F
  <2>3. PICK g : LoopStates(g, n, W, s, F)
    BY <1>2, <2>0, <2>1, Rounds, Zenon
  <2>4. g \in [0..n -> W] /\ g[0] = s /\ \A k \in 1..n : g[k] = F[<<g[k - 1], k>>]
    BY <2>3 DEF LoopStates
  <2>5. ASSUME NEW k \in 0..n PROVE g[k] = IF k = 0 THEN s ELSE Step(g[k - 1], k)
    <3>1. k # 0 => k \in 1..n /\ k - 1 \in 0..n
      BY ONLY <1>2, <2>5
    <3>2. k # 0 => g[k - 1] \in W
      BY <2>4, <3>1
    <3>. QED  BY <2>2, <2>4, <3>1, <3>2, Zenon
  <2>6. Loop(g)
    BY <2>4, <2>5
  <2>. QED  BY <2>6
<1>8. Loop(R)
  BY <1>7, Zenon
<1>. HIDE DEF R
<1>9. R[0] = s /\ \A k \in 1..n : R[k] = Step(R[k - 1], k)
  BY <1>2, <1>8
<1>. DEFINE T == {m \in Nat : m <= n => Holds(R[m], m)}
<1>10. 0 \in T
  BY <1>5, <1>9
<1>11. ASSUME NEW m \in Nat, m \in T PROVE m + 1 \in T
  <2>1. SUFFICES ASSUME m + 1 <= n PROVE Holds(R[m + 1], m + 1)
    OBVIOUS
  <2>2. m + 1 \in 1..n /\ (m + 1) - 1 = m /\ Holds(R[m], m)
    BY <1>2, <1>11, <2>1
  <2>. QED  BY <1>4, <1>9, <2>2
<1>. HIDE DEF T
<1>12. n \in T
  BY <1>2, <1>10, <1>11, SetInduction
<1>13. Holds(R[n], n)
  BY <1>2, <1>12 DEF T
<1>. QED  BY <1>1, <1>13 DEF Holds, n

(* The octants bring the pointer back. *)
Turns(at, dir, p, q, j, l) ==
    /\ at[0] \in Int
    /\ \A i \in 0..7 : at[i + 1] = at[i] + (Times(p, Along(dir, i + j)) + Times(q, Along(dir, i + l)))

LEMMA Around ==
    ASSUME NEW dir \in Sign, NEW p \in Nat, NEW q \in Nat, NEW at, NEW j, NEW l,
           (j = 0 /\ l = 7) \/ (j = 2 /\ l = 1), Turns(at, dir, p, q, j, l)
    PROVE  at[8] = at[0]
<1>. DEFINE By(i) == Times(p, Along(dir, i + j)) + Times(q, Along(dir, i + l))
<1>0. (j = 0 /\ l = 7) \/ (j = 2 /\ l = 1)
  OBVIOUS
<1>1. /\ at[1] = at[0] + By(0) /\ at[2] = at[1] + By(1) /\ at[3] = at[2] + By(2) /\ at[4] = at[3] + By(3)
      /\ at[5] = at[4] + By(4) /\ at[6] = at[5] + By(5) /\ at[7] = at[6] + By(6) /\ at[8] = at[7] + By(7)
  <2>1. ASSUME NEW i \in 0..7 PROVE at[i + 1] = at[i] + By(i)
    BY DEF Turns
  <2>2. /\ 0 + 1 = 1 /\ 1 + 1 = 2 /\ 2 + 1 = 3 /\ 3 + 1 = 4 /\ 4 + 1 = 5 /\ 5 + 1 = 6 /\ 6 + 1 = 7 /\ 7 + 1 = 8
        /\ 0 \in 0..7 /\ 1 \in 0..7 /\ 2 \in 0..7 /\ 3 \in 0..7 /\ 4 \in 0..7 /\ 5 \in 0..7 /\ 6 \in 0..7 /\ 7 \in 0..7
    OBVIOUS
  <2>. HIDE DEF By
  <2>. QED  BY <2>1, <2>2, Zenon
<1>2. ASSUME NEW i \in 0..3 PROVE By(i) \in Int /\ By(i + 4) = -By(i)
  <2>1. ASSUME NEW k \in 0..10 PROVE Along(dir, k + 4) = -Along(dir, k) /\ Along(dir, k) \in Unit
    <3>1. dd_at(k + 4) = -dd_at(k) /\ dd_at(k) \in Unit
      BY Directions DEF Unit
    <3>. QED  BY <3>1 DEF Along, Unit
  <2>2. ASSUME NEW n \in Nat, NEW u \in Unit PROVE Times(n, -u) = -Times(n, u) /\ Times(n, u) \in Int
    BY DEF Times, Unit
  <2>3. i + j \in 0..10 /\ i + l \in 0..10 /\ (i + 4) + j = (i + j) + 4 /\ (i + 4) + l = (i + l) + 4
    BY <1>0
  <2>4. /\ By(i + 4) = (-Times(p, Along(dir, i + j))) + (-Times(q, Along(dir, i + l)))
        /\ Times(p, Along(dir, i + j)) \in Int /\ Times(q, Along(dir, i + l)) \in Int
    BY <2>1, <2>2, <2>3
  <2>. QED  BY <2>4
<1>3. /\ By(0) \in Int /\ By(1) \in Int /\ By(2) \in Int /\ By(3) \in Int
      /\ By(4) = -By(0) /\ By(5) = -By(1) /\ By(6) = -By(2) /\ By(7) = -By(3)
  <2>1. 0 + 4 = 4 /\ 1 + 4 = 5 /\ 2 + 4 = 6 /\ 3 + 4 = 7 /\ 0 \in 0..3 /\ 1 \in 0..3 /\ 2 \in 0..3 /\ 3 \in 0..3
    OBVIOUS
  <2>. HIDE DEF By
  <2>. QED  BY <1>2, <2>1, Zenon
<1>. HIDE DEF By
<1>4. at[0] \in Int
  BY DEF Turns
<1>. QED  BY ONLY <1>1, <1>3, <1>4

(* mouse_circle() leaves the mouse as it was, with the pointer where it    *)
(* was, whatever the radius. *)
Back(s, t) ==
    /\ t \in Alike(s)
    /\ s.dev.kind # "none" => t.dev.at.x = s.dev.at.x /\ t.dev.at.z = s.dev.at.z
    /\ s.dev.kind = "fifo" => t.dev.at.y = s.dev.at.y

LEMMA CircleBack ==
    ASSUME NEW s \in Mouse, Steady(s), NEW dirx \in Sign, NEW diry \in Sign
    PROVE  Back(s, mouse_circle(s, dirx, diry))
<1>. DEFINE Step(w, k) == eighth(w, k - 1, dirx, diry)
            Loop(g) == g = [k \in 0..8 |-> IF k = 0 THEN s ELSE Step(g[k - 1], k)]
            R == CHOOSE g : Loop(g)
            W == Alike(s)
<1>1. mouse_circle(s, dirx, diry) = R[8]
  BY Zenon DEF mouse_circle
<1>2. PICK P, Q : Counts(P, Q)
  BY OctantCounts
<1>. DEFINE p == P[Len(octant)]
            q == Q[Len(octant)]
<1>3. p \in Nat /\ q \in Nat
  <2>1. Len(octant) \in 0..Len(octant)
    BY OctantType
  <2>. QED  BY <1>2, <2>1 DEF Counts
<1>. HIDE DEF p, q
<1>4. ASSUME NEW w \in W, NEW k \in 1..8
      PROVE  /\ Step(w, k) \in W
             /\ Shifted(w, Step(w, k), p, q, Along(dirx, k - 1), Along(dirx, (k - 1) + 7),
                        Along(diry, (k - 1) + 2), Along(diry, (k - 1) + 1))
  <2>1. w \in Mouse /\ Steady(w) /\ k - 1 \in 0..7
    BY DEF Alike, Steady
  <2>2. Shifted(w, Step(w, k), p, q, Along(dirx, k - 1), Along(dirx, (k - 1) + 7),
                Along(diry, (k - 1) + 2), Along(diry, (k - 1) + 1))
    BY <1>2, <2>1, EighthMoves DEF p, q
  <2>. HIDE DEF Step
  <2>. QED  BY <2>2 DEF Shifted, Alike
<1>5. s \in W
  BY DEF Alike
<1>. HIDE DEF Step, W
<1>6. \E g : Loop(g)
  <2>. DEFINE F == [x \in W \X (1..8) |-> Step(x[1], x[2])]
  <2>1. F \in [W \X (1..8) -> W]
    BY <1>4
  <2>2. \A w \in W : \A k \in 1..8 : F[<<w, k>>] = Step(w, k)
    OBVIOUS
  <2>. HIDE DEF F
  <2>3. PICK g : LoopStates(g, 8, W, s, F)
    BY <1>5, <2>1, 8 \in Nat, Rounds, Zenon
  <2>4. g \in [0..8 -> W] /\ g[0] = s /\ \A k \in 1..8 : g[k] = F[<<g[k - 1], k>>]
    BY <2>3 DEF LoopStates
  <2>5. ASSUME NEW k \in 0..8 PROVE g[k] = IF k = 0 THEN s ELSE Step(g[k - 1], k)
    <3>1. k # 0 => k \in 1..8 /\ k - 1 \in 0..8
      BY ONLY <2>5
    <3>2. k # 0 => g[k - 1] \in W
      BY <2>4, <3>1
    <3>. QED  BY <2>2, <2>4, <3>1, <3>2, Zenon
  <2>6. Loop(g)
    BY <2>4, <2>5
  <2>. QED  BY <2>6
<1>7. Loop(R)
  BY <1>6, Zenon
<1>. HIDE DEF R
<1>8. R[0] = s /\ \A k \in 1..8 : R[k] = Step(R[k - 1], k)
  BY <1>7
<1>9. \A k \in 0..8 : R[k] \in W
  <2>1. R[0] \in W /\ \A k \in 1..8 : R[k - 1] \in W => R[k] \in W
    BY <1>4, <1>5, <1>8
  <2>. QED  BY <2>1, 8 \in Nat, RoundsStay, Zenon
<1>10. \A i \in 0..7 : /\ R[i] \in W
                       /\ Shifted(R[i], R[i + 1], p, q, Along(dirx, i), Along(dirx, i + 7),
                                  Along(diry, i + 2), Along(diry, i + 1))
  <2>. TAKE i \in 0..7
  <2>1. i \in 0..8 /\ i + 1 \in 1..8 /\ (i + 1) - 1 = i
    OBVIOUS
  <2>2. R[i] \in W /\ R[i + 1] = Step(R[i], i + 1)
    BY <1>8, <1>9, <2>1
  <2>3. Shifted(R[i], Step(R[i], i + 1), p, q, Along(dirx, (i + 1) - 1), Along(dirx, ((i + 1) - 1) + 7),
                Along(diry, ((i + 1) - 1) + 2), Along(diry, ((i + 1) - 1) + 1))
    BY <1>4, <2>1, <2>2
  <2>. QED  BY <2>1, <2>2, <2>3
<1>11. R[8] \in Alike(s) /\ s.dev.at \in Place
  BY <1>9 DEF W, Mouse
<1>12. ASSUME s.dev.kind # "none" PROVE R[8].dev.at.x = s.dev.at.x
  <2>. DEFINE at == [k \in 0..8 |-> R[k].dev.at.x]
  <2>1. ASSUME NEW i \in 0..7
        PROVE  at[i + 1] = at[i] + (Times(p, Along(dirx, i + 0)) + Times(q, Along(dirx, i + 7)))
    <3>1. i + 0 = i /\ i \in 0..8 /\ i + 1 \in 0..8
      OBVIOUS
    <3>2. R[i].dev.kind # "none"
      BY <1>10, <1>12 DEF W, Alike
    <3>3. at[i] = R[i].dev.at.x /\ at[i + 1] = R[i + 1].dev.at.x
      BY <3>1
    <3>4. R[i + 1].dev.at.x = R[i].dev.at.x + (Times(p, Along(dirx, i)) + Times(q, Along(dirx, i + 7)))
      BY <1>10, <3>2 DEF Shifted
    <3>. QED  BY <3>1, <3>3, <3>4, Zenon
  <2>2. at[0] = s.dev.at.x /\ at[8] = R[8].dev.at.x /\ s.dev.at.x \in Int
    BY <1>8, <1>11 DEF Place
  <2>. HIDE DEF at
  <2>3. at[8] = at[0]
    <3>1. Turns(at, dirx, p, q, 0, 7)
      BY <2>1, <2>2 DEF Turns
    <3>. QED  BY <1>3, <3>1, Around
  <2>. QED  BY <2>2, <2>3
<1>13. ASSUME s.dev.kind = "fifo" PROVE R[8].dev.at.y = s.dev.at.y
  <2>. DEFINE at == [k \in 0..8 |-> R[k].dev.at.y]
  <2>1. ASSUME NEW i \in 0..7
        PROVE  at[i + 1] = at[i] + (Times(p, Along(diry, i + 2)) + Times(q, Along(diry, i + 1)))
    <3>1. i \in 0..8 /\ i + 1 \in 0..8
      OBVIOUS
    <3>2. R[i].dev.kind = "fifo"
      BY <1>10, <1>13 DEF W, Alike
    <3>3. at[i] = R[i].dev.at.y /\ at[i + 1] = R[i + 1].dev.at.y
      BY <3>1
    <3>4. R[i + 1].dev.at.y = R[i].dev.at.y + (Times(p, Along(diry, i + 2)) + Times(q, Along(diry, i + 1)))
      BY <1>10, <3>2 DEF Shifted
    <3>. QED  BY <3>3, <3>4, Zenon
  <2>2. at[0] = s.dev.at.y /\ at[8] = R[8].dev.at.y /\ s.dev.at.y \in Int
    BY <1>8, <1>11 DEF Place
  <2>. HIDE DEF at
  <2>3. at[8] = at[0]
    <3>1. Turns(at, diry, p, q, 2, 1)
      BY <2>1, <2>2 DEF Turns
    <3>. QED  BY <1>3, <3>1, Around
  <2>. QED  BY <2>2, <2>3
<1>14. ASSUME s.dev.kind # "none" PROVE R[8].dev.at.z = s.dev.at.z
  <2>. DEFINE V == {w \in W : w.dev.at.z = s.dev.at.z}
  <2>1. R[0] \in V
    BY <1>5, <1>8
  <2>2. ASSUME NEW k \in 1..8, R[k - 1] \in V PROVE R[k] \in V
    <3>1. k - 1 \in 0..7 /\ (k - 1) + 1 = k /\ k \in 0..8
      OBVIOUS
    <3>2. R[k - 1].dev.kind # "none"
      BY <1>14, <2>2 DEF W, Alike
    <3>3. R[k].dev.at.z = R[k - 1].dev.at.z
      BY <1>10, <3>1, <3>2 DEF Shifted
    <3>. QED  BY <1>9, <2>2, <3>1, <3>3
  <2>. HIDE DEF V
  <2>3. \A k \in 0..8 : R[k] \in V
    BY <2>1, <2>2, 8 \in Nat, RoundsStay, Zenon
  <2>. QED  BY <2>3 DEF V
<1>. QED  BY <1>1, <1>11, <1>12, <1>13, <1>14 DEF Back

-----------------------------------------------------------------------------
(* A line of the list *)

Fit(r) == {t \in Mouse : Follows(t) /\ t.ms.acc_start >= 1 /\ (r => Rests(t))}

LEMMA FitSteady ==
    ASSUME NEW r, NEW s \in Fit(r)
    PROVE  /\ s \in Mouse /\ Steady(s) /\ Follows(s) /\ s.ms.acc_start >= 1
           /\ s.ms \in Settings /\ s.dev \in Device /\ s.asked \in Place /\ s.buttons \in SUBSET BUTTONS
BY DEF Fit, Steady, Follows, Mouse, Device

(* A change of ms that leaves the buttons and the acceleration. *)
LEMMA FitSettings ==
    ASSUME NEW r, NEW s \in Fit(r), NEW m \in Settings, m.buttons = s.ms.buttons, m.acc_start = s.ms.acc_start,
           m.active \/ m.always_active \/ s.buttons = {}
    PROVE  [s EXCEPT !.ms = m] \in Fit(r) /\ [s EXCEPT !.ms = m].ms = m /\ [s EXCEPT !.ms = m].buttons = s.buttons
<1>. DEFINE t == [s EXCEPT !.ms = m]
<1>1. t \in Mouse /\ t.ms = m /\ t.buttons = s.buttons /\ t.dev = s.dev /\ t.asked = s.asked
  BY DEF Fit, Mouse
<1>. HIDE DEF t
<1>2. Follows(t) /\ Rests(t) /\ t.ms.acc_start >= 1
  BY <1>1 DEF Fit, Follows, Rests
<1>3. t \in Fit(r)
  BY <1>1, <1>2 DEF Fit
<1>. QED  BY <1>1, <1>3 DEF t

LEMMA FitCircle ==
    ASSUME NEW r, NEW s \in Fit(r), NEW dirx \in Sign
    PROVE  /\ mouse_circle(s, dirx, 1) \in Fit(r)
           /\ mouse_circle(s, dirx, 1).ms = s.ms /\ mouse_circle(s, dirx, 1).buttons = s.buttons
<1>. DEFINE t == mouse_circle(s, dirx, 1)
<1>1. s \in Mouse /\ Steady(s) /\ 1 \in Sign
  BY FitSteady DEF Sign
<1>2. Back(s, t)
  BY <1>1, CircleBack
<1>. HIDE DEF t
<1>3. t \in Alike(s)
  BY <1>2 DEF Back
<1>4. t \in Mouse /\ t.ms = s.ms /\ t.asked = s.asked /\ t.buttons = s.buttons /\ t.dev.kind = s.dev.kind /\ t.dev.down = s.dev.down
  BY <1>3 DEF Alike
<1>5. Follows(t)
  BY <1>2, <1>4 DEF Fit, Follows, Back
<1>6. Rests(s) => Rests(t)
  BY <1>4 DEF Rests
<1>7. t \in Fit(r)
  BY <1>4, <1>5, <1>6 DEF Fit
<1>. QED  BY <1>4, <1>7 DEF t

LEMMA FitActivate ==
    ASSUME NEW r, NEW s \in Fit(r)
    PROVE  /\ activate(s) \in Fit(r)
           /\ [activate(s) EXCEPT !.ms.toggle_active = TRUE] \in Fit(r)
<1>. DEFINE m == [s.ms EXCEPT !.active = TRUE]
            a == [s EXCEPT !.ms = m]
            t == activate(s)
            n == [t.ms EXCEPT !.toggle_active = TRUE]
<1>1. s.ms \in Settings /\ s \in Mouse
  BY FitSteady
<1>2. m \in Settings /\ m.buttons = s.ms.buttons /\ m.acc_start = s.ms.acc_start /\ m.active
  BY <1>1 DEF Settings
<1>. HIDE DEF m
<1>3. a \in Fit(r) /\ a.ms = m
  BY <1>2, FitSettings
<1>4. t = mouse_circle(a, 1, 1)
  <2>1. [s EXCEPT !.ms.active = TRUE] = a
    BY <1>1 DEF m, Mouse
  <2>. QED  BY <2>1, Zenon DEF activate
<1>. HIDE DEF a, t
<1>5. t \in Fit(r) /\ t.ms = m
  BY <1>3, <1>4, FitCircle, 1 \in Sign DEF Sign
<1>6. n \in Settings /\ n.buttons = t.ms.buttons /\ n.acc_start = t.ms.acc_start /\ n.active
  BY <1>2, <1>5 DEF Settings
<1>. HIDE DEF n
<1>7. [t EXCEPT !.ms = n] \in Fit(r)
  BY <1>5, <1>6, FitSettings
<1>8. [t EXCEPT !.ms.toggle_active = TRUE] = [t EXCEPT !.ms = n]
  <2>1. t \in Mouse
    BY <1>5, FitSteady
  <2>. QED  BY <2>1 DEF n, Mouse
<1>. QED  BY <1>5, <1>7, <1>8 DEF t

FitPressed(r, s, t, B) ==
    t \in Fit(r) /\ t.ms.active = s.ms.active /\ t.ms.always_active = s.ms.always_active /\ t.buttons = B

LEMMA FitButtons ==
    ASSUME NEW r, NEW s \in Fit(r), NEW down \in SUBSET BUTTONS, NEW up \in SUBSET BUTTONS, NEW rep \in Nat,
           s.ms.active \/ s.ms.always_active \/ down = {}
    PROVE  FitPressed(r, s, mouse_button(s, down, up, rep), IF rep # 0 THEN s.buttons ELSE (s.buttons \cup down) \ up)
<1>. DEFINE t == mouse_button(s, down, up, rep)
<1>1. s \in Mouse /\ Follows(s) /\ s.ms.acc_start >= 1 /\ s.ms \in Settings
  BY FitSteady
<1>2. /\ t \in Mouse /\ Follows(t) /\ t.ms = [s.ms EXCEPT !.buttons = t.buttons]
      /\ t.buttons = IF rep # 0 THEN s.buttons ELSE (s.buttons \cup down) \ up
  <2>1. Pressed(s, t, IF rep # 0 THEN s.buttons ELSE (s.buttons \cup down) \ up)
    BY <1>1, ButtonsFollow
  <2>. HIDE DEF t
  <2>. QED  BY <2>1 DEF Pressed
<1>. HIDE DEF t
<1>3. t.ms.active = s.ms.active /\ t.ms.always_active = s.ms.always_active /\ t.ms.acc_start = s.ms.acc_start
  BY <1>1, <1>2 DEF Settings
<1>4. Rests(s) => Rests(t)
  BY <1>2, <1>3 DEF Rests
<1>5. t \in Fit(r)
  BY <1>1, <1>2, <1>3, <1>4 DEF Fit
<1>. QED  BY <1>2, <1>3, <1>5 DEF t, FitPressed

LEMMA FitDeactivate ==
    ASSUME NEW r, NEW s \in Fit(r)
    PROVE  deactivate(s) \in Fit(r)
<1>. DEFINE b == mouse_button(s, {}, BUTTONS, 0)
            m == [b.ms EXCEPT !.active = FALSE]
            a == [b EXCEPT !.ms = m]
<1>1. b \in Fit(r) /\ b.buttons = (s.buttons \cup {}) \ BUTTONS
  <2>1. {} \in SUBSET BUTTONS /\ BUTTONS \in SUBSET BUTTONS /\ 0 \in Nat
    OBVIOUS
  <2>2. FitPressed(r, s, b, IF 0 # 0 THEN s.buttons ELSE (s.buttons \cup {}) \ BUTTONS)
    BY <2>1, FitButtons
  <2>. HIDE DEF b
  <2>. QED  BY <2>2 DEF FitPressed
<1>2. b.buttons = {}
  <2>1. s.buttons \in SUBSET BUTTONS
    BY FitSteady
  <2>. QED  BY <1>1, <2>1
<1>. HIDE DEF b
<1>3. b.ms \in Settings /\ b \in Mouse
  BY <1>1, FitSteady
<1>4. m \in Settings /\ m.buttons = b.ms.buttons /\ m.acc_start = b.ms.acc_start
  BY <1>3 DEF Settings
<1>5. [b EXCEPT !.ms.active = FALSE] = a
  BY <1>3 DEF Mouse
<1>. HIDE DEF m
<1>6. a \in Fit(r)
  BY <1>1, <1>2, <1>4, FitSettings
<1>7. deactivate(s) = mouse_circle(a, -1, 1)
  BY <1>5, Zenon DEF deactivate, b
<1>. HIDE DEF a
<1>. QED  BY <1>6, <1>7, FitCircle DEF Sign

LEMMA FitMode ==
    ASSUME NEW r, NEW s \in Fit(r), NEW directive, NEW rep
    PROVE  changes_mode(s, directive, rep) \in Fit(r)
BY FitActivate, FitDeactivate DEF changes_mode

Effect == [x : Unit, y : Unit, z : Unit, down : SUBSET BUTTONS, up : SUBSET BUTTONS, toggle : BOOLEAN]

LEMMA TableType ==
    ASSUME NEW d \in DOMAIN config_table
    PROVE  config_table[d] \in Effect
<1>1. \A x, y, z \in Unit : moves(x, y, z) \in Effect
  BY DEF moves, Effect
<1>2. \A down, up \in SUBSET BUTTONS : \A toggle \in BOOLEAN : button_does(down, up, toggle) \in Effect
  BY DEF button_does, Effect, Unit
<1>3. ASSUME NEW line \in config_lines PROVE line[2] \in Effect
  <2>1. 0 \in Unit /\ 1 \in Unit /\ -1 \in Unit
    BY DEF Unit
  <2>2. {} \in SUBSET BUTTONS /\ {1} \in SUBSET BUTTONS /\ {2} \in SUBSET BUTTONS /\ {3} \in SUBSET BUTTONS
    BY DEF BUTTONS
  <2>3. /\ moves(0, 1, 0) \in Effect /\ moves(1, 1, 0) \in Effect /\ moves(1, 0, 0) \in Effect
        /\ moves(1, -1, 0) \in Effect /\ moves(0, -1, 0) \in Effect /\ moves(-1, -1, 0) \in Effect
        /\ moves(-1, 0, 0) \in Effect /\ moves(-1, 1, 0) \in Effect /\ moves(0, 0, -1) \in Effect
        /\ moves(0, 0, 1) \in Effect
    BY <1>1, <2>1, Zenon
  <2>4. ASSUME NEW b, {b} \in SUBSET BUTTONS
        PROVE  /\ button_does({b}, {}, FALSE) \in Effect /\ button_does({}, {b}, FALSE) \in Effect
               /\ button_does({b}, {b}, TRUE) \in Effect /\ button_does({b}, {b}, FALSE) \in Effect
    BY <1>2, <2>2, <2>4, TRUE \in BOOLEAN, FALSE \in BOOLEAN, Zenon
  <2>5. \E name : \/ \E x, y, z : line = <<name, moves(x, y, z)>> /\ moves(x, y, z) \in Effect
                  \/ \E down, up, toggle : /\ line = <<name, button_does(down, up, toggle)>>
                                           /\ button_does(down, up, toggle) \in Effect
    BY <2>2, <2>3, <2>4, Zenon DEF config_lines
  <2>. QED  BY <2>5
<1>. DEFINE line == CHOOSE l \in config_lines : l[1] = d
<1>4. line \in config_lines /\ config_table[d] = line[2]
  BY Zenon DEF config_table
<1>. HIDE DEF line
<1>. QED  BY <1>3, <1>4

LEMMA FitMoves ==
    ASSUME NEW r, NEW s \in Fit(r), NEW e \in Effect, NEW rep \in Nat
    PROVE  moves_by(s, e, rep) \in Fit(r) /\ moves_by(s, e, rep).ms = s.ms
<1>. DEFINE t == mouse_move(s, e.x, e.y, e.z, rep)
            f == accelerated(s.ms, rep)
            p == plus(t.asked, f, e)
            u == [t EXCEPT !.asked = p]
<1>1. /\ s \in Mouse /\ Follows(s) /\ (s.dev.kind # "none" => s.dev.down = s.buttons)
      /\ s.ms \in Settings /\ s.asked \in Place /\ s.ms.acc_start >= 1
  BY FitSteady DEF Steady
<1>2. e.x \in Unit /\ e.y \in Unit /\ e.z \in Unit
  BY DEF Effect
<1>3. Moved(s, t, e.x, e.y, e.z, f)
  BY <1>1, <1>2, MovesLeave
<1>4. f \in Nat
  BY <1>1, FactorType
<1>5. f * e.x \in Int /\ f * e.y \in Int /\ f * e.z \in Int
  <2>1. \A a \in Nat : \A c \in Unit : a * c \in Int
    BY DEF Unit
  <2>. QED  BY <1>2, <1>4, <2>1, Zenon
<1>. HIDE DEF t, f
<1>6. /\ t \in Mouse /\ t.ms = s.ms /\ t.asked = s.asked /\ t.buttons = s.buttons
      /\ t.dev.kind = s.dev.kind /\ t.dev.down = s.dev.down
  BY <1>3 DEF Moved, Alike
<1>7. p.x = s.asked.x + f * e.x /\ p.y = s.asked.y + f * e.y /\ p.z = s.asked.z + f * e.z /\ p \in Place
  BY <1>1, <1>5, <1>6 DEF plus, Place
<1>. HIDE DEF p
<1>8. u \in Mouse /\ u.ms = s.ms /\ u.asked = p /\ u.buttons = s.buttons /\ u.dev = t.dev
  BY <1>6, <1>7 DEF Mouse
<1>. HIDE DEF u
<1>9. Follows(u)
  BY <1>1, <1>3, <1>6, <1>7, <1>8 DEF Follows, Moved
<1>10. u \in Fit(r)
  BY <1>1, <1>8, <1>9 DEF Fit, Rests
<1>11. moves_by(s, e, rep) = s \/ moves_by(s, e, rep) = u
  BY DEF moves_by, u, p, t, f
<1>. QED  BY <1>8, <1>10, <1>11

LEMMA FitPresses ==
    ASSUME NEW r, NEW s \in Fit(r), NEW e \in Effect, NEW rep \in Nat, s.ms.active \/ s.ms.always_active
    PROVE  presses(s, e, rep) \in Fit(r)
<1>1. e.down \in SUBSET BUTTONS /\ e.up \in SUBSET BUTTONS /\ e.toggle \in BOOLEAN /\ {} \in SUBSET BUTTONS
  BY DEF Effect
<1>2. ASSUME NEW t \in Fit(r), t.ms.active \/ t.ms.always_active,
             NEW down \in SUBSET BUTTONS, NEW up \in SUBSET BUTTONS
      PROVE  LET u == mouse_button(t, down, up, rep)
             IN u \in Fit(r) /\ (u.ms.active \/ u.ms.always_active)
  <2>. DEFINE u == mouse_button(t, down, up, rep)
  <2>1. FitPressed(r, t, u, IF rep # 0 THEN t.buttons ELSE (t.buttons \cup down) \ up)
    BY <1>2, FitButtons
  <2>. HIDE DEF u
  <2>2. u \in Fit(r) /\ (u.ms.active \/ u.ms.always_active)
    BY <1>2, <2>1 DEF FitPressed
  <2>. QED  BY <2>2 DEF u
<1>3. /\ mouse_button(s, e.down, e.up, rep) \in Fit(r)
      /\ mouse_button(s, e.down, {}, rep) \in Fit(r)
      /\ mouse_button(s, {}, e.up, rep) \in Fit(r)
      /\ mouse_button(s, {}, {}, rep) \in Fit(r)
      /\ mouse_button(mouse_button(s, e.down, {}, rep), {}, e.up, rep) \in Fit(r)
  BY <1>1, <1>2
<1>. QED  BY <1>3 DEF presses

LEMMA FitUses ==
    ASSUME NEW r, NEW s \in Fit(r), NEW tm, NEW event, event.rep \in Nat
    PROVE  uses(s, tm, event) \in Fit(r)
<1>. DEFINE a == [s EXCEPT !.found = TRUE]
            c == changes_mode(a, tm.tm_directive, event.rep)
<1>1. a \in Fit(r)
  BY DEF Fit, Mouse, Follows, Rests
<1>. HIDE DEF a
<1>2. c \in Fit(r)
  BY <1>1, FitMode
<1>. HIDE DEF c
<1>3. ASSUME NEW d \in DOMAIN config_table, c.ms.active \/ c.ms.always_active
      PROVE  does(c, config_table[d], event.rep) \in Fit(r)
  <2>1. config_table[d] \in Effect
    BY TableType
  <2>2. moves_by(c, config_table[d], event.rep) \in Fit(r) /\ moves_by(c, config_table[d], event.rep).ms = c.ms
    BY <1>2, <2>1, FitMoves
  <2>. QED  BY <1>3, <2>1, <2>2, FitPresses DEF does
<1>4. acts(c, tm.tm_directive, event.rep) \in Fit(r)
  BY <1>2, <1>3 DEF acts
<1>. QED  BY <1>4 DEF uses, a, c

LEMMA FitConv ==
    ASSUME NEW r, NEW s \in Fit(r), NEW list, Len(list) \in Nat, NEW event, event.rep \in Nat
    PROVE  conv(s, list, event) \in Fit(r)
<1>. DEFINE n == Len(list)
            W == Fit(r)
            Step(w, k) == uses(w, list[k], event)
            Loop(g) == g = [k \in 0..n |-> IF k = 0 THEN s ELSE Step(g[k - 1], k)]
            R == CHOOSE g : Loop(g)
<1>1. conv(s, list, event) = R[n]
  BY Zenon DEF conv
<1>2. n \in Nat /\ s \in W
  OBVIOUS
<1>3. ASSUME NEW w \in W, NEW k \in 1..n PROVE Step(w, k) \in W
  BY FitUses
<1>. HIDE DEF n, W, Step
<1>4. \E g : Loop(g)
  <2>. DEFINE F == [p \in W \X (1..n) |-> Step(p[1], p[2])]
  <2>1. F \in [W \X (1..n) -> W]
    BY <1>3
  <2>2. \A w \in W : \A k \in 1..n : F[<<w, k>>] = Step(w, k)
    OBVIOUS
  <2>. HIDE DEF F
  <2>3. PICK g : LoopStates(g, n, W, s, F)
    BY <1>2, <2>1, Rounds, Zenon
  <2>4. g \in [0..n -> W] /\ g[0] = s /\ \A k \in 1..n : g[k] = F[<<g[k - 1], k>>]
    BY <2>3 DEF LoopStates
  <2>5. ASSUME NEW k \in 0..n PROVE g[k] = IF k = 0 THEN s ELSE Step(g[k - 1], k)
    <3>1. k # 0 => k \in 1..n /\ k - 1 \in 0..n
      BY ONLY <1>2, <2>5
    <3>2. k # 0 => g[k - 1] \in W
      BY <2>4, <3>1
    <3>. QED  BY <2>2, <2>4, <3>1, <3>2, Zenon
  <2>6. Loop(g)
    BY <2>4, <2>5
  <2>. QED  BY <2>6
<1>5. Loop(R)
  BY <1>4, Zenon
<1>. HIDE DEF R
<1>6. R[0] = s /\ \A k \in 1..n : R[k] = Step(R[k - 1], k)
  BY <1>2, <1>5
<1>7. R[0] \in W /\ \A k \in 1..n : R[k - 1] \in W => R[k] \in W
  BY <1>2, <1>3, <1>6
<1>8. \A k \in 0..n : R[k] \in W
  BY <1>2, <1>7, RoundsStay, Zenon
<1>. QED  BY <1>1, <1>2, <1>8 DEF W

LEMMA FitEvent ==
    ASSUME NEW r, NEW event, event.rep \in Nat, Len(tm_first) \in Nat, mouse_conv(event),
           [ms |-> ms, buttons |-> msent, dev |-> dev, asked |-> asked, found |-> FALSE] \in Fit(r)
    PROVE  [ms |-> ms', buttons |-> msent', dev |-> dev', asked |-> asked', found |-> FALSE] \in Fit(r)
<1>. DEFINE s == [ms |-> ms, buttons |-> msent, dev |-> dev, asked |-> asked, found |-> FALSE]
            c == conv(s, tm_first, event)
            u == unless_found(c)
<1>1. c \in Fit(r)
  BY FitConv
<1>2. ms' = u.ms /\ msent' = u.buttons /\ dev' = u.dev /\ asked' = u.asked
  BY DEF mouse_conv
<1>. HIDE DEF c
<1>3. u \in Fit(r)
  BY <1>1, FitDeactivate DEF unless_found
<1>. HIDE DEF u
<1>. QED  BY <1>2, <1>3 DEF Fit, Mouse, Follows, Rests

-----------------------------------------------------------------------------
(* The file *)

LEMMA AtoiType == ASSUME NEW word PROVE atoi(word) \in Nat
BY DEF atoi

(* What read_config() makes of ms. *)
Read(was) == {r \in [ms : Settings, list : Seq(TransMouse), failed : BOOLEAN] :
                 r.ms.buttons = was.buttons /\ r.ms.active = was.active}

LEMMA LineRead ==
    ASSUME ms \in Settings, NEW r \in Read(ms), NEW words \in Seq(STRING)
    PROVE  config_line(r, words) \in Read(ms)
<1>1. r \in [ms : Settings, list : Seq(TransMouse), failed : BOOLEAN] /\ r.ms \in Settings
  BY DEF Read
<1>2. ASSUME NEW m \in Settings, m.buttons = ms.buttons, m.active = ms.active PROVE [r EXCEPT !.ms = m] \in Read(ms)
  BY <1>1, <1>2 DEF Read
<1>3. protocol_line(r, words) \in Read(ms)
  <2>1. CASE Len(words) > 1 /\ words[2] \in {"MouseSystems", "IMPS/2", "IntelliMouse"}
    <3>. DEFINE m == [r.ms EXCEPT !.protocol = words[2]]
    <3>1. m \in Settings /\ m.buttons = ms.buttons /\ m.active = ms.active
      BY <1>1, <2>1 DEF Settings, Read
    <3>2. protocol_line(r, words) = [r EXCEPT !.ms = m]
      BY <1>1, <2>1 DEF protocol_line
    <3>. HIDE DEF m
    <3>. QED  BY <1>2, <3>1, <3>2
  <2>2. CASE ~(Len(words) > 1 /\ words[2] \in {"MouseSystems", "IMPS/2", "IntelliMouse"})
    BY <2>2 DEF protocol_line
  <2>. QED  BY <2>1, <2>2
<1>4. accelerator_line(r, words) \in Read(ms)
  <2>. DEFINE New(a, b, c) == [r EXCEPT !.ms.acc_start = a, !.ms.acc_max = b, !.ms.acc_fak = c]
  <2>1. ASSUME NEW a \in Nat, NEW b \in Nat, NEW c \in Nat PROVE New(a, b, c) \in Read(ms)
    <3>. DEFINE m == [r.ms EXCEPT !.acc_start = a, !.acc_max = b, !.acc_fak = c]
    <3>1. m \in Settings /\ m.buttons = ms.buttons /\ m.active = ms.active
      BY <1>1 DEF Settings, Read
    <3>2. New(a, b, c) = [r EXCEPT !.ms = m]
      BY <1>1
    <3>. HIDE DEF m, New
    <3>. QED  BY <1>2, <3>1, <3>2
  <2>2. /\ r.ms.acc_start \in Nat /\ r.ms.acc_max \in Nat /\ r.ms.acc_fak \in Nat
        /\ ms.acc_start \in Nat /\ ms.acc_max \in Nat /\ ms.acc_fak \in Nat
    BY <1>1 DEF Settings
  <2>3. \E a, b, c \in Nat : accelerator_line(r, words) = New(a, b, c)
    BY <1>1, <2>2, AtoiType DEF accelerator_line, Settings
  <2>. HIDE DEF New
  <2>. QED  BY <2>1, <2>3
<1>5. directive_line(r, words) \in Read(ms)
  <2>1. CASE directive_line(r, words) = r
    BY <2>1
  <2>2. CASE directive_line(r, words) # r
    <3>. DEFINE activates == words[1] \in {"ACTIVATE", "TOGGLE_ACTIVATE"}
                m == [r.ms EXCEPT !.always_active = r.ms.always_active /\ ~activates]
                tm == [tm_directive |-> words[1], tm_remote |-> words[2], tm_button |-> words[3]]
                l == Append(r.list, tm)
    <3>1. m \in Settings /\ m.buttons = ms.buttons /\ m.active = ms.active
      BY <1>1 DEF Settings, Read
    <3>2. Len(words) = 3
      BY <2>2 DEF directive_line
    <3>3. tm \in TransMouse
      <4>1. words[1] \in STRING /\ words[2] \in STRING /\ words[3] \in STRING
        BY <3>2
      <4>. QED  BY <4>1, Zenon DEF TransMouse
    <3>. HIDE DEF tm
    <3>4. l \in Seq(TransMouse)
      BY <1>1, <3>3
    <3>5. directive_line(r, words) = [r EXCEPT !.ms = m, !.list = l]
      BY <1>1, <2>2 DEF directive_line, tm
    <3>. HIDE DEF m, l
    <3>. QED  BY <1>1, <3>1, <3>4, <3>5 DEF Read
  <2>. QED  BY <2>1, <2>2
<1>. QED  BY <1>3, <1>4, <1>5 DEF config_line

LEMMA ConfigRead ==
    ASSUME ms \in Settings, NEW file \in Seq({TooLong} \cup Seq(STRING))
    PROVE  read_config(file) \in Read(ms)
<1>. DEFINE m == [ms EXCEPT !.always_active = TRUE, !.toggle_active = FALSE]
            v == [ms |-> m, list |-> <<>>, failed |-> FALSE]
            n == Len(file)
            W == Read(ms)
            Step(s, k) == CASE s.failed -> s
                            [] ~s.failed /\ file[k] = TooLong -> [s EXCEPT !.failed = TRUE]
                            [] OTHER -> config_line(s, file[k])
            Loop(g) == g = [k \in 0..n |-> IF k = 0 THEN v ELSE Step(g[k - 1], k)]
            R == CHOOSE g : Loop(g)
<1>1. read_config(file) = R[n]
  BY Zenon DEF read_config, read_lines
<1>2. n \in Nat /\ v \in W
  <2>1. m \in Settings /\ m.buttons = ms.buttons /\ m.active = ms.active
    BY DEF Settings
  <2>. HIDE DEF m
  <2>2. <<>> \in Seq(TransMouse)
    OBVIOUS
  <2>3. v \in [ms : Settings, list : Seq(TransMouse), failed : BOOLEAN]
    BY <2>1, <2>2, Zenon
  <2>4. v.ms = m
    OBVIOUS
  <2>. HIDE DEF v
  <2>5. v \in W
    BY <2>1, <2>3, <2>4 DEF Read
  <2>. QED  BY <2>5
<1>3. ASSUME NEW w \in W, NEW k \in 1..n PROVE Step(w, k) \in W
  <2>1. file[k] = TooLong \/ file[k] \in Seq(STRING)
    OBVIOUS
  <2>2. w.failed \in BOOLEAN /\ [w EXCEPT !.failed = TRUE] \in W
    BY DEF Read
  <2>3. file[k] \in Seq(STRING) => config_line(w, file[k]) \in W
    BY LineRead
  <2>. HIDE DEF W
  <2>. QED  BY <2>1, <2>2, <2>3
<1>. HIDE DEF n, W, Step, v
<1>4. \E g : Loop(g)
  <2>. DEFINE F == [p \in W \X (1..n) |-> Step(p[1], p[2])]
  <2>1. F \in [W \X (1..n) -> W]
    BY <1>3
  <2>2. \A w \in W : \A k \in 1..n : F[<<w, k>>] = Step(w, k)
    OBVIOUS
  <2>. HIDE DEF F
  <2>3. PICK g : LoopStates(g, n, W, v, F)
    BY <1>2, <2>1, Rounds, Zenon
  <2>4. g \in [0..n -> W] /\ g[0] = v /\ \A k \in 1..n : g[k] = F[<<g[k - 1], k>>]
    BY <2>3 DEF LoopStates
  <2>5. ASSUME NEW k \in 0..n PROVE g[k] = IF k = 0 THEN v ELSE Step(g[k - 1], k)
    <3>1. k # 0 => k \in 1..n /\ k - 1 \in 0..n
      BY ONLY <1>2, <2>5
    <3>2. k # 0 => g[k - 1] \in W
      BY <2>4, <3>1
    <3>. QED  BY <2>2, <2>4, <3>1, <3>2, Zenon
  <2>6. Loop(g)
    BY <2>4, <2>5
  <2>. QED  BY <2>6
<1>5. Loop(R)
  BY <1>4, Zenon
<1>. HIDE DEF R
<1>6. R[0] = v /\ \A k \in 1..n : R[k] = Step(R[k - 1], k)
  BY <1>2, <1>5
<1>7. R[0] \in W /\ \A k \in 1..n : R[k - 1] \in W => R[k] \in W
  BY <1>2, <1>3, <1>6
<1>8. \A k \in 0..n : R[k] \in W
  BY <1>2, <1>7, RoundsStay, Zenon
<1>. QED  BY <1>1, <1>2, <1>8 DEF W

-----------------------------------------------------------------------------
(* The reader of the mouse sees what was asked for. *)

LEMMA MouseInit == Init => MouseInv
<1>. SUFFICES ASSUME Init PROVE MouseInv
  OBVIOUS
<1>1. /\ mpc \in {"start", "off"} /\ (mpc = "start" => scene \in LircmdScenes)
      /\ hup = FALSE /\ ms = ms_default /\ msent = {} /\ tm_first = <<>> /\ conf = 1
      /\ dev = [kind |-> "none", at |-> Still, down |-> {}] /\ asked = Still
  BY DEF Init, uinput_init, lircmd_init
<1>2. Still \in Place
  BY DEF Still, Place
<1>3. ms_default \in Settings
  BY DEF ms_default, Settings
<1>4. TheMouse \in Mouse
  BY <1>1, <1>2, <1>3 DEF TheMouse, Mouse
<1>5. Follows(TheMouse) /\ Rests(TheMouse)
  BY <1>1 DEF TheMouse, Follows, Rests, ms_default
<1>6. mpc # "off" => conf \in 1..Len(scene.files)
  <2>1. mpc # "off" => scene.files # <<>> /\ \E S : scene.files \in Seq(S)
    BY <1>1, DesktopAssumption
  <2>. QED  BY <1>1, <2>1
<1>7. ms.active = FALSE /\ ms.buttons = {}
  BY <1>1 DEF ms_default
<1>. QED  BY <1>1, <1>4, <1>5, <1>6, <1>7 DEF MouseInv, InactiveIsUp

(* A step that only moves on. *)
LEMMA MouseMovesOn ==
    ASSUME MouseInv, UNCHANGED <<scene, ms, msent, dev, asked, tm_first, conf, hup>>,
           mpc \notin {"off", "exit"}, mpc' \notin {"off", "start", "exit"}
    PROVE  MouseInv'
BY DEF MouseInv, TheMouse, InactiveIsUp, Follows, Rests

(* A file that is used. *)
LEMMA FileRead ==
    ASSUME MouseInv, scene \in LircmdScenes, mpc # "off", usable(scene.files[conf])
    PROVE  read_config(scene.files[conf]) \in Read(ms)
<1>. DEFINE T == {TooLong} \cup Seq(STRING)
            file == scene.files[conf]
<1>1. scene.files \in Seq({Missing} \cup Seq(T))
  BY DesktopAssumption
<1>2. conf \in 1..Len(scene.files)
  BY DEF MouseInv
<1>3. file \in {Missing} \cup Seq(T)
  BY <1>1, <1>2
<1>4. file \in Seq(T)
  BY <1>3 DEF usable
<1>5. ms \in Settings
  BY DEF MouseInv, TheMouse, Mouse
<1>. QED  BY <1>4, <1>5, ConfigRead

(* A line of the socket. *)
LEMMA MouseEvent ==
    ASSUME MouseInv, PressesCount, NEW event, event.rep \in Nat, mouse_conv(event),
           mpc \notin {"off", "start", "exit"}, mpc' = mpc \/ mpc' = "loop", UNCHANGED <<scene, tm_first, conf, hup>>
    PROVE  MouseInv'
<1>. DEFINE r == conf = 1
<1>1. TheMouse \in Fit(r)
  BY DEF MouseInv, PressesCount, Fit, TheMouse
<1>2. Len(tm_first) \in Nat
  BY DEF MouseInv
<1>3. TheMouse' \in Fit(r)
  BY <1>1, <1>2, FitEvent DEF TheMouse
<1>4. TheMouse' \in Mouse /\ Follows(TheMouse') /\ (conf = 1 => Rests(TheMouse'))
  BY <1>3 DEF Fit
<1>5. /\ TheMouse'.ms = ms' /\ TheMouse'.buttons = msent' /\ TheMouse'.dev = dev' /\ TheMouse'.asked = asked'
  BY DEF TheMouse
<1>6. InactiveIsUp'
  BY <1>4, <1>5 DEF InactiveIsUp, Follows, Rests
<1>7. Follows(TheMouse)' /\ (conf' = 1 => Rests(TheMouse)')
  BY <1>4
<1>. QED  BY <1>4, <1>6, <1>7 DEF MouseInv

LEMMA MouseStarts ==
    ASSUME MouseInv, scene \in LircmdScenes, lircmd_starts
    PROVE  MouseInv'
<1>. DEFINE q == read_config(scene.files[conf])
<1>1. mpc = "start" /\ mpc' = "loop" /\ UNCHANGED <<scene, msent, conf, asked, hup>> /\ ms' = q.ms /\ tm_first' = q.list
  BY DEF lircmd_starts, socket
<1>2. q \in Read(ms)
  BY <1>1, FileRead DEF lircmd_starts
<1>3. PICK kind \in {"none", "fifo", "uinput"} : dev' = [dev EXCEPT !.kind = kind]
  <2>1. scene.device \in {"fifo", "uinput"}
    BY DesktopAssumption
  <2>. QED  BY <2>1 DEF lircmd_starts
<1>. HIDE DEF q
<1>4. q.ms \in Settings /\ q.ms.buttons = {} /\ q.ms.active = FALSE /\ q.list \in Seq(TransMouse)
  BY <1>1, <1>2 DEF Read, MouseInv
<1>5. dev \in Device /\ asked \in Place /\ msent \in SUBSET BUTTONS
  BY DEF MouseInv, TheMouse, Mouse, Device
<1>6. msent = {} /\ dev.down = {} /\ asked = dev.at
  BY <1>1 DEF MouseInv, Follows, TheMouse
<1>7. dev' \in Device /\ dev'.down = {} /\ dev'.at = asked
  BY <1>3, <1>5, <1>6 DEF Device
<1>8. TheMouse' \in Mouse
  BY <1>1, <1>4, <1>5, <1>7 DEF TheMouse, Mouse, Device
<1>9. Follows(TheMouse)' /\ Rests(TheMouse)'
  BY <1>1, <1>4, <1>6, <1>7 DEF TheMouse, Follows, Rests
<1>. QED  BY <1>1, <1>4, <1>7, <1>8, <1>9 DEF MouseInv, InactiveIsUp

LEMMA MouseHup ==
    ASSUME MouseInv, scene \in LircmdScenes, dohup
    PROVE  MouseInv'
<1>. DEFINE q == read_config(scene.files[conf])
<1>1. mpc = "loop" /\ mpc' = "loop" /\ UNCHANGED <<scene, msent, conf, asked, dev>> /\ hup /\ hup' = FALSE
  BY DEF dohup, socket
<1>2. conf # 1
  BY <1>1 DEF MouseInv
<1>3. ms' \in Settings /\ ms'.buttons = ms.buttons /\ tm_first' \in Seq(TransMouse)
  <2>1. CASE usable(scene.files[conf])
    <3>1. q \in Read(ms) /\ ms' = q.ms /\ tm_first' = q.list
      BY <1>1, <2>1, FileRead DEF dohup
    <3>. HIDE DEF q
    <3>. QED  BY <3>1 DEF Read
  <2>2. CASE ~usable(scene.files[conf])
    BY <2>2 DEF dohup, MouseInv, TheMouse, Mouse
  <2>. QED  BY <2>1, <2>2
<1>4. TheMouse' \in Mouse
  BY <1>1, <1>3 DEF MouseInv, TheMouse, Mouse
<1>5. Follows(TheMouse)'
  BY <1>1, <1>3 DEF MouseInv, TheMouse, Follows
<1>. QED  BY <1>1, <1>2, <1>3, <1>4, <1>5 DEF MouseInv, InactiveIsUp

LEMMA MouseEof ==
    ASSUME MouseInv, lircmd_eof \/ overrun
    PROVE  MouseInv'
<1>1. /\ UNCHANGED <<scene, ms, msent, asked, tm_first, conf, hup>> /\ mpc # "off" /\ mpc' = "exit"
      /\ dev' = [dev EXCEPT !.kind = "none"]
  BY DEF lircmd_eof, overrun, socket
<1>2. dev \in Device
  BY DEF MouseInv, TheMouse, Mouse, Device
<1>3. dev' \in Device /\ dev'.kind = "none" /\ dev'.down = dev.down
  BY <1>1, <1>2 DEF Device
<1>4. TheMouse' \in Mouse
  BY <1>1, <1>3 DEF MouseInv, TheMouse, Mouse, Device
<1>. QED  BY <1>1, <1>3, <1>4 DEF MouseInv, InactiveIsUp

LEMMA MouseLircmd ==
    ASSUME StreamInv, MouseInv, PressesCount, lircmd_step
    PROVE  MouseInv'
<1>1. scene \in LircmdScenes /\ mpc # "off" /\ (mpc = "loop" => Stream(scene.events, buffer, sock, handled, written))
  BY DEF StreamInv, lircmd_step, lircmd_fails, lircmd_starts, edit, sighup, dohup, unblock, lircmd_read,
         read_returns, next_line, overrun, lircmd_eof
<1>2. ASSUME NEW e \in scene.events PROVE e.rep \in Nat
  BY <1>1, DesktopAssumption
<1>3. CASE lircmd_fails
  <2>1. /\ UNCHANGED <<scene, ms, msent, dev, asked, tm_first, conf, hup>> /\ mpc = "start" /\ mpc' = "exit"
    BY <1>3 DEF lircmd_fails, socket
  <2>. QED  BY <2>1 DEF MouseInv, TheMouse, InactiveIsUp
<1>4. CASE lircmd_starts
  BY <1>1, <1>4, MouseStarts
<1>5. CASE edit
  <2>1. /\ UNCHANGED <<scene, mpc, ms, msent, dev, asked, tm_first, hup>> /\ mpc # "off"
        /\ conf < Len(scene.files) /\ conf' = conf + 1
    BY <1>5 DEF edit, socket
  <2>2. conf \in 1..Len(scene.files)
    BY <2>1 DEF MouseInv
  <2>3. conf' # 1 /\ conf' \in 1..Len(scene.files)
    <3>1. scene.files \in Seq({Missing} \cup Seq({TooLong} \cup Seq(STRING)))
      BY <1>1, DesktopAssumption
    <3>2. Len(scene.files) \in Nat
      BY <3>1
    <3>. QED  BY <2>1, <2>2, <3>2
  <2>. QED  BY <2>1, <2>3 DEF MouseInv, TheMouse, InactiveIsUp, Follows
<1>6. CASE sighup
  <2>1. /\ UNCHANGED <<scene, ms, msent, dev, asked, tm_first, conf>> /\ mpc \in {"window", "read"}
        /\ mpc' \in {"window", "loop"} /\ conf # 1
    <3>1. conf \in 1..Len(scene.files)
      BY <1>1 DEF MouseInv
    <3>. QED  BY <1>6, <3>1 DEF sighup, socket
  <2>. QED  BY <2>1 DEF MouseInv, TheMouse, InactiveIsUp, Follows
<1>7. CASE dohup
  BY <1>1, <1>7, MouseHup
<1>8. CASE unblock \/ lircmd_read
  BY <1>8, MouseMovesOn DEF unblock, lircmd_read, socket
<1>9. CASE read_returns
  <2>1. PICK b, s : Stream(scene.events, b, s, handled, written) /\ newline_at(b) # 0 /\ take_line(b)
    BY <1>9, ReadFinds
  <2>2. b[1].event \in scene.events /\ mouse_conv(b[1].event)
    BY <2>1, TakesLine
  <2>. QED  BY <1>2, <1>9, <2>2, MouseEvent DEF read_returns
<1>10. CASE next_line
  <2>1. buffer[1].event \in scene.events /\ mouse_conv(buffer[1].event)
    BY <1>1, <1>10, TakesLine DEF next_line
  <2>. QED  BY <1>2, <1>10, <2>1, MouseEvent DEF next_line
<1>11. CASE lircmd_eof \/ overrun
  BY <1>11, MouseEof
<1>. QED  BY <1>3, <1>4, <1>5, <1>6, <1>7, <1>8, <1>9, <1>10, <1>11 DEF lircmd_step

LEMMA MouseStep == StreamInv /\ MouseInv /\ PressesCount /\ [Next]_vars => MouseInv'
<1>. SUFFICES ASSUME StreamInv, MouseInv, PressesCount, [Next]_vars PROVE MouseInv'
  OBVIOUS
<1>1. CASE UNCHANGED lircmd_vars /\ UNCHANGED scene
  BY <1>1 DEF MouseInv, TheMouse, InactiveIsUp, Follows, Rests, lircmd_vars
<1>2. CASE lircmd_step
  BY <1>2, MouseLircmd
<1>3. uinput_step => UNCHANGED scene
  BY DEF uinput_step, main_fails, main_starts, read_input, process_one, lines_done,
         poll_timeout, uinput_eof, socket
<1>4. lircd_step => UNCHANGED scene /\ UNCHANGED lircmd_vars
  BY DEF lircd_step, lircd_writes, lircd_exits
<1>5. UNCHANGED vars => UNCHANGED lircmd_vars /\ UNCHANGED scene
  BY DEF vars, socket
<1>. QED  BY <1>1, <1>2, <1>3, <1>4, <1>5 DEF Next

(* lircmd: whatever files and presses there are, in each protocol and on   *)
(* each device, the reader sees the buttons down that ms.buttons[] has and *)
(* the pointer where the MOVE lines put it, if ACCELERATOR leaves the      *)
(* first press alone; mouse_circle() of any radius comes back. *)
THEOREM ReaderFollows == Spec /\ []PressesCount => []PointerFollows
<1>1. MouseInv => PointerFollows
  BY DEF MouseInv, PointerFollows, TheMouse, Follows
<1>. QED  BY <1>1, MouseInit, MouseStep, StreamInvariant, PTL DEF Spec

(* lircmd: deactivate() lets go of every button that a line has pressed,   *)
(* by whichever directive the mode began and ended. *)
THEOREM InactiveMouseIsUp == Spec /\ []PressesCount => []InactiveIsUp
<1>1. MouseInv => InactiveIsUp
  BY DEF MouseInv
<1>. QED  BY <1>1, MouseInit, MouseStep, StreamInvariant, PTL DEF Spec
=============================================================================
