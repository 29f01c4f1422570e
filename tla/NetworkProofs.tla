---------------------------- MODULE NetworkProofs ----------------------------
(***************************************************************************)
(* Proofs about lircd and the programs that listen to it, for any number   *)
(* of programs, scripts and events, and wherever the packets are cut.      *)
(***************************************************************************)
EXTENDS Network, Induction, SequenceTheorems

-----------------------------------------------------------------------------
(* Sequences *)

(* The loop of Those. *)
LEMMA ThoseLoop ==
    ASSUME NEW p, NEW T, Len(p) \in Nat
    PROVE  \E g : /\ Those(p, T) = g[Len(p)]
                  /\ g[0] = <<>>
                  /\ \A k \in 1..Len(p) : g[k] = IF p[k] \in T THEN Append(g[k - 1], p[k]) ELSE g[k - 1]
<1>. DEFINE One(v, k) == IF p[k] \in T THEN Append(v, p[k]) ELSE v
            Loop(g, n) == g = [k \in 0..n |-> IF k = 0 THEN <<>> ELSE One(g[k - 1], k)]
            S == {n \in Nat : \E g : Loop(g, n)}
            R == CHOOSE g : Loop(g, Len(p))
<1>1. Those(p, T) = R[Len(p)]
  BY Zenon DEF Those
<1>. HIDE DEF One
<1>2. 0 \in S
  <2>. DEFINE g == [k \in 0..0 |-> <<>>]
  <2>1. Loop(g, 0)
    OBVIOUS
  <2>. QED  BY <2>1
<1>3. ASSUME NEW n \in Nat, n \in S PROVE n + 1 \in S
  <2>1. PICK g : Loop(g, n)
    BY <1>3
  <2>. DEFINE h == [k \in 0..(n + 1) |-> IF k <= n THEN g[k] ELSE One(g[n], k)]
  <2>2. Loop(h, n + 1)
    BY <2>1
  <2>. HIDE DEF h, Loop
  <2>3. \E f : Loop(f, n + 1)
    BY <2>2, Zenon
  <2>. QED  BY <2>3
<1>. HIDE DEF S
<1>4. Len(p) \in S
  BY <1>2, <1>3, SetInduction
<1>5. \E g : Loop(g, Len(p))
  BY <1>4 DEF S
<1>6. Loop(R, Len(p))
  BY <1>5, Zenon
<1>. HIDE DEF R
<1>7. R[0] = <<>> /\ \A k \in 1..Len(p) : R[k] = One(R[k - 1], k)
  BY <1>6
<1>. QED  BY <1>1, <1>7, Zenon DEF One

(* Those elements are elements of both. *)
LEMMA ThoseType ==
    ASSUME NEW E, NEW p \in Seq(E), NEW T
    PROVE  Those(p, T) \in Seq(E \cap T \cap Range(p))
<1>. DEFINE F == E \cap T \cap Range(p)
<1>1. PICK g : /\ Those(p, T) = g[Len(p)]
               /\ g[0] = <<>>
               /\ \A k \in 1..Len(p) : g[k] = IF p[k] \in T THEN Append(g[k - 1], p[k]) ELSE g[k - 1]
  BY ThoseLoop
<1>2. \A k \in 1..Len(p) : p[k] \in T => p[k] \in F
  BY DEF Range
<1>. HIDE DEF F
<1>3. g[0] \in Seq(F)
  BY <1>1
<1>4. \A k \in 1..Len(p) : g[k - 1] \in Seq(F) => g[k] \in Seq(F)
  <2>. SUFFICES ASSUME NEW k \in 1..Len(p), g[k - 1] \in Seq(F) PROVE g[k] \in Seq(F)
    OBVIOUS
  <2>1. g[k] = IF p[k] \in T THEN Append(g[k - 1], p[k]) ELSE g[k - 1]
    BY <1>1
  <2>. QED  BY <1>2, <2>1
<1>5. \A k \in 0..Len(p) : g[k] \in Seq(F)
  <2>. DEFINE n == Len(p)
              G == Seq(F)
  <2>1. n \in Nat
    OBVIOUS
  <2>2. g[0] \in G /\ \A k \in 1..n : g[k - 1] \in G => g[k] \in G
    BY <1>3, <1>4
  <2>. HIDE DEF n, G
  <2>3. \A k \in 0..n : g[k] \in G
    BY <2>1, <2>2, RoundsStay
  <2>. QED  BY <2>3 DEF n, G
<1>. QED  BY <1>1, <1>5 DEF F

(* The beginning of a sequence: nothing of it, part of it or all of it. *)
LEMMA FirstType ==
    ASSUME NEW E, NEW p \in Seq(E), NEW r \in Int, r <= Len(p)
    PROVE  /\ First(p, r) \in Seq(E)
           /\ Len(First(p, r)) = IF r < 0 THEN 0 ELSE r
           /\ \A i \in 1..r : First(p, r)[i] = p[i]
  BY SubSeqProperties DEF First

LEMMA FromType ==
    ASSUME NEW E, NEW p \in Seq(E), NEW r \in 1..(Len(p) + 1)
    PROVE  /\ From(p, r) \in Seq(E)
           /\ Len(From(p, r)) = Len(p) + 1 - r
           /\ \A i \in 1..(Len(p) + 1 - r) : From(p, r)[i] = p[r + i - 1]
<1>1. \A i \in r..Len(p) : p[i] \in E
  OBVIOUS
<1>2. From(p, r) = SubSeq(p, r, Len(p)) /\ r \in Int /\ Len(p) \in Int
  BY DEF From
<1>3. Len(p) - r + 1 = Len(p) + 1 - r
  OBVIOUS
<1>. QED  BY <1>1, <1>2, <1>3, SubSeqProperties

Joined(E, p, q, r) ==
    /\ r \in Seq(E) /\ Len(r) = Len(p) + Len(q)
    /\ \A i \in 1..Len(p) : r[i] = p[i]
    /\ \A i \in 1..Len(q) : r[Len(p) + i] = q[i]

LEMMA BothType ==
    ASSUME NEW E, NEW p \in Seq(E), NEW q \in Seq(E)
    PROVE  Joined(E, p, q, p \o q)
  BY DEF Joined

(* A position behind n is one of what follows n. *)
LEMMA Behind ==
    ASSUME NEW m \in Nat, NEW n \in Nat, NEW i \in 1..(m + n), i > m
    PROVE  \E k \in 1..n : i = m + k
<1>1. i - m \in 1..n /\ i = m + (i - m)
  OBVIOUS
<1>. QED  BY <1>1

(* What a read takes. *)
LEMMA AvailableIs ==
    ASSUME NEW E, NEW p \in Seq(E), NEW size \in Int
    PROVE  \E n \in Int : /\ n = (IF Len(p) < size THEN Len(p) ELSE size) /\ n <= Len(p)
                          /\ Available(p, size) = First(p, n)
<1>. DEFINE n == IF Len(p) < size THEN Len(p) ELSE size
<1>1. n \in Int /\ n <= Len(p)
  OBVIOUS
<1>2. Available(p, size) = First(p, n)
  BY Zenon DEF Available
<1>. QED  BY <1>1, <1>2

(* strchr(buffer, '\n') *)
LEMMA NewlineAt ==
    ASSUME NEW L, NEW b \in Seq(PieceOf(L))
    PROVE  /\ Newline(b) \in 0..Len(b)
           /\ Newline(b) = 0 => \A k \in 1..Len(b) : b[k].part # 3
           /\ Newline(b) # 0 => b[Newline(b)].part = 3 /\ \A k \in 1..(Newline(b) - 1) : b[k].part # 3
<1>. DEFINE ends == {k \in 1..Len(b) : b[k].part = 3}
<1>1. Newline(b) = IF ends # {} THEN CHOOSE k \in ends : \A i \in ends : k <= i ELSE 0
  BY Zenon DEF Newline, SelectInSeq, IsNewline, Min
<1>2. Len(b) \in Nat /\ ends \in SUBSET Nat
  OBVIOUS
<1>3. CASE ends = {}
  BY <1>1, <1>2, <1>3
<1>4. CASE ends # {}
  <2>. HIDE DEF ends
  <2>1. \E k \in ends : \A i \in ends : k <= i
    BY <1>2, <1>4, Least
  <2>2. Newline(b) \in ends /\ \A i \in ends : Newline(b) <= i
    BY <1>1, <1>4, <2>1, Zenon
  <2>. USE DEF ends
  <2>. QED  BY <1>2, <2>2
<1>. QED  BY <1>3, <1>4

(* The text in front of it. *)
LEMMA TextType ==
    ASSUME NEW b \in Seq(PieceOf(Words))
    PROVE  Text(b) \in Words
<1>. DEFINE s == IF Newline(b) = 0 THEN b ELSE First(b, Newline(b) - 1)
            E == PieceOf(Words)
<1>1. Text(b) = CASE s = <<>> -> <<>>
                  [] Len(s) = 2 /\ s[1].part = 1 /\ s[2].part = 2 -> s[1].line
                  [] OTHER -> Fragment
  BY Zenon DEF Text
<1>2. \A p \in E : p.line \in Words
  BY DEF PieceOf
<1>3. <<>> \in Words /\ Fragment \in Words
  BY DEF Words
<1>4. b \in Seq(E)
  OBVIOUS
<1>5. Newline(b) \in 0..Len(b)
  BY NewlineAt
<1>. HIDE DEF E
<1>6. s \in Seq(E)
  <2>1. CASE Newline(b) = 0
    BY <1>4, <2>1
  <2>2. CASE Newline(b) # 0
    <3>1. First(b, Newline(b) - 1) \in Seq(E)
      BY <1>4, <1>5, FirstType
    <3>. QED  BY <2>2, <3>1
  <2>. QED  BY <2>1, <2>2
<1>. HIDE DEF s
<1>7. Len(s) = 2 => s[1].line \in Words
  BY <1>2, <1>6
<1>. QED  BY <1>1, <1>3, <1>7

-----------------------------------------------------------------------------
(* What is on its way to a listener *)

LEMMA PieceType ==
    ASSUME NEW L, NEW s \in Seq(L), NEW i \in 1..(3 * Len(s))
    PROVE  PieceAt(s, i) \in PieceOf(L)
<1>1. ((i - 1) \div 3) + 1 \in 1..Len(s) /\ ((i - 1) % 3) + 1 \in 1..3
  OBVIOUS
<1>2. s[((i - 1) \div 3) + 1] \in L
  BY <1>1
<1>. QED  BY <1>1, <1>2 DEF PieceAt, Piece, PieceOf

LEMMA PieceOfBoth ==
    ASSUME NEW L, NEW s \in Seq(L), NEW t \in Seq(L)
    PROVE  /\ \A i \in 1..(3 * Len(s)) : PieceAt(s \o t, i) = PieceAt(s, i)
           /\ \A i \in 1..(3 * Len(t)) : PieceAt(s \o t, 3 * Len(s) + i) = PieceAt(t, i)
<1>0. Len(s) \in Nat /\ Len(t) \in Nat
  OBVIOUS
<1>1. ASSUME NEW i \in 1..(3 * Len(s)) PROVE PieceAt(s \o t, i) = PieceAt(s, i)
  <2>1. ((i - 1) \div 3) + 1 \in 1..Len(s)
    BY <1>0
  <2>2. (s \o t)[((i - 1) \div 3) + 1] = s[((i - 1) \div 3) + 1]
    BY <2>1
  <2>. QED  BY <2>2, Zenon DEF PieceAt
<1>2. ASSUME NEW i \in 1..(3 * Len(t)) PROVE PieceAt(s \o t, 3 * Len(s) + i) = PieceAt(t, i)
  <2>1. /\ ((i - 1) \div 3) + 1 \in 1..Len(t)
        /\ (((3 * Len(s) + i) - 1) \div 3) + 1 = Len(s) + (((i - 1) \div 3) + 1)
        /\ ((3 * Len(s) + i) - 1) % 3 = (i - 1) % 3
    BY ONLY <1>0, i \in 1..(3 * Len(t))
  <2>2. (s \o t)[Len(s) + (((i - 1) \div 3) + 1)] = t[((i - 1) \div 3) + 1]
    BY <2>1
  <2>3. PieceAt(s \o t, 3 * Len(s) + i)
          = Piece((s \o t)[(((3 * Len(s) + i) - 1) \div 3) + 1], (((3 * Len(s) + i) - 1) % 3) + 1)
    BY Zenon DEF PieceAt
  <2>4. PieceAt(t, i) = Piece(t[((i - 1) \div 3) + 1], ((i - 1) % 3) + 1)
    BY Zenon DEF PieceAt
  <2>. QED  BY ONLY <2>1, <2>2, <2>3, <2>4, Zenon
<1>. QED  BY <1>1, <1>2

LEMMA WrittenType ==
    ASSUME NEW L, NEW s \in Seq(L)
    PROVE  /\ Written(s) \in Seq(PieceOf(L)) /\ Len(Written(s)) = 3 * Len(s)
           /\ \A i \in 1..(3 * Len(s)) : Written(s)[i] = PieceAt(s, i)
<1>. DEFINE E == PieceOf(L)
            n == 3 * Len(s)
<1>1. n \in Nat
  OBVIOUS
<1>2. \A i \in 1..n : PieceAt(s, i) \in E
  BY PieceType
<1>3. Written(s) = [i \in 1..n |-> PieceAt(s, i)]
  BY Zenon DEF Written
<1>. HIDE DEF E, n
<1>4. Written(s) \in Seq(E) /\ Len(Written(s)) = n /\ \A i \in 1..n : Written(s)[i] = PieceAt(s, i)
  BY <1>1, <1>2, <1>3
<1>. QED  BY <1>4 DEF E, n

(* lircd writes lines, or gives the client up in the middle. *)
LEMMA FollowsWrite ==
    ASSUME NEW events, NEW heard, NEW buffer, NEW down,
           Follows(Line, events, heard, buffer, down, TRUE),
           NEW lines \in Seq(Line), NEW r \in Int, r <= 3 * Len(lines), NEW srv, srv => r = 3 * Len(lines)
    PROVE  Follows(Line, events \o lines, heard, buffer, down \o First(Written(lines), r), srv)
<1>. DEFINE E == PieceOf(Line)
            e == events \o lines
            w == First(Written(lines), r)
            n == IF r < 0 THEN 0 ELSE r
            d == down \o w
<1>1. /\ events \in Seq(Line) /\ heard \in Seq(Line) /\ buffer \in Seq(E) /\ down \in Seq(E)
      /\ Len(heard) <= Len(events) /\ \A i \in 1..Len(heard) : heard[i] = events[i]
      /\ \A i \in 1..Len(buffer) : buffer[i] = PieceAt(events, 3 * Len(heard) + i)
      /\ \A i \in 1..Len(down) : down[i] = PieceAt(events, 3 * Len(heard) + Len(buffer) + i)
      /\ 3 * Len(heard) + Len(buffer) + Len(down) = 3 * Len(events)
  BY DEF Follows
<1>0. 3 * Len(heard) + Len(buffer) + Len(down) = 3 * Len(events) /\ Len(heard) <= Len(events)
  BY <1>1
<1>2. /\ e \in Seq(Line) /\ Len(e) = Len(events) + Len(lines)
      /\ \A i \in 1..Len(events) : e[i] = events[i]
      /\ \A i \in 1..(3 * Len(events)) : PieceAt(e, i) = PieceAt(events, i)
      /\ \A i \in 1..(3 * Len(lines)) : PieceAt(e, 3 * Len(events) + i) = PieceAt(lines, i)
  <2>1. events \in Seq(Line)
    BY <1>1
  <2>2. e \in Seq(Line) /\ Len(e) = Len(events) + Len(lines) /\ \A i \in 1..Len(events) : e[i] = events[i]
    BY <2>1
  <2>. QED  BY <2>1, <2>2, PieceOfBoth
<1>3. /\ w \in Seq(E) /\ Len(w) = n /\ n \in 0..(3 * Len(lines))
      /\ \A i \in 1..n : w[i] = PieceAt(lines, i)
  <2>. DEFINE v == Written(lines)
  <2>1. v \in Seq(E) /\ Len(v) = 3 * Len(lines) /\ \A i \in 1..(3 * Len(lines)) : v[i] = PieceAt(lines, i)
    BY WrittenType
  <2>2. w = First(v, r)
    OBVIOUS
  <2>. HIDE DEF v, E, w
  <2>3. w \in Seq(E) /\ Len(w) = n /\ \A i \in 1..r : w[i] = v[i]
    BY <2>1, <2>2, FirstType
  <2>. QED  BY <2>1, <2>3
<1>. HIDE DEF E, e, w, n
<1>4. /\ d \in Seq(E) /\ Len(d) = Len(down) + n
      /\ \A i \in 1..Len(down) : d[i] = down[i]
      /\ \A i \in 1..n : d[Len(down) + i] = w[i]
  <2>1. down \in Seq(E)
    BY <1>1
  <2>2. w \in Seq(E) /\ Len(w) = n
    BY <1>3
  <2>3. Joined(E, down, w, d)
    BY ONLY <2>1, <2>2, BothType, Zenon DEF d
  <2>. QED  BY ONLY <2>2, <2>3, Zenon DEF Joined
<1>. HIDE DEF d
<1>5. Len(heard) \in Nat /\ Len(buffer) \in Nat /\ Len(down) \in Nat /\ Len(events) \in Nat /\ Len(lines) \in Nat
  BY <1>1
<1>6. \A i \in 1..Len(heard) : heard[i] = e[i]
  BY <1>1, <1>2, <1>5
<1>7. \A i \in 1..Len(buffer) : buffer[i] = PieceAt(e, 3 * Len(heard) + i)
  BY <1>1, <1>2, <1>5
<1>8. \A i \in 1..Len(d) : d[i] = PieceAt(e, 3 * Len(heard) + Len(buffer) + i)
  <2>. SUFFICES ASSUME NEW i \in 1..Len(d) PROVE d[i] = PieceAt(e, 3 * Len(heard) + Len(buffer) + i)
    OBVIOUS
  <2>1. CASE i <= Len(down)
    <3>1. i \in 1..Len(down) /\ 3 * Len(heard) + Len(buffer) + i \in 1..(3 * Len(events))
      BY <1>1, <1>3, <1>4, <1>5, <2>1
    <3>. QED  BY <1>1, <1>2, <1>4, <3>1
  <2>2. CASE i > Len(down)
    <3>1. PICK k \in 1..n : i = Len(down) + k
      <4>1. Len(down) \in Nat /\ n \in Nat /\ i \in 1..(Len(down) + n) /\ i > Len(down)
        BY ONLY <1>3, <1>4, <1>5, <2>2, i \in 1..Len(d)
      <4>. QED  BY ONLY <4>1, Behind, Zenon
    <3>2. k \in 1..(3 * Len(lines)) /\ 3 * Len(heard) + Len(buffer) + i = 3 * Len(events) + k
      BY ONLY <1>0, <1>3, <1>5, <3>1
    <3>. QED  BY <1>2, <1>3, <1>4, <3>1, <3>2
  <2>. QED  BY <1>4, <1>5, <2>1, <2>2
<1>9. /\ Len(heard) <= Len(e)
      /\ 3 * Len(heard) + Len(buffer) + Len(d) <= 3 * Len(e)
      /\ srv => 3 * Len(heard) + Len(buffer) + Len(d) = 3 * Len(e)
  <2>1. n \in Nat /\ n <= 3 * Len(lines) /\ (srv => n = 3 * Len(lines))
    BY ONLY <1>5, r \in Int, r <= 3 * Len(lines), srv => r = 3 * Len(lines) DEF n
  <2>2. Len(e) = Len(events) + Len(lines) /\ Len(d) = Len(down) + n
    BY <1>2, <1>4
  <2>. QED  BY ONLY <1>0, <1>5, <2>1, <2>2
<1>10. Follows(Line, e, heard, buffer, d, srv)
  BY <1>1, <1>2, <1>4, <1>6, <1>7, <1>8, <1>9 DEF Follows, E
<1>. QED  BY <1>10 DEF e, d, w

(* The other end is closed. *)
LEMMA FollowsLess ==
    ASSUME NEW L, NEW events, NEW heard, NEW buffer, NEW down, NEW srv,
           Follows(L, events, heard, buffer, down, srv), NEW less, less => srv
    PROVE  Follows(L, events, heard, buffer, down, less)
  BY DEF Follows

LEMMA FollowsGone ==
    ASSUME NEW L, NEW events, NEW heard, NEW buffer, NEW down, NEW srv,
           Follows(L, events, heard, buffer, down, srv)
    PROVE  Follows(L, events, heard, buffer, down, FALSE)
  BY FollowsLess

(* The listener reads. *)
LEMMA FollowsRead ==
    ASSUME NEW L, NEW events, NEW heard, NEW buffer, NEW down, NEW srv,
           Follows(L, events, heard, buffer, down, srv), NEW r \in Int, r <= Len(down)
    PROVE  Follows(L, events, heard, buffer \o First(down, r), From(down, Len(First(down, r)) + 1), srv)
<1>. DEFINE E == PieceOf(L)
            n == IF r < 0 THEN 0 ELSE r
            w == First(down, r)
            b == buffer \o w
            d == From(down, n + 1)
            h == 3 * Len(heard)
<1>1. /\ events \in Seq(L) /\ heard \in Seq(L) /\ buffer \in Seq(E) /\ down \in Seq(E)
      /\ Len(heard) <= Len(events) /\ \A i \in 1..Len(heard) : heard[i] = events[i]
      /\ \A i \in 1..Len(buffer) : buffer[i] = PieceAt(events, h + i)
      /\ \A i \in 1..Len(down) : down[i] = PieceAt(events, h + Len(buffer) + i)
      /\ h + Len(buffer) + Len(down) <= 3 * Len(events)
      /\ srv => h + Len(buffer) + Len(down) = 3 * Len(events)
  BY DEF Follows
<1>. HIDE DEF E
<1>2. w \in Seq(E) /\ Len(w) = n /\ n \in 0..Len(down) /\ \A i \in 1..n : w[i] = down[i]
  <2>1. down \in Seq(E)
    BY <1>1
  <2>. QED  BY <2>1, FirstType
<1>3. d \in Seq(E) /\ Len(d) = Len(down) - n /\ \A i \in 1..(Len(down) - n) : d[i] = down[n + i]
  <2>1. down \in Seq(E) /\ n + 1 \in 1..(Len(down) + 1)
    BY <1>1, <1>2
  <2>2. d \in Seq(E) /\ Len(d) = Len(down) + 1 - (n + 1) /\ \A i \in 1..(Len(down) + 1 - (n + 1)) : d[i] = down[n + 1 + i - 1]
    BY <2>1, FromType
  <2>3. Len(down) + 1 - (n + 1) = Len(down) - n /\ \A i \in Int : n + 1 + i - 1 = n + i
    BY <2>1
  <2>. QED  BY <2>2, <2>3
<1>. HIDE DEF w, d, n
<1>4. /\ b \in Seq(E) /\ Len(b) = Len(buffer) + n
      /\ \A i \in 1..Len(buffer) : b[i] = buffer[i]
      /\ \A i \in 1..n : b[Len(buffer) + i] = w[i]
  <2>1. buffer \in Seq(E)
    BY <1>1
  <2>2. w \in Seq(E) /\ Len(w) = n
    BY <1>2
  <2>3. Joined(E, buffer, w, b)
    BY ONLY <2>1, <2>2, BothType, Zenon DEF b
  <2>. QED  BY ONLY <2>2, <2>3, Zenon DEF Joined
<1>. HIDE DEF b
<1>5. Len(heard) \in Nat /\ Len(buffer) \in Nat /\ Len(down) \in Nat /\ Len(events) \in Nat /\ h \in Nat
  BY <1>1
<1>. HIDE DEF h
<1>6. \A i \in 1..Len(b) : b[i] = PieceAt(events, h + i)
  <2>. SUFFICES ASSUME NEW i \in 1..Len(b) PROVE b[i] = PieceAt(events, h + i)
    OBVIOUS
  <2>1. CASE i <= Len(buffer)
    BY <1>1, <1>4, <1>5, <2>1
  <2>2. CASE i > Len(buffer)
    <3>1. PICK k \in 1..n : i = Len(buffer) + k
      <4>1. Len(buffer) \in Nat /\ n \in Nat /\ i \in 1..(Len(buffer) + n) /\ i > Len(buffer)
        BY ONLY <1>2, <1>4, <1>5, <2>2, i \in 1..Len(b)
      <4>. QED  BY ONLY <4>1, Behind, Zenon
    <3>2. k \in 1..Len(down) /\ h + Len(buffer) + k = h + i
      BY <1>2, <1>5, <3>1
    <3>. QED  BY <1>1, <1>2, <1>4, <3>1, <3>2
  <2>. QED  BY <1>4, <1>5, <2>1, <2>2
<1>7. \A i \in 1..Len(d) : d[i] = PieceAt(events, h + Len(b) + i)
  <2>. SUFFICES ASSUME NEW i \in 1..Len(d) PROVE d[i] = PieceAt(events, h + Len(b) + i)
    OBVIOUS
  <2>1. n + i \in 1..Len(down) /\ h + Len(buffer) + (n + i) = h + Len(b) + i /\ i \in 1..(Len(down) - n)
    <3>1. Len(d) = Len(down) - n /\ Len(b) = Len(buffer) + n /\ n \in 0..Len(down)
      BY <1>2, <1>3, <1>4
    <3>. QED  BY ONLY <1>5, <3>1, i \in 1..Len(d)
  <2>. QED  BY <1>1, <1>3, <2>1
<1>8. h + Len(b) + Len(d) = h + Len(buffer) + Len(down)
  BY <1>2, <1>3, <1>4, <1>5
<1>9. Follows(L, events, heard, b, d, srv)
  BY <1>1, <1>3, <1>4, <1>6, <1>7, <1>8 DEF Follows, E, h
<1>. QED  BY <1>2, <1>9 DEF b, d, w

(* lirc_nextcode() hands out a line. *)
LEMMA FollowsTake ==
    ASSUME NEW L, NEW events, NEW heard, NEW buffer, NEW down, NEW srv,
           Follows(L, events, heard, buffer, down, srv), Newline(buffer) # 0
    PROVE  Follows(L, events, Append(heard, NextCode(buffer)), AfterCode(buffer), down, srv)
<1>. DEFINE E == PieceOf(L)
            h == 3 * Len(heard)
            k == Len(heard) + 1
            b == From(buffer, 4)
<1>1. /\ events \in Seq(L) /\ heard \in Seq(L) /\ buffer \in Seq(E) /\ down \in Seq(E)
      /\ Len(heard) <= Len(events) /\ \A i \in 1..Len(heard) : heard[i] = events[i]
      /\ \A i \in 1..Len(buffer) : buffer[i] = PieceAt(events, h + i)
      /\ \A i \in 1..Len(down) : down[i] = PieceAt(events, h + Len(buffer) + i)
      /\ h + Len(buffer) + Len(down) <= 3 * Len(events)
      /\ srv => h + Len(buffer) + Len(down) = 3 * Len(events)
  BY DEF Follows
<1>2. Len(heard) \in Nat /\ Len(buffer) \in Nat /\ Len(down) \in Nat /\ Len(events) \in Nat
  BY <1>1
<1>3. \A i \in Int : ((h + i) - 1) % 3 = (i - 1) % 3 /\ ((h + i) - 1) \div 3 = Len(heard) + ((i - 1) \div 3)
  BY ONLY <1>2
<1>4. \A i \in 1..Len(buffer) : buffer[i].part = ((i - 1) % 3) + 1
  <2>. SUFFICES ASSUME NEW i \in 1..Len(buffer) PROVE buffer[i].part = ((i - 1) % 3) + 1
    OBVIOUS
  <2>1. buffer[i] = PieceAt(events, h + i)
    BY <1>1
  <2>2. PieceAt(events, h + i).part = (((h + i) - 1) % 3) + 1
    BY ONLY Zenon DEF PieceAt, Piece
  <2>3. ((h + i) - 1) % 3 = (i - 1) % 3
    BY <1>3
  <2>. QED  BY ONLY <2>1, <2>2, <2>3
<1>5. Newline(buffer) \in 1..Len(buffer) /\ buffer[Newline(buffer)].part = 3
      /\ \A i \in 1..(Newline(buffer) - 1) : buffer[i].part # 3
  BY <1>1, <1>2, NewlineAt
<1>6. Newline(buffer) = 3 /\ Len(buffer) >= 3
  <2>. DEFINE n == Newline(buffer)
  <2>1. n \in 1..Len(buffer) /\ ((n - 1) % 3) + 1 = 3
    BY <1>4, <1>5
  <2>. HIDE DEF n
  <2>2. n >= 3
    BY <2>1, <1>2
  <2>3. 3 \in 1..Len(buffer)
    BY <2>1, <2>2, <1>2
  <2>4. buffer[3].part = 3
    BY <1>4, <2>3
  <2>5. ~(3 < n)
    <3>. SUFFICES ASSUME 3 < n PROVE FALSE
      OBVIOUS
    <3>1. 3 \in 1..(n - 1)
      BY <2>1
    <3>. QED  BY <1>5, <2>4, <3>1 DEF n
  <2>. QED  BY <1>2, <2>1, <2>2, <2>5 DEF n
<1>7. k \in 1..Len(events) /\ events[k] \in L
  <2>1. 3 * Len(heard) + 3 <= 3 * Len(events)
    BY <1>1, <1>2, <1>6
  <2>2. k \in 1..Len(events)
    BY <2>1, <1>2
  <2>. QED  BY <1>1, <2>2
<1>8. NextCode(buffer) = events[k]
  <2>. DEFINE s == First(buffer, 2)
  <2>1. Len(s) = 2 /\ s[1] = buffer[1] /\ s[2] = buffer[2] /\ s # <<>>
    <3>1. buffer \in Seq(E) /\ 2 \in Int /\ 2 <= Len(buffer)
      BY <1>1, <1>2, <1>6
    <3>. HIDE DEF E
    <3>2. Len(First(buffer, 2)) = 2 /\ \A i \in 1..2 : First(buffer, 2)[i] = buffer[i]
      <4>1. /\ Len(First(buffer, 2)) = IF 2 < 0 THEN 0 ELSE 2
            /\ \A i \in 1..2 : First(buffer, 2)[i] = buffer[i]
        BY ONLY <3>1, FirstType, Zenon
      <4>. QED  BY ONLY <4>1
    <3>. QED  BY <3>2
  <2>2. buffer[1] = Piece(events[k], 1) /\ buffer[2] = Piece(events[k], 2)
    <3>1. /\ (h + 1 - 1) % 3 = 0 /\ (h + 1 - 1) \div 3 = Len(heard)
          /\ (h + 2 - 1) % 3 = 1 /\ (h + 2 - 1) \div 3 = Len(heard)
      BY <1>2
    <3>2. buffer[1] = PieceAt(events, h + 1) /\ buffer[2] = PieceAt(events, h + 2)
      BY <1>1, <1>2, <1>6
    <3>. QED  BY <3>1, <3>2 DEF PieceAt
  <2>3. s[1].part = 1 /\ s[2].part = 2 /\ s[1].line = events[k]
    BY <2>1, <2>2 DEF Piece
  <2>4. Newline(buffer) - 1 = 2 /\ Newline(buffer) # 0
    BY <1>6
  <2>5. Text(buffer) = CASE s = <<>> -> <<>>
                         [] Len(s) = 2 /\ s[1].part = 1 /\ s[2].part = 2 -> s[1].line
                         [] OTHER -> Fragment
    BY <2>4, Zenon DEF Text
  <2>. HIDE DEF s
  <2>6. Text(buffer) = s[1].line
    BY <2>1, <2>3, <2>5
  <2>. QED  BY <2>3, <2>6 DEF NextCode
<1>9. AfterCode(buffer) = b
  BY <1>6 DEF AfterCode
<1>10. b \in Seq(E) /\ Len(b) = Len(buffer) - 3 /\ \A i \in 1..(Len(buffer) - 3) : b[i] = buffer[i + 3]
  <2>1. buffer \in Seq(E) /\ 4 \in 1..(Len(buffer) + 1)
    BY <1>1, <1>2, <1>6
  <2>. HIDE DEF E
  <2>2. b \in Seq(E) /\ Len(b) = Len(buffer) + 1 - 4 /\ \A i \in 1..(Len(buffer) + 1 - 4) : b[i] = buffer[4 + i - 1]
    BY <2>1, FromType
  <2>3. Len(buffer) + 1 - 4 = Len(buffer) - 3 /\ \A i \in Int : 4 + i - 1 = i + 3
    BY <1>2
  <2>. QED  BY <2>2, <2>3
<1>. HIDE DEF b, E
<1>. DEFINE a == Append(heard, events[k])
<1>11. /\ a \in Seq(L) /\ Len(a) = k /\ a[k] = events[k]
       /\ \A i \in 1..Len(heard) : a[i] = heard[i]
  BY <1>1, <1>7
<1>. HIDE DEF a
<1>12. 3 * k = h + 3 /\ h \in Nat /\ k \in Nat
  BY <1>2
<1>13. \A i \in 1..k : a[i] = events[i]
  <2>1. \A i \in 1..k : i \in 1..Len(heard) \/ i = k
    BY ONLY <1>2 DEF k
  <2>2. \A i \in 1..Len(heard) : heard[i] = events[i]
    BY <1>1
  <2>3. a[k] = events[k] /\ \A i \in 1..Len(heard) : a[i] = heard[i]
    BY ONLY <1>11, Zenon
  <2>. QED  BY ONLY <2>1, <2>2, <2>3, Zenon
<1>. HIDE DEF k, h
<1>14. \A i \in 1..Len(b) : b[i] = PieceAt(events, 3 * k + i)
  <2>. SUFFICES ASSUME NEW i \in 1..Len(b) PROVE b[i] = PieceAt(events, 3 * k + i)
    OBVIOUS
  <2>1. i + 3 \in 1..Len(buffer) /\ 3 * k + i = h + (i + 3) /\ i \in 1..(Len(buffer) - 3)
    BY <1>2, <1>6, <1>10, <1>12
  <2>. QED  BY <1>1, <1>10, <2>1
<1>15. \A i \in 1..Len(down) : down[i] = PieceAt(events, 3 * k + Len(b) + i)
  <2>1. \A i \in Int : 3 * k + Len(b) + i = h + Len(buffer) + i
    BY <1>2, <1>10, <1>12
  <2>. QED  BY <1>1, <1>2, <2>1
<1>16. 3 * k + Len(b) + Len(down) = h + Len(buffer) + Len(down) /\ k <= Len(events)
  <2>1. Len(b) = Len(buffer) - 3
    BY <1>10
  <2>2. k \in 1..Len(events)
    BY <1>7
  <2>. QED  BY ONLY <1>2, <1>12, <2>1, <2>2
<1>17. Follows(L, events, a, b, down, srv)
  BY <1>1, <1>10, <1>11, <1>13, <1>14, <1>15, <1>16 DEF Follows, E
<1>. QED  BY <1>8, <1>9, <1>17 DEF a


-----------------------------------------------------------------------------
(* The directives *)

StateOf(st) ==
    /\ DOMAIN st = {"repeat", "tx", "inputlog", "options"}
    /\ DOMAIN st.repeat = {"remote", "code", "fd", "message", "left", "other"}

LEMMA Domains ==
    /\ DOMAIN InitDaemon = {"repeat", "tx", "inputlog", "options"}
    /\ DOMAIN NotRepeating = {"remote", "code", "fd", "message", "left", "other"}
    /\ DOMAIN NoCommand = {"fd", "slot", "buffer"}
    /\ DOMAIN Closed = {"up", "down", "srv", "cli"} /\ DOMAIN Open = {"up", "down", "srv", "cli"}
    /\ \A s, c : DOMAIN Program(s, c) =
          {"pc", "script", "ctx", "buffer", "size", "code", "heard", "out", "returned"}
  BY DEF InitDaemon, NotRepeating, NoCommand, Closed, Open, Program

(* What is cast are events, and the repeat is the client's or was there. *)
Effect(fd, st, do) ==
    /\ do.cast \in Seq(Line)
    /\ StateOf(do.st) /\ do.st.repeat.fd \in {fd, st.repeat.fd}

LEMMA Answers ==
    ASSUME NEW fd, NEW st, NEW lines, NEW st2, StateOf(st2), st2.repeat.fd \in {fd, st.repeat.fd}
    PROVE  Effect(fd, st, Answer(lines, st2))
<1>1. <<>> \in Seq(Line)
  OBVIOUS
<1>. QED  BY <1>1 DEF Answer, Effect

LEMMA AnswersSame ==
    ASSUME NEW fd, NEW st, StateOf(st)
    PROVE  /\ \A lines : Effect(fd, st, Answer(lines, st))
           /\ \A message, what : Effect(fd, st, Fail(message, what, st))
           /\ \A message : Effect(fd, st, Done(message, st))
  BY Answers DEF Fail, Done

LEMMA ListEffect ==
    ASSUME NEW fd, NEW message, NEW args, NEW st, StateOf(st)
    PROVE  Effect(fd, st, list(fd, message, args, st))
  BY AnswersSame DEF list

LEMMA SendEffect ==
    ASSUME NEW fd, NEW message, NEW args, NEW once \in BOOLEAN, NEW sent \in BOOLEAN, NEW st, StateOf(st)
    PROVE  Effect(fd, st, send_core(fd, message, args, once, sent, st))
<1>. DEFINE R == parse_rc(args, once, 2)
            left == IF once THEN R.reps ELSE RepeatMax
            repeating == [remote |-> R.remote, code |-> R.code, left |-> left, other |-> FALSE,
                          fd |-> IF once THEN fd ELSE st.repeat.fd,
                          message |-> IF once THEN message ELSE st.repeat.message]
            st2 == IF left > 0 THEN [st EXCEPT !.repeat = repeating] ELSE st
<1>1. StateOf(st2) /\ st2.repeat.fd \in {fd, st.repeat.fd}
  BY DEF StateOf
<1>2. send_core(fd, message, args, once, sent, st) =
        CASE ~SendMode -> Fail(message, <<"hardware", "does", "not", "support", "sending">>, st)
          [] SendMode /\ R.err # <<>> -> Fail(message, R.err, st)
          [] SendMode /\ R.err = <<>> /\ st.repeat.remote # None ->
               Fail(message, IF once THEN <<"busy:", "repeating">> ELSE <<"already", "repeating">>, st)
          [] SendMode /\ R.err = <<>> /\ st.repeat.remote = None /\ ~sent ->
               Fail(message, <<"transmission", "failed">>, st)
          [] OTHER -> IF once /\ left > 0 THEN Answer(<<>>, st2) ELSE Done(message, st2)
  BY Zenon DEF send_core
<1>. HIDE DEF R, left, st2
<1>3. Effect(fd, st, Answer(<<>>, st2)) /\ Effect(fd, st, Done(message, st2))
  BY <1>1, Answers DEF Done
<1>. QED  BY <1>2, <1>3, AnswersSame

LEMMA StopEffect ==
    ASSUME NEW fd, NEW message, NEW args, NEW st, StateOf(st)
    PROVE  Effect(fd, st, send_stop(fd, message, args, st))
<1>. DEFINE st2 == [st EXCEPT !.repeat.remote = None, !.repeat.code = None]
<1>1. StateOf(st2) /\ st2.repeat.fd \in {fd, st.repeat.fd}
  BY DEF StateOf
<1>2. Effect(fd, st, Done(message, st2))
  BY <1>1, Answers DEF Done
<1>. QED  BY <1>2, AnswersSame DEF send_stop

LEMMA TransmittersEffect ==
    ASSUME NEW fd, NEW message, NEW args, NEW st, StateOf(st)
    PROVE  Effect(fd, st, set_transmitters(fd, message, args, st))
<1>1. ASSUME NEW x PROVE Effect(fd, st, Done(message, [st EXCEPT !.tx = x]))
  <2>1. StateOf([st EXCEPT !.tx = x]) /\ [st EXCEPT !.tx = x].repeat.fd \in {fd, st.repeat.fd}
    BY DEF StateOf
  <2>. QED  BY <2>1, Answers DEF Done
<1>. QED  BY <1>1, AnswersSame DEF set_transmitters

LEMMA SimulateEffect ==
    ASSUME NEW fd, NEW message, NEW args \in Seq(STRING), NEW st, StateOf(st)
    PROVE  Effect(fd, st, simulate(fd, message, args, st))
<1>1. Len(args) = 4 => args \in Line
  BY DEF Line, Words, Fragment
<1>2. args \in Line => Effect(fd, st, [Done(message, st) EXCEPT !.cast = <<args>>])
  BY DEF Effect, Done, Answer
<1>. QED  BY <1>1, <1>2, AnswersSame DEF simulate

LEMMA OptionEffect ==
    ASSUME NEW fd, NEW message, NEW args, NEW st, StateOf(st)
    PROVE  Effect(fd, st, drv_option(fd, message, args, st))
<1>1. ASSUME NEW x PROVE Effect(fd, st, Done(message, [st EXCEPT !.options = x]))
  <2>1. StateOf([st EXCEPT !.options = x]) /\ [st EXCEPT !.options = x].repeat.fd \in {fd, st.repeat.fd}
    BY DEF StateOf
  <2>. QED  BY <2>1, Answers DEF Done
<1>2. Effect(fd, st, Done(message, [st EXCEPT !.options = @ \cup {args[1]}]))
  <2>1. [st EXCEPT !.options = @ \cup {args[1]}] = [st EXCEPT !.options = st.options \cup {args[1]}]
    OBVIOUS
  <2>. QED  BY <1>1, <2>1
<1>. QED  BY <1>2, AnswersSame DEF drv_option

LEMMA InputlogEffect ==
    ASSUME NEW fd, NEW message, NEW args, NEW st, StateOf(st)
    PROVE  Effect(fd, st, set_inputlog(fd, message, args, st))
<1>1. ASSUME NEW x PROVE Effect(fd, st, Done(message, [st EXCEPT !.inputlog = x]))
  <2>1. StateOf([st EXCEPT !.inputlog = x]) /\ [st EXCEPT !.inputlog = x].repeat.fd \in {fd, st.repeat.fd}
    BY DEF StateOf
  <2>. QED  BY <2>1, Answers DEF Done
<1>. QED  BY <1>1, AnswersSame DEF set_inputlog

LEMMA DirectiveEffect ==
    ASSUME NEW fd, NEW message \in Words, NEW sent \in BOOLEAN, NEW st, StateOf(st)
    PROVE  Effect(fd, st, Directive(fd, message, sent, st))
<1>. DEFINE args == Tail(message)
<1>1. CASE message = <<>>
  BY <1>1, AnswersSame DEF Directive
<1>2. CASE message # <<>>
  <2>1. args \in Seq(STRING)
    <3>1. CASE message \in Seq(STRING)
      BY <1>2, <3>1
    <3>2. CASE message = <<"fragment">>
      BY <3>2
    <3>. QED  BY <3>1, <3>2 DEF Words, Fragment
  <2>2. Effect(fd, st, simulate(fd, message, args, st))
    BY <2>1, SimulateEffect
  <2>3. /\ Effect(fd, st, send_once(fd, message, args, sent, st))
        /\ Effect(fd, st, send_start(fd, message, args, sent, st))
    BY SendEffect DEF send_once, send_start
  <2>4. Effect(fd, st, version(fd, message, args, st))
    BY AnswersSame DEF version
  <2>5. /\ Effect(fd, st, list(fd, message, args, st)) /\ Effect(fd, st, send_stop(fd, message, args, st))
        /\ Effect(fd, st, set_transmitters(fd, message, args, st))
        /\ Effect(fd, st, drv_option(fd, message, args, st)) /\ Effect(fd, st, set_inputlog(fd, message, args, st))
    BY ListEffect, StopEffect, TransmittersEffect, OptionEffect, InputlogEffect
  <2>6. Effect(fd, st, Fail(message, <<"unknown", "directive">>, st))
    BY AnswersSame
  <2>. HIDE DEF args
  <2>. QED  BY <1>2, <2>2, <2>3, <2>4, <2>5, <2>6 DEF Directive, args
<1>. QED  BY <1>1, <1>2

LEMMA RepeatedEffect ==
    ASSUME NEW st, StateOf(st), NEW sent \in BOOLEAN
    PROVE  StateOf(repeated(sent, st).st) /\ repeated(sent, st).st.repeat.fd \in {None, st.repeat.fd}
  BY DEF repeated, stop_repeating, Answer, StateOf, NotRepeating

LEMMA DecodedEffect ==
    ASSUME NEW st, StateOf(st), NEW event
    PROVE  StateOf(decoded(event, st)) /\ decoded(event, st).repeat.fd = st.repeat.fd
  BY DEF decoded, StateOf


-----------------------------------------------------------------------------
(* Writing *)

LEMMA RoomType ==
    ASSUME Shape
    PROVE  scene.room \in Nat /\ scene.packet \in Nat
  BY NetworkAssumption DEF Shape

LEMMA WriteKeeps ==
    ASSUME NEW s, DOMAIN s = DOMAIN Closed, NEW lines
    PROVE  DOMAIN write_socket(s, lines) = DOMAIN Closed /\ write_socket(s, lines).up = s.up
<1>1. "up" \in DOMAIN s
  BY Domains
<1>. DEFINE out == Written(lines)
            room == IF s.srv /\ s.cli THEN scene.room - Len(s.down) ELSE 0
<1>2. write_socket(s, lines) = IF Len(out) <= room THEN [s EXCEPT !.down = @ \o out]
                               ELSE [s EXCEPT !.down = @ \o First(out, room), !.srv = FALSE]
  BY Zenon DEF write_socket
<1>. HIDE DEF out, room
<1>. QED  BY <1>1, <1>2

LEMMA WriteFollows ==
    ASSUME Shape, NEW s, DOMAIN s = DOMAIN Closed, NEW lines \in Seq(Line), s.srv,
           NEW events, NEW heard, NEW buffer, Follows(Line, events, heard, buffer, s.down, s.srv)
    PROVE  Follows(Line, events \o lines, heard, buffer, write_socket(s, lines).down, write_socket(s, lines).srv)
<1>. DEFINE out == Written(lines)
            room == IF s.srv /\ s.cli THEN scene.room - Len(s.down) ELSE 0
            all == [s EXCEPT !.down = @ \o out]
            some == [s EXCEPT !.down = @ \o First(out, room), !.srv = FALSE]
<1>0. write_socket(s, lines) = IF Len(out) <= room THEN all ELSE some
  BY Zenon DEF write_socket
<1>1. Follows(Line, events, heard, buffer, s.down, TRUE)
  BY DEF Follows
<1>2. out \in Seq(PieceOf(Line)) /\ Len(out) = 3 * Len(lines)
  BY WrittenType
<1>3. room \in Int
  BY <1>1, RoomType DEF Follows
<1>4. Len(out) \in Int
  BY <1>2
<1>5. "down" \in DOMAIN s /\ "srv" \in DOMAIN s
  BY Domains
<1>. HIDE DEF out, room
<1>6. CASE Len(out) <= room
  <2>1. Follows(Line, events \o lines, heard, buffer, s.down \o First(out, Len(out)), s.srv)
    <3>1. Len(out) <= 3 * Len(lines)
      BY <1>2, <1>4
    <3>2. ASSUME NEW r \in Int, r = 3 * Len(lines)
          PROVE  Follows(Line, events \o lines, heard, buffer, s.down \o First(Written(lines), r), s.srv)
      <4>1. r <= 3 * Len(lines) /\ (s.srv => r = 3 * Len(lines))
        BY <3>2
      <4>. QED  BY ONLY <1>1, <4>1, lines \in Seq(Line), r \in Int, FollowsWrite, Zenon
    <3>. QED  BY ONLY <1>2, <1>4, <3>2, Zenon DEF out
  <2>2. First(out, Len(out)) = out
    BY <1>2, SubSeqFull DEF First
  <2>3. all.down = s.down \o out /\ all.srv = s.srv
    BY <1>5
  <2>. QED  BY <1>0, <1>6, <2>1, <2>2, <2>3
<1>7. CASE ~(Len(out) <= room)
  <2>1. room <= 3 * Len(lines)
    BY <1>2, <1>3, <1>4, <1>7
  <2>2. Follows(Line, events \o lines, heard, buffer, s.down \o First(out, room), FALSE)
    BY <1>1, <1>3, <2>1, FollowsWrite DEF out
  <2>3. some.down = s.down \o First(out, room) /\ some.srv = FALSE
    BY <1>5
  <2>. QED  BY <1>0, <1>7, <2>2, <2>3
<1>. QED  BY <1>6, <1>7

(* The sockets after a broadcast and an answer. *)
LEMMA SentKeeps ==
    ASSUME Shape, NEW fd, NEW lines, NEW cast, NEW B
    PROVE  /\ DOMAIN Sent(fd, lines, cast, B) = Clients
           /\ \A c \in Clients : /\ DOMAIN Sent(fd, lines, cast, B)[c] = DOMAIN Closed
                                 /\ Sent(fd, lines, cast, B)[c].up = sock[c].up
<1>1. Sent(fd, lines, cast, B) =
        [c \in Clients |->
           LET s == IF c \in B /\ cast # <<>> THEN write_socket(sock[c], cast) ELSE sock[c]
           IN IF c = fd /\ lines # <<>> THEN write_socket(s, lines) ELSE s]
  BY Zenon DEF Sent
<1>2. ASSUME NEW c \in Clients
      PROVE  /\ DOMAIN Sent(fd, lines, cast, B)[c] = DOMAIN Closed
             /\ Sent(fd, lines, cast, B)[c].up = sock[c].up
  <2>. DEFINE s == IF c \in B /\ cast # <<>> THEN write_socket(sock[c], cast) ELSE sock[c]
  <2>1. DOMAIN s = DOMAIN Closed /\ s.up = sock[c].up
    BY WriteKeeps DEF Shape, SockShape
  <2>2. Sent(fd, lines, cast, B)[c] = IF c = fd /\ lines # <<>> THEN write_socket(s, lines) ELSE s
    BY <1>1
  <2>. HIDE DEF s
  <2>. QED  BY <2>1, <2>2, WriteKeeps
<1>. QED  BY <1>1, <1>2

(* A listener after it. *)
Hears(c, fd, lines, cast, B) ==
    /\ Follows(Line, Told(fd, lines, cast, B)[c].events, prog[c].heard, prog[c].buffer,
               Sent(fd, lines, cast, B)[c].down, Sent(fd, lines, cast, B)[c].srv)
    /\ Sent(fd, lines, cast, B)[c].up = <<>>

LEMMA Broadcasts ==
    ASSUME Shape, NEW c \in Listeners, Listens(c), NEW fd, NEW lines, c # fd \/ lines = <<>>,
           NEW cast \in Seq(Line), NEW B, c \in B => sock[c].srv
    PROVE  Hears(c, fd, lines, cast, B)
<1>0. c \in Clients
  BY DEF Listeners
<1>1. Sent(fd, lines, cast, B)[c] = IF c \in B /\ cast # <<>> THEN write_socket(sock[c], cast) ELSE sock[c]
  BY <1>0 DEF Sent
<1>2. Told(fd, lines, cast, B)[c].events = told[c].events \o (IF c \in B THEN cast ELSE <<>>)
  BY <1>0 DEF Told
<1>3. Follows(Line, told[c].events, prog[c].heard, prog[c].buffer, sock[c].down, sock[c].srv) /\ sock[c].up = <<>>
  BY DEF Listens
<1>4. told[c].events \in Seq(Line)
  BY <1>3 DEF Follows
<1>5. told[c].events \o <<>> = told[c].events
  BY <1>4
<1>6. Sent(fd, lines, cast, B)[c].up = <<>>
  BY <1>0, <1>3, SentKeeps
<1>7. CASE c \in B /\ cast # <<>>
  <2>1. DOMAIN sock[c] = DOMAIN Closed
    BY <1>0 DEF Shape, SockShape
  <2>2. Follows(Line, told[c].events \o cast, prog[c].heard, prog[c].buffer,
                write_socket(sock[c], cast).down, write_socket(sock[c], cast).srv)
    BY <1>3, <1>7, <2>1, WriteFollows
  <2>. QED  BY <1>1, <1>2, <1>6, <1>7, <2>2 DEF Hears
<1>8. CASE ~(c \in B /\ cast # <<>>)
  BY <1>1, <1>2, <1>3, <1>5, <1>6, <1>8 DEF Hears
<1>. QED  BY <1>7, <1>8

(* remove_client() of those that are not kept. *)
LEMMA KeptType ==
    ASSUME DaemonShape, NEW socks
    PROVE  Kept(socks) \in Seq(Clients) /\ \A c \in Range(Kept(socks)) : socks[c].srv
<1>. DEFINE T == {c \in Clients : socks[c].srv}
            K == Those(daemon.clis, T)
<1>1. K \in Seq(Clients \cap T \cap Range(daemon.clis))
  BY ThoseType DEF DaemonShape
<1>2. Kept(socks) = K
  BY DEF Kept
<1>. HIDE DEF K
<1>3. K \in Seq(Clients) /\ Range(K) \subseteq T
  BY <1>1 DEF Range
<1>. QED  BY <1>2, <1>3

-----------------------------------------------------------------------------
(* Reading *)

LEMMA ReadingType ==
    ASSUME NEW E, NEW stream \in Seq(E), NEW size \in Nat
    PROVE  /\ Reading(stream, size).buffer \in Seq(E) /\ Reading(stream, size).stream \in Seq(E)
           /\ stream = <<>> => Reading(stream, size).buffer = <<>> /\ Reading(stream, size).stream = <<>>
<1>1. PICK n \in Int : /\ n = (IF Len(stream) < size THEN Len(stream) ELSE size) /\ n <= Len(stream)
                       /\ Available(stream, size) = First(stream, n)
  BY AvailableIs
<1>2. n >= 0 /\ Len(stream) \in Nat
  BY <1>1
<1>3. First(stream, n) \in Seq(E) /\ Len(First(stream, n)) = n
  BY <1>1, <1>2, FirstType
<1>4. n + 1 \in 1..(Len(stream) + 1)
  BY <1>1, <1>2
<1>5. From(stream, n + 1) \in Seq(E) /\ Len(From(stream, n + 1)) = Len(stream) + 1 - (n + 1)
  BY <1>4, FromType
<1>6. Reading(stream, size) = [buffer |-> First(stream, n), stream |-> From(stream, n + 1)]
  BY <1>1, <1>3 DEF Reading
<1>7. stream = <<>> => n = 0 /\ Len(stream) = 0
  BY <1>1
<1>. HIDE DEF First, From
<1>8. ASSUME NEW s \in Seq(E), Len(s) = 0 PROVE s = <<>>
  BY <1>8
<1>9. stream = <<>> => First(stream, n) = <<>> /\ From(stream, n + 1) = <<>>
  BY <1>3, <1>5, <1>7, <1>8
<1>. QED  BY <1>3, <1>5, <1>6, <1>9

LEMMA NextPacketType ==
    ASSUME NEW L, NEW buffer \in Seq(PieceOf(L)), NEW stream \in Seq(PieceOf(L)), NEW size \in Nat
    PROVE  /\ NextPacket(buffer, stream, size).buffer \in Seq(PieceOf(L))
           /\ NextPacket(buffer, stream, size).stream \in Seq(PieceOf(L))
<1>. DEFINE E == PieceOf(L)
            rest == From(buffer, Newline(buffer) + 1)
            new == Available(stream, size - Len(rest))
            later == From(stream, Len(new) + 1)
<1>1. Newline(buffer) \in 0..Len(buffer)
  BY NewlineAt
<1>2. NextPacket(buffer, stream, size) =
        CASE rest = <<>> -> [buffer |-> <<>>, stream |-> stream, ok |-> TRUE]
          [] rest # <<>> /\ Newline(rest) > 0 -> [buffer |-> rest, stream |-> stream, ok |-> TRUE]
          [] rest # <<>> /\ Newline(rest) = 0 /\ new # <<>> -> [buffer |-> rest \o new, stream |-> later, ok |-> TRUE]
          [] OTHER -> [buffer |-> <<>>, stream |-> stream, ok |-> FALSE]
  BY Zenon DEF NextPacket
<1>3. buffer \in Seq(E) /\ stream \in Seq(E)
  OBVIOUS
<1>. HIDE DEF E
<1>4. Newline(buffer) + 1 \in 1..(Len(buffer) + 1)
  BY <1>1, <1>3
<1>5. rest \in Seq(E)
  BY <1>3, <1>4, FromType
<1>. HIDE DEF rest
<1>6. size - Len(rest) \in Int
  BY <1>5
<1>7. PICK n \in Int : n <= Len(stream) /\ new = First(stream, n)
  BY <1>3, <1>6, AvailableIs
<1>. HIDE DEF new
<1>8. new \in Seq(E) /\ Len(new) \in 0..Len(stream)
  BY <1>3, <1>7, FirstType
<1>9. later \in Seq(E)
  BY <1>3, <1>8, FromType
<1>. HIDE DEF later
<1>. DEFINE np == NextPacket(buffer, stream, size)
<1>10. <<>> \in Seq(E) /\ rest \o new \in Seq(E)
  BY <1>5, <1>8
<1>11. \/ np = [buffer |-> <<>>, stream |-> stream, ok |-> TRUE]
       \/ np = [buffer |-> rest, stream |-> stream, ok |-> TRUE]
       \/ np = [buffer |-> rest \o new, stream |-> later, ok |-> TRUE]
       \/ np = [buffer |-> <<>>, stream |-> stream, ok |-> FALSE]
  BY <1>2
<1>. HIDE DEF np
<1>. DEFINE G == Seq(E)
<1>13. <<>> \in G /\ rest \in G /\ rest \o new \in G /\ stream \in G /\ later \in G
  BY <1>3, <1>5, <1>9, <1>10
<1>. HIDE DEF G
<1>14. ASSUME NEW b \in G, NEW s \in G, NEW ok, np = [buffer |-> b, stream |-> s, ok |-> ok]
       PROVE  np.buffer \in G /\ np.stream \in G
  BY ONLY <1>14
<1>12. np.buffer \in G /\ np.stream \in G
  BY ONLY <1>11, <1>13, <1>14, Zenon
<1>. QED  BY <1>12 DEF np, E, G

(* A chunk that ends with a newline is whole lines. *)
LEMMA PeerLines ==
    ASSUME NEW L, NEW chunk \in Seq(PieceOf(L)), IsNewline(Last(chunk))
    PROVE  LinesOf(chunk) \in Seq(L)
<1>. DEFINE E == PieceOf(L)
            T == {p \in Range(chunk) : IsNewline(p)}
            ends == Those(chunk, T)
            lines == [i \in DOMAIN ends |-> ends[i].line]
<1>1. ends \in Seq(E \cap T \cap Range(chunk))
  BY ThoseType
<1>2. LinesOf(chunk) = lines \o <<>>
  BY DEF LinesOf
<1>3. \A p \in E : p.line \in L
  BY DEF PieceOf
<1>. HIDE DEF E, T, ends
<1>4. ends \in Seq(E)
  BY <1>1
<1>5. lines \in Seq(L)
  BY <1>3, <1>4
<1>. HIDE DEF lines
<1>. QED  BY <1>2, <1>5

-----------------------------------------------------------------------------
(* The invariant: the initial states, and the steps of lircd *)

LEMMA InitInv == Init => HeardInv
<1>. SUFFICES ASSUME Init PROVE HeardInv
  OBVIOUS
<1>1. scene \in Scenes /\ InitScene(scene)
  BY DEF Init
<1>2. /\ scene.clients \in Seq(Clients) /\ scene.script \in [Clients -> Seq(Words)]
      /\ scene.events \in Seq(Line) /\ scene.peer \in Seq(Line)
  BY <1>1, NetworkAssumption
<1>3. DaemonShape
  <2>. DEFINE type == [i \in DOMAIN scene.clients |-> IF scene.clients[i] \in scene.remote THEN "CT_REMOTE" ELSE "CT_LOCAL"]
  <2>1. daemon = [st |-> InitDaemon, up |-> TRUE, cmd |-> NoCommand, left |-> scene.events,
                  hups |-> scene.hups, clis |-> scene.clients, marks |-> {}, type |-> type]
    BY <1>1, Zenon DEF InitScene
  <2>. HIDE DEF type
  <2>2. InitDaemon.repeat = NotRepeating /\ NoCommand.fd = None
    BY DEF InitDaemon, NoCommand
  <2>. QED  BY <1>2, <2>1, <2>2 DEF DaemonShape
<1>4. SockShape
  <2>1. sock = [c \in Clients |-> IF c \in Range(scene.clients) THEN Open ELSE Closed]
    BY <1>1, Zenon DEF InitScene
  <2>. QED  BY <2>1 DEF SockShape, Open, Closed
<1>5. ProgShape
  <2>1. prog = [c \in Clients |-> Program(scene, c)]
    BY <1>1, Zenon DEF InitScene
  <2>2. ASSUME NEW c \in Clients PROVE Program(scene, c).script \in Seq(Words) /\ Program(scene, c).size \in Nat
    BY <1>2 DEF Program
  <2>. QED  BY <2>1, <2>2 DEF ProgShape
<1>6. PeerShape
  BY <1>1, <1>2 DEF InitScene, PeerShape
<1>7. ASSUME NEW c \in Listeners PROVE Listens(c)
  <2>1. c \in Clients /\ c # None
    BY NetworkAssumption DEF Listeners
  <2>2. told[c].events = <<>>
    BY <2>1 DEF Init
  <2>3. prog[c].heard = <<>> /\ prog[c].buffer = <<>>
    BY <1>1, <2>1 DEF InitScene, Program
  <2>4. sock[c] = IF c \in Range(scene.clients) THEN Open ELSE Closed
    BY <1>1, <2>1 DEF InitScene
  <2>5. daemon.cmd.fd = None /\ daemon.st.repeat.fd = None /\ daemon.clis = scene.clients
    BY <1>1 DEF InitScene, InitDaemon, NotRepeating, NoCommand
  <2>6. sock[c].down = <<>> /\ sock[c].up = <<>> /\ (c \in Range(scene.clients) => sock[c].srv)
    BY <2>4 DEF Open, Closed
  <2>7. Follows(Line, <<>>, <<>>, <<>>, <<>>, sock[c].srv)
    BY DEF Follows
  <2>. QED  BY <2>1, <2>2, <2>3, <2>5, <2>6, <2>7 DEF Listens
<1>. QED  BY <1>1, <1>3, <1>4, <1>5, <1>6, <1>7 DEF HeardInv, Shape

(* A listener that a step does not reach. *)
LEMMA StillListens ==
    ASSUME NEW c \in Listeners, Listens(c), told'[c].events = told[c].events,
           prog'[c].heard = prog[c].heard, prog'[c].buffer = prog[c].buffer,
           sock'[c].down = sock[c].down, sock'[c].srv = sock[c].srv, sock'[c].up = sock[c].up,
           daemon'.cmd.fd # c, daemon'.st.repeat.fd # c,
           c \in Range(daemon'.clis) => sock'[c].srv
    PROVE  Listens(c)'
  BY DEF Listens

LEMMA InvFrom ==
    ASSUME scene' = scene, Shape', \A c \in Listeners : Listens(c)'
    PROVE  HeardInv'
  BY DEF HeardInv, Listeners, Kind

LEMMA ReadsKeeps ==
    ASSUME HeardInv, NEW fd \in Clients, LircdReads(fd)
    PROVE  HeardInv'
<1>. DEFINE E == PieceOf(Words)
            r == Reading(sock[fd].up, scene.packet)
            marks == daemon.marks \ {Min(Slots)}
            cmd == [fd |-> fd, slot |-> Min(Slots), buffer |-> r.buffer]
            socks == [sock EXCEPT ![fd].srv = FALSE, ![fd].up = r.stream]
<1>1. Shape /\ \A c \in Listeners : c \in Clients /\ Listens(c)
  BY DEF HeardInv, Listeners
<1>2. sock[fd].up \in Seq(E) /\ scene.packet \in Nat
  BY <1>1, RoomType DEF Shape, SockShape
<1>3. /\ r.buffer \in Seq(E) /\ r.stream \in Seq(E)
      /\ sock[fd].up = <<>> => r.buffer = <<>> /\ r.stream = <<>>
  <2>. HIDE DEF E
  <2>. QED  BY <1>2, ReadingType
<1>4. scene' = scene /\ prog' = prog /\ peer' = peer /\ told' = told
  BY DEF LircdReads
<1>5. CASE sock' = socks /\ daemon' = [daemon EXCEPT !.clis = Kept(socks), !.marks = marks]
  <2>1. Kept(socks) \in Seq(Clients) /\ \A c \in Range(Kept(socks)) : socks[c].srv
    BY <1>1, KeptType DEF Shape
  <2>. HIDE DEF r, E, marks
  <2>2. daemon'.clis = Kept(socks) /\ daemon'.cmd = daemon.cmd /\ daemon'.st = daemon.st
    BY <1>1, <1>5 DEF Shape, DaemonShape
  <2>3. Shape'
    BY <1>1, <1>3, <1>4, <1>5, <2>1, Domains DEF Shape, DaemonShape, SockShape, ProgShape, PeerShape, E
  <2>4. ASSUME NEW c \in Listeners PROVE Listens(c)'
    <3>1. c \in Range(daemon'.clis) => sock'[c].srv
      BY <1>5, <2>1, <2>2
    <3>2. CASE c # fd
      <4>1. sock'[c] = sock[c]
        BY <1>1, <1>5, <3>2 DEF Shape, SockShape
      <4>. QED  BY <1>1, <1>4, <2>2, <3>1, <4>1, StillListens DEF Listens
    <3>3. CASE c = fd
      <4>1. sock'[c].down = sock[c].down /\ sock'[c].srv = FALSE /\ sock'[c].up = r.stream
        BY <1>1, <1>5, <3>3, Domains DEF Shape, SockShape
      <4>2. sock'[c].up = <<>>
        BY <1>1, <1>3, <3>3, <4>1 DEF Listens
      <4>3. Follows(Line, told[c].events, prog[c].heard, prog[c].buffer, sock[c].down, FALSE)
        BY <1>1, FollowsGone DEF Listens
      <4>. QED  BY <1>1, <1>4, <2>2, <3>1, <4>1, <4>2, <4>3 DEF Listens
    <3>. QED  BY <3>2, <3>3
  <2>. QED  BY <1>4, <2>3, <2>4, InvFrom
<1>6. CASE /\ r.buffer # <<>>
           /\ sock' = [sock EXCEPT ![fd].up = r.stream]
           /\ daemon' = [daemon EXCEPT !.cmd = cmd, !.marks = marks]
  <2>1. cmd.fd = fd /\ cmd.buffer = r.buffer /\ DOMAIN cmd = DOMAIN NoCommand
    BY Domains
  <2>. HIDE DEF r, E, marks, cmd
  <2>2. daemon'.clis = daemon.clis /\ daemon'.cmd.fd = fd /\ daemon'.st = daemon.st
    BY <1>1, <1>6, <2>1 DEF Shape, DaemonShape
  <2>3. Shape'
    BY <1>1, <1>3, <1>4, <1>6, <2>1, Domains DEF Shape, DaemonShape, SockShape, ProgShape, PeerShape, E
  <2>4. ASSUME NEW c \in Listeners PROVE Listens(c)'
    <3>1. c # fd
      BY <1>1, <1>3, <1>6 DEF Listens
    <3>2. sock'[c] = sock[c]
      BY <1>1, <1>6, <3>1 DEF Shape, SockShape
    <3>. QED  BY <1>1, <1>4, <2>2, <3>1, <3>2, StillListens DEF Listens
  <2>. QED  BY <1>4, <2>3, <2>4, InvFrom
<1>. HIDE DEF r, E
<1>. QED  BY <1>5, <1>6, Zenon DEF LircdReads, r, marks, cmd, socks

LEMMA DiesKeeps ==
    ASSUME HeardInv, LircdDies
    PROVE  HeardInv'
<1>1. Shape /\ \A c \in Listeners : c \in Clients /\ Listens(c)
  BY DEF HeardInv, Listeners
<1>2. scene' = scene /\ prog' = prog /\ peer' = peer /\ told' = told
  BY DEF LircdDies
<1>3. /\ daemon' = [daemon EXCEPT !.up = FALSE, !.clis = <<>>]
      /\ sock' = [c \in Clients |-> [sock[c] EXCEPT !.srv = FALSE, !.up = <<>>]]
  BY DEF LircdDies
<1>4. daemon'.clis = <<>> /\ daemon'.cmd = daemon.cmd /\ daemon'.st = daemon.st
  BY <1>1, <1>3 DEF Shape, DaemonShape
<1>5. Shape'
  <2>1. SockShape'
    <3>1. ASSUME NEW c \in Clients PROVE DOMAIN sock'[c] = DOMAIN Closed /\ sock'[c].up = <<>>
      BY <1>1, <1>3, Domains DEF Shape, SockShape
    <3>2. <<>> \in Seq(PieceOf(Words))
      OBVIOUS
    <3>3. DOMAIN sock' = Clients
      BY <1>3, Zenon
    <3>. QED  BY <3>1, <3>2, <3>3, Zenon DEF SockShape
  <2>2. DaemonShape'
    <3>1. DOMAIN daemon' = DOMAIN daemon /\ daemon'.left = daemon.left
      BY <1>1, <1>3 DEF Shape, DaemonShape
    <3>2. <<>> \in Seq(Clients)
      OBVIOUS
    <3>. QED  BY ONLY <1>1, <1>4, <3>1, <3>2, Zenon DEF Shape, DaemonShape
  <2>. QED  BY <1>1, <1>2, <2>1, <2>2 DEF Shape, ProgShape, PeerShape
<1>6. ASSUME NEW c \in Listeners PROVE Listens(c)'
  <2>1. sock'[c].down = sock[c].down /\ sock'[c].srv = FALSE /\ sock'[c].up = <<>>
    BY <1>1, <1>3, Domains DEF Shape, SockShape
  <2>2. Follows(Line, told[c].events, prog[c].heard, prog[c].buffer, sock[c].down, FALSE)
    BY <1>1, FollowsGone DEF Listens
  <2>3. c \notin Range(daemon'.clis)
    BY <1>4 DEF Range
  <2>. QED  BY <1>1, <1>2, <1>4, <2>1, <2>2, <2>3 DEF Listens
<1>. QED  BY <1>2, <1>5, <1>6, InvFrom

(* The sockets and what is told change by a broadcast and an answer. *)
Reached(c, fd, lines, cast, B) ==
    /\ told'[c].events = Told(fd, lines, cast, B)[c].events
    /\ sock'[c].down = Sent(fd, lines, cast, B)[c].down /\ sock'[c].up = Sent(fd, lines, cast, B)[c].up
    /\ sock'[c].srv => Sent(fd, lines, cast, B)[c].srv
    /\ daemon'.cmd.fd # c /\ daemon'.st.repeat.fd # c
    /\ c \in Range(daemon'.clis) => sock'[c].srv

LEMMA BroadcastInv ==
    ASSUME HeardInv, scene' = scene, prog' = prog, Shape',
           NEW fd, fd \notin Listeners, NEW lines, NEW cast \in Seq(Line), NEW B, B \subseteq Range(daemon.clis),
           \A c \in Listeners : Reached(c, fd, lines, cast, B)
    PROVE  HeardInv'
<1>1. ASSUME NEW c \in Listeners PROVE Listens(c)'
  <2>1. Shape /\ Listens(c)
    BY DEF HeardInv
  <2>2. c \in B => sock[c].srv
    BY <2>1 DEF Listens
  <2>3. Hears(c, fd, lines, cast, B)
    BY <2>1, <2>2, Broadcasts
  <2>. QED  BY <2>3, FollowsLess DEF Hears, Listens, Reached
<1>. QED  BY <1>1, InvFrom

LEMMA ReceivesKeeps ==
    ASSUME HeardInv, LircdReceives
    PROVE  HeardInv'
<1>. DEFINE event == <<Head(daemon.left)>>
            B == Range(daemon.clis)
            socks == Sent(None, <<>>, event, B)
<1>1. Shape /\ \A c \in Listeners : c \in Clients /\ Listens(c)
  BY DEF HeardInv, Listeners
<1>2. scene' = scene /\ prog' = prog /\ peer' = peer
  BY DEF LircdReceives
<1>3. /\ daemon.left # <<>> /\ daemon.left \in Seq(Line)
      /\ sock' = socks
      /\ daemon' = [daemon EXCEPT !.left = Tail(@), !.clis = Kept(socks), !.st = decoded(Head(daemon.left), @)]
      /\ told' = Told(None, <<>>, event, B)
  BY <1>1 DEF LircdReceives, Shape, DaemonShape
<1>4. event \in Seq(Line) /\ Tail(daemon.left) \in Seq(Line)
  BY <1>3
<1>5. /\ DOMAIN socks = Clients
      /\ \A c \in Clients : DOMAIN socks[c] = DOMAIN Closed /\ socks[c].up = sock[c].up
  BY <1>1, SentKeeps
<1>6. Kept(socks) \in Seq(Clients) /\ \A c \in Range(Kept(socks)) : socks[c].srv
  BY <1>1, KeptType DEF Shape
<1>. DEFINE st == decoded(Head(daemon.left), daemon.st)
<1>12. StateOf(st) /\ st.repeat.fd = daemon.st.repeat.fd
  <2>1. StateOf(daemon.st)
    BY <1>1, Domains DEF Shape, DaemonShape, StateOf
  <2>. QED  BY <2>1, DecodedEffect
<1>. HIDE DEF event, socks, st
<1>7. daemon'.clis = Kept(socks) /\ daemon'.cmd = daemon.cmd /\ daemon'.st = st
  BY <1>1, <1>3 DEF Shape, DaemonShape, st
<1>8. Shape'
  <2>1. SockShape'
    BY <1>1, <1>3, <1>5 DEF Shape, SockShape
  <2>2. DaemonShape'
    BY <1>1, <1>3, <1>4, <1>6, <1>7, <1>12, Domains DEF Shape, DaemonShape, StateOf
  <2>. QED  BY <1>1, <1>2, <2>1, <2>2 DEF Shape, ProgShape, PeerShape
<1>9. ASSUME NEW c \in Listeners
      PROVE  Reached(c, None, <<>>, event, B)
  BY <1>1, <1>3, <1>6, <1>7, <1>12 DEF Listens, socks, Reached
<1>10. None \notin Listeners
  BY NetworkAssumption DEF Listeners
<1>. HIDE DEF B
<1>11. B \subseteq Range(daemon.clis)
  BY DEF B
<1>. QED  BY ONLY HeardInv, <1>2, <1>4, <1>8, <1>9, <1>10, <1>11, BroadcastInv, Zenon

LEMMA HupsKeeps ==
    ASSUME HeardInv, LircdHups
    PROVE  HeardInv'
<1>. DEFINE package == << <<"BEGIN">>, <<"SIGHUP">>, <<"END">> >>
            B == Range(daemon.clis)
            socks == Sent(None, <<>>, package, B)
<1>1. Shape /\ \A c \in Listeners : c \in Clients /\ Listens(c)
  BY DEF HeardInv, Listeners
<1>2. /\ scene' = scene /\ prog' = prog
      /\ peer' = peer \/ peer' = [peer EXCEPT !.wait = 0, !.failure = 0]
  BY DEF LircdHups
<1>3. /\ sock' = socks /\ daemon' = [daemon EXCEPT !.hups = @ - 1, !.clis = Kept(socks)]
      /\ told' = Told(None, <<>>, package, B)
  BY DEF LircdHups
<1>4. package \in Seq(Line)
  <2>1. \A w \in STRING : w # "fragment" => <<w>> \in Seq(STRING) /\ <<w>> # <<"fragment">>
    OBVIOUS
  <2>2. \A w \in STRING : w # "fragment" => <<w>> \in Line
    BY <2>1 DEF Line, Words, Fragment
  <2>3. "BEGIN" # "fragment" /\ "SIGHUP" # "fragment" /\ "END" # "fragment"
    OBVIOUS
  <2>5. "BEGIN" \in STRING /\ "SIGHUP" \in STRING /\ "END" \in STRING
    BY CallsAssumption DEF AnswerWords
  <2>4. <<"BEGIN">> \in Line /\ <<"SIGHUP">> \in Line /\ <<"END">> \in Line
    BY <2>2, <2>3, <2>5, Zenon
  <2>. QED  BY <2>4
<1>5. /\ DOMAIN socks = Clients
      /\ \A c \in Clients : DOMAIN socks[c] = DOMAIN Closed /\ socks[c].up = sock[c].up
  BY <1>1, SentKeeps
<1>6. Kept(socks) \in Seq(Clients) /\ \A c \in Range(Kept(socks)) : socks[c].srv
  BY <1>1, KeptType DEF Shape
<1>. HIDE DEF package, socks
<1>7. daemon'.clis = Kept(socks) /\ daemon'.cmd = daemon.cmd /\ daemon'.st = daemon.st
  BY <1>1, <1>3 DEF Shape, DaemonShape
<1>8. Shape'
  <2>1. SockShape'
    BY <1>1, <1>3, <1>5 DEF Shape, SockShape
  <2>2. DaemonShape'
    BY <1>1, <1>3, <1>6 DEF Shape, DaemonShape
  <2>3. PeerShape'
    BY <1>1, <1>2 DEF Shape, PeerShape
  <2>. QED  BY <1>1, <1>2, <2>1, <2>2, <2>3 DEF Shape, ProgShape
<1>9. ASSUME NEW c \in Listeners
      PROVE  Reached(c, None, <<>>, package, B)
  BY <1>1, <1>3, <1>6, <1>7 DEF Listens, socks, Reached
<1>10. None \notin Listeners
  BY NetworkAssumption DEF Listeners
<1>. HIDE DEF B
<1>11. B \subseteq Range(daemon.clis)
  BY DEF B
<1>. QED  BY ONLY HeardInv, <1>2, <1>4, <1>8, <1>9, <1>10, <1>11, BroadcastInv, Zenon

LEMMA SendingsType == Sendings \subseteq BOOLEAN
  BY DEF Sendings

LEMMA RepeatsKeeps ==
    ASSUME HeardInv, LircdRepeats
    PROVE  HeardInv'
<1>0. PICK sent \in BOOLEAN :
         LET do == repeated(sent, daemon.st)
             socks == Sent(daemon.st.repeat.fd, do.out, <<>>, {})
         IN /\ sock' = [c \in Clients |-> [socks[c] EXCEPT !.srv = sock[c].srv]]
            /\ told' = Told(daemon.st.repeat.fd, do.out, <<>>, {})
            /\ daemon' = [daemon EXCEPT !.st = do.st]
  BY SendingsType, Zenon DEF LircdRepeats
<1>. DEFINE do == repeated(sent, daemon.st)
            fd == daemon.st.repeat.fd
            socks == Sent(fd, do.out, <<>>, {})
<1>1. Shape /\ \A c \in Listeners : c \in Clients /\ Listens(c)
  BY DEF HeardInv, Listeners
<1>2. scene' = scene /\ prog' = prog /\ peer' = peer
  BY DEF LircdRepeats
<1>3. /\ sock' = [c \in Clients |-> [socks[c] EXCEPT !.srv = sock[c].srv]]
      /\ told' = Told(fd, do.out, <<>>, {})
      /\ daemon' = [daemon EXCEPT !.st = do.st]
  BY <1>0
<1>4. StateOf(do.st) /\ do.st.repeat.fd \in {None, fd}
  <2>1. StateOf(daemon.st)
    BY <1>1, Domains DEF Shape, DaemonShape, StateOf
  <2>. QED  BY <2>1, RepeatedEffect
<1>5. /\ DOMAIN socks = Clients
      /\ \A c \in Clients : DOMAIN socks[c] = DOMAIN Closed /\ socks[c].up = sock[c].up
  BY <1>1, SentKeeps
<1>6. \A c \in Listeners : socks[c] = sock[c] /\ Told(fd, do.out, <<>>, {})[c].events = told[c].events \o <<>>
  BY <1>1 DEF Sent, Told, Listens
<1>. HIDE DEF do, socks
<1>7. daemon'.clis = daemon.clis /\ daemon'.cmd = daemon.cmd /\ daemon'.st = do.st
  BY <1>1, <1>3 DEF Shape, DaemonShape
<1>8. Shape'
  <2>1. SockShape'
    BY <1>1, <1>3, <1>5, Domains DEF Shape, SockShape
  <2>2. DaemonShape'
    BY <1>1, <1>3, <1>4, Domains DEF Shape, DaemonShape, StateOf
  <2>. QED  BY <1>1, <1>2, <2>1, <2>2 DEF Shape, ProgShape, PeerShape
<1>9. ASSUME NEW c \in Listeners PROVE Listens(c)'
  <2>1. c # None /\ c # fd /\ Listens(c) /\ c \in Clients
    BY <1>1, NetworkAssumption DEF Listens
  <2>2. told'[c].events = told[c].events
    <3>1. told[c].events \in Seq(Line)
      BY <2>1 DEF Listens, Follows
    <3>. QED  BY <1>3, <1>6, <3>1
  <2>3. sock'[c].down = sock[c].down /\ sock'[c].srv = sock[c].srv /\ sock'[c].up = sock[c].up
    BY <1>1, <1>3, <1>6, <2>1, Domains DEF Shape, SockShape
  <2>4. daemon'.cmd.fd # c /\ daemon'.st.repeat.fd # c /\ (c \in Range(daemon'.clis) => sock'[c].srv)
    BY <1>4, <1>7, <2>1, <2>3 DEF Listens
  <2>. QED  BY ONLY <1>2, <2>1, <2>2, <2>3, <2>4, c \in Listeners, StillListens
<1>. QED  BY <1>2, <1>8, <1>9, InvFrom

(* What LircdExecutes does, for a directive that has done do and after     *)
(* which the clients in gone are removed.                                  *)
Executed(do, gone) ==
    LET fd == daemon.cmd.fd
        B == Range(daemon.clis)
        socks == Sent(fd, do.out, do.cast, B)
        next == NextPacket(daemon.cmd.buffer, socks[fd].up, scene.packet)
        goesOn == socks[fd].srv /\ next.ok /\ next.buffer # <<>> /\ ~BadPacket(next.buffer)
    IN /\ sock' = [e \in Clients |-> [socks[e] EXCEPT !.srv = @ /\ e \notin gone,
                                          !.up = IF e = fd /\ socks[fd].srv THEN next.stream ELSE @]]
       /\ daemon' = [daemon EXCEPT !.st = do.st, !.clis = Kept(sock'),
                       !.cmd = IF goesOn THEN [daemon.cmd EXCEPT !.buffer = next.buffer] ELSE NoCommand]
       /\ told' = [Told(fd, do.out, do.cast, B) EXCEPT ![fd].lines = Append(@, Text(daemon.cmd.buffer))]
       /\ gone = {} \/ (fd \in gone /\ ~goesOn)
       /\ gone = {} <=> socks[fd].srv /\ next.ok /\ ~(next.buffer # <<>> /\ BadPacket(next.buffer))
       /\ gone = {} \/ gone = {fd} \cup Failing(Kept(Sent(None, <<>>, do.cast, B)), daemon.cmd.slot)

LEMMA ExecutedIs ==
    ASSUME HeardInv, LircdExecutes
    PROVE  \E sent \in BOOLEAN : \E gone :
              Executed(Directive(daemon.cmd.fd, Text(daemon.cmd.buffer), sent, daemon.st), gone)
<1>. DEFINE fd == daemon.cmd.fd
            buffer == daemon.cmd.buffer
            B == Range(daemon.clis)
            Step(do, socks, next) ==
               LET kept == socks[fd].srv /\ next.ok
                   more == kept /\ next.buffer # <<>>
                   stays == kept /\ ~(more /\ BadPacket(next.buffer))
                   gone == IF stays THEN {} ELSE {fd} \cup Failing(Kept(Sent(None, <<>>, do.cast, B)), daemon.cmd.slot)
               IN /\ sock' = [e \in Clients |->
                                [socks[e] EXCEPT !.srv = @ /\ e \notin gone,
                                                 !.up = IF e = fd /\ socks[fd].srv THEN next.stream ELSE @]]
                  /\ daemon' = [daemon EXCEPT !.st = do.st, !.clis = Kept(sock'),
                                    !.cmd = IF more /\ stays THEN [@ EXCEPT !.buffer = next.buffer] ELSE NoCommand]
                  /\ told' = [Told(fd, do.out, do.cast, B) EXCEPT ![fd].lines = Append(@, Text(buffer))]
<1>1. \E sent \in Sendings :
      \E do \in {Directive(fd, Text(buffer), sent, daemon.st)} :
      \E socks \in {Sent(fd, do.out, do.cast, B)} :
      \E next \in {NextPacket(buffer, socks[fd].up, scene.packet)} : Step(do, socks, next)
  BY DEF LircdExecutes
<1>. HIDE DEF Step
<1>2. PICK sent \in BOOLEAN :
         LET do == Directive(fd, Text(buffer), sent, daemon.st)
             socks == Sent(fd, do.out, do.cast, B)
         IN Step(do, socks, NextPacket(buffer, socks[fd].up, scene.packet))
  BY <1>1, SendingsType, Zenon
<1>. DEFINE do == Directive(fd, Text(buffer), sent, daemon.st)
            socks == Sent(fd, do.out, do.cast, B)
            next == NextPacket(buffer, socks[fd].up, scene.packet)
            kept == socks[fd].srv /\ next.ok
            more == kept /\ next.buffer # <<>>
            stays == kept /\ ~(more /\ BadPacket(next.buffer))
            them == {fd} \cup Failing(Kept(Sent(None, <<>>, do.cast, B)), daemon.cmd.slot)
            gone == IF stays THEN {} ELSE them
            goesOn == socks[fd].srv /\ next.ok /\ next.buffer # <<>> /\ ~BadPacket(next.buffer)
<1>3. Step(do, socks, next)
  BY <1>2, Zenon
<1>4. (more /\ stays) <=> goesOn
  OBVIOUS
<1>5. gone = {} <=> socks[fd].srv /\ next.ok /\ ~(next.buffer # <<>> /\ BadPacket(next.buffer))
  OBVIOUS
<1>6. (gone = {} \/ gone = them) /\ (gone = {} \/ (fd \in gone /\ ~goesOn))
  BY <1>4, <1>5
<1>7. DOMAIN daemon = {"st", "up", "cmd", "left", "clis", "type", "marks", "hups"}
  BY DEF HeardInv, Shape, DaemonShape
<1>. DEFINE one == [daemon.cmd EXCEPT !.buffer = next.buffer]
<1>8. /\ sock' = [e \in Clients |-> [socks[e] EXCEPT !.srv = @ /\ e \notin gone,
                                          !.up = IF e = fd /\ socks[fd].srv THEN next.stream ELSE @]]
      /\ daemon' = [daemon EXCEPT !.st = do.st, !.clis = Kept(sock'),
                       !.cmd = IF more /\ stays THEN [@ EXCEPT !.buffer = next.buffer] ELSE NoCommand]
      /\ told' = [Told(fd, do.out, do.cast, B) EXCEPT ![fd].lines = Append(@, Text(buffer))]
  <2>. HIDE DEF do, socks, next
  <2>. QED  BY <1>3 DEF Step
<1>. HIDE DEF do, socks, next, kept, more, stays, them, gone, goesOn
<1>9. daemon' = [daemon EXCEPT !.st = do.st, !.clis = Kept(sock'), !.cmd = IF goesOn THEN one ELSE NoCommand]
  BY <1>4, <1>7, <1>8
<1>10. Executed(do, gone)
  BY <1>5, <1>6, <1>8, <1>9, Zenon DEF Executed, socks, next, goesOn, them
<1>. QED  BY <1>10, Zenon DEF do

LEMMA ExecutesKeeps ==
    ASSUME HeardInv, LircdExecutes
    PROVE  HeardInv'
<1>18. PICK sent \in BOOLEAN :
          \E gone : Executed(Directive(daemon.cmd.fd, Text(daemon.cmd.buffer), sent, daemon.st), gone)
  BY ExecutedIs
<1>0. PICK gone : Executed(Directive(daemon.cmd.fd, Text(daemon.cmd.buffer), sent, daemon.st), gone)
  BY <1>18
<1>. DEFINE E == PieceOf(Words)
            fd == daemon.cmd.fd
            buffer == daemon.cmd.buffer
            do == Directive(fd, Text(buffer), sent, daemon.st)
            B == Range(daemon.clis)
            socks == Sent(fd, do.out, do.cast, B)
            next == NextPacket(buffer, socks[fd].up, scene.packet)
            ends == Told(fd, do.out, do.cast, B)
<1>1. Shape /\ \A c \in Listeners : c \in Clients /\ Listens(c)
  BY DEF HeardInv, Listeners
<1>2. scene' = scene /\ prog' = prog /\ peer' = peer /\ fd # None
  BY DEF LircdExecutes
<1>3. fd \in Clients /\ buffer \in Seq(E) /\ scene.packet \in Nat
  BY <1>1, <1>2, RoomType DEF Shape, DaemonShape
<1>4. do.cast \in Seq(Line) /\ StateOf(do.st) /\ do.st.repeat.fd \in {fd, daemon.st.repeat.fd}
  <2>1. StateOf(daemon.st)
    BY <1>1, Domains DEF Shape, DaemonShape, StateOf
  <2>2. Text(buffer) \in Words
    BY <1>3, TextType
  <2>3. Effect(fd, daemon.st, do)
    BY <2>1, <2>2, DirectiveEffect
  <2>. QED  BY <2>3 DEF Effect
<1>. HIDE DEF do
<1>5. /\ DOMAIN socks = Clients
      /\ \A c \in Clients : DOMAIN socks[c] = DOMAIN Closed /\ socks[c].up = sock[c].up
  BY <1>1, SentKeeps
<1>6. sock[fd].up \in Seq(E) /\ socks[fd].up \in Seq(E)
  BY <1>1, <1>3, <1>5 DEF Shape, SockShape
<1>7. next.buffer \in Seq(E) /\ next.stream \in Seq(E)
  BY <1>3, <1>6, NextPacketType
<1>. DEFINE one == [daemon.cmd EXCEPT !.buffer = next.buffer]
            goesOn == socks[fd].srv /\ next.ok /\ next.buffer # <<>> /\ ~BadPacket(next.buffer)
            up(e) == IF e = fd /\ socks[fd].srv THEN next.stream ELSE socks[e].up
<1>8. /\ sock' = [e \in Clients |-> [socks[e] EXCEPT !.srv = @ /\ e \notin gone, !.up = up(e)]]
      /\ daemon' = [daemon EXCEPT !.st = do.st, !.clis = Kept(sock'), !.cmd = IF goesOn THEN one ELSE NoCommand]
      /\ told' = [ends EXCEPT ![fd].lines = Append(@, Text(buffer))]
  BY <1>0, <1>5, Domains DEF Executed, do
<1>15. /\ one.fd = fd /\ one.buffer = next.buffer /\ DOMAIN one = DOMAIN NoCommand
       /\ NoCommand.fd = None /\ NoCommand.buffer = <<>>
  <2>1. DOMAIN daemon.cmd = DOMAIN NoCommand
    BY <1>1 DEF Shape, DaemonShape
  <2>. HIDE DEF next
  <2>. QED  BY <2>1, Domains DEF NoCommand
<1>9. Kept(sock') \in Seq(Clients) /\ \A c \in Range(Kept(sock')) : sock'[c].srv
  BY <1>1, KeptType DEF Shape
<1>16. \A c \in Clients : /\ DOMAIN sock'[c] = DOMAIN Closed /\ sock'[c].down = socks[c].down
                          /\ sock'[c].up = up(c) /\ (sock'[c].srv => socks[c].srv)
  <2>. HIDE DEF socks, up
  <2>. QED  BY <1>5, <1>8, Domains
<1>17. up(fd) \in Seq(E) /\ \A c \in Clients \ {fd} : up(c) = socks[c].up
  BY <1>6, <1>7
<1>. HIDE DEF socks, next, E, ends, one, goesOn, up
<1>10. daemon'.clis = Kept(sock') /\ daemon'.cmd \in {one, NoCommand} /\ daemon'.st = do.st
  BY <1>1, <1>8 DEF Shape, DaemonShape
<1>11. Shape'
  <2>1. SockShape'
    <3>1. ASSUME NEW c \in Clients PROVE DOMAIN sock'[c] = DOMAIN Closed /\ sock'[c].up \in Seq(E)
      <4>1. CASE c = fd
        BY <1>16, <1>17, <4>1
      <4>2. CASE c # fd
        BY <1>1, <1>5, <1>16, <1>17, <4>2 DEF Shape, SockShape, E
      <4>. QED  BY <4>1, <4>2
    <3>2. DOMAIN sock' = Clients
      BY <1>8
    <3>. QED  BY <3>1, <3>2 DEF SockShape, E
  <2>2. DaemonShape'
    <3>1. daemon'.cmd.fd # None => daemon'.cmd.fd \in Clients /\ daemon'.cmd.buffer \in Seq(E)
      BY <1>3, <1>7, <1>10, <1>15
    <3>2. DOMAIN daemon'.cmd = DOMAIN NoCommand
      BY <1>10, <1>15
    <3>3. daemon'.left = daemon.left /\ DOMAIN daemon' = DOMAIN daemon
      BY <1>1, <1>8 DEF Shape, DaemonShape
    <3>. QED  BY <1>1, <1>4, <1>9, <1>10, <3>1, <3>2, <3>3, Domains DEF Shape, DaemonShape, StateOf, E
  <2>. QED  BY <1>1, <1>2, <2>1, <2>2 DEF Shape, ProgShape, PeerShape
<1>12. ASSUME NEW c \in Listeners
       PROVE  Reached(c, fd, do.out, do.cast, B)
  <2>1. c \in Clients /\ c # fd /\ c # daemon.st.repeat.fd /\ c # None
    BY <1>1, NetworkAssumption DEF Listens
  <2>2. DOMAIN ends = Clients
    BY DEF ends, Told
  <2>3. told'[c].events = ends[c].events
    BY <1>8, <2>1, <2>2
  <2>4. sock'[c].down = socks[c].down /\ sock'[c].up = socks[c].up /\ (sock'[c].srv => socks[c].srv)
    BY <1>16, <1>17, <2>1
  <2>5. daemon'.cmd.fd # c /\ daemon'.st.repeat.fd # c /\ (c \in Range(daemon'.clis) => sock'[c].srv)
    BY <1>4, <1>9, <1>10, <1>15, <2>1
  <2>. QED  BY <2>3, <2>4, <2>5 DEF Reached, ends, socks
<1>13. fd \notin Listeners
  BY <1>1 DEF Listens
<1>14. B \subseteq Range(daemon.clis)
  OBVIOUS
<1>. HIDE DEF B, fd
<1>. QED  BY ONLY HeardInv, <1>2, <1>4, <1>11, <1>12, <1>13, <1>14, BroadcastInv, Zenon

-----------------------------------------------------------------------------
(* The invariant: the other lircd *)

LEMMA PiecesType ==
    ASSUME NEW L, NEW line \in L
    PROVE  Pieces(line) \in Seq(PieceOf(L))
  BY DEF Pieces, Piece, PieceOf

(* No event is told. *)
ToldSame == \A c \in Clients : /\ told'[c].events = told[c].events
                              /\ told'[c].answers = told[c].answers /\ told'[c].lines = told[c].lines

LEMMA PeerOnly ==
    ASSUME HeardInv, UNCHANGED <<scene, daemon, sock, prog>>, ToldSame, PeerShape'
    PROVE  HeardInv'
<1>1. Shape'
  BY DEF HeardInv, Shape, DaemonShape, SockShape, ProgShape
<1>2. \A c \in Listeners : Listens(c)'
  BY DEF HeardInv, Listens, Listeners, ToldSame
<1>. QED  BY <1>1, <1>2, InvFrom

LEMMA PeerKeeps ==
    ASSUME HeardInv, PeerConnects \/ PeerWaits \/ PeerSays \/ PeerEnds
    PROVE  HeardInv'
<1>1. PeerShape
  BY DEF HeardInv, Shape
<1>2. UNCHANGED <<scene, daemon, sock, prog>> /\ ToldSame
  BY DEF PeerConnects, PeerWaits, PeerSays, PeerEnds, ToldSame
<1>3. CASE PeerConnects
  <2>1. /\ DOMAIN peer' = DOMAIN peer /\ peer'.stream \in {peer.stream, <<>>}
        /\ peer'.left = peer.left /\ peer'.last = peer.last
    BY <1>1, <1>3 DEF PeerConnects, PeerShape
  <2>2. peer'.stream \in Seq(PieceOf(Line))
    <3>1. <<>> \in Seq(PieceOf(Line)) /\ peer.stream \in Seq(PieceOf(Line))
      BY <1>1 DEF PeerShape
    <3>. QED  BY <2>1, <3>1
  <2>3. PeerShape'
    BY ONLY <1>1, <2>1, <2>2, Zenon DEF PeerShape
  <2>. QED  BY <1>2, <2>3, PeerOnly
<1>4. CASE PeerWaits
  <2>1. PeerShape'
    BY <1>1, <1>4 DEF PeerWaits, PeerShape
  <2>. QED  BY <1>2, <2>1, PeerOnly
<1>5. CASE PeerSays
  <2>1. peer.left # <<>> /\ Head(peer.left) \in Line /\ Tail(peer.left) \in Seq(Line)
    BY <1>1, <1>5 DEF PeerSays, PeerShape
  <2>2. Pieces(Head(peer.left)) \in Seq(PieceOf(Line))
    BY <2>1, PiecesType
  <2>3. peer.stream \in Seq(PieceOf(Line)) /\ peer.stream \o Pieces(Head(peer.left)) \in Seq(PieceOf(Line))
    BY <1>1, <2>2 DEF PeerShape
  <2>. DEFINE stream == IF peer.socket = "up" /\ peer.end = None THEN peer.stream \o Pieces(Head(peer.left)) ELSE peer.stream
  <2>4. stream \in Seq(PieceOf(Line))
    BY <2>3
  <2>5. peer' = [peer EXCEPT !.left = Tail(@), !.stream = stream]
    BY <1>5, Zenon DEF PeerSays
  <2>. HIDE DEF stream
  <2>6. PeerShape'
    BY <1>1, <2>1, <2>4, <2>5 DEF PeerShape
  <2>. QED  BY <1>2, <2>6, PeerOnly
<1>6. CASE PeerEnds
  <2>1. PeerShape'
    BY <1>1, <1>6 DEF PeerEnds, PeerShape
  <2>. QED  BY <1>2, <2>1, PeerOnly
<1>. QED  BY <1>3, <1>4, <1>5, <1>6

LEMMA PeerReadsKeeps ==
    ASSUME HeardInv, PeerReads
    PROVE  HeardInv'
<1>1. Shape /\ \A c \in Listeners : c \in Clients /\ Listens(c)
  BY DEF HeardInv, Listeners
<1>2. scene' = scene /\ prog' = prog
  BY DEF PeerReads
<1>3. PICK chunk \in PeerChunks :
        LET m == get_peer_message(chunk)
            socks == Sent(None, <<>>, m.lines, Local)
            last == IF peer.stream # <<>> THEN chunk ELSE peer.last
        IN IF m.ok
           THEN /\ sock' = socks
                /\ told' = Told(None, <<>>, m.lines, Local)
                /\ daemon' = [daemon EXCEPT !.clis = Kept(socks)]
                /\ peer' = IF peer.stream # <<>> THEN [peer EXCEPT !.stream = From(@, Len(chunk) + 1), !.last = last]
                           ELSE [peer EXCEPT !.end = "EOF"]
           ELSE /\ peer' = [peer EXCEPT !.socket = "down", !.failure = 1, !.wait = 1, !.stream = <<>>,
                                        !.end = None, !.last = last]
                /\ UNCHANGED <<sock, told, daemon>>
  BY DEF PeerReads
<1>. DEFINE m == get_peer_message(chunk)
            socks == Sent(None, <<>>, m.lines, Local)
            last == IF peer.stream # <<>> THEN chunk ELSE peer.last
            E == PieceOf(Line)
<1>4. /\ peer.stream \in Seq(E) /\ peer.last \in Seq(E) /\ peer.left \in Seq(Line) /\ <<>> \in Seq(E)
      /\ DOMAIN peer = {"socket", "failure", "wait", "stream", "left", "end", "last", "breaks"}
  BY <1>1 DEF Shape, PeerShape
<1>5. /\ chunk \in Seq(E) /\ last \in Seq(E)
      /\ peer.stream # <<>> => From(peer.stream, Len(chunk) + 1) \in Seq(E)
  <2>. HIDE DEF E
  <2>1. CASE peer.stream # <<>>
    <3>1. PICK n \in 1..Len(peer.stream) : chunk = First(peer.stream, n)
      BY <2>1 DEF PeerChunks
    <3>2. n \in Int /\ n <= Len(peer.stream) /\ ~(n < 0) /\ n + 1 \in 1..(Len(peer.stream) + 1)
      BY <1>4
    <3>3. chunk \in Seq(E) /\ Len(chunk) = n
      BY <1>4, <3>1, <3>2, FirstType
    <3>4. From(peer.stream, n + 1) \in Seq(E)
      BY <1>4, <3>2, FromType
    <3>. QED  BY <2>1, <3>3, <3>4
  <2>2. CASE peer.stream = <<>>
    <3>1. chunk \in {<<>>, peer.last}
      BY <2>2 DEF PeerChunks
    <3>. QED  BY <1>4, <2>2, <3>1
  <2>. QED  BY <2>1, <2>2
<1>6. m.ok => m.lines \in Seq(Line)
  <2>1. m.ok => IsNewline(Last(chunk)) /\ m.lines = LinesOf(chunk)
    BY DEF get_peer_message
  <2>. QED  BY <1>5, <2>1, PeerLines
<1>7. CASE m.ok
  <2>1. /\ sock' = socks /\ told' = Told(None, <<>>, m.lines, Local)
        /\ daemon' = [daemon EXCEPT !.clis = Kept(socks)]
        /\ peer' = IF peer.stream # <<>> THEN [peer EXCEPT !.stream = From(@, Len(chunk) + 1), !.last = last]
                   ELSE [peer EXCEPT !.end = "EOF"]
    BY <1>3, <1>7, Zenon
  <2>. HIDE DEF m
  <2>2. /\ DOMAIN socks = Clients
        /\ \A c \in Clients : DOMAIN socks[c] = DOMAIN Closed /\ socks[c].up = sock[c].up
    BY <1>1, SentKeeps
  <2>3. Kept(socks) \in Seq(Clients) /\ \A c \in Range(Kept(socks)) : socks[c].srv
    BY <1>1, KeptType DEF Shape
  <2>. HIDE DEF socks, E, last
  <2>4. daemon'.clis = Kept(socks) /\ daemon'.cmd = daemon.cmd /\ daemon'.st = daemon.st
    BY <1>1, <2>1 DEF Shape, DaemonShape
  <2>5. Shape'
    <3>1. SockShape'
      BY <1>1, <2>1, <2>2 DEF Shape, SockShape
    <3>2. DaemonShape'
      BY <1>1, <2>1, <2>3 DEF Shape, DaemonShape
    <3>3. PeerShape'
      BY <1>4, <1>5, <2>1 DEF PeerShape, E
    <3>. QED  BY <1>1, <1>2, <3>1, <3>2, <3>3 DEF Shape, ProgShape
  <2>6. ASSUME NEW c \in Listeners
        PROVE  Reached(c, None, <<>>, m.lines, Local)
    BY <1>1, <2>1, <2>3, <2>4 DEF Listens, socks, Reached
  <2>7. None \notin Listeners /\ Local \subseteq Range(daemon.clis)
    BY NetworkAssumption DEF Listeners, Local, Range
  <2>8. m.lines \in Seq(Line)
    BY <1>6, <1>7
  <2>. QED  BY ONLY HeardInv, <1>2, <2>5, <2>6, <2>7, <2>8, BroadcastInv, Zenon
<1>8. CASE ~m.ok
  <2>1. /\ peer' = [peer EXCEPT !.socket = "down", !.failure = 1, !.wait = 1, !.stream = <<>>,
                                !.end = None, !.last = last]
        /\ UNCHANGED <<sock, told, daemon>>
    BY <1>3, <1>8, Zenon
  <2>. HIDE DEF m, last, E
  <2>2. PeerShape'
    BY <1>4, <1>5, <2>1 DEF PeerShape, E
  <2>. QED  BY <1>2, <2>1, <2>2, PeerOnly DEF ToldSame
<1>. QED  BY <1>7, <1>8

-----------------------------------------------------------------------------
(* The invariant: the programs *)

(* The step of one program. *)
SockOf(c) ==
    /\ DOMAIN sock' = Clients /\ \A e \in Clients \ {c} : sock'[e] = sock[e]
    /\ DOMAIN sock'[c] = DOMAIN Closed /\ sock'[c].up \in Seq(PieceOf(Words))
ProgOf(c) ==
    /\ DOMAIN prog' = Clients /\ \A e \in Clients \ {c} : prog'[e] = prog[e]
    /\ DOMAIN prog'[c] = DOMAIN prog[c] /\ prog'[c].script \in Seq(Words) /\ prog'[c].size \in Nat

(* One that reads no event. *)
Deaf(c) ==
    /\ prog'[c].heard = prog[c].heard /\ prog'[c].buffer = prog[c].buffer
    /\ sock'[c].down = sock[c].down /\ sock'[c].srv = sock[c].srv /\ sock'[c].up = sock[c].up

LEMMA ProgramInv ==
    ASSUME HeardInv, UNCHANGED <<scene, daemon, peer, told>>, NEW c \in Clients, SockOf(c), ProgOf(c),
           c \in Listeners => Listens(c)'
    PROVE  HeardInv'
<1>1. SockShape'
  BY DEF HeardInv, Shape, SockShape, SockOf
<1>2. ProgShape'
  <2>1. \A e : DOMAIN Program(scene', e) = DOMAIN Program(scene, e)
    BY Domains
  <2>. QED  BY <2>1 DEF HeardInv, Shape, ProgShape, ProgOf
<1>3. DaemonShape' /\ PeerShape' /\ scene' \in Scenes
  BY DEF HeardInv, Shape, DaemonShape, PeerShape
<1>4. ASSUME NEW e \in Listeners PROVE Listens(e)'
  <2>1. CASE e = c
    BY <2>1
  <2>2. CASE e # c
    <3>1. sock'[e] = sock[e] /\ prog'[e] = prog[e]
      BY <2>2 DEF SockOf, ProgOf, Listeners
    <3>. QED  BY <3>1 DEF HeardInv, Listens
  <2>. QED  BY <2>1, <2>2
<1>. QED  BY <1>1, <1>2, <1>3, <1>4, InvFrom DEF Shape

LEMMA DeafInv ==
    ASSUME HeardInv, UNCHANGED <<scene, daemon, peer, told>>, NEW c \in Clients, SockOf(c), ProgOf(c), Deaf(c)
    PROVE  HeardInv'
<1>1. c \in Listeners => Listens(c)'
  BY DEF HeardInv, Listens, Deaf
<1>. QED  BY <1>1, ProgramInv

(* The connection stays, or its own end is closed. *)
LEMMA SameSock ==
    ASSUME Shape, NEW c \in Clients, NEW x, sock' = sock \/ sock' = [sock EXCEPT ![c].cli = x]
    PROVE  /\ SockOf(c)
           /\ sock'[c].down = sock[c].down /\ sock'[c].srv = sock[c].srv /\ sock'[c].up = sock[c].up
  BY Domains DEF Shape, SockShape, SockOf

LEMMA SameProg ==
    ASSUME Shape, NEW c \in Clients, NEW p, prog' = [prog EXCEPT ![c] = p],
           DOMAIN p = DOMAIN prog[c], p.script \in Seq(Words), p.size \in Nat
    PROVE  ProgOf(c) /\ prog'[c] = p
  BY DEF Shape, ProgShape, ProgOf

LEMMA SpeakersKeep ==
    ASSUME HeardInv, NEW c \in Clients, Sends(c) \/ Answered(c) \/ Pipes(c)
    PROVE  HeardInv'
<1>. DEFINE E == PieceOf(Words)
<1>1. Shape /\ scene' = scene /\ daemon' = daemon /\ peer' = peer /\ told' = told /\ c \notin Listeners
  BY DEF HeardInv, Sends, Answered, Pipes, Listeners
<1>2. sock[c].up \in Seq(E) /\ prog[c].script \in Seq(Words) /\ prog[c].size \in Nat
  BY <1>1 DEF Shape, SockShape, ProgShape
<1>3. DOMAIN prog[c] = {"pc", "script", "ctx", "buffer", "size", "code", "heard", "out", "returned"}
  BY <1>1, Domains DEF Shape, ProgShape
<1>4. DOMAIN sock[c] = {"up", "down", "srv", "cli"} /\ DOMAIN sock = Clients /\ DOMAIN prog = Clients
  BY <1>1, Domains DEF Shape, SockShape, ProgShape
<1>5. ASSUME NEW s, sock' = [sock EXCEPT ![c] = s], DOMAIN s = DOMAIN sock[c], s.up \in Seq(E)
      PROVE  SockOf(c)
  BY <1>1, <1>4, <1>5, Domains DEF SockOf
<1>6. ASSUME NEW p, prog' = [prog EXCEPT ![c] = p], DOMAIN p = DOMAIN prog[c],
             p.script \in Seq(Words), p.size = prog[c].size
      PROVE  ProgOf(c)
  BY <1>1, <1>2, <1>6, SameProg
<1>7. CASE Sends(c)
  <2>1. CASE prog[c].script = <<>>
    <3>1. ProgOf(c)
      <4>. DEFINE p == [prog[c] EXCEPT !.pc = "exit"]
      <4>1. prog' = [prog EXCEPT ![c] = p]
        BY <1>7, <2>1 DEF Sends
      <4>2. DOMAIN p = DOMAIN prog[c] /\ p.script \in Seq(Words) /\ p.size = prog[c].size
        BY <1>2, <1>3
      <4>. QED  BY ONLY <1>6, <4>1, <4>2, Zenon
    <3>2. SockOf(c)
      <4>. DEFINE s == [sock[c] EXCEPT !.cli = FALSE, !.down = <<>>]
      <4>1. sock' = [sock EXCEPT ![c] = s]
        BY <1>4, <1>7, <2>1 DEF Sends
      <4>2. DOMAIN s = DOMAIN sock[c] /\ s.up \in Seq(E)
        BY <1>2, <1>4
      <4>. QED  BY ONLY <1>5, <4>1, <4>2, Zenon
    <3>. QED  BY <1>1, <3>1, <3>2, ProgramInv
  <2>2. CASE prog[c].script # <<>>
    <3>1. Head(prog[c].script) \in Words /\ Tail(prog[c].script) \in Seq(Words)
      BY <1>2, <2>2
    <3>2. ProgOf(c)
      <4>. DEFINE p == [prog[c] EXCEPT !.pc = Wait, !.script = Tail(@), !.ctx = lirc_command_init(Head(prog[c].script))]
      <4>1. prog' = [prog EXCEPT ![c] = p]
        BY <1>4, <1>7, <2>2 DEF Sends
      <4>2. DOMAIN p = DOMAIN prog[c] /\ p.script \in Seq(Words) /\ p.size = prog[c].size
        BY <1>3, <3>1
      <4>. QED  BY ONLY <1>6, <4>1, <4>2, Zenon
    <3>3. SockOf(c)
      <4>. DEFINE u == IF sock[c].srv THEN sock[c].up \o Pieces(Head(prog[c].script)) ELSE sock[c].up
                  s == [sock[c] EXCEPT !.up = u]
      <4>1. sock' = [sock EXCEPT ![c] = s]
        BY <1>4, <1>7, <2>2 DEF Sends
      <4>2. Pieces(Head(prog[c].script)) \in Seq(E)
        BY <3>1, PiecesType
      <4>. HIDE DEF E
      <4>3. u \in Seq(E)
        BY <1>2, <4>2
      <4>. HIDE DEF u
      <4>4. DOMAIN s = DOMAIN sock[c] /\ s.up \in Seq(E)
        BY <1>4, <4>3
      <4>. QED  BY ONLY <1>5, <4>1, <4>4, Zenon
    <3>. QED  BY <1>1, <3>2, <3>3, ProgramInv
  <2>. QED  BY <2>1, <2>2
<1>8. CASE Answered(c)
  <2>. DEFINE ctx == Stepped(prog[c].ctx, sock[c])
              p1 == [prog[c] EXCEPT !.ctx = ctx]
              p2 == [prog[c] EXCEPT !.ctx = NoCtx, !.returned = Append(@, ctx.result),
                                    !.pc = IF ctx.result = "ok" THEN "call" ELSE "exit"]
              s1 == Drained(prog[c].ctx, sock[c])
              s2 == [sock[c] EXCEPT !.cli = FALSE, !.down = <<>>]
  <2>. HIDE DEF ctx
  <2>1. \E p \in {p1, p2} : prog' = [prog EXCEPT ![c] = p]
    BY <1>4, <1>8 DEF Answered, ctx
  <2>2. \E s \in {s1, s2} : sock' = [sock EXCEPT ![c] = s]
    <3>. HIDE DEF s1
    <3>1. sock' = [sock EXCEPT ![c] = s1] \/ sock' = [sock EXCEPT ![c] = s2]
      BY <1>4, <1>8 DEF Answered, ctx, s1
    <3>. QED  BY <3>1
  <2>3. \A p \in {p1, p2} : DOMAIN p = DOMAIN prog[c] /\ p.script \in Seq(Words) /\ p.size = prog[c].size
    BY <1>2, <1>3
  <2>4. \A s \in {s1, s2} : DOMAIN s = DOMAIN sock[c] /\ s.up \in Seq(E)
    BY <1>2, <1>4 DEF Drained
  <2>. HIDE DEF p1, p2, s1, s2, E
  <2>5. ProgOf(c)
    BY <1>6, <2>1, <2>3, Zenon
  <2>6. SockOf(c)
    BY <1>5, <2>2, <2>4, Zenon
  <2>. QED  BY <1>1, <2>5, <2>6, ProgramInv
<1>9. CASE Pipes(c)
  <2>1. ProgOf(c)
    <3>. DEFINE p == [prog[c] EXCEPT !.pc = "wrote"]
    <3>1. prog' = [prog EXCEPT ![c] = p]
      BY <1>9 DEF Pipes
    <3>2. DOMAIN p = DOMAIN prog[c] /\ p.script \in Seq(Words) /\ p.size = prog[c].size
      BY <1>2, <1>3
    <3>. QED  BY ONLY <1>6, <3>1, <3>2, Zenon
  <2>2. SockOf(c)
    <3>. DEFINE u == sock[c].up \o Written(prog[c].script)
                s == [sock[c] EXCEPT !.up = u]
    <3>1. sock' = [sock EXCEPT ![c] = s]
      BY <1>9 DEF Pipes
    <3>2. Written(prog[c].script) \in Seq(E)
      BY <1>2, WrittenType
    <3>. HIDE DEF E
    <3>3. u \in Seq(E)
      BY <1>2, <3>2
    <3>. HIDE DEF u
    <3>4. DOMAIN s = DOMAIN sock[c] /\ s.up \in Seq(E)
      BY <1>4, <3>3
    <3>. QED  BY ONLY <1>5, <3>1, <3>4, Zenon
  <2>. QED  BY <1>1, <2>1, <2>2, ProgramInv
<1>. QED  BY <1>7, <1>8, <1>9

LEMMA AsksKeep ==
    ASSUME HeardInv, NEW c \in Clients, RcConnects(c) \/ RcLaunches(c) \/ Asks(c) \/ RcAnswered(c)
    PROVE  HeardInv'
<1>1. Shape /\ scene' = scene /\ daemon' = daemon /\ peer' = peer /\ told' = told
  BY DEF HeardInv, RcConnects, RcLaunches, Asks, RcAnswered
<1>2. prog[c].script \in Seq(Words) /\ prog[c].size \in Nat
  BY <1>1 DEF Shape, ProgShape
<1>3. DOMAIN prog[c] = {"pc", "script", "ctx", "buffer", "size", "code", "heard", "out", "returned"} /\ DOMAIN prog = Clients
  BY <1>1, Domains DEF Shape, ProgShape
<1>4. ASSUME NEW p, prog' = [prog EXCEPT ![c] = p], DOMAIN p = DOMAIN prog[c], p.script \in Seq(Words),
             p.size = prog[c].size, p.heard = prog[c].heard, p.buffer = prog[c].buffer,
             NEW x, sock' = sock \/ sock' = [sock EXCEPT ![c].cli = x]
      PROVE  HeardInv'
  <2>1. ProgOf(c) /\ prog'[c] = p
    BY <1>1, <1>2, <1>4, SameProg
  <2>2. SockOf(c) /\ sock'[c].down = sock[c].down /\ sock'[c].srv = sock[c].srv /\ sock'[c].up = sock[c].up
    BY ONLY <1>1, <1>4, c \in Clients, SameSock, Zenon
  <2>. QED  BY <1>1, <1>4, <2>1, <2>2, DeafInv DEF Deaf
<1>. DEFINE Unheard(p) == /\ DOMAIN p = DOMAIN prog[c] /\ p.script \in Seq(Words)
                          /\ p.size = prog[c].size /\ p.heard = prog[c].heard /\ p.buffer = prog[c].buffer
            SockIs == \E x : sock' = sock \/ sock' = [sock EXCEPT ![c].cli = x]
<1>5. ASSUME NEW p, Unheard(p), prog' = [prog EXCEPT ![c] = p], SockIs PROVE HeardInv'
  BY <1>4, <1>5, Zenon
<1>. HIDE DEF SockIs
<1>6. CASE RcConnects(c)
  <2>1. \E x, y : prog' = [prog EXCEPT ![c].pc = x, ![c].ctx = y] \/ prog' = [prog EXCEPT ![c].pc = x]
    <3>1. \/ prog' = [prog EXCEPT ![c].pc = "ident", ![c].ctx = lirc_command_init(lirc_identify)]
          \/ prog' = [prog EXCEPT ![c].pc = IF prog[c].pc = "connect" THEN "launch" ELSE "exit"]
      BY <1>6, Zenon DEF RcConnects
    <3>. QED  BY <3>1, Zenon
  <2>2. SockIs
    BY <1>6, Zenon DEF RcConnects, SockIs
  <2>3. PICK x, y : prog' = [prog EXCEPT ![c].pc = x, ![c].ctx = y] \/ prog' = [prog EXCEPT ![c].pc = x]
    BY <2>1
  <2>. DEFINE p1 == [prog[c] EXCEPT !.pc = x, !.ctx = y]
              p2 == [prog[c] EXCEPT !.pc = x]
  <2>4. prog' = [prog EXCEPT ![c] = p1] \/ prog' = [prog EXCEPT ![c] = p2]
    BY <1>3, <2>3
  <2>5. Unheard(p1) /\ Unheard(p2)
    BY <1>2, <1>3
  <2>. HIDE DEF p1, p2, Unheard
  <2>. QED  BY <1>5, <2>2, <2>4, <2>5, Zenon
<1>7. CASE RcLaunches(c)
  <2>. DEFINE p == [prog[c] EXCEPT !.pc = "again"]
  <2>1. prog' = [prog EXCEPT ![c] = p]
    BY <1>7 DEF RcLaunches
  <2>2. Unheard(p)
    BY <1>2, <1>3
  <2>3. SockIs
    BY <1>7, Zenon DEF RcLaunches, SockIs
  <2>. HIDE DEF p, Unheard
  <2>. QED  BY <1>5, <2>1, <2>2, <2>3, Zenon
<1>8. CASE Asks(c)
  <2>. DEFINE packet == IF Kind(c) = "moder" THEN Head(prog[c].script) ELSE lirc_code2char(prog[c].code)
              script == IF prog[c].script = <<>> THEN prog[c].script ELSE Tail(prog[c].script)
              p1 == [prog[c] EXCEPT !.pc = "exit"]
              p2 == [prog[c] EXCEPT !.pc = "rcwait", !.ctx = lirc_command_init(packet), !.script = script]
  <2>1. script \in Seq(Words)
    BY <1>2
  <2>. HIDE DEF packet, script
  <2>2. prog' = [prog EXCEPT ![c] = p1] \/ prog' = [prog EXCEPT ![c] = p2]
    <3>1. \/ prog' = [prog EXCEPT ![c].pc = "exit"]
          \/ prog' = [prog EXCEPT ![c].pc = "rcwait", ![c].ctx = lirc_command_init(packet), ![c].script = IF @ = <<>> THEN @ ELSE Tail(@)]
      BY <1>8, Zenon DEF Asks, packet
    <3>. QED  BY <1>3, <3>1 DEF script
  <2>3. Unheard(p1) /\ Unheard(p2)
    BY <1>2, <1>3, <2>1
  <2>4. SockIs
    BY <1>8, Zenon DEF Asks, SockIs
  <2>. HIDE DEF p1, p2, Unheard
  <2>. QED  BY <1>5, <2>2, <2>3, <2>4, Zenon
<1>9. CASE RcAnswered(c)
  <2>. DEFINE ctx == Stepped(prog[c].ctx, rsock[c])
              done == [prog[c] EXCEPT !.ctx = NoCtx]
              p == CASE ctx.result = None -> [prog[c] EXCEPT !.ctx = ctx]
                     [] ctx.result = "ok" /\ done.pc = "ident" ->
                          [done EXCEPT !.pc = IF Kind(c) = "moder" THEN "call" ELSE "next"]
                     [] ctx.result = "ok" /\ done.pc = "rcwait" -> Continues(c, done, ctx.reply)
                     [] OTHER -> [done EXCEPT !.pc = "exit"]
  <2>1. prog' = [prog EXCEPT ![c] = p] /\ sock' = [sock EXCEPT ![c].cli = (p.pc # "exit")]
    BY <1>9, Zenon DEF RcAnswered
  <2>2. SockIs
    BY <2>1, Zenon DEF SockIs
  <2>. HIDE DEF ctx
  <2>3. Unheard(done)
    BY <1>2, <1>3
  <2>4. ASSUME NEW q, Unheard(q), NEW x, NEW y
        PROVE  Unheard([q EXCEPT !.pc = x]) /\ Unheard([q EXCEPT !.pc = x, !.out = y])
    BY <1>3, <2>4
  <2>5. Unheard([prog[c] EXCEPT !.ctx = ctx])
    BY <1>2, <1>3
  <2>. HIDE DEF Unheard, done
  <2>6. Unheard(Continues(c, done, ctx.reply))
    <3>1. ircat(done, ctx.reply) = IF ctx.reply = <<>> THEN [done EXCEPT !.pc = "next"]
                                   ELSE [done EXCEPT !.pc = "call", !.out = Append(done.out, ctx.reply)]
      BY DEF ircat
    <3>2. moder(done, ctx.reply) = [done EXCEPT !.pc = "call", !.out = Append(done.out, ctx.reply)]
      BY DEF moder
    <3>3. Unheard(ircat(done, ctx.reply)) /\ Unheard(moder(done, ctx.reply))
      <4>1. /\ Unheard([done EXCEPT !.pc = "next"])
            /\ Unheard([done EXCEPT !.pc = "call", !.out = Append(done.out, ctx.reply)])
        BY ONLY <2>3, <2>4, Zenon
      <4>. QED  BY ONLY <3>1, <3>2, <4>1, Zenon
    <3>. QED  BY <3>3 DEF Continues
  <2>7. Unheard(p)
    BY <2>3, <2>4, <2>5, <2>6
  <2>. HIDE DEF p
  <2>. QED  BY <1>5, <2>1, <2>2, <2>7, Zenon
<1>. QED  BY <1>6, <1>7, <1>8, <1>9

(* lirc_nextcode() *)
LEMMA NextCodesKeeps ==
    ASSUME HeardInv, NEW c \in Clients, NextCodes(c)
    PROVE  HeardInv'
<1>. DEFINE p == prog[c]
            size == IF Len(p.buffer) >= p.size THEN p.size + scene.packet ELSE p.size
            new == Available(sock[c].down, size - Len(p.buffer))
            more == p.buffer \o new
            rest == From(sock[c].down, Len(new) + 1)
            event == told[c].events
            waits == [p EXCEPT !.buffer = more, !.size = size]
            takes(b, n, x) == [p EXCEPT !.buffer = AfterCode(b), !.code = NextCode(b), !.size = n,
                                        !.heard = Append(@, NextCode(b)), !.pc = x]
            next == IF Kind(c) = "ircat" THEN "call" ELSE "next"
            read == [sock EXCEPT ![c].down = rest]
<1>1. Shape /\ scene' = scene /\ daemon' = daemon /\ peer' = peer /\ told' = told
  BY DEF HeardInv, NextCodes
<1>2. p.script \in Seq(Words) /\ p.size \in Nat /\ size \in Nat
  BY <1>1, RoomType DEF Shape, ProgShape
<1>3. DOMAIN p = {"pc", "script", "ctx", "buffer", "size", "code", "heard", "out", "returned"} /\ DOMAIN prog = Clients
  BY <1>1, Domains DEF Shape, ProgShape
<1>4. /\ DOMAIN sock[c] = {"up", "down", "srv", "cli"} /\ DOMAIN sock = Clients
      /\ sock[c].up \in Seq(PieceOf(Words))
  BY <1>1, Domains DEF Shape, SockShape
<1>5. c \in Listeners => Listens(c)
  BY DEF HeardInv
<1>. HIDE DEF size, new
<1>6. c \in Listeners => Follows(Line, event, p.heard, more, rest, sock[c].srv)
  <2>. SUFFICES ASSUME c \in Listeners PROVE Follows(Line, event, p.heard, more, rest, sock[c].srv)
    OBVIOUS
  <2>1. Follows(Line, event, p.heard, p.buffer, sock[c].down, sock[c].srv)
    BY <1>5 DEF Listens
  <2>2. size - Len(p.buffer) \in Int /\ sock[c].down \in Seq(PieceOf(Line))
    BY <1>2, <2>1 DEF Follows
  <2>3. PICK n \in Int : n <= Len(sock[c].down) /\ new = First(sock[c].down, n)
    BY <2>2, AvailableIs DEF new
  <2>4. Follows(Line, event, p.heard, p.buffer \o First(sock[c].down, n),
                From(sock[c].down, Len(First(sock[c].down, n)) + 1), sock[c].srv)
    BY <2>1, <2>3, FollowsRead
  <2>. QED  BY ONLY <2>3, <2>4, Zenon
<1>. HIDE DEF more, rest, next
<1>7. ASSUME NEW b, NEW d, NEW n \in Nat, NEW x, Newline(b) # 0,
             c \in Listeners => Follows(Line, event, p.heard, b, d, sock[c].srv),
             prog' = [prog EXCEPT ![c] = takes(b, n, x)], SockOf(c),
             sock'[c].down = d, sock'[c].srv = sock[c].srv, sock'[c].up = sock[c].up
      PROVE  HeardInv'
  <2>1. ProgOf(c) /\ prog'[c].heard = Append(p.heard, NextCode(b)) /\ prog'[c].buffer = AfterCode(b)
    <3>1. DOMAIN takes(b, n, x) = DOMAIN p /\ takes(b, n, x).script \in Seq(Words) /\ takes(b, n, x).size \in Nat
      BY <1>2, <1>3
    <3>2. takes(b, n, x).heard = Append(p.heard, NextCode(b)) /\ takes(b, n, x).buffer = AfterCode(b)
      BY <1>3
    <3>. HIDE DEF takes
    <3>3. ProgOf(c) /\ prog'[c] = takes(b, n, x)
      BY ONLY <1>1, <1>7, <3>1, c \in Clients, SameProg, Zenon
    <3>. QED  BY <3>2, <3>3
  <2>2. c \in Listeners => Listens(c)'
    <3>. SUFFICES ASSUME c \in Listeners PROVE Listens(c)'
      OBVIOUS
    <3>1. Follows(Line, event, Append(p.heard, NextCode(b)), AfterCode(b), d, sock[c].srv)
      BY <1>7, FollowsTake
    <3>. QED  BY <1>1, <1>5, <1>7, <2>1, <3>1 DEF Listens
  <2>. QED  BY <1>1, <1>7, <2>1, <2>2, ProgramInv
<1>8. \/ /\ prog' = [prog EXCEPT ![c].pc = "exit"]
         /\ sock' = [sock EXCEPT ![c].cli = FALSE]
      \/ HasLine(p.buffer) /\ sock' = sock /\ prog' = [prog EXCEPT ![c] = takes(p.buffer, p.size, next)]
      \/ Newline(more) = 0 /\ sock' = read /\ prog' = [prog EXCEPT ![c] = waits]
      \/ Newline(more) # 0 /\ sock' = read /\ prog' = [prog EXCEPT ![c] = takes(more, size, next)]
  <2>. DEFINE buffer == IF HasLine(p.buffer) THEN p.buffer ELSE more
  <2>1. IF ~HasLine(p.buffer) /\ new = <<>>
        THEN prog' = [prog EXCEPT ![c].pc = "exit"] /\ sock' = [sock EXCEPT ![c].cli = FALSE]
        ELSE /\ sock' = IF HasLine(p.buffer) THEN sock ELSE read
             /\ prog' = [prog EXCEPT ![c] =
                   IF Newline(buffer) = 0 THEN [p EXCEPT !.buffer = buffer, !.size = size]
                   ELSE [p EXCEPT !.buffer = AfterCode(buffer), !.code = NextCode(buffer),
                                  !.size = IF HasLine(p.buffer) THEN p.size ELSE size,
                                  !.heard = Append(@, NextCode(buffer)), !.pc = next]]
    BY Zenon DEF NextCodes, size, new, more, rest, next
  <2>2. HasLine(p.buffer) => Newline(p.buffer) # 0
    BY DEF HasLine
  <2>3. CASE HasLine(p.buffer)
    BY ONLY <2>1, <2>2, <2>3
  <2>4. CASE ~HasLine(p.buffer)
    BY ONLY <2>1, <2>4
  <2>. QED  BY <2>3, <2>4
<1>9. CASE prog' = [prog EXCEPT ![c].pc = "exit"] /\ sock' = [sock EXCEPT ![c].cli = FALSE]
  <2>. DEFINE q == [p EXCEPT !.pc = "exit"]
  <2>1. prog' = [prog EXCEPT ![c] = q]
    BY <1>9
  <2>2. DOMAIN q = DOMAIN p /\ q.script \in Seq(Words) /\ q.size \in Nat /\ q.heard = p.heard /\ q.buffer = p.buffer
    BY <1>2, <1>3
  <2>. HIDE DEF q
  <2>3. ProgOf(c) /\ prog'[c] = q
    BY ONLY <1>1, <2>1, <2>2, c \in Clients, SameProg, Zenon
  <2>4. SockOf(c) /\ sock'[c].down = sock[c].down /\ sock'[c].srv = sock[c].srv /\ sock'[c].up = sock[c].up
    BY <1>1, <1>9, SameSock
  <2>. QED  BY <1>1, <2>2, <2>3, <2>4, DeafInv DEF Deaf
<1>10. CASE HasLine(p.buffer) /\ sock' = sock /\ prog' = [prog EXCEPT ![c] = takes(p.buffer, p.size, next)]
  <2>1. Newline(p.buffer) # 0
    BY <1>10 DEF HasLine
  <2>2. SockOf(c) /\ sock'[c].down = sock[c].down /\ sock'[c].srv = sock[c].srv /\ sock'[c].up = sock[c].up
    BY <1>1, <1>10, SameSock
  <2>3. c \in Listeners => Follows(Line, event, p.heard, p.buffer, sock[c].down, sock[c].srv)
    BY <1>5 DEF Listens
  <2>. HIDE DEF takes, p
  <2>. QED  BY ONLY <1>2, <1>7, <1>10, <2>1, <2>2, <2>3, Zenon
<1>11. ASSUME sock' = read
       PROVE  SockOf(c) /\ sock'[c].down = rest /\ sock'[c].srv = sock[c].srv /\ sock'[c].up = sock[c].up
  BY <1>4, <1>11, Domains DEF SockOf
<1>12. CASE Newline(more) = 0 /\ sock' = read /\ prog' = [prog EXCEPT ![c] = waits]
  <2>1. DOMAIN waits = DOMAIN p /\ waits.script \in Seq(Words) /\ waits.size \in Nat /\ waits.heard = p.heard /\ waits.buffer = more
    BY <1>2, <1>3
  <2>. HIDE DEF waits
  <2>2. ProgOf(c) /\ prog'[c] = waits
    BY ONLY <1>1, <1>12, <2>1, c \in Clients, SameProg, Zenon
  <2>3. c \in Listeners => Listens(c)'
    BY <1>1, <1>5, <1>6, <1>11, <1>12, <2>1, <2>2 DEF Listens
  <2>. QED  BY <1>1, <1>11, <1>12, <2>2, <2>3, ProgramInv
<1>13. CASE Newline(more) # 0 /\ sock' = read /\ prog' = [prog EXCEPT ![c] = takes(more, size, next)]
  <2>. HIDE DEF takes, read
  <2>. QED  BY ONLY <1>2, <1>6, <1>7, <1>11, <1>13, Zenon
<1>. QED  BY ONLY <1>8, <1>9, <1>10, <1>12, <1>13, Zenon

-----------------------------------------------------------------------------
(* HeardInv is an invariant, and what it is for. *)

LEMMA QuitsKeeps ==
    ASSUME HeardInv, NEW c \in Clients, Quits(c)
    PROVE  HeardInv'
<1>. DEFINE p == [prog[c] EXCEPT !.pc = "exit"]
<1>1. /\ Shape /\ scene' = scene /\ daemon' = daemon /\ peer' = peer /\ told' = told
      /\ prog' = [prog EXCEPT ![c] = p] /\ sock' = [sock EXCEPT ![c].cli = FALSE]
  BY DEF HeardInv, Quits
<1>2. /\ DOMAIN p = DOMAIN prog[c] /\ p.script \in Seq(Words) /\ p.size \in Nat
      /\ p.heard = prog[c].heard /\ p.buffer = prog[c].buffer
  BY <1>1, Domains DEF Shape, ProgShape
<1>. HIDE DEF p
<1>3. ProgOf(c) /\ prog'[c] = p
  BY ONLY <1>1, <1>2, c \in Clients, SameProg, Zenon
<1>4. SockOf(c) /\ sock'[c].down = sock[c].down /\ sock'[c].srv = sock[c].srv /\ sock'[c].up = sock[c].up
  BY <1>1, SameSock
<1>. QED  BY <1>1, <1>2, <1>3, <1>4, DeafInv DEF Deaf

LEMMA PollsKeeps ==
    ASSUME HeardInv, LircdPolls
    PROVE  HeardInv'
<1>1. Shape /\ daemon' = [daemon EXCEPT !.marks = Polled] /\ UNCHANGED <<scene, sock, prog, peer, told>>
  BY DEF HeardInv, LircdPolls
<1>2. /\ DOMAIN daemon' = DOMAIN daemon /\ daemon'.cmd = daemon.cmd /\ daemon'.st = daemon.st
      /\ daemon'.clis = daemon.clis /\ daemon'.left = daemon.left
  BY <1>1 DEF Shape, DaemonShape
<1>3. Shape'
  BY <1>1, <1>2, Zenon DEF Shape, DaemonShape, SockShape, ProgShape, PeerShape
<1>4. \A c \in Listeners : Listens(c)'
  BY <1>1, <1>2 DEF HeardInv, Listens
<1>. QED  BY <1>1, <1>3, <1>4, InvFrom

(* lircrcd tells only presses. *)
LEMMA RcStays ==
    ASSUME NEW d \in Daemons, RcRuns(d), HeardInv
    PROVE  UNCHANGED <<scene, daemon, sock, prog, peer>> /\ ToldSame
<1>1. CASE RcExecutes(d)
  <2>1. \E c, x : told' = [told EXCEPT ![c].presses = x]
    BY <1>1 DEF RcExecutes
  <2>2. ToldSame
    BY <2>1 DEF ToldSame
  <2>. QED  BY <1>1, <2>2 DEF RcExecutes
<1>. QED  BY <1>1 DEF RcRuns, RcPolls, RcAccepts, RcReads, RcUnlinks, ToldSame

LEMMA NextKeeps == HeardInv /\ [Next]_vars => HeardInv'
<1>1. ASSUME HeardInv, UNCHANGED vars PROVE HeardInv'
  <2>1. UNCHANGED <<scene, daemon, sock, prog>> /\ ToldSame /\ PeerShape'
    BY <1>1 DEF vars, HeardInv, Shape, PeerShape, ToldSame
  <2>. QED  BY <1>1, <2>1, PeerOnly
<1>2. ASSUME HeardInv, NEW d \in Daemons, RcRuns(d) PROVE HeardInv'
  <2>1. UNCHANGED <<scene, daemon, sock, prog, peer>> /\ ToldSame
    BY <1>2, RcStays
  <2>2. peer' = peer
    BY <2>1
  <2>3. PeerShape'
    BY <1>2, <2>2, Zenon DEF HeardInv, Shape, PeerShape
  <2>. QED  BY <1>2, <2>1, <2>3, PeerOnly
<1>3. ASSUME HeardInv, NEW c \in Clients, LircdReads(c) \/ Runs(c) \/ Quits(c) PROVE HeardInv'
  BY <1>3, ReadsKeeps, SpeakersKeep, NextCodesKeeps, AsksKeep, QuitsKeeps DEF Runs
<1>4. ASSUME HeardInv, LircdPolls \/ LircdExecutes \/ LircdRepeats \/ LircdReceives \/ LircdHups \/ LircdDies PROVE HeardInv'
  BY <1>4, PollsKeeps, ExecutesKeeps, RepeatsKeeps, ReceivesKeeps, HupsKeeps, DiesKeeps
<1>5. ASSUME HeardInv, PeerConnects \/ PeerWaits \/ PeerReads \/ PeerSays \/ PeerEnds PROVE HeardInv'
  BY <1>5, PeerKeeps, PeerReadsKeeps
<1>. QED  BY <1>1, <1>2, <1>3, <1>4, <1>5 DEF Next, Quiet

(* What has arrived is the beginning of what was sent. *)
LEMMA FollowsPrefix ==
    ASSUME NEW L, NEW e, NEW h, NEW buffer, NEW down, NEW srv, Follows(L, e, h, buffer, down, srv)
    PROVE  IsPrefix(h, e)
<1>1. /\ e \in Seq(L) /\ h \in Seq(L)
      /\ Len(h) <= Len(e) /\ \A i \in 1..Len(h) : h[i] = e[i]
  BY DEF Follows
<1>2. Len(h) \in Nat /\ Len(e) \in Nat
  BY <1>1
<1>3. First(e, Len(h)) \in Seq(L) /\ Len(First(e, Len(h))) = Len(h) /\ \A i \in 1..Len(h) : First(e, Len(h))[i] = e[i]
  BY <1>1, <1>2, FirstType
<1>4. \A i \in 1..Len(h) : h[i] = First(e, Len(h))[i]
  BY <1>1, <1>3
<1>5. h = First(e, Len(h))
  <2>. HIDE DEF First
  <2>. QED  BY <1>1, <1>3, <1>4
<1>6. h = SubSeq(e, 1, Len(h))
  BY <1>5 DEF First
<1>. QED  BY <1>1, <1>6 DEF IsPrefix

LEMMA InvHeard == HeardInv => HeardInOrder
<1>. SUFFICES ASSUME HeardInv, NEW c \in Listeners
              PROVE  IsPrefix(prog[c].heard, told[c].events) /\ Fragment \notin Range(prog[c].heard)
  BY DEF HeardInOrder
<1>1. Follows(Line, told[c].events, prog[c].heard, prog[c].buffer, sock[c].down, sock[c].srv)
  BY DEF HeardInv, Listens
<1>2. prog[c].heard \in Seq(Line)
  BY <1>1 DEF Follows
<1>3. Fragment \notin Range(prog[c].heard)
  BY <1>2 DEF Range, Line
<1>. QED  BY <1>1, <1>3, FollowsPrefix

(* lirc_nextcode() hands a program the events that lircd wrote to it, in   *)
(* order, each once and whole, also those that come from another lircd:    *)
(* with any number of programs and of events, any packet size and any room *)
(* in the sockets, wherever the reads cut, whatever the others command and *)
(* when lircd dies (lirc_client.c:1879, lircd.cpp:912).                    *)
THEOREM EventsInOrder == Spec => []HeardInOrder
<1>1. Spec => Init /\ [][Next]_vars
  BY DEF Spec
<1>2. Init => HeardInv
  BY InitInv
<1>3. HeardInv /\ [Next]_vars => HeardInv'
  BY NextKeeps
<1>4. HeardInv => HeardInOrder
  BY InvHeard
<1>. QED  BY <1>1, <1>2, <1>3, <1>4, PTL

-----------------------------------------------------------------------------
(* A client that writes several commands at once *)

(* lircd executes a line of its buffer and gets the next one ready. *)
LEMMA FollowsNext ==
    ASSUME NEW script, NEW lines, NEW buffer, NEW up, NEW srv,
           Follows(Words, script, lines, buffer, up, srv), Newline(buffer) # 0,
           NEW size \in Nat, NextPacket(buffer, up, size).ok
    PROVE  Follows(Words, script, Append(lines, Text(buffer)), NextPacket(buffer, up, size).buffer,
                   NextPacket(buffer, up, size).stream, srv)
<1>. DEFINE E == PieceOf(Words)
            rest == From(buffer, Newline(buffer) + 1)
            new == Available(up, size - Len(rest))
            later == From(up, Len(new) + 1)
            done == Append(lines, Text(buffer))
            np == NextPacket(buffer, up, size)
<1>1. Follows(Words, script, done, rest, up, srv)
  BY FollowsTake, Zenon DEF NextCode, AfterCode
<1>2. np = CASE rest = <<>> -> [buffer |-> <<>>, stream |-> up, ok |-> TRUE]
             [] rest # <<>> /\ Newline(rest) > 0 -> [buffer |-> rest, stream |-> up, ok |-> TRUE]
             [] rest # <<>> /\ Newline(rest) = 0 /\ new # <<>> -> [buffer |-> rest \o new, stream |-> later, ok |-> TRUE]
             [] OTHER -> [buffer |-> <<>>, stream |-> up, ok |-> FALSE]
  BY Zenon DEF NextPacket
<1>3. rest \in Seq(E) /\ up \in Seq(E)
  BY <1>1 DEF Follows
<1>. HIDE DEF rest, done, E
<1>4. Follows(Words, script, done, rest \o new, later, srv)
  <2>1. size - Len(rest) \in Int
    BY <1>3
  <2>2. PICK n \in Int : n <= Len(up) /\ new = First(up, n)
    BY <1>3, <2>1, AvailableIs
  <2>3. Follows(Words, script, done, rest \o First(up, n), From(up, Len(First(up, n)) + 1), srv)
    BY ONLY <1>1, <2>2, FollowsRead, Zenon
  <2>. QED  BY <2>2, <2>3, Zenon
<1>. HIDE DEF new, later
<1>5. \/ rest = <<>> /\ np.buffer = rest /\ np.stream = up
      \/ np.buffer = rest /\ np.stream = up
      \/ np.buffer = rest \o new /\ np.stream = later
  <2>1. np.ok
    OBVIOUS
  <2>. HIDE DEF np
  <2>. QED  BY <1>2, <2>1
<1>. QED  BY <1>1, <1>4, <1>5, Zenon DEF np, done

(* The client is gone, and what it sent with it. *)
LEMMA FollowsDropped ==
    ASSUME NEW L, NEW events, NEW heard, NEW buffer, NEW down, NEW srv,
           Follows(L, events, heard, buffer, down, srv)
    PROVE  Follows(L, events, heard, <<>>, <<>>, FALSE)
<1>1. Len(heard) \in Nat /\ Len(events) \in Nat /\ Len(heard) <= Len(events)
  BY DEF Follows
<1>2. <<>> \in Seq(PieceOf(L)) /\ Len(<<>>) = 0
  OBVIOUS
<1>3. /\ 3 * Len(heard) + Len(<<>>) + Len(<<>>) <= 3 * Len(events)
      /\ \A i \in 1..Len(<<>>) : FALSE
  BY <1>1, <1>2
<1>. QED  BY <1>2, <1>3 DEF Follows

(* lircd may give up a client that it writes to; it takes none back. *)
LEMMA SentGivesUp ==
    ASSUME NEW fd, NEW lines, NEW cast, NEW B, NEW c \in Clients,
           DOMAIN sock[c] = DOMAIN Closed, Sent(fd, lines, cast, B)[c].srv
    PROVE  sock[c].srv
<1>1. ASSUME NEW s, DOMAIN s = DOMAIN Closed, NEW out, write_socket(s, out).srv PROVE s.srv
  <2>. DEFINE w == Written(out)
              room == IF s.srv /\ s.cli THEN scene.room - Len(s.down) ELSE 0
  <2>1. write_socket(s, out) = IF Len(w) <= room THEN [s EXCEPT !.down = @ \o w]
                               ELSE [s EXCEPT !.down = @ \o First(w, room), !.srv = FALSE]
    BY Zenon DEF write_socket
  <2>. HIDE DEF w, room
  <2>2. "srv" \in DOMAIN s
    BY <1>1, Domains
  <2>. QED  BY <1>1, <2>1, <2>2
<1>. DEFINE s == IF c \in B /\ cast # <<>> THEN write_socket(sock[c], cast) ELSE sock[c]
<1>2. DOMAIN s = DOMAIN Closed
  BY WriteKeeps
<1>3. s.srv => sock[c].srv
  BY <1>1
<1>4. Sent(fd, lines, cast, B)[c] = IF c = fd /\ lines # <<>> THEN write_socket(s, lines) ELSE s
  BY DEF Sent
<1>. HIDE DEF s
<1>. QED  BY <1>1, <1>2, <1>3, <1>4

(* A step that neither reads nor executes for the client. *)
LEMMA StillPiped ==
    ASSUME NEW c, Piped(c), scene' = scene, prog'[c] = prog[c], told'[c].lines = told[c].lines,
           daemon'.up => daemon.up, sock'[c].srv => sock[c].srv,
           sock'[c].up = sock[c].up \/ (sock'[c].up = <<>> /\ ~daemon'.up),
           \/ daemon'.cmd.fd # c /\ daemon.cmd.fd # c
           \/ daemon'.cmd = daemon.cmd /\ (sock'[c].srv = sock[c].srv \/ ~daemon'.up)
    PROVE  Piped(c)'
<1>1. Holds(c)' = Holds(c)
  BY DEF Holds
<1>2. (daemon.up /\ daemon.cmd.fd = c =>
         sock[c].srv /\ prog[c].pc = "wrote" /\ Newline(daemon.cmd.buffer) # 0)'
  BY DEF Piped
<1>3. CASE prog[c].pc = "call"
  BY <1>2, <1>3 DEF Piped
<1>4. CASE prog[c].pc = "wrote"
  <2>. DEFINE F(b, u, s) == Follows(Words, scene.script[c], told[c].lines, b, u, s)
  <2>1. IF Served(c) THEN F(Holds(c), sock[c].up, TRUE) ELSE F(<<>>, <<>>, FALSE)
    BY <1>4 DEF Piped
  <2>2. F(<<>>, <<>>, FALSE)
    BY <2>1, FollowsDropped
  <2>3. Served(c)' => Served(c) /\ sock'[c].up = sock[c].up
    BY DEF Served
  <2>4. IF Served(c)' THEN F(Holds(c), sock'[c].up, TRUE) ELSE F(<<>>, <<>>, FALSE)
    BY <2>1, <2>2, <2>3
  <2>5. (IF Served(c) THEN Follows(Words, scene.script[c], told[c].lines, Holds(c), sock[c].up, TRUE)
         ELSE Follows(Words, scene.script[c], told[c].lines, <<>>, <<>>, FALSE))'
    BY <1>1, <2>4
  <2>. QED  BY <1>2, <1>4, <2>5 DEF Piped
<1>. QED  BY <1>3, <1>4 DEF Piped

LEMMA PipedReads ==
    ASSUME HeardInv, NEW fd \in Clients, LircdReads(fd), NEW c \in Pipers, Piped(c)
    PROVE  Piped(c)'
<1>. DEFINE E == PieceOf(Words)
            r == Reading(sock[fd].up, scene.packet)
            marks == daemon.marks \ {Min(Slots)}
            socks == [sock EXCEPT ![fd].srv = FALSE, ![fd].up = r.stream]
            read == [fd |-> fd, slot |-> Min(Slots), buffer |-> r.buffer]
<1>1. Shape /\ c \in Clients /\ c # None
  BY NetworkAssumption DEF HeardInv, Pipers
<1>2. /\ scene' = scene /\ prog' = prog /\ told' = told
      /\ daemon.up /\ daemon.cmd.fd = None /\ sock[fd].srv
  BY DEF LircdReads, Serving, Served
<1>3. \/ sock' = socks /\ daemon' = [daemon EXCEPT !.clis = Kept(socks), !.marks = marks]
      \/ /\ r.buffer # <<>> /\ ~BadPacket(r.buffer)
         /\ sock' = [sock EXCEPT ![fd].up = r.stream] /\ daemon' = [daemon EXCEPT !.cmd = read, !.marks = marks]
  BY Zenon DEF LircdReads
<1>4. sock[fd].up \in Seq(E) /\ scene.packet \in Nat
  BY <1>1, RoomType DEF Shape, SockShape
<1>5. sock[fd].up = <<>> => r.buffer = <<>> /\ r.stream = <<>>
  <2>. HIDE DEF E
  <2>. QED  BY <1>4, ReadingType
<1>6. PICK n \in Int : n <= Len(sock[fd].up) /\ Available(sock[fd].up, scene.packet) = First(sock[fd].up, n)
  BY <1>4, AvailableIs
<1>7. r.buffer = First(sock[fd].up, n) /\ r.stream = From(sock[fd].up, Len(First(sock[fd].up, n)) + 1)
  BY <1>6 DEF Reading
<1>13. read.fd = fd /\ read.buffer = r.buffer
  OBVIOUS
<1>. HIDE DEF r, E, marks, read
<1>8. sock'[fd].up = r.stream /\ \A e \in Clients \ {fd} : sock'[e] = sock[e]
  BY <1>1, <1>3, Domains DEF Shape, SockShape
<1>9. /\ daemon'.up
      /\ \/ daemon'.cmd = daemon.cmd /\ ~sock'[fd].srv
         \/ daemon'.cmd = read /\ sock'[fd].srv /\ r.buffer # <<>> /\ ~BadPacket(r.buffer)
  <2>1. daemon.up /\ daemon'.up = daemon.up
    BY <1>1, <1>2, <1>3 DEF Shape, DaemonShape
  <2>2. \/ daemon'.cmd = daemon.cmd /\ ~sock'[fd].srv
        \/ daemon'.cmd = read /\ sock'[fd].srv /\ r.buffer # <<>> /\ ~BadPacket(r.buffer)
    <3>1. DOMAIN sock = Clients /\ {"up", "srv"} \subseteq DOMAIN sock[fd] /\ {"cmd", "clis"} \subseteq DOMAIN daemon
      BY <1>1, Domains DEF Shape, DaemonShape, SockShape
    <3>2. CASE sock' = socks /\ daemon' = [daemon EXCEPT !.clis = Kept(socks), !.marks = marks]
      <4>1. socks[fd].srv = FALSE
        BY <3>1
      <4>. HIDE DEF socks
      <4>. QED  BY <3>1, <3>2, <4>1
    <3>3. CASE /\ r.buffer # <<>> /\ ~BadPacket(r.buffer)
               /\ sock' = [sock EXCEPT ![fd].up = r.stream] /\ daemon' = [daemon EXCEPT !.cmd = read, !.marks = marks]
      <4>1. daemon'.cmd = read /\ sock'[fd].srv = sock[fd].srv
        BY <3>1, <3>3
      <4>. QED  BY <1>2, <3>3, <4>1
    <3>. QED  BY <1>3, <3>2, <3>3
  <2>. QED  BY <2>1, <2>2
<1>10. CASE c # fd
  <2>1. sock'[c] = sock[c] /\ daemon'.cmd.fd # c /\ daemon.cmd.fd # c
    BY <1>1, <1>2, <1>8, <1>9, <1>10, <1>13
  <2>. QED  BY <1>2, <2>1, StillPiped
<1>11. CASE c = fd /\ ~sock'[fd].srv
  <2>1. ~Served(c)' /\ daemon'.cmd.fd # c
    BY <1>1, <1>2, <1>9, <1>11 DEF Served
  <2>2. CASE prog[c].pc = "call"
    BY <1>2, <1>5, <1>8, <1>11, <2>1, <2>2 DEF Piped
  <2>3. CASE prog[c].pc = "wrote"
    <3>1. Follows(Words, scene.script[c], told[c].lines, <<>>, <<>>, FALSE)
      BY <2>3, FollowsDropped DEF Piped
    <3>. QED  BY <1>2, <2>1, <2>3, <3>1 DEF Piped
  <2>. QED  BY <2>2, <2>3 DEF Piped
<1>12. CASE c = fd /\ daemon'.cmd = read /\ sock'[fd].srv /\ r.buffer # <<>> /\ ~BadPacket(r.buffer)
  <2>. DEFINE up == sock[c].up
  <2>1. prog[c].pc = "wrote"
    BY <1>5, <1>12 DEF Piped
  <2>2. Follows(Words, scene.script[c], told[c].lines, <<>>, up, TRUE)
    BY <1>1, <1>2, <1>12, <2>1 DEF Piped, Served, Holds
  <2>3. Follows(Words, scene.script[c], told[c].lines, <<>> \o First(up, n), From(up, Len(First(up, n)) + 1), TRUE)
    BY ONLY <1>6, <1>12, <2>2, FollowsRead, Zenon
  <2>4. <<>> \o First(up, n) = First(up, n)
    <3>1. First(up, n) \in Seq(E)
      BY <1>4, <1>6, <1>12, FirstType DEF E
    <3>. HIDE DEF First
    <3>. QED  BY <3>1
  <2>5. Follows(Words, scene.script[c], told[c].lines, r.buffer, r.stream, TRUE)
    BY <1>7, <1>12, <2>3, <2>4
  <2>6. Holds(c)' = r.buffer /\ daemon'.cmd.buffer = r.buffer /\ Newline(r.buffer) # 0 /\ Served(c)' /\ sock'[c].up = r.stream
    BY <1>8, <1>9, <1>12, <1>13 DEF Holds, Served, BadPacket
  <2>. QED  BY <1>2, <2>1, <2>5, <2>6 DEF Piped, Served
<1>. QED  BY <1>9, <1>10, <1>11, <1>12

LEMMA PipedExecutes ==
    ASSUME HeardInv, LircdExecutes, NEW c \in Pipers, Piped(c)
    PROVE  Piped(c)'
<1>. DEFINE fd == daemon.cmd.fd
            buffer == daemon.cmd.buffer
            B == Range(daemon.clis)
<1>1. Shape /\ c \in Clients /\ c # None
  BY NetworkAssumption DEF HeardInv, Pipers
<1>2. scene' = scene /\ prog' = prog /\ fd # None /\ fd \in Clients /\ daemon.up
  BY <1>1 DEF LircdExecutes, Shape, DaemonShape
<1>3. PICK d, gone : Executed(d, gone)
  BY ExecutedIs
<1>. DEFINE t == Sent(fd, d.out, d.cast, B)
            next == NextPacket(buffer, t[fd].up, scene.packet)
            stays == t[fd].srv /\ next.ok /\ ~(next.buffer # <<>> /\ BadPacket(next.buffer))
            goesOn == t[fd].srv /\ next.ok /\ next.buffer # <<>> /\ ~BadPacket(next.buffer)
            one == [daemon.cmd EXCEPT !.buffer = next.buffer]
            ends == Told(fd, d.out, d.cast, B)
            up(e) == IF e = fd /\ t[fd].srv THEN next.stream ELSE t[e].up
<1>5. /\ DOMAIN t = Clients
      /\ \A e \in Clients : DOMAIN t[e] = DOMAIN Closed /\ t[e].up = sock[e].up /\ (t[e].srv => sock[e].srv)
  <2>1. \A e \in Clients : DOMAIN sock[e] = DOMAIN Closed
    BY <1>1 DEF Shape, SockShape
  <2>. QED  BY <1>1, <2>1, SentKeeps, SentGivesUp
<1>13. /\ sock' = [e \in Clients |-> [t[e] EXCEPT !.srv = @ /\ e \notin gone, !.up = up(e)]]
       /\ daemon' = [daemon EXCEPT !.st = d.st, !.clis = Kept(sock'), !.cmd = IF goesOn THEN one ELSE NoCommand]
       /\ told' = [ends EXCEPT ![fd].lines = Append(@, Text(buffer))]
       /\ (gone = {} \/ fd \in gone) /\ (gone = {} <=> stays)
  BY <1>3, <1>5, Domains DEF Executed
<1>12. (stays => t[fd].srv /\ next.ok) /\ (goesOn <=> stays /\ next.buffer # <<>>) /\ (goesOn => ~BadPacket(next.buffer))
  OBVIOUS
<1>14. t[fd].srv => up(fd) = next.stream
  OBVIOUS
<1>15. \A e : e # fd => up(e) = t[e].up
  OBVIOUS
<1>6. DOMAIN ends = Clients /\ \A e \in Clients : DOMAIN ends[e] = {"events", "answers", "lines", "presses"} /\ ends[e].lines = told[e].lines
  BY DEF Told
<1>10. one.fd = fd /\ one.buffer = next.buffer /\ NoCommand.fd = None
  <2>1. DOMAIN daemon.cmd = DOMAIN NoCommand
    BY <1>1 DEF Shape, DaemonShape
  <2>. HIDE DEF next
  <2>. QED  BY <2>1, Domains DEF NoCommand
<1>. HIDE DEF t, next, stays, goesOn, one, ends, B, up
<1>4. /\ \A e \in Clients : sock'[e].up = up(e) /\ (sock'[e].srv <=> t[e].srv /\ e \notin gone)
      /\ told' = [ends EXCEPT ![fd].lines = Append(@, Text(buffer))]
  BY <1>5, <1>13, Domains
<1>11. (fd \in gone <=> ~stays) /\ (stays => t[fd].srv) /\ (stays => up(fd) = next.stream)
       /\ \A e \in Clients \ {fd} : up(e) = sock[e].up
  BY <1>5, <1>12, <1>13, <1>14, <1>15
<1>7. daemon'.up /\ daemon'.cmd = IF goesOn THEN one ELSE NoCommand
  BY <1>1, <1>2, <1>13 DEF Shape, DaemonShape
<1>8. CASE c # fd
  <2>1. sock'[c].up = sock[c].up /\ (sock'[c].srv => sock[c].srv)
    BY <1>1, <1>4, <1>5, <1>8, <1>11
  <2>2. told'[c].lines = told[c].lines
    BY <1>1, <1>4, <1>6, <1>8
  <2>3. daemon'.cmd.fd # c /\ daemon.cmd.fd # c
    BY <1>1, <1>7, <1>8, <1>10
  <2>. QED  BY <1>2, <2>1, <2>2, <2>3, StillPiped
<1>9. CASE c = fd
  <2>. DEFINE script == scene.script[c]
              lines == told[c].lines
              line == Append(lines, Text(buffer))
  <2>1. prog[c].pc = "wrote" /\ sock[c].srv /\ Newline(buffer) # 0
    BY <1>2, <1>9 DEF Piped
  <2>2. Follows(Words, script, lines, buffer, sock[c].up, TRUE)
    BY <1>2, <1>9, <2>1 DEF Piped, Served, Holds
  <2>3. told'[c].lines = line
    BY <1>1, <1>4, <1>6, <1>9
  <2>4. (sock'[c].srv <=> stays) /\ (stays => sock'[c].up = next.stream)
    BY <1>1, <1>4, <1>5, <1>9, <1>11
  <2>5. scene.packet \in Nat
    BY <1>1, RoomType
  <2>6. next = NextPacket(buffer, sock[c].up, scene.packet)
    BY <1>1, <1>5, <1>9 DEF next
  <2>7. next.ok => Follows(Words, script, line, next.buffer, next.stream, TRUE)
    BY ONLY <2>1, <2>2, <2>5, <2>6, FollowsNext, Zenon
  <2>8. Follows(Words, script, line, <<>>, <<>>, FALSE)
    <3>1. Follows(Words, script, line, From(buffer, Newline(buffer) + 1), sock[c].up, TRUE)
      BY ONLY <2>1, <2>2, FollowsTake, Zenon DEF NextCode, AfterCode
    <3>. QED  BY ONLY <3>1, FollowsDropped, Zenon
  <2>. HIDE DEF script, line, lines
  <2>9. CASE ~stays
    <3>1. ~Served(c)' /\ daemon'.cmd.fd # c
      BY <1>1, <1>7, <1>10, <1>12, <2>4, <2>9 DEF Served
    <3>. QED  BY <1>2, <2>1, <2>3, <2>8, <3>1 DEF Piped, script
  <2>10. CASE stays
    <3>1. Served(c)' /\ sock'[c].up = next.stream /\ sock'[c].srv
      BY <1>7, <2>4, <2>10 DEF Served
    <3>2. Holds(c)' = next.buffer
      BY <1>1, <1>7, <1>9, <1>10, <1>12, <2>10 DEF Holds
    <3>3. daemon'.cmd.fd = c => Newline(daemon'.cmd.buffer) # 0
      BY <1>1, <1>7, <1>10, <1>12 DEF BadPacket
    <3>4. Follows(Words, script, line, next.buffer, next.stream, TRUE)
      BY <1>12, <2>7, <2>10
    <3>. QED  BY <1>2, <2>1, <2>3, <3>1, <3>2, <3>3, <3>4 DEF Piped, script
  <2>. QED  BY <2>9, <2>10
<1>. QED  BY <1>8, <1>9

LEMMA PipedRepeats ==
    ASSUME HeardInv, LircdRepeats, NEW c \in Pipers, Piped(c)
    PROVE  Piped(c)'
<1>1. Shape /\ c \in Clients
  BY DEF HeardInv, Pipers
<1>2. scene' = scene /\ prog' = prog
  BY DEF LircdRepeats
<1>8. PICK sent :
         LET do == repeated(sent, daemon.st)
             socks == Sent(daemon.st.repeat.fd, do.out, <<>>, {})
         IN /\ sock' = [e \in Clients |-> [socks[e] EXCEPT !.srv = sock[e].srv]]
            /\ told' = Told(daemon.st.repeat.fd, do.out, <<>>, {})
            /\ daemon' = [daemon EXCEPT !.st = do.st]
  BY Zenon DEF LircdRepeats
<1>. DEFINE do == repeated(sent, daemon.st)
            fd == daemon.st.repeat.fd
            socks == Sent(fd, do.out, <<>>, {})
<1>3. /\ sock' = [e \in Clients |-> [socks[e] EXCEPT !.srv = sock[e].srv]]
      /\ told' = Told(fd, do.out, <<>>, {})
      /\ daemon' = [daemon EXCEPT !.st = do.st]
  BY <1>8
<1>4. DOMAIN socks[c] = DOMAIN Closed /\ socks[c].up = sock[c].up
  BY <1>1, SentKeeps
<1>5. told'[c].lines = told[c].lines
  BY <1>1, <1>3 DEF Told
<1>. HIDE DEF do, fd, socks
<1>6. sock'[c].up = sock[c].up /\ sock'[c].srv = sock[c].srv
  BY <1>1, <1>3, <1>4, Domains
<1>7. daemon'.up = daemon.up /\ daemon'.cmd = daemon.cmd
  BY <1>1, <1>3 DEF Shape, DaemonShape
<1>. QED  BY <1>2, <1>5, <1>6, <1>7, StillPiped

(* lircd writes to clients while no command is in hand. *)
LEMMA PipedBroadcast ==
    ASSUME Shape, scene' = scene, prog' = prog, NEW cast, NEW B,
           sock' = Sent(None, <<>>, cast, B), told' = Told(None, <<>>, cast, B),
           daemon.cmd.fd = None, daemon'.cmd = daemon.cmd, daemon'.up = daemon.up,
           NEW c \in Pipers, Piped(c)
    PROVE  Piped(c)'
<1>1. c \in Clients /\ c # None /\ DOMAIN sock[c] = DOMAIN Closed
  BY NetworkAssumption DEF Pipers, Shape, SockShape
<1>2. sock'[c].up = sock[c].up /\ (sock'[c].srv => sock[c].srv)
  BY <1>1, SentKeeps, SentGivesUp
<1>3. told'[c].lines = told[c].lines
  BY <1>1 DEF Told
<1>. QED  BY <1>1, <1>2, <1>3, StillPiped

LEMMA PipedReceives ==
    ASSUME HeardInv, LircdReceives, NEW c \in Pipers, Piped(c)
    PROVE  Piped(c)'
<1>. DEFINE event == <<Head(daemon.left)>>
            B == Range(daemon.clis)
            socks == Sent(None, <<>>, event, B)
<1>1. Shape
  BY DEF HeardInv
<1>2. /\ scene' = scene /\ prog' = prog /\ daemon.cmd.fd = None
      /\ sock' = socks /\ told' = Told(None, <<>>, event, B)
      /\ daemon' = [daemon EXCEPT !.left = Tail(@), !.clis = Kept(socks), !.st = decoded(Head(daemon.left), @)]
  BY DEF LircdReceives, Polling
<1>. HIDE DEF event, B
<1>3. daemon'.up = daemon.up /\ daemon'.cmd = daemon.cmd
  BY <1>1, <1>2 DEF Shape, DaemonShape
<1>. QED  BY ONLY <1>1, <1>2, <1>3, c \in Pipers, Piped(c), PipedBroadcast, Zenon

LEMMA PipedHups ==
    ASSUME HeardInv, LircdHups, NEW c \in Pipers, Piped(c)
    PROVE  Piped(c)'
<1>. DEFINE package == << <<"BEGIN">>, <<"SIGHUP">>, <<"END">> >>
            B == Range(daemon.clis)
            socks == Sent(None, <<>>, package, B)
<1>1. Shape
  BY DEF HeardInv
<1>2. /\ scene' = scene /\ prog' = prog /\ daemon.cmd.fd = None
      /\ sock' = socks /\ told' = Told(None, <<>>, package, B)
      /\ daemon' = [daemon EXCEPT !.hups = @ - 1, !.clis = Kept(socks)]
  BY DEF LircdHups, Polling
<1>. HIDE DEF package, B
<1>3. daemon'.up = daemon.up /\ daemon'.cmd = daemon.cmd
  BY <1>1, <1>2 DEF Shape, DaemonShape
<1>. QED  BY ONLY <1>1, <1>2, <1>3, c \in Pipers, Piped(c), PipedBroadcast, Zenon

LEMMA PipedPolls ==
    ASSUME HeardInv, LircdPolls, NEW c \in Pipers, Piped(c)
    PROVE  Piped(c)'
<1>1. /\ UNCHANGED <<scene, sock, prog, told>> /\ daemon.cmd.fd = None /\ c # None
      /\ daemon' = [daemon EXCEPT !.marks = Polled]
  BY NetworkAssumption DEF LircdPolls, Polling, Pipers
<1>2. daemon'.up = daemon.up /\ daemon'.cmd = daemon.cmd
  BY <1>1 DEF HeardInv, Shape, DaemonShape
<1>. QED  BY <1>1, <1>2, StillPiped

LEMMA PipedDies ==
    ASSUME HeardInv, LircdDies, NEW c \in Pipers, Piped(c)
    PROVE  Piped(c)'
<1>1. Shape /\ c \in Clients
  BY DEF HeardInv, Pipers
<1>2. /\ scene' = scene /\ prog' = prog /\ told' = told
      /\ daemon' = [daemon EXCEPT !.up = FALSE, !.clis = <<>>]
      /\ sock' = [e \in Clients |-> [sock[e] EXCEPT !.srv = FALSE, !.up = <<>>]]
  BY DEF LircdDies
<1>3. ~daemon'.up /\ daemon'.cmd = daemon.cmd
  BY <1>1, <1>2 DEF Shape, DaemonShape
<1>4. ~sock'[c].srv /\ sock'[c].up = <<>>
  BY <1>1, <1>2, Domains DEF Shape, SockShape
<1>. QED  BY <1>2, <1>3, <1>4, StillPiped

(* Nothing happens to the client. *)
LEMMA PipedStays ==
    ASSUME UNCHANGED <<scene, daemon>>, NEW c \in Pipers, Piped(c), told'[c].lines = told[c].lines,
           sock'[c] = sock[c], prog'[c] = prog[c]
    PROVE  Piped(c)'
  BY StillPiped

LEMMA PipedPeer ==
    ASSUME HeardInv, PeerConnects \/ PeerWaits \/ PeerReads \/ PeerSays \/ PeerEnds, NEW c \in Pipers, Piped(c)
    PROVE  Piped(c)'
<1>1. Shape
  BY DEF HeardInv
<1>2. CASE PeerConnects \/ PeerWaits \/ PeerSays \/ PeerEnds
  BY <1>2, PipedStays DEF PeerConnects, PeerWaits, PeerSays, PeerEnds
<1>3. CASE PeerReads
  <2>1. scene' = scene /\ prog' = prog /\ daemon.cmd.fd = None
    BY <1>3 DEF PeerReads, PeerReady, Polling
  <2>2. PICK chunk :
          LET m == get_peer_message(chunk)
              socks == Sent(None, <<>>, m.lines, Local)
          IN IF m.ok
             THEN /\ sock' = socks
                  /\ told' = Told(None, <<>>, m.lines, Local)
                  /\ daemon' = [daemon EXCEPT !.clis = Kept(socks)]
             ELSE UNCHANGED <<sock, told, daemon>>
    BY <1>3 DEF PeerReads
  <2>. DEFINE m == get_peer_message(chunk)
              socks == Sent(None, <<>>, m.lines, Local)
  <2>3. \/ UNCHANGED <<sock, told, daemon>>
        \/ /\ sock' = Sent(None, <<>>, m.lines, Local) /\ told' = Told(None, <<>>, m.lines, Local)
           /\ daemon' = [daemon EXCEPT !.clis = Kept(socks)]
    BY <2>2
  <2>. HIDE DEF m
  <2>4. CASE UNCHANGED <<sock, told, daemon>>
    BY <2>1, <2>4, PipedStays
  <2>5. CASE /\ sock' = Sent(None, <<>>, m.lines, Local) /\ told' = Told(None, <<>>, m.lines, Local)
             /\ daemon' = [daemon EXCEPT !.clis = Kept(socks)]
    <3>1. daemon'.up = daemon.up /\ daemon'.cmd = daemon.cmd
      BY <1>1, <2>5 DEF Shape, DaemonShape
    <3>. HIDE DEF socks
    <3>. QED  BY ONLY <1>1, <2>1, <2>5, <3>1, c \in Pipers, Piped(c), PipedBroadcast, Zenon
  <2>. QED  BY <2>3, <2>4, <2>5
<1>. QED  BY <1>2, <1>3

(* The other programs leave its connection alone. *)
LEMMA OthersStay ==
    ASSUME Shape, NEW e \in Clients, Runs(e) \/ Quits(e), NEW c \in Clients, c # e
    PROVE  sock'[c] = sock[c] /\ prog'[c] = prog[c] /\ UNCHANGED <<scene, daemon, told>>
<1>1. DOMAIN sock = Clients /\ DOMAIN prog = Clients
  BY DEF Shape, SockShape, ProgShape
<1>2. CASE Sends(e) \/ Pipes(e)
  BY <1>1, <1>2 DEF Sends, Pipes
<1>3. CASE Answered(e)
  BY <1>1, <1>3, Zenon DEF Answered
<1>4. CASE NextCodes(e)
  BY <1>1, <1>4 DEF NextCodes
<1>5. CASE RcConnects(e) \/ RcLaunches(e)
  BY <1>1, <1>5 DEF RcConnects, RcLaunches
<1>6. CASE Asks(e)
  BY <1>1, <1>6 DEF Asks
<1>7. CASE RcAnswered(e)
  BY <1>1, <1>7 DEF RcAnswered
<1>8. CASE Quits(e)
  BY <1>1, <1>8 DEF Quits
<1>. QED  BY <1>2, <1>3, <1>4, <1>5, <1>6, <1>7, <1>8 DEF Runs

(* It writes all its commands. *)
LEMMA PipedPipes ==
    ASSUME HeardInv, NEW c \in Pipers, Pipes(c), Piped(c)
    PROVE  Piped(c)'
<1>. DEFINE script == scene.script[c]
            n == Len(script)
            w == Written(script)
<1>1. Shape /\ c \in Clients
  BY DEF HeardInv, Pipers
<1>2. script \in Seq(Words)
  BY <1>1, NetworkAssumption DEF Shape
<1>3. /\ UNCHANGED <<scene, daemon, told>>
      /\ prog[c].pc = "call" /\ prog' = [prog EXCEPT ![c].pc = "wrote"]
      /\ sock' = [sock EXCEPT ![c].up = @ \o Written(prog[c].script)]
  BY DEF Pipes
<1>4. prog[c].script = script /\ told[c].lines = <<>> /\ sock[c].up = <<>> /\ ~(daemon.up /\ daemon.cmd.fd = c)
  BY <1>3 DEF Piped
<1>5. w \in Seq(PieceOf(Words)) /\ Len(w) = 3 * n /\ \A i \in 1..(3 * n) : w[i] = PieceAt(script, i)
  BY <1>2, WrittenType
<1>6. prog'[c].pc = "wrote" /\ sock'[c].srv = sock[c].srv /\ sock'[c].up = <<>> \o w
  BY <1>1, <1>3, <1>4, Domains DEF Shape, SockShape, ProgShape
<1>. HIDE DEF w
<1>7. <<>> \o w = w
  BY <1>5
<1>. HIDE DEF script
<1>8. Follows(Words, script, <<>>, <<>>, w, TRUE)
  <2>1. n \in Nat /\ Len(<<>>) = 0
    BY <1>2
  <2>2. \A i \in 1..Len(w) : w[i] = PieceAt(script, 3 * Len(<<>>) + Len(<<>>) + i)
    <3>. SUFFICES ASSUME NEW i \in 1..Len(w) PROVE w[i] = PieceAt(script, 3 * Len(<<>>) + Len(<<>>) + i)
      OBVIOUS
    <3>1. 3 * Len(<<>>) + Len(<<>>) + i = i /\ i \in 1..(3 * n)
      BY <1>5, <2>1
    <3>. QED  BY <1>5, <3>1
  <2>3. 3 * Len(<<>>) + Len(<<>>) + Len(w) = 3 * Len(script) /\ Len(<<>>) <= Len(script)
    BY <1>5, <2>1
  <2>4. <<>> \in Seq(Words) /\ <<>> \in Seq(PieceOf(Words))
    OBVIOUS
  <2>5. \A i \in 1..Len(<<>>) : FALSE
    BY <2>1
  <2>. QED  BY <1>2, <1>5, <2>2, <2>3, <2>4, <2>5 DEF Follows
<1>9. Follows(Words, script, <<>>, <<>>, <<>>, FALSE)
  BY <1>8, FollowsDropped
<1>10. Served(c)' => Holds(c)' = <<>>
  BY <1>3, <1>4 DEF Served, Holds
<1>. QED  BY <1>3, <1>4, <1>6, <1>7, <1>8, <1>9, <1>10 DEF Piped, script, Served

LEMMA PipedRuns ==
    ASSUME HeardInv, NEW e \in Clients, Runs(e) \/ Quits(e), NEW c \in Pipers, Piped(c)
    PROVE  Piped(c)'
<1>1. Shape /\ c \in Clients /\ Kind(c) = "nc"
  BY DEF HeardInv, Pipers
<1>2. CASE c # e
  BY <1>1, <1>2, OthersStay, PipedStays
<1>3. CASE c = e
  <2>1. prog[c].pc \in {"call", "wrote"}
    BY DEF Piped
  <2>2. Pipes(c)
    BY <1>1, <1>3, <2>1 DEF Runs, Sends, Answered, NextCodes, RcConnects, RcLaunches, Asks, RcAnswered, Quits
  <2>. QED  BY <2>2, PipedPipes
<1>. QED  BY <1>2, <1>3

LEMMA InitPiped == Init => PipedInv
<1>. SUFFICES ASSUME Init, NEW c \in Pipers PROVE Piped(c)
  BY DEF PipedInv
<1>1. PICK s \in Scenes : scene = s /\ InitScene(s)
  BY DEF Init
<1>2. c \in Clients /\ c # None /\ scene.kind[c] = "nc"
  BY NetworkAssumption DEF Pipers, Kind
<1>3. prog[c].pc = "call" /\ prog[c].script = scene.script[c]
  BY <1>1, <1>2 DEF InitScene, Program
<1>4. sock[c].up = <<>>
  BY <1>1, <1>2 DEF InitScene, Open, Closed
<1>5. daemon.cmd.fd # c
  BY <1>1, <1>2 DEF InitScene, NoCommand
<1>6. told[c].lines = <<>>
  BY <1>2 DEF Init
<1>. QED  BY <1>3, <1>4, <1>5, <1>6 DEF Piped

LEMMA PipedKept == HeardInv /\ PipedInv /\ [Next]_vars => PipedInv'
<1>. SUFFICES ASSUME HeardInv, PipedInv, [Next]_vars PROVE PipedInv'
  OBVIOUS
<1>1. scene' = scene
  <2>1. LircdPolls \/ LircdExecutes \/ LircdRepeats \/ LircdReceives \/ LircdHups \/ LircdDies => scene' = scene
    BY ZenonT(60) DEF LircdPolls, LircdExecutes, LircdRepeats, LircdReceives, LircdHups, LircdDies
  <2>2. PeerConnects \/ PeerWaits \/ PeerReads \/ PeerSays \/ PeerEnds => scene' = scene
    BY ZenonT(60) DEF PeerConnects, PeerWaits, PeerReads, PeerSays, PeerEnds
  <2>3. ASSUME NEW e \in Clients, LircdReads(e) \/ Runs(e) \/ Quits(e) PROVE scene' = scene
    BY <2>3, Zenon DEF LircdReads, Runs, Quits, Sends, Answered, Pipes, NextCodes, RcConnects, RcLaunches, Asks, RcAnswered
  <2>4. ASSUME NEW d \in Daemons, RcRuns(d) PROVE scene' = scene
    BY <2>4, RcStays
  <2>5. Quiet \/ UNCHANGED vars => scene' = scene
    BY DEF Quiet, vars
  <2>. QED  BY <2>1, <2>2, <2>3, <2>4, <2>5, Zenon DEF Next
<1>2. Pipers' = Pipers
  BY <1>1 DEF Pipers, Kind
<1>3. ASSUME NEW c \in Pipers PROVE Piped(c)'
  <2>0. Piped(c)
    BY DEF PipedInv
  <2>1. CASE UNCHANGED vars
    BY <2>0, <2>1, PipedStays DEF vars
  <2>2. CASE \E d \in Daemons : RcRuns(d)
    <3>1. UNCHANGED <<scene, daemon, sock, prog>> /\ ToldSame /\ c \in Clients
      BY <2>2, RcStays DEF Pipers
    <3>. QED  BY <2>0, <3>1, PipedStays DEF ToldSame
  <2>3. ASSUME NEW e \in Clients, LircdReads(e) \/ Runs(e) \/ Quits(e) PROVE Piped(c)'
    BY <2>0, <2>3, PipedReads, PipedRuns
  <2>4. CASE LircdPolls \/ LircdExecutes \/ LircdRepeats \/ LircdReceives \/ LircdHups \/ LircdDies
    BY <2>0, <2>4, PipedPolls, PipedExecutes, PipedRepeats, PipedReceives, PipedHups, PipedDies
  <2>5. CASE PeerConnects \/ PeerWaits \/ PeerReads \/ PeerSays \/ PeerEnds
    BY <2>0, <2>5, PipedPeer
  <2>. QED  BY <2>1, <2>2, <2>3, <2>4, <2>5 DEF Next, Quiet
<1>. QED  BY <1>2, <1>3 DEF PipedInv

LEMMA InvPiped == HeardInv /\ PipedInv => PipedInOrder
<1>. SUFFICES ASSUME HeardInv, PipedInv, NEW c \in Pipers
              PROVE  IsPrefix(told[c].lines, scene.script[c])
  BY DEF PipedInOrder
<1>1. Piped(c)
  BY DEF PipedInv
<1>2. CASE prog[c].pc = "wrote"
  BY <1>1, <1>2, FollowsPrefix DEF Piped
<1>3. CASE told[c].lines = <<>>
  <2>1. scene.script[c] \in Seq(Words)
    BY NetworkAssumption DEF HeardInv, Shape, Pipers
  <2>. QED  BY <1>3, <2>1 DEF IsPrefix
<1>. QED  BY <1>1, <1>2, <1>3 DEF Piped

(* The commands of a client that writes several at once are executed in    *)
(* order, each once and whole: with any number of clients and of commands, *)
(* any packet size and any room in the sockets, wherever get_command()'s   *)
(* reads cut, whatever the others do meanwhile, also when the client is    *)
(* dropped half-way or lircd dies (lircd.cpp:1771).                        *)
THEOREM CommandsInOrder == Spec => []PipedInOrder
<1>1. Spec => Init /\ [][Next]_vars
  BY DEF Spec
<1>2. Init => HeardInv /\ PipedInv
  BY InitInv, InitPiped
<1>3. HeardInv /\ PipedInv /\ [Next]_vars => (HeardInv /\ PipedInv)'
  BY NextKeeps, PipedKept
<1>4. HeardInv /\ PipedInv => PipedInOrder
  BY InvPiped
<1>. QED  BY <1>1, <1>2, <1>3, <1>4, PTL
=============================================================================
