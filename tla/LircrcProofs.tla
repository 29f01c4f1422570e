---------------------------- MODULE LircrcProofs ----------------------------
(* Proofs about Lircrc, for every lircrc file and every sequence of codes. *)
EXTENDS Lircrc, TLAPS

(* What TypeOK says of one entry. *)
LEMMA EntryTypes ==
    ASSUME TypeOK, NEW e \in Entries
    PROVE  /\ first[e] \in Entry
           /\ first[e].code \in Seq(Code) /\ Len(first[e].code) \in Nat
           /\ \A k \in 1..Len(first[e].code) : first[e].code[k] \in Code
           /\ next_code[e] \in Nat /\ next_config[e] \in Nat /\ since[e] \in Nat
           /\ first[e].code # <<>> => next_code[e] \in 1..Len(first[e].code)
           /\ first[e].config # 0 => next_config[e] \in 1..first[e].config
<1>1. first[e] \in Entry
  BY DEF TypeOK, Entries
<1>2. first[e].code \in Seq(Code)
  BY <1>1 DEF Entry
<1>3. Len(first[e].code) \in Nat /\ \A k \in 1..Len(first[e].code) : first[e].code[k] \in Code
  BY <1>2
<1>4. /\ next_code[e] \in Nat /\ next_config[e] \in Nat /\ since[e] \in Nat
      /\ first[e].code # <<>> => next_code[e] \in 1..Len(first[e].code)
      /\ first[e].config # 0 => next_config[e] \in 1..first[e].config
  BY DEF TypeOK
<1>5. QED
  BY <1>1, <1>2, <1>3, <1>4

LEMMA EmptyCode == ASSUME NEW S, NEW q \in Seq(S) PROVE q = <<>> <=> Len(q) = 0
  OBVIOUS

-----------------------------------------------------------------------------
(* Sequences of buttons *)

(* If d matches the press h, and c has a wildcard wherever d has one, then *)
(* c matches h exactly if it matches d: rebasing compares codes instead of *)
(* presses. *)
LEMMA MatchPair ==
    ASSUME NEW c \in Code, NEW d \in Code, NEW h \in Press, matches(d, h),
           d.remote = LIRC_ALL => c.remote = LIRC_ALL,
           d.button = LIRC_ALL => c.button = LIRC_ALL
    PROVE  matches(c, h) <=> matches(c, d)
<1>1. h.remote # LIRC_ALL /\ h.button # LIRC_ALL
  BY LircrcAssumption DEF Press
<1>2. QED
  BY <1>1 DEF matches

(* One press more. *)
LEMMA EndsStep ==
    ASSUME NEW e, NEW n \in Nat, NEW q \in Nat, q > 0, since[e] \in Nat
    PROVE  EndsWith(e, n + 1, q) <=>
               EndsWith(e, n, q - 1) /\ matches(first[e].code[q], presses[n + 1])
<1>1. ASSUME EndsWith(e, n + 1, q)
      PROVE  EndsWith(e, n, q - 1) /\ matches(first[e].code[q], presses[n + 1])
  <2>1. \A k \in 1..q : matches(first[e].code[k], presses[n + 1 - q + k])
    BY <1>1 DEF EndsWith
  <2>2. matches(first[e].code[q], presses[n + 1])
    <3>1. n + 1 - q + q = n + 1 /\ q \in 1..q
      OBVIOUS
    <3>2. QED
      BY <2>1, <3>1
  <2>3. \A k \in 1..q - 1 : k \in 1..q /\ n - (q - 1) + k = n + 1 - q + k
    OBVIOUS
  <2>4. \A k \in 1..q - 1 : matches(first[e].code[k], presses[n - (q - 1) + k])
    BY <2>1, <2>3
  <2>5. q - 1 <= n - since[e]
    BY <1>1 DEF EndsWith
  <2>6. QED
    BY <2>2, <2>4, <2>5 DEF EndsWith
<1>2. ASSUME EndsWith(e, n, q - 1), matches(first[e].code[q], presses[n + 1])
      PROVE  EndsWith(e, n + 1, q)
  <2>1. \A k \in 1..q - 1 : matches(first[e].code[k], presses[n - (q - 1) + k])
    BY <1>2 DEF EndsWith
  <2>2. ASSUME NEW k \in 1..q PROVE matches(first[e].code[k], presses[n + 1 - q + k])
    <3>1. CASE k = q
      <4>1. n + 1 - q + k = n + 1
        BY <3>1
      <4>2. QED
        BY <1>2, <3>1, <4>1
    <3>2. CASE k # q
      <4>1. k \in 1..q - 1 /\ n - (q - 1) + k = n + 1 - q + k
        BY <3>2
      <4>2. QED
        BY <2>1, <4>1
    <3>3. QED
      BY <3>1, <3>2
  <2>3. q <= n + 1 - since[e]
    BY <1>2 DEF EndsWith
  <2>4. QED
    BY <2>2, <2>3 DEF EndsWith
<1>3. QED
  BY <1>1, <1>2

(* Positions of the two codes that rebasing compares. *)
LEMMA Shifted ==
    ASSUME NEW c \in Int, NEW x \in Int, NEW k \in Int, NEW n \in Int, NEW l \in Int,
           2 <= x, x <= c, c <= l, 1 <= k, k <= x - 2
    PROVE  /\ k + (c + 1 - x) \in 1..c - 1 /\ k \in 1..l /\ k + (c + 1 - x) \in 1..l
           /\ k < k + (c + 1 - x)
           /\ n - (c - 1) + (k + (c + 1 - x)) = n - (x - 2) + k
<1>1. k + (c + 1 - x) >= 1 /\ k + (c + 1 - x) <= c - 1 /\ k < k + (c + 1 - x)
  OBVIOUS
<1>2. n - (c - 1) + (k + (c + 1 - x)) = n - (x - 2) + k
  OBVIOUS
<1>3. QED
  BY <1>1, <1>2

(* The comparison of codes in lirc_iscode() finds out whether the presses  *)
(* end with a shorter part of the sequence. *)
LEMMA Resume ==
    ASSUME TypeOK, NEW e \in Entries, Len(first[e].code) > 1, Orderly(first[e].code),
           NEW n \in Nat, n < Len(presses), presses[n + 1] = code,
           EndsWith(e, n, next_code[e] - 1),
           NEW x \in 2..next_code[e]
    PROVE  resumes(e, x) <=> EndsWith(e, n + 1, x - 1)
<1> DEFINE codes == first[e].code
           p == next_code[e] - 1
           shift == next_code[e] + 1 - x
<1>1. /\ codes \in Seq(Code) /\ Len(codes) \in Nat /\ next_code[e] \in 1..Len(codes)
      /\ since[e] \in Nat /\ \A k \in 1..Len(codes) : codes[k] \in Code
  BY EntryTypes, EmptyCode
<1>2. EndsWith(e, n + 1, x - 1) <=> EndsWith(e, n, x - 2) /\ matches(codes[x - 1], code)
  <2>1. x - 1 \in Nat /\ x - 1 > 0 /\ (x - 1) - 1 = x - 2
    BY <1>1
  <2>2. QED
    BY <1>1, <2>1, EndsStep
<1>3. p <= n - since[e] /\ \A k \in 1..p : matches(codes[k], presses[n - p + k])
  BY DEF EndsWith
<1>4. ASSUME NEW k \in 1..x - 2
      PROVE  matches(codes[k], presses[n - (x - 2) + k]) <=> matches(codes[k], codes[k + shift])
  <2>1. /\ k + shift \in 1..p /\ k \in 1..Len(codes) /\ k + shift \in 1..Len(codes) /\ k < k + shift
        /\ n - p + (k + shift) = n - (x - 2) + k
    <3>1. /\ next_code[e] \in Int /\ Len(codes) \in Int /\ next_code[e] <= Len(codes) /\ n \in Int
          /\ x \in Int /\ 2 <= x /\ x <= next_code[e] /\ k \in Int /\ 1 <= k /\ k <= x - 2
      BY <1>1
    <3>2. PICK c \in Int, l \in Int : c = next_code[e] /\ l = Len(codes)
      BY <3>1
    <3>3. /\ k + (c + 1 - x) \in 1..c - 1 /\ k \in 1..l /\ k + (c + 1 - x) \in 1..l
          /\ k < k + (c + 1 - x)
          /\ n - (c - 1) + (k + (c + 1 - x)) = n - (x - 2) + k
      <4>1. x \in Int /\ k \in Int /\ n \in Int /\ 2 <= x /\ x <= c /\ c <= l /\ 1 <= k /\ k <= x - 2
        BY <3>1, <3>2
      <4>2. QED
        BY <4>1, Shifted, SMT
    <3>4. QED
      BY <3>2, <3>3, Zenon
  <2>2. matches(codes[k + shift], presses[n - (x - 2) + k])
    BY <1>3, <2>1
  <2>3. n - (x - 2) + k \in 1..Len(presses)
    <3>1. Len(presses) \in Nat
      BY DEF TypeOK
    <3>2. next_code[e] - 1 <= n - since[e] /\ since[e] \in Nat /\ next_code[e] \in Nat
      BY <1>1, <1>3
    <3>3. x - 1 <= n /\ x \in Nat /\ k \in Nat /\ 1 <= k /\ k <= x - 2
      BY <3>2
    <3> HIDE DEF codes, p, shift
    <3>4. QED
      BY <3>1, <3>3
  <2>4. presses[n - (x - 2) + k] \in Press
    <3>1. presses \in Seq(Press)
      BY DEF TypeOK
    <3>2. PICK i : i = n - (x - 2) + k
      OBVIOUS
    <3>3. presses[i] \in Press
      BY <2>3, <3>1, <3>2
    <3>4. QED
      BY <3>2, <3>3
  <2>5. /\ codes[k + shift].remote = LIRC_ALL => codes[k].remote = LIRC_ALL
        /\ codes[k + shift].button = LIRC_ALL => codes[k].button = LIRC_ALL
    BY <2>1 DEF Orderly
  <2>6. codes[k] \in Code /\ codes[k + shift] \in Code
    BY <1>1, <2>1
  <2>7. PICK c \in Code, d \in Code, h \in Press :
            c = codes[k] /\ d = codes[k + shift] /\ h = presses[n - (x - 2) + k]
    BY <2>4, <2>6, Zenon
  <2>8. matches(d, h) /\ (d.remote = LIRC_ALL => c.remote = LIRC_ALL)
        /\ (d.button = LIRC_ALL => c.button = LIRC_ALL)
    BY <2>2, <2>5, <2>7, Zenon
  <2>9. matches(c, h) <=> matches(c, d)
    BY <2>8, MatchPair
  <2>10. QED
    BY <2>7, <2>9, Zenon
<1>5. x - 2 <= n - since[e]
  BY <1>1, <1>3
<1>6. EndsWith(e, n, x - 2) <=> \A k \in 1..x - 2 : matches(codes[k], codes[k + shift])
  BY <1>4, <1>5 DEF EndsWith
<1>7. QED
  BY <1>2, <1>6 DEF resumes

(* Entry e, having seen n presses, is where SequenceTracksPresses wants it. *)
Tracks(e, n) ==
    /\ EndsWith(e, n, next_code[e] - 1)
    /\ \A q \in next_code[e]..Len(first[e].code) : ~EndsWith(e, n, q)

(* What lirc_iscode() does to the positions, whatever the code is. *)
LEMMA AdvanceFrame ==
    ASSUME TypeOK, NEW e \in Entries, advance(e), first' = first, presses' = presses
    PROVE  /\ next_code' \in [Entries -> Nat] /\ since' \in [Entries -> Nat]
           /\ \A f \in Entries : first[f].code # <<>> => next_code'[f] \in 1..Len(first[f].code)
           /\ \A f \in Entries \ {e} : next_code'[f] = next_code[f] /\ since'[f] = since[f]
           /\ since'[e] \in {since[e], Len(presses)}
           /\ code.rep # 0 /\ Len(first[e].code) > 1 =>
                 next_code'[e] = next_code[e] /\ since'[e] = since[e]
<1>0. Len(presses) \in Nat
  BY DEF TypeOK
<1>1. /\ first[e].code \in Seq(Code) /\ Len(first[e].code) \in Nat /\ next_code[e] \in Nat
      /\ first[e].code # <<>> <=> Len(first[e].code) # 0
      /\ first[e].code # <<>> => next_code[e] \in 1..Len(first[e].code)
      /\ since[e] \in Nat /\ Len(presses) \in Nat
  BY <1>0, EntryTypes, EmptyCode
<1>2. /\ next_code \in [Entries -> Nat] /\ since \in [Entries -> Nat]
      /\ \A f \in Entries : first[f].code # <<>> => next_code[f] \in 1..Len(first[f].code)
  BY DEF TypeOK
<1>3. ASSUME NEW x \in Nat, first[e].code # <<>> => x \in 1..Len(first[e].code),
             next_code' = [next_code EXCEPT ![e] = x]
      PROVE  /\ next_code' \in [Entries -> Nat]
             /\ \A f \in Entries : first[f].code # <<>> => next_code'[f] \in 1..Len(first[f].code)
             /\ \A f \in Entries \ {e} : next_code'[f] = next_code[f]
  BY <1>2, <1>3
<1>4. CASE Len(first[e].code) = 0 \/ (code.rep # 0 /\ (Len(first[e].code) > 1 \/ ~expected(e)))
  <2>1. next_code' = next_code /\ since' = since
    BY <1>4 DEF advance
  <2>2. QED
    BY <1>2, <2>1
<1>5. CASE ~(Len(first[e].code) = 0 \/ (code.rep # 0 /\ (Len(first[e].code) > 1 \/ ~expected(e))))
  <2>1. CASE expected(e) /\ next_code[e] = Len(first[e].code)
    <3>1. /\ next_code' = [next_code EXCEPT ![e] = 1]
          /\ since' = [since EXCEPT ![e] = Len(presses)]
      BY <1>5, <2>1 DEF advance
    <3>2. 1 \in Nat /\ (first[e].code # <<>> => 1 \in 1..Len(first[e].code))
      BY <1>1
    <3>3. since' \in [Entries -> Nat] /\ since'[e] = Len(presses)
          /\ \A f \in Entries \ {e} : since'[f] = since[f]
      BY <1>1, <1>2, <3>1
    <3>4. QED
      BY <1>3, <1>5, <3>1, <3>2, <3>3
  <2>2. CASE expected(e) /\ next_code[e] # Len(first[e].code)
    <3>1. next_code' = [next_code EXCEPT ![e] = next_code[e] + 1] /\ since' = since
      BY <1>2, <1>5, <2>2 DEF advance
    <3>2. next_code[e] + 1 \in Nat /\ (first[e].code # <<>> => next_code[e] + 1 \in 1..Len(first[e].code))
      BY <1>1, <2>2
    <3>3. QED
      BY <1>2, <1>3, <1>5, <3>1, <3>2
  <2>3. CASE ~expected(e)
    <3>1. rebase(e) /\ since' = since
      BY <1>5, <2>3 DEF advance
    <3>2. PICK x \in 1..next_code[e] : next_code' = [next_code EXCEPT ![e] = x]
      BY <3>1 DEF rebase
    <3>3. x \in Nat /\ (first[e].code # <<>> => x \in 1..Len(first[e].code))
      BY <1>1
    <3>4. QED
      BY <1>2, <1>3, <1>5, <2>3, <3>1, <3>2, <3>3
  <2>4. QED
    BY <2>1, <2>2, <2>3
<1>6. QED
  BY <1>4, <1>5

(* The heart of the matter: with a new press, lirc_iscode() takes a        *)
(* sequence from the longest part the presses ended with to the longest    *)
(* part they end with now, or completes it. *)
LEMMA AdvanceTracks ==
    ASSUME TypeOK, NEW e \in Entries, Len(first[e].code) > 1, Orderly(first[e].code),
           NEW n \in Nat, Len(presses) = n + 1, presses[n + 1] = code, code.rep = 0,
           Tracks(e, n), since[e] <= n,
           advance(e), first' = first, presses' = presses
    PROVE  Tracks(e, n + 1)' /\ since'[e] <= n + 1
<1> DEFINE codes == first[e].code
           p == next_code[e] - 1
<1>1. /\ codes \in Seq(Code) /\ Len(codes) \in Nat /\ next_code[e] \in 1..Len(codes)
      /\ next_code \in [Entries -> Nat] /\ since[e] \in Nat /\ since \in [Entries -> Nat]
  <2>1. next_code \in [Entries -> Nat] /\ since \in [Entries -> Nat]
    BY DEF TypeOK
  <2>2. /\ codes \in Seq(Code) /\ Len(codes) \in Nat /\ since[e] \in Nat
        /\ codes # <<>> => next_code[e] \in 1..Len(codes)
    BY EntryTypes
  <2>3. codes # <<>>
    BY <2>2, EmptyCode
  <2>4. QED
    BY <2>1, <2>2, <2>3
<1>2. EndsWith(e, n, p) /\ \A q \in next_code[e]..Len(codes) : ~EndsWith(e, n, q)
  BY DEF Tracks
<1>3. ASSUME NEW q \in next_code[e] + 1..Len(codes) PROVE ~EndsWith(e, n + 1, q)
  <2>1. q \in Nat /\ q > 0 /\ q - 1 \in next_code[e]..Len(codes)
    BY <1>1
  <2>2. QED
    BY <1>1, <1>2, <2>1, EndsStep
<1>4. ~(Len(codes) = 0 \/ (code.rep # 0 /\ (Len(codes) > 1 \/ ~expected(e))))
  OBVIOUS
<1>5. EndsWith(e, n + 1, next_code[e]) <=> expected(e)
  <2>1. next_code[e] \in Nat /\ next_code[e] > 0
    BY <1>1
  <2>2. QED
    BY <1>1, <1>2, <2>1, EndsStep DEF expected
<1>6. EndsWith(e, n + 1, 0)
  BY <1>1 DEF EndsWith
<1>7. ASSUME since' = since, NEW q \in Int PROVE EndsWith(e, n + 1, q)' <=> EndsWith(e, n + 1, q)
  BY <1>7 DEF EndsWith, matches
<1>8. CASE expected(e) /\ next_code[e] = Len(codes)
  <2>1. /\ next_code' = [next_code EXCEPT ![e] = 1]
        /\ since' = [since EXCEPT ![e] = n + 1]
    BY <1>4, <1>8 DEF advance
  <2>2. next_code'[e] = 1 /\ since'[e] = n + 1
    BY <1>1, <2>1
  <2>3. EndsWith(e, n + 1, 0)'
    BY <2>2 DEF EndsWith
  <2>4. \A q \in 1..Len(codes) : ~EndsWith(e, n + 1, q)'
    BY <1>1, <2>2 DEF EndsWith
  <2>5. next_code'[e] - 1 = 0
    BY <2>2
  <2>6. QED
    BY <2>2, <2>3, <2>4, <2>5 DEF Tracks
<1>9. CASE expected(e) /\ next_code[e] # Len(codes)
  <2>1. next_code' = [next_code EXCEPT ![e] = next_code[e] + 1] /\ since' = since
    BY <1>1, <1>4, <1>9 DEF advance
  <2>2. PICK m \in Nat : m = next_code[e]
    BY <1>1
  <2>3. next_code'[e] = m + 1 /\ (m + 1) - 1 = m
    BY <1>1, <2>1, <2>2
  <2>4. since'[e] <= n + 1
    BY <1>1, <2>1
  <2>5. EndsWith(e, n + 1, m)'
    BY <1>5, <1>7, <1>9, <2>1, <2>2
  <2>6. \A q \in m + 1..Len(codes) : ~EndsWith(e, n + 1, q)'
    BY <1>3, <1>7, <2>1, <2>2
  <2>7. QED
    BY <2>3, <2>4, <2>5, <2>6 DEF Tracks
<1>10. CASE ~expected(e)
  <2>1. rebase(e) /\ since' = since
    BY <1>4, <1>10 DEF advance
  <2>2. PICK x \in 1..next_code[e] :
            /\ x > 1 => resumes(e, x)
            /\ \A y \in x + 1..next_code[e] : ~resumes(e, y)
            /\ next_code' = [next_code EXCEPT ![e] = x]
    BY <2>1 DEF rebase
  <2>3. next_code'[e] = x /\ since'[e] <= n + 1 /\ x \in Nat
    BY <1>1, <2>1, <2>2
  <2>4. EndsWith(e, n + 1, x - 1)
    <3>1. CASE x = 1
      <4>1. x - 1 = 0
        BY <3>1
      <4>2. QED
        BY <1>6, <4>1
    <3>2. CASE x # 1
      <4>1. x \in 2..next_code[e] /\ resumes(e, x)
        BY <1>1, <2>2, <3>2
      <4>2. n < Len(presses)
        OBVIOUS
      <4>3. QED
        BY <1>2, <4>1, <4>2, Resume
    <3>3. QED
      BY <3>1, <3>2
  <2>5. ASSUME NEW q \in x..Len(codes) PROVE ~EndsWith(e, n + 1, q)
    <3>1. CASE q < next_code[e]
      <4>1. q + 1 \in x + 1..next_code[e] /\ q + 1 \in 2..next_code[e] /\ (q + 1) - 1 = q
        BY <1>1, <2>3, <3>1
      <4>2. ~resumes(e, q + 1)
        BY <2>2, <4>1
      <4>3. n < Len(presses)
        OBVIOUS
      <4>4. resumes(e, q + 1) <=> EndsWith(e, n + 1, (q + 1) - 1)
        BY <1>2, <4>1, <4>3, Resume
      <4>5. QED
        BY <4>1, <4>2, <4>4
    <3>2. CASE q = next_code[e]
      BY <1>5, <1>10, <3>2
    <3>3. CASE q > next_code[e]
      <4>1. q \in next_code[e] + 1..Len(codes)
        BY <1>1, <2>3, <3>3
      <4>2. QED
        BY <1>3, <4>1
    <3>4. QED
      BY <1>1, <2>3, <3>1, <3>2, <3>3
  <2>6. EndsWith(e, n + 1, x - 1)'
    BY <1>7, <2>1, <2>3, <2>4
  <2>7. \A q \in x..Len(codes) : ~EndsWith(e, n + 1, q)'
    BY <1>7, <2>1, <2>5
  <2>8. QED
    BY <2>3, <2>6, <2>7 DEF Tracks
<1>11. QED
  BY <1>8, <1>9, <1>10

-----------------------------------------------------------------------------
(* Steps *)

(* SequenceTracksPresses, with the bound on since that goes with it. *)
Followed ==
    \A e \in Entries :
        /\ since[e] <= seen(e)
        /\ Len(first[e].code) > 1 /\ Orderly(first[e].code) => Tracks(e, seen(e))

LEMMA FollowedIff ==
    ASSUME TypeOK, pc # "crashed"
    PROVE  Followed <=> SequenceTracksPresses /\ \A e \in Entries : since[e] <= seen(e)
<1>1. \A e \in Entries : next_code[e] - 1 + 1 = next_code[e]
  BY EntryTypes
<1>2. QED
  BY <1>1 DEF Followed, SequenceTracksPresses, Tracks

(* A step that changes no position keeps them, if every entry has seen the *)
(* same presses as before. *)
LEMMA FollowedKept ==
    ASSUME TypeOK, Followed, first' = first, next_code' = next_code, since' = since,
           \A e \in Entries : seen(e)' = seen(e),
           \A e \in Entries : seen(e) \in Int /\ seen(e) <= Len(presses),
           \A k \in 1..Len(presses) : presses'[k] = presses[k]
    PROVE  Followed'
<1>1. SUFFICES ASSUME NEW e \in Entries
               PROVE  /\ since[e] <= seen(e)
                      /\ Len(first[e].code) > 1 /\ Orderly(first[e].code) => Tracks(e, seen(e))'
  BY DEF Followed, Entries, Orderly
<1>2. since[e] <= seen(e)
  BY DEF Followed
<1>3. ASSUME Len(first[e].code) > 1, Orderly(first[e].code) PROVE Tracks(e, seen(e))'
  <2>1. PICK n \in Int : n = seen(e)
    OBVIOUS
  <2>2. seen(e)' = n
    BY <2>1
  <2>3. Tracks(e, n)
    BY <1>3, <2>1 DEF Followed
  <2>4. Len(presses) \in Nat /\ since[e] \in Nat /\ n <= Len(presses) /\ next_code[e] \in Nat
        /\ Len(first[e].code) \in Nat
    <3>1. Len(presses) \in Nat
      BY DEF TypeOK
    <3>2. QED
      BY <2>1, <3>1, EntryTypes
  <2>5. ASSUME NEW q \in Int PROVE EndsWith(e, n, q)' <=> EndsWith(e, n, q)
    <3>1. CASE q <= n - since[e]
      <4>1. \A k \in 1..q : n - q + k \in 1..Len(presses)
        BY <2>4, <3>1
      <4>2. \A k \in 1..q : presses'[n - q + k] = presses[n - q + k]
        BY <4>1
      <4>3. QED
        BY <4>2 DEF EndsWith, matches
    <3>2. CASE ~(q <= n - since[e])
      BY <3>2 DEF EndsWith
    <3>3. QED
      BY <3>1, <3>2
  <2>6. Tracks(e, n)'
    BY <2>3, <2>4, <2>5 DEF Tracks
  <2>7. QED
    BY <2>2, <2>6
<1>4. QED
  BY <1>2, <1>3

(* One round of the loop: the entry it is at sees the press. *)
LEMMA FollowedExamined ==
    ASSUME TypeOK, Followed, pc = "scan", scan <= Len(first), presses # <<>>,
           code.rep = 0 => presses[Len(presses)] = code,
           advance(scan), first' = first, presses' = presses, code' = code,
           pc' \in {"scan", "string"}, reached' = scan + 1
    PROVE  Followed'
<1>1. /\ Len(presses) \in Nat /\ Len(presses) > 0 /\ Len(first) \in Nat
      /\ scan \in Entries /\ scan \in Nat
  <2>1. presses \in Seq(Press) /\ first \in Seq(Entry) /\ scan \in 1..Len(first) + 1
    BY DEF TypeOK, Past
  <2>2. Len(presses) # 0
    BY <2>1, EmptyCode
  <2>3. QED
    BY <2>1, <2>2 DEF Entries
<1>2. /\ \A f \in Entries \ {scan} : next_code'[f] = next_code[f] /\ since'[f] = since[f]
      /\ since'[scan] \in {since[scan], Len(presses)}
      /\ code.rep # 0 /\ Len(first[scan].code) > 1 =>
            next_code'[scan] = next_code[scan] /\ since'[scan] = since[scan]
  BY <1>1, AdvanceFrame
<1>3. ASSUME NEW e \in Entries
      PROVE  /\ since'[e] <= seen(e)'
             /\ Len(first[e].code) > 1 /\ Orderly(first[e].code) => Tracks(e, seen(e))'
  <2>1. since[e] \in Nat /\ e \in Nat
    BY EntryTypes DEF Entries
  <2>2. since[e] <= seen(e) /\ (Len(first[e].code) > 1 /\ Orderly(first[e].code) => Tracks(e, seen(e)))
    BY DEF Followed
  <2>3. CASE e # scan
    <3>1. seen(e)' = seen(e)
      BY <1>1, <2>1, <2>3 DEF seen, reached
    <3>0. seen(e) \in Int
      BY <1>1 DEF seen
    <3>2. PICK n \in Int : n = seen(e)
      BY <3>0
    <3>3. ASSUME NEW q \in Int PROVE EndsWith(e, n, q)' <=> EndsWith(e, n, q)
      BY <1>2, <2>3 DEF EndsWith, matches
    <3>4. next_code[e] \in Nat /\ next_code'[e] = next_code[e] /\ since'[e] = since[e]
          /\ Len(first[e].code) \in Nat
      BY <1>2, <2>3, EntryTypes
    <3>5. Tracks(e, n) => Tracks(e, n)'
      BY <3>3, <3>4 DEF Tracks
    <3>6. QED
      BY <2>2, <3>1, <3>2, <3>4, <3>5
  <2>4. CASE e = scan /\ code.rep # 0
    <3>1. seen(e)' = Len(presses) /\ seen(e) = Len(presses)
      BY <2>4 DEF seen
    <3>2. since'[e] <= seen(e)'
      BY <1>1, <1>2, <2>1, <2>2, <2>4, <3>1
    <3>3. ASSUME Len(first[e].code) > 1, Orderly(first[e].code) PROVE Tracks(e, seen(e))'
      <4>1. PICK n \in Int : n = Len(presses)
        BY <1>1
      <4>2. next_code'[e] = next_code[e] /\ since'[e] = since[e] /\ next_code[e] \in Nat
            /\ Len(first[e].code) \in Nat
        BY <1>2, <2>4, <3>3, EntryTypes
      <4>3. ASSUME NEW q \in Int PROVE EndsWith(e, n, q)' <=> EndsWith(e, n, q)
        BY <4>2 DEF EndsWith, matches
      <4>4. Tracks(e, n)
        BY <2>2, <3>1, <3>3, <4>1
      <4>5. Tracks(e, n)'
        BY <4>2, <4>3, <4>4 DEF Tracks
      <4>6. QED
        BY <3>1, <4>1, <4>5
    <3>4. QED
      BY <3>2, <3>3
  <2>5. CASE e = scan /\ code.rep = 0
    <3>0. Len(presses) - 1 \in Nat /\ Len(presses) = (Len(presses) - 1) + 1
      BY <1>1
    <3>1. PICK n \in Nat : Len(presses) = n + 1
      BY <3>0
    <3>2. seen(e) = n
      BY <1>1, <2>5, <3>1 DEF seen, reached
    <3>3. seen(e)' = n + 1
      BY <1>1, <2>5, <3>1 DEF seen
    <3>4. since'[e] <= n + 1
      BY <1>2, <2>1, <2>2, <2>5, <3>1, <3>2
    <3>5. ASSUME Len(first[e].code) > 1, Orderly(first[e].code) PROVE Tracks(e, n + 1)'
      <4>1. Tracks(e, n) /\ since[e] <= n
        BY <2>2, <3>2, <3>5
      <4>2. presses[n + 1] = code
        BY <2>5, <3>1
      <4>3. QED
        BY <2>5, <3>1, <3>5, <4>1, <4>2, AdvanceTracks
    <3>6. QED
      BY <3>3, <3>4, <3>5
  <2>6. QED
    BY <2>3, <2>4, <2>5
<1>4. QED
  BY <1>3 DEF Followed, Entries, Orderly

LoopVars ==
    /\ pc \in {"wait", "call"} => next = 1
    /\ working => presses # <<>> /\ (code.rep = 0 => presses[Len(presses)] = code)
    /\ pc = "scan" /\ (quit_happened \/ s # NoString) => next = Past

(* The invariant as the steps use it. *)
Whole == TypeOK /\ LoopVars /\ Followed /\ MatchInv /\ NothingAfterQuit /\ OnceInv

LEMMA IndGivesWhole == ASSUME IndInv, pc # "crashed" PROVE Whole
<1>1. TypeOK /\ LoopInv /\ SequenceTracksPresses /\ MatchInv /\ NothingAfterQuit /\ OnceInv
  BY DEF IndInv
<1>2. Followed
  BY <1>1, FollowedIff DEF LoopInv
<1>3. QED
  BY <1>1, <1>2 DEF Whole, LoopVars, LoopInv

LEMMA WholeGivesInd == ASSUME Whole', pc' # "crashed" PROVE IndInv'
<1>1. TypeOK' /\ LoopVars' /\ Followed' /\ MatchInv' /\ NothingAfterQuit' /\ OnceInv'
  BY DEF Whole
<1>2. SequenceTracksPresses' /\ \A e \in Entries' : since'[e] <= seen(e)'
  <2>1. \A e \in Entries' : next_code'[e] - 1 + 1 = next_code'[e]
    <3>1. next_code' \in [Entries' -> Nat]
      BY <1>1 DEF TypeOK
    <3>2. QED
      BY <3>1
  <2>2. QED
    BY <1>1, <2>1 DEF Followed, SequenceTracksPresses, Tracks
<1>3. LoopInv'
  BY <1>1, <1>2 DEF LoopInv, LoopVars
<1>4. OrderlyIsSafe'
  BY DEF OrderlyIsSafe
<1>5. QED
  BY <1>1, <1>2, <1>3, <1>4 DEF IndInv

(* Facts about the presses and entries that most steps need. *)
LEMMA Sizes ==
    ASSUME TypeOK
    PROVE  /\ first \in Seq(Entry) /\ Len(first) \in Nat
           /\ presses \in Seq(Press) /\ Len(presses) \in Nat
           /\ presses # <<>> <=> Len(presses) > 0
           /\ matched \in Seq(Entries) /\ Len(matched) \in Nat
           /\ \A k \in 1..Len(matched) : matched[k] \in Entries
           /\ next \in 1..Len(first) + 1 /\ scan \in 1..Len(first) + 1
<1>1. /\ first \in Seq(Entry) /\ presses \in Seq(Press) /\ matched \in Seq(Entries)
      /\ next \in 1..Len(first) + 1 /\ scan \in 1..Len(first) + 1
  BY DEF TypeOK, Past
<1>2. QED
  BY <1>1, EmptyCode

(* OnceInv and NothingAfterQuit depend on their own variables only. *)
LEMMA OnceKept ==
    ASSUME OnceInv, first' = first, passed' = passed, ecno' = ecno, left' = left
    PROVE  OnceInv'
  BY DEF OnceInv, only_once, Entries

LEMMA OrderKept ==
    ASSUME NothingAfterQuit, first' = first, matched' = matched PROVE NothingAfterQuit'
  BY DEF NothingAfterQuit

LEMMA NoMatchYet ==
    ASSUME matched' = <<>> PROVE MatchInv' /\ NothingAfterQuit'
<1>1. 1..Len(matched') = {}
  OBVIOUS
<1>2. QED
  BY <1>1 DEF MatchInv, NothingAfterQuit

LEMMA ButtonPressStep == ASSUME Whole, button_press PROVE Whole'
<1> USE DEF Whole
<1>1. /\ code' \in Press /\ code'.rep = 0 /\ pc = "wait" /\ pc' = "call" /\ next = 1
      /\ presses' = Append(presses, code') /\ matched' = <<>>
      /\ UNCHANGED <<first, state, next, local, since, passed, left>>
  BY DEF button_press, Press, LoopVars
<1>2. /\ presses' \in Seq(Press) /\ Len(presses') = Len(presses) + 1
      /\ presses'[Len(presses) + 1] = code' /\ presses' # <<>>
      /\ \A k \in 1..Len(presses) : presses'[k] = presses[k]
  BY <1>1, Sizes
<1>3. TypeOK'
  <2>1. matched' \in Seq(Entries)
    BY <1>1
  <2>2. QED
    BY <1>1, <1>2, <2>1 DEF TypeOK, Entries, Past, state, local
<1>4. LoopVars'
  BY <1>1, <1>2, Sizes DEF LoopVars, working
<1>5. Followed'
  <2>1. \A e \in Entries : seen(e) = Len(presses) /\ seen(e)' = Len(presses)
    BY <1>1, <1>2, Sizes DEF seen, reached, Entries
  <2>2. \A e \in Entries : seen(e)' = seen(e) /\ seen(e) \in Int /\ seen(e) <= Len(presses)
    BY <2>1, Sizes
  <2>3. next_code' = next_code /\ since' = since /\ first' = first
    BY <1>1 DEF state
  <2>4. QED
    BY <1>2, <2>2, <2>3, FollowedKept
<1>6. OnceInv'
  BY <1>1, OnceKept DEF state
<1>7. QED
  BY <1>1, <1>3, <1>4, <1>5, <1>6, NoMatchYet

LEMMA ButtonRepeatStep == ASSUME Whole, button_repeat PROVE Whole'
<1> USE DEF Whole
<1>1. /\ code' = [code EXCEPT !.rep = code.rep + 1] /\ pc = "wait" /\ pc' = "call" /\ next = 1
      /\ presses # <<>> /\ matched' = <<>>
      /\ UNCHANGED <<first, state, next, local, presses, since, passed, left>>
  BY DEF button_repeat, Press, LoopVars
<1>2. code' \in Press /\ code'.rep # 0
  <2>1. code \in Press
    BY DEF TypeOK
  <2>2. QED
    BY <1>1, <2>1 DEF Press
<1>3. TypeOK'
  <2>1. matched' \in Seq(Entries)
    BY <1>1
  <2>2. QED
    BY <1>1, <1>2, <2>1 DEF TypeOK, Entries, Past, state, local
<1>4. LoopVars'
  BY <1>1, <1>2 DEF LoopVars, working
<1>5. Followed'
  <2>1. \A e \in Entries : seen(e) = Len(presses) /\ seen(e)' = Len(presses)
    BY <1>1, <1>2 DEF seen
  <2>2. \A e \in Entries : seen(e)' = seen(e) /\ seen(e) \in Int /\ seen(e) <= Len(presses)
    BY <2>1, Sizes
  <2>3. next_code' = next_code /\ since' = since /\ first' = first /\ presses' = presses
    BY <1>1 DEF state
  <2>4. QED
    BY <2>2, <2>3, FollowedKept
<1>6. OnceInv'
  BY <1>1, OnceKept DEF state
<1>7. QED
  BY <1>1, <1>3, <1>4, <1>5, <1>6, NoMatchYet

LEMMA SetModeStep == ASSUME Whole, lirc_setmode PROVE Whole'
<1> USE DEF Whole
<1>1. /\ current_mode' \in SetModes
      /\ UNCHANGED <<first, next_code, next_config, ecno, next, pc, code, local, history>>
  BY DEF lirc_setmode
<1>2. TypeOK'
  BY <1>1, LircrcAssumption DEF TypeOK, Entries, Past, local, history
<1>3. LoopVars' /\ MatchInv'
  BY <1>1 DEF LoopVars, MatchInv, working, reached, Past, local, history
<1>4. Followed'
  <2>1. UNCHANGED <<first, next_code, next, pc, code, scan, presses, since>>
    BY <1>1 DEF local, history
  <2>2. \A e : seen(e)' = seen(e)
    BY <2>1 DEF seen, reached
  <2>3. \A e, n, q : EndsWith(e, n, q)' <=> EndsWith(e, n, q)
    BY <2>1 DEF EndsWith, matches
  <2>4. Entries' = Entries
    BY <2>1 DEF Entries
  <2>5. QED
    BY <2>1, <2>2, <2>3, <2>4 DEF Followed, Tracks, Orderly
<1>5. OnceInv' /\ NothingAfterQuit'
  BY <1>1, OnceKept, OrderKept DEF history
<1>6. QED
  BY <1>2, <1>3, <1>4, <1>5

LEMMA Code2charStep == ASSUME Whole, lirc_code2char PROVE Whole'
<1> USE DEF Whole
<1>1. /\ pc \in {"call", "string"} /\ pc' = "scan" /\ scan' = next /\ quit_happened' = FALSE
      /\ s' = NoString
      /\ UNCHANGED <<first, state, next, code, history>>
  BY DEF lirc_code2char
<1>2. TypeOK'
  BY <1>1 DEF TypeOK, Entries, Past, state, history, NoString
<1>3. LoopVars' /\ MatchInv'
  BY <1>1 DEF LoopVars, MatchInv, working, reached, Past, state, history
<1>4. Followed'
  <2>1. reached' = reached
    BY <1>1 DEF reached
  <2>2. \A e \in Entries : seen(e)' = seen(e)
    BY <1>1, <2>1 DEF seen, history
  <2>3. \A e \in Entries : seen(e) \in Int /\ seen(e) <= Len(presses)
    BY Sizes DEF seen
  <2>4. next_code' = next_code /\ since' = since /\ first' = first /\ presses' = presses
    BY <1>1 DEF state, history
  <2>5. QED
    BY <2>2, <2>3, <2>4, FollowedKept
<1>5. OnceInv' /\ NothingAfterQuit'
  BY <1>1, OnceKept, OrderKept DEF state, history
<1>6. QED
  BY <1>2, <1>3, <1>4, <1>5

LEMMA ScanEndedStep == ASSUME Whole, scan_ended PROVE Whole'
<1> USE DEF Whole
<1>1. /\ pc = "scan" /\ scan = Past
      /\ IF s # NoString THEN pc' = "string" /\ next' = next ELSE pc' = "wait" /\ next' = 1
      /\ UNCHANGED <<first, state, code, local, history>>
  BY DEF scan_ended
<1>2. s # NoString => next = Past
  BY <1>1 DEF LoopVars
<1>3. TypeOK'
  <2>1. next' \in 1..Past /\ pc' \in {"wait", "call", "scan", "string", "crashed"}
    <3>1. next \in 1..Past /\ 1 \in 1..Past
      BY Sizes DEF TypeOK, Past
    <3>2. QED
      BY <1>1, <3>1
  <2>2. UNCHANGED <<first, next_code, next_config, ecno, current_mode, code, scan, quit_happened, s>>
        /\ UNCHANGED history
    BY <1>1 DEF state, local
  <2>3. QED
    BY <2>1, <2>2 DEF TypeOK, Entries, Past, history
<1>4. LoopVars' /\ MatchInv'
  BY <1>1, <1>2 DEF LoopVars, MatchInv, working, reached, Past, state, local, history
<1>5. Followed'
  <2>1. \A e \in Entries : ~(e >= Past)
    BY Sizes DEF Entries, Past
  <2>2. \A e \in Entries : seen(e) = Len(presses) /\ seen(e)' = Len(presses)
    BY <1>1, <1>2, <2>1 DEF seen, reached, Past, history, state
  <2>3. \A e \in Entries : seen(e)' = seen(e) /\ seen(e) \in Int /\ seen(e) <= Len(presses)
    BY <2>2, Sizes
  <2>4. next_code' = next_code /\ since' = since /\ first' = first /\ presses' = presses
    BY <1>1 DEF state, history
  <2>5. QED
    BY <2>3, <2>4, FollowedKept
<1>6. OnceInv' /\ NothingAfterQuit'
  BY <1>1, OnceKept, OrderKept DEF state, history
<1>7. QED
  BY <1>3, <1>4, <1>5, <1>6

-----------------------------------------------------------------------------
(* The rounds of the loop *)

(* After go_on() the loop, or the next call, is behind the entry. *)
LEMMA GoOn ==
    ASSUME Whole, pc = "scan", scan <= Len(first), ~quit_happened, first' = first, go_on(s')
    PROVE  /\ pc' \in {"scan", "string"} /\ reached' = scan + 1
           /\ next' \in 1..Past /\ scan' \in 1..Past /\ quit_happened' \in BOOLEAN
           /\ "quit" \in first[scan].flags => pc' = "scan" /\ quit_happened'
           /\ pc' = "scan" /\ (quit_happened' \/ s' # NoString) => next' = Past
<1>1. Len(first) \in Nat /\ scan \in 1..Len(first) + 1 /\ next \in 1..Len(first) + 1
  BY Sizes DEF Whole
<1>2. CASE "quit" \in first[scan].flags
  BY <1>1, <1>2 DEF go_on, reached, Past
<1>3. CASE "quit" \notin first[scan].flags
  <2>1. quit_happened = FALSE
    BY DEF Whole, TypeOK
  <2>2. quit_happened' = FALSE
    BY <1>3, <2>1 DEF go_on
  <2>3. CASE s' # NoString
    <3>1. next' = scan + 1 /\ pc' = "string" /\ scan' = scan
      BY <1>3, <2>3 DEF go_on
    <3>2. reached' = scan + 1
      BY <3>1 DEF reached
    <3>3. next' \in 1..Past /\ scan' \in 1..Past
      BY <1>1, <3>1 DEF Past
    <3>4. QED
      BY <1>3, <2>2, <3>1, <3>2, <3>3
  <2>4. CASE s' = NoString
    <3>1. next' = next /\ pc' = "scan" /\ scan' = scan + 1
      BY <1>3, <2>4 DEF go_on
    <3>2. reached' = scan + 1
      BY <3>1 DEF reached
    <3>3. next' \in 1..Past /\ scan' \in 1..Past
      BY <1>1, <3>1 DEF Past
    <3>4. QED
      BY <1>3, <2>2, <2>4, <3>1, <3>2, <3>3
  <2>5. QED
    BY <2>3, <2>4
<1>4. QED
  BY <1>2, <1>3

(* The entry is put down as the last match. *)
LEMMA Matched ==
    ASSUME Whole, pc = "scan", scan <= Len(first), ~quit_happened, first' = first,
           matched' = Append(matched, scan), reached' = scan + 1,
           "quit" \in first[scan].flags => pc' = "scan" /\ quit_happened'
    PROVE  matched' \in Seq(Entries) /\ MatchInv' /\ NothingAfterQuit'
<1>1. /\ Len(first) \in Nat /\ scan \in Entries /\ scan \in Nat /\ matched \in Seq(Entries)
      /\ Len(matched) \in Nat /\ \A k \in 1..Len(matched) : matched[k] \in Entries
  BY Sizes DEF Whole, Entries
<1>2. /\ matched' \in Seq(Entries) /\ Len(matched') = Len(matched) + 1
      /\ matched'[Len(matched) + 1] = scan
      /\ \A k \in 1..Len(matched) : matched'[k] = matched[k]
  BY <1>1
<1>3. \A k \in 1..Len(matched) :
         matched[k] \in Nat /\ matched[k] < scan /\ "quit" \notin first[matched[k]].flags
  <2>1. \A k \in 1..Len(matched) :
           /\ matched[k] < reached
           /\ "quit" \in first[matched[k]].flags => (pc = "scan" /\ quit_happened) \/ reached = Past
    BY DEF Whole, MatchInv, working
  <2>2. reached = scan /\ scan # Past
    BY <1>1 DEF reached, Past
  <2>3. QED
    BY <1>1, <2>1, <2>2 DEF Entries
<1>4. \A k \in 1..Len(matched') : k \in 1..Len(matched) \/ k = Len(matched) + 1
  BY <1>1, <1>2
<1>5. MatchInv'
  <2>1. SUFFICES ASSUME NEW k \in 1..Len(matched')
                 PROVE  /\ matched'[k] < scan + 1
                        /\ "quit" \in first[matched'[k]].flags => pc' = "scan" /\ quit_happened'
    BY DEF MatchInv
  <2>2. CASE k \in 1..Len(matched)
    BY <1>1, <1>2, <1>3, <2>2
  <2>3. CASE k = Len(matched) + 1
    BY <1>1, <1>2, <2>3
  <2>4. QED
    BY <1>4, <2>2, <2>3
<1>6. NothingAfterQuit'
  <2>1. SUFFICES ASSUME NEW a \in 1..Len(matched'), NEW b \in 1..Len(matched'), a < b
                 PROVE  matched'[a] < matched'[b] /\ "quit" \notin first[matched'[a]].flags
    BY DEF NothingAfterQuit
  <2>2. a \in 1..Len(matched)
    <3>1. a \in Int /\ b \in Int /\ 1 <= a /\ b <= Len(matched) + 1
      BY <1>1, <1>2
    <3>2. QED
      BY <1>1, <2>1, <3>1
  <2>3. CASE b \in 1..Len(matched)
    <3>1. matched[a] < matched[b] /\ "quit" \notin first[matched[a]].flags
      BY <2>1, <2>2, <2>3 DEF Whole, NothingAfterQuit
    <3>2. QED
      BY <1>2, <2>2, <2>3, <3>1
  <2>4. CASE b = Len(matched) + 1
    BY <1>2, <1>3, <2>2, <2>4
  <2>5. QED
    BY <1>4, <2>3, <2>4
<1>7. QED
  BY <1>2, <1>5, <1>6

LEMMA EntryIgnoredStep == ASSUME Whole, entry_ignored PROVE Whole'
<1> USE DEF Whole
<1>1. /\ pc = "scan" /\ scan <= Len(first) /\ advance(scan) /\ scan' = scan + 1
      /\ next_config' = IF toggle_resets(scan) THEN [next_config EXCEPT ![scan] = 1] ELSE next_config
      /\ UNCHANGED <<first, ecno, current_mode, next, pc, code, quit_happened, s, presses, matched,
                     passed, left>>
  BY DEF entry_ignored, examining
<1>2. /\ Len(first) \in Nat /\ scan \in Entries /\ scan \in Nat
      /\ \A k \in 1..Len(matched) : matched[k] \in Entries
  BY <1>1, Sizes DEF Entries
<1>3. TypeOK'
  <2>1. /\ next_code' \in [Entries -> Nat] /\ since' \in [Entries -> Nat]
        /\ \A f \in Entries : first[f].code # <<>> => next_code'[f] \in 1..Len(first[f].code)
    BY <1>1, <1>2, AdvanceFrame
  <2>2. /\ next_config' \in [Entries -> Nat]
        /\ \A f \in Entries : first[f].config # 0 => next_config'[f] \in 1..first[f].config
    <3>1. /\ next_config \in [Entries -> Nat]
          /\ \A f \in Entries : first[f].config \in Nat
          /\ \A f \in Entries : first[f].config # 0 => next_config[f] \in 1..first[f].config
      BY EntryTypes DEF TypeOK, Entry
    <3>2. QED
      BY <1>1, <1>2, <3>1
  <2>3. scan' \in 1..Len(first) + 1
    BY <1>1, <1>2
  <2>4. QED
    BY <1>1, <2>1, <2>2, <2>3 DEF TypeOK, Entries, Past
<1>4. LoopVars'
  BY <1>1 DEF LoopVars, working, Past
<1>5. MatchInv'
  <2>1. \A k \in 1..Len(matched) : matched[k] < scan /\ matched[k] \in Nat
    BY <1>1, <1>2 DEF MatchInv, working, reached, Entries
  <2>2. \A k \in 1..Len(matched) : "quit" \in first[matched[k]].flags => quit_happened
    BY <1>1, <1>2 DEF MatchInv, working, reached, Past
  <2>3. QED
    BY <1>1, <1>2, <2>1, <2>2 DEF MatchInv, reached
<1>6. Followed'
  <2>1. presses # <<>> /\ (code.rep = 0 => presses[Len(presses)] = code)
    BY <1>1 DEF LoopVars, working
  <2>2. reached' = scan + 1
    BY <1>1 DEF reached
  <2>3. QED
    BY <1>1, <2>1, <2>2, FollowedExamined
<1>7. OnceInv' /\ NothingAfterQuit'
  BY <1>1, OnceKept, OrderKept
<1>8. QED
  BY <1>3, <1>4, <1>5, <1>6, <1>7

LEMMA EntryPartStep == ASSUME Whole, entry_part PROVE Whole'
<1> USE DEF Whole
<1>1. /\ pc = "scan" /\ scan <= Len(first) /\ ~quit_happened /\ advance(scan)
      /\ s' = NoString /\ go_on(s') /\ matched' = Append(matched, scan)
      /\ UNCHANGED <<first, next_config, ecno, current_mode, code, presses, passed, left>>
  BY DEF entry_part, examining, counts
<1>2. /\ pc' \in {"scan", "string"} /\ reached' = scan + 1
      /\ next' \in 1..Past /\ scan' \in 1..Past /\ quit_happened' \in BOOLEAN
      /\ "quit" \in first[scan].flags => pc' = "scan" /\ quit_happened'
      /\ pc' = "scan" /\ (quit_happened' \/ s' # NoString) => next' = Past
  BY <1>1, GoOn
<1>3. matched' \in Seq(Entries) /\ MatchInv' /\ NothingAfterQuit'
  BY <1>1, <1>2, Matched
<1>4. presses # <<>> /\ (code.rep = 0 => presses[Len(presses)] = code)
  BY <1>1 DEF LoopVars, working
<1>5. TypeOK'
  <2>1. scan \in Entries
    BY <1>1, Sizes DEF Entries
  <2>2. /\ next_code' \in [Entries -> Nat] /\ since' \in [Entries -> Nat]
        /\ \A f \in Entries : first[f].code # <<>> => next_code'[f] \in 1..Len(first[f].code)
    BY <1>1, <2>1, AdvanceFrame
  <2>3. QED
    BY <1>1, <1>2, <1>3, <2>2 DEF TypeOK, Entries, Past, NoString
<1>6. LoopVars'
  BY <1>1, <1>2, <1>4 DEF LoopVars, Past
<1>7. Followed'
  BY <1>1, <1>2, <1>4, FollowedExamined
<1>8. OnceInv'
  BY <1>1, OnceKept
<1>9. QED
  BY <1>3, <1>5, <1>6, <1>7, <1>8

(* lirc_execute(): types, and the account of strings and modes left. *)
LEMMA ExecuteTypes ==
    ASSUME TypeOK, NEW e \in Entries, lirc_execute(e), first' = first
    PROVE  /\ next_config' \in [Entries -> Nat]
           /\ \A f \in Entries : first[f].config # 0 => next_config'[f] \in 1..first[f].config
           /\ ecno' \subseteq Entries /\ current_mode' \in Names \cup {NULL}
           /\ s' \in [entry : Nat, config : Nat]
           /\ passed' \in [Entries -> Nat] /\ left' \in [Names -> Nat]
<1>1. /\ next_config \in [Entries -> Nat] /\ ecno \subseteq Entries
      /\ current_mode \in Names \cup {NULL} /\ passed \in [Entries -> Nat] /\ left \in [Names -> Nat]
      /\ \A f \in Entries : first[f].config # 0 => next_config[f] \in 1..first[f].config
  BY DEF TypeOK
<1>2. /\ first[e].change_mode \in Names \cup {NULL} /\ first[e].config \in Nat
      /\ next_config[e] \in Nat /\ e \in Nat
      /\ first[e].config # 0 => next_config[e] \in 1..first[e].config
  BY EntryTypes DEF Entry, Entries
<1>3. ecno' \subseteq Entries
  BY <1>1 DEF lirc_execute, cleared
<1>4. current_mode' \in Names \cup {NULL}
  BY <1>1, <1>2 DEF lirc_execute
<1>5. left' \in [Names -> Nat]
  <2>1. CASE "mode" \in first[e].flags /\ current_mode # NULL
    <3>1. left' = [left EXCEPT ![current_mode] = left[current_mode] + 1] /\ current_mode \in Names
      BY <1>1, <2>1 DEF lirc_execute
    <3>2. QED
      BY <1>1, <3>1
  <2>2. CASE ~("mode" \in first[e].flags /\ current_mode # NULL)
    BY <1>1, <2>2 DEF lirc_execute
  <2>3. QED
    BY <2>1, <2>2
<1>6. CASE passes(e)
  <2>1. /\ s' = [entry |-> e, config |-> next_config[e]]
        /\ next_config' = [next_config EXCEPT ![e] = turn(e)]
        /\ passed' = [passed EXCEPT ![e] = passed[e] + 1]
    BY <1>1, <1>6 DEF lirc_execute
  <2>2. first[e].config # 0
    BY <1>6 DEF passes
  <2>3. turn(e) \in Nat /\ turn(e) \in 1..first[e].config
    BY <1>2, <2>2 DEF turn
  <2>4. QED
    BY <1>1, <1>2, <1>3, <1>4, <1>5, <2>1, <2>3
<1>7. CASE ~passes(e)
  <2>1. s' = NoString /\ next_config' = next_config /\ passed' = passed
    BY <1>7 DEF lirc_execute
  <2>2. QED
    BY <1>1, <1>3, <1>4, <1>5, <2>1 DEF NoString
<1>8. QED
  BY <1>6, <1>7

LEMMA ExecuteOnce ==
    ASSUME TypeOK, OnceInv, NEW e \in Entries, lirc_execute(e), first' = first
    PROVE  OnceInv'
<1>1. SUFFICES ASSUME NEW f \in Entries, only_once(f)
               PROVE  passed'[f] + (IF f \in ecno' THEN 0 ELSE 1) <= left'[first[f].change_mode] + 1
  BY DEF OnceInv, only_once, Entries
<1> DEFINE m == first[f].change_mode
<1>2. /\ passed \in [Entries -> Nat] /\ left \in [Names -> Nat] /\ current_mode \in Names \cup {NULL}
      /\ m \in Names /\ passed[f] \in Nat /\ left[m] \in Nat
  <2>1. m \in Names
    BY <1>1, EntryTypes DEF only_once, Entry
  <2>2. QED
    BY <2>1 DEF TypeOK
<1>3. left'[m] \in Nat /\ left'[m] >= left[m]
      /\ ("mode" \in first[e].flags /\ current_mode = m => left'[m] = left[m] + 1)
  <2>1. CASE "mode" \in first[e].flags /\ current_mode # NULL
    <3>1. left' = [left EXCEPT ![current_mode] = left[current_mode] + 1] /\ current_mode \in Names
      BY <1>2, <2>1 DEF lirc_execute
    <3>2. CASE current_mode = m
      BY <1>2, <3>1, <3>2
    <3>3. CASE current_mode # m
      BY <1>2, <3>1, <3>3
    <3>4. QED
      BY <3>2, <3>3
  <2>2. CASE ~("mode" \in first[e].flags /\ current_mode # NULL)
    <3>1. left' = left /\ m # NULL
      BY <1>1, <2>2 DEF lirc_execute, only_once
    <3>2. QED
      BY <1>2, <2>2, <3>1
  <2>3. QED
    BY <2>1, <2>2
<1>4. passed[f] + (IF f \in ecno THEN 0 ELSE 1) <= left[m] + 1
  BY <1>1 DEF OnceInv
<1>5. f \in ecno /\ f \notin cleared(e) => left'[m] = left[m] + 1
  BY <1>3 DEF cleared
<1>6. cleared(e) \subseteq ecno
  BY DEF cleared
<1>7. passed[f] + (IF f \in cleared(e) THEN 0 ELSE 1) <= left'[m] + 1
  <2>1. CASE f \in cleared(e)
    BY <1>2, <1>3, <1>4, <1>6, <2>1
  <2>2. CASE f \notin cleared(e) /\ f \in ecno
    BY <1>2, <1>3, <1>4, <1>5, <2>2
  <2>3. CASE f \notin cleared(e) /\ f \notin ecno
    BY <1>2, <1>3, <1>4, <2>3
  <2>4. QED
    BY <2>1, <2>2, <2>3
<1>8. CASE f # e
  <2>1. f \in ecno' <=> f \in cleared(e)
    BY <1>8 DEF lirc_execute
  <2>2. passed'[f] = passed[f]
    BY <1>2, <1>8 DEF lirc_execute
  <2>3. QED
    BY <1>7, <2>1, <2>2
<1>9. CASE f = e
  <2>1. f \in ecno'
    BY <1>1, <1>9 DEF lirc_execute
  <2>2. CASE passes(e)
    <3>1. passed'[f] = passed[f] + 1
      BY <1>2, <1>9, <2>2 DEF lirc_execute
    <3>2. f \notin cleared(e)
      BY <1>1, <1>9, <2>2 DEF passes
    <3>3. QED
      BY <1>2, <1>3, <1>7, <2>1, <3>1, <3>2
  <2>3. CASE ~passes(e)
    <3>1. passed'[f] = passed[f]
      BY <2>3 DEF lirc_execute
    <3>2. QED
      BY <1>2, <1>3, <1>7, <2>1, <3>1
  <2>4. QED
    BY <2>2, <2>3
<1>10. QED
  BY <1>8, <1>9

LEMMA EntryExecutedStep == ASSUME Whole, entry_executed PROVE Whole'
<1> USE DEF Whole
<1>1. /\ pc = "scan" /\ scan <= Len(first) /\ ~quit_happened /\ advance(scan)
      /\ lirc_execute(scan) /\ go_on(s') /\ matched' = Append(matched, scan)
      /\ UNCHANGED <<first, code, presses>>
  BY DEF entry_executed, examining, counts
<1>2. /\ pc' \in {"scan", "string"} /\ reached' = scan + 1
      /\ next' \in 1..Past /\ scan' \in 1..Past /\ quit_happened' \in BOOLEAN
      /\ "quit" \in first[scan].flags => pc' = "scan" /\ quit_happened'
      /\ pc' = "scan" /\ (quit_happened' \/ s' # NoString) => next' = Past
  BY <1>1, GoOn
<1>3. matched' \in Seq(Entries) /\ MatchInv' /\ NothingAfterQuit'
  BY <1>1, <1>2, Matched
<1>4. presses # <<>> /\ (code.rep = 0 => presses[Len(presses)] = code)
  BY <1>1 DEF LoopVars, working
<1>5. scan \in Entries
  BY <1>1, Sizes DEF Entries
<1>6. TypeOK'
  <2>1. /\ next_code' \in [Entries -> Nat] /\ since' \in [Entries -> Nat]
        /\ \A f \in Entries : first[f].code # <<>> => next_code'[f] \in 1..Len(first[f].code)
    BY <1>1, <1>5, AdvanceFrame
  <2>2. /\ next_config' \in [Entries -> Nat]
        /\ \A f \in Entries : first[f].config # 0 => next_config'[f] \in 1..first[f].config
        /\ ecno' \subseteq Entries /\ current_mode' \in Names \cup {NULL}
        /\ s' \in [entry : Nat, config : Nat]
        /\ passed' \in [Entries -> Nat] /\ left' \in [Names -> Nat]
    BY <1>1, <1>5, ExecuteTypes
  <2>3. first' = first /\ Entries' = Entries /\ Past' = Past /\ code' = code /\ presses' = presses
    BY <1>1 DEF Entries, Past
  <2>4. QED
    BY <1>2, <1>3, <2>1, <2>2, <2>3 DEF TypeOK
<1>7. LoopVars'
  BY <1>1, <1>2, <1>4 DEF LoopVars, Past
<1>8. Followed'
  BY <1>1, <1>2, <1>4, FollowedExamined
<1>9. OnceInv'
  BY <1>1, <1>5, ExecuteOnce
<1>10. QED
  BY <1>3, <1>6, <1>7, <1>8, <1>9

(* A crash means that a code without a wildcard was compared with a later  *)
(* one that has one. *)
LEMMA CrashStep == ASSUME Whole, crash PROVE IndInv'
<1> USE DEF Whole
<1>1. /\ pc' = "crashed" /\ scan \in Entries /\ rebase_crashes(scan)
      /\ UNCHANGED <<first, state, next, code, local, history>>
  BY Sizes DEF crash, Entries
<1>2. ~Orderly(first[scan].code)
  <2> DEFINE codes == first[scan].code
  <2>1. codes # <<>>
    BY <1>1 DEF rebase_crashes
  <2>2. next_code[scan] \in 1..Len(codes) /\ Len(codes) \in Nat
    BY <1>1, <2>1, EntryTypes
  <2> DEFINE clash(x) == \E k \in 1..x - 2 :
                 compares_wildcard(codes[k], codes[k + (next_code[scan] + 1 - x)])
  <2>3. \E x \in 2..next_code[scan] : clash(x)
    BY <1>1, Zenon DEF rebase_crashes
  <2>4. PICK x \in 2..next_code[scan] : clash(x)
    BY <2>3
  <2>5. PICK k \in 1..x - 2 : compares_wildcard(codes[k], codes[k + (next_code[scan] + 1 - x)])
    BY <2>4
  <2>6. PICK l : l = k + (next_code[scan] + 1 - x)
    OBVIOUS
  <2>7. k \in 1..Len(codes) /\ l \in 1..Len(codes) /\ k < l
    BY <2>2, <2>6
  <2>8. compares_wildcard(codes[k], codes[l])
    BY <2>5, <2>6
  <2>9. QED
    BY <2>7, <2>8 DEF Orderly, compares_wildcard
<1>3. TypeOK'
  BY <1>1 DEF TypeOK, Entries, Past, state, local, history
<1>4. LoopInv' /\ SequenceTracksPresses' /\ MatchInv'
  BY <1>1 DEF LoopInv, SequenceTracksPresses, MatchInv, working
<1>5. OnceInv' /\ NothingAfterQuit'
  BY <1>1, OnceKept, OrderKept DEF state, history
<1>6. OrderlyIsSafe'
  BY <1>1, <1>2 DEF OrderlyIsSafe, Entries, Orderly
<1>7. QED
  BY <1>3, <1>4, <1>5, <1>6 DEF IndInv

-----------------------------------------------------------------------------

LEMMA InitInd == ASSUME Init PROVE IndInv
<1>1. PICK file \in Files : first = entries_of(file) /\ current_mode = startupmode(file)
  BY DEF Init
<1>2. file \in Seq(Entry) /\ DOMAIN file = 1..Len(file) /\ Len(file) \in Nat
      /\ \A e \in DOMAIN file : file[e] \in Entry
  BY LircrcAssumption
<1>3. \A entry \in Entry : at_end(entry) \in Entry
  <2> TAKE entry \in Entry
  <2>1. PICK delay \in Nat : delay = IF entry.rep_delay = 0 /\ entry.rep > 0 THEN entry.rep - 1
                                                                          ELSE entry.rep_delay
    <3>1. entry.rep \in Nat /\ entry.rep_delay \in Nat
      BY DEF Entry
    <3>2. QED
      BY <3>1
  <2>2. [entry EXCEPT !.rep_delay = delay] \in Entry
    BY DEF Entry
  <2>3. QED
    BY <2>1, <2>2 DEF at_end
<1>4. \A entry \in Entry : [entry EXCEPT !.change_mode = NULL] \in Entry
  BY DEF Entry
<1>5. first \in Seq(Entry)
  <2>1. \A e \in DOMAIN file : at_end(file[e]) \in Entry
    BY <1>2, <1>3
  <2>2. \A e \in DOMAIN file : [at_end(file[e]) EXCEPT !.change_mode = NULL] \in Entry
    BY <2>1, <1>4
  <2>3. first \in [1..Len(file) -> Entry]
    BY <1>1, <1>2, <2>1, <2>2 DEF entries_of
  <2>4. QED
    BY <1>2, <2>3
<1>6. current_mode \in Names \cup {NULL}
  <2>1. CASE \E e \in DOMAIN file : starts(file, e)
    <3>1. (CHOOSE e \in DOMAIN file : starts(file, e)) \in DOMAIN file
      BY <2>1
    <3>2. PICK e \in DOMAIN file : e = CHOOSE d \in DOMAIN file : starts(file, d)
      BY <3>1
    <3>3. current_mode = file[e].change_mode
      BY <1>1, <2>1, <3>2 DEF startupmode
    <3>4. QED
      BY <1>2, <3>3 DEF Entry
  <2>2. CASE ~\E e \in DOMAIN file : starts(file, e)
    BY <1>1, <2>2, LircrcAssumption DEF startupmode
  <2>3. QED
    BY <2>1, <2>2
<1>7. /\ ecno = {e \in Entries : /\ current_mode # NULL /\ "once" \in first[e].flags
                                 /\ first[e].change_mode = current_mode}
      /\ next_code = [e \in Entries |-> 1] /\ next_config = [e \in Entries |-> 1]
      /\ next = 1 /\ pc = "wait" /\ code \in Press
      /\ scan = 1 /\ quit_happened = FALSE /\ s = NoString
      /\ presses = <<>> /\ since = [e \in Entries |-> 0] /\ matched = <<>>
      /\ passed = [e \in Entries |-> IF e \in ecno THEN 1 ELSE 0]
      /\ left = [m \in Names |-> 0]
  BY LircrcAssumption DEF Init, Press
<1>8. Len(first) \in Nat /\ Len(presses) = 0 /\ Len(matched) = 0
  BY <1>5, <1>7
<1>9. \A e \in Entries : first[e] \in Entry /\ first[e].code \in Seq(Code) /\ Len(first[e].code) \in Nat
                        /\ first[e].config \in Nat /\ (first[e].code # <<>> => Len(first[e].code) > 0)
  <2>1. \A e \in Entries : first[e] \in Entry
    BY <1>5 DEF Entries
  <2>2. \A e \in Entries : first[e].code \in Seq(Code) /\ first[e].config \in Nat
    BY <2>1 DEF Entry
  <2>3. QED
    BY <2>1, <2>2, EmptyCode
<1>10. TypeOK
  <2>1. /\ next_code \in [Entries -> Nat] /\ next_config \in [Entries -> Nat]
        /\ since \in [Entries -> Nat] /\ passed \in [Entries -> Nat] /\ left \in [Names -> Nat]
        /\ ecno \subseteq Entries /\ presses \in Seq(Press) /\ matched \in Seq(Entries)
        /\ s \in [entry : Nat, config : Nat]
    BY <1>7 DEF NoString
  <2>2. \A e \in Entries : /\ first[e].code # <<>> => next_code[e] \in 1..Len(first[e].code)
                           /\ first[e].config # 0 => next_config[e] \in 1..first[e].config
    BY <1>7, <1>9
  <2>3. next \in 1..Past /\ scan \in 1..Past
    BY <1>7, <1>8 DEF Past
  <2>4. pc \in {"wait", "call", "scan", "string", "crashed"} /\ quit_happened \in BOOLEAN
    BY <1>7
  <2>5. QED
    BY <1>5, <1>6, <1>7, <2>1, <2>2, <2>3, <2>4, Zenon DEF TypeOK
<1>11. LoopInv
  BY <1>7, <1>8 DEF LoopInv, working, seen
<1>12. SequenceTracksPresses
  <2>1. ASSUME NEW e \in Entries
        PROVE  /\ EndsWith(e, 0, 0)
               /\ \A q \in 1..Len(first[e].code) : ~EndsWith(e, 0, q)
               /\ next_code[e] - 1 = 0 /\ seen(e) = 0
    BY <1>7, <1>8, <1>9 DEF EndsWith, seen
  <2>2. QED
    BY <2>1 DEF SequenceTracksPresses
<1>13. MatchInv /\ NothingAfterQuit
  BY <1>7, <1>8 DEF MatchInv, NothingAfterQuit, working
<1>14. OnceInv
  <2>1. SUFFICES ASSUME NEW e \in Entries, only_once(e)
                 PROVE  passed[e] + (IF e \in ecno THEN 0 ELSE 1) <= left[first[e].change_mode] + 1
    BY DEF OnceInv
  <2>2. first[e].change_mode \in Names
    BY <1>9, <2>1 DEF only_once, Entry
  <2>3. left[first[e].change_mode] = 0 /\ passed[e] = IF e \in ecno THEN 1 ELSE 0
    BY <1>7, <2>2
  <2>4. QED
    BY <2>3
<1>15. OrderlyIsSafe
  BY <1>7 DEF OrderlyIsSafe
<1>16. QED
  BY <1>10, <1>11, <1>12, <1>13, <1>14, <1>15 DEF IndInv

LEMMA NextInd == ASSUME IndInv, [Next]_vars PROVE IndInv'
<1>1. CASE UNCHANGED vars
  <2>1. /\ UNCHANGED <<first, next_code, next_config, ecno, current_mode, next, pc, code>>
        /\ UNCHANGED <<scan, quit_happened, s, presses, since, matched, passed, left>>
    BY <1>1 DEF vars, state, local, history
  <2>2. TypeOK'
    BY <2>1 DEF IndInv, TypeOK, Entries, Past
  <2>3. LoopInv'
    BY <2>1 DEF IndInv, LoopInv, Entries, Past, seen, reached, working
  <2>4. SequenceTracksPresses'
    <3>1. \A e : seen(e)' = seen(e)
      BY <2>1 DEF seen, reached
    <3>2. \A e, n, q : EndsWith(e, n, q)' <=> EndsWith(e, n, q)
      BY <2>1 DEF EndsWith, matches
    <3>3. SequenceTracksPresses
      BY DEF IndInv
    <3>4. Entries' = Entries
      BY <2>1 DEF Entries
    <3>5. QED
      BY <2>1, <3>1, <3>2, <3>3, <3>4 DEF SequenceTracksPresses, Orderly
  <2>5. MatchInv' /\ NothingAfterQuit'
    BY <2>1 DEF IndInv, MatchInv, NothingAfterQuit, Past, reached, working
  <2>6. OnceInv' /\ OrderlyIsSafe'
    BY <2>1 DEF IndInv, OnceInv, OrderlyIsSafe, Entries, Orderly, only_once
  <2>7. QED
    BY <2>2, <2>3, <2>4, <2>5, <2>6 DEF IndInv
<1>2. CASE Next
  <2>1. pc # "crashed"
    BY <1>2 DEF Next, Program, button_press, button_repeat, lirc_setmode, lirc_code2char,
       entry_ignored, entry_part, entry_executed, scan_ended, crash, examining
  <2>2. Whole
    BY <2>1, IndGivesWhole
  <2>3. CASE crash
    BY <2>2, <2>3, CrashStep
  <2>4. CASE ~crash
    <3>1. Whole'
      BY <1>2, <2>2, <2>4, ButtonPressStep, ButtonRepeatStep, SetModeStep, Code2charStep,
         EntryIgnoredStep, EntryPartStep, EntryExecutedStep, ScanEndedStep DEF Next, Program
    <3>2. pc' # "crashed"
      BY <1>2, <2>1, <2>4 DEF Next, Program, button_press, button_repeat, lirc_setmode,
         lirc_code2char, entry_ignored, entry_part, entry_executed, scan_ended, go_on
    <3>3. QED
      BY <3>1, <3>2, WholeGivesInd
  <2>5. QED
    BY <2>3, <2>4
<1>3. QED
  BY <1>1, <1>2

(* The inductive invariant of lirc_code2char() and the program around it.  *)
THEOREM LircrcIndInvariant == Spec => []IndInv
  BY InitInd, NextInd, PTL DEF Spec

(* lirc_iscode() follows every button sequence: it is where the longest    *)
(* part of it ends that was pressed since its last completion. *)
THEOREM SequencesFollowed == Spec => []SequenceTracksPresses
<1>1. IndInv => SequenceTracksPresses
  BY DEF IndInv
<1>2. QED
  BY <1>1, LircrcIndInvariant, PTL

(* Over all calls of lirc_code2char() for a code, the entries match in the *)
(* order of the file, each once, and none after one with the flag quit.    *)
THEOREM QuitIsLast == Spec => []NothingAfterQuit
<1>1. IndInv => NothingAfterQuit
  BY DEF IndInv
<1>2. QED
  BY <1>1, LircrcIndInvariant, PTL

(* lirc_execute() gives the string of a "once" entry at most once more     *)
(* than lirc_clearmode() left its mode. *)
THEOREM OnceIsOnce == Spec => []OncePerMode
<1>1. IndInv => OncePerMode
  <2>1. ASSUME IndInv, NEW e \in Entries, only_once(e)
        PROVE  passed[e] <= left[first[e].change_mode] + 1
    <3>1. passed[e] \in Nat /\ left[first[e].change_mode] \in Nat
      <4>1. TypeOK
        BY <2>1 DEF IndInv
      <4>2. first[e].change_mode \in Names
        BY <2>1, <4>1, EntryTypes DEF only_once, Entry
      <4>3. QED
        BY <4>1, <4>2 DEF TypeOK
    <3>2. passed[e] + (IF e \in ecno THEN 0 ELSE 1) <= left[first[e].change_mode] + 1
      BY <2>1 DEF IndInv, OnceInv
    <3>3. QED
      BY <3>1, <3>2
  <2>2. QED
    BY <2>1 DEF OncePerMode
<1>2. QED
  BY <1>1, LircrcIndInvariant, PTL

(* lirc_iscode() never hands (char* )-1 to strcasecmp() if in every        *)
(* sequence the wildcards come first. *)
THEOREM WildcardsFirstIsSafe == Spec => []OrderlyIsSafe
<1>1. IndInv => OrderlyIsSafe
  BY DEF IndInv
<1>2. QED
  BY <1>1, LircrcIndInvariant, PTL

=============================================================================
