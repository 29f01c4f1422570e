----------------------------- MODULE CallsProofs -----------------------------
(***************************************************************************)
(* Proofs about the calls of irsend: lirc_command_run() and lircd's        *)
(* answers implement Calls.                                                *)
(***************************************************************************)
EXTENDS NetworkProofs

-----------------------------------------------------------------------------
(* An answer, and lirc_command_run()'s way through it *)

Fields == {"packet", "buffer", "null", "state", "status", "left", "reply", "result"}
After == {"P_DATA", "P_N", "P_DATA_N", "P_END"}

(* lines is an answer to q. *)
IsReply(q, lines) ==
    /\ lines \in Seq(Line) /\ Len(lines) >= 4 /\ \A i \in 1..Len(lines) : lines[i] # <<>>
    /\ lines[1] = <<"BEGIN">> /\ lines[2] = q
    /\ lines[3] \in {<<"SUCCESS">>, <<"ERROR">>} /\ lines[Len(lines)] = <<"END">>
    /\ Len(lines) # 4 =>
          /\ Len(lines) >= 7 /\ lines[4] = <<"DATA">>
          /\ \E w \in DOMAIN Number : lines[5] = <<w>> /\ Number[w] = Len(lines) - 6

(* Where the loop is when it has read j of n lines. *)
StateAt(n, j) ==
    CASE j = 0 -> "P_BEGIN"
      [] j = 1 -> "P_MESSAGE"
      [] j = 2 -> "P_STATUS"
      [] j = 3 -> "P_DATA"
      [] j = 4 -> "P_N"
      [] j > 4 /\ j < n - 1 -> "P_DATA_N"
      [] j > 4 /\ j >= n - 1 -> "P_END"

At(ctx, q, lines, j) ==
    /\ DOMAIN ctx = Fields /\ ctx.packet = q /\ ctx.result = None
    /\ j \in 0..(Len(lines) - 1) /\ ctx.state = StateAt(Len(lines), j)
    /\ ctx.status = IF j < 3 THEN "ok" ELSE Result(lines)
    /\ j >= 5 => ctx.left = Len(lines) - 1 - j

LEMMA Numbers ==
    /\ DOMAIN Number = {"0", "1", "2", "3", "33"}
    /\ Number["0"] = 0 /\ Number["1"] = 1 /\ Number["2"] = 2 /\ Number["3"] = 3 /\ Number["33"] = 33
  BY DEF Number

(* What a line changes. *)
Goes(ctx, new, state, status, left, result) ==
    /\ DOMAIN new = Fields /\ new.packet = ctx.packet /\ new.buffer = ctx.buffer
    /\ new.state = state /\ new.status = status /\ new.left = left /\ new.result = result

(* The loop in each of its states. *)
LEMMA LoopBegin ==
    ASSUME NEW ctx, DOMAIN ctx = Fields, ctx.state = "P_BEGIN", NEW string, string # <<>>
    PROVE  Goes(ctx, ReplyLine(ctx, string), IF string = <<"BEGIN">> THEN "P_MESSAGE" ELSE "P_BEGIN",
                ctx.status, ctx.left, ctx.result)
<1>1. ReplyLine(ctx, string) = IF string = <<"BEGIN">> THEN [ctx EXCEPT !.state = "P_MESSAGE"] ELSE ctx
  BY DEF ReplyLine
<1>. QED  BY <1>1 DEF Goes, Fields

LEMMA LoopMessage ==
    ASSUME NEW ctx, DOMAIN ctx = Fields, ctx.state = "P_MESSAGE", NEW string, string # <<>>
    PROVE  Goes(ctx, ReplyLine(ctx, string), IF string = ctx.packet THEN "P_STATUS" ELSE "P_BEGIN",
                ctx.status, ctx.left, ctx.result)
<1>1. ReplyLine(ctx, string) = IF string = ctx.packet THEN [ctx EXCEPT !.state = "P_STATUS"]
                               ELSE [ctx EXCEPT !.state = "P_BEGIN"]
  BY DEF ReplyLine
<1>. QED  BY <1>1 DEF Goes, Fields

LEMMA LoopStatus ==
    ASSUME NEW ctx, DOMAIN ctx = Fields, ctx.state = "P_STATUS", NEW string, string # <<>>
    PROVE  /\ string = <<"SUCCESS">> => Goes(ctx, ReplyLine(ctx, string), "P_DATA", "ok", ctx.left, ctx.result)
           /\ string = <<"ERROR">> => Goes(ctx, ReplyLine(ctx, string), "P_DATA", "EIO", ctx.left, ctx.result)
           /\ string = <<"END">> => Goes(ctx, ReplyLine(ctx, string), "P_STATUS", ctx.status, ctx.left, "ok")
           /\ string \notin {<<"SUCCESS">>, <<"ERROR">>, <<"END">>} =>
                 Goes(ctx, ReplyLine(ctx, string), "P_STATUS", ctx.status, ctx.left, "EPROTO")
<1>1. CASE string = <<"SUCCESS">>
  <2>1. ReplyLine(ctx, string) = [ctx EXCEPT !.state = "P_DATA", !.status = "ok"]
    BY <1>1 DEF ReplyLine, Fields
  <2>. QED  BY <1>1, <2>1 DEF Goes, Fields
<1>2. CASE string = <<"ERROR">>
  <2>1. ReplyLine(ctx, string) = [ctx EXCEPT !.state = "P_DATA", !.status = "EIO"]
    BY <1>2 DEF ReplyLine, Fields
  <2>. QED  BY <1>2, <2>1 DEF Goes, Fields
<1>3. CASE string = <<"END">>
  <2>1. ReplyLine(ctx, string) = [ctx EXCEPT !.result = "ok"]
    BY <1>3 DEF ReplyLine
  <2>. QED  BY <1>3, <2>1 DEF Goes, Fields
<1>4. CASE string \notin {<<"SUCCESS">>, <<"ERROR">>, <<"END">>}
  <2>1. ReplyLine(ctx, string) = [ctx EXCEPT !.result = "EPROTO"]
    BY <1>4 DEF ReplyLine
  <2>. QED  BY <1>4, <2>1 DEF Goes, Fields
<1>. QED  BY <1>1, <1>2, <1>3, <1>4

LEMMA LoopData ==
    ASSUME NEW ctx, DOMAIN ctx = Fields, ctx.state = "P_DATA", NEW string, string # <<>>
    PROVE  /\ string = <<"END">> => Goes(ctx, ReplyLine(ctx, string), "P_DATA", ctx.status, ctx.left, ctx.status)
           /\ string = <<"DATA">> => Goes(ctx, ReplyLine(ctx, string), "P_N", ctx.status, ctx.left, ctx.result)
           /\ string \notin {<<"END">>, <<"DATA">>} =>
                 Goes(ctx, ReplyLine(ctx, string), "P_DATA", ctx.status, ctx.left, "EPROTO")
<1>1. ReplyLine(ctx, string) =
        IF string = <<"END">> THEN [ctx EXCEPT !.result = ctx.status]
        ELSE IF string = <<"DATA">> THEN [ctx EXCEPT !.state = "P_N"] ELSE [ctx EXCEPT !.result = "EPROTO"]
  BY DEF ReplyLine
<1>2. <<"END">> # <<"DATA">>
  OBVIOUS
<1>. QED  BY <1>1, <1>2 DEF Goes, Fields

LEMMA LoopN ==
    ASSUME NEW ctx, DOMAIN ctx = Fields, ctx.state = "P_N", NEW string, string # <<>>
    PROVE  /\ string[1] \notin DOMAIN Number =>
                 Goes(ctx, ReplyLine(ctx, string), "P_N", ctx.status, ctx.left, "EPROTO")
           /\ string[1] \in DOMAIN Number =>
                 Goes(ctx, ReplyLine(ctx, string), IF string[1] = "0" THEN "P_END" ELSE "P_DATA_N", ctx.status,
                      Number[string[1]], ctx.result)
<1>1. CASE string[1] \notin DOMAIN Number
  <2>1. ReplyLine(ctx, string) = [ctx EXCEPT !.result = "EPROTO"]
    BY <1>1 DEF ReplyLine
  <2>. QED  BY <1>1, <2>1 DEF Goes, Fields
<1>2. CASE string[1] \in DOMAIN Number
  <2>. DEFINE state == IF string[1] = "0" THEN "P_END" ELSE "P_DATA_N"
              left == Number[string[1]]
  <2>1. ReplyLine(ctx, string) = [ctx EXCEPT !.state = state, !.left = left]
    BY <1>2 DEF ReplyLine, Fields
  <2>. HIDE DEF state, left
  <2>2. Goes(ctx, ReplyLine(ctx, string), state, ctx.status, left, ctx.result)
    BY <2>1 DEF Goes, Fields
  <2>. QED  BY <1>2, <2>2 DEF state, left
<1>. QED  BY <1>1, <1>2

LEMMA LoopDataN ==
    ASSUME NEW ctx, DOMAIN ctx = Fields, ctx.state = "P_DATA_N", NEW string, string # <<>>
    PROVE  Goes(ctx, ReplyLine(ctx, string), IF ctx.left = 1 THEN "P_END" ELSE "P_DATA_N", ctx.status,
                ctx.left - 1, ctx.result)
<1>. DEFINE state == IF ctx.left = 1 THEN "P_END" ELSE "P_DATA_N"
            left == ctx.left - 1
<1>1. ReplyLine(ctx, string) = [ctx EXCEPT !.state = state, !.left = left, !.reply = string]
  BY DEF ReplyLine, Fields
<1>. HIDE DEF state, left
<1>2. Goes(ctx, ReplyLine(ctx, string), state, ctx.status, left, ctx.result)
  BY <1>1 DEF Goes, Fields
<1>. QED  BY <1>2 DEF state, left

LEMMA LoopEnd ==
    ASSUME NEW ctx, DOMAIN ctx = Fields, NEW string, string # <<>>,
           ctx.state \notin {"P_BEGIN", "P_MESSAGE", "P_STATUS", "P_DATA", "P_N", "P_DATA_N"}
    PROVE  Goes(ctx, ReplyLine(ctx, string), ctx.state, ctx.status, ctx.left,
                IF string = <<"END">> THEN ctx.status ELSE "EPROTO")
<1>1. ReplyLine(ctx, string) = [ctx EXCEPT !.result = IF string = <<"END">> THEN ctx.status ELSE "EPROTO"]
  BY DEF ReplyLine
<1>. QED  BY <1>1 DEF Goes, Fields

LEMMA EmptyLine ==
    ASSUME NEW ctx, DOMAIN ctx = Fields
    PROVE  Goes(ctx, ReplyLine(ctx, <<>>), ctx.state, ctx.status, ctx.left, "EPROTO")
<1>1. ReplyLine(ctx, <<>>) = [ctx EXCEPT !.result = "EPROTO"]
  BY DEF ReplyLine
<1>. QED  BY <1>1 DEF Goes, Fields

LEMMA LoopKeeps ==
    ASSUME NEW ctx, DOMAIN ctx = Fields, NEW string
    PROVE  \E state, status, left, result : Goes(ctx, ReplyLine(ctx, string), state, status, left, result)
<1>1. CASE string = <<>>
  BY <1>1, EmptyLine, Zenon
<1>2. CASE string # <<>> /\ ctx.state = "P_BEGIN"
  BY <1>2, LoopBegin, Zenon
<1>3. CASE string # <<>> /\ ctx.state = "P_MESSAGE"
  BY <1>3, LoopMessage, Zenon
<1>4. CASE string # <<>> /\ ctx.state = "P_STATUS"
  BY <1>4, LoopStatus, Zenon
<1>5. CASE string # <<>> /\ ctx.state = "P_DATA"
  BY <1>5, LoopData, Zenon
<1>6. CASE string # <<>> /\ ctx.state = "P_N"
  BY <1>6, LoopN, Zenon
<1>7. CASE string # <<>> /\ ctx.state = "P_DATA_N"
  BY <1>7, LoopDataN, Zenon
<1>8. CASE string # <<>> /\ ctx.state \notin {"P_BEGIN", "P_MESSAGE", "P_STATUS", "P_DATA", "P_N", "P_DATA_N"}
  BY <1>8, LoopEnd, Zenon
<1>. QED  BY <1>1, <1>2, <1>3, <1>4, <1>5, <1>6, <1>7, <1>8

(* A line of the answer, where it is expected. *)
LEMMA AtGoes ==
    ASSUME NEW q, NEW lines, NEW ctx, NEW new, NEW j, At(ctx, q, lines, j), Len(lines) \in Nat, j + 1 < Len(lines),
           NEW left, Goes(ctx, new, StateAt(Len(lines), j + 1), IF j + 1 < 3 THEN "ok" ELSE Result(lines), left, None),
           j + 1 >= 5 => left = Len(lines) - 1 - (j + 1)
    PROVE  At(new, q, lines, j + 1)
<1>1. j \in Nat /\ j + 1 \in 0..(Len(lines) - 1)
  BY DEF At
<1>. QED  BY <1>1 DEF At, Goes

LEMMA LoopStep ==
    ASSUME NEW q, NEW lines, IsReply(q, lines), NEW ctx, NEW j, At(ctx, q, lines, j)
    PROVE  /\ j + 1 < Len(lines) => At(ReplyLine(ctx, lines[j + 1]), q, lines, j + 1)
           /\ j + 1 = Len(lines) => ReplyLine(ctx, lines[j + 1]).result = Result(lines)
<1>. DEFINE string == lines[j + 1]
            new == ReplyLine(ctx, string)
            n == Len(lines)
            r == Result(lines)
<1>1. n \in Nat /\ n >= 4 /\ j \in 0..(n - 1) /\ j + 1 \in 1..n /\ string # <<>>
  BY DEF IsReply, At
<1>2. /\ DOMAIN ctx = Fields /\ ctx.packet = q /\ ctx.result = None /\ ctx.state = StateAt(n, j)
      /\ ctx.status = (IF j < 3 THEN "ok" ELSE r) /\ (j >= 5 => ctx.left = n - 1 - j)
  BY DEF At
<1>3. r = IF lines[3] = <<"SUCCESS">> THEN "ok" ELSE "EIO"
  BY DEF Result
<1>4. /\ lines[1] = <<"BEGIN">> /\ lines[2] = q /\ lines[3] \in {<<"SUCCESS">>, <<"ERROR">>} /\ lines[n] = <<"END">>
      /\ n # 4 => n >= 7 /\ lines[4] = <<"DATA">>
  BY DEF IsReply
<1>5. ASSUME NEW left, j + 1 < n,
             Goes(ctx, new, StateAt(n, j + 1), IF j + 1 < 3 THEN "ok" ELSE r, left, None),
             j + 1 >= 5 => left = n - 1 - (j + 1)
      PROVE  At(new, q, lines, j + 1)
  BY <1>1, <1>5, AtGoes
<1>6. ASSUME NEW state, NEW status, NEW left, Goes(ctx, new, state, status, left, r)
      PROVE  new.result = r
  BY <1>6 DEF Goes
<1>. HIDE DEF string, n, r, new
<1>7. CASE j = 0
  <2>1. string = <<"BEGIN">> /\ ctx.state = "P_BEGIN"
    BY <1>2, <1>4, <1>7 DEF StateAt, string
  <2>2. Goes(ctx, new, "P_MESSAGE", ctx.status, ctx.left, ctx.result)
    BY <1>1, <1>2, <2>1, LoopBegin DEF new
  <2>3. StateAt(n, j + 1) = "P_MESSAGE" /\ j + 1 < n /\ j + 1 < 3
    BY <1>1, <1>7 DEF StateAt
  <2>4. (IF j + 1 < 3 THEN "ok" ELSE r) = ctx.status
    BY <1>2, <1>7, <2>3
  <2>5. Goes(ctx, new, StateAt(n, j + 1), IF j + 1 < 3 THEN "ok" ELSE r, ctx.left, None)
    BY <1>2, <2>2, <2>3, <2>4, Zenon
  <2>6. ~(j + 1 >= 5)
    BY <1>7
  <2>7. At(new, q, lines, j + 1)
    BY <1>5, <2>3, <2>5, <2>6, Zenon
  <2>. QED  BY <2>3, <2>7 DEF new, string, n
<1>8. CASE j = 1
  <2>1. string = ctx.packet /\ ctx.state = "P_MESSAGE"
    BY <1>2, <1>4, <1>8 DEF StateAt, string
  <2>2. Goes(ctx, new, "P_STATUS", ctx.status, ctx.left, ctx.result)
    BY <1>1, <1>2, <2>1, LoopMessage DEF new
  <2>3. StateAt(n, j + 1) = "P_STATUS" /\ j + 1 < n /\ j + 1 < 3
    BY <1>1, <1>8 DEF StateAt
  <2>4. (IF j + 1 < 3 THEN "ok" ELSE r) = ctx.status
    BY <1>2, <1>8, <2>3
  <2>5. Goes(ctx, new, StateAt(n, j + 1), IF j + 1 < 3 THEN "ok" ELSE r, ctx.left, None)
    BY <1>2, <2>2, <2>3, <2>4, Zenon
  <2>6. ~(j + 1 >= 5)
    BY <1>8
  <2>7. At(new, q, lines, j + 1)
    BY <1>5, <2>3, <2>5, <2>6, Zenon
  <2>. QED  BY <2>3, <2>7 DEF new, string, n
<1>9. CASE j = 2
  <2>1. string = lines[3] /\ ctx.state = "P_STATUS"
    BY <1>2, <1>9 DEF StateAt, string
  <2>2. Goes(ctx, new, "P_DATA", r, ctx.left, ctx.result)
    BY <1>1, <1>2, <1>3, <1>4, <2>1, LoopStatus DEF new
  <2>3. StateAt(n, j + 1) = "P_DATA" /\ j + 1 < n /\ ~(j + 1 < 3)
    BY <1>1, <1>9 DEF StateAt
  <2>4. (IF j + 1 < 3 THEN "ok" ELSE r) = r
    BY <2>3
  <2>5. Goes(ctx, new, StateAt(n, j + 1), IF j + 1 < 3 THEN "ok" ELSE r, ctx.left, None)
    BY <1>2, <2>2, <2>3, <2>4, Zenon
  <2>6. ~(j + 1 >= 5)
    BY <1>9
  <2>7. At(new, q, lines, j + 1)
    BY <1>5, <2>3, <2>5, <2>6, Zenon
  <2>. QED  BY <2>3, <2>7 DEF new, string, n
<1>10. CASE j = 3 /\ n = 4
  <2>1. string = <<"END">> /\ ctx.state = "P_DATA" /\ ctx.status = r
    BY <1>2, <1>4, <1>10 DEF StateAt, string
  <2>2. Goes(ctx, new, "P_DATA", ctx.status, ctx.left, r)
    BY <1>1, <1>2, <2>1, LoopData DEF new
  <2>. QED  BY <1>6, <1>10, <2>2 DEF new, string, n, r
<1>11. CASE j = 3 /\ n # 4
  <2>1. string = <<"DATA">> /\ ctx.state = "P_DATA" /\ ctx.status = r /\ n >= 7
    BY <1>2, <1>4, <1>11 DEF StateAt, string
  <2>2. Goes(ctx, new, "P_N", ctx.status, ctx.left, ctx.result)
    BY <1>1, <1>2, <2>1, LoopData DEF new
  <2>3. StateAt(n, j + 1) = "P_N" /\ j + 1 < n /\ ~(j + 1 < 3)
    BY <1>1, <1>11, <2>1 DEF StateAt
  <2>4. Goes(ctx, new, StateAt(n, j + 1), IF j + 1 < 3 THEN "ok" ELSE r, ctx.left, None)
    BY <1>2, <2>1, <2>2, <2>3
  <2>. QED  BY <1>1, <1>5, <1>11, <2>3, <2>4 DEF new, string, n, r
<1>12. CASE j = 4
  <2>0. n # 4 /\ n >= 7
    BY <1>1, <1>4, <1>12
  <2>1. PICK w \in DOMAIN Number : lines[5] = <<w>> /\ Number[w] = n - 6
    BY <2>0 DEF IsReply, n
  <2>2. w # "0" /\ n - 6 # 0
    BY <2>0, <2>1, <1>1, Numbers
  <2>3. string[1] = w /\ ctx.state = "P_N" /\ ctx.status = r
    BY <1>2, <1>12, <2>1 DEF string, StateAt
  <2>4. string[1] \in DOMAIN Number
    BY <2>1, <2>3
  <2>5. Goes(ctx, new, IF string[1] = "0" THEN "P_END" ELSE "P_DATA_N", ctx.status, Number[string[1]], ctx.result)
    BY <1>1, <1>2, <2>3, <2>4, LoopN, Zenon DEF new
  <2>6. (IF string[1] = "0" THEN "P_END" ELSE "P_DATA_N") = "P_DATA_N" /\ Number[string[1]] = n - 6
    BY <2>1, <2>2, <2>3
  <2>7. Goes(ctx, new, "P_DATA_N", r, n - 6, None)
    BY <1>2, <2>3, <2>5, <2>6, Zenon
  <2>8. /\ StateAt(n, j + 1) = "P_DATA_N" /\ j + 1 < n /\ ~(j + 1 < 3)
        /\ n - 6 = n - 1 - (j + 1) /\ n - 6 \in Int
    BY <1>1, <1>12, <2>0 DEF StateAt
  <2>9. (IF j + 1 < 3 THEN "ok" ELSE r) = r
    BY <2>8
  <2>10. Goes(ctx, new, StateAt(n, j + 1), IF j + 1 < 3 THEN "ok" ELSE r, n - 6, None)
    BY <2>7, <2>8, <2>9, Zenon
  <2>. QED  BY <1>1, <1>5, <1>12, <2>8, <2>10 DEF new, string, n, r
<1>13. CASE j > 4 /\ j < n - 1
  <2>1. ctx.state = "P_DATA_N" /\ ctx.status = r /\ ctx.left = n - 1 - j
    BY <1>1, <1>2, <1>13 DEF StateAt
  <2>2. Goes(ctx, new, IF ctx.left = 1 THEN "P_END" ELSE "P_DATA_N", ctx.status, ctx.left - 1, ctx.result)
    BY <1>1, <1>2, <2>1, LoopDataN, Zenon DEF new
  <2>3. /\ StateAt(n, j + 1) = (IF ctx.left = 1 THEN "P_END" ELSE "P_DATA_N") /\ j + 1 < n /\ ~(j + 1 < 3)
        /\ ctx.left - 1 = n - 1 - (j + 1)
    BY <1>1, <1>13, <2>1 DEF StateAt
  <2>4. (IF j + 1 < 3 THEN "ok" ELSE r) = r
    BY <2>3
  <2>5. Goes(ctx, new, StateAt(n, j + 1), IF j + 1 < 3 THEN "ok" ELSE r, ctx.left - 1, None)
    BY <1>2, <2>1, <2>2, <2>3, <2>4, Zenon
  <2>. QED  BY <1>1, <1>5, <1>13, <2>3, <2>5 DEF new, string, n, r
<1>14. CASE j > 4 /\ j >= n - 1
  <2>1. string = <<"END">> /\ ctx.state = "P_END" /\ ctx.status = r /\ j + 1 = n
    BY <1>1, <1>2, <1>4, <1>14 DEF StateAt, string
  <2>2. ctx.state \notin {"P_BEGIN", "P_MESSAGE", "P_STATUS", "P_DATA", "P_N", "P_DATA_N"}
    BY <2>1
  <2>3. Goes(ctx, new, ctx.state, ctx.status, ctx.left, IF string = <<"END">> THEN ctx.status ELSE "EPROTO")
    BY <1>1, <1>2, <2>2, LoopEnd, Zenon DEF new
  <2>4. Goes(ctx, new, ctx.state, ctx.status, ctx.left, r)
    BY <2>1, <2>3
  <2>. QED  BY <1>6, <2>1, <2>4 DEF new, string, n, r
<1>. QED  BY <1>1, <1>7, <1>8, <1>9, <1>10, <1>11, <1>12, <1>13, <1>14

(* Events before it. *)
LEMMA LoopSkips ==
    ASSUME NEW ctx, DOMAIN ctx = Fields, ctx.state = "P_BEGIN", NEW string, string \notin {<<>>, <<"BEGIN">>}
    PROVE  Goes(ctx, ReplyLine(ctx, string), ctx.state, ctx.status, ctx.left, ctx.result)
  BY LoopBegin

(* Lines that are not expected. *)
LEMMA LoopAfter ==
    ASSUME NEW ctx, DOMAIN ctx = Fields, ctx.state \in After, ctx.result = None, NEW string
    PROVE  /\ ReplyLine(ctx, string).status = ctx.status
           /\ ReplyLine(ctx, string).result = None => ReplyLine(ctx, string).state \in After
           /\ ReplyLine(ctx, string).result \in {None, ctx.status, "EPROTO"}
<1>. DEFINE new == ReplyLine(ctx, string)
<1>1. {"P_DATA", "P_N", "P_DATA_N", "P_END"} = After
  BY DEF After
<1>2. \E left : \/ \E state \in After : Goes(ctx, new, state, ctx.status, left, None)
                \/ \E state \in After : Goes(ctx, new, state, ctx.status, left, ctx.status)
                \/ \E state : Goes(ctx, new, state, ctx.status, left, "EPROTO")
  <2>1. CASE string = <<>>
    BY <2>1, EmptyLine, Zenon
  <2>2. CASE string # <<>> /\ ctx.state = "P_DATA"
    <3>1. "P_N" \in After
      BY DEF After
    <3>. QED  BY <2>2, <3>1, LoopData, Zenon
  <2>3. CASE string # <<>> /\ ctx.state = "P_N"
    <3>1. (IF string[1] = "0" THEN "P_END" ELSE "P_DATA_N") \in After
      BY DEF After
    <3>. QED  BY <2>3, <3>1, LoopN, Zenon
  <2>4. CASE string # <<>> /\ ctx.state = "P_DATA_N"
    <3>1. (IF ctx.left = 1 THEN "P_END" ELSE "P_DATA_N") \in After
      BY DEF After
    <3>. QED  BY <2>4, <3>1, LoopDataN, Zenon
  <2>5. CASE string # <<>> /\ ctx.state = "P_END"
    <3>1. ctx.state \notin {"P_BEGIN", "P_MESSAGE", "P_STATUS", "P_DATA", "P_N", "P_DATA_N"}
      BY <2>5
    <3>2. Goes(ctx, new, ctx.state, ctx.status, ctx.left, IF string = <<"END">> THEN ctx.status ELSE "EPROTO")
      BY <2>5, <3>1, LoopEnd, Zenon
    <3>. QED  BY <3>2, Zenon
  <2>. QED  BY <1>1, <2>1, <2>2, <2>3, <2>4, <2>5
<1>. HIDE DEF new
<1>3. /\ new.status = ctx.status /\ (new.result = None => new.state \in After)
      /\ new.result \in {None, ctx.status, "EPROTO"}
  <2>1. CASE \E left : \E state \in After : Goes(ctx, new, state, ctx.status, left, None)
    BY <2>1, Zenon DEF Goes
  <2>2. CASE \E left : \E state \in After : Goes(ctx, new, state, ctx.status, left, ctx.status)
    BY <2>2, Zenon DEF Goes
  <2>3. CASE \E left, state : Goes(ctx, new, state, ctx.status, left, "EPROTO")
    <3>1. new.status = ctx.status /\ new.result = "EPROTO"
      BY <2>3, Zenon DEF Goes
    <3>. QED  BY <3>1 DEF None
  <2>. QED  BY <1>2, <2>1, <2>2, <2>3, Zenon
<1>. QED  BY <1>3 DEF new

LEMMA LoopStrays ==
    ASSUME NEW ctx, DOMAIN ctx = Fields, ctx.result = None, NEW string
    PROVE  /\ string # <<"END">> => ReplyLine(ctx, string).result \in {None, "EPROTO"}
           /\ ctx.status = "ok" /\ string # <<"ERROR">> =>
                 ReplyLine(ctx, string).status = "ok" /\ ReplyLine(ctx, string).result \in {None, "ok", "EPROTO"}
<1>. DEFINE new == ReplyLine(ctx, string)
            calm == ctx.status = "ok" /\ string # <<"ERROR">>
<1>1. \E state, left : \/ Goes(ctx, new, state, "ok", left, None)
                       \/ Goes(ctx, new, state, ctx.status, left, None)
                       \/ ~calm /\ Goes(ctx, new, state, "EIO", left, None)
                       \/ Goes(ctx, new, state, ctx.status, left, "EPROTO")
                       \/ string = <<"END">> /\ Goes(ctx, new, state, ctx.status, left, ctx.status)
                       \/ string = <<"END">> /\ Goes(ctx, new, state, ctx.status, left, "ok")
  <2>1. CASE string = <<>>
    BY <2>1, EmptyLine, Zenon
  <2>2. CASE string # <<>> /\ ctx.state = "P_BEGIN"
    BY <2>2, LoopBegin, Zenon
  <2>3. CASE string # <<>> /\ ctx.state = "P_MESSAGE"
    BY <2>3, LoopMessage, Zenon
  <2>4. CASE string # <<>> /\ ctx.state = "P_STATUS"
    BY <2>4, LoopStatus, Zenon
  <2>5. CASE string # <<>> /\ ctx.state = "P_DATA"
    BY <2>5, LoopData, Zenon
  <2>6. CASE string # <<>> /\ ctx.state = "P_N"
    BY <2>6, LoopN, Zenon
  <2>7. CASE string # <<>> /\ ctx.state = "P_DATA_N"
    BY <2>7, LoopDataN, Zenon
  <2>8. CASE string # <<>> /\ ctx.state \notin {"P_BEGIN", "P_MESSAGE", "P_STATUS", "P_DATA", "P_N", "P_DATA_N"}
    <3>1. Goes(ctx, new, ctx.state, ctx.status, ctx.left, IF string = <<"END">> THEN ctx.status ELSE "EPROTO")
      BY <2>8, LoopEnd, Zenon
    <3>. QED  BY <3>1, Zenon
  <2>. QED  BY <2>1, <2>2, <2>3, <2>4, <2>5, <2>6, <2>7, <2>8
<1>. HIDE DEF new
<1>2. \/ new.status = "ok" /\ new.result = None
      \/ new.status = ctx.status /\ new.result = None
      \/ ~calm /\ new.status = "EIO" /\ new.result = None
      \/ new.status = ctx.status /\ new.result = "EPROTO"
      \/ string = <<"END">> /\ new.status = ctx.status /\ new.result = ctx.status
      \/ string = <<"END">> /\ new.status = ctx.status /\ new.result = "ok"
  BY <1>1, Zenon DEF Goes
<1>3. /\ string # <<"END">> => new.result \in {None, "EPROTO"}
      /\ calm => new.status = "ok" /\ new.result \in {None, "ok", "EPROTO"}
  BY <1>2
<1>. QED  BY <1>3 DEF new

-----------------------------------------------------------------------------
(* What is on its way to irsend: S, what it has read and not used and then *)
(* what the socket holds.                                                  *)

InLoop(ctx, q) == DOMAIN ctx = Fields /\ ctx.packet = q /\ ctx.result = None

(* Only events: none on a connection that is up and has carried none. *)
EventsAhead(S, srv, events) ==
    /\ \A i \in 1..Len(S) : S[i].line \in Event
    /\ S # <<>> => S[Len(S)].part = 3 \/ ~srv
    /\ events = <<>> /\ srv => S = <<>>

(* The command is not answered. *)
Calm(ctx, q, S, srv, events) ==
    /\ InLoop(ctx, q) /\ ctx.state = "P_BEGIN" /\ ctx.status = "ok"
    /\ EventsAhead(S, srv, events)

(* The answer A is read up to its line j: t pieces of events, m pieces of  *)
(* the answer, and events follow.  All of it unless the connection broke,  *)
(* or the repeat timer could not write all of the answer behind events.    *)
Ahead(S, srv, events, A, j, t, m) ==
    /\ t + m <= Len(S) /\ 3 * j + m <= 3 * Len(A)
    /\ \A i \in 1..t : S[i].line \in Event
    /\ \A i \in 1..m : S[t + i] = PieceAt(A, 3 * j + i)
    /\ \A i \in (t + m + 1)..Len(S) : S[i].line \in Event
    /\ t > 0 => j = 0 /\ (S[t].part = 3 \/ (~srv /\ Len(S) = t))
    /\ 3 * j + m # 3 * Len(A) => ~srv \/ events # <<>>
    /\ Len(S) > t + m => S[Len(S)].part = 3 \/ ~srv
    /\ events = <<>> /\ srv => t = 0 /\ Len(S) = m

InSync(ctx, q, S, srv, events, r) ==
    \E A \in Seq(Line), j \in Nat, t \in Nat, m \in Nat :
        /\ IsReply(q, A) /\ Result(A) = r /\ At(ctx, q, A, j)
        /\ Ahead(S, srv, events, A, j, t, m)

(* Events behind the first n pieces. *)
EventsBehind(S, n, srv) ==
    /\ \A i \in (n + 1)..Len(S) : S[i].line \in Event
    /\ Len(S) > n => S[Len(S)].part = 3 \/ ~srv

(* The answer breaks off within a line: n pieces of it, and events.        *)
Cut(ctx, q, S, srv, events, r) ==
    /\ InLoop(ctx, q) /\ (~srv \/ events # <<>>)
    /\ \E n \in 0..Len(S) :
          /\ \A i \in 1..n : S[i].part # 3
          /\ EventsBehind(S, n, srv)
          /\ \/ ctx.state \in After /\ ctx.status = r
             \/ \A i \in 1..n : S[i].line # <<"END">>

(* The answer is on its way. *)
OnTheWay(ctx, q, S, srv, events, r) ==
    \/ InSync(ctx, q, S, srv, events, r)
    \/ Cut(ctx, q, S, srv, events, r)

(* The states of a call. *)
Stream(c) == prog[c].ctx.buffer \o sock[c].down
Asked(c, k) ==
    /\ Len(told[c].answers) = k
    /\ Calm(prog[c].ctx, scene.script[c][k + 1], Stream(c), sock[c].srv, told[c].events)
Told1(c, k) ==
    /\ Len(told[c].answers) = k + 1 /\ told[c].answers[k + 1] \in {"ok", "EIO"}
    /\ OnTheWay(prog[c].ctx, scene.script[c][k + 1], Stream(c), sock[c].srv, told[c].events, told[c].answers[k + 1])

(* Where the request is: nowhere, or in one place until it is answered. *)
Nowhere(c) == sock[c].up = <<>> /\ daemon.cmd.fd # c /\ daemon.st.repeat.fd # c
Somewhere(c, q) ==
    \/ sock[c].up = Pieces(q) /\ daemon.cmd.fd # c /\ daemon.st.repeat.fd # c
    \/ sock[c].up = <<>> /\ daemon.cmd.fd = c /\ daemon.cmd.buffer = Pieces(q) /\ daemon.st.repeat.fd # c
    \/ sock[c].up = <<>> /\ daemon.cmd.fd # c /\ daemon.st.repeat.fd = c /\ daemon.st.repeat.message = q

Called(c, k) ==
    /\ k <= Len(scene.script[c]) /\ Len(prog[c].script) = Len(scene.script[c]) - k
    /\ \A i \in 1..Len(prog[c].script) : prog[c].script[i] = scene.script[c][k + i]

Types(c) ==
    /\ sock[c].srv => sock[c].cli
    /\ sock[c].down \in Seq(PieceOf(Line)) /\ prog[c].ctx.buffer \in Seq(PieceOf(Line))
    /\ told[c].events \in Seq(Line) /\ told[c].answers \in Seq({"ok", "EIO"})
    /\ DOMAIN prog[c].ctx = Fields

(* What an irsend that has ended leaves behind matters to nobody. *)
Calling(c) ==
    LET k == Len(prog[c].returned)
    IN /\ prog[c].pc \in {"call", Wait, "exit"} /\ prog[c].returned \in Seq({"ok", "EIO", "EPROTO"})
       /\ prog[c].pc # "exit" => Types(c)
       /\ prog[c].pc = "call" =>
             /\ Called(c, k) /\ Len(told[c].answers) = k /\ Nowhere(c)
             /\ EventsAhead(sock[c].down, sock[c].srv, told[c].events)
       /\ prog[c].pc = Wait =>
             /\ Called(c, k + 1)
             /\ \/ Asked(c, k) /\ (Nowhere(c) \/ Somewhere(c, scene.script[c][k + 1]))
                \/ Told1(c, k) /\ Nowhere(c)

EventShape ==
    /\ daemon.left \in Seq(Event) /\ peer.left \in Seq(Event)
    /\ peer.stream \in Seq(PieceOf(Event)) /\ peer.last \in Seq(PieceOf(Event))
    /\ (\E c \in Clients : Kind(c) = "irsend") => daemon.hups = 0
    /\ \A c \in Clients : told[c].events \in Seq(Line)
CallsInv == HeardInv /\ EventShape /\ \A c \in Clients : Kind(c) = "irsend" => Calling(c)

-----------------------------------------------------------------------------
(* Reading a line *)

SplitsAt(E, p, q, x) ==
    /\ (p \o First(q, x)) \o From(q, x + 1) = p \o q
    /\ p \o First(q, x) \in Seq(E) /\ Len(p \o First(q, x)) = Len(p) + x
    /\ \A i \in 1..(Len(p) + x) : (p \o First(q, x))[i] = (p \o q)[i]
    /\ From(q, x + 1) \in Seq(E) /\ Len(From(q, x + 1)) = Len(q) - x

LEMMA SplitAt ==
    ASSUME NEW E, NEW p \in Seq(E), NEW q \in Seq(E), NEW x \in 0..Len(q)
    PROVE  SplitsAt(E, p, q, x)
<1>1. /\ First(q, x) \in Seq(E) /\ Len(First(q, x)) = x /\ \A i \in 1..x : First(q, x)[i] = q[i]
      /\ From(q, x + 1) \in Seq(E) /\ Len(From(q, x + 1)) = Len(q) - x
      /\ \A i \in 1..(Len(q) - x) : From(q, x + 1)[i] = q[x + i]
  <2>1. x \in Int /\ x <= Len(q) /\ x + 1 \in 1..(Len(q) + 1)
    OBVIOUS
  <2>2. First(q, x) \in Seq(E) /\ Len(First(q, x)) = x /\ \A i \in 1..x : First(q, x)[i] = q[i]
    BY <2>1, FirstType
  <2>3. /\ From(q, x + 1) \in Seq(E) /\ Len(From(q, x + 1)) = Len(q) + 1 - (x + 1)
        /\ \A i \in 1..(Len(q) + 1 - (x + 1)) : From(q, x + 1)[i] = q[(x + 1) + i - 1]
    BY <2>1, FromType
  <2>. QED  BY <2>1, <2>2, <2>3
<1>. DEFINE u == First(q, x)
            v == From(q, x + 1)
            pu == p \o u
            pq == p \o q
            w == pu \o v
<1>. HIDE DEF u, v
<1>2. /\ u \in Seq(E) /\ Len(u) = x /\ \A i \in 1..x : u[i] = q[i]
      /\ v \in Seq(E) /\ Len(v) = Len(q) - x /\ \A i \in 1..(Len(q) - x) : v[i] = q[x + i]
  BY <1>1 DEF u, v
<1>3. Joined(E, p, u, pu) /\ Joined(E, p, q, pq)
  BY <1>2, BothType
<1>4. Joined(E, pu, v, w)
  <2>1. pu \in Seq(E)
    BY <1>3 DEF Joined
  <2>. HIDE DEF pu
  <2>. QED  BY <1>2, <2>1, BothType
<1>. HIDE DEF pu, pq, w
<1>5. Len(p) \in Nat /\ Len(q) \in Nat
  OBVIOUS
<1>6. ASSUME NEW i \in 1..(Len(p) + x) PROVE pu[i] = pq[i]
  <2>1. CASE i <= Len(p)
    BY <1>3, <1>5, <2>1 DEF Joined
  <2>2. CASE i > Len(p)
    <3>1. PICK k \in 1..x : i = Len(p) + k
      <4>1. Len(p) \in Nat /\ x \in Nat /\ i \in 1..(Len(p) + x)
        OBVIOUS
      <4>. QED  BY ONLY <2>2, <4>1, Behind, Zenon
    <3>2. pu[i] = u[k] /\ pq[i] = q[k]
      BY <1>2, <1>3, <1>5, <3>1 DEF Joined
    <3>. QED  BY <1>2, <3>2
  <2>. QED  BY <1>5, <2>1, <2>2
<1>7. /\ pu \in Seq(E) /\ pq \in Seq(E) /\ w \in Seq(E)
      /\ Len(pu) = Len(p) + x /\ Len(pq) = Len(p) + Len(q) /\ Len(w) = Len(pq)
  BY <1>2, <1>3, <1>4, <1>5 DEF Joined
<1>8. ASSUME NEW i \in 1..Len(w) PROVE w[i] = pq[i]
  <2>1. CASE i <= Len(pu)
    BY <1>4, <1>5, <1>6, <1>7, <2>1 DEF Joined
  <2>2. CASE i > Len(pu)
    <3>1. PICK k \in 1..Len(v) : i = Len(pu) + k
      <4>1. Len(pu) \in Nat /\ Len(v) \in Nat /\ i \in 1..(Len(pu) + Len(v))
        BY <1>2, <1>5, <1>7
      <4>. QED  BY <2>2, <4>1, Behind
    <3>2. w[i] = v[k] /\ v[k] = q[x + k]
      BY <1>2, <1>4, <3>1 DEF Joined
    <3>3. x + k \in 1..Len(q) /\ i = Len(p) + (x + k)
      BY <1>2, <1>5, <1>7, <3>1
    <3>4. pq[i] = q[x + k]
      BY <1>3, <3>3 DEF Joined
    <3>. QED  BY <3>2, <3>4
  <2>. QED  BY <1>5, <1>7, <2>1, <2>2
<1>9. w = pq
  BY <1>7, <1>8, SeqEqual
<1>10. /\ w = pq /\ pu \in Seq(E) /\ Len(pu) = Len(p) + x /\ \A i \in 1..(Len(p) + x) : pu[i] = pq[i]
       /\ v \in Seq(E) /\ Len(v) = Len(q) - x
  BY <1>2, <1>6, <1>7, <1>9
<1>. QED  BY <1>10, Zenon DEF u, v, pu, pq, w, SplitsAt

LEMMA FromBoth ==
    ASSUME NEW E, NEW p \in Seq(E), NEW q \in Seq(E), NEW n \in 0..Len(p)
    PROVE  From(p, n + 1) \in Seq(E) /\ From(p, n + 1) \o q = From(p \o q, n + 1)
<1>. DEFINE pq == p \o q
            u == From(p, n + 1)
            uq == u \o q
            v == From(pq, n + 1)
<1>0. Len(p) \in Nat /\ Len(q) \in Nat /\ n \in Nat /\ n <= Len(p)
  OBVIOUS
<1>1. Joined(E, p, q, pq)
  BY BothType
<1>2. pq \in Seq(E) /\ Len(pq) = Len(p) + Len(q)
  BY <1>1 DEF Joined
<1>. HIDE DEF pq
<1>3. /\ u \in Seq(E) /\ Len(u) = Len(p) - n /\ \A i \in 1..(Len(p) - n) : u[i] = p[n + i]
  <2>1. n + 1 \in 1..(Len(p) + 1)
    OBVIOUS
  <2>2. u \in Seq(E) /\ Len(u) = Len(p) + 1 - (n + 1) /\ \A i \in 1..(Len(p) + 1 - (n + 1)) : u[i] = p[(n + 1) + i - 1]
    BY <2>1, FromType
  <2>. HIDE DEF u
  <2>3. Len(p) + 1 - (n + 1) = Len(p) - n
    BY <1>0
  <2>4. ASSUME NEW i \in 1..(Len(p) - n) PROVE u[i] = p[n + i]
    <3>1. (n + 1) + i - 1 = n + i
      BY <1>0
    <3>2. i \in 1..(Len(p) + 1 - (n + 1))
      BY <2>3
    <3>3. u[i] = p[(n + 1) + i - 1]
      BY <2>2, <3>2
    <3>. QED  BY <3>1, <3>3
  <2>. QED  BY <2>2, <2>3, <2>4
<1>4. /\ v \in Seq(E) /\ Len(v) = Len(pq) - n /\ \A i \in 1..(Len(pq) - n) : v[i] = pq[n + i]
  <2>1. n + 1 \in 1..(Len(pq) + 1)
    BY <1>0, <1>2
  <2>2. v \in Seq(E) /\ Len(v) = Len(pq) + 1 - (n + 1) /\ \A i \in 1..(Len(pq) + 1 - (n + 1)) : v[i] = pq[(n + 1) + i - 1]
    BY <1>2, <2>1, FromType
  <2>. HIDE DEF v
  <2>3. Len(pq) + 1 - (n + 1) = Len(pq) - n /\ \A i \in Int : (n + 1) + i - 1 = n + i
    BY <1>0, <1>2
  <2>. QED  BY <2>2, <2>3, <1>0, <1>2
<1>. HIDE DEF u, v
<1>5. Joined(E, u, q, uq)
  BY <1>3, BothType
<1>. HIDE DEF uq
<1>6. uq \in Seq(E) /\ Len(uq) = Len(v)
  BY <1>0, <1>2, <1>3, <1>4, <1>5 DEF Joined
<1>7. ASSUME NEW i \in 1..Len(uq) PROVE uq[i] = v[i]
  <2>1. v[i] = pq[n + i] /\ i \in 1..(Len(u) + Len(q))
    BY <1>0, <1>2, <1>3, <1>4, <1>6
  <2>2. CASE i <= Len(u)
    <3>1. uq[i] = p[n + i] /\ n + i \in 1..Len(p)
      BY <1>0, <1>3, <1>5, <2>1, <2>2 DEF Joined
    <3>. QED  BY <1>1, <2>1, <3>1 DEF Joined
  <2>3. CASE i > Len(u)
    <3>1. PICK k \in 1..Len(q) : i = Len(u) + k
      <4>1. Len(u) \in Nat
        BY <1>0, <1>3
      <4>. QED  BY ONLY <1>0, <2>1, <2>3, <4>1, Behind, Zenon
    <3>2. uq[i] = q[k]
      BY <1>5, <3>1 DEF Joined
    <3>3. n + i = Len(p) + k
      BY <1>0, <1>3, <3>1
    <3>4. pq[n + i] = q[k]
      BY <1>1, <3>3 DEF Joined
    <3>. QED  BY <2>1, <3>2, <3>4
  <2>. QED  BY <1>0, <1>3, <2>1, <2>2, <2>3
<1>8. uq = v
  BY <1>4, <1>6, <1>7, SeqEqual
<1>. QED  BY <1>3, <1>8, Zenon DEF u, v, pq, uq

(* The text of the first e pieces of S. *)
Cutting(S, e) ==
    CASE e = 0 -> <<>>
      [] e = 2 /\ S[1].part = 1 /\ S[2].part = 2 -> S[1].line
      [] OTHER -> Fragment

LEMMA TextIs ==
    ASSUME NEW S, NEW b \in Seq(PieceOf(Line)), \A i \in 1..Len(b) : b[i] = S[i]
    PROVE  Text(b) = Cutting(S, IF Newline(b) = 0 THEN Len(b) ELSE Newline(b) - 1)
<1>. DEFINE n == Newline(b)
            s == IF n = 0 THEN b ELSE First(b, n - 1)
            e == IF n = 0 THEN Len(b) ELSE n - 1
<1>1. n \in 0..Len(b)
  BY NewlineAt
<1>2. Text(b) = CASE s = <<>> -> <<>>
                  [] Len(s) = 2 /\ s[1].part = 1 /\ s[2].part = 2 -> s[1].line
                  [] OTHER -> Fragment
  BY Zenon DEF Text
<1>. HIDE DEF n
<1>3. s \in Seq(PieceOf(Line)) /\ Len(s) = e /\ \A i \in 1..e : s[i] = S[i]
  <2>1. CASE n = 0
    BY <2>1
  <2>2. CASE n # 0
    <3>1. n - 1 \in Int /\ n - 1 <= Len(b) /\ ~(n - 1 < 0)
      BY <1>1, <2>2
    <3>2. /\ First(b, n - 1) \in Seq(PieceOf(Line)) /\ Len(First(b, n - 1)) = n - 1
          /\ \A i \in 1..(n - 1) : First(b, n - 1)[i] = b[i]
      BY <3>1, FirstType
    <3>3. \A i \in 1..(n - 1) : i \in 1..Len(b)
      BY <1>1, <2>2
    <3>. QED  BY <2>2, <3>2, <3>3
  <2>. QED  BY <2>1, <2>2
<1>4. e \in Nat
  BY <1>1
<1>. HIDE DEF s, e
<1>5. s = <<>> <=> e = 0
  BY <1>3, <1>4
<1>6. e = 2 => s[1] = S[1] /\ s[2] = S[2]
  BY <1>3
<1>7. Text(b) = Cutting(S, e)
  BY <1>2, <1>3, <1>5, <1>6 DEF Cutting
<1>. QED  BY <1>7 DEF e, n

(* A whole line is taken, or pieces without a newline are looked at. *)
Takes(S, S2, string) ==
    \E n \in 1..Len(S) :
        /\ S[n].part = 3 /\ \A i \in 1..(n - 1) : S[i].part # 3
        /\ S2 = From(S, n + 1) /\ string = Cutting(S, n - 1)
Peeks(S, S2, string, down, srv) ==
    /\ S2 = S
    /\ \E l \in 0..Len(S) :
          /\ \A i \in 1..l : S[i].part # 3
          /\ string = Cutting(S, l) /\ (l = 0 => ~srv)
          /\ (l = Len(S) /\ down = <<>>) \/ l >= 3

(* read(), when there is something. *)
LEMMA NewIs ==
    ASSUME NEW ctx, NEW b \in Seq(PieceOf(Line)), ctx.buffer = b, NEW s, NEW d \in Seq(PieceOf(Line)), s.down = d,
           scene.packet \in Nat, Reads(ctx, s)
    PROVE  \E x \in 0..Len(d) :
              /\ New(ctx, s) = First(d, x) /\ Len(New(ctx, s)) = x
              /\ ~MustFill(ctx) => x = 0 /\ Newline(b) # 0
              /\ MustFill(ctx) => (x = Len(d) \/ Len(b) + x >= scene.packet) /\ (d = <<>> => ~s.srv)
<1>1. CASE MustFill(ctx)
  <2>1. New(ctx, s) = Available(d, scene.packet - Len(b))
    BY <1>1 DEF New
  <2>2. scene.packet - Len(b) \in Int
    OBVIOUS
  <2>3. PICK n \in Int : /\ n = (IF Len(d) < scene.packet - Len(b) THEN Len(d) ELSE scene.packet - Len(b))
                         /\ n <= Len(d) /\ Available(d, scene.packet - Len(b)) = First(d, n)
    BY <2>2, AvailableIs, Zenon
  <2>4. First(d, n) \in Seq(PieceOf(Line)) /\ Len(First(d, n)) = IF n < 0 THEN 0 ELSE n
    BY <2>3, FirstType
  <2>5. d = <<>> => ~s.srv
    BY <1>1 DEF Reads
  <2>6. CASE n < 0
    <3>1. First(d, n) = First(d, 0)
      <4>1. First(d, 0) \in Seq(PieceOf(Line)) /\ Len(First(d, 0)) = 0
        BY FirstType
      <4>2. First(d, 0) = <<>> /\ First(d, n) = <<>>
        BY <2>4, <2>6, <4>1
      <4>. QED  BY <4>2
    <3>2. 0 \in 0..Len(d) /\ Len(b) + 0 >= scene.packet
      BY <2>2, <2>3, <2>6
    <3>. QED  BY <1>1, <2>1, <2>3, <2>4, <2>5, <2>6, <3>1, <3>2
  <2>7. CASE n >= 0
    <3>1. n \in 0..Len(d) /\ (n = Len(d) \/ Len(b) + n >= scene.packet)
      BY <2>2, <2>3, <2>7
    <3>2. Len(First(d, n)) = n
      BY <2>3, <2>4, <2>7
    <3>. QED  BY <1>1, <2>1, <2>3, <2>5, <3>1, <3>2, Zenon
  <2>. QED  BY <2>3, <2>6, <2>7
<1>2. CASE ~MustFill(ctx)
  <2>1. New(ctx, s) = <<>> /\ Newline(b) # 0
    BY <1>2 DEF New, MustFill
  <2>2. First(d, 0) = <<>>
    <3>1. First(d, 0) \in Seq(PieceOf(Line)) /\ Len(First(d, 0)) = 0
      BY FirstType
    <3>. QED  BY <3>1
  <2>3. 0 \in 0..Len(d)
    OBVIOUS
  <2>. QED  BY <1>2, <2>1, <2>2, <2>3
<1>. QED  BY <1>1, <1>2

(* The string that read_string() hands to the loop, and what is left. *)
Alike(ctx, mid) ==
    /\ DOMAIN mid = Fields /\ mid.packet = ctx.packet /\ mid.state = ctx.state
    /\ mid.status = ctx.status /\ mid.left = ctx.left /\ mid.result = ctx.result

LEMMA ReadOnce ==
    ASSUME NEW ctx, DOMAIN ctx = Fields, NEW b \in Seq(PieceOf(Line)), ctx.buffer = b,
           NEW s, NEW d \in Seq(PieceOf(Line)), "down" \in DOMAIN s, s.down = d,
           scene.packet \in Nat, scene.packet >= 3, Reads(ctx, s)
    PROVE  \E string, mid : \E d2 \in Seq(PieceOf(Line)) :
              /\ Alike(ctx, mid) /\ mid.buffer \in Seq(PieceOf(Line))
              /\ Stepped(ctx, s) = ReplyLine(mid, string) /\ Drained(ctx, s) = [s EXCEPT !.down = d2]
              /\ \/ Takes(b \o d, mid.buffer \o d2, string)
                 \/ Peeks(b \o d, mid.buffer \o d2, string, d2, s.srv)
<1>. DEFINE E == PieceOf(Line)
            S == b \o d
            new == New(ctx, s)
            b2 == b \o new
            d2 == From(d, Len(new) + 1)
            n == Newline(b2)
            rest == IF n = 0 THEN b2 ELSE From(b2, n + 1)
            mid == [ctx EXCEPT !.buffer = rest, !.null = n = 0]
            string == Text(b2)
<1>1. PICK x \in 0..Len(d) :
         /\ new = First(d, x) /\ Len(new) = x
         /\ ~MustFill(ctx) => x = 0 /\ Newline(b) # 0
         /\ MustFill(ctx) => (x = Len(d) \/ Len(b) + x >= scene.packet) /\ (d = <<>> => ~s.srv)
  BY NewIs
<1>2. /\ b2 \o d2 = S /\ b2 \in Seq(E) /\ Len(b2) = Len(b) + x /\ \A i \in 1..(Len(b) + x) : b2[i] = S[i]
      /\ d2 \in Seq(E) /\ Len(d2) = Len(d) - x
  <2>1. /\ (b \o First(d, x)) \o From(d, x + 1) = S
        /\ b \o First(d, x) \in Seq(E) /\ Len(b \o First(d, x)) = Len(b) + x
        /\ \A i \in 1..(Len(b) + x) : (b \o First(d, x))[i] = S[i]
        /\ From(d, x + 1) \in Seq(E) /\ Len(From(d, x + 1)) = Len(d) - x
    <3>1. SplitsAt(E, b, d, x)
      BY SplitAt
    <3>. QED  BY <3>1, Zenon DEF SplitsAt
  <2>2. b2 = b \o First(d, x) /\ d2 = From(d, x + 1)
    BY <1>1
  <2>. QED  BY <2>1, <2>2
<1>3. S \in Seq(E) /\ Len(S) = Len(b) + Len(d)
  OBVIOUS
<1>4. Stepped(ctx, s) = ReplyLine(mid, string)
  BY <1>1 DEF Stepped, read_string
<1>5. Drained(ctx, s) = [s EXCEPT !.down = d2]
  BY DEF Drained
<1>6. DOMAIN ctx = Fields /\ Alike(ctx, mid) /\ mid.buffer = rest
  BY DEF Alike, Fields
<1>. HIDE DEF E, S, new, b2, d2
<1>7. /\ n \in 0..Len(b2) /\ (n = 0 => \A k \in 1..Len(b2) : b2[k].part # 3)
      /\ n # 0 => b2[n].part = 3 /\ \A k \in 1..(n - 1) : b2[k].part # 3
  BY <1>2, NewlineAt DEF E
<1>8. string = Cutting(S, IF n = 0 THEN Len(b2) ELSE n - 1)
  BY <1>2, TextIs DEF E
<1>9. Len(b) \in Nat /\ Len(d) \in Nat /\ x \in Nat /\ x <= Len(d) /\ scene.packet \in Nat /\ scene.packet >= 3
  OBVIOUS
<1>. HIDE DEF n, string, mid
<1>12. /\ mid.buffer \in Seq(E)
       /\ \/ Takes(S, mid.buffer \o d2, string)
          \/ Peeks(S, mid.buffer \o d2, string, d2, s.srv)
  <2>1. CASE n # 0
    <3>1. n \in 1..Len(S) /\ n \in 1..(Len(b) + x) /\ n \in 0..Len(b2)
      BY <1>2, <1>3, <1>7, <1>9, <2>1
    <3>2. rest \in Seq(E) /\ rest \o d2 = From(S, n + 1)
      <4>1. From(b2, n + 1) \in Seq(E) /\ From(b2, n + 1) \o d2 = From(b2 \o d2, n + 1)
        BY ONLY <1>2, <3>1, FromBoth, Zenon
      <4>. QED  BY <1>2, <2>1, <4>1
    <3>3. \A i \in 1..n : i \in 1..(Len(b) + x)
      BY <3>1, <1>9
    <3>4. S[n].part = 3 /\ \A i \in 1..(n - 1) : S[i].part # 3
      BY <1>2, <1>7, <2>1, <3>1, <3>3
    <3>5. Takes(S, mid.buffer \o d2, string)
      BY <1>6, <1>8, <2>1, <3>1, <3>2, <3>4 DEF Takes
    <3>. QED  BY <1>6, <3>2, <3>5
  <2>2. CASE n = 0
    <3>1. MustFill(ctx)
      <4>1. ASSUME ~MustFill(ctx) PROVE FALSE
        <5>1. Newline(b) # 0 /\ Newline(b) \in 0..Len(b) /\ b[Newline(b)].part = 3
          BY <1>1, <4>1, NewlineAt
        <5>2. Newline(b) \in 1..Len(b) /\ Newline(b) \in 1..(Len(b) + x)
          BY <1>9, <5>1
        <5>3. S[Newline(b)] = b[Newline(b)]
          BY <5>2 DEF S
        <5>. QED  BY <1>2, <1>7, <1>9, <2>2, <5>1, <5>2, <5>3
      <4>. QED  BY <4>1
    <3>2. rest = b2
      BY <2>2
    <3>3. Len(b2) \in 0..Len(S) /\ \A i \in 1..Len(b2) : S[i].part # 3
      BY <1>2, <1>3, <1>7, <1>9, <2>2
    <3>4. (Len(b2) = Len(S) /\ d2 = <<>>) \/ Len(b2) >= 3
      <4>1. CASE x = Len(d)
        <5>1. Len(d2) = 0
          BY <1>2, <1>9, <4>1
        <5>. QED  BY <1>2, <1>3, <4>1, <5>1
      <4>2. CASE Len(b) + x >= scene.packet
        BY <1>2, <1>9, <4>2
      <4>. QED  BY <1>1, <3>1, <4>1, <4>2
    <3>5. Len(b2) = 0 => ~s.srv
      <4>1. ASSUME Len(b2) = 0 PROVE ~s.srv
        <5>1. x = 0 /\ x = Len(d)
          BY <1>1, <1>2, <1>9, <3>1, <4>1
        <5>2. d = <<>>
          BY <5>1
        <5>. QED  BY <1>1, <3>1, <5>2
      <4>. QED  BY <4>1
    <3>6. mid.buffer \o d2 = S
      BY <1>2, <1>6, <3>2
    <3>7. string = Cutting(S, Len(b2))
      BY <1>8, <2>2
    <3>8. Peeks(S, mid.buffer \o d2, string, d2, s.srv)
      BY <3>3, <3>4, <3>5, <3>6, <3>7 DEF Peeks
    <3>. QED  BY <1>2, <1>6, <3>2, <3>8
  <2>. QED  BY <2>1, <2>2
<1>. DEFINE Read(str, m, down) ==
              /\ Alike(ctx, m) /\ m.buffer \in Seq(E)
              /\ Stepped(ctx, s) = ReplyLine(m, str) /\ Drained(ctx, s) = [s EXCEPT !.down = down]
              /\ \/ Takes(S, m.buffer \o down, str)
                 \/ Peeks(S, m.buffer \o down, str, down, s.srv)
<1>13. Read(string, mid, d2) /\ d2 \in Seq(E)
  BY ONLY <1>2, <1>4, <1>5, <1>6, <1>12, Zenon
<1>. HIDE DEF Read
<1>14. \E str, m : \E down \in Seq(E) : Read(str, m, down)
  BY <1>13, Zenon
<1>. QED  BY <1>14, Zenon DEF E, S, Read

-----------------------------------------------------------------------------
(* The states of a call when a line is read *)

(* S2 is S without its first n pieces. *)
Rest(S, n, S2) ==
    /\ S2 \in Seq(PieceOf(Line)) /\ Len(S2) = Len(S) - n
    /\ \A i \in 1..(Len(S) - n) : S2[i] = S[n + i]

LEMMA RestOf ==
    ASSUME NEW S \in Seq(PieceOf(Line)), NEW n \in 0..Len(S)
    PROVE  Rest(S, n, From(S, n + 1))
<1>. DEFINE v == From(S, n + 1)
<1>1. n \in Nat /\ n + 1 \in 1..(Len(S) + 1) /\ Len(S) \in Nat
  OBVIOUS
<1>2. v \in Seq(PieceOf(Line)) /\ Len(v) = Len(S) + 1 - (n + 1) /\ \A i \in 1..(Len(S) + 1 - (n + 1)) : v[i] = S[(n + 1) + i - 1]
  BY <1>1, FromType
<1>. HIDE DEF v
<1>3. Len(S) + 1 - (n + 1) = Len(S) - n /\ \A i \in Int : (n + 1) + i - 1 = n + i
  BY <1>1
<1>4. Rest(S, n, v)
  BY ONLY <1>1, <1>2, <1>3 DEF Rest
<1>. QED  BY <1>4 DEF v

LEMMA RestBoth ==
    ASSUME NEW b \in Seq(PieceOf(Line)), NEW d \in Seq(PieceOf(Line))
    PROVE  b \o d \in Seq(PieceOf(Line)) /\ Len(b) \in 0..Len(b \o d) /\ Rest(b \o d, Len(b), d)
<1>1. Joined(PieceOf(Line), b, d, b \o d)
  BY BothType
<1>. QED  BY <1>1 DEF Joined, Rest

LEMMA EventsRest ==
    ASSUME NEW S \in Seq(PieceOf(Line)), NEW srv, NEW events, EventsAhead(S, srv, events),
           NEW n \in 0..Len(S), NEW S2, Rest(S, n, S2)
    PROVE  EventsAhead(S2, srv, events)
<1>1. Len(S) \in Nat /\ n \in Nat /\ n <= Len(S) /\ Len(S2) = Len(S) - n /\ S2 \in Seq(PieceOf(Line))
  BY DEF Rest
<1>2. ASSUME NEW i \in 1..Len(S2) PROVE S2[i].line \in Event
  BY <1>1, <1>2 DEF Rest, EventsAhead
<1>3. ASSUME S2 # <<>> PROVE S2[Len(S2)].part = 3 \/ ~srv
  <2>1. Len(S2) \in 1..(Len(S) - n) /\ n + Len(S2) = Len(S) /\ S # <<>>
    BY <1>1, <1>3
  <2>2. S2[Len(S2)] = S[n + Len(S2)]
    BY <2>1 DEF Rest
  <2>. QED  BY <2>1, <2>2 DEF EventsAhead
<1>4. ASSUME events = <<>> /\ srv PROVE S2 = <<>>
  <2>1. S = <<>>
    BY <1>4 DEF EventsAhead
  <2>. QED  BY <1>1, <2>1
<1>. QED  BY <1>2, <1>3, <1>4 DEF EventsAhead

LEMMA EventWord ==
    /\ \A e \in Event : e \notin {<<>>, <<"BEGIN">>, <<"END">>, <<"ERROR">>}
    /\ Fragment \notin {<<>>, <<"BEGIN">>, <<"END">>, <<"ERROR">>}
<1>1. Len(<<"BEGIN">>) = 1 /\ Len(<<"END">>) = 1 /\ Len(<<"ERROR">>) = 1
  OBVIOUS
<1>2. "fragment" # "BEGIN" /\ "fragment" # "END" /\ "fragment" # "ERROR"
  OBVIOUS
<1>. QED  BY <1>1, <1>2 DEF Event, Fragment

LEMMA CuttingIs ==
    ASSUME NEW S, NEW l \in Nat
    PROVE  /\ l = 0 => Cutting(S, l) = <<>>
           /\ l # 0 => Cutting(S, l) \in {S[1].line, Fragment}
           /\ l = 2 /\ S[1].part = 1 /\ S[2].part = 2 => Cutting(S, l) = S[1].line
           /\ l = 1 => Cutting(S, l) = Fragment
           /\ Cutting(S, l) = <<"END">> => l = 2 /\ S[1].line = <<"END">>
<1>1. <<>> # <<"END">> /\ Fragment # <<"END">>
  BY EventWord
<1>2. CASE l = 0
  <2>1. Cutting(S, l) = <<>>
    BY <1>2 DEF Cutting
  <2>. QED  BY <1>1, <1>2, <2>1
<1>3. CASE l # 0 /\ ~(l = 2 /\ S[1].part = 1 /\ S[2].part = 2)
  <2>1. Cutting(S, l) = Fragment
    BY <1>3, Zenon DEF Cutting
  <2>. QED  BY <1>1, <1>3, <2>1
<1>4. CASE l = 2 /\ S[1].part = 1 /\ S[2].part = 2
  <2>1. Cutting(S, l) = S[1].line
    BY <1>4 DEF Cutting
  <2>. QED  BY <1>4, <2>1
<1>. QED  BY <1>2, <1>3, <1>4

LEMMA LoopFrame ==
    ASSUME NEW ctx, DOMAIN ctx = Fields, NEW mid, Alike(ctx, mid), NEW string
    PROVE  /\ DOMAIN ReplyLine(mid, string) = Fields /\ ReplyLine(mid, string).packet = ctx.packet
           /\ ReplyLine(mid, string).buffer = mid.buffer
<1>1. DOMAIN mid = Fields /\ mid.packet = ctx.packet
  BY DEF Alike
<1>2. PICK state, status, left, result : Goes(mid, ReplyLine(mid, string), state, status, left, result)
  BY <1>1, LoopKeeps
<1>. QED  BY <1>1, <1>2 DEF Goes

(* A command that is not answered goes on waiting, or the connection is not sound. *)
LEMMA CalmReads ==
    ASSUME NEW S \in Seq(PieceOf(Line)), NEW srv, NEW events, NEW ctx, NEW q, Calm(ctx, q, S, srv, events),
           NEW mid, Alike(ctx, mid), NEW string, NEW S2, NEW d,
           Takes(S, S2, string) \/ Peeks(S, S2, string, d, srv)
    PROVE  \/ ReplyLine(mid, string).result = None /\ Calm(ReplyLine(mid, string), q, S2, srv, events)
           \/ ReplyLine(mid, string).result = "EPROTO" /\ (~srv \/ events # <<>>)
<1>1. /\ DOMAIN ctx = Fields /\ ctx.packet = q /\ ctx.result = None /\ ctx.state = "P_BEGIN" /\ ctx.status = "ok"
      /\ EventsAhead(S, srv, events)
  BY DEF Calm, InLoop
<1>2. /\ DOMAIN mid = Fields /\ mid.packet = q /\ mid.result = None /\ mid.state = "P_BEGIN" /\ mid.status = "ok"
  BY <1>1 DEF Alike
<1>3. PICK l \in 0..Len(S) : /\ string = Cutting(S, l) /\ (l = 0 => S # <<>> \/ ~srv)
                             /\ EventsAhead(S2, srv, events)
  <2>1. CASE Takes(S, S2, string)
    <3>1. PICK n \in 1..Len(S) : S2 = From(S, n + 1) /\ string = Cutting(S, n - 1)
      BY <2>1 DEF Takes
    <3>2. n - 1 \in 0..Len(S) /\ n \in 0..Len(S) /\ S # <<>>
      BY <3>1
    <3>3. Rest(S, n, S2)
      BY <3>1, <3>2, RestOf
    <3>. QED  BY <1>1, <3>1, <3>2, <3>3, EventsRest
  <2>2. CASE Peeks(S, S2, string, d, srv)
    BY <1>1, <2>2 DEF Peeks
  <2>. QED  BY <2>1, <2>2
<1>4. CASE l = 0
  <2>1. string = <<>> /\ (~srv \/ events # <<>>)
    BY <1>1, <1>3, <1>4, CuttingIs DEF EventsAhead
  <2>2. Goes(mid, ReplyLine(mid, string), mid.state, mid.status, mid.left, "EPROTO")
    BY <1>2, <2>1, EmptyLine
  <2>. QED  BY <2>1, <2>2 DEF Goes
<1>5. CASE l # 0
  <2>1. string \notin {<<>>, <<"BEGIN">>}
    <3>1. string \in {S[1].line, Fragment} /\ 1 \in 1..Len(S)
      BY <1>3, <1>5, CuttingIs
    <3>2. S[1].line \in Event
      BY <1>1, <3>1 DEF EventsAhead
    <3>. QED  BY <3>1, <3>2, EventWord
  <2>2. Goes(mid, ReplyLine(mid, string), mid.state, mid.status, mid.left, mid.result)
    BY <1>2, <2>1, LoopSkips
  <2>. QED  BY <1>2, <1>3, <2>2 DEF Goes, Calm, InLoop
<1>. QED  BY <1>4, <1>5

(* The loop ends: with the answer's result when only events are left, or   *)
(* with EPROTO when the connection is not sound.                           *)
Ends(new, d, srv, events, r) ==
    \/ new.result = r /\ EventsAhead(d, srv, events)
    \/ new.result = "EPROTO" /\ (~srv \/ events # <<>>)

LEMMA EventsNone ==
    ASSUME NEW srv, NEW events
    PROVE  EventsAhead(<<>>, srv, events)
  BY DEF EventsAhead

LEMMA CutReads ==
    ASSUME NEW S \in Seq(PieceOf(Line)), NEW srv, NEW events, NEW ctx, NEW q, NEW r \in {"ok", "EIO"},
           Cut(ctx, q, S, srv, events, r),
           NEW mid, Alike(ctx, mid), NEW string, mid.buffer \in Seq(PieceOf(Line)),
           NEW d \in Seq(PieceOf(Line)), NEW S2, S2 = mid.buffer \o d,
           Takes(S, S2, string) \/ Peeks(S, S2, string, d, srv)
    PROVE  \/ ReplyLine(mid, string).result = None /\ Cut(ReplyLine(mid, string), q, S2, srv, events, r)
           \/ Ends(ReplyLine(mid, string), d, srv, events, r)
<1>. DEFINE new == ReplyLine(mid, string)
            knows == ctx.state \in After /\ ctx.status = r
<1>1. DOMAIN ctx = Fields /\ ctx.packet = q /\ ctx.result = None /\ (~srv \/ events # <<>>)
  BY DEF Cut, InLoop
<1>2. PICK n \in 0..Len(S) : /\ \A i \in 1..n : S[i].part # 3
                             /\ EventsBehind(S, n, srv)
                             /\ knows \/ \A i \in 1..n : S[i].line # <<"END">>
  BY DEF Cut
<1>3. DOMAIN mid = Fields /\ mid.packet = q /\ mid.result = None /\ mid.state = ctx.state /\ mid.status = ctx.status
  BY <1>1 DEF Alike
<1>4. DOMAIN new = Fields /\ new.packet = q
  BY <1>1, LoopFrame
<1>5. PICK l \in 0..Len(S) : /\ string = Cutting(S, l)
                             /\ \/ S2 = S /\ ((l = Len(S) /\ d = <<>>) \/ l >= 3)
                                \/ Rest(S, l + 1, S2) /\ l + 1 > n /\ l + 1 <= Len(S)
  <2>1. CASE Takes(S, S2, string)
    <3>1. PICK k \in 1..Len(S) : /\ S[k].part = 3 /\ S2 = From(S, k + 1) /\ string = Cutting(S, k - 1)
      BY <2>1 DEF Takes
    <3>2. k > n
      BY <1>2, <3>1
    <3>3. k - 1 \in 0..Len(S) /\ k \in 0..Len(S) /\ (k - 1) + 1 = k /\ k <= Len(S)
      BY <3>1
    <3>4. Rest(S, k, S2)
      BY <3>1, <3>3, RestOf
    <3>. QED  BY <3>1, <3>2, <3>3, <3>4
  <2>2. CASE Peeks(S, S2, string, d, srv)
    BY <2>2 DEF Peeks
  <2>. QED  BY <2>1, <2>2
<1>6. ASSUME Rest(S, l + 1, S2), l + 1 > n, l + 1 <= Len(S) PROVE EventsBehind(S2, 0, srv) /\ S2 \in Seq(PieceOf(Line))
  <2>1. /\ S2 \in Seq(PieceOf(Line)) /\ Len(S2) = Len(S) - (l + 1) /\ Len(S) \in Nat
        /\ \A i \in 1..(Len(S) - (l + 1)) : S2[i] = S[(l + 1) + i]
    BY <1>6 DEF Rest
  <2>2. ASSUME NEW i \in (0 + 1)..Len(S2) PROVE S2[i].line \in Event
    <3>1. i \in 1..(Len(S) - (l + 1)) /\ (l + 1) + i \in (n + 1)..Len(S)
      BY <1>6, <2>1
    <3>. QED  BY <1>2, <2>1, <3>1 DEF EventsBehind
  <2>3. ASSUME Len(S2) > 0 PROVE S2[Len(S2)].part = 3 \/ ~srv
    <3>1. Len(S2) \in 1..(Len(S) - (l + 1)) /\ (l + 1) + Len(S2) = Len(S) /\ Len(S) > n
      BY <1>6, <2>1, <2>3
    <3>. QED  BY <1>2, <2>1, <3>1 DEF EventsBehind
  <2>. QED  BY <2>1, <2>2, <2>3 DEF EventsBehind
<1>7. ASSUME string = <<"END">> PROVE l = 2 /\ knows
  <2>1. l = 2 /\ S[1].line = <<"END">>
    <3>1. l \in Nat /\ Cutting(S, l) = <<"END">>
      BY <1>5, <1>7
    <3>. QED  BY <3>1, CuttingIs, Zenon
  <2>2. 1 \in 1..Len(S)
    BY <1>5, <2>1
  <2>3. n >= 1
    <3>1. ASSUME ~(n >= 1) PROVE FALSE
      <4>1. 1 \in (n + 1)..Len(S)
        BY <2>2, <3>1
      <4>2. S[1].line \in Event
        BY <1>2, <4>1 DEF EventsBehind
      <4>. QED  BY <2>1, <4>2, EventWord
    <3>. QED  BY <3>1
  <2>4. 1 \in 1..n
    BY <2>3
  <2>. QED  BY <1>2, <2>1, <2>4
<1>8. string # <<"END">> => new.result \in {None, "EPROTO"}
  BY <1>3, LoopStrays
<1>9. knows => new.status = r /\ (new.result = None => new.state \in After) /\ new.result \in {None, r, "EPROTO"}
  BY <1>3, LoopAfter
<1>. HIDE DEF new
<1>10. new.result \in {None, r, "EPROTO"} /\ (new.result = r => string = <<"END">>)
  BY <1>7, <1>8, <1>9 DEF None
<1>11. CASE new.result = None
  <2>1. ASSUME NEW k \in 0..Len(S2), \A i \in 1..k : S2[i].part # 3, EventsBehind(S2, k, srv),
               (new.state \in After /\ new.status = r) \/ \A i \in 1..k : S2[i].line # <<"END">>
        PROVE  Cut(new, q, S2, srv, events, r)
    BY <1>1, <1>4, <1>11, <2>1 DEF Cut, InLoop
  <2>2. CASE S2 = S
    <3>1. (new.state \in After /\ new.status = r) \/ \A i \in 1..n : S2[i].line # <<"END">>
      BY <1>2, <1>9, <1>11, <2>2
    <3>. QED  BY <1>2, <1>11, <2>1, <2>2, <3>1 DEF new
  <2>3. CASE Rest(S, l + 1, S2) /\ l + 1 > n /\ l + 1 <= Len(S)
    <3>1. EventsBehind(S2, 0, srv) /\ 0 \in 0..Len(S2) /\ 1..0 = {}
      BY <1>6, <2>3
    <3>. QED  BY <1>11, <2>1, <3>1 DEF new
  <2>. QED  BY <1>5, <2>2, <2>3
<1>12. CASE new.result = r
  <2>1. l = 2
    BY <1>7, <1>10, <1>12
  <2>2. EventsAhead(d, srv, events)
    <3>1. CASE S2 = S /\ ((l = Len(S) /\ d = <<>>) \/ l >= 3)
      BY <2>1, <3>1, EventsNone
    <3>2. CASE Rest(S, l + 1, S2) /\ l + 1 > n /\ l + 1 <= Len(S)
      <4>1. EventsBehind(S2, 0, srv) /\ S2 \in Seq(PieceOf(Line)) /\ 0 + 1 = 1
        BY <1>6, <3>2
      <4>2. EventsAhead(S2, srv, events)
        BY <1>1, <4>1 DEF EventsAhead, EventsBehind
      <4>3. S2 \in Seq(PieceOf(Line)) /\ Len(mid.buffer) \in 0..Len(S2) /\ Rest(S2, Len(mid.buffer), d)
        BY RestBoth
      <4>. QED  BY <4>2, <4>3, EventsRest
    <3>. QED  BY <1>5, <3>1, <3>2
  <2>. QED  BY <1>12, <2>2 DEF Ends, new
<1>13. CASE new.result = "EPROTO"
  BY <1>1, <1>13 DEF Ends, new
<1>. QED  BY <1>10, <1>11, <1>12, <1>13

(* In step with the answer. *)
LEMMA LineAt ==
    ASSUME NEW A, NEW j \in Nat, NEW i \in 1..3
    PROVE  PieceAt(A, 3 * j + i) = Piece(A[j + 1], i)
<1>1. ((3 * j + i) - 1) \div 3 = j /\ ((3 * j + i) - 1) % 3 = i - 1
  OBVIOUS
<1>2. (3 * j + i) - 1 = 3 * j + i - 1 /\ (i - 1) + 1 = i
  OBVIOUS
<1>. QED  BY <1>1, <1>2 DEF PieceAt, Piece

LEMMA AheadDrop ==
    ASSUME NEW S \in Seq(PieceOf(Line)), NEW srv, NEW events, NEW A, NEW j \in Nat, NEW t \in Nat, NEW m \in Nat,
           Ahead(S, srv, events, A, j, t, m), NEW k \in 0..t, NEW S2, Rest(S, k, S2)
    PROVE  Ahead(S2, srv, events, A, j, t - k, m)
<1>1. /\ Len(S) \in Nat /\ k \in Nat /\ k <= t /\ Len(S2) = Len(S) - k /\ S2 \in Seq(PieceOf(Line))
      /\ \A i \in 1..(Len(S) - k) : S2[i] = S[k + i]
  BY DEF Rest
<1>2. /\ t + m <= Len(S) /\ 3 * j + m <= 3 * Len(A)
      /\ \A i \in 1..t : S[i].line \in Event
      /\ \A i \in 1..m : S[t + i] = PieceAt(A, 3 * j + i)
      /\ \A i \in (t + m + 1)..Len(S) : S[i].line \in Event
      /\ t > 0 => j = 0 /\ (S[t].part = 3 \/ (~srv /\ Len(S) = t))
      /\ 3 * j + m # 3 * Len(A) => ~srv \/ events # <<>>
      /\ Len(S) > t + m => S[Len(S)].part = 3 \/ ~srv
      /\ events = <<>> /\ srv => t = 0 /\ Len(S) = m
  BY DEF Ahead
<1>3. (t - k) + m <= Len(S2) /\ (t - k > 0 => t > 0) /\ (Len(S) = t + m => Len(S2) = (t - k) + m)
  <2>1. Len(S) \in Nat /\ k \in Nat /\ k <= t /\ Len(S2) = Len(S) - k /\ t + m <= Len(S)
    BY <1>1, <1>2
  <2>. QED  BY ONLY <2>1, t \in Nat, m \in Nat
<1>4. ASSUME NEW i \in 1..(t - k) PROVE S2[i].line \in Event
  <2>1. i \in 1..(Len(S) - k) /\ k + i \in 1..t
    BY <1>1, <1>2
  <2>. QED  BY <1>1, <1>2, <2>1
<1>5. ASSUME NEW i \in 1..m PROVE S2[(t - k) + i] = PieceAt(A, 3 * j + i)
  <2>1. (t - k) + i \in 1..(Len(S) - k) /\ k + ((t - k) + i) = t + i
    BY <1>1, <1>2
  <2>. QED  BY <1>1, <1>2, <2>1
<1>6. ASSUME NEW i \in ((t - k) + m + 1)..Len(S2) PROVE S2[i].line \in Event
  <2>1. i \in 1..(Len(S) - k) /\ k + i \in (t + m + 1)..Len(S)
    BY <1>1, <1>2
  <2>. QED  BY <1>1, <1>2, <2>1
<1>7. ASSUME t - k > 0 PROVE S2[t - k].part = 3 \/ (~srv /\ Len(S2) = t - k)
  <2>1. t - k \in 1..(Len(S) - k) /\ k + (t - k) = t /\ t > 0
    BY <1>1, <1>2, <1>7
  <2>2. S2[t - k] = S[t]
    BY <1>1, <2>1
  <2>3. CASE S[t].part = 3
    BY <2>2, <2>3
  <2>4. CASE ~srv /\ Len(S) = t
    BY <1>1, <2>4
  <2>. QED  BY <1>2, <2>1, <2>3, <2>4
<1>8. ASSUME Len(S2) > (t - k) + m PROVE S2[Len(S2)].part = 3 \/ ~srv
  <2>1. Len(S2) \in 1..(Len(S) - k) /\ k + Len(S2) = Len(S) /\ Len(S) > t + m
    BY <1>1, <1>2, <1>8
  <2>. QED  BY <1>1, <1>2, <2>1
<1>9. ASSUME events = <<>> /\ srv PROVE t - k = 0 /\ Len(S2) = m
  BY <1>1, <1>2, <1>9
<1>. QED  BY <1>2, <1>3, <1>4, <1>5, <1>6, <1>7, <1>8, <1>9 DEF Ahead

LEMMA AheadTake ==
    ASSUME NEW S \in Seq(PieceOf(Line)), NEW srv, NEW events, NEW A, Len(A) \in Nat, NEW j \in Nat, NEW m \in Nat, m >= 3,
           Ahead(S, srv, events, A, j, 0, m), NEW S2, Rest(S, 3, S2)
    PROVE  /\ Ahead(S2, srv, events, A, j + 1, 0, m - 3)
           /\ j + 1 = Len(A) => EventsAhead(S2, srv, events)
<1>1. /\ Len(S) \in Nat /\ Len(S2) = Len(S) - 3 /\ S2 \in Seq(PieceOf(Line))
      /\ \A i \in 1..(Len(S) - 3) : S2[i] = S[3 + i]
  BY DEF Rest
<1>2. /\ m <= Len(S) /\ 3 * j + m <= 3 * Len(A)
      /\ \A i \in 1..m : S[0 + i] = PieceAt(A, 3 * j + i)
      /\ \A i \in (0 + m + 1)..Len(S) : S[i].line \in Event
      /\ 3 * j + m # 3 * Len(A) => ~srv \/ events # <<>>
      /\ Len(S) > m => S[Len(S)].part = 3 \/ ~srv
      /\ events = <<>> /\ srv => Len(S) = m
  BY DEF Ahead
<1>3. /\ m - 3 \in Nat /\ m - 3 <= Len(S2) /\ 3 * (j + 1) + (m - 3) = 3 * j + m /\ (Len(S) = m <=> Len(S2) = m - 3)
      /\ j + 1 = Len(A) => m = 3
  <2>1. Len(S) \in Nat /\ Len(S2) = Len(S) - 3 /\ m <= Len(S) /\ 3 * j + m <= 3 * Len(A)
    BY <1>1, <1>2
  <2>. QED  BY ONLY <2>1, j \in Nat, m \in Nat, m >= 3, Len(A) \in Nat
<1>4. ASSUME NEW i \in 1..(m - 3) PROVE S2[0 + i] = PieceAt(A, 3 * (j + 1) + i)
  <2>1. i \in 1..(Len(S) - 3) /\ 3 + i \in 1..m /\ 0 + (3 + i) = 3 + i /\ 0 + i = i /\ 3 * j + (3 + i) = 3 * (j + 1) + i
    BY <1>1, <1>2
  <2>. QED  BY <1>1, <1>2, <2>1
<1>5. ASSUME NEW i \in (0 + (m - 3) + 1)..Len(S2) PROVE S2[i].line \in Event
  <2>1. i \in 1..(Len(S) - 3) /\ 3 + i \in (0 + m + 1)..Len(S)
    BY <1>1, <1>2
  <2>. QED  BY <1>1, <1>2, <2>1
<1>6. ASSUME Len(S2) > m - 3 PROVE S2[Len(S2)].part = 3 \/ ~srv
  <2>1. Len(S2) \in 1..(Len(S) - 3) /\ 3 + Len(S2) = Len(S) /\ Len(S) > m
    BY <1>1, <1>2, <1>6
  <2>. QED  BY <1>1, <1>2, <2>1
<1>7. Ahead(S2, srv, events, A, j + 1, 0, m - 3)
  <2>. DEFINE n == m - 3
              j2 == j + 1
  <2>1. 0 + n = n /\ n <= Len(S2) /\ 3 * j2 + n <= 3 * Len(A) /\ ~(0 > 0)
    BY <1>2, <1>3
  <2>2. \A i \in 1..0 : S2[i].line \in Event
    OBVIOUS
  <2>3. 3 * j2 + n # 3 * Len(A) => ~srv \/ events # <<>>
    BY <1>2, <1>3
  <2>4. events = <<>> /\ srv => Len(S2) = n
    BY <1>2, <1>3
  <2>. HIDE DEF n
  <2>5. /\ \A i \in 1..n : S2[0 + i] = PieceAt(A, 3 * j2 + i)
        /\ \A i \in (0 + n + 1)..Len(S2) : S2[i].line \in Event
        /\ Len(S2) > 0 + n => S2[Len(S2)].part = 3 \/ ~srv
    BY <1>4, <1>5, <1>6, <2>1 DEF n
  <2>. HIDE DEF j2
  <2>6. Ahead(S2, srv, events, A, j2, 0, n)
    BY <2>1, <2>2, <2>3, <2>4, <2>5 DEF Ahead
  <2>. QED  BY <2>6 DEF n, j2
<1>8. ASSUME j + 1 = Len(A) PROVE EventsAhead(S2, srv, events)
  <2>1. m - 3 = 0 /\ 0 + (m - 3) + 1 = 1
    BY <1>3, <1>8
  <2>2. S2 # <<>> => Len(S2) > m - 3
    BY <1>1, <2>1
  <2>3. events = <<>> /\ srv => S2 = <<>>
    <3>1. Len(S) = m => Len(S2) = 0
      BY <1>3, <2>1
    <3>2. Len(S2) = 0 => S2 = <<>>
      BY <1>1
    <3>. QED  BY <1>2, <3>1, <3>2
  <2>. QED  BY <1>5, <1>6, <2>1, <2>2, <2>3 DEF EventsAhead
<1>. QED  BY <1>7, <1>8

LEMMA SyncIs ==
    ASSUME NEW ctx, NEW q, NEW S, NEW srv, NEW events, NEW A \in Seq(Line), NEW j \in Nat, NEW t \in Nat, NEW m \in Nat,
           IsReply(q, A), At(ctx, q, A, j), Ahead(S, srv, events, A, j, t, m)
    PROVE  InSync(ctx, q, S, srv, events, Result(A))
  BY DEF InSync

(* Events before the answer are skipped. *)
LEMMA SkipReads ==
    ASSUME NEW S \in Seq(PieceOf(Line)), NEW srv, NEW events, NEW ctx, NEW q, NEW A \in Seq(Line), IsReply(q, A),
           NEW j \in Nat, NEW t \in Nat, NEW m \in Nat, t > 0, At(ctx, q, A, j), Ahead(S, srv, events, A, j, t, m),
           NEW mid, Alike(ctx, mid), NEW string, NEW d, NEW S2,
           Takes(S, S2, string) \/ Peeks(S, S2, string, d, srv)
    PROVE  \/ ReplyLine(mid, string).result = None /\ InSync(ReplyLine(mid, string), q, S2, srv, events, Result(A))
           \/ ReplyLine(mid, string).result = "EPROTO" /\ (~srv \/ events # <<>>)
<1>. DEFINE new == ReplyLine(mid, string)
<1>1. /\ t + m <= Len(S) /\ \A i \in 1..t : S[i].line \in Event
      /\ j = 0 /\ (S[t].part = 3 \/ (~srv /\ Len(S) = t))
      /\ events = <<>> /\ srv => t = 0
  BY DEF Ahead
<1>2. Len(A) \in Nat /\ Len(A) >= 4 /\ Len(S) \in Nat /\ t <= Len(S)
  BY <1>1 DEF IsReply
<1>3. /\ DOMAIN ctx = Fields /\ ctx.packet = q /\ ctx.result = None
      /\ ctx.state = "P_BEGIN" /\ ctx.status = "ok"
  BY <1>1, <1>2 DEF At, StateAt
<1>4. DOMAIN mid = Fields /\ mid.packet = q /\ mid.result = None /\ mid.state = "P_BEGIN" /\ mid.status = "ok"
  BY <1>3 DEF Alike
<1>5. ASSUME NEW n \in 1..Len(S), \A i \in 1..(n - 1) : S[i].part # 3 PROVE n <= t
  BY <1>1, <1>2, <1>5
<1>6. PICK l \in 0..Len(S), k \in 0..t : string = Cutting(S, l) /\ Rest(S, k, S2)
  <2>1. CASE Takes(S, S2, string)
    <3>1. PICK n \in 1..Len(S) : /\ S[n].part = 3 /\ \A i \in 1..(n - 1) : S[i].part # 3
                                 /\ S2 = From(S, n + 1) /\ string = Cutting(S, n - 1)
      BY <2>1 DEF Takes
    <3>2. n <= t
      BY <1>5, <3>1
    <3>3. n \in 0..t /\ n - 1 \in 0..Len(S) /\ n \in 0..Len(S)
      BY <1>2, <3>1, <3>2
    <3>. QED  BY <3>1, <3>3, RestOf
  <2>2. CASE Peeks(S, S2, string, d, srv)
    <3>1. PICK l \in 0..Len(S) : string = Cutting(S, l) /\ S2 = S
      BY <2>2 DEF Peeks
    <3>2. Rest(S, 0, S)
      BY <1>2 DEF Rest
    <3>3. 0 \in 0..t
      OBVIOUS
    <3>. QED  BY <3>1, <3>2, <3>3
  <2>. QED  BY <2>1, <2>2
<1>7. CASE l = 0
  <2>1. string = <<>>
    BY <1>6, <1>7, CuttingIs
  <2>2. Goes(mid, new, mid.state, mid.status, mid.left, "EPROTO")
    BY <1>4, <2>1, EmptyLine
  <2>3. new.result = "EPROTO"
    BY <2>2 DEF Goes
  <2>. QED  BY <1>1, <2>3
<1>8. CASE l # 0
  <2>1. string \notin {<<>>, <<"BEGIN">>}
    <3>1. string \in {S[1].line, Fragment}
      BY <1>6, <1>8, CuttingIs
    <3>2. S[1].line \in Event
      BY <1>1
    <3>. QED  BY <3>1, <3>2, EventWord
  <2>2. Goes(mid, new, mid.state, mid.status, mid.left, mid.result)
    BY <1>4, <2>1, LoopSkips
  <2>. HIDE DEF new
  <2>3. At(new, q, A, j) /\ new.result = None
    <3>1. j \in 0..(Len(A) - 1) /\ StateAt(Len(A), j) = "P_BEGIN" /\ j < 3 /\ ~(j >= 5)
      BY <1>1, <1>2 DEF StateAt
    <3>. QED  BY <1>4, <2>2, <3>1 DEF Goes, At
  <2>4. Ahead(S2, srv, events, A, j, t - k, m) /\ t - k \in Nat
    <3>1. k \in 0..t /\ Rest(S, k, S2)
      BY <1>6
    <3>2. Ahead(S2, srv, events, A, j, t - k, m)
      BY <3>1, AheadDrop, Zenon
    <3>. QED  BY <3>1, <3>2
  <2>. QED  BY <2>3, <2>4, SyncIs DEF new
<1>. QED  BY <1>7, <1>8

(* A whole line of the answer. *)
LEMMA LineReads ==
    ASSUME NEW S \in Seq(PieceOf(Line)), NEW srv, NEW events, NEW ctx, NEW q, NEW A \in Seq(Line), IsReply(q, A),
           NEW j \in Nat, NEW m \in Nat, m >= 3, At(ctx, q, A, j), Ahead(S, srv, events, A, j, 0, m),
           NEW mid, Alike(ctx, mid), NEW string, mid.buffer \in Seq(PieceOf(Line)),
           NEW d \in Seq(PieceOf(Line)), NEW S2, S2 = mid.buffer \o d,
           Takes(S, S2, string) \/ Peeks(S, S2, string, d, srv)
    PROVE  \/ ReplyLine(mid, string).result = None /\ InSync(ReplyLine(mid, string), q, S2, srv, events, Result(A))
           \/ Ends(ReplyLine(mid, string), d, srv, events, Result(A))
<1>. DEFINE new == ReplyLine(mid, string)
<1>1. m <= Len(S) /\ \A i \in 1..m : S[0 + i] = PieceAt(A, 3 * j + i)
  BY DEF Ahead
<1>2. Len(A) \in Nat /\ Len(S) \in Nat /\ 3 <= Len(S) /\ j \in 0..(Len(A) - 1)
  BY <1>1 DEF At
<1>3. \A i \in 1..3 : S[i] = Piece(A[j + 1], i)
  <2>1. ASSUME NEW i \in 1..3 PROVE S[i] = Piece(A[j + 1], i)
    <3>1. i \in 1..m /\ 0 + i = i
      OBVIOUS
    <3>2. S[i] = PieceAt(A, 3 * j + i)
      BY <1>1, <3>1
    <3>. QED  BY <3>2, LineAt
  <2>. QED  BY <2>1
<1>4. S[1].line = A[j + 1] /\ S[1].part = 1 /\ S[2].part = 2 /\ S[3].part = 3
  BY <1>3 DEF Piece
<1>5. /\ string = A[j + 1] /\ Rest(S, 3, S2)
  <2>1. CASE Takes(S, S2, string)
    <3>1. PICK n \in 1..Len(S) : /\ S[n].part = 3 /\ \A i \in 1..(n - 1) : S[i].part # 3
                                 /\ S2 = From(S, n + 1) /\ string = Cutting(S, n - 1)
      BY <2>1 DEF Takes
    <3>2. n = 3
      <4>1. n <= 3
        BY <1>2, <1>4, <3>1
      <4>. QED  BY <1>4, <3>1, <4>1
    <3>3. string = A[j + 1]
      BY <1>4, <3>1, <3>2 DEF Cutting
    <3>4. n \in 0..Len(S)
      BY <3>1
    <3>. QED  BY <3>1, <3>2, <3>3, <3>4, RestOf
  <2>2. CASE Peeks(S, S2, string, d, srv)
    <3>1. PICK l \in 0..Len(S) : /\ \A i \in 1..l : S[i].part # 3
                                 /\ (l = Len(S) /\ d = <<>>) \/ l >= 3
      BY <2>2 DEF Peeks
    <3>. QED  BY <1>2, <1>4, <3>1
  <2>. QED  BY <2>1, <2>2
<1>6. At(mid, q, A, j)
  BY DEF At, Alike
<1>7. CASE j + 1 < Len(A)
  <2>1. At(new, q, A, j + 1)
    BY <1>5, <1>6, <1>7, LoopStep
  <2>2. Ahead(S2, srv, events, A, j + 1, 0, m - 3)
    BY <1>2, <1>5, AheadTake
  <2>3. new.result = None
    BY <2>1 DEF At
  <2>. HIDE DEF new
  <2>4. j + 1 \in Nat /\ 0 \in Nat /\ m - 3 \in Nat
    OBVIOUS
  <2>5. InSync(new, q, S2, srv, events, Result(A))
    BY <2>1, <2>2, <2>4, SyncIs, Zenon
  <2>. QED  BY <2>3, <2>5 DEF new
<1>8. CASE j + 1 = Len(A)
  <2>1. new.result = Result(A)
    BY <1>5, <1>6, <1>8, LoopStep
  <2>2. EventsAhead(S2, srv, events)
    BY <1>2, <1>5, <1>8, AheadTake
  <2>3. S2 \in Seq(PieceOf(Line)) /\ Len(mid.buffer) \in 0..Len(S2) /\ Rest(S2, Len(mid.buffer), d)
    BY RestBoth
  <2>4. EventsAhead(d, srv, events)
    BY <2>2, <2>3, EventsRest
  <2>. QED  BY <2>1, <2>4 DEF Ends
<1>. QED  BY <1>2, <1>7, <1>8

(* The answer breaks off, and less than a line is left of it. *)
LEMMA RestReads ==
    ASSUME NEW S \in Seq(PieceOf(Line)), NEW srv, NEW events, NEW ctx, NEW q, q # <<"END">>,
           NEW A \in Seq(Line), IsReply(q, A),
           NEW j \in Nat, NEW m \in Nat, m < 3, At(ctx, q, A, j), Ahead(S, srv, events, A, j, 0, m)
    PROVE  Cut(ctx, q, S, srv, events, Result(A))
<1>. DEFINE r == Result(A)
<1>1. /\ \A i \in 1..m : S[0 + i] = PieceAt(A, 3 * j + i)
      /\ \A i \in (0 + m + 1)..Len(S) : S[i].line \in Event
      /\ Len(S) > 0 + m => S[Len(S)].part = 3 \/ ~srv
      /\ 3 * j + m # 3 * Len(A) => ~srv \/ events # <<>>
      /\ m <= Len(S) /\ DOMAIN ctx = Fields /\ ctx.packet = q /\ ctx.result = None /\ ctx.state = StateAt(Len(A), j)
      /\ j \in 0..(Len(A) - 1) /\ ctx.status = IF j < 3 THEN "ok" ELSE r
  BY DEF Ahead, At
<1>2. Len(A) \in Nat /\ Len(A) >= 4 /\ A[1] = <<"BEGIN">> /\ A[2] = q /\ A[3] \in {<<"SUCCESS">>, <<"ERROR">>}
  BY DEF IsReply
<1>3. ~srv \/ events # <<>>
  BY <1>1, <1>2
<1>4. ASSUME NEW i \in 1..m PROVE S[i].line = A[j + 1] /\ S[i].part = i
  <2>1. i \in 1..3 /\ 0 + i = i
    OBVIOUS
  <2>2. S[i] = Piece(A[j + 1], i)
    BY <1>1, <2>1, LineAt
  <2>. QED  BY <2>2 DEF Piece
<1>5. ASSUME NEW i \in 1..m PROVE S[i].part # 3
  BY <1>4, <1>5
<1>6. (ctx.state \in After /\ ctx.status = r) \/ \A i \in 1..m : S[i].line # <<"END">>
  <2>1. CASE j >= 3
    <3>1. j # 0 /\ j # 1 /\ j # 2 /\ j \in Nat /\ ctx.status = r
      BY <1>1, <2>1
    <3>2. StateAt(Len(A), j) \in After
      BY <1>2, <2>1, <3>1 DEF StateAt, After
    <3>. QED  BY <1>1, <3>1, <3>2
  <2>2. CASE j < 3
    <3>1. <<"BEGIN">> # <<"END">> /\ <<"SUCCESS">> # <<"END">> /\ <<"ERROR">> # <<"END">>
      OBVIOUS
    <3>2. j = 0 \/ j = 1 \/ j = 2
      BY <2>2
    <3>3. A[j + 1] # <<"END">>
      BY <1>2, <3>1, <3>2
    <3>. QED  BY <1>4, <3>3
  <2>. QED  BY <2>1, <2>2
<1>7. m \in 0..Len(S) /\ 0 + m = m
  BY <1>1
<1>. HIDE DEF r
<1>8. EventsBehind(S, m, srv)
  BY <1>1, <1>7 DEF EventsBehind
<1>9. Cut(ctx, q, S, srv, events, r)
  BY <1>1, <1>3, <1>5, <1>6, <1>7, <1>8 DEF Cut, InLoop
<1>. QED  BY <1>9 DEF r

LEMMA OnTheWayReads ==
    ASSUME NEW S \in Seq(PieceOf(Line)), NEW srv, NEW events, NEW ctx, NEW q, q # <<"END">>, NEW r \in {"ok", "EIO"},
           OnTheWay(ctx, q, S, srv, events, r),
           NEW mid, Alike(ctx, mid), NEW string, mid.buffer \in Seq(PieceOf(Line)),
           NEW d \in Seq(PieceOf(Line)), NEW S2, S2 = mid.buffer \o d,
           Takes(S, S2, string) \/ Peeks(S, S2, string, d, srv)
    PROVE  \/ ReplyLine(mid, string).result = None /\ OnTheWay(ReplyLine(mid, string), q, S2, srv, events, r)
           \/ Ends(ReplyLine(mid, string), d, srv, events, r)
<1>1. CASE InSync(ctx, q, S, srv, events, r)
  <2>1. PICK A \in Seq(Line), j \in Nat, t \in Nat, m \in Nat :
           /\ IsReply(q, A) /\ Result(A) = r /\ At(ctx, q, A, j)
           /\ Ahead(S, srv, events, A, j, t, m)
    BY <1>1 DEF InSync
  <2>2. CASE t > 0
    <3>1. \/ ReplyLine(mid, string).result = None /\ InSync(ReplyLine(mid, string), q, S2, srv, events, r)
          \/ ReplyLine(mid, string).result = "EPROTO" /\ (~srv \/ events # <<>>)
      <4>1. \/ ReplyLine(mid, string).result = None /\ InSync(ReplyLine(mid, string), q, S2, srv, events, Result(A))
            \/ ReplyLine(mid, string).result = "EPROTO" /\ (~srv \/ events # <<>>)
        <5>1. IsReply(q, A) /\ At(ctx, q, A, j) /\ Ahead(S, srv, events, A, j, t, m)
          BY <2>1
        <5>. QED  BY ONLY <2>2, <5>1, S \in Seq(PieceOf(Line)), A \in Seq(Line), j \in Nat, t \in Nat, m \in Nat,
                          Alike(ctx, mid), Takes(S, S2, string) \/ Peeks(S, S2, string, d, srv), SkipReads
      <4>. QED  BY <2>1, <4>1
    <3>. QED  BY <3>1 DEF OnTheWay, Ends
  <2>3. CASE t = 0 /\ m >= 3
    <3>1. Ahead(S, srv, events, A, j, 0, m)
      BY <2>1, <2>3
    <3>2. \/ ReplyLine(mid, string).result = None /\ InSync(ReplyLine(mid, string), q, S2, srv, events, r)
          \/ Ends(ReplyLine(mid, string), d, srv, events, r)
      BY <2>1, <2>3, <3>1, LineReads
    <3>. QED  BY <3>2 DEF OnTheWay
  <2>4. CASE t = 0 /\ m < 3
    <3>1. Ahead(S, srv, events, A, j, 0, m)
      BY <2>1, <2>4
    <3>2. Cut(ctx, q, S, srv, events, r)
      BY <2>1, <2>4, <3>1, RestReads
    <3>3. \/ ReplyLine(mid, string).result = None /\ Cut(ReplyLine(mid, string), q, S2, srv, events, r)
          \/ Ends(ReplyLine(mid, string), d, srv, events, r)
      BY <3>2, CutReads
    <3>. QED  BY <3>3 DEF OnTheWay
  <2>. QED  BY <2>2, <2>3, <2>4
<1>2. CASE Cut(ctx, q, S, srv, events, r)
  <2>1. \/ ReplyLine(mid, string).result = None /\ Cut(ReplyLine(mid, string), q, S2, srv, events, r)
        \/ Ends(ReplyLine(mid, string), d, srv, events, r)
    BY <1>2, CutReads
  <2>. QED  BY <2>1 DEF OnTheWay
<1>. QED  BY <1>1, <1>2 DEF OnTheWay

-----------------------------------------------------------------------------
(* The states of a call when lircd writes, and when it closes *)

(* S2 is S with a beginning of lines, all of them unless the connection    *)
(* breaks, and nothing on a broken one.                                    *)
Grows(S, srv, S2, srv2, lines) ==
    \E x \in 0..(3 * Len(lines)) :
        /\ S2 \in Seq(PieceOf(Line)) /\ Len(S2) = Len(S) + x
        /\ \A i \in 1..Len(S) : S2[i] = S[i]
        /\ \A i \in 1..x : S2[Len(S) + i] = PieceAt(lines, i)
        /\ ~srv => x = 0 /\ ~srv2
        /\ x # 3 * Len(lines) => ~srv2

(* What follows are events, and the last one is whole. *)
Grown(S, srv, S2, srv2, lines) ==
    /\ S2 \in Seq(PieceOf(Line)) /\ Len(S2) >= Len(S) /\ \A i \in 1..Len(S) : S2[i] = S[i]
    /\ \A i \in (Len(S) + 1)..Len(S2) : S2[i].line \in Event
    /\ ~srv => Len(S2) = Len(S) /\ ~srv2
    /\ lines = <<>> => Len(S2) = Len(S)
    /\ srv2 /\ Len(S2) # Len(S) => S2[Len(S2)].part = 3

LEMMA GrowsEvents ==
    ASSUME NEW S \in Seq(PieceOf(Line)), NEW srv, NEW lines \in Seq(Event), NEW S2, NEW srv2,
           Grows(S, srv, S2, srv2, lines)
    PROVE  Grown(S, srv, S2, srv2, lines)
<1>1. PICK x \in 0..(3 * Len(lines)) :
        /\ S2 \in Seq(PieceOf(Line)) /\ Len(S2) = Len(S) + x
        /\ \A i \in 1..Len(S) : S2[i] = S[i]
        /\ \A i \in 1..x : S2[Len(S) + i] = PieceAt(lines, i)
        /\ ~srv => x = 0 /\ ~srv2
        /\ x # 3 * Len(lines) => ~srv2
  BY DEF Grows
<1>2. Len(S) \in Nat /\ Len(lines) \in Nat /\ x \in Nat
  BY <1>1
<1>3. \A i \in 1..(3 * Len(lines)) : PieceAt(lines, i).line \in Event
  BY PieceType DEF PieceOf
<1>4. ASSUME NEW i \in (Len(S) + 1)..Len(S2) PROVE S2[i].line \in Event
  <2>1. PICK k \in 1..x : i = Len(S) + k
    <3>1. i \in 1..(Len(S) + x) /\ i > Len(S)
      BY <1>1, <1>2
    <3>. QED  BY ONLY <1>2, <3>1, Behind, Zenon
  <2>2. k \in 1..(3 * Len(lines))
    BY <1>2, <1>1
  <2>. QED  BY <1>1, <1>3, <2>1, <2>2
<1>5. ASSUME srv2, Len(S2) # Len(S) PROVE S2[Len(S2)].part = 3
  <2>1. x = 3 * Len(lines) /\ x \in 1..x
    BY <1>1, <1>2, <1>5
  <2>2. S2[Len(S2)] = PieceAt(lines, x) /\ Len(lines) >= 1
    BY <1>1, <1>2, <2>1
  <2>3. (x - 1) % 3 = 2
    BY <1>2, <2>1, <2>2
  <2>. QED  BY <2>2, <2>3 DEF PieceAt, Piece
<1>6. lines = <<>> => x = 0
  BY <1>1, <1>2
<1>7. /\ S2 \in Seq(PieceOf(Line)) /\ \A i \in 1..Len(S) : S2[i] = S[i]
      /\ ~srv => x = 0 /\ ~srv2
  BY <1>1
<1>8. Len(S2) >= Len(S) /\ (x = 0 => Len(S2) = Len(S))
  BY ONLY <1>1, <1>2
<1>. QED  BY ONLY <1>4, <1>5, <1>6, <1>7, <1>8, Zenon DEF Grown

LEMMA EventsGrow ==
    ASSUME NEW S \in Seq(PieceOf(Line)), NEW srv, NEW events \in Seq(Line), EventsAhead(S, srv, events),
           NEW lines \in Seq(Event), NEW S2, NEW srv2, Grows(S, srv, S2, srv2, lines)
    PROVE  EventsAhead(S2, srv2, events \o lines)
<1>1. /\ S2 \in Seq(PieceOf(Line)) /\ Len(S2) >= Len(S) /\ \A i \in 1..Len(S) : S2[i] = S[i]
      /\ \A i \in (Len(S) + 1)..Len(S2) : S2[i].line \in Event
      /\ ~srv => Len(S2) = Len(S) /\ ~srv2
      /\ lines = <<>> => Len(S2) = Len(S)
      /\ srv2 /\ Len(S2) # Len(S) => S2[Len(S2)].part = 3
  <2>1. Grown(S, srv, S2, srv2, lines)
    BY GrowsEvents
  <2>. QED  BY <2>1, Zenon DEF Grown
<1>2. Len(S) \in Nat /\ Len(S2) \in Nat
  BY <1>1
<1>3. /\ \A i \in 1..Len(S) : S[i].line \in Event
      /\ S # <<>> => S[Len(S)].part = 3 \/ ~srv
      /\ events = <<>> /\ srv => S = <<>>
  BY DEF EventsAhead
<1>4. ASSUME NEW i \in 1..Len(S2) PROVE S2[i].line \in Event
  BY <1>1, <1>2, <1>3
<1>5. ASSUME S2 # <<>>, srv2 PROVE S2[Len(S2)].part = 3
  <2>1. CASE Len(S2) = Len(S)
    <3>1. S # <<>> /\ Len(S) \in 1..Len(S) /\ srv
      BY <1>1, <1>2, <1>5, <2>1
    <3>. QED  BY <1>1, <1>3, <2>1, <3>1
  <2>2. CASE Len(S2) # Len(S)
    BY <1>1, <1>5, <2>2
  <2>. QED  BY <2>1, <2>2
<1>6. ASSUME events \o lines = <<>>, srv2 PROVE S2 = <<>>
  <2>1. events = <<>> /\ lines = <<>>
    BY <1>6
  <2>2. S = <<>> /\ Len(S2) = Len(S)
    BY <1>1, <1>3, <1>6, <2>1
  <2>. QED  BY <1>1, <2>2
<1>. QED  BY <1>4, <1>5, <1>6 DEF EventsAhead

LEMMA SyncGrows ==
    ASSUME NEW S \in Seq(PieceOf(Line)), NEW srv, NEW events \in Seq(Line), NEW ctx, NEW q, NEW r,
           InSync(ctx, q, S, srv, events, r),
           NEW lines \in Seq(Event), NEW S2, NEW srv2, Grows(S, srv, S2, srv2, lines)
    PROVE  InSync(ctx, q, S2, srv2, events \o lines, r)
<1>1. PICK A \in Seq(Line), j \in Nat, t \in Nat, m \in Nat :
         /\ IsReply(q, A) /\ Result(A) = r /\ At(ctx, q, A, j)
         /\ Ahead(S, srv, events, A, j, t, m)
  BY DEF InSync
<1>2. /\ S2 \in Seq(PieceOf(Line)) /\ Len(S2) >= Len(S) /\ \A i \in 1..Len(S) : S2[i] = S[i]
      /\ \A i \in (Len(S) + 1)..Len(S2) : S2[i].line \in Event
      /\ ~srv => Len(S2) = Len(S) /\ ~srv2
      /\ lines = <<>> => Len(S2) = Len(S)
      /\ srv2 /\ Len(S2) # Len(S) => S2[Len(S2)].part = 3
  <2>1. Grown(S, srv, S2, srv2, lines)
    BY GrowsEvents
  <2>. QED  BY <2>1, Zenon DEF Grown
<1>3. /\ t + m <= Len(S) /\ 3 * j + m <= 3 * Len(A)
      /\ \A i \in 1..t : S[i].line \in Event
      /\ \A i \in 1..m : S[t + i] = PieceAt(A, 3 * j + i)
      /\ \A i \in (t + m + 1)..Len(S) : S[i].line \in Event
      /\ t > 0 => j = 0 /\ (S[t].part = 3 \/ (~srv /\ Len(S) = t))
      /\ 3 * j + m # 3 * Len(A) => ~srv \/ events # <<>>
      /\ Len(S) > t + m => S[Len(S)].part = 3 \/ ~srv
      /\ events = <<>> /\ srv => t = 0 /\ Len(S) = m
  BY <1>1 DEF Ahead
<1>4. Len(S) \in Nat /\ Len(S2) \in Nat /\ t + m \in Nat /\ t + m <= Len(S2)
  BY <1>2, <1>3
<1>5. ASSUME NEW i \in 1..t PROVE S2[i].line \in Event
  <2>1. i \in 1..Len(S)
    <3>1. t + m <= Len(S)
      BY <1>3
    <3>. QED  BY <1>4, <3>1
  <2>. QED  BY <1>2, <1>3, <2>1
<1>6. ASSUME NEW i \in 1..m PROVE S2[t + i] = PieceAt(A, 3 * j + i)
  <2>1. t + i \in 1..Len(S)
    <3>1. t + m <= Len(S)
      BY <1>3
    <3>. QED  BY <1>4, <3>1
  <2>. QED  BY <1>2, <1>3, <2>1
<1>7. ASSUME NEW i \in (t + m + 1)..Len(S2) PROVE S2[i].line \in Event
  <2>1. CASE i <= Len(S)
    <3>1. i \in (t + m + 1)..Len(S) /\ i \in 1..Len(S)
      BY <1>4, <2>1
    <3>. QED  BY <1>2, <1>3, <3>1
  <2>2. CASE i > Len(S)
    <3>1. i \in (Len(S) + 1)..Len(S2)
      BY <1>4, <2>2
    <3>. QED  BY <1>2, <3>1
  <2>. QED  BY <1>4, <2>1, <2>2
<1>8. ASSUME t > 0 PROVE j = 0 /\ (S2[t].part = 3 \/ (~srv2 /\ Len(S2) = t))
  <2>1. t \in 1..Len(S)
    BY <1>3, <1>4, <1>8
  <2>. QED  BY <1>2, <1>3, <1>8, <2>1
<1>9. ASSUME 3 * j + m # 3 * Len(A) PROVE ~srv2 \/ events \o lines # <<>>
  BY <1>2, <1>3, <1>9
<1>10. ASSUME Len(S2) > t + m, srv2 PROVE S2[Len(S2)].part = 3
  <2>1. CASE Len(S2) = Len(S)
    <3>1. Len(S) \in 1..Len(S) /\ srv /\ Len(S) > t + m
      BY <1>2, <1>4, <1>10, <2>1
    <3>. QED  BY <1>2, <1>3, <2>1, <3>1
  <2>2. CASE Len(S2) # Len(S)
    BY <1>2, <1>10, <2>2
  <2>. QED  BY <2>1, <2>2
<1>11. ASSUME events \o lines = <<>>, srv2 PROVE t = 0 /\ Len(S2) = m
  <2>1. events = <<>> /\ lines = <<>>
    BY <1>11
  <2>. QED  BY <1>2, <1>3, <1>11, <2>1
<1>12. Ahead(S2, srv2, events \o lines, A, j, t, m)
  BY <1>3, <1>4, <1>5, <1>6, <1>7, <1>8, <1>9, <1>10, <1>11 DEF Ahead
<1>. QED  BY <1>1, <1>12, SyncIs

LEMMA CutGrows ==
    ASSUME NEW S \in Seq(PieceOf(Line)), NEW srv, NEW events \in Seq(Line), NEW ctx, NEW q, NEW r,
           Cut(ctx, q, S, srv, events, r),
           NEW lines \in Seq(Event), NEW S2, NEW srv2, Grows(S, srv, S2, srv2, lines)
    PROVE  Cut(ctx, q, S2, srv2, events \o lines, r)
<1>1. PICK n \in 0..Len(S) : /\ \A i \in 1..n : S[i].part # 3
                             /\ \A i \in (n + 1)..Len(S) : S[i].line \in Event
                             /\ Len(S) > n => S[Len(S)].part = 3 \/ ~srv
                             /\ \/ ctx.state \in After /\ ctx.status = r
                                \/ \A i \in 1..n : S[i].line # <<"END">>
  BY DEF Cut, EventsBehind
<1>2. /\ S2 \in Seq(PieceOf(Line)) /\ Len(S2) >= Len(S) /\ \A i \in 1..Len(S) : S2[i] = S[i]
      /\ \A i \in (Len(S) + 1)..Len(S2) : S2[i].line \in Event
      /\ ~srv => Len(S2) = Len(S) /\ ~srv2
      /\ srv2 /\ Len(S2) # Len(S) => S2[Len(S2)].part = 3
  <2>1. Grown(S, srv, S2, srv2, lines)
    BY GrowsEvents
  <2>. QED  BY <2>1, Zenon DEF Grown
<1>3. ~srv2 \/ events \o lines # <<>>
  BY <1>2 DEF Cut
<1>4. Len(S) \in Nat /\ Len(S2) \in Nat /\ n \in 0..Len(S2) /\ 1..n \subseteq 1..Len(S)
  BY <1>2
<1>5. ASSUME NEW i \in 1..n PROVE S2[i] = S[i]
  BY <1>2, <1>4
<1>6. ASSUME NEW i \in (n + 1)..Len(S2) PROVE S2[i].line \in Event
  <2>1. CASE i <= Len(S)
    <3>1. i \in (n + 1)..Len(S) /\ i \in 1..Len(S)
      BY <1>4, <2>1
    <3>. QED  BY <1>1, <1>2, <3>1
  <2>2. CASE i > Len(S)
    <3>1. i \in (Len(S) + 1)..Len(S2)
      BY <1>4, <2>2
    <3>. QED  BY <1>2, <3>1
  <2>. QED  BY <1>4, <2>1, <2>2
<1>7. ASSUME Len(S2) > n PROVE S2[Len(S2)].part = 3 \/ ~srv2
  <2>1. CASE Len(S2) = Len(S)
    <3>1. Len(S) \in 1..Len(S)
      BY <1>4, <1>7, <2>1
    <3>. QED  BY <1>1, <1>2, <1>7, <2>1, <3>1
  <2>2. CASE Len(S2) # Len(S)
    BY <1>2, <2>2
  <2>. QED  BY <2>1, <2>2
<1>. QED  BY <1>1, <1>3, <1>4, <1>5, <1>6, <1>7 DEF Cut, EventsBehind

LEMMA WayGrows ==
    ASSUME NEW S \in Seq(PieceOf(Line)), NEW srv, NEW events \in Seq(Line), NEW ctx, NEW q, NEW r,
           OnTheWay(ctx, q, S, srv, events, r),
           NEW lines \in Seq(Event), NEW S2, NEW srv2, Grows(S, srv, S2, srv2, lines)
    PROVE  OnTheWay(ctx, q, S2, srv2, events \o lines, r)
<1>1. CASE InSync(ctx, q, S, srv, events, r)
  BY <1>1, SyncGrows DEF OnTheWay
<1>2. CASE Cut(ctx, q, S, srv, events, r)
  BY <1>2, CutGrows DEF OnTheWay
<1>. QED  BY <1>1, <1>2 DEF OnTheWay

(* The answer, x pieces of it. *)
LEMMA AnswerPart ==
    ASSUME NEW S \in Seq(PieceOf(Line)), NEW srv, NEW events, NEW ctx, NEW q, Calm(ctx, q, S, srv, events),
           NEW A \in Seq(Line), IsReply(q, A), NEW x \in 0..(3 * Len(A)),
           NEW S2 \in Seq(PieceOf(Line)), Len(S2) = Len(S) + x,
           \A i \in 1..Len(S) : S2[i] = S[i], \A i \in 1..x : S2[Len(S) + i] = PieceAt(A, i),
           NEW srv2, ~srv => x = 0 /\ ~srv2, x # 3 * Len(A) => ~srv2 \/ events # <<>>
    PROVE  InSync(ctx, q, S2, srv2, events, Result(A))
<1>2. Len(S) \in Nat /\ Len(A) \in Nat /\ Len(A) >= 4 /\ x \in Nat /\ x <= 3 * Len(A)
  BY DEF IsReply
<1>3. /\ DOMAIN ctx = Fields /\ ctx.packet = q /\ ctx.result = None /\ ctx.state = "P_BEGIN" /\ ctx.status = "ok"
      /\ \A i \in 1..Len(S) : S[i].line \in Event
      /\ S # <<>> => S[Len(S)].part = 3 \/ ~srv
      /\ events = <<>> /\ srv => S = <<>>
  BY DEF Calm, InLoop, EventsAhead
<1>4. At(ctx, q, A, 0)
  <2>1. StateAt(Len(A), 0) = "P_BEGIN" /\ 0 \in 0..(Len(A) - 1)
    BY <1>2 DEF StateAt
  <2>. QED  BY <1>3, <2>1 DEF At
<1>5. Ahead(S2, srv2, events, A, 0, Len(S), x)
  <2>1. Len(S) + x <= Len(S2) /\ 3 * 0 + x <= 3 * Len(A)
    BY <1>2
  <2>2. ASSUME NEW i \in 1..Len(S) PROVE S2[i].line \in Event
    BY <1>3
  <2>3. ASSUME NEW i \in 1..x PROVE S2[Len(S) + i] = PieceAt(A, 3 * 0 + i)
    <3>1. 3 * 0 + i = i
      OBVIOUS
    <3>2. S2[Len(S) + i] = PieceAt(A, i)
      OBVIOUS
    <3>. QED  BY <3>1, <3>2
  <2>4. ASSUME NEW i \in (Len(S) + x + 1)..Len(S2) PROVE S2[i].line \in Event
    BY <1>2
  <2>5. ASSUME Len(S) > 0 PROVE S2[Len(S)].part = 3 \/ (~srv2 /\ Len(S2) = Len(S))
    <3>1. Len(S) \in 1..Len(S) /\ S # <<>>
      BY <1>2, <2>5
    <3>2. CASE S[Len(S)].part = 3
      BY <3>1, <3>2
    <3>3. CASE ~srv
      BY <1>2, <3>3
    <3>. QED  BY <1>3, <3>1, <3>2, <3>3
  <2>6. ASSUME 3 * 0 + x # 3 * Len(A) PROVE ~srv2 \/ events # <<>>
    BY <2>6
  <2>7. ASSUME events = <<>>, srv2 PROVE Len(S) = 0 /\ Len(S2) = x
    <3>1. Len(S) = 0
      BY <1>3, <2>7
    <3>. QED  BY <1>2, <3>1
  <2>8. ~(Len(S2) > Len(S) + x)
    BY <1>2
  <2>. QED  BY <2>1, <2>2, <2>3, <2>4, <2>5, <2>6, <2>7, <2>8 DEF Ahead
<1>. QED  BY <1>2, <1>4, <1>5, SyncIs

LEMMA AnswerGrows ==
    ASSUME NEW S \in Seq(PieceOf(Line)), NEW srv, NEW events, NEW ctx, NEW q, Calm(ctx, q, S, srv, events),
           NEW A \in Seq(Line), IsReply(q, A), NEW S2, NEW srv2, Grows(S, srv, S2, srv2, A)
    PROVE  InSync(ctx, q, S2, srv2, events, Result(A))
<1>1. PICK x \in 0..(3 * Len(A)) :
        /\ S2 \in Seq(PieceOf(Line)) /\ Len(S2) = Len(S) + x
        /\ \A i \in 1..Len(S) : S2[i] = S[i]
        /\ \A i \in 1..x : S2[Len(S) + i] = PieceAt(A, i)
        /\ ~srv => x = 0 /\ ~srv2
        /\ x # 3 * Len(A) => ~srv2
  BY DEF Grows
<1>. QED  BY <1>1, AnswerPart

(* A line with a word of the answers. *)
LEMMA AnswerLine ==
    ASSUME NEW w \in AnswerWords
    PROVE  <<w>> \in Line
<1>1. w \in STRING /\ w # "fragment"
  BY CallsAssumption, SMT DEF AnswerWords, Number
<1>2. <<w>> \in Seq(STRING)
  BY ONLY <1>1
<1>3. <<w>> # Fragment
  BY <1>1 DEF Fragment
<1>. QED  BY ONLY <1>2, <1>3 DEF Line, Words

-----------------------------------------------------------------------------
(* What write_socket() does to it *)

(* x pieces of lines were written to s: w. *)
Wrote(s, lines, w, x) ==
    /\ w.down \in Seq(PieceOf(Line)) /\ Len(w.down) = Len(s.down) + x
    /\ \A i \in 1..Len(s.down) : w.down[i] = s.down[i]
    /\ \A i \in 1..x : w.down[Len(s.down) + i] = PieceAt(lines, i)
    /\ w.srv => s.srv /\ x = 3 * Len(lines)
    /\ ~(s.srv /\ s.cli) => x = 0
    /\ s.srv /\ s.cli /\ x # 3 * Len(lines) => Len(s.down) + x >= scene.room
    /\ w.up = s.up /\ w.cli = s.cli /\ DOMAIN w = DOMAIN s

LEMMA WriteIs ==
    ASSUME NEW s, DOMAIN s = DOMAIN Closed, s.down \in Seq(PieceOf(Line)), NEW lines \in Seq(Line), scene.room \in Nat
    PROVE  \E x \in 0..(3 * Len(lines)) : Wrote(s, lines, write_socket(s, lines), x)
<1>. DEFINE E == PieceOf(Line)
            out == Written(lines)
            room == IF s.srv /\ s.cli THEN scene.room - Len(s.down) ELSE 0
            w == write_socket(s, lines)
            y == IF Len(out) <= room THEN Len(out) ELSE room
            x == IF y < 0 THEN 0 ELSE y
<1>1. w = IF Len(out) <= room THEN [s EXCEPT !.down = @ \o out]
          ELSE [s EXCEPT !.down = @ \o First(out, room), !.srv = FALSE]
  BY Zenon DEF write_socket
<1>2. out \in Seq(E) /\ Len(out) = 3 * Len(lines) /\ \A i \in 1..(3 * Len(lines)) : out[i] = PieceAt(lines, i)
  BY WrittenType
<1>3. room \in Int /\ s.down \in Seq(E) /\ Len(s.down) \in Nat /\ Len(lines) \in Nat
  OBVIOUS
<1>4. "down" \in DOMAIN s /\ "srv" \in DOMAIN s /\ "up" \in DOMAIN s /\ "cli" \in DOMAIN s
  BY Domains
<1>5. room = IF s.srv /\ s.cli THEN scene.room - Len(s.down) ELSE 0
  OBVIOUS
<1>. HIDE DEF E, out, room, w
<1>6. y \in Int /\ y <= Len(out) /\ x \in 0..(3 * Len(lines)) /\ Len(out) \in Nat
  BY ONLY <1>2, <1>3
<1>7. First(out, y) \in Seq(E) /\ Len(First(out, y)) = x /\ \A i \in 1..x : First(out, y)[i] = PieceAt(lines, i)
  <2>1. First(out, y) \in Seq(E) /\ Len(First(out, y)) = x /\ \A i \in 1..y : First(out, y)[i] = out[i]
    BY ONLY <1>2, <1>6, FirstType
  <2>2. 1..x \subseteq 1..y /\ 1..x \subseteq 1..(3 * Len(lines))
    BY ONLY <1>2, <1>3, <1>6
  <2>. HIDE DEF x, y
  <2>. QED  BY ONLY <1>2, <2>1, <2>2
<1>8. /\ w.down = s.down \o First(out, y) /\ w.up = s.up /\ w.cli = s.cli /\ DOMAIN w = DOMAIN s
      /\ w.srv = IF Len(out) <= room THEN s.srv ELSE FALSE
  <2>1. First(out, Len(out)) = out
    BY <1>2, SubSeqFull DEF First
  <2>2. CASE Len(out) <= room
    BY <1>1, <1>4, <2>1, <2>2
  <2>3. CASE ~(Len(out) <= room)
    BY <1>1, <1>4, <2>3
  <2>. QED  BY <2>2, <2>3
<1>9. Joined(E, s.down, First(out, y), w.down)
  <2>. DEFINE f == First(out, y)
              d == s.down
  <2>1. f \in Seq(E) /\ d \in Seq(E) /\ w.down = d \o f
    BY <1>3, <1>7, <1>8
  <2>. HIDE DEF f, d
  <2>2. Joined(E, d, f, w.down)
    BY ONLY <2>1, BothType
  <2>. QED  BY <2>2 DEF f, d
<1>10. /\ w.srv => s.srv /\ x = 3 * Len(lines)
       /\ ~(s.srv /\ s.cli) => x = 0
       /\ s.srv /\ s.cli /\ x # 3 * Len(lines) => Len(s.down) + x >= scene.room
  <2>1. Len(out) = 3 * Len(lines)
    BY <1>2
  <2>2. w.srv => Len(out) <= room /\ s.srv
    BY <1>8
  <2>. QED  BY ONLY <1>3, <1>5, <1>6, <2>1, <2>2, scene.room \in Nat
<1>. HIDE DEF x, y
<1>11. Wrote(s, lines, w, x)
  BY ONLY <1>7, <1>8, <1>9, <1>10, Zenon DEF Wrote, Joined, E
<1>. QED  BY <1>6, <1>11 DEF w

(* S2 is S and x pieces of lines. *)
Longer(S, S2, lines, x) ==
    /\ S2 \in Seq(PieceOf(Line)) /\ Len(S2) = Len(S) + x
    /\ \A i \in 1..Len(S) : S2[i] = S[i]
    /\ \A i \in 1..x : S2[Len(S) + i] = PieceAt(lines, i)

(* Behind what irsend has read. *)
LEMMA StreamGrows ==
    ASSUME NEW b \in Seq(PieceOf(Line)), NEW d \in Seq(PieceOf(Line)), NEW x \in Nat,
           NEW lines, NEW d2, Longer(d, d2, lines, x)
    PROVE  Longer(b \o d, b \o d2, lines, x)
<1>. DEFINE E == PieceOf(Line)
            s == b \o d
            t == b \o d2
<1>0. /\ d2 \in Seq(E) /\ Len(d2) = Len(d) + x
      /\ \A i \in 1..Len(d) : d2[i] = d[i]
      /\ \A i \in 1..x : d2[Len(d) + i] = PieceAt(lines, i)
  BY DEF Longer
<1>1. Len(b) \in Nat /\ Len(d) \in Nat /\ Len(d2) \in Nat
  BY <1>0
<1>2. Joined(E, b, d, s) /\ Joined(E, b, d2, t)
  BY <1>0, BothType
<1>. HIDE DEF s, t, E
<1>3. /\ Len(s) = Len(b) + Len(d) /\ Len(t) = Len(b) + Len(d2) /\ t \in Seq(E)
      /\ \A i \in 1..Len(b) : s[i] = b[i] /\ t[i] = b[i]
      /\ \A i \in 1..Len(d) : s[Len(b) + i] = d[i]
      /\ \A i \in 1..Len(d2) : t[Len(b) + i] = d2[i]
  BY <1>2 DEF Joined
<1>4. ASSUME NEW i \in 1..Len(s) PROVE t[i] = s[i]
  <2>1. CASE i <= Len(b)
    <3>1. i \in 1..Len(b)
      BY <1>1, <1>3, <2>1
    <3>. QED  BY <1>3, <3>1
  <2>2. CASE i > Len(b)
    <3>1. PICK k \in 1..Len(d) : i = Len(b) + k
      <4>1. i \in 1..(Len(b) + Len(d))
        BY <1>3
      <4>. QED  BY ONLY <1>1, <2>2, <4>1, Behind, Zenon
    <3>2. k \in 1..Len(d2)
      BY <1>0, <1>1
    <3>. QED  BY <1>0, <1>3, <3>1, <3>2
  <2>. QED  BY <1>1, <1>3, <2>1, <2>2
<1>5. ASSUME NEW i \in 1..x PROVE t[Len(s) + i] = PieceAt(lines, i)
  <2>1. Len(d) + i \in 1..Len(d2) /\ Len(s) + i = Len(b) + (Len(d) + i)
    BY ONLY <1>0, <1>1, <1>3, i \in 1..x, x \in Nat
  <2>. QED  BY <1>0, <1>3, <2>1
<1>6. Len(t) = Len(s) + x
  BY ONLY <1>0, <1>1, <1>3, x \in Nat
<1>. QED  BY <1>3, <1>4, <1>5, <1>6 DEF s, t, E, Longer

(* A write, after which lircd may close the connection. *)
LEMMA WroteGrows ==
    ASSUME NEW s, NEW lines, NEW w, NEW x \in 0..(3 * Len(lines)), Wrote(s, lines, w, x), Len(lines) \in Nat,
           NEW b \in Seq(PieceOf(Line)), s.down \in Seq(PieceOf(Line)), NEW srv2, srv2 => w.srv
    PROVE  Grows(b \o s.down, s.srv, b \o w.down, srv2, lines)
<1>. DEFINE d == s.down
            d2 == w.down
<1>1. /\ d \in Seq(PieceOf(Line)) /\ x \in Nat /\ Longer(d, d2, lines, x)
      /\ srv2 => s.srv /\ x = 3 * Len(lines)
      /\ ~s.srv => x = 0
  BY DEF Wrote, Longer
<1>. HIDE DEF d, d2
<1>2. Longer(b \o d, b \o d2, lines, x)
  BY <1>1, StreamGrows
<1>3. Grows(b \o d, s.srv, b \o d2, srv2, lines)
  BY <1>1, <1>2, Zenon DEF Grows, Longer
<1>. QED  BY <1>3 DEF d, d2

(* lircd closes it. *)
LEMMA ClosedGrows ==
    ASSUME NEW S \in Seq(PieceOf(Line)), NEW srv, NEW srv2, srv2 => srv
    PROVE  Grows(S, srv, S, srv2, <<>>)
  BY DEF Grows

-----------------------------------------------------------------------------
(* What lircd answers *)

(* The texts of its errors. *)
What == Seq(AnswerWords) \ {<<>>}

LEMMA WhatLine == What \subseteq Line
<1>. SUFFICES ASSUME NEW what \in What PROVE what \in Line
  OBVIOUS
<1>1. \A w \in AnswerWords : w \in STRING /\ w # "fragment"
  BY CallsAssumption, SMT DEF AnswerWords, Number
<1>2. what \in Seq(AnswerWords) /\ what # <<>>
  BY DEF What
<1>3. what \in Seq(STRING)
  BY <1>1, <1>2
<1>4. what[1] # "fragment"
  BY <1>1, <1>2
<1>5. what # Fragment
  BY <1>4 DEF Fragment
<1>. QED  BY <1>3, <1>5 DEF Line, Words

LEMMA Texts ==
    /\ <<"unknown", "remote">> \in What /\ <<"unknown", "command">> \in What /\ <<"reps/eol">> \in What
    /\ <<"too", "many", "repeats">> \in What /\ <<"trailing", "ws">> \in What /\ <<"remote", "missing">> \in What
    /\ <<"code", "missing">> \in What /\ <<"hardware", "does", "not", "support", "sending">> \in What
    /\ <<"busy:", "repeating">> \in What /\ <<"already", "repeating">> \in What /\ <<"not", "repeating">> \in What
    /\ <<"specified", "remote", "does", "not", "match">> \in What
    /\ <<"specified", "code", "does", "not", "match">> \in What
    /\ <<"no", "arguments", "given">> \in What
    /\ <<"hardware", "does", "not", "support", "multiple", "transmitters">> \in What
    /\ <<"invalid", "argument">> \in What /\ <<"cannot", "support">> \in What
    /\ <<"maximum", "of", "transmitters">> \in What /\ <<"SIMULATE", "command", "is", "disabled">> \in What
    /\ <<"invalid", "event">> \in What /\ <<"Illegal", "argument">> \in What /\ <<"Cannot", "set">> \in What
    /\ <<"Cannot", "open", "input", "logfile">> \in What /\ <<"bad", "send", "packet">> \in What
    /\ <<"unknown", "directive">> \in What /\ <<"transmission", "failed">> \in What
    /\ <<"repeating", "interrupted">> \in What
<1>1. /\ "unknown" \in AnswerWords /\ "remote" \in AnswerWords /\ "command" \in AnswerWords /\ "reps/eol" \in AnswerWords
      /\ "too" \in AnswerWords /\ "many" \in AnswerWords /\ "repeats" \in AnswerWords /\ "trailing" \in AnswerWords
      /\ "ws" \in AnswerWords /\ "missing" \in AnswerWords /\ "code" \in AnswerWords /\ "hardware" \in AnswerWords
      /\ "does" \in AnswerWords /\ "not" \in AnswerWords /\ "support" \in AnswerWords /\ "sending" \in AnswerWords
      /\ "busy:" \in AnswerWords /\ "repeating" \in AnswerWords /\ "already" \in AnswerWords
      /\ "specified" \in AnswerWords /\ "match" \in AnswerWords /\ "no" \in AnswerWords /\ "arguments" \in AnswerWords
      /\ "given" \in AnswerWords /\ "multiple" \in AnswerWords /\ "transmitters" \in AnswerWords
      /\ "invalid" \in AnswerWords /\ "argument" \in AnswerWords /\ "cannot" \in AnswerWords
      /\ "maximum" \in AnswerWords /\ "of" \in AnswerWords /\ "SIMULATE" \in AnswerWords /\ "is" \in AnswerWords
      /\ "disabled" \in AnswerWords /\ "event" \in AnswerWords /\ "Illegal" \in AnswerWords /\ "Cannot" \in AnswerWords
      /\ "set" \in AnswerWords /\ "open" \in AnswerWords /\ "input" \in AnswerWords /\ "logfile" \in AnswerWords
      /\ "bad" \in AnswerWords /\ "send" \in AnswerWords /\ "packet" \in AnswerWords /\ "directive" \in AnswerWords
      /\ "transmission" \in AnswerWords /\ "failed" \in AnswerWords /\ "interrupted" \in AnswerWords
  BY DEF AnswerWords
<1>. QED  BY <1>1 DEF What

(* Packages are answers. *)
LEMMA SuccessReply ==
    ASSUME NEW q \in Request
    PROVE  IsReply(q, send_success(q)) /\ Len(send_success(q)) = 4 /\ Result(send_success(q)) = "ok"
<1>. DEFINE A == send_success(q)
<1>1. q \in Line /\ q # <<>>
  BY DEF Request
<1>2. <<"BEGIN">> \in Line /\ <<"SUCCESS">> \in Line /\ <<"END">> \in Line
  <2>1. "BEGIN" \in AnswerWords /\ "SUCCESS" \in AnswerWords /\ "END" \in AnswerWords
    BY DEF AnswerWords
  <2>. QED  BY <2>1, AnswerLine, Zenon
<1>3. A \in Seq(Line) /\ Len(A) = 4
  BY <1>1, <1>2 DEF send_success
<1>4. A[1] = <<"BEGIN">> /\ A[2] = q /\ A[3] = <<"SUCCESS">> /\ A[4] = <<"END">>
  BY DEF send_success
<1>5. ASSUME NEW i \in 1..4 PROVE A[i] # <<>>
  <2>1. <<"BEGIN">> # <<>> /\ <<"SUCCESS">> # <<>> /\ <<"END">> # <<>>
    OBVIOUS
  <2>2. i = 1 \/ i = 2 \/ i = 3 \/ i = 4
    OBVIOUS
  <2>. QED  BY <1>1, <1>4, <2>1, <2>2
<1>. HIDE DEF A
<1>. QED  BY <1>3, <1>4, <1>5 DEF IsReply, Result, A

LEMMA ErrorReply ==
    ASSUME NEW q \in Request, NEW what \in What
    PROVE  IsReply(q, send_error(q, what))
<1>. DEFINE A == send_error(q, what)
<1>1. q \in Line /\ q # <<>> /\ what \in Line /\ what # <<>>
  BY WhatLine DEF Request, What
<1>2. <<"BEGIN">> \in Line /\ <<"ERROR">> \in Line /\ <<"DATA">> \in Line /\ <<"1">> \in Line /\ <<"END">> \in Line
  <2>1. "BEGIN" \in AnswerWords /\ "ERROR" \in AnswerWords /\ "DATA" \in AnswerWords /\ "END" \in AnswerWords
    BY DEF AnswerWords
  <2>2. "1" \in AnswerWords
    BY Numbers DEF AnswerWords
  <2>. QED  BY <2>1, <2>2, AnswerLine, Zenon
<1>3. A \in Seq(Line) /\ Len(A) = 7
  BY <1>1, <1>2 DEF send_error
<1>4. /\ A[1] = <<"BEGIN">> /\ A[2] = q /\ A[3] = <<"ERROR">> /\ A[4] = <<"DATA">>
      /\ A[5] = <<"1">> /\ A[6] = what /\ A[7] = <<"END">>
  BY DEF send_error
<1>5. ASSUME NEW i \in 1..7 PROVE A[i] # <<>>
  <2>1. <<"BEGIN">> # <<>> /\ <<"ERROR">> # <<>> /\ <<"DATA">> # <<>> /\ <<"1">> # <<>> /\ <<"END">> # <<>>
    OBVIOUS
  <2>2. i = 1 \/ i = 2 \/ i = 3 \/ i = 4 \/ i = 5 \/ i = 6 \/ i = 7
    OBVIOUS
  <2>. QED  BY ONLY <1>1, <1>4, <2>1, <2>2
<1>. HIDE DEF A
<1>6. \E w \in DOMAIN Number : A[5] = <<w>> /\ Number[w] = 1
  BY <1>4, Numbers
<1>7. \E w \in DOMAIN Number : A[5] = <<w>> /\ Number[w] = Len(A) - 6
  <2>1. Len(A) - 6 = 1
    BY <1>3
  <2>. QED  BY ONLY <1>6, <2>1, Zenon
<1>. QED  BY <1>3, <1>4, <1>5, <1>7 DEF IsReply, A

(* Lines of data, as many as Number can say. *)
LEMMA DataReply ==
    ASSUME NEW q \in Request, NEW lines \in Seq(Line \ {<<>>}), Len(lines) \in Counts \/ lines = <<>>
    PROVE  IsReply(q, send_data(q, lines))
<1>. DEFINE A == send_data(q, lines)
            n == Len(lines)
            w == Count(lines)
            B == << <<"BEGIN">>, q, <<"SUCCESS">> >>
            D == << <<"DATA">>, <<w>> >>
            Z == << <<"END">> >>
<1>1. q \in Line /\ q # <<>>
  BY DEF Request
<1>2. <<"BEGIN">> \in Line /\ <<"SUCCESS">> \in Line /\ <<"DATA">> \in Line /\ <<"END">> \in Line
  <2>1. "BEGIN" \in AnswerWords /\ "SUCCESS" \in AnswerWords /\ "DATA" \in AnswerWords /\ "END" \in AnswerWords
    BY DEF AnswerWords
  <2>. QED  BY <2>1, AnswerLine, Zenon
<1>3. <<"BEGIN">> # <<>> /\ <<"SUCCESS">> # <<>> /\ <<"DATA">> # <<>> /\ <<"END">> # <<>> /\ <<w>> # <<>>
  OBVIOUS
<1>4. CASE lines = <<>>
  <2>1. A = << <<"BEGIN">>, q, <<"SUCCESS">>, <<"END">> >>
    <3>1. A = B \o <<>> \o Z
      BY <1>4, Zenon DEF send_data
    <3>2. B \in Seq(Line)
      BY <1>1, <1>2
    <3>3. \A s \in Seq(Line) : s \o <<>> = s
      OBVIOUS
    <3>4. B \o <<>> = B
      BY ONLY <3>2, <3>3, Zenon
    <3>5. B \o Z = << <<"BEGIN">>, q, <<"SUCCESS">>, <<"END">> >>
      <4>. DEFINE R == << <<"BEGIN">>, q, <<"SUCCESS">>, <<"END">> >>
      <4>1. Z \in Seq(Line) /\ R \in Seq(Line) /\ Len(R) = 4 /\ Len(B) = 3 /\ Len(Z) = 1
        BY <1>1, <1>2
      <4>2. B[1] = R[1] /\ B[2] = R[2] /\ B[3] = R[3] /\ Z[1] = R[4]
        OBVIOUS
      <4>. HIDE DEF A, B, Z, R
      <4>3. Joined(Line, B, Z, B \o Z)
        BY ONLY <3>2, <4>1, BothType, Zenon
      <4>4. Len(B \o Z) = 4 /\ B \o Z \in Seq(Line)
        BY <4>1, <4>3 DEF Joined
      <4>5. \A i \in 1..4 : (B \o Z)[i] = R[i]
        <5>1. \A i \in 1..3 : (B \o Z)[i] = B[i]
          BY <4>1, <4>3 DEF Joined
        <5>2. (B \o Z)[4] = Z[1]
          <6>1. 1 \in 1..1 /\ 3 + 1 = 4
            OBVIOUS
          <6>. QED  BY <4>1, <4>3, <6>1 DEF Joined
        <5>3. \A i \in 1..4 : i = 1 \/ i = 2 \/ i = 3 \/ i = 4
          OBVIOUS
        <5>4. 1 \in 1..3 /\ 2 \in 1..3 /\ 3 \in 1..3
          OBVIOUS
        <5>. QED  BY ONLY <4>2, <5>1, <5>2, <5>3, <5>4, Zenon
      <4>6. B \o Z = R
        BY ONLY <4>1, <4>4, <4>5, SeqEqual, Zenon
      <4>. QED  BY <4>6 DEF R
    <3>. HIDE DEF A, B, Z
    <3>. QED  BY ONLY <3>1, <3>4, <3>5, Zenon
  <2>2. A = send_success(q)
    BY <2>1 DEF send_success
  <2>. QED  BY <2>2, SuccessReply
<1>5. CASE lines # <<>>
  <2>1. w \in DOMAIN Number /\ Number[w] = n
    <3>1. \E v \in DOMAIN Number : Number[v] = n
      BY <1>5 DEF Counts
    <3>. QED  BY <3>1 DEF Count
  <2>2. <<w>> \in Line
    <3>1. w \in AnswerWords
      BY <2>1 DEF AnswerWords
    <3>. QED  BY <3>1, AnswerLine
  <2>3. A = (B \o (D \o lines)) \o Z
    BY <1>5, Zenon DEF send_data
  <2>. HIDE DEF w
  <2>4. B \in Seq(Line) /\ D \in Seq(Line) /\ Z \in Seq(Line) /\ lines \in Seq(Line)
    BY <1>1, <1>2, <2>2
  <2>5. /\ Len(B) = 3 /\ B[1] = <<"BEGIN">> /\ B[2] = q /\ B[3] = <<"SUCCESS">>
        /\ Len(D) = 2 /\ D[1] = <<"DATA">> /\ D[2] = <<w>> /\ Len(Z) = 1 /\ Z[1] = <<"END">>
    OBVIOUS
  <2>6. n \in Nat /\ \A i \in 1..n : lines[i] # <<>>
    OBVIOUS
  <2>. HIDE DEF A, B, D, Z, n
  <2>7. Joined(Line, D, lines, D \o lines)
    BY ONLY <2>4, BothType, Zenon
  <2>8. Joined(Line, B, D \o lines, B \o (D \o lines))
    <3>1. D \o lines \in Seq(Line)
      BY ONLY <2>7, Zenon DEF Joined
    <3>. QED  BY ONLY <2>4, <3>1, BothType, Zenon
  <2>9. Joined(Line, B \o (D \o lines), Z, A)
    <3>1. B \o (D \o lines) \in Seq(Line)
      BY ONLY <2>8, Zenon DEF Joined
    <3>. QED  BY ONLY <2>3, <2>4, <3>1, BothType, Zenon
  <2>. DEFINE dl == D \o lines
              bdl == B \o dl
  <2>10. /\ Len(dl) = n + 2 /\ dl[1] = <<"DATA">> /\ dl[2] = <<w>> /\ \A i \in 1..n : dl[2 + i] = lines[i]
    <3>1. Len(lines) = n
      BY DEF n
    <3>. QED  BY <2>5, <2>6, <2>7, <3>1 DEF Joined
  <2>. HIDE DEF dl
  <2>11. /\ Len(bdl) = n + 5 /\ bdl[1] = <<"BEGIN">> /\ bdl[2] = q /\ bdl[3] = <<"SUCCESS">>
         /\ \A i \in 1..(n + 2) : bdl[3 + i] = dl[i]
    <3>1. Joined(Line, B, dl, bdl)
      BY <2>8, Zenon DEF dl
    <3>2. Len(bdl) = 3 + (n + 2) /\ \A i \in 1..3 : bdl[i] = B[i]
      BY ONLY <2>5, <2>10, <3>1, Zenon DEF Joined
    <3>3. \A i \in 1..(n + 2) : bdl[3 + i] = dl[i]
      BY ONLY <2>5, <2>10, <3>1, Zenon DEF Joined
    <3>4. 1 \in 1..3 /\ 2 \in 1..3 /\ 3 \in 1..3 /\ 3 + (n + 2) = n + 5
      BY ONLY <2>6
    <3>. HIDE DEF bdl
    <3>. QED  BY ONLY <2>5, <3>2, <3>3, <3>4, Zenon
  <2>. HIDE DEF bdl
  <2>12. /\ A \in Seq(Line) /\ Len(A) = n + 6 /\ A[n + 6] = <<"END">>
         /\ \A i \in 1..(n + 5) : A[i] = bdl[i]
    <3>1. Joined(Line, bdl, Z, A)
      BY <2>9 DEF bdl, dl
    <3>2. 1 \in 1..1 /\ n + 5 + 1 = n + 6
      BY <2>6
    <3>. QED  BY <2>5, <2>6, <2>11, <3>1, <3>2 DEF Joined
  <2>13. /\ A[1] = <<"BEGIN">> /\ A[2] = q /\ A[3] = <<"SUCCESS">> /\ A[4] = <<"DATA">> /\ A[5] = <<w>>
    <3>1. bdl[4] = <<"DATA">> /\ bdl[5] = <<w>>
      <4>1. 1 \in 1..(n + 2) /\ 2 \in 1..(n + 2) /\ 3 + 1 = 4 /\ 3 + 2 = 5
        BY <2>6
      <4>. QED  BY <2>10, <2>11, <4>1
    <3>2. 1 \in 1..(n + 5) /\ 2 \in 1..(n + 5) /\ 3 \in 1..(n + 5) /\ 4 \in 1..(n + 5) /\ 5 \in 1..(n + 5)
      BY <2>6
    <3>. QED  BY <2>11, <2>12, <3>1, <3>2
  <2>14. n >= 1
    BY <1>5, <2>6 DEF n
  <2>15. ASSUME NEW i \in 1..(n + 6) PROVE A[i] # <<>>
    <3>1. CASE i <= 5
      <4>1. i = 1 \/ i = 2 \/ i = 3 \/ i = 4 \/ i = 5
        BY <2>6, <3>1
      <4>. QED  BY <1>1, <1>3, <2>13, <4>1
    <3>2. CASE i = n + 6
      BY <1>3, <2>12, <3>2
    <3>3. CASE i > 5 /\ i # n + 6
      <4>1. PICK k \in 1..n : i = 5 + k
        <5>1. i \in 1..(5 + n)
          BY <2>6, <3>3
        <5>. QED  BY ONLY <2>6, <3>3, <5>1, Behind
      <4>2. 2 + k \in 1..(n + 2) /\ 3 + (2 + k) = i /\ i \in 1..(n + 5)
        BY <2>6, <4>1
      <4>3. A[i] = lines[k]
        BY <2>10, <2>11, <2>12, <4>1, <4>2
      <4>. QED  BY <2>6, <4>3
    <3>. QED  BY <2>6, <3>1, <3>2, <3>3
  <2>16. Len(A) - 6 = n /\ Len(A) >= 7
    BY <2>6, <2>12, <2>14
  <2>17. \E v \in DOMAIN Number : A[5] = <<v>> /\ Number[v] = Len(A) - 6
    BY ONLY <2>1, <2>13, <2>16, Zenon
  <2>. QED  BY <2>12, <2>13, <2>15, <2>16, <2>17 DEF IsReply, A
<1>. QED  BY <1>4, <1>5

(* A directive answers, or is a SEND_ONCE that the repeat timer will       *)
(* answer; what it casts are events.                                       *)
Replies(fd, message, st, do) ==
    /\ do.cast \in Seq(Event)
    /\ \/ do.out = <<>> /\ do.cast = <<>> /\ do.st.repeat.fd = fd /\ do.st.repeat.message = message
       \/ /\ message \in Request => IsReply(message, do.out)
          /\ do.st.repeat.fd = st.repeat.fd /\ do.st.repeat.message = st.repeat.message

LEMMA RepliesSame ==
    ASSUME NEW fd, NEW message, NEW st, NEW lines, message \in Request => IsReply(message, lines),
           NEW st2, st2.repeat.fd = st.repeat.fd, st2.repeat.message = st.repeat.message
    PROVE  Replies(fd, message, st, Answer(lines, st2))
<1>1. <<>> \in Seq(Event)
  OBVIOUS
<1>. QED  BY <1>1 DEF Answer, Replies

LEMMA RepliesAll ==
    ASSUME NEW fd, NEW message, NEW st
    PROVE  /\ \A what \in What : Replies(fd, message, st, Fail(message, what, st))
           /\ \A st2 : st2.repeat.fd = st.repeat.fd /\ st2.repeat.message = st.repeat.message =>
                          Replies(fd, message, st, Done(message, st2))
<1>1. ASSUME NEW what \in What PROVE Replies(fd, message, st, Fail(message, what, st))
  <2>1. message \in Request => IsReply(message, send_error(message, what))
    BY ErrorReply
  <2>. QED  BY <2>1, RepliesSame DEF Fail
<1>2. ASSUME NEW st2, st2.repeat.fd = st.repeat.fd, st2.repeat.message = st.repeat.message
      PROVE  Replies(fd, message, st, Done(message, st2))
  <2>1. message \in Request => IsReply(message, send_success(message))
    BY SuccessReply
  <2>. QED  BY <1>2, <2>1, RepliesSame DEF Done
<1>. QED  BY <1>1, <1>2

LEMMA ErrorIs ==
    ASSUME NEW args, NEW hasReps, NEW n
    PROVE  /\ parse_rc(args, hasReps, n).err \in What \cup {<<>>}
           /\ parse_rc(args, hasReps, n).err # <<>> => parse_rc(args, hasReps, n).remote = None
           /\ parse_rc(args, hasReps, n).err = <<>> =>
                 /\ parse_rc(args, hasReps, n).remote \in Range(RemoteList) \cup {None}
                 /\ parse_rc(args, hasReps, n).remote = None => parse_rc(args, hasReps, n).code = None
                 /\ parse_rc(args, hasReps, n).code # None =>
                       parse_rc(args, hasReps, n).code \in Range(CodesOf[parse_rc(args, hasReps, n).remote])
<1>. DEFINE remote == Arg(args, 1)
            known == remote # None /\ remote \in Range(RemoteList)
            code == IF known THEN Arg(args, 2) ELSE None
            reps == IF hasReps THEN Arg(args, 3) ELSE None
            trailing == Arg(args, IF hasReps THEN 4 ELSE 3)
            failed(what) == [err |-> what, remote |-> None, code |-> None, reps |-> 0]
            R == parse_rc(args, hasReps, n)
            good == [err |-> <<>>, remote |-> remote, code |-> code,
                     reps |-> IF reps = None THEN 0 ELSE Number[reps]]
<1>1. R = CASE remote # None /\ ~known -> failed(<<"unknown", "remote">>)
            [] code # None /\ code \notin Range(CodesOf[remote]) -> failed(<<"unknown", "command">>)
            [] code # None /\ reps # None /\ reps \notin DOMAIN Number -> failed(<<"reps/eol">>)
            [] code # None /\ reps # None /\ reps \in DOMAIN Number /\ Number[reps] > RepeatMax ->
                 failed(<<"too", "many", "repeats">>)
            [] code # None /\ trailing # None -> failed(<<"trailing", "ws">>)
            [] n > 0 /\ remote = None -> failed(<<"remote", "missing">>)
            [] n > 1 /\ known /\ code = None -> failed(<<"code", "missing">>)
            [] OTHER -> good
  BY Zenon DEF parse_rc
<1>2. known => remote \in Range(RemoteList) /\ remote # None
  OBVIOUS
<1>3. ~known => code = None
  OBVIOUS
<1>. HIDE DEF R, remote, known, code, reps, trailing
<1>4. \A what : failed(what).err = what /\ failed(what).remote = None
  OBVIOUS
<1>. HIDE DEF failed
<1>5. \/ R.err \in What /\ R.remote = None
      \/ R = good /\ ~(remote # None /\ ~known) /\ ~(code # None /\ code \notin Range(CodesOf[remote]))
  <2>. HIDE DEF good
  <2>. QED  BY ONLY <1>1, <1>4, Texts
<1>6. <<>> \notin What
  BY DEF What
<1>7. good.err = <<>> /\ good.remote = remote /\ good.code = code
  OBVIOUS
<1>. HIDE DEF good
<1>8. /\ R.err \in What \cup {<<>>} /\ (R.err # <<>> => R.remote = None)
      /\ R.err = <<>> =>
            /\ R.remote \in Range(RemoteList) \cup {None}
            /\ R.remote = None => R.code = None
            /\ R.code # None => R.code \in Range(CodesOf[R.remote])
  BY ONLY <1>2, <1>3, <1>5, <1>6, <1>7
<1>. QED  BY <1>8 DEF R

(* What the lists of remotes and codes say. *)
LEMMA ListLines ==
    /\ [i \in DOMAIN RemoteList |-> <<RemoteList[i]>>] \in Seq(Line \ {<<>>})
    /\ Len([i \in DOMAIN RemoteList |-> <<RemoteList[i]>>]) \in Counts
    /\ \A r \in Range(RemoteList) :
          /\ [i \in DOMAIN CodesOf[r] |-> <<"code", CodesOf[r][i]>>] \in Seq(Line \ {<<>>})
          /\ Len([i \in DOMAIN CodesOf[r] |-> <<"code", CodesOf[r][i]>>]) \in Counts
          /\ \A x \in Range(CodesOf[r]) : << <<"code", x>> >> \in Seq(Line \ {<<>>})
    /\ << <<"0.9.4">> >> \in Seq(Line \ {<<>>})
    /\ 1 \in Counts
<1>. DEFINE L == Line \ {<<>>}
            T == STRING \ Range(Fragment)
<1>1. /\ RemoteList \in Seq(T) /\ Len(RemoteList) \in Counts
      /\ \A r \in Range(RemoteList) : CodesOf[r] \in Seq(STRING) /\ Len(CodesOf[r]) \in Counts
  BY CallsAssumption
<1>2. \A w \in T : <<w>> \in L
  <2>. SUFFICES ASSUME NEW w \in T PROVE <<w>> \in L
    OBVIOUS
  <2>1. w \in STRING /\ w # "fragment"
    <3>1. "fragment" \in Range(Fragment)
      BY DEF Range, Fragment
    <3>. QED  BY <3>1
  <2>2. <<w>> \in Seq(STRING) /\ <<w>> # <<>>
    BY <2>1
  <2>3. <<w>> # Fragment
    BY <2>1 DEF Fragment
  <2>. QED  BY ONLY <2>2, <2>3 DEF Line, Words
<1>3. \A x \in STRING : <<"code", x>> \in L
  <2>. SUFFICES ASSUME NEW x \in STRING PROVE <<"code", x>> \in L
    OBVIOUS
  <2>1. "code" \in AnswerWords
    BY DEF AnswerWords
  <2>2. "code" \in STRING
    BY ONLY <2>1, CallsAssumption
  <2>3. <<"code", x>> \in Seq(STRING) /\ <<"code", x>> # <<>>
    BY <2>2
  <2>4. <<"code", x>> # Fragment
    BY DEF Fragment
  <2>. QED  BY ONLY <2>3, <2>4 DEF Line, Words
<1>4. <<"0.9.4">> \in L
  <2>1. "0.9.4" \in AnswerWords
    BY DEF AnswerWords
  <2>2. <<"0.9.4">> \in Line
    BY <2>1, AnswerLine
  <2>. QED  BY <2>2
<1>5. 1 \in Counts
  BY Numbers DEF Counts
<1>. HIDE DEF L, T
<1>6. ASSUME NEW E, NEW s \in Seq(E), NEW f, DOMAIN f = DOMAIN s, f = [i \in DOMAIN s |-> f[i]],
             \A i \in DOMAIN s : f[i] \in L
      PROVE  f \in Seq(L) /\ Len(f) = Len(s)
  <2>1. DOMAIN s = 1..Len(s) /\ Len(s) \in Nat
    OBVIOUS
  <2>2. f = [i \in 1..Len(s) |-> f[i]]
    BY <1>6, <2>1
  <2>3. \A i \in 1..Len(s) : f[i] \in L
    BY <1>6, <2>1
  <2>. QED  BY ONLY <2>1, <2>2, <2>3
<1>7. /\ [i \in DOMAIN RemoteList |-> <<RemoteList[i]>>] \in Seq(L)
      /\ Len([i \in DOMAIN RemoteList |-> <<RemoteList[i]>>]) = Len(RemoteList)
  <2>. DEFINE f == [i \in DOMAIN RemoteList |-> <<RemoteList[i]>>]
  <2>1. \A i \in DOMAIN RemoteList : f[i] \in L
    BY <1>1, <1>2
  <2>2. DOMAIN f = DOMAIN RemoteList /\ f = [i \in DOMAIN RemoteList |-> f[i]]
    OBVIOUS
  <2>. HIDE DEF f
  <2>3. f \in Seq(L) /\ Len(f) = Len(RemoteList)
    BY <1>1, <1>6, <2>1, <2>2
  <2>. QED  BY <2>3 DEF f
<1>8. ASSUME NEW r \in Range(RemoteList)
      PROVE  /\ [i \in DOMAIN CodesOf[r] |-> <<"code", CodesOf[r][i]>>] \in Seq(L)
             /\ Len([i \in DOMAIN CodesOf[r] |-> <<"code", CodesOf[r][i]>>]) = Len(CodesOf[r])
  <2>. DEFINE s == CodesOf[r]
              f == [i \in DOMAIN s |-> <<"code", s[i]>>]
  <2>0. s \in Seq(STRING)
    BY <1>1
  <2>. HIDE DEF s
  <2>1. ASSUME NEW i \in DOMAIN s PROVE f[i] \in L
    <3>1. s[i] \in STRING
      BY <2>0
    <3>2. f[i] = <<"code", s[i]>>
      OBVIOUS
    <3>. QED  BY ONLY <1>3, <3>1, <3>2, Zenon
  <2>2. DOMAIN f = DOMAIN s /\ f = [i \in DOMAIN s |-> f[i]]
    OBVIOUS
  <2>. HIDE DEF f
  <2>3. f \in Seq(L) /\ Len(f) = Len(s)
    BY <1>6, <2>0, <2>1, <2>2
  <2>. QED  BY <2>3 DEF f, s
<1>9. ASSUME NEW r \in Range(RemoteList), NEW x \in Range(CodesOf[r]) PROVE << <<"code", x>> >> \in Seq(L)
  <2>1. x \in STRING
    BY <1>1 DEF Range
  <2>2. <<"code", x>> \in L
    BY <1>3, <2>1
  <2>3. \A y \in L : <<y>> \in Seq(L)
    OBVIOUS
  <2>. QED  BY ONLY <2>2, <2>3, Zenon
<1>10. << <<"0.9.4">> >> \in Seq(L)
  <2>1. \A y \in L : <<y>> \in Seq(L)
    OBVIOUS
  <2>. QED  BY ONLY <1>4, <2>1, Zenon
<1>11. /\ Len([i \in DOMAIN RemoteList |-> <<RemoteList[i]>>]) \in Counts
       /\ \A r \in Range(RemoteList) : Len([i \in DOMAIN CodesOf[r] |-> <<"code", CodesOf[r][i]>>]) \in Counts
  BY ONLY <1>1, <1>7, <1>8, Zenon
<1>. QED  BY ONLY <1>5, <1>7, <1>8, <1>9, <1>10, <1>11, Zenon DEF L

LEMMA RepliesData ==
    ASSUME NEW fd, NEW message, NEW st, NEW lines \in Seq(Line \ {<<>>}), Len(lines) \in Counts
    PROVE  Replies(fd, message, st, Answer(send_data(message, lines), st))
<1>1. message \in Request => IsReply(message, send_data(message, lines))
  BY DataReply
<1>. QED  BY <1>1, RepliesSame

LEMMA ListReplies ==
    ASSUME NEW fd, NEW message, NEW args, NEW st
    PROVE  Replies(fd, message, st, list(fd, message, args, st))
<1>. DEFINE R == parse_rc(args, FALSE, 0)
<1>1. /\ R.err \in What \cup {<<>>} /\ (R.err # <<>> => R.remote = None)
      /\ R.err = <<>> =>
            /\ R.remote \in Range(RemoteList) \cup {None} /\ (R.remote = None => R.code = None)
            /\ R.code # None => R.code \in Range(CodesOf[R.remote])
  BY ErrorIs
<1>2. list(fd, message, args, st) =
        CASE R.err # <<>> -> Fail(message, R.err, st)
          [] R.err = <<>> /\ R.remote = None -> Answer(send_remote_list(message), st)
          [] R.remote # None /\ R.code = None -> Answer(send_remote(message, R.remote), st)
          [] OTHER -> Answer(send_name(message, R.code), st)
  BY Zenon DEF list
<1>. HIDE DEF R
<1>3. CASE R.err # <<>>
  <2>1. list(fd, message, args, st) = Fail(message, R.err, st)
    BY <1>1, <1>2, <1>3
  <2>. QED  BY <1>1, <1>3, <2>1, RepliesAll
<1>4. CASE R.err = <<>> /\ R.remote = None
  <2>1. list(fd, message, args, st) = Answer(send_remote_list(message), st)
    BY <1>2, <1>4
  <2>2. Replies(fd, message, st, Answer(send_data(message, [i \in DOMAIN RemoteList |-> <<RemoteList[i]>>]), st))
    BY ListLines, RepliesData, Zenon
  <2>. QED  BY <2>1, <2>2, Zenon DEF send_remote_list
<1>5. CASE R.err = <<>> /\ R.remote # None /\ R.code = None
  <2>1. list(fd, message, args, st) = Answer(send_remote(message, R.remote), st)
    BY <1>2, <1>5
  <2>2. R.remote \in Range(RemoteList)
    BY <1>1, <1>5
  <2>3. ASSUME NEW r \in Range(RemoteList)
        PROVE  Replies(fd, message, st, Answer(send_data(message, [i \in DOMAIN CodesOf[r] |-> <<"code", CodesOf[r][i]>>]), st))
    BY ListLines, RepliesData, Zenon
  <2>. QED  BY <2>1, <2>2, <2>3, Zenon DEF send_remote
<1>6. CASE R.err = <<>> /\ R.remote # None /\ R.code # None
  <2>1. list(fd, message, args, st) = Answer(send_name(message, R.code), st)
    BY <1>2, <1>6
  <2>2. R.remote \in Range(RemoteList) /\ R.code \in Range(CodesOf[R.remote])
    BY <1>1, <1>6
  <2>3. << <<"code", R.code>> >> \in Seq(Line \ {<<>>}) /\ 1 \in Counts
    BY ONLY <2>2, ListLines, Zenon
  <2>4. Len(<< <<"code", R.code>> >>) = 1
    OBVIOUS
  <2>5. Replies(fd, message, st, Answer(send_data(message, << <<"code", R.code>> >>), st))
    BY <2>3, <2>4, RepliesData, Zenon
  <2>. QED  BY <2>1, <2>5, Zenon DEF send_name
<1>. QED  BY <1>3, <1>4, <1>5, <1>6

LEMMA SendReplies ==
    ASSUME NEW fd, NEW message, NEW args, NEW once \in BOOLEAN, NEW sent \in BOOLEAN, NEW st, StateOf(st)
    PROVE  Replies(fd, message, st, send_core(fd, message, args, once, sent, st))
<1>. DEFINE R == parse_rc(args, once, 2)
            left == IF once THEN R.reps ELSE RepeatMax
            repeating == [remote |-> R.remote, code |-> R.code, left |-> left, other |-> FALSE,
                          fd |-> IF once THEN fd ELSE st.repeat.fd,
                          message |-> IF once THEN message ELSE st.repeat.message]
            st2 == IF left > 0 THEN [st EXCEPT !.repeat = repeating] ELSE st
            busy == IF once THEN <<"busy:", "repeating">> ELSE <<"already", "repeating">>
            support == <<"hardware", "does", "not", "support", "sending">>
<1>1. send_core(fd, message, args, once, sent, st) =
        CASE ~SendMode -> Fail(message, support, st)
          [] SendMode /\ R.err # <<>> -> Fail(message, R.err, st)
          [] SendMode /\ R.err = <<>> /\ st.repeat.remote # None -> Fail(message, busy, st)
          [] SendMode /\ R.err = <<>> /\ st.repeat.remote = None /\ ~sent ->
               Fail(message, <<"transmission", "failed">>, st)
          [] OTHER -> IF once /\ left > 0 THEN Answer(<<>>, st2) ELSE Done(message, st2)
  BY Zenon DEF send_core
<1>2. CASE once /\ left > 0
  <2>1. st2.repeat.fd = fd /\ st2.repeat.message = message
    BY <1>2 DEF StateOf
  <2>2. <<>> \in Seq(Event)
    OBVIOUS
  <2>. HIDE DEF left, st2, R, busy, support
  <2>3. Replies(fd, message, st, Answer(<<>>, st2))
    BY <2>1, <2>2 DEF Replies, Answer
  <2>4. busy \in What /\ support \in What
    BY Texts DEF busy, support
  <2>7. <<"transmission", "failed">> \in What
    BY Texts
  <2>5. R.err \in What \cup {<<>>}
    BY ErrorIs DEF R
  <2>6. \A what \in What : Replies(fd, message, st, Fail(message, what, st))
    BY RepliesAll
  <2>. QED  BY ONLY <1>1, <1>2, <2>3, <2>4, <2>5, <2>6, <2>7
<1>3. CASE ~(once /\ left > 0)
  <2>1. st2.repeat.fd = st.repeat.fd /\ st2.repeat.message = st.repeat.message
    BY <1>3 DEF StateOf
  <2>. HIDE DEF left, st2, R, busy, support
  <2>3. Replies(fd, message, st, Done(message, st2))
    BY <2>1, RepliesAll
  <2>4. busy \in What /\ support \in What
    BY Texts DEF busy, support
  <2>7. <<"transmission", "failed">> \in What
    BY Texts
  <2>5. R.err \in What \cup {<<>>}
    BY ErrorIs DEF R
  <2>6. \A what \in What : Replies(fd, message, st, Fail(message, what, st))
    BY RepliesAll
  <2>. QED  BY ONLY <1>1, <1>3, <2>3, <2>4, <2>5, <2>6, <2>7
<1>. QED  BY <1>2, <1>3

LEMMA StopReplies ==
    ASSUME NEW fd, NEW message, NEW args, NEW st, StateOf(st)
    PROVE  Replies(fd, message, st, send_stop(fd, message, args, st))
<1>. DEFINE R == parse_rc(args, FALSE, 0)
            st2 == [st EXCEPT !.repeat.remote = None, !.repeat.code = None]
<1>1. st2.repeat.fd = st.repeat.fd /\ st2.repeat.message = st.repeat.message
  BY DEF StateOf
<1>2. Replies(fd, message, st, Done(message, st2))
  <2>. HIDE DEF st2
  <2>. QED  BY <1>1, RepliesAll
<1>3. R.err \in What \cup {<<>>}
  BY ErrorIs
<1>4. \A what \in What : Replies(fd, message, st, Fail(message, what, st))
  BY RepliesAll
<1>5. \/ send_stop(fd, message, args, st) = Done(message, st2)
      \/ \E what \in What : send_stop(fd, message, args, st) = Fail(message, what, st)
  <2>1. send_stop(fd, message, args, st) =
          CASE R.err # <<>> -> Fail(message, R.err, st)
            [] R.err = <<>> /\ st.repeat.remote = None -> Fail(message, <<"not", "repeating">>, st)
            [] R.err = <<>> /\ st.repeat.remote # None /\ R.remote \notin {None, st.repeat.remote} ->
                 Fail(message, <<"specified", "remote", "does", "not", "match">>, st)
            [] R.err = <<>> /\ st.repeat.remote # None /\ R.remote \in {None, st.repeat.remote}
                 /\ R.code \notin {None, st.repeat.code} ->
                 Fail(message, <<"specified", "code", "does", "not", "match">>, st)
            [] OTHER -> Done(message, st2)
    BY Zenon DEF send_stop
  <2>. HIDE DEF R, st2
  <2>. QED  BY ONLY <1>3, <2>1, Texts
<1>. QED  BY ONLY <1>2, <1>4, <1>5, Zenon

LEMMA TransmittersReplies ==
    ASSUME NEW fd, NEW message, NEW args, NEW st, StateOf(st)
    PROVE  Replies(fd, message, st, set_transmitters(fd, message, args, st))
<1>1. ASSUME NEW x PROVE Replies(fd, message, st, Done(message, [st EXCEPT !.tx = x]))
  <2>1. [st EXCEPT !.tx = x].repeat = st.repeat
    BY DEF StateOf
  <2>. QED  BY <2>1, RepliesAll
<1>2. \A what \in What : Replies(fd, message, st, Fail(message, what, st))
  BY RepliesAll
<1>. QED  BY <1>1, <1>2, Texts DEF set_transmitters

LEMMA SimulateReplies ==
    ASSUME NEW fd, NEW message, NEW args \in Seq(STRING), NEW st, StateOf(st)
    PROVE  Replies(fd, message, st, simulate(fd, message, args, st))
<1>1. Len(args) = 4 => args \in Event
  BY DEF Event, Line, Words, Fragment
<1>2. Replies(fd, message, st, Done(message, st))
  BY RepliesAll
<1>3. args \in Event => Replies(fd, message, st, [Done(message, st) EXCEPT !.cast = <<args>>])
  <2>. SUFFICES ASSUME args \in Event PROVE Replies(fd, message, st, [Done(message, st) EXCEPT !.cast = <<args>>])
    OBVIOUS
  <2>. DEFINE do == Done(message, st)
              do2 == [do EXCEPT !.cast = <<args>>]
  <2>1. do = [out |-> send_success(message), cast |-> <<>>, st |-> st]
    BY DEF Done, Answer
  <2>. HIDE DEF do
  <2>2. do2.out = send_success(message) /\ do2.cast = <<args>> /\ do2.st = st
    BY <2>1
  <2>. HIDE DEF do2
  <2>3. \A e \in Event : <<e>> \in Seq(Event)
    OBVIOUS
  <2>4. message \in Request => IsReply(message, send_success(message))
    BY SuccessReply
  <2>5. Replies(fd, message, st, do2)
    BY <2>2, <2>3, <2>4, Zenon DEF Replies
  <2>. QED  BY <2>5 DEF do2, do
<1>4. \A what \in What : Replies(fd, message, st, Fail(message, what, st))
  BY RepliesAll
<1>. QED  BY <1>1, <1>3, <1>4, Texts DEF simulate

LEMMA OptionReplies ==
    ASSUME NEW fd, NEW message, NEW args, NEW st, StateOf(st)
    PROVE  Replies(fd, message, st, drv_option(fd, message, args, st))
<1>1. Replies(fd, message, st, Done(message, [st EXCEPT !.options = @ \cup {args[1]}]))
  <2>1. [st EXCEPT !.options = @ \cup {args[1]}].repeat = st.repeat
    BY DEF StateOf
  <2>. QED  BY <2>1, RepliesAll
<1>2. \A what \in What : Replies(fd, message, st, Fail(message, what, st))
  BY RepliesAll
<1>. QED  BY <1>1, <1>2, Texts DEF drv_option

LEMMA InputlogReplies ==
    ASSUME NEW fd, NEW message, NEW args, NEW st, StateOf(st)
    PROVE  Replies(fd, message, st, set_inputlog(fd, message, args, st))
<1>1. ASSUME NEW x PROVE Replies(fd, message, st, Done(message, [st EXCEPT !.inputlog = x]))
  <2>1. [st EXCEPT !.inputlog = x].repeat = st.repeat
    BY DEF StateOf
  <2>. QED  BY <2>1, RepliesAll
<1>2. \A what \in What : Replies(fd, message, st, Fail(message, what, st))
  BY RepliesAll
<1>. QED  BY <1>1, <1>2, Texts DEF set_inputlog

LEMMA DirectiveReplies ==
    ASSUME NEW fd, NEW message \in Words, NEW sent \in BOOLEAN, NEW st, StateOf(st)
    PROVE  Replies(fd, message, st, Directive(fd, message, sent, st))
<1>. DEFINE args == Tail(message)
<1>1. CASE message = <<>>
  BY <1>1, RepliesAll, Texts DEF Directive
<1>2. CASE message # <<>>
  <2>1. args \in Seq(STRING)
    <3>1. CASE message \in Seq(STRING)
      BY <1>2, <3>1
    <3>2. CASE message = <<"fragment">>
      BY <3>2
    <3>. QED  BY <3>1, <3>2 DEF Words, Fragment
  <2>2. Replies(fd, message, st, simulate(fd, message, args, st))
    BY <2>1, SimulateReplies
  <2>3. /\ Replies(fd, message, st, send_once(fd, message, args, sent, st))
        /\ Replies(fd, message, st, send_start(fd, message, args, sent, st))
    BY SendReplies DEF send_once, send_start
  <2>4. Replies(fd, message, st, version(fd, message, args, st))
    <3>1. Len(<< <<"0.9.4">> >>) = 1
      OBVIOUS
    <3>2. << <<"0.9.4">> >> \in Seq(Line \ {<<>>}) /\ 1 \in Counts
      BY ListLines, Zenon
    <3>. QED  BY ONLY <3>1, <3>2, RepliesData, Zenon DEF version
  <2>5. /\ Replies(fd, message, st, list(fd, message, args, st)) /\ Replies(fd, message, st, send_stop(fd, message, args, st))
        /\ Replies(fd, message, st, set_transmitters(fd, message, args, st))
        /\ Replies(fd, message, st, drv_option(fd, message, args, st))
        /\ Replies(fd, message, st, set_inputlog(fd, message, args, st))
    BY ListReplies, StopReplies, TransmittersReplies, OptionReplies, InputlogReplies
  <2>6. Replies(fd, message, st, Fail(message, <<"unknown", "directive">>, st))
    BY RepliesAll, Texts
  <2>. HIDE DEF args
  <2>. QED  BY <1>2, <2>2, <2>3, <2>4, <2>5, <2>6 DEF Directive, args
<1>. QED  BY <1>1, <1>2

-----------------------------------------------------------------------------
(* A call over a step of lircd *)

(* The connection s after lines were written to it and it may have been    *)
(* closed: t. *)
Grew(s, t, lines) ==
    /\ t.down \in Seq(PieceOf(Line)) /\ (t.srv => s.srv) /\ t.cli = s.cli
    /\ \A b \in Seq(PieceOf(Line)) : Grows(b \o s.down, s.srv, b \o t.down, t.srv, lines)

LEMMA GrewWrites ==
    ASSUME NEW s, DOMAIN s = DOMAIN Closed, s.down \in Seq(PieceOf(Line)), NEW lines \in Seq(Line), scene.room \in Nat,
           NEW t, t.down = write_socket(s, lines).down, t.srv => write_socket(s, lines).srv, t.cli = s.cli
    PROVE  Grew(s, t, lines)
<1>. DEFINE w == write_socket(s, lines)
<1>1. PICK x \in 0..(3 * Len(lines)) : Wrote(s, lines, w, x)
  BY WriteIs
<1>2. t.down = w.down /\ (t.srv => w.srv) /\ Len(lines) \in Nat
  OBVIOUS
<1>. HIDE DEF w
<1>3. w.down \in Seq(PieceOf(Line)) /\ (w.srv => s.srv)
  BY <1>1 DEF Wrote
<1>4. ASSUME NEW b \in Seq(PieceOf(Line)) PROVE Grows(b \o s.down, s.srv, b \o w.down, t.srv, lines)
  BY <1>1, <1>2, WroteGrows
<1>. QED  BY <1>2, <1>3, <1>4 DEF Grew

LEMMA GrewCloses ==
    ASSUME NEW s, s.down \in Seq(PieceOf(Line)), NEW t, t.down = s.down, t.srv => s.srv, t.cli = s.cli
    PROVE  Grew(s, t, <<>>)
<1>1. ASSUME NEW b \in Seq(PieceOf(Line)) PROVE Grows(b \o s.down, s.srv, b \o t.down, t.srv, <<>>)
  <2>1. b \o s.down \in Seq(PieceOf(Line))
    OBVIOUS
  <2>2. Grows(b \o s.down, s.srv, b \o s.down, t.srv, <<>>)
    BY <2>1, ClosedGrows
  <2>. QED  BY <2>2
<1>. QED  BY <1>1 DEF Grew

(* What a broadcast does to a client that is not answered. *)
LEMMA GrewSent ==
    ASSUME Shape, NEW c \in Clients, sock[c].down \in Seq(PieceOf(Line)),
           NEW fd, NEW lines, c # fd \/ lines = <<>>, NEW cast \in Seq(Event), NEW B
    PROVE  Grew(sock[c], Sent(fd, lines, cast, B)[c], IF c \in B THEN cast ELSE <<>>)
<1>. DEFINE t == Sent(fd, lines, cast, B)[c]
<1>1. t = IF c \in B /\ cast # <<>> THEN write_socket(sock[c], cast) ELSE sock[c]
  BY DEF Sent
<1>2. DOMAIN sock[c] = DOMAIN Closed /\ scene.room \in Nat /\ cast \in Seq(Line)
  <2>1. cast \in Seq(Line)
    BY DEF Event
  <2>. QED  BY <2>1, RoomType DEF Shape, SockShape
<1>. HIDE DEF t
<1>3. CASE c \in B /\ cast # <<>>
  <2>1. t = write_socket(sock[c], cast)
    BY <1>1, <1>3
  <2>2. t.cli = sock[c].cli
    <3>1. \E x \in 0..(3 * Len(cast)) : Wrote(sock[c], cast, t, x)
      BY <1>2, <2>1, WriteIs
    <3>. QED  BY <3>1 DEF Wrote
  <2>3. Grew(sock[c], t, cast)
    BY <1>2, <2>1, <2>2, GrewWrites
  <2>. QED  BY <1>3, <2>3 DEF t
<1>4. CASE ~(c \in B /\ cast # <<>>)
  <2>1. t = sock[c] /\ (IF c \in B THEN cast ELSE <<>>) = <<>>
    BY <1>1, <1>4
  <2>2. Grew(sock[c], t, <<>>)
    BY <2>1, GrewCloses
  <2>. QED  BY <2>1, <2>2 DEF t
<1>. QED  BY <1>3, <1>4

(* The request is where it was, or gone. *)
Placed(c, q) ==
    /\ Nowhere(c) => Nowhere(c)'
    /\ Somewhere(c, q) => Nowhere(c)' \/ Somewhere(c, q)'

LEMMA EndedStays ==
    ASSUME NEW c, Calling(c), prog[c].pc = "exit", prog'[c] = prog[c]
    PROVE  Calling(c)'
  BY DEF Calling, Wait

(* A step that writes events to it, closes it or does not touch it. *)
LEMMA CallStays ==
    ASSUME NEW c \in Clients, Calling(c), scene' = scene, prog'[c] = prog[c],
           NEW lines \in Seq(Event), told'[c].events = told[c].events \o lines, told'[c].answers = told[c].answers,
           prog[c].pc # "exit" => Grew(sock[c], sock'[c], lines),
           prog[c].pc # "exit" => \A q : Placed(c, q)
    PROVE  Calling(c)'
<1>. DEFINE k == Len(prog[c].returned)
            E == PieceOf(Line)
            b == prog[c].ctx.buffer
            q == scene.script[c][k + 1]
            e2 == told[c].events \o lines
            r == told[c].answers[k + 1]
<1>1. CASE prog[c].pc = "exit"
  BY <1>1, EndedStays
<1>2. CASE prog[c].pc # "exit"
  <2>1. /\ prog[c].pc \in {"call", Wait} /\ prog[c].returned \in Seq({"ok", "EIO", "EPROTO"}) /\ Types(c)
        /\ prog[c].pc = "call" =>
             /\ Called(c, k) /\ Len(told[c].answers) = k /\ Nowhere(c)
             /\ EventsAhead(sock[c].down, sock[c].srv, told[c].events)
        /\ prog[c].pc = Wait =>
             /\ Called(c, k + 1)
             /\ \/ Asked(c, k) /\ (Nowhere(c) \/ Somewhere(c, q))
                \/ Told1(c, k) /\ Nowhere(c)
    BY <1>2 DEF Calling
  <2>2. Grew(sock[c], sock'[c], lines) /\ Placed(c, q)
    BY <1>2
  <2>3. /\ sock'[c].down \in Seq(E) /\ (sock'[c].srv => sock[c].srv) /\ sock'[c].cli = sock[c].cli
        /\ \A p \in Seq(E) : Grows(p \o sock[c].down, sock[c].srv, p \o sock'[c].down, sock'[c].srv, lines)
    BY <2>2 DEF Grew
  <2>4. /\ sock[c].srv => sock[c].cli
        /\ sock[c].down \in Seq(E) /\ b \in Seq(E)
        /\ told[c].events \in Seq(Line) /\ told[c].answers \in Seq({"ok", "EIO"}) /\ DOMAIN prog[c].ctx = Fields
    BY <2>1 DEF Types
  <2>. DEFINE s == Stream(c)
              s2 == b \o sock'[c].down
  <2>5. e2 \in Seq(Line)
    <3>1. lines \in Seq(Line)
      BY DEF Event
    <3>. QED  BY <2>4, <3>1
  <2>6. Types(c)'
    BY <2>3, <2>4, <2>5 DEF Types
  <2>7. s \in Seq(E) /\ s = b \o sock[c].down /\ Stream(c)' = s2
    BY <2>4 DEF Stream
  <2>8. Grows(s, sock[c].srv, s2, sock'[c].srv, lines)
    BY <2>3, <2>4 DEF Stream
  <2>. HIDE DEF s, s2
  <2>9. ASSUME prog[c].pc = "call" PROVE EventsAhead(sock'[c].down, sock'[c].srv, e2)
    <3>. DEFINE d == sock[c].down
                d2 == sock'[c].down
    <3>1. <<>> \in Seq(E) /\ d \in Seq(E) /\ d2 \in Seq(E)
      BY <2>3, <2>4
    <3>2. Grows(<<>> \o d, sock[c].srv, <<>> \o d2, sock'[c].srv, lines)
      BY <2>3, <3>1
    <3>3. EventsAhead(d, sock[c].srv, told[c].events)
      BY <2>1, <2>9
    <3>. HIDE DEF d, d2
    <3>4. \A p \in Seq(E) : <<>> \o p = p
      OBVIOUS
    <3>5. <<>> \o d = d /\ <<>> \o d2 = d2
      BY ONLY <3>1, <3>4, Zenon
    <3>6. Grows(d, sock[c].srv, d2, sock'[c].srv, lines)
      BY ONLY <3>2, <3>5, Zenon
    <3>7. EventsAhead(d2, sock'[c].srv, e2)
      BY <2>4, <3>1, <3>3, <3>6, EventsGrow
    <3>. QED  BY <3>7 DEF d2
  <2>10. ASSUME Asked(c, k) PROVE Asked(c, k)'
    <3>1. InLoop(prog[c].ctx, q) /\ prog[c].ctx.state = "P_BEGIN" /\ prog[c].ctx.status = "ok"
      BY <2>10 DEF Asked, Calm
    <3>2. EventsAhead(s, sock[c].srv, told[c].events) /\ Len(told[c].answers) = k
      BY <2>10 DEF Asked, Calm, s
    <3>3. EventsAhead(s2, sock'[c].srv, e2)
      BY <2>4, <2>7, <2>8, <3>2, EventsGrow
    <3>4. Calm(prog[c].ctx, q, s2, sock'[c].srv, e2)
      BY <3>1, <3>3 DEF Calm
    <3>. QED  BY <2>7, <3>2, <3>4 DEF Asked
  <2>11. ASSUME Told1(c, k) PROVE Told1(c, k)'
    <3>1. Len(told[c].answers) = k + 1 /\ r \in {"ok", "EIO"}
      BY <2>11 DEF Told1
    <3>2. OnTheWay(prog[c].ctx, q, s, sock[c].srv, told[c].events, r)
      BY <2>11 DEF Told1, s
    <3>3. OnTheWay(prog[c].ctx, q, s2, sock'[c].srv, e2, r)
      BY <2>4, <2>7, <2>8, <3>2, WayGrows
    <3>. QED  BY <2>7, <3>1, <3>3 DEF Told1
  <2>12. Called(c, k)' = Called(c, k) /\ Called(c, k + 1)' = Called(c, k + 1)
    BY DEF Called
  <2>13. /\ Nowhere(c) => Nowhere(c)'
         /\ Nowhere(c) \/ Somewhere(c, q) => Nowhere(c)' \/ Somewhere(c, q)'
    BY <2>2 DEF Placed
  <2>14. prog'[c].pc = "call" =>
           /\ Called(c, k)' /\ Len(told'[c].answers) = k /\ Nowhere(c)'
           /\ EventsAhead(sock'[c].down, sock'[c].srv, e2)
    BY <2>1, <2>9, <2>12, <2>13
  <2>15. prog'[c].pc = Wait =>
           /\ Called(c, k + 1)'
           /\ \/ Asked(c, k)' /\ (Nowhere(c)' \/ Somewhere(c, q)')
              \/ Told1(c, k)' /\ Nowhere(c)'
    BY <2>1, <2>10, <2>11, <2>12, <2>13
  <2>. HIDE DEF b, e2, r
  <2>16. e2 = told'[c].events
    BY DEF e2
  <2>. QED  BY <1>2, <2>1, <2>6, <2>14, <2>15, <2>16 DEF Calling
<1>. QED  BY <1>1, <1>2

(* lircd answers it. *)
LEMMA CallAnswered ==
    ASSUME NEW c \in Clients, Calling(c), prog[c].pc = Wait, Asked(c, Len(prog[c].returned)),
           scene' = scene, prog'[c] = prog[c], told'[c].events \in Seq(Line),
           NEW r \in {"ok", "EIO"}, told'[c].answers = Append(told[c].answers, r),
           sock'[c].down \in Seq(PieceOf(Line)), sock'[c].srv => sock'[c].cli, Nowhere(c)',
           OnTheWay(prog[c].ctx, scene.script[c][Len(prog[c].returned) + 1], prog[c].ctx.buffer \o sock'[c].down,
                    sock'[c].srv, told'[c].events, r)
    PROVE  Calling(c)'
<1>. DEFINE k == Len(prog[c].returned)
            A == told[c].answers
<1>1. /\ prog[c].returned \in Seq({"ok", "EIO", "EPROTO"}) /\ Types(c) /\ Called(c, k + 1)
  BY DEF Calling, Wait
<1>2. Len(A) = k /\ A \in Seq({"ok", "EIO"})
  BY <1>1 DEF Asked, Types
<1>3. Append(A, r) \in Seq({"ok", "EIO"}) /\ Len(Append(A, r)) = k + 1 /\ Append(A, r)[k + 1] = r
  BY <1>2
<1>. HIDE DEF A
<1>4. told'[c].answers = Append(A, r)
  BY DEF A
<1>5. Types(c)'
  BY <1>1, <1>3, <1>4 DEF Types
<1>6. Called(c, k + 1)'
  BY <1>1 DEF Called
<1>7. Told1(c, k)'
  BY <1>3, <1>4 DEF Told1, Stream
<1>. QED  BY <1>1, <1>5, <1>6, <1>7 DEF Calling, Wait

(* A request is one read. *)
LEMMA PiecesRead ==
    ASSUME NEW q, NEW packet \in Nat, packet >= 3
    PROVE  /\ Reading(Pieces(q), packet).buffer = Pieces(q) /\ Reading(Pieces(q), packet).stream = <<>>
           /\ Pieces(q) # <<>> /\ ~BadPacket(Pieces(q)) /\ Text(Pieces(q)) = q
           /\ NextPacket(Pieces(q), <<>>, packet) = [buffer |-> <<>>, stream |-> <<>>, ok |-> TRUE]
<1>. DEFINE p == Pieces(q)
            E == PieceOf({q})
<1>1. /\ p \in Seq(E) /\ Len(p) = 3 /\ p[1].part = 1 /\ p[2].part = 2 /\ p[3].part = 3 /\ p[1].line = q
      /\ p # <<>>
  BY DEF Pieces, Piece, PieceOf
<1>. HIDE DEF p
<1>2. Newline(p) = 3
  <2>1. /\ Newline(p) \in 0..3
        /\ Newline(p) = 0 => \A i \in 1..3 : p[i].part # 3
        /\ Newline(p) # 0 => p[Newline(p)].part = 3
    BY <1>1, NewlineAt
  <2>2. Newline(p) = 0 \/ Newline(p) = 1 \/ Newline(p) = 2 \/ Newline(p) = 3
    BY ONLY <2>1
  <2>. QED  BY <1>1, <2>1, <2>2
<1>. HIDE DEF E
<1>3. First(p, 3) = p /\ From(p, 3 + 1) = <<>>
  <2>1. From(p, 3 + 1) \in Seq(E) /\ Len(From(p, 3 + 1)) = 0
    <3>1. p \in Seq(E) /\ 3 + 1 \in 1..(Len(p) + 1) /\ Len(p) + 1 - (3 + 1) = 0
      BY <1>1
    <3>2. From(p, 3 + 1) \in Seq(E) /\ Len(From(p, 3 + 1)) = Len(p) + 1 - (3 + 1)
      BY ONLY <3>1, FromType, Zenon
    <3>. QED  BY ONLY <3>1, <3>2, Zenon
  <2>2. \A s \in Seq(E) : Len(s) = 0 => s = <<>>
    OBVIOUS
  <2>3. First(p, 3) = p
    BY <1>1, SubSeqFull DEF First
  <2>. QED  BY ONLY <2>1, <2>2, <2>3, Zenon
<1>4. Available(p, packet) = p
  <2>1. (IF Len(p) < packet THEN Len(p) ELSE packet) = 3
    BY <1>1
  <2>. QED  BY ONLY <1>3, <2>1, Zenon DEF Available
<1>5. Reading(p, packet) = [buffer |-> p, stream |-> <<>>]
  BY ONLY <1>1, <1>3, <1>4, Zenon DEF Reading
<1>6. ~BadPacket(p)
  BY <1>2 DEF BadPacket
<1>7. Text(p) = q
  <2>. DEFINE s == First(p, 2)
  <2>1. Text(p) = CASE s = <<>> -> <<>>
                    [] Len(s) = 2 /\ s[1].part = 1 /\ s[2].part = 2 -> s[1].line
                    [] OTHER -> Fragment
    <3>. DEFINE u == IF Newline(p) = 0 THEN p ELSE First(p, Newline(p) - 1)
    <3>1. u = s
      <4>1. 3 - 1 = 2 /\ 3 # 0
        OBVIOUS
      <4>. QED  BY ONLY <1>2, <4>1, Zenon
    <3>2. Text(p) = CASE u = <<>> -> <<>>
                      [] Len(u) = 2 /\ u[1].part = 1 /\ u[2].part = 2 -> u[1].line
                      [] OTHER -> Fragment
      BY Zenon DEF Text
    <3>. HIDE DEF u, s
    <3>. QED  BY ONLY <3>1, <3>2
  <2>2. s \in Seq(E) /\ Len(s) = 2 /\ s[1] = p[1] /\ s[2] = p[2]
    <3>1. p \in Seq(E) /\ 2 \in Int /\ 2 <= Len(p) /\ ~(2 < 0) /\ 1 \in 1..2 /\ 2 \in 1..2
      BY <1>1
    <3>2. s \in Seq(E) /\ Len(s) = (IF 2 < 0 THEN 0 ELSE 2) /\ \A i \in 1..2 : s[i] = p[i]
      BY ONLY <3>1, FirstType, Zenon
    <3>. HIDE DEF s
    <3>. QED  BY ONLY <3>1, <3>2, Zenon
  <2>3. s # <<>>
    BY <2>2
  <2>. HIDE DEF s
  <2>. QED  BY ONLY <1>1, <2>1, <2>2, <2>3
<1>8. NextPacket(p, <<>>, packet) = [buffer |-> <<>>, stream |-> <<>>, ok |-> TRUE]
  <2>. DEFINE rest == From(p, Newline(p) + 1)
              new == Available(<<>>, packet - Len(rest))
  <2>1. NextPacket(p, <<>>, packet) =
          CASE rest = <<>> -> [buffer |-> <<>>, stream |-> <<>>, ok |-> TRUE]
            [] rest # <<>> /\ Newline(rest) > 0 -> [buffer |-> rest, stream |-> <<>>, ok |-> TRUE]
            [] rest # <<>> /\ Newline(rest) = 0 /\ new # <<>> ->
                 [buffer |-> rest \o new, stream |-> From(<<>>, Len(new) + 1), ok |-> TRUE]
            [] OTHER -> [buffer |-> <<>>, stream |-> <<>>, ok |-> FALSE]
    BY Zenon DEF NextPacket
  <2>2. rest = <<>>
    BY ONLY <1>2, <1>3, Zenon
  <2>. HIDE DEF rest, new
  <2>. QED  BY ONLY <2>1, <2>2
<1>. QED  BY <1>1, <1>5, <1>6, <1>7, <1>8 DEF p

LEMMA IrsendScene ==
    ASSUME Shape, NEW c \in Clients, Kind(c) = "irsend"
    PROVE  /\ scene.script[c] \in Seq(Request) /\ scene.packet \in Nat /\ scene.packet >= 3
           /\ scene.room \in Nat /\ scene.room >= 21 /\ scene.hups = 0
<1>1. scene \in Scenes /\ scene.kind[c] = "irsend"
  BY DEF Shape, Kind
<1>. QED  BY <1>1, CallsAssumption, RoomType

-----------------------------------------------------------------------------
(* The steps of lircd *)

LEMMA ReadsCalls ==
    ASSUME CallsInv, NEW fd \in Clients, LircdReads(fd), NEW c \in Clients, Kind(c) = "irsend"
    PROVE  Calling(c)'
<1>. DEFINE r == Reading(sock[fd].up, scene.packet)
            socks == [sock EXCEPT ![fd].srv = FALSE, ![fd].up = r.stream]
            socks2 == [sock EXCEPT ![fd].up = r.stream]
            cmd == [fd |-> fd, slot |-> Min(Slots), buffer |-> r.buffer]
            closes == r.buffer = <<>> \/ BadPacket(r.buffer)
<1>1. Shape /\ Calling(c) /\ told[c].events \in Seq(Line)
  BY DEF CallsInv, HeardInv, EventShape
<1>2. /\ daemon.up /\ daemon.cmd.fd = None /\ sock[fd].srv
      /\ sock[fd].up # <<>> \/ ~sock[fd].cli
      /\ scene' = scene /\ prog' = prog /\ told' = told
  BY DEF LircdReads, Serving, Readable, Served
<1>3. \E marks :
         \/ closes /\ sock' = socks /\ daemon' = [daemon EXCEPT !.clis = Kept(socks), !.marks = marks]
         \/ ~closes /\ sock' = socks2 /\ daemon' = [daemon EXCEPT !.cmd = cmd, !.marks = marks]
  <2>. HIDE DEF r
  <2>. QED  BY Zenon DEF LircdReads, r
<1>4. fd # None /\ c # None
  BY NetworkAssumption
<1>5. told'[c].events = told[c].events \o <<>> /\ told'[c].answers = told[c].answers /\ <<>> \in Seq(Event)
  BY <1>1, <1>2
<1>. HIDE DEF closes, r, cmd
<1>6. \/ closes /\ daemon'.cmd = daemon.cmd /\ daemon'.st = daemon.st
      \/ ~closes /\ daemon'.cmd = cmd /\ daemon'.st = daemon.st
  BY <1>1, <1>3 DEF Shape, DaemonShape
<1>7. CASE c # fd
  <2>1. sock'[c] = sock[c]
    BY <1>1, <1>3, <1>7 DEF Shape, SockShape
  <2>2. daemon'.cmd.fd # c /\ daemon'.st = daemon.st
    BY <1>2, <1>4, <1>6, <1>7 DEF cmd
  <2>3. ASSUME prog[c].pc # "exit" PROVE Grew(sock[c], sock'[c], <<>>)
    <3>1. sock[c].down \in Seq(PieceOf(Line))
      BY <1>1, <2>3 DEF Calling, Types
    <3>. QED  BY <2>1, <3>1, GrewCloses
  <2>4. ASSUME NEW q PROVE Placed(c, q)
    BY <1>2, <1>4, <2>1, <2>2 DEF Placed, Nowhere, Somewhere
  <2>. QED  BY ONLY <1>1, <1>2, <1>5, <2>3, <2>4, CallStays
<1>8. CASE c = fd
  <2>1. DOMAIN sock = Clients /\ DOMAIN sock[c] = {"up", "down", "srv", "cli"}
    BY <1>1, Domains DEF Shape, SockShape
  <2>2. /\ sock'[c].down = sock[c].down /\ sock'[c].cli = sock[c].cli /\ sock'[c].up = r.stream
        /\ closes => sock'[c].srv = FALSE
        /\ ~closes => sock'[c].srv = sock[c].srv
    BY <1>3, <1>8, <2>1
  <2>23. cmd.fd = fd /\ cmd.buffer = r.buffer
    BY DEF cmd
  <2>3. ASSUME prog[c].pc # "exit" PROVE Grew(sock[c], sock'[c], <<>>)
    <3>1. sock[c].down \in Seq(PieceOf(Line))
      BY <1>1, <2>3 DEF Calling, Types
    <3>. QED  BY <2>2, <3>1, GrewCloses
  <2>4. ASSUME prog[c].pc # "exit", NEW q PROVE Placed(c, q)
    <3>1. sock[c].cli
      BY <1>1, <1>2, <1>8, <2>4 DEF Calling, Types
    <3>2. Nowhere(c) => Nowhere(c)'
      BY <1>2, <1>8, <3>1 DEF Nowhere
    <3>3. ASSUME Somewhere(c, q) PROVE Somewhere(c, q)'
      <4>1. sock[c].up = Pieces(q)
        BY <1>2, <1>8, <3>1, <3>3 DEF Somewhere
      <4>2. r.buffer = Pieces(q) /\ r.stream = <<>> /\ r.buffer # <<>> /\ ~BadPacket(r.buffer)
        <5>1. scene.packet \in Nat /\ scene.packet >= 3
          BY <1>1, IrsendScene
        <5>. QED  BY <1>8, <4>1, <5>1, PiecesRead DEF r
      <4>3. ~closes
        BY <4>2 DEF closes
      <4>. QED  BY <1>2, <1>6, <1>8, <2>2, <2>23, <4>1, <4>2, <4>3, <3>3 DEF Somewhere
    <3>. QED  BY <3>2, <3>3 DEF Placed
  <2>. QED  BY ONLY <1>1, <1>2, <1>5, <2>3, <2>4, CallStays
<1>. QED  BY <1>7, <1>8

(* What told says after Told(fd, lines, cast, B). *)
ToldBy(t, c, fd, lines, cast, B) ==
    /\ t[c].events = told[c].events \o (IF c \in B THEN cast ELSE <<>>)
    /\ t[c].answers = told[c].answers \o (IF c = fd /\ lines # <<>> THEN <<Result(lines)>> ELSE <<>>)

LEMMA ToldIs ==
    ASSUME NEW c \in Clients, NEW fd, NEW lines, NEW cast, NEW B
    PROVE  ToldBy(Told(fd, lines, cast, B), c, fd, lines, cast, B)
<1>. DEFINE e == told[c].events \o (IF c \in B THEN cast ELSE <<>>)
            a == told[c].answers \o (IF c = fd /\ lines # <<>> THEN <<Result(lines)>> ELSE <<>>)
<1>1. Told(fd, lines, cast, B)[c] = [events |-> e, answers |-> a, lines |-> told[c].lines, presses |-> told[c].presses]
  BY DEF Told
<1>. HIDE DEF e, a
<1>2. Told(fd, lines, cast, B)[c].events = e /\ Told(fd, lines, cast, B)[c].answers = a
  BY <1>1
<1>. QED  BY <1>2 DEF e, a, ToldBy

LEMMA DiesCalls ==
    ASSUME CallsInv, LircdDies, NEW c \in Clients, Kind(c) = "irsend"
    PROVE  Calling(c)'
<1>1. Shape /\ Calling(c) /\ told[c].events \in Seq(Line)
  BY DEF CallsInv, HeardInv, EventShape
<1>2. /\ scene' = scene /\ prog' = prog /\ told' = told
      /\ daemon' = [daemon EXCEPT !.up = FALSE, !.clis = <<>>]
      /\ sock' = [e \in Clients |-> [sock[e] EXCEPT !.srv = FALSE, !.up = <<>>]]
  BY DEF LircdDies
<1>3. daemon'.cmd = daemon.cmd /\ daemon'.st = daemon.st
  BY <1>1, <1>2 DEF Shape, DaemonShape
<1>4. sock'[c].down = sock[c].down /\ sock'[c].cli = sock[c].cli /\ sock'[c].srv = FALSE /\ sock'[c].up = <<>>
  BY <1>1, <1>2, Domains DEF Shape, SockShape
<1>5. told'[c].events = told[c].events \o <<>> /\ told'[c].answers = told[c].answers /\ <<>> \in Seq(Event)
  <2>1. told' = told /\ told[c].events \in Seq(Line)
    BY <1>1, <1>2
  <2>. QED  BY ONLY <2>1
<1>6. ASSUME prog[c].pc # "exit" PROVE Grew(sock[c], sock'[c], <<>>)
  <2>1. sock[c].down \in Seq(PieceOf(Line))
    BY <1>1, <1>6 DEF Calling, Types
  <2>. QED  BY <1>4, <2>1, GrewCloses
<1>7. ASSUME NEW q PROVE Placed(c, q)
  BY <1>3, <1>4 DEF Placed, Nowhere, Somewhere
<1>. QED  BY ONLY <1>1, <1>2, <1>5, <1>6, <1>7, CallStays

(* A broadcast. *)
LEMMA BroadcastCalls ==
    ASSUME CallsInv, NEW events \in Seq(Event), NEW B, scene' = scene, prog' = prog,
           sock' = Sent(None, <<>>, events, B), told' = Told(None, <<>>, events, B),
           daemon'.cmd = daemon.cmd, daemon'.st.repeat.fd = daemon.st.repeat.fd,
           daemon'.st.repeat.message = daemon.st.repeat.message
    PROVE  /\ \A c \in Clients : Kind(c) = "irsend" => Calling(c)'
           /\ \A c \in Clients : told'[c].events \in Seq(Line)
<1>. SUFFICES ASSUME NEW c \in Clients
     PROVE (Kind(c) = "irsend" => Calling(c)') /\ told'[c].events \in Seq(Line)
  OBVIOUS
<1>. DEFINE lines == IF c \in B THEN events ELSE <<>>
<1>1. Shape /\ told[c].events \in Seq(Line)
  BY DEF CallsInv, HeardInv, EventShape
<1>2. told'[c].events = told[c].events \o lines /\ told'[c].answers = told[c].answers \o <<>>
  <2>1. ToldBy(Told(None, <<>>, events, B), c, None, <<>>, events, B)
    BY ONLY ToldIs, c \in Clients, Zenon
  <2>2. ToldBy(told', c, None, <<>>, events, B)
    BY ONLY told' = Told(None, <<>>, events, B), <2>1, Zenon
  <2>. QED  BY ONLY <2>2 DEF ToldBy
<1>3. lines \in Seq(Event)
  OBVIOUS
<1>4. told'[c].events \in Seq(Line)
  <2>1. lines \in Seq(Line)
    BY <1>3 DEF Event
  <2>. QED  BY ONLY <1>1, <1>2, <2>1
<1>5. sock'[c].up = sock[c].up
  BY <1>1, SentKeeps
<1>6. ASSUME Kind(c) = "irsend" PROVE Calling(c)'
  <2>1. Calling(c)
    BY <1>6 DEF CallsInv
  <2>2. ASSUME prog[c].pc # "exit" PROVE Grew(sock[c], sock'[c], lines) /\ told'[c].answers = told[c].answers
    <3>1. sock[c].down \in Seq(PieceOf(Line)) /\ told[c].answers \in Seq({"ok", "EIO"})
      BY <2>1, <2>2 DEF Calling, Types
    <3>2. Grew(sock[c], Sent(None, <<>>, events, B)[c], lines)
      BY <1>1, <3>1, GrewSent
    <3>. QED  BY <1>2, <3>1, <3>2
  <2>3. ASSUME NEW q PROVE Placed(c, q)
    BY <1>5 DEF Placed, Nowhere, Somewhere
  <2>. HIDE DEF lines
  <2>4. CASE prog[c].pc = "exit"
    BY <2>1, <2>4, EndedStays
  <2>5. CASE prog[c].pc # "exit"
    BY ONLY scene' = scene, prog' = prog, <1>2, <1>3, <2>1, <2>2, <2>3, <2>5, CallStays
  <2>. QED  BY <2>4, <2>5
<1>. QED  BY <1>4, <1>6
LEMMA ReceivesCalls ==
    ASSUME CallsInv, LircdReceives
    PROVE  (\A c \in Clients : Kind(c) = "irsend" => Calling(c)') /\ EventShape'
<1>. DEFINE event == <<Head(daemon.left)>>
            B == Range(daemon.clis)
            socks == Sent(None, <<>>, event, B)
            st2 == decoded(Head(daemon.left), daemon.st)
<1>1. Shape /\ daemon.left \in Seq(Event) /\ EventShape
  BY DEF CallsInv, HeardInv, EventShape
<1>2. /\ scene' = scene /\ prog' = prog /\ peer' = peer /\ daemon.left # <<>>
      /\ sock' = socks /\ daemon' = [daemon EXCEPT !.left = Tail(@), !.clis = Kept(socks), !.st = st2]
      /\ told' = Told(None, <<>>, event, B)
  BY DEF LircdReceives
<1>3. event \in Seq(Event)
  BY <1>1, <1>2
<1>34. st2.repeat.fd = daemon.st.repeat.fd /\ st2.repeat.message = daemon.st.repeat.message
  <2>1. StateOf(daemon.st)
    BY <1>1, Domains DEF Shape, DaemonShape, StateOf
  <2>. QED  BY <2>1 DEF decoded, StateOf
<1>. HIDE DEF event, B, st2
<1>4. sock' = Sent(None, <<>>, event, B)
  BY <1>2
<1>. HIDE DEF socks
<1>5. /\ daemon'.cmd = daemon.cmd /\ daemon'.st = st2
      /\ daemon'.left = Tail(daemon.left) /\ daemon'.hups = daemon.hups
  BY <1>1, <1>2 DEF Shape, DaemonShape
<1>6. /\ \A c \in Clients : Kind(c) = "irsend" => Calling(c)'
      /\ \A c \in Clients : told'[c].events \in Seq(Line)
  <2>1. daemon'.st.repeat.fd = daemon.st.repeat.fd /\ daemon'.st.repeat.message = daemon.st.repeat.message
    BY ONLY <1>34, <1>5
  <2>. QED  BY ONLY CallsInv, <1>2, <1>3, <1>4, <1>5, <2>1, BroadcastCalls
<1>7. daemon'.left \in Seq(Event)
  BY <1>1, <1>2, <1>5
<1>. QED  BY <1>1, <1>2, <1>5, <1>6, <1>7 DEF EventShape, Kind

LEMMA PeerReadsCalls ==
    ASSUME CallsInv, PeerReads
    PROVE  (\A c \in Clients : Kind(c) = "irsend" => Calling(c)') /\ EventShape'
<1>1. Shape /\ EventShape
  BY DEF CallsInv, HeardInv
<1>2. scene' = scene /\ prog' = prog
  BY DEF PeerReads
<1>3. PICK chunk \in PeerChunks :
        LET m == get_peer_message(chunk)
            socks == Sent(None, <<>>, m.lines, Local)
            last == IF peer.stream # <<>> THEN chunk ELSE peer.last
        IN IF m.ok
           THEN /\ sock' = socks
                /\ told' = Told(None, <<>>, m.lines, Local)
                /\ daemon' = [daemon EXCEPT !.clis = Kept(socks)]
                /\ peer' = IF peer.stream # <<>> THEN [peer EXCEPT !.stream = From(@, Len(chunk) + 1), !.last = last]
                           ELSE [peer EXCEPT !.end = "EOF"]
           ELSE /\ peer' = [peer EXCEPT !.socket = "down", !.failure = 1, !.wait = 1, !.stream = <<>>,
                                        !.end = None, !.last = last]
                /\ UNCHANGED <<sock, told, daemon>>
  BY DEF PeerReads
<1>. DEFINE m == get_peer_message(chunk)
            socks == Sent(None, <<>>, m.lines, Local)
            last == IF peer.stream # <<>> THEN chunk ELSE peer.last
            E == PieceOf(Event)
<1>4. /\ peer.stream \in Seq(E) /\ peer.last \in Seq(E) /\ peer.left \in Seq(Event) /\ <<>> \in Seq(E)
      /\ DOMAIN peer = {"socket", "failure", "wait", "stream", "left", "end", "last", "breaks"}
  BY <1>1 DEF Shape, PeerShape, EventShape
<1>5. /\ chunk \in Seq(E) /\ last \in Seq(E)
      /\ peer.stream # <<>> => From(peer.stream, Len(chunk) + 1) \in Seq(E)
  <2>. HIDE DEF E
  <2>1. CASE peer.stream # <<>>
    <3>1. PICK n \in 1..Len(peer.stream) : chunk = First(peer.stream, n)
      BY <2>1 DEF PeerChunks
    <3>2. n \in Int /\ n <= Len(peer.stream) /\ ~(n < 0) /\ n + 1 \in 1..(Len(peer.stream) + 1)
      BY <1>4
    <3>3. chunk \in Seq(E) /\ Len(chunk) = n
      BY <1>4, <3>1, <3>2, FirstType
    <3>4. From(peer.stream, n + 1) \in Seq(E)
      BY <1>4, <3>2, FromType
    <3>. QED  BY <2>1, <3>3, <3>4
  <2>2. CASE peer.stream = <<>>
    <3>1. chunk \in {<<>>, peer.last}
      BY <2>2 DEF PeerChunks
    <3>. QED  BY <1>4, <2>2, <3>1
  <2>. QED  BY <2>1, <2>2
<1>6. m.ok => m.lines \in Seq(Event)
  <2>1. m.ok => IsNewline(Last(chunk)) /\ m.lines = LinesOf(chunk)
    BY DEF get_peer_message
  <2>. QED  BY <1>5, <2>1, PeerLines
<1>7. CASE m.ok
  <2>1. /\ sock' = Sent(None, <<>>, m.lines, Local) /\ told' = Told(None, <<>>, m.lines, Local)
        /\ daemon' = [daemon EXCEPT !.clis = Kept(socks)]
        /\ peer' = IF peer.stream # <<>> THEN [peer EXCEPT !.stream = From(@, Len(chunk) + 1), !.last = last]
                   ELSE [peer EXCEPT !.end = "EOF"]
    BY <1>3, <1>7, Zenon
  <2>. HIDE DEF m, socks, last
  <2>2. /\ daemon'.cmd = daemon.cmd /\ daemon'.st = daemon.st
        /\ daemon'.left = daemon.left /\ daemon'.hups = daemon.hups
    BY <1>1, <2>1 DEF Shape, DaemonShape
  <2>. DEFINE lines == m.lines
  <2>3. lines \in Seq(Event) /\ sock' = Sent(None, <<>>, lines, Local) /\ told' = Told(None, <<>>, lines, Local)
    BY <1>6, <1>7, <2>1
  <2>. HIDE DEF lines
  <2>4. /\ \A c \in Clients : Kind(c) = "irsend" => Calling(c)'
        /\ \A c \in Clients : told'[c].events \in Seq(Line)
    BY ONLY CallsInv, <1>2, <2>2, <2>3, BroadcastCalls
  <2>5. peer'.stream \in Seq(PieceOf(Event)) /\ peer'.last \in Seq(PieceOf(Event)) /\ peer'.left = peer.left
    BY <1>4, <1>5, <2>1 DEF E
  <2>. QED  BY <1>1, <1>2, <2>2, <2>4, <2>5 DEF EventShape, Kind
<1>8. CASE ~m.ok
  <2>1. /\ peer' = [peer EXCEPT !.socket = "down", !.failure = 1, !.wait = 1, !.stream = <<>>,
                                !.end = None, !.last = last]
        /\ UNCHANGED <<sock, told, daemon>>
    BY <1>3, <1>8, Zenon
  <2>. HIDE DEF m, last
  <2>2. peer'.stream \in Seq(PieceOf(Event)) /\ peer'.last \in Seq(PieceOf(Event)) /\ peer'.left = peer.left
    BY <1>4, <1>5, <2>1
  <2>3. EventShape'
    BY <1>1, <1>2, <2>1, <2>2 DEF EventShape, Kind
  <2>4. ASSUME NEW c \in Clients, Kind(c) = "irsend" PROVE Calling(c)'
    <3>1. Calling(c)
      BY <2>4 DEF CallsInv
    <3>2. Calling(c)' = Calling(c)
      BY <1>2, <2>1 DEF Calling, Types, Called, Nowhere, Somewhere, Asked, Told1, Stream
    <3>. QED  BY <3>1, <3>2
  <2>. QED  BY <2>3, <2>4
<1>. QED  BY <1>7, <1>8

LEMMA HupPackage == << <<"BEGIN">>, <<"SIGHUP">>, <<"END">> >> \in Seq(Line)
<1>1. <<"BEGIN">> \in Line /\ <<"SIGHUP">> \in Line /\ <<"END">> \in Line
  BY AnswerLine DEF AnswerWords
<1>. QED  BY <1>1

(* No SIGHUP comes where irsend runs. *)
LEMMA HupsCalls ==
    ASSUME CallsInv, LircdHups
    PROVE  (\A c \in Clients : Kind(c) = "irsend" => Calling(c)') /\ EventShape'
<1>. DEFINE package == << <<"BEGIN">>, <<"SIGHUP">>, <<"END">> >>
            B == Range(daemon.clis)
<1>1. Shape /\ EventShape
  BY DEF CallsInv, HeardInv
<1>2. /\ scene' = scene /\ daemon.hups > 0
      /\ peer' = peer \/ peer' = [peer EXCEPT !.wait = 0, !.failure = 0]
      /\ told' = Told(None, <<>>, package, B)
      /\ \E clis : daemon' = [daemon EXCEPT !.hups = @ - 1, !.clis = clis]
  BY DEF LircdHups
<1>3. \A c \in Clients : Kind(c) # "irsend"
  BY <1>1, <1>2 DEF EventShape
<1>4. package \in Seq(Line)
  BY HupPackage
<1>. HIDE DEF package, B
<1>5. ASSUME NEW c \in Clients PROVE told'[c].events \in Seq(Line)
  <2>1. ToldBy(Told(None, <<>>, package, B), c, None, <<>>, package, B)
    BY ONLY ToldIs, c \in Clients, Zenon
  <2>2. told'[c].events = told[c].events \o (IF c \in B THEN package ELSE <<>>)
    BY ONLY <1>2, <2>1 DEF ToldBy
  <2>3. told[c].events \in Seq(Line) /\ (IF c \in B THEN package ELSE <<>>) \in Seq(Line)
    BY <1>1, <1>4 DEF EventShape
  <2>. QED  BY ONLY <2>2, <2>3
<1>6. daemon'.left = daemon.left
  BY <1>1, <1>2 DEF Shape, DaemonShape
<1>7. peer'.left = peer.left /\ peer'.stream = peer.stream /\ peer'.last = peer.last
  BY <1>1, <1>2 DEF Shape, PeerShape
<1>8. EventShape'
  BY <1>1, <1>2, <1>3, <1>5, <1>6, <1>7 DEF EventShape, Kind
<1>. QED  BY <1>3, <1>8

-----------------------------------------------------------------------------
(* The steps of the other lircd, of lircrcd and of the programs *)

(* poll() changes only what is still to be looked at. *)
SameDaemon ==
    daemon'.st = daemon.st /\ daemon'.cmd = daemon.cmd /\ daemon'.left = daemon.left /\ daemon'.hups = daemon.hups

LEMMA SameCalls ==
    ASSUME CallsInv, UNCHANGED <<scene, sock, prog>>, SameDaemon, ToldSame,
           peer'.left \in Seq(Event), peer'.stream \in Seq(PieceOf(Event)), peer'.last \in Seq(PieceOf(Event))
    PROVE  (\A c \in Clients : Kind(c) = "irsend" => Calling(c)') /\ EventShape'
<1>1. EventShape'
  BY DEF CallsInv, EventShape, ToldSame, SameDaemon, Kind
<1>2. ASSUME NEW c \in Clients, Kind(c) = "irsend" PROVE Calling(c)'
  <2>1. Calling(c)
    BY <1>2 DEF CallsInv
  <2>2. Calling(c)' = Calling(c)
    BY DEF Calling, Types, Called, Nowhere, Somewhere, Asked, Told1, Stream, ToldSame, SameDaemon
  <2>. QED  BY <2>1, <2>2
<1>. QED  BY <1>1, <1>2

LEMMA PollsCalls ==
    ASSUME CallsInv, LircdPolls
    PROVE  (\A c \in Clients : Kind(c) = "irsend" => Calling(c)') /\ EventShape'
<1>1. DaemonShape /\ peer.left \in Seq(Event) /\ peer.stream \in Seq(PieceOf(Event)) /\ peer.last \in Seq(PieceOf(Event))
  BY DEF CallsInv, HeardInv, Shape, EventShape
<1>2. UNCHANGED <<scene, sock, prog, peer, told>> /\ daemon' = [daemon EXCEPT !.marks = Polled]
  BY DEF LircdPolls
<1>3. SameDaemon /\ ToldSame
  BY <1>1, <1>2 DEF SameDaemon, DaemonShape, ToldSame
<1>. QED  BY <1>1, <1>2, <1>3, SameCalls

LEMMA PeerCalls ==
    ASSUME CallsInv, PeerConnects \/ PeerWaits \/ PeerSays \/ PeerEnds
    PROVE  (\A c \in Clients : Kind(c) = "irsend" => Calling(c)') /\ EventShape'
<1>. DEFINE E == PieceOf(Event)
<1>1. PeerShape /\ peer.left \in Seq(Event) /\ peer.stream \in Seq(E) /\ peer.last \in Seq(E)
  BY DEF CallsInv, HeardInv, EventShape, Shape
<1>2. UNCHANGED <<scene, daemon, sock, prog, told>>
  BY DEF PeerConnects, PeerWaits, PeerSays, PeerEnds
<1>3. peer'.left \in Seq(Event) /\ peer'.stream \in Seq(E) /\ peer'.last \in Seq(E)
  <2>. HIDE DEF E
  <2>1. CASE PeerConnects
    <3>1. peer'.stream \in {peer.stream, <<>>} /\ peer'.left = peer.left /\ peer'.last = peer.last
      BY <1>1, <2>1 DEF PeerConnects, PeerShape
    <3>2. <<>> \in Seq(E)
      OBVIOUS
    <3>. QED  BY <1>1, <3>1, <3>2
  <2>2. CASE PeerWaits
    BY <1>1, <2>2 DEF PeerWaits, PeerShape
  <2>3. CASE PeerSays
    <3>1. peer.left # <<>> /\ Head(peer.left) \in Event /\ Tail(peer.left) \in Seq(Event)
      BY <1>1, <2>3 DEF PeerSays
    <3>2. Pieces(Head(peer.left)) \in Seq(E)
      BY <3>1 DEF Pieces, Piece, PieceOf, E
    <3>. DEFINE stream == IF peer.socket = "up" /\ peer.end = None
                          THEN peer.stream \o Pieces(Head(peer.left)) ELSE peer.stream
    <3>3. stream \in Seq(E)
      BY <1>1, <3>2
    <3>4. peer' = [peer EXCEPT !.left = Tail(@), !.stream = stream]
      BY <2>3, Zenon DEF PeerSays
    <3>. HIDE DEF stream
    <3>5. peer'.left = Tail(peer.left) /\ peer'.stream = stream /\ peer'.last = peer.last
      BY <1>1, <3>4 DEF PeerShape
    <3>. QED  BY <1>1, <3>1, <3>3, <3>5
  <2>4. CASE PeerEnds
    BY <1>1, <2>4 DEF PeerEnds, PeerShape
  <2>. QED  BY <2>1, <2>2, <2>3, <2>4
<1>4. SameDaemon /\ ToldSame
  BY <1>2 DEF SameDaemon, ToldSame
<1>. QED  BY <1>2, <1>3, <1>4, SameCalls
(* A program's step changes nothing of the others, nor lircd's end of its  *)
(* connection.                                                             *)
OneMoves(p) ==
    /\ UNCHANGED <<scene, daemon, peer, told>>
    /\ \A e \in Clients \ {p} : sock'[e] = sock[e] /\ prog'[e] = prog[e]
    /\ sock'[p].srv = sock[p].srv

LEMMA RunsMove ==
    ASSUME HeardInv, NEW p \in Clients, Runs(p)
    PROVE  OneMoves(p)
<1>1. DOMAIN sock = Clients /\ DOMAIN prog = Clients /\ DOMAIN sock[p] = {"up", "down", "srv", "cli"}
  BY Domains DEF HeardInv, Shape, SockShape, ProgShape
<1>2. UNCHANGED <<scene, daemon, peer, told>>
  BY DEF Runs, Sends, Answered, Pipes, NextCodes, RcConnects, RcLaunches, Asks, RcAnswered
<1>3. ASSUME NEW x, prog' = [prog EXCEPT ![p] = x] PROVE \A e \in Clients \ {p} : prog'[e] = prog[e]
  BY <1>1, <1>3
<1>4. ASSUME NEW x, sock' = [sock EXCEPT ![p] = x], x.srv = sock[p].srv
      PROVE  (\A e \in Clients \ {p} : sock'[e] = sock[e]) /\ sock'[p].srv = sock[p].srv
  BY <1>1, <1>4
<1>5. CASE Sends(p)
  <2>1. (\E x : prog' = [prog EXCEPT ![p] = x]) /\ (\E x : x.srv = sock[p].srv /\ sock' = [sock EXCEPT ![p] = x])
    BY <1>1, <1>5 DEF Sends
  <2>. QED  BY <1>2, <1>3, <1>4, <2>1 DEF OneMoves
<1>6. CASE Answered(p)
  <2>. DEFINE ctx == Stepped(prog[p].ctx, sock[p])
              d == Drained(prog[p].ctx, sock[p])
  <2>1. d.srv = sock[p].srv
    BY <1>1 DEF Drained
  <2>2. CASE ctx.result = None
    BY <1>2, <1>3, <1>4, <1>6, <2>1, <2>2 DEF OneMoves, Answered
  <2>3. CASE ctx.result # None
    <3>. HIDE DEF d
    <3>1. /\ prog' = [prog EXCEPT ![p].ctx = NoCtx, ![p].returned = Append(@, ctx.result),
                                  ![p].pc = IF ctx.result = "ok" THEN "call" ELSE "exit"]
          /\ sock' = [sock EXCEPT ![p] = IF ctx.result = "ok" THEN d ELSE [@ EXCEPT !.cli = FALSE, !.down = <<>>]]
      BY <1>6, <2>3, Zenon DEF Answered, d
    <3>. HIDE DEF ctx
    <3>. QED  BY <1>1, <1>2, <2>1, <3>1 DEF OneMoves
  <2>. QED  BY <2>2, <2>3
<1>7. CASE Pipes(p)
  BY <1>1, <1>2, <1>7 DEF OneMoves, Pipes
<1>8. CASE NextCodes(p)
  <2>. DEFINE q == prog[p]
              size == IF Len(q.buffer) >= q.size THEN q.size + scene.packet ELSE q.size
              new == Available(sock[p].down, size - Len(q.buffer))
              buffer == IF HasLine(q.buffer) THEN q.buffer ELSE q.buffer \o new
              q2 == IF Newline(buffer) = 0 THEN [q EXCEPT !.buffer = buffer, !.size = size]
                    ELSE [q EXCEPT !.buffer = AfterCode(buffer), !.code = NextCode(buffer),
                            !.size = IF HasLine(q.buffer) THEN q.size ELSE size,
                            !.heard = Append(@, NextCode(buffer)),
                            !.pc = IF Kind(p) = "ircat" THEN "call" ELSE "next"]
  <2>1. \/ prog' = [prog EXCEPT ![p].pc = "exit"] /\ sock' = [sock EXCEPT ![p].cli = FALSE]
        \/ /\ prog' = [prog EXCEPT ![p] = q2]
           /\ sock' = sock \/ sock' = [sock EXCEPT ![p].down = From(@, Len(new) + 1)]
    BY <1>8, Zenon DEF NextCodes
  <2>. HIDE DEF q2, new
  <2>. QED  BY <1>1, <1>2, <2>1 DEF OneMoves
<1>9. CASE RcConnects(p)
  BY <1>1, <1>2, <1>9 DEF OneMoves, RcConnects
<1>10. CASE RcLaunches(p)
  BY <1>1, <1>2, <1>10 DEF OneMoves, RcLaunches
<1>11. CASE Asks(p)
  BY <1>1, <1>2, <1>11, ZenonT(60) DEF OneMoves, Asks
<1>12. CASE RcAnswered(p)
  <2>1. \E x, y : prog' = [prog EXCEPT ![p] = x] /\ sock' = [sock EXCEPT ![p].cli = y]
    BY <1>12, Zenon DEF RcAnswered
  <2>. QED  BY <1>1, <1>2, <2>1 DEF OneMoves
<1>. QED  BY <1>5, <1>6, <1>7, <1>8, <1>9, <1>10, <1>11, <1>12 DEF Runs

LEMMA QuitsMove ==
    ASSUME HeardInv, NEW p \in Clients, Quits(p)
    PROVE  OneMoves(p) /\ Kind(p) # "irsend"
<1>1. DOMAIN sock = Clients /\ DOMAIN prog = Clients /\ DOMAIN sock[p] = {"up", "down", "srv", "cli"}
  BY Domains DEF HeardInv, Shape, SockShape, ProgShape
<1>2. /\ UNCHANGED <<scene, daemon, peer, told>> /\ Kind(p) = "ircat"
      /\ prog' = [prog EXCEPT ![p].pc = "exit"] /\ sock' = [sock EXCEPT ![p].cli = FALSE]
  BY DEF Quits
<1>. QED  BY <1>1, <1>2 DEF OneMoves

LEMMA OneCalls ==
    ASSUME CallsInv, NEW p \in Clients, OneMoves(p), Kind(p) = "irsend" => Calling(p)'
    PROVE  (\A c \in Clients : Kind(c) = "irsend" => Calling(c)') /\ EventShape'
<1>1. EventShape'
  BY DEF CallsInv, EventShape, OneMoves, Kind
<1>2. ASSUME NEW c \in Clients, Kind(c) = "irsend", c # p PROVE Calling(c)'
  <2>1. Calling(c)
    BY <1>2 DEF CallsInv
  <2>2. sock'[c] = sock[c] /\ prog'[c] = prog[c] /\ UNCHANGED <<scene, daemon, told>>
    BY <1>2 DEF OneMoves
  <2>3. Calling(c)' = Calling(c)
    BY <2>2 DEF Calling, Types, Called, Nowhere, Somewhere, Asked, Told1, Stream
  <2>. QED  BY <2>1, <2>3
<1>. QED  BY <1>1, <1>2

(* Only irsend's own actions are its. *)
LEMMA IrsendRuns ==
    ASSUME CallsInv, NEW p \in Clients, Runs(p), Kind(p) = "irsend"
    PROVE  Sends(p) \/ Answered(p)
<1>1. prog[p].pc \in {"call", "wait", "exit"}
  BY DEF CallsInv, Calling, Wait
<1>. QED  BY <1>1 DEF Runs, Pipes, NextCodes, RcConnects, RcLaunches, Asks, RcAnswered

-----------------------------------------------------------------------------
(* The steps of lircd that answer *)

(* The request that irsend waits for. *)
LEMMA WaitsFor ==
    ASSUME Shape, NEW c \in Clients, Kind(c) = "irsend", Calling(c), prog[c].pc = Wait
    PROVE  scene.script[c][Len(prog[c].returned) + 1] \in Request
<1>1. scene.script[c] \in Seq(Request)
  BY IrsendScene
<1>2. Len(prog[c].returned) \in Nat /\ Len(prog[c].returned) + 1 <= Len(scene.script[c])
  BY DEF Calling, Called, Wait
<1>. QED  BY <1>1, <1>2

(* One whose request is elsewhere than nowhere is waiting for its answer. *)
LEMMA CallIs ==
    ASSUME NEW c \in Clients, Calling(c), prog[c].pc # "exit", ~Nowhere(c)
    PROVE  /\ prog[c].pc = Wait /\ Types(c)
           /\ Asked(c, Len(prog[c].returned))
           /\ Somewhere(c, scene.script[c][Len(prog[c].returned) + 1])
  BY DEF Calling, Wait
(* What the client of a SEND_ONCE is told. *)
LateAnswers(q) == {send_success(q), send_error(q, <<"repeating", "interrupted">>)}

LEMMA RepeatedIs ==
    ASSUME NEW st, StateOf(st), NEW sent \in BOOLEAN
    PROVE  LET do == repeated(sent, st)
           IN \/ /\ do.out = <<>> /\ do.st.repeat.fd = st.repeat.fd
                 /\ do.st.repeat.message = st.repeat.message
              \/ /\ st.repeat.fd = None => do.out = <<>>
                 /\ st.repeat.fd # None => do.out \in LateAnswers(st.repeat.message)
                 /\ do.st.repeat.fd = None
  BY DEF repeated, stop_repeating, Answer, StateOf, NotRepeating, LateAnswers

LEMMA LateReplies ==
    ASSUME NEW q \in Request, NEW out \in LateAnswers(q)
    PROVE  IsReply(q, out) /\ Len(out) \in {4, 7} /\ Result(out) \in {"ok", "EIO"} /\ out \in Seq(Line) /\ out # <<>>
<1>1. IsReply(q, out) /\ Len(out) \in {4, 7}
  <2>1. CASE out = send_success(q)
    BY <2>1, SuccessReply
  <2>2. CASE out = send_error(q, <<"repeating", "interrupted">>)
    <3>1. IsReply(q, send_error(q, <<"repeating", "interrupted">>))
      BY Texts, ErrorReply
    <3>2. Len(send_error(q, <<"repeating", "interrupted">>)) = 7
      BY DEF send_error
    <3>. QED  BY <2>2, <3>1, <3>2
  <2>. QED  BY <2>1, <2>2 DEF LateAnswers
<1>2. Result(out) \in {"ok", "EIO"}
  BY DEF Result
<1>3. out \in Seq(Line) /\ out # <<>>
  BY <1>1 DEF IsReply
<1>. QED  BY <1>1, <1>2, <1>3

LEMMA RepeatsCalls ==
    ASSUME CallsInv, LircdRepeats
    PROVE  (\A c \in Clients : Kind(c) = "irsend" => Calling(c)') /\ EventShape'
<1>. PICK sent \in Sendings :
        LET do == repeated(sent, daemon.st)
            socks == Sent(daemon.st.repeat.fd, do.out, <<>>, {})
        IN /\ sock' = [c \in Clients |-> [socks[c] EXCEPT !.srv = sock[c].srv]]
           /\ told' = Told(daemon.st.repeat.fd, do.out, <<>>, {})
           /\ daemon' = [daemon EXCEPT !.st = do.st]
  BY DEF LircdRepeats
<1>. DEFINE do == repeated(sent, daemon.st)
            fd == daemon.st.repeat.fd
            out == do.out
            socks == Sent(fd, out, <<>>, {})
<1>1. Shape /\ EventShape
  BY DEF CallsInv, HeardInv
<1>2. scene' = scene /\ prog' = prog /\ peer' = peer
  BY DEF LircdRepeats
<1>3. /\ sock' = [c \in Clients |-> [socks[c] EXCEPT !.srv = sock[c].srv]]
      /\ told' = Told(fd, out, <<>>, {})
      /\ daemon' = [daemon EXCEPT !.st = do.st]
  OBVIOUS
<1>4. \/ out = <<>> /\ do.st.repeat.fd = fd /\ do.st.repeat.message = daemon.st.repeat.message
      \/ /\ fd = None => out = <<>>
         /\ fd # None => out \in LateAnswers(daemon.st.repeat.message)
         /\ do.st.repeat.fd = None
  <2>1. StateOf(daemon.st)
    BY <1>1, Domains DEF Shape, DaemonShape, StateOf
  <2>. QED  BY <2>1, RepeatedIs, SendingsType
<1>5. \A c \in Clients : DOMAIN socks[c] = DOMAIN Closed /\ socks[c].up = sock[c].up
  BY <1>1, SentKeeps
<1>6. \A c \in Clients : socks[c] = IF c = fd /\ out # <<>> THEN write_socket(sock[c], out) ELSE sock[c]
  BY DEF Sent
<1>7. ASSUME NEW c \in Clients
      PROVE  /\ told'[c].events = told[c].events
             /\ told'[c].answers = told[c].answers \o (IF c = fd /\ out # <<>> THEN <<Result(out)>> ELSE <<>>)
  <2>1. ToldBy(Told(fd, out, <<>>, {}), c, fd, out, <<>>, {})
    BY ONLY ToldIs, c \in Clients, Zenon
  <2>2. ToldBy(told', c, fd, out, <<>>, {})
    BY ONLY <1>3, <2>1, Zenon
  <2>. HIDE DEF out, fd
  <2>3. /\ told'[c].events = told[c].events \o <<>>
        /\ told'[c].answers = told[c].answers \o (IF c = fd /\ out # <<>> THEN <<Result(out)>> ELSE <<>>)
    BY ONLY <2>2 DEF ToldBy
  <2>4. told[c].events \in Seq(Line)
    BY <1>1 DEF EventShape
  <2>. QED  BY ONLY <2>3, <2>4
<1>. HIDE DEF do, socks, out, fd
<1>8. /\ daemon'.cmd = daemon.cmd /\ daemon'.st = do.st
      /\ daemon'.left = daemon.left /\ daemon'.hups = daemon.hups
  BY <1>1, <1>3 DEF Shape, DaemonShape
<1>9. EventShape'
  BY <1>1, <1>2, <1>7, <1>8 DEF EventShape, Kind
<1>10. ASSUME NEW c \in Clients
       PROVE  sock'[c].down = socks[c].down /\ sock'[c].srv = sock[c].srv /\ sock'[c].cli = socks[c].cli /\ sock'[c].up = sock[c].up
  BY <1>3, <1>5, Domains
<1>11. ASSUME NEW c \in Clients, Kind(c) = "irsend" PROVE Calling(c)'
  <2>1. Calling(c) /\ c # None
    BY <1>11, NetworkAssumption DEF CallsInv
  <2>2. CASE prog[c].pc = "exit"
    BY <1>2, <2>1, <2>2, EndedStays
  <2>3. CASE prog[c].pc # "exit" /\ (c # fd \/ out = <<>>)
    <3>1. sock[c].down \in Seq(PieceOf(Line)) /\ told[c].answers \in Seq({"ok", "EIO"}) /\ told[c].events \in Seq(Line)
      BY <2>1, <2>3 DEF Calling, Types
    <3>2. socks[c] = sock[c]
      BY <1>6, <2>3
    <3>3. Grew(sock[c], sock'[c], <<>>)
      BY <1>10, <3>1, <3>2, GrewCloses
    <3>4. /\ told'[c].events = told[c].events \o <<>> /\ told'[c].answers = told[c].answers /\ <<>> \in Seq(Event)
      <4>1. told'[c].events = told[c].events /\ told'[c].answers = told[c].answers \o <<>>
        BY ONLY <1>7, <2>3, c \in Clients
      <4>. QED  BY ONLY <3>1, <4>1
    <3>5. \/ c # fd /\ daemon'.st.repeat.fd # c
          \/ daemon'.st.repeat.fd = fd /\ daemon'.st.repeat.message = daemon.st.repeat.message
      <4>1. <<>> \notin LateAnswers(daemon.st.repeat.message)
        BY DEF send_success, send_error, LateAnswers
      <4>. QED  BY <1>4, <1>8, <2>1, <2>3, <4>1
    <3>6. ASSUME NEW q PROVE Placed(c, q)
      BY <1>8, <1>10, <3>5 DEF Placed, Nowhere, Somewhere, fd
    <3>. QED  BY ONLY <1>2, <2>1, <3>3, <3>4, <3>6, CallStays
  <2>4. CASE prog[c].pc # "exit" /\ c = fd /\ out # <<>>
    <3>. DEFINE k == Len(prog[c].returned)
                q == scene.script[c][k + 1]
                s == sock[c]
                b == prog[c].ctx.buffer
    <3>1. ~Nowhere(c)
      BY <2>4 DEF Nowhere, fd
    <3>2. prog[c].pc = Wait /\ Types(c) /\ Asked(c, k) /\ Somewhere(c, q)
      BY <2>1, <2>4, <3>1, CallIs
    <3>3. /\ s.srv => s.cli
          /\ s.down \in Seq(PieceOf(Line)) /\ b \in Seq(PieceOf(Line))
          /\ told[c].events \in Seq(Line) /\ told[c].answers \in Seq({"ok", "EIO"})
      BY <3>2 DEF Types
    <3>4. sock[c].up = <<>> /\ daemon.cmd.fd # c /\ daemon.st.repeat.message = q
      BY <2>4, <3>2 DEF Somewhere, fd
    <3>5. q \in Request /\ scene.room \in Nat /\ scene.room >= 21
      BY <1>1, <1>11, <2>1, <3>2, WaitsFor, IrsendScene
    <3>6. out \in LateAnswers(q) /\ daemon'.st.repeat.fd = None
      BY <1>4, <1>8, <2>1, <2>4, <3>4
    <3>. DEFINE r == Result(out)
                n == 3 * Len(out)
    <3>7. IsReply(q, out) /\ Len(out) \in {4, 7} /\ r \in {"ok", "EIO"} /\ out \in Seq(Line)
      BY ONLY <3>5, <3>6, LateReplies
    <3>. HIDE DEF r
    <3>8. Calm(prog[c].ctx, q, Stream(c), s.srv, told[c].events) /\ Len(told[c].answers) = k
      BY <3>2 DEF Asked
    <3>9. socks[c] = write_socket(s, out)
      BY <1>6, <2>4
    <3>. HIDE DEF s, b, q, k
    <3>10. DOMAIN s = DOMAIN Closed
      BY <1>1 DEF Shape, SockShape, s
    <3>11. PICK x \in 0..(3 * Len(out)) : Wrote(s, out, socks[c], x)
      BY <3>3, <3>5, <3>7, <3>9, <3>10, WriteIs
    <3>. DEFINE d2 == socks[c].down
    <3>111. n \in {12, 21} /\ x \in 0..n
      <4>1. Len(out) = 4 \/ Len(out) = 7
        BY ONLY <3>7
      <4>2. x \in 0..(3 * Len(out))
        OBVIOUS
      <4>3. 3 * 4 = 12 /\ 3 * 7 = 21
        OBVIOUS
      <4>. QED  BY ONLY <4>1, <4>2, <4>3
    <3>112. /\ d2 \in Seq(PieceOf(Line)) /\ Longer(s.down, d2, out, x)
            /\ ~(s.srv /\ s.cli) => x = 0
            /\ socks[c].cli = s.cli
      BY <3>11 DEF Wrote, Longer
    <3>113. s.srv /\ s.cli /\ x # n => Len(s.down) + x >= scene.room
      BY <3>11 DEF Wrote
    <3>. HIDE DEF d2, n
    <3>12. /\ d2 \in Seq(PieceOf(Line)) /\ x \in 0..n /\ x \in Nat /\ n \in {12, 21} /\ Longer(s.down, d2, out, x)
           /\ ~(s.srv /\ s.cli) => x = 0
           /\ s.srv /\ s.cli /\ x # n => Len(s.down) + x >= scene.room
           /\ socks[c].cli = s.cli
      BY ONLY <3>111, <3>112, <3>113
    <3>13. Longer(b \o s.down, b \o d2, out, x)
      BY ONLY <3>3, <3>12, StreamGrows
    <3>14. Stream(c) = b \o s.down /\ Stream(c) \in Seq(PieceOf(Line))
      BY <3>3 DEF Stream, s, b
    <3>15. s.srv /\ x # n => told[c].events # <<>>
      <4>1. s.srv /\ x # n => Len(s.down) > 0
        BY <3>3, <3>5, <3>12
      <4>2. s.srv /\ x # n => Stream(c) # <<>>
        <5>1. Len(Stream(c)) = Len(b) + Len(s.down)
          BY <3>3, <3>14
        <5>. QED  BY <3>3, <3>14, <4>1, <5>1
      <4>. QED  BY <3>8, <4>2 DEF Calm, EventsAhead
    <3>16. OnTheWay(prog[c].ctx, q, b \o d2, s.srv, told[c].events, r)
      <4>. DEFINE S == Stream(c)
                  S2 == b \o d2
      <4>1. /\ S2 \in Seq(PieceOf(Line)) /\ Len(S2) = Len(S) + x
            /\ \A i \in 1..Len(S) : S2[i] = S[i]
            /\ \A i \in 1..x : S2[Len(S) + i] = PieceAt(out, i)
        BY ONLY <3>13, <3>14 DEF Longer
      <4>2. /\ S \in Seq(PieceOf(Line)) /\ Calm(prog[c].ctx, q, S, s.srv, told[c].events)
            /\ ~s.srv => x = 0 /\ ~s.srv
            /\ x # 3 * Len(out) => ~s.srv \/ told[c].events # <<>>
        BY <3>8, <3>12, <3>14, <3>15 DEF n
      <4>3. x \in 0..(3 * Len(out))
        BY <3>12 DEF n
      <4>. HIDE DEF S, S2
      <4>4. InSync(prog[c].ctx, q, S2, s.srv, told[c].events, Result(out))
        BY ONLY <3>7, <4>1, <4>2, <4>3, AnswerPart, Zenon
      <4>. QED  BY <4>4 DEF S2, OnTheWay, r
    <3>17. told'[c].answers = Append(told[c].answers, r) /\ told'[c].events = told[c].events
      <4>1. told'[c].answers = told[c].answers \o <<Result(out)>> /\ told'[c].events = told[c].events
        BY ONLY <1>7, <2>4, c \in Clients
      <4>2. told'[c].answers = told[c].answers \o <<r>>
        BY ONLY <4>1 DEF r
      <4>. QED  BY ONLY <3>3, <3>7, <4>1, <4>2
    <3>18. Nowhere(c)'
      BY <1>8, <1>10, <2>1, <3>4, <3>6 DEF Nowhere
    <3>19. sock'[c].down = d2 /\ sock'[c].srv = s.srv /\ sock'[c].cli = s.cli
      BY <1>10, <3>12 DEF d2, s
    <3>. QED
      BY ONLY <1>2, <2>1, <3>2, <3>3, <3>7, <3>12, <3>16, <3>17, <3>18, <3>19, CallAnswered DEF q, k, b
  <2>. QED  BY <2>2, <2>3, <2>4
<1>. QED  BY <1>9, <1>11
(* LircdExecutes, with what its directive does, who is removed, the        *)
(* sockets after the answer and the next line.                             *)
Executes(do, gone, socks, next) ==
    /\ scene' = scene /\ prog' = prog /\ peer' = peer /\ daemon.cmd.fd # None
    /\ Replies(daemon.cmd.fd, Text(daemon.cmd.buffer), daemon.st, do)
    /\ socks = Sent(daemon.cmd.fd, do.out, do.cast, Range(daemon.clis))
    /\ next = NextPacket(daemon.cmd.buffer, socks[daemon.cmd.fd].up, scene.packet)
    /\ Executed(do, gone)

LEMMA ExecutesIs ==
    ASSUME HeardInv, LircdExecutes
    PROVE  \E do, gone, socks, next : Executes(do, gone, socks, next)
<1>1. PICK sent \in BOOLEAN :
        \E g : Executed(Directive(daemon.cmd.fd, Text(daemon.cmd.buffer), sent, daemon.st), g)
  BY ExecutedIs
<1>. DEFINE do == Directive(daemon.cmd.fd, Text(daemon.cmd.buffer), sent, daemon.st)
<1>2. PICK gone : Executed(do, gone)
  BY <1>1
<1>3. scene' = scene /\ prog' = prog /\ peer' = peer /\ daemon.cmd.fd # None
  BY DEF LircdExecutes
<1>4. Replies(daemon.cmd.fd, Text(daemon.cmd.buffer), daemon.st, do)
  <2>1. StateOf(daemon.st)
    BY Domains DEF HeardInv, Shape, DaemonShape, StateOf
  <2>2. daemon.cmd.fd \in Clients /\ daemon.cmd.buffer \in Seq(PieceOf(Words))
    BY <1>3 DEF HeardInv, Shape, DaemonShape
  <2>. QED  BY <2>1, <2>2, TextType, DirectiveReplies
<1>. HIDE DEF do
<1>. QED  BY <1>2, <1>3, <1>4, Zenon DEF Executes

(* What it leaves. *)
SocksOf(socks) ==
    DOMAIN socks = Clients /\ \A c \in Clients : DOMAIN socks[c] = DOMAIN Closed /\ socks[c].up = sock[c].up
Leaves(do, socks, next) ==
    /\ \A c \in Clients \ {daemon.cmd.fd} : sock'[c].up = socks[c].up
    /\ \A c \in Clients : sock'[c].down = socks[c].down /\ sock'[c].cli = socks[c].cli
                          /\ (sock'[c].srv => socks[c].srv)
    /\ daemon'.cmd.fd \in {daemon.cmd.fd, None} /\ daemon'.st = do.st
    /\ daemon'.left = daemon.left /\ daemon'.hups = daemon.hups
    /\ next = [buffer |-> <<>>, stream |-> <<>>, ok |-> TRUE] /\ socks[daemon.cmd.fd].up = <<>> =>
          /\ sock'[daemon.cmd.fd].srv <=> socks[daemon.cmd.fd].srv
          /\ sock'[daemon.cmd.fd].up = <<>>
          /\ daemon'.cmd.fd = None

LEMMA SentSocks ==
    ASSUME Shape, NEW fd, NEW lines, NEW cast, NEW B
    PROVE  SocksOf(Sent(fd, lines, cast, B))
  BY SentKeeps DEF SocksOf

LEMMA LeavesIs ==
    ASSUME Shape, daemon.cmd.fd \in Clients, NEW do, NEW gone, NEW socks, NEW next, Executed(do, gone), SocksOf(socks),
           socks = Sent(daemon.cmd.fd, do.out, do.cast, Range(daemon.clis)),
           next = NextPacket(daemon.cmd.buffer, socks[daemon.cmd.fd].up, scene.packet)
    PROVE  Leaves(do, socks, next)
<1>. DEFINE f == daemon.cmd.fd
            goesOn == socks[f].srv /\ next.ok /\ next.buffer # <<>> /\ ~BadPacket(next.buffer)
            one == [daemon.cmd EXCEPT !.buffer = next.buffer]
            cmd == IF goesOn THEN one ELSE NoCommand
            None2 == [buffer |-> <<>>, stream |-> <<>>, ok |-> TRUE]
<1>1. /\ sock' = [e \in Clients |-> [socks[e] EXCEPT !.srv = @ /\ e \notin gone,
                                          !.up = IF e = f /\ socks[f].srv THEN next.stream ELSE @]]
      /\ daemon' = [daemon EXCEPT !.st = do.st, !.clis = Kept(sock'), !.cmd = cmd]
      /\ gone = {} <=> socks[f].srv /\ next.ok /\ ~(next.buffer # <<>> /\ BadPacket(next.buffer))
  BY Zenon DEF Executed
<1>2. /\ f \in Clients /\ DOMAIN socks = Clients
      /\ \A c \in Clients : DOMAIN socks[c] = {"up", "down", "srv", "cli"}
  BY Domains DEF SocksOf
<1>3. DOMAIN daemon.cmd = {"fd", "slot", "buffer"} /\ NoCommand.fd = None
  BY DEF Shape, DaemonShape, NoCommand
<1>4. cmd.fd \in {f, None}
  BY <1>3
<1>5. ASSUME next = None2 PROVE cmd.fd = None /\ (gone = {} <=> socks[f].srv) /\ next.stream = <<>>
  <2>1. next.ok /\ next.buffer = <<>> /\ next.stream = <<>>
    BY <1>5
  <2>2. ~goesOn
    BY ONLY <2>1
  <2>3. gone = {} <=> socks[f].srv
    BY ONLY <1>1, <2>1
  <2>. HIDE DEF goesOn
  <2>. QED  BY ONLY <1>3, <2>1, <2>2, <2>3 DEF cmd
<1>. HIDE DEF goesOn, one, cmd
<1>6. ASSUME NEW c \in Clients
      PROVE  /\ sock'[c].down = socks[c].down /\ sock'[c].cli = socks[c].cli
             /\ sock'[c].srv = (socks[c].srv /\ c \notin gone)
             /\ sock'[c].up = IF c = f /\ socks[f].srv THEN next.stream ELSE socks[c].up
  BY ONLY <1>1, <1>2, <1>6
<1>7. daemon'.cmd = cmd /\ daemon'.st = do.st /\ daemon'.left = daemon.left /\ daemon'.hups = daemon.hups
  BY <1>1 DEF Shape, DaemonShape
<1>8. ASSUME next = None2, socks[f].up = <<>>
      PROVE  (sock'[f].srv <=> socks[f].srv) /\ sock'[f].up = <<>> /\ daemon'.cmd.fd = None
  <2>1. cmd.fd = None /\ (gone = {} <=> socks[f].srv) /\ next.stream = <<>>
    BY ONLY <1>5, <1>8
  <2>2. sock'[f].srv = (socks[f].srv /\ f \notin gone)
    BY ONLY <1>2, <1>6
  <2>3. sock'[f].up = <<>>
    BY ONLY <1>2, <1>6, <1>8, <2>1
  <2>4. ASSUME socks[f].srv PROVE sock'[f].srv
    BY ONLY <2>1, <2>2, <2>4
  <2>5. ASSUME ~socks[f].srv PROVE ~sock'[f].srv
    BY ONLY <2>2, <2>5
  <2>. QED  BY ONLY <1>7, <2>1, <2>3, <2>4, <2>5
<1>9. \A c \in Clients : sock'[c].down = socks[c].down /\ sock'[c].cli = socks[c].cli /\ (sock'[c].srv => socks[c].srv)
  BY ONLY <1>6
<1>10. \A c \in Clients \ {f} : sock'[c].up = socks[c].up
  BY ONLY <1>6
<1>. QED  BY ONLY <1>4, <1>7, <1>8, <1>9, <1>10 DEF f, Leaves

(* A connection that is closed besides. *)
LEMMA GrewLess ==
    ASSUME NEW s, NEW t, NEW lines, Grew(s, t, lines), NEW t2, t2.down = t.down, t2.cli = t.cli, t2.srv => t.srv
    PROVE  Grew(s, t2, lines)
<1>1. ASSUME NEW b \in Seq(PieceOf(Line)) PROVE Grows(b \o s.down, s.srv, b \o t2.down, t2.srv, lines)
  <2>. DEFINE S == b \o s.down
              S2 == b \o t.down
  <2>1. Grows(S, s.srv, S2, t.srv, lines)
    BY DEF Grew
  <2>. HIDE DEF S, S2
  <2>2. Grows(S, s.srv, S2, t2.srv, lines)
    BY <2>1, Zenon DEF Grows
  <2>. QED  BY <2>2 DEF S, S2
<1>. QED  BY <1>1 DEF Grew

(* And says. *)
LEMMA ExecutedTold ==
    ASSUME NEW c \in Clients, NEW fd, NEW lines, NEW cast, NEW B, NEW text,
           told' = [Told(fd, lines, cast, B) EXCEPT ![fd].lines = Append(@, text)]
    PROVE  ToldBy(told', c, fd, lines, cast, B)
<1>. DEFINE t == Told(fd, lines, cast, B)
<1>1. ToldBy(t, c, fd, lines, cast, B)
  BY ONLY ToldIs, c \in Clients, Zenon
<1>2. DOMAIN t = Clients /\ DOMAIN t[c] = {"events", "answers", "lines", "presses"}
  BY DEF Told
<1>. HIDE DEF t
<1>3. told' = [t EXCEPT ![fd].lines = Append(@, text)]
  BY DEF t
<1>4. told'[c].events = t[c].events /\ told'[c].answers = t[c].answers
  BY <1>2, <1>3
<1>. QED  BY <1>1, <1>4 DEF ToldBy

(* The client whose directive was executed gets events, then its answer. *)
LEMMA AnsweredCall ==
    ASSUME Shape, NEW c \in Clients, Kind(c) = "irsend", Calling(c), prog[c].pc = Wait,
           Asked(c, Len(prog[c].returned)), scene' = scene, prog' = prog, NEW out, NEW cast \in Seq(Event), NEW B,
           IsReply(scene.script[c][Len(prog[c].returned) + 1], out),
           sock'[c].down = Sent(c, out, cast, B)[c].down, sock'[c].cli = Sent(c, out, cast, B)[c].cli,
           sock'[c].srv => Sent(c, out, cast, B)[c].srv,
           ToldBy(told', c, c, out, cast, B), Nowhere(c)'
    PROVE  Calling(c)'
<1>. DEFINE k == Len(prog[c].returned)
            q == scene.script[c][k + 1]
            s == sock[c]
            b == prog[c].ctx.buffer
            t == Sent(c, <<>>, cast, B)[c]
            w == Sent(c, out, cast, B)[c]
            lines == IF c \in B THEN cast ELSE <<>>
            e2 == told[c].events \o lines
            E == PieceOf(Line)
            r == Result(out)
<1>1. Types(c) /\ Called(c, k + 1)
  BY DEF Calling, Wait
<1>2. /\ s.srv => s.cli
      /\ s.down \in Seq(E) /\ b \in Seq(E)
      /\ told[c].events \in Seq(Line) /\ told[c].answers \in Seq({"ok", "EIO"})
  BY <1>1 DEF Types
<1>3. IsReply(q, out) /\ out \in Seq(Line) /\ out # <<>> /\ r \in {"ok", "EIO"} /\ Len(out) \in Nat
  BY DEF IsReply, Result
<1>4. w = write_socket(t, out)
  BY <1>3 DEF Sent
<1>5. DOMAIN t = DOMAIN Closed /\ scene.room \in Nat
  BY SentKeeps, RoomType
<1>6. Grew(s, t, lines) /\ lines \in Seq(Event)
  BY <1>2, GrewSent
<1>7. Calm(prog[c].ctx, q, b \o s.down, s.srv, told[c].events) /\ Len(told[c].answers) = k
  BY DEF Asked, Stream
<1>8. told'[c].events = e2 /\ told'[c].answers = told[c].answers \o <<r>>
  <2>. HIDE DEF r
  <2>1. c = c /\ out # <<>>
    BY <1>3
  <2>. QED  BY ONLY <2>1, ToldBy(told', c, c, out, cast, B) DEF ToldBy, r, e2, lines
<1>9. sock'[c].down = w.down /\ sock'[c].cli = w.cli /\ (sock'[c].srv => w.srv)
  OBVIOUS
<1>. HIDE DEF k, q, s, b, t, w, lines, r
<1>10. /\ t.down \in Seq(E) /\ (t.srv => s.srv) /\ t.cli = s.cli
       /\ Grows(b \o s.down, s.srv, b \o t.down, t.srv, lines)
  BY <1>2, <1>6 DEF Grew
<1>11. e2 \in Seq(Line)
  <2>1. lines \in Seq(Line)
    BY <1>6 DEF Event
  <2>. QED  BY <1>2, <2>1
<1>. HIDE DEF e2
<1>12. Calm(prog[c].ctx, q, b \o t.down, t.srv, e2)
  <2>. DEFINE S == b \o s.down
              S2 == b \o t.down
  <2>1. S \in Seq(PieceOf(Line)) /\ EventsAhead(S, s.srv, told[c].events) /\ Grows(S, s.srv, S2, t.srv, lines)
    BY <1>2, <1>7, <1>10 DEF Calm
  <2>. HIDE DEF S, S2
  <2>2. EventsAhead(S2, t.srv, told[c].events \o lines)
    BY ONLY <1>2, <1>6, <2>1, EventsGrow
  <2>. QED  BY <1>7, <2>2 DEF Calm, S2, e2
<1>13. PICK x \in 0..(3 * Len(out)) : Wrote(t, out, w, x)
  BY <1>3, <1>4, <1>5, <1>10, WriteIs
<1>14. Grows(b \o t.down, t.srv, b \o w.down, sock'[c].srv, out)
  BY <1>2, <1>3, <1>9, <1>10, <1>13, WroteGrows
<1>15. OnTheWay(prog[c].ctx, q, b \o w.down, sock'[c].srv, e2, r)
  <2>. DEFINE S == b \o t.down
              S2 == b \o w.down
  <2>1. S \in Seq(PieceOf(Line)) /\ Calm(prog[c].ctx, q, S, t.srv, e2) /\ Grows(S, t.srv, S2, sock'[c].srv, out)
    BY <1>2, <1>10, <1>12, <1>14
  <2>. HIDE DEF S, S2
  <2>2. InSync(prog[c].ctx, q, S2, sock'[c].srv, e2, Result(out))
    BY ONLY <1>3, <2>1, AnswerGrows
  <2>. QED  BY <2>2 DEF OnTheWay, S2, r
<1>16. w.down \in Seq(E) /\ (w.srv => t.srv) /\ w.cli = t.cli
  BY <1>13 DEF Wrote
<1>17. sock'[c].srv => sock'[c].cli
  BY <1>2, <1>9, <1>10, <1>16 DEF s
<1>18. told'[c].answers = Append(told[c].answers, r)
  BY ONLY <1>2, <1>3, <1>8
<1>19. /\ c \in Clients /\ Calling(c) /\ prog[c].pc = Wait /\ Asked(c, Len(prog[c].returned))
       /\ scene' = scene /\ prog'[c] = prog[c] /\ told'[c].events \in Seq(Line) /\ r \in {"ok", "EIO"}
       /\ told'[c].answers = Append(told[c].answers, r)
       /\ sock'[c].down \in Seq(PieceOf(Line)) /\ (sock'[c].srv => sock'[c].cli) /\ Nowhere(c)'
       /\ OnTheWay(prog[c].ctx, scene.script[c][Len(prog[c].returned) + 1], prog[c].ctx.buffer \o sock'[c].down,
                   sock'[c].srv, told'[c].events, r)
  <2>1. told'[c].events \in Seq(Line) /\ sock'[c].down \in Seq(PieceOf(Line))
    BY <1>8, <1>9, <1>11, <1>16
  <2>2. OnTheWay(prog[c].ctx, q, b \o sock'[c].down, sock'[c].srv, told'[c].events, r)
    BY <1>8, <1>9, <1>15
  <2>. QED  BY <1>3, <1>17, <1>18, <2>1, <2>2 DEF q, k, b
<1>. QED  BY ONLY <1>19, CallAnswered, Zenon

LEMMA ExecutedCalls ==
    ASSUME CallsInv, NEW do, NEW gone, NEW socks, NEW next, Executes(do, gone, socks, next)
    PROVE  (\A c \in Clients : Kind(c) = "irsend" => Calling(c)') /\ EventShape'
<1>. DEFINE fd == daemon.cmd.fd
            buffer == daemon.cmd.buffer
            message == Text(buffer)
            B == Range(daemon.clis)
<1>1. Shape /\ EventShape
  BY DEF CallsInv, HeardInv
<1>2. scene' = scene /\ prog' = prog /\ peer' = peer /\ fd # None
  BY DEF Executes
<1>3. fd \in Clients /\ buffer \in Seq(PieceOf(Words)) /\ scene.packet \in Nat
  BY <1>1, <1>2, RoomType DEF Shape, DaemonShape
<1>. HIDE DEF message, B
<1>6. Executed(do, gone)
  BY DEF Executes
<1>7. Replies(fd, message, daemon.st, do)
  BY DEF Executes, message
<1>8. /\ do.cast \in Seq(Event)
      /\ \/ do.out = <<>> /\ do.cast = <<>> /\ do.st.repeat.fd = fd /\ do.st.repeat.message = message
         \/ /\ message \in Request => IsReply(message, do.out)
            /\ do.st.repeat.fd = daemon.st.repeat.fd /\ do.st.repeat.message = daemon.st.repeat.message
  BY <1>7 DEF Replies
<1>. DEFINE out == do.out
            cast == do.cast
<1>9. socks = Sent(fd, out, cast, B) /\ next = NextPacket(buffer, socks[fd].up, scene.packet)
  BY DEF Executes, B
<1>10. DOMAIN socks = Clients /\ \A c \in Clients : DOMAIN socks[c] = DOMAIN Closed /\ socks[c].up = sock[c].up
  <2>1. SocksOf(Sent(fd, out, cast, B))
    BY ONLY <1>1, SentSocks, Zenon
  <2>. QED  BY ONLY <1>9, <2>1 DEF SocksOf
<1>. HIDE DEF out, cast
<1>11. /\ \A c \in Clients \ {fd} : sock'[c].up = socks[c].up
       /\ \A c \in Clients : sock'[c].down = socks[c].down /\ sock'[c].cli = socks[c].cli
                             /\ (sock'[c].srv => socks[c].srv)
       /\ daemon'.cmd.fd \in {fd, None} /\ daemon'.st = do.st
       /\ daemon'.left = daemon.left /\ daemon'.hups = daemon.hups
       /\ next = [buffer |-> <<>>, stream |-> <<>>, ok |-> TRUE] /\ socks[fd].up = <<>> =>
             /\ sock'[fd].srv <=> socks[fd].srv
             /\ sock'[fd].up = <<>>
             /\ daemon'.cmd.fd = None
  <2>1. /\ Shape /\ daemon.cmd.fd \in Clients /\ Executed(do, gone) /\ SocksOf(socks)
        /\ socks = Sent(daemon.cmd.fd, do.out, do.cast, Range(daemon.clis))
        /\ next = NextPacket(daemon.cmd.buffer, socks[daemon.cmd.fd].up, scene.packet)
    BY ONLY <1>1, <1>3, <1>6, <1>9, <1>10 DEF SocksOf, out, cast, B
  <2>2. Leaves(do, socks, next)
    BY ONLY <2>1, LeavesIs, Zenon
  <2>. QED  BY ONLY <2>2 DEF Leaves
<1>12. ASSUME NEW c \in Clients PROVE ToldBy(told', c, fd, out, cast, B)
  <2>1. told' = [Told(fd, out, cast, B) EXCEPT ![fd].lines = Append(@, message)]
    BY <1>6, Zenon DEF Executed, message, B, out, cast
  <2>. HIDE DEF fd
  <2>. QED  BY ONLY <2>1, c \in Clients, ExecutedTold, Zenon
<1>13. cast \in Seq(Event)
  BY <1>8 DEF cast
<1>14. EventShape'
  <2>1. ASSUME NEW c \in Clients PROVE told'[c].events \in Seq(Line)
    <3>1. told'[c].events = told[c].events \o (IF c \in B THEN cast ELSE <<>>)
      BY <1>12 DEF ToldBy
    <3>2. told[c].events \in Seq(Line) /\ cast \in Seq(Line)
      BY <1>1, <1>13 DEF EventShape, Event
    <3>. QED  BY <3>1, <3>2
  <2>. QED  BY <1>1, <1>2, <1>11, <2>1 DEF EventShape, Kind
<1>15. ASSUME NEW c \in Clients, Kind(c) = "irsend" PROVE Calling(c)'
  <2>. DEFINE lines == IF c \in B THEN cast ELSE <<>>
  <2>1. Calling(c) /\ c # None
    BY <1>15, NetworkAssumption DEF CallsInv
  <2>2. /\ told'[c].events = told[c].events \o lines
        /\ c # fd \/ out = <<>> => told'[c].answers = told[c].answers \o <<>>
    BY <1>12 DEF ToldBy
  <2>3. lines \in Seq(Event)
    BY <1>13
  <2>4. CASE prog[c].pc = "exit"
    BY <1>2, <2>1, <2>4, EndedStays
  <2>5. ASSUME prog[c].pc # "exit", c # fd \/ out = <<>>, sock'[c].srv => socks[c].srv
        PROVE  Grew(sock[c], sock'[c], lines) /\ told'[c].answers = told[c].answers
    <3>1. sock[c].down \in Seq(PieceOf(Line)) /\ told[c].answers \in Seq({"ok", "EIO"})
      BY <2>1, <2>5 DEF Calling, Types
    <3>2. Grew(sock[c], socks[c], lines)
      BY <1>1, <1>9, <1>13, <2>5, <3>1, GrewSent
    <3>3. told'[c].answers = told[c].answers
      BY <2>2, <2>5, <3>1
    <3>4. sock'[c].down = socks[c].down /\ sock'[c].cli = socks[c].cli
      BY ONLY <1>11, c \in Clients
    <3>5. Grew(sock[c], sock'[c], lines)
      BY ONLY <2>5, <3>2, <3>4, GrewLess
    <3>. QED  BY <3>3, <3>5
  <2>6. CASE prog[c].pc # "exit" /\ c # fd
    <3>1. sock'[c].up = sock[c].up /\ daemon'.cmd.fd # c /\ daemon.cmd.fd # c
      BY <1>10, <1>11, <2>1, <2>6
    <3>2. \/ daemon'.st.repeat.fd # c
          \/ daemon'.st.repeat.fd = daemon.st.repeat.fd /\ daemon'.st.repeat.message = daemon.st.repeat.message
      BY <1>8, <1>11, <2>6
    <3>3. ASSUME NEW q PROVE Placed(c, q)
      BY <3>1, <3>2 DEF Placed, Nowhere, Somewhere
    <3>4. Grew(sock[c], sock'[c], lines) /\ told'[c].answers = told[c].answers
      BY <1>11, <2>5, <2>6
    <3>. HIDE DEF lines
    <3>. QED  BY ONLY <1>2, <2>1, <2>2, <2>3, <3>3, <3>4, CallStays
  <2>7. CASE prog[c].pc # "exit" /\ c = fd
    <3>. DEFINE k == Len(prog[c].returned)
                q == scene.script[c][k + 1]
    <3>1. ~Nowhere(c)
      BY <2>7 DEF Nowhere
    <3>2. prog[c].pc = Wait /\ Types(c) /\ Asked(c, k) /\ Somewhere(c, q)
      BY <2>1, <2>7, <3>1, CallIs
    <3>3. sock[c].up = <<>> /\ daemon.st.repeat.fd # c /\ buffer = Pieces(q)
      BY <2>7, <3>2 DEF Somewhere
    <3>4. q \in Request /\ scene.packet \in Nat /\ scene.packet >= 3
      BY <1>1, <1>15, <2>1, <3>2, WaitsFor, IrsendScene
    <3>. HIDE DEF q, k
    <3>5. /\ \A p : Text(Pieces(p)) = p
          /\ NextPacket(Pieces(q), <<>>, scene.packet) = [buffer |-> <<>>, stream |-> <<>>, ok |-> TRUE]
      BY <3>4, PiecesRead
    <3>6. message = q
      BY <3>3, <3>5 DEF message
    <3>7. socks[c].up = <<>>
      BY <1>10, <3>3
    <3>8. next = [buffer |-> <<>>, stream |-> <<>>, ok |-> TRUE]
      BY <1>9, <2>7, <3>3, <3>5, <3>7
    <3>9. sock'[c].up = <<>> /\ daemon'.cmd.fd = None
      BY <1>11, <2>7, <3>7, <3>8
    <3>10. CASE out = <<>> /\ cast = <<>> /\ do.st.repeat.fd = fd /\ do.st.repeat.message = message
      <4>1. ASSUME NEW p PROVE Placed(c, p)
        <5>1. ASSUME Somewhere(c, p) PROVE p = q
          <6>1. buffer = Pieces(p)
            BY <2>7, <5>1 DEF Somewhere
          <6>2. Text(Pieces(p)) = p /\ Text(Pieces(q)) = q
            BY ONLY <3>5
          <6>3. Pieces(p) = Pieces(q)
            BY ONLY <3>3, <6>1
          <6>. QED  BY ONLY <6>2, <6>3
        <5>2. daemon'.st.repeat.fd = c /\ daemon'.st.repeat.message = q /\ daemon'.cmd.fd # c /\ sock'[c].up = <<>>
          BY ONLY <1>11, <2>1, <2>7, <3>6, <3>9, <3>10
        <5>3. ASSUME p = q PROVE Somewhere(c, p)'
          BY ONLY <5>2, <5>3 DEF Somewhere
        <5>. QED  BY ONLY <3>1, <5>1, <5>3, Zenon DEF Placed
      <4>2. Grew(sock[c], sock'[c], lines) /\ told'[c].answers = told[c].answers
        BY <1>11, <2>5, <2>7, <3>10
      <4>. HIDE DEF lines
      <4>. QED  BY ONLY <1>2, <2>1, <2>2, <2>3, <4>1, <4>2, CallStays
    <3>11. CASE /\ message \in Request => IsReply(message, out)
                /\ do.st.repeat.fd = daemon.st.repeat.fd /\ do.st.repeat.message = daemon.st.repeat.message
      <4>1. IsReply(q, out)
        BY <3>4, <3>6, <3>11
      <4>2. Nowhere(c)'
        BY <1>11, <2>1, <3>3, <3>9, <3>11 DEF Nowhere
      <4>3. /\ sock'[c].down = Sent(c, out, cast, B)[c].down /\ sock'[c].cli = Sent(c, out, cast, B)[c].cli
            /\ sock'[c].srv => Sent(c, out, cast, B)[c].srv
        BY <1>9, <1>11, <2>7
      <4>4. ToldBy(told', c, c, out, cast, B)
        BY <1>12, <2>7
      <4>. QED
        BY ONLY <1>1, <1>2, <1>13, <1>15, <2>1, <3>2, <4>1, <4>2, <4>3, <4>4, AnsweredCall DEF q, k
    <3>. QED  BY <1>8, <3>10, <3>11 DEF out, cast
  <2>. QED  BY <2>4, <2>6, <2>7
<1>. QED  BY <1>14, <1>15

LEMMA ExecutesCalls ==
    ASSUME CallsInv, LircdExecutes
    PROVE  (\A c \in Clients : Kind(c) = "irsend" => Calling(c)') /\ EventShape'
<1>1. HeardInv
  BY DEF CallsInv
<1>. QED  BY <1>1, ExecutesIs, ExecutedCalls
-----------------------------------------------------------------------------
(* The steps of irsend *)

(* What a step of one that waits does to its call: nothing, it returns the *)
(* answer, or it fails because the connection is not sound.                *)
CallSteps(c) ==
    LET k == Len(prog[c].returned)
    IN \/ prog'[c].pc = Wait /\ prog'[c].returned = prog[c].returned
       \/ /\ Len(told[c].answers) = k + 1 /\ prog'[c].returned = Append(prog[c].returned, told[c].answers[k + 1])
          /\ prog'[c].pc # Wait
       \/ /\ ~sock[c].srv \/ told[c].events # <<>>
          /\ prog'[c].returned = Append(prog[c].returned, "EPROTO") /\ prog'[c].pc # Wait

(* Answered(c), by the context after the read and what is left to read.    *)
AnsweredAs(c, new, d2) ==
    /\ prog'[c].script = prog[c].script /\ sock'[c].up = sock[c].up /\ sock'[c].srv = sock[c].srv
    /\ new.result = None =>
          /\ prog'[c].pc = prog[c].pc /\ prog'[c].returned = prog[c].returned /\ prog'[c].ctx = new
          /\ sock'[c].down = d2 /\ sock'[c].cli = sock[c].cli
    /\ new.result # None => prog'[c].returned = Append(prog[c].returned, new.result) /\ prog'[c].ctx = NoCtx
    /\ new.result # None /\ new.result = "ok" =>
          prog'[c].pc = "call" /\ sock'[c].down = d2 /\ sock'[c].cli = sock[c].cli
    /\ new.result # None /\ new.result # "ok" => prog'[c].pc = "exit"

LEMMA AnsweredIs ==
    ASSUME Shape, NEW c \in Clients, Answered(c), NEW new, new = Stepped(prog[c].ctx, sock[c]),
           NEW d2, Drained(prog[c].ctx, sock[c]) = [sock[c] EXCEPT !.down = d2]
    PROVE  AnsweredAs(c, new, d2)
<1>. DEFINE d == Drained(prog[c].ctx, sock[c])
<1>1. /\ DOMAIN sock = Clients /\ DOMAIN prog = Clients /\ DOMAIN sock[c] = {"up", "down", "srv", "cli"}
      /\ DOMAIN prog[c] = {"pc", "script", "ctx", "buffer", "size", "code", "heard", "out", "returned"}
  BY Domains DEF Shape, SockShape, ProgShape
<1>2. d.up = sock[c].up /\ d.srv = sock[c].srv /\ d.down = d2 /\ d.cli = sock[c].cli
  BY <1>1
<1>3. IF new.result = None
      THEN prog' = [prog EXCEPT ![c].ctx = new] /\ sock' = [sock EXCEPT ![c] = d]
      ELSE /\ prog' = [prog EXCEPT ![c].ctx = NoCtx, ![c].returned = Append(@, new.result),
                                   ![c].pc = IF new.result = "ok" THEN "call" ELSE "exit"]
           /\ sock' = [sock EXCEPT ![c] = IF new.result = "ok" THEN d ELSE [@ EXCEPT !.cli = FALSE, !.down = <<>>]]
  <2>1. LET ctx == Stepped(prog[c].ctx, sock[c])
        IN IF ctx.result = None
           THEN prog' = [prog EXCEPT ![c].ctx = ctx] /\ sock' = [sock EXCEPT ![c] = d]
           ELSE /\ prog' = [prog EXCEPT ![c].ctx = NoCtx, ![c].returned = Append(@, ctx.result),
                                        ![c].pc = IF ctx.result = "ok" THEN "call" ELSE "exit"]
                /\ sock' = [sock EXCEPT ![c] = IF ctx.result = "ok" THEN d ELSE [@ EXCEPT !.cli = FALSE, !.down = <<>>]]
    BY <1>1 DEF Answered
  <2>. HIDE DEF d
  <2>. QED  BY <2>1, Zenon
<1>. HIDE DEF d
<1>4. CASE new.result = None
  BY ONLY <1>1, <1>2, <1>3, <1>4, c \in Clients DEF AnsweredAs
<1>5. CASE new.result # None
  <2>1. /\ prog' = [prog EXCEPT ![c].ctx = NoCtx, ![c].returned = Append(@, new.result),
                                ![c].pc = IF new.result = "ok" THEN "call" ELSE "exit"]
        /\ sock' = [sock EXCEPT ![c] = IF new.result = "ok" THEN d ELSE [@ EXCEPT !.cli = FALSE, !.down = <<>>]]
    BY ONLY <1>3, <1>5
  <2>2. /\ prog'[c].script = prog[c].script /\ prog'[c].returned = Append(prog[c].returned, new.result)
        /\ prog'[c].ctx = NoCtx /\ prog'[c].pc = IF new.result = "ok" THEN "call" ELSE "exit"
    BY ONLY <1>1, <2>1, c \in Clients
  <2>3. sock'[c] = IF new.result = "ok" THEN d ELSE [sock[c] EXCEPT !.cli = FALSE, !.down = <<>>]
    BY ONLY <1>1, <2>1, c \in Clients
  <2>. QED  BY ONLY <1>1, <1>2, <1>5, <2>2, <2>3 DEF AnsweredAs
<1>. QED  BY <1>4, <1>5

LEMMA AnsweredCalls ==
    ASSUME CallsInv, NEW c \in Clients, Answered(c)
    PROVE  Calling(c)' /\ CallSteps(c)
<1>. DEFINE k == Len(prog[c].returned)
            q == scene.script[c][k + 1]
            s == sock[c]
            ctx == prog[c].ctx
            b == ctx.buffer
            d == s.down
            e == told[c].events
            r == told[c].answers[k + 1]
            E == PieceOf(Line)
            R == {"ok", "EIO", "EPROTO"}
<1>1. Shape /\ Kind(c) = "irsend" /\ Calling(c) /\ prog[c].pc = Wait
  BY DEF CallsInv, HeardInv, Answered
<1>2. /\ Types(c) /\ Called(c, k + 1) /\ prog[c].returned \in Seq(R)
      /\ \/ Asked(c, k) /\ (Nowhere(c) \/ Somewhere(c, q))
         \/ Told1(c, k) /\ Nowhere(c)
  BY <1>1 DEF Calling, Wait
<1>3. /\ s.srv => s.cli
      /\ d \in Seq(E) /\ b \in Seq(E) /\ e \in Seq(Line) /\ told[c].answers \in Seq({"ok", "EIO"})
      /\ DOMAIN ctx = Fields
  BY <1>2 DEF Types
<1>4. UNCHANGED <<scene, daemon, told>> /\ Reads(ctx, s)
  BY DEF Answered
<1>5. scene.packet \in Nat /\ scene.packet >= 3 /\ q \in Request /\ q # <<"END">> /\ k \in Nat
  <2>1. scene.packet \in Nat /\ scene.packet >= 3
    BY <1>1, IrsendScene
  <2>2. q \in Request
    BY <1>1, WaitsFor
  <2>3. k \in Nat
    BY <1>2
  <2>. HIDE DEF q
  <2>4. q # <<"END">>
    BY <2>2 DEF Request
  <2>. QED  BY <2>1, <2>2, <2>3, <2>4
<1>6. "down" \in DOMAIN s
  BY <1>1, Domains DEF Shape, SockShape
<1>7. PICK string, mid : \E d2 \in Seq(E) :
         /\ Alike(ctx, mid) /\ mid.buffer \in Seq(E)
         /\ Stepped(ctx, s) = ReplyLine(mid, string) /\ Drained(ctx, s) = [s EXCEPT !.down = d2]
         /\ \/ Takes(b \o d, mid.buffer \o d2, string)
            \/ Peeks(b \o d, mid.buffer \o d2, string, d2, s.srv)
  <2>. HIDE DEF s, d, ctx, b, E
  <2>1. ctx.buffer = b /\ s.down = d
    BY DEF b, d
  <2>. QED  BY <1>3, <1>4, <1>5, <1>6, <2>1, ReadOnce DEF E
<1>8. PICK d2 \in Seq(E) :
         /\ Alike(ctx, mid) /\ mid.buffer \in Seq(E)
         /\ Stepped(ctx, s) = ReplyLine(mid, string) /\ Drained(ctx, s) = [s EXCEPT !.down = d2]
         /\ \/ Takes(b \o d, mid.buffer \o d2, string)
            \/ Peeks(b \o d, mid.buffer \o d2, string, d2, s.srv)
  BY <1>7
<1>. DEFINE new == ReplyLine(mid, string)
            S == b \o d
            S2 == mid.buffer \o d2
<1>9. DOMAIN new = Fields /\ new.buffer = mid.buffer
  BY <1>3, <1>8, LoopFrame
<1>10. new = Stepped(ctx, s)
  BY <1>8
<1>. HIDE DEF new
<1>11. /\ prog'[c].script = prog[c].script /\ sock'[c].up = sock[c].up /\ sock'[c].srv = sock[c].srv
       /\ new.result = None =>
             /\ prog'[c].pc = prog[c].pc /\ prog'[c].returned = prog[c].returned /\ prog'[c].ctx = new
             /\ sock'[c].down = d2 /\ sock'[c].cli = sock[c].cli
       /\ new.result # None => prog'[c].returned = Append(prog[c].returned, new.result) /\ prog'[c].ctx = NoCtx
       /\ new.result # None /\ new.result = "ok" =>
             prog'[c].pc = "call" /\ sock'[c].down = d2 /\ sock'[c].cli = sock[c].cli
       /\ new.result # None /\ new.result # "ok" => prog'[c].pc = "exit"
  <2>1. Drained(prog[c].ctx, sock[c]) = [sock[c] EXCEPT !.down = d2] /\ new = Stepped(prog[c].ctx, sock[c])
    BY <1>8, <1>10
  <2>2. Shape /\ c \in Clients /\ Answered(c)
    BY <1>1
  <2>3. AnsweredAs(c, new, d2)
    BY ONLY <2>1, <2>2, AnsweredIs
  <2>. QED  BY ONLY <2>3 DEF AnsweredAs
<1>12. S \in Seq(E) /\ Stream(c) = S
  BY <1>3 DEF Stream
<1>. HIDE DEF S, S2
<1>13. Takes(S, S2, string) \/ Peeks(S, S2, string, d2, s.srv)
  BY <1>8 DEF S, S2
<1>14. \/ /\ new.result = None /\ Asked(c, k) /\ (Nowhere(c) \/ Somewhere(c, q))
          /\ Calm(new, q, S2, s.srv, e)
       \/ /\ new.result = None /\ Told1(c, k) /\ Nowhere(c)
          /\ OnTheWay(new, q, S2, s.srv, e, r)
       \/ new.result = r /\ Told1(c, k) /\ Nowhere(c) /\ EventsAhead(d2, s.srv, e)
       \/ new.result = "EPROTO" /\ (~s.srv \/ e # <<>>)
  <2>1. CASE Asked(c, k) /\ (Nowhere(c) \/ Somewhere(c, q))
    <3>1. Calm(ctx, q, S, s.srv, e)
      BY <1>12, <2>1 DEF Asked
    <3>. HIDE DEF s, q, e, ctx, E, b, d
    <3>2. \/ ReplyLine(mid, string).result = None /\ Calm(ReplyLine(mid, string), q, S2, s.srv, e)
          \/ ReplyLine(mid, string).result = "EPROTO" /\ (~s.srv \/ e # <<>>)
      BY ONLY <1>8, <1>12, <1>13, <3>1, CalmReads DEF E
    <3>. QED  BY <2>1, <3>2 DEF new
  <2>2. CASE Told1(c, k) /\ Nowhere(c)
    <3>1. OnTheWay(ctx, q, S, s.srv, e, r) /\ r \in {"ok", "EIO"}
      BY <1>12, <2>2 DEF Told1
    <3>. HIDE DEF s, q, e, ctx, E, b, d, r
    <3>2. S2 = mid.buffer \o d2
      BY DEF S2
    <3>3. /\ S \in Seq(E) /\ q # <<"END">> /\ r \in {"ok", "EIO"} /\ OnTheWay(ctx, q, S, s.srv, e, r)
          /\ Alike(ctx, mid) /\ mid.buffer \in Seq(E) /\ d2 \in Seq(E) /\ S2 = mid.buffer \o d2
          /\ Takes(S, S2, string) \/ Peeks(S, S2, string, d2, s.srv)
      BY ONLY <1>5, <1>8, <1>12, <1>13, <3>1, <3>2
    <3>4. \/ ReplyLine(mid, string).result = None /\ OnTheWay(ReplyLine(mid, string), q, S2, s.srv, e, r)
          \/ Ends(ReplyLine(mid, string), d2, s.srv, e, r)
      BY ONLY <3>3, OnTheWayReads, Zenon DEF E
    <3>5. \/ new.result = None /\ OnTheWay(new, q, S2, s.srv, e, r)
          \/ Ends(new, d2, s.srv, e, r)
      BY <3>4 DEF new
    <3>. QED  BY ONLY <2>2, <3>5 DEF Ends
  <2>. QED  BY <1>2, <2>1, <2>2
<1>15. CASE new.result = None
  <2>1. prog'[c].pc = Wait /\ prog'[c].returned = prog[c].returned /\ prog'[c].ctx = new /\ sock'[c].down = d2
        /\ sock'[c].cli = sock[c].cli
    BY <1>1, <1>11, <1>15
  <2>2. Types(c)'
    BY <1>3, <1>4, <1>8, <1>9, <1>11, <2>1 DEF Types
  <2>3. Called(c, k + 1)'
    BY <1>2, <1>4, <1>11, <2>1 DEF Called
  <2>4. Stream(c)' = S2
    BY <1>9, <2>1 DEF Stream, S2
  <2>5. (Nowhere(c)' = Nowhere(c)) /\ \A p : Somewhere(c, p)' = Somewhere(c, p)
    BY <1>4, <1>11 DEF Nowhere, Somewhere
  <2>6. None # "EPROTO"
    BY DEF None
  <2>7. CASE Asked(c, k) /\ (Nowhere(c) \/ Somewhere(c, q)) /\ Calm(new, q, S2, s.srv, e)
    <3>1. Asked(c, k)'
      BY <1>4, <1>11, <2>1, <2>4, <2>7 DEF Asked
    <3>2. Nowhere(c)' \/ Somewhere(c, q)'
      BY <1>4, <2>1, <2>5, <2>7
    <3>. QED  BY <1>2, <2>1, <2>2, <2>3, <3>1, <3>2 DEF Calling, CallSteps, Wait
  <2>8. CASE Told1(c, k) /\ Nowhere(c) /\ OnTheWay(new, q, S2, s.srv, e, r)
    <3>1. Told1(c, k)'
      BY <1>4, <1>11, <2>1, <2>4, <2>8 DEF Told1
    <3>2. Nowhere(c)'
      BY <2>5, <2>8
    <3>. QED  BY <1>2, <2>1, <2>2, <2>3, <3>1, <3>2 DEF Calling, CallSteps, Wait
  <2>9. ~(new.result = r /\ Told1(c, k))
    <3>1. Told1(c, k) => r \in {"ok", "EIO"}
      BY DEF Told1
    <3>. QED  BY <1>15, <3>1 DEF None
  <2>. QED  BY ONLY <1>14, <1>15, <2>6, <2>7, <2>8, <2>9
<1>16. CASE new.result # None
  <2>1. prog'[c].returned = Append(prog[c].returned, new.result) /\ prog'[c].ctx = NoCtx
    BY <1>11, <1>16
  <2>2. CASE new.result = r /\ Told1(c, k) /\ Nowhere(c) /\ EventsAhead(d2, s.srv, e)
    <3>1. r \in {"ok", "EIO"} /\ Len(told[c].answers) = k + 1
      BY <2>2 DEF Told1
    <3>. HIDE DEF r
    <3>2. prog'[c].returned = Append(prog[c].returned, r) /\ prog'[c].returned \in Seq(R) /\ Len(prog'[c].returned) = k + 1
      BY <1>2, <2>1, <2>2, <3>1
    <3>3. prog'[c].pc \in {"call", "exit"}
      BY <1>11, <1>16
    <3>4. CallSteps(c)
      BY <3>1, <3>2, <3>3 DEF CallSteps, r, Wait
    <3>5. CASE r = "ok"
      <4>1. prog'[c].pc = "call" /\ sock'[c].down = d2 /\ sock'[c].cli = sock[c].cli
        BY <1>11, <1>16, <2>2, <3>5
      <4>2. Types(c)'
        <5>1. NoCtx.buffer \in Seq(E) /\ DOMAIN NoCtx = Fields
          BY DEF NoCtx, lirc_command_init, Fields
        <5>. QED  BY <1>3, <1>4, <1>8, <1>11, <2>1, <4>1, <5>1 DEF Types
      <4>3. PICK m \in Nat : m = k + 1
        BY <1>5
      <4>4. Called(c, m)'
        BY <1>2, <1>4, <1>11, <4>3 DEF Called
      <4>5. Nowhere(c)' /\ EventsAhead(sock'[c].down, sock'[c].srv, told'[c].events)
        BY <1>4, <1>11, <2>2, <4>1 DEF Nowhere
      <4>6. Len(told'[c].answers) = m /\ Len(prog'[c].returned) = m
        BY <1>4, <3>1, <3>2, <4>3
      <4>. QED  BY ONLY <3>2, <3>4, <4>1, <4>2, <4>4, <4>5, <4>6 DEF Calling, Wait
    <3>6. CASE r # "ok"
      <4>1. prog'[c].pc = "exit"
        BY <1>11, <1>16, <2>2, <3>6
      <4>. QED  BY <3>2, <3>4, <4>1 DEF Calling, Wait
    <3>. QED  BY <3>5, <3>6
  <2>3. CASE new.result = "EPROTO" /\ (~s.srv \/ e # <<>>)
    <3>1. prog'[c].pc = "exit"
      BY <1>11, <1>16, <2>3
    <3>2. prog'[c].returned = Append(prog[c].returned, "EPROTO") /\ prog'[c].returned \in Seq(R)
      BY <1>2, <2>1, <2>3
    <3>. QED  BY <2>3, <3>1, <3>2 DEF Calling, CallSteps, Wait
  <2>. QED  BY ONLY <1>14, <1>16, <2>2, <2>3
<1>. QED  BY <1>15, <1>16

LEMMA SendsCalls ==
    ASSUME CallsInv, NEW c \in Clients, Sends(c)
    PROVE  /\ Calling(c)' /\ prog'[c].returned = prog[c].returned
           /\ prog'[c].pc = Wait => Len(prog[c].returned) + 1 <= Len(scene.script[c])
                                    /\ Len(told[c].answers) = Len(prog[c].returned)
<1>. DEFINE k == Len(prog[c].returned)
            s == sock[c]
            script == prog[c].script
            q == scene.script[c][k + 1]
<1>1. Shape /\ Kind(c) = "irsend" /\ Calling(c) /\ prog[c].pc = "call" /\ script \in Seq(Words)
  BY DEF CallsInv, HeardInv, Sends, Shape, ProgShape
<1>2. /\ Types(c) /\ prog[c].returned \in Seq({"ok", "EIO", "EPROTO"})
      /\ Called(c, k) /\ Len(told[c].answers) = k /\ Nowhere(c)
      /\ EventsAhead(s.down, s.srv, told[c].events)
  BY <1>1 DEF Calling, Wait
<1>3. UNCHANGED <<scene, daemon, told>>
  BY DEF Sends
<1>4. /\ DOMAIN sock = Clients /\ DOMAIN prog = Clients /\ DOMAIN sock[c] = {"up", "down", "srv", "cli"}
      /\ DOMAIN prog[c] = {"pc", "script", "ctx", "buffer", "size", "code", "heard", "out", "returned"}
  BY <1>1, Domains DEF Shape, SockShape, ProgShape
<1>5. CASE script = <<>>
  <2>1. prog'[c].pc = "exit" /\ prog'[c].returned = prog[c].returned
    BY <1>4, <1>5 DEF Sends
  <2>. QED  BY <1>2, <2>1 DEF Calling, Wait
<1>6. CASE script # <<>>
  <2>. DEFINE up == IF s.srv THEN s.up \o Pieces(Head(script)) ELSE s.up
  <2>1. /\ prog' = [prog EXCEPT ![c].pc = Wait, ![c].script = Tail(@), ![c].ctx = lirc_command_init(Head(script))]
        /\ sock' = [sock EXCEPT ![c].up = up]
    BY <1>4, <1>6 DEF Sends
  <2>. HIDE DEF up
  <2>2. /\ prog'[c].pc = Wait /\ prog'[c].script = Tail(script) /\ prog'[c].ctx = lirc_command_init(Head(script))
        /\ prog'[c].returned = prog[c].returned
        /\ sock'[c].up = up /\ sock'[c].down = s.down /\ sock'[c].srv = s.srv /\ sock'[c].cli = s.cli
    BY <1>4, <2>1
  <2>3. /\ k <= Len(scene.script[c]) /\ Len(script) = Len(scene.script[c]) - k
        /\ \A i \in 1..Len(script) : script[i] = scene.script[c][k + i]
    BY <1>2 DEF Called
  <2>4. k \in Nat /\ Len(scene.script[c]) \in Nat /\ Len(script) \in Nat /\ Len(script) >= 1
    <3>1. scene.script[c] \in Seq(Request)
      BY <1>1, IrsendScene
    <3>. QED  BY <1>1, <1>2, <1>6, <3>1
  <2>5. Head(script) = q
    <3>1. Head(script) = script[1] /\ 1 \in 1..Len(script)
      BY <1>1, <1>6, <2>4
    <3>. QED  BY <2>3, <3>1
  <2>6. Called(c, k + 1)'
    <3>1. Len(Tail(script)) = Len(script) - 1 /\ \A i \in 1..Len(Tail(script)) : Tail(script)[i] = script[i + 1]
      BY <1>1, <1>6
    <3>2. k + 1 <= Len(scene.script[c]) /\ Len(Tail(script)) = Len(scene.script[c]) - (k + 1)
      <4>. DEFINE l == Len(scene.script[c])
                  n == Len(script)
                  n2 == Len(Tail(script))
      <4>1. k <= l /\ n = l - k /\ n2 = n - 1 /\ n >= 1 /\ k \in Nat /\ l \in Nat /\ n \in Nat
        BY <2>3, <2>4, <3>1
      <4>. HIDE DEF k, l, n, n2
      <4>2. k + 1 <= l /\ n2 = l - (k + 1)
        BY ONLY <4>1
      <4>. QED  BY <4>2 DEF l, n2
    <3>3. ASSUME NEW i \in 1..Len(Tail(script)) PROVE Tail(script)[i] = scene.script[c][(k + 1) + i]
      <4>1. i + 1 \in 1..Len(script) /\ k + (i + 1) = (k + 1) + i
        <5>. DEFINE n == Len(script)
                    n2 == Len(Tail(script))
        <5>1. n2 = n - 1 /\ n \in Nat /\ k \in Nat /\ i \in 1..n2
          BY <2>4, <3>1
        <5>. HIDE DEF k, n, n2
        <5>2. i + 1 \in 1..n /\ k + (i + 1) = (k + 1) + i
          BY ONLY <5>1
        <5>. QED  BY <5>2 DEF n
      <4>. QED  BY <2>3, <3>1, <4>1
    <3>. HIDE DEF k, script
    <3>4. k' = k
      BY <2>2 DEF k
    <3>. QED  BY <1>3, <2>2, <3>2, <3>3, <3>4 DEF Called
  <2>. DEFINE ctx == lirc_command_init(q)
  <2>7. ctx.buffer = <<>> /\ DOMAIN ctx = Fields /\ Calm(ctx, q, s.down, s.srv, told[c].events)
    BY <1>2 DEF lirc_command_init, Fields, Calm, InLoop
  <2>8. Types(c)'
    <3>1. s.srv => s.cli
      BY <1>2 DEF Types
    <3>2. s.down \in Seq(PieceOf(Line)) /\ told[c].events \in Seq(Line) /\ told[c].answers \in Seq({"ok", "EIO"})
      BY <1>2 DEF Types
    <3>3. <<>> \in Seq(PieceOf(Line)) /\ prog'[c].ctx.buffer = <<>> /\ DOMAIN prog'[c].ctx = Fields
      BY <2>2, <2>5, <2>7
    <3>. QED  BY <1>3, <2>2, <3>1, <3>2, <3>3 DEF Types
  <2>9. Stream(c)' = s.down
    <3>1. s.down \in Seq(PieceOf(Line)) /\ prog'[c].ctx.buffer = <<>>
      BY <1>2, <2>2, <2>5, <2>7 DEF Types
    <3>2. \A p \in Seq(PieceOf(Line)) : <<>> \o p = p
      OBVIOUS
    <3>3. <<>> \o s.down = s.down
      BY ONLY <3>1, <3>2, Zenon
    <3>4. Stream(c)' = prog'[c].ctx.buffer \o sock'[c].down
      BY DEF Stream
    <3>. QED  BY ONLY <2>2, <3>1, <3>3, <3>4
  <2>10. Asked(c, k)'
    <3>1. prog'[c].ctx = ctx /\ q' = q /\ k' = k
      BY <1>3, <2>2, <2>5
    <3>. HIDE DEF ctx, k, q
    <3>. QED  BY <1>2, <1>3, <2>2, <2>7, <2>9, <3>1 DEF Asked, q
  <2>11. Nowhere(c)' \/ Somewhere(c, q)'
    <3>1. s.up = <<>> /\ daemon.cmd.fd # c /\ daemon.st.repeat.fd # c
      BY <1>2 DEF Nowhere
    <3>2. up = <<>> \/ up = Pieces(q)
      BY <2>5, <3>1 DEF up, Pieces
    <3>3. q' = q
      BY <1>3, <2>2
    <3>. HIDE DEF q
    <3>. QED  BY <1>3, <2>2, <3>1, <3>2, <3>3 DEF Nowhere, Somewhere
  <2>12. Calling(c)'
    BY ONLY <1>2, <2>2, <2>6, <2>8, <2>10, <2>11 DEF Calling, Wait
  <2>. QED  BY <1>2, <2>2, <2>3, <2>4, <2>12
<1>. QED  BY <1>5, <1>6
-----------------------------------------------------------------------------
(* The invariant *)

LEMMA InitCalls == Init => CallsInv
<1>. SUFFICES ASSUME Init PROVE CallsInv
  OBVIOUS
<1>1. scene \in Scenes /\ InitScene(scene) /\ HeardInv
  BY InitInv DEF Init
<1>2. \A c \in Clients : told[c].events = <<>> /\ told[c].answers = <<>>
  BY DEF Init
<1>3. EventShape
  <2>1. scene.events \in Seq(Event) /\ scene.peer \in Seq(Event)
    BY <1>1, CallsAssumption
  <2>2. /\ daemon.left = scene.events /\ daemon.hups = scene.hups
        /\ peer.left = scene.peer /\ peer.stream = <<>> /\ peer.last = <<>>
    BY <1>1 DEF InitScene
  <2>3. <<>> \in Seq(PieceOf(Event)) /\ <<>> \in Seq(Line)
    OBVIOUS
  <2>4. (\E c \in Clients : Kind(c) = "irsend") => scene.hups = 0
    BY <1>1, IrsendScene DEF HeardInv
  <2>. QED  BY <1>2, <2>1, <2>2, <2>3, <2>4 DEF EventShape
<1>4. ASSUME NEW c \in Clients, Kind(c) = "irsend" PROVE Calling(c)
  <2>1. prog[c] = Program(scene, c)
    BY <1>1 DEF InitScene
  <2>2. prog[c].pc = "call" /\ prog[c].script = scene.script[c] /\ prog[c].ctx = NoCtx /\ prog[c].returned = <<>>
    BY <1>4, <2>1 DEF Program, Kind
  <2>3. sock[c] = IF c \in Range(scene.clients) THEN Open ELSE Closed
    BY <1>1 DEF InitScene
  <2>4. sock[c].up = <<>> /\ sock[c].down = <<>> /\ (sock[c].srv => sock[c].cli)
    BY <2>3 DEF Open, Closed
  <2>5. daemon.cmd.fd = None /\ daemon.st.repeat.fd = None /\ c # None
    BY <1>1, NetworkAssumption DEF InitScene, InitDaemon, NotRepeating, NoCommand
  <2>6. Nowhere(c)
    BY <2>4, <2>5 DEF Nowhere
  <2>7. Types(c)
    <3>1. NoCtx.buffer = <<>> /\ DOMAIN NoCtx = Fields
      BY DEF NoCtx, lirc_command_init, Fields
    <3>2. /\ <<>> \in Seq(PieceOf(Line)) /\ <<>> \in Seq(Line) /\ <<>> \in Seq({"ok", "EIO"})
      OBVIOUS
    <3>. QED  BY ONLY <1>2, <2>2, <2>4, <3>1, <3>2, c \in Clients DEF Types
  <2>8. Called(c, 0)
    <3>1. scene.script[c] \in Seq(Request)
      BY <1>1, <1>4, IrsendScene DEF HeardInv
    <3>. QED  BY <2>2, <3>1 DEF Called
  <2>9. EventsAhead(sock[c].down, sock[c].srv, told[c].events)
    BY <2>4, EventsNone
  <2>10. <<>> \in Seq({"ok", "EIO", "EPROTO"}) /\ Len(<<>>) = 0
    OBVIOUS
  <2>. QED  BY <1>2, <2>2, <2>6, <2>7, <2>8, <2>9, <2>10 DEF Calling, Wait
<1>. QED  BY <1>1, <1>3, <1>4 DEF CallsInv

LEMMA CallsKept ==
    ASSUME CallsInv, [Next]_vars
    PROVE  CallsInv'
<1>1. HeardInv /\ HeardInv' /\ EventShape
  BY NextKeeps DEF CallsInv
<1>2. scene' = scene
  <2>1. LircdPolls \/ LircdExecutes \/ LircdRepeats \/ LircdReceives \/ LircdHups \/ LircdDies => scene' = scene
    BY DEF LircdPolls, LircdExecutes, LircdRepeats, LircdReceives, LircdHups, LircdDies
  <2>2. PeerConnects \/ PeerWaits \/ PeerReads \/ PeerSays \/ PeerEnds => scene' = scene
    BY DEF PeerConnects, PeerWaits, PeerReads, PeerSays, PeerEnds
  <2>3. ASSUME NEW p \in Clients, LircdReads(p) \/ Runs(p) \/ Quits(p) PROVE scene' = scene
    BY <1>1, <2>3, RunsMove DEF LircdReads, OneMoves, Quits
  <2>4. ASSUME NEW d \in Daemons, RcRuns(d) PROVE scene' = scene
    BY <1>1, <2>4, RcStays
  <2>5. Quiet \/ UNCHANGED vars => scene' = scene
    BY DEF Quiet, vars
  <2>. QED  BY <2>1, <2>2, <2>3, <2>4, <2>5 DEF Next
<1>3. (\A c \in Clients : Kind(c) = "irsend" => Calling(c)') /\ EventShape'
  <2>1. CASE LircdPolls \/ LircdExecutes \/ LircdRepeats \/ LircdReceives \/ LircdHups
    BY <2>1, PollsCalls, ExecutesCalls, RepeatsCalls, ReceivesCalls, HupsCalls
  <2>2. CASE LircdDies
    <3>1. EventShape'
      <4>1. told' = told /\ peer' = peer /\ daemon' = [daemon EXCEPT !.up = FALSE, !.clis = <<>>]
        BY <2>2 DEF LircdDies
      <4>2. daemon'.left = daemon.left /\ daemon'.hups = daemon.hups
        BY <1>1, <4>1 DEF HeardInv, Shape, DaemonShape
      <4>. QED  BY <1>1, <1>2, <4>1, <4>2 DEF EventShape, Kind
    <3>. QED  BY <2>2, <3>1, DiesCalls
  <2>3. CASE PeerConnects \/ PeerWaits \/ PeerSays \/ PeerEnds \/ PeerReads
    BY <2>3, PeerCalls, PeerReadsCalls
  <2>4. ASSUME NEW p \in Clients, LircdReads(p)
        PROVE  (\A c \in Clients : Kind(c) = "irsend" => Calling(c)') /\ EventShape'
    <3>1. told' = told /\ peer' = peer
      BY <2>4 DEF LircdReads
    <3>2. daemon'.left = daemon.left /\ daemon'.hups = daemon.hups
      <4>1. DOMAIN daemon = {"st", "up", "cmd", "left", "clis", "type", "marks", "hups"}
        BY <1>1 DEF HeardInv, Shape, DaemonShape
      <4>2. \E x, y, z : \/ daemon' = [daemon EXCEPT !.clis = x, !.marks = y]
                         \/ daemon' = [daemon EXCEPT !.cmd = z, !.marks = y]
        BY <2>4, Zenon DEF LircdReads
      <4>. QED  BY <4>1, <4>2
    <3>3. EventShape'
      BY <1>1, <1>2, <3>1, <3>2 DEF EventShape, Kind
    <3>. QED  BY <2>4, <3>3, ReadsCalls
  <2>5. ASSUME NEW p \in Clients, Runs(p)
        PROVE  (\A c \in Clients : Kind(c) = "irsend" => Calling(c)') /\ EventShape'
    <3>1. OneMoves(p)
      BY <1>1, <2>5, RunsMove
    <3>2. Kind(p) = "irsend" => Calling(p)'
      BY <2>5, IrsendRuns, SendsCalls, AnsweredCalls
    <3>. QED  BY <3>1, <3>2, OneCalls
  <2>6. ASSUME NEW p \in Clients, Quits(p)
        PROVE  (\A c \in Clients : Kind(c) = "irsend" => Calling(c)') /\ EventShape'
    <3>1. OneMoves(p) /\ Kind(p) # "irsend"
      BY <1>1, <2>6, QuitsMove
    <3>. QED  BY <3>1, OneCalls
  <2>7. CASE (\E d \in Daemons : RcRuns(d)) \/ Quiet \/ UNCHANGED vars
    <3>1. UNCHANGED <<scene, daemon, sock, prog, peer>> /\ ToldSame
      <4>1. CASE \E d \in Daemons : RcRuns(d)
        BY <1>1, <4>1, RcStays
      <4>2. CASE Quiet \/ UNCHANGED vars
        BY <4>2 DEF Quiet, vars, ToldSame
      <4>. QED  BY <2>7, <4>1, <4>2
    <3>2. peer'.left \in Seq(Event) /\ peer'.stream \in Seq(PieceOf(Event)) /\ peer'.last \in Seq(PieceOf(Event))
      BY <1>1, <3>1 DEF EventShape
    <3>3. SameDaemon
      BY <3>1 DEF SameDaemon
    <3>. QED  BY <3>1, <3>2, <3>3, SameCalls
  <2>. QED  BY <2>1, <2>2, <2>3, <2>4, <2>5, <2>6, <2>7 DEF Next
<1>4. \A c \in Clients : Kind(c)' = Kind(c)
  BY <1>2 DEF Kind
<1>. QED  BY <1>1, <1>3, <1>4 DEF CallsInv
-----------------------------------------------------------------------------
(* The refinement *)

Call == [c \in Clients |-> CallOf(c)]
Sound == [c \in Clients |-> sock[c].srv /\ told[c].events = <<>>]

CallAs(phase, q, v) == [phase |-> phase, request |-> q, result |-> v]
Becomes(x, p, r, y) == [x EXCEPT !.phase = p, !.result = r] = y
Enters(x, p, y) == [x EXCEPT !.phase = p] = y

LEMMA CallChanged ==
    ASSUME NEW phase, NEW q, NEW v, NEW p, NEW r
    PROVE  /\ Becomes(CallAs(phase, q, v), p, r, CallAs(p, q, r))
           /\ Enters(CallAs(phase, q, v), p, CallAs(p, q, v))
<1>. DEFINE x == CallAs(phase, q, v)
<1>0. x = [phase |-> phase, request |-> q, result |-> v]
  BY DEF CallAs
<1>. HIDE DEF x
<1>1. ASSUME NEW z, NEW w, z \in [phase : {p}, request : {q}, result : {w}]
      PROVE  z = [phase |-> p, request |-> q, result |-> w]
  BY <1>1
<1>2. [x EXCEPT !.phase = p, !.result = r] \in [phase : {p}, request : {q}, result : {r}]
  BY <1>0
<1>3. [x EXCEPT !.phase = p] \in [phase : {p}, request : {q}, result : {v}]
  BY <1>0
<1>4. /\ [x EXCEPT !.phase = p, !.result = r] = [phase |-> p, request |-> q, result |-> r]
      /\ [x EXCEPT !.phase = p] = [phase |-> p, request |-> q, result |-> v]
  BY ONLY <1>1, <1>2, <1>3
<1>. QED  BY <1>4, Zenon DEF x, Becomes, Enters, CallAs

(* No connection is mended. *)
Unmended ==
    \A c \in Clients : (sock'[c].srv => sock[c].srv) /\ (told'[c].events = <<>> => told[c].events = <<>>)

LEMMA BreaksIs ==
    ASSUME Unmended
    PROVE  Sound' \in {l \in [Clients -> BOOLEAN] : \A c \in Clients : l[c] => Sound[c]}
<1>1. \A c \in Clients : Sound[c] = (sock[c].srv /\ told[c].events = <<>>)
  BY DEF Sound
<1>2. \A c \in Clients : Sound'[c] = (sock'[c].srv /\ told'[c].events = <<>>)
  BY DEF Sound
<1>3. Sound' \in [Clients -> BOOLEAN]
  BY DEF Sound
<1>. HIDE DEF Sound
<1>4. \A c \in Clients : Sound'[c] => Sound[c]
  BY ONLY <1>1, <1>2, Unmended DEF Unmended
<1>. QED  BY <1>3, <1>4

LEMMA BreakStep ==
    ASSUME Unmended, \A c \in Clients : CallOf(c)' = CallOf(c)
    PROVE  C!Next
<1>1. Call' = Call
  BY DEF Call
<1>2. Sound' \in {l \in [Clients -> BOOLEAN] : \A c \in Clients : l[c] => Sound[c]}
  BY BreaksIs
<1>3. C!Break
  BY <1>1, <1>2, Zenon DEF C!Break, C!Breaks, Call, Sound
<1>. QED  BY <1>3 DEF C!Next

LEMMA AnswerStep ==
    ASSUME Unmended, NEW f \in Clients, NEW r \in {"ok", "EIO"}, \A c \in Clients \ {f} : CallOf(c)' = CallOf(c),
           CallOf(f).phase = "asked", CallOf(f)' = [CallOf(f) EXCEPT !.phase = "answered", !.result = r]
    PROVE  C!Next
<1>1. Call' = [Call EXCEPT ![f].phase = "answered", ![f].result = r] /\ Call[f].phase = "asked"
  BY DEF Call
<1>2. Sound' \in {l \in [Clients -> BOOLEAN] : \A c \in Clients : l[c] => Sound[c]}
  BY BreaksIs
<1>3. C!Answer(f, r)
  BY <1>1, <1>2, Zenon DEF C!Answer, C!Breaks, Call, Sound
<1>. QED  BY <1>3 DEF C!Next

LEMMA SentCloses ==
    ASSUME Shape, NEW fd, NEW lines, NEW cast, NEW B, NEW c \in Clients
    PROVE  Sent(fd, lines, cast, B)[c].srv => sock[c].srv
<1>1. ASSUME NEW s, DOMAIN s = {"up", "down", "srv", "cli"}, NEW l
      PROVE  DOMAIN write_socket(s, l) = {"up", "down", "srv", "cli"} /\ (write_socket(s, l).srv => s.srv)
  <2>. DEFINE out == Written(l)
              room == IF s.srv /\ s.cli THEN scene.room - Len(s.down) ELSE 0
  <2>1. write_socket(s, l) = IF Len(out) <= room THEN [s EXCEPT !.down = @ \o out]
                             ELSE [s EXCEPT !.down = @ \o First(out, room), !.srv = FALSE]
    BY Zenon DEF write_socket
  <2>. HIDE DEF out, room
  <2>. QED  BY <1>1, <2>1
<1>2. DOMAIN sock[c] = {"up", "down", "srv", "cli"}
  BY Domains DEF Shape, SockShape
<1>. DEFINE s == IF c \in B /\ cast # <<>> THEN write_socket(sock[c], cast) ELSE sock[c]
<1>3. DOMAIN s = {"up", "down", "srv", "cli"} /\ (s.srv => sock[c].srv)
  BY <1>1, <1>2
<1>4. Sent(fd, lines, cast, B)[c] = IF c = fd /\ lines # <<>> THEN write_socket(s, lines) ELSE s
  BY DEF Sent
<1>. HIDE DEF s
<1>. QED  BY <1>1, <1>3, <1>4

LEMMA EventLines ==
    ASSUME NEW events \in Seq(Event)
    PROVE  events \in Seq(Line)
  BY DEF Event

LEMMA ToldLonger ==
    ASSUME EventShape, NEW c \in Clients, NEW fd, NEW lines, NEW cast \in Seq(Line), NEW B,
           ToldBy(told', c, fd, lines, cast, B)
    PROVE  told'[c].events = <<>> => told[c].events = <<>>
<1>. DEFINE l == IF c \in B THEN cast ELSE <<>>
<1>1. told'[c].events = told[c].events \o l
  BY DEF ToldBy
<1>2. told[c].events \in Seq(Line) /\ l \in Seq(Line)
  BY DEF EventShape
<1>. HIDE DEF l
<1>3. ASSUME NEW a \in Seq(Line), NEW b \in Seq(Line), a \o b = <<>> PROVE a = <<>>
  <2>1. Len(a \o b) = Len(a) + Len(b) /\ Len(a \o b) = 0 /\ Len(a) \in Nat /\ Len(b) \in Nat
    BY <1>3
  <2>2. Len(a) = 0
    BY ONLY <2>1
  <2>. QED  BY <2>2
<1>. QED  BY ONLY <1>1, <1>2, <1>3

(* The answers of one that waits. *)
LEMMA AnswersOf ==
    ASSUME CallsInv, NEW c \in Clients, Kind(c) = "irsend", prog[c].pc = Wait
    PROVE  /\ told[c].answers \in Seq({"ok", "EIO"}) /\ Len(prog[c].returned) \in Nat
           /\ Len(told[c].answers) \in {Len(prog[c].returned), Len(prog[c].returned) + 1}
<1>1. Calling(c)
  BY DEF CallsInv
<1>2. prog[c].returned \in Seq({"ok", "EIO", "EPROTO"}) /\ Types(c)
  BY <1>1 DEF Calling, Wait
<1>3. Asked(c, Len(prog[c].returned)) \/ Told1(c, Len(prog[c].returned))
  BY <1>1 DEF Calling, Wait
<1>. QED  BY <1>2, <1>3 DEF Types, Asked, Told1

(* The result of lircd's calls: it tells the clients things. *)
LEMMA TellsStep ==
    ASSUME CallsInv, CallsInv', scene' = scene, prog' = prog, Unmended,
           NEW fd, NEW lines, NEW cast, NEW B, \A c \in Clients : ToldBy(told', c, fd, lines, cast, B)
    PROVE  C!Next
<1>. DEFINE A(c) == told[c].answers
            k(c) == Len(prog[c].returned)
            Waits(c) == Kind(c) = "irsend" /\ prog[c].pc = Wait
            result == IF lines = <<>> THEN <<>> ELSE <<Result(lines)>>
<1>1. ASSUME NEW c \in Clients, Waits(c)
      PROVE  /\ A(c) \in Seq({"ok", "EIO"}) /\ k(c) \in Nat /\ Len(A(c)) \in {k(c), k(c) + 1}
             /\ told'[c].answers \in Seq({"ok", "EIO"}) /\ Len(told'[c].answers) \in {k(c), k(c) + 1}
  <2>1. Kind(c)' = "irsend" /\ prog'[c].pc = Wait /\ prog'[c].returned = prog[c].returned
    BY <1>1 DEF Kind, Wait
  <2>2. A(c) \in Seq({"ok", "EIO"}) /\ k(c) \in Nat /\ Len(A(c)) \in {k(c), k(c) + 1}
    BY <1>1, AnswersOf
  <2>3. (CallsInv /\ Kind(c) = "irsend" /\ prog[c].pc = Wait
           => /\ told[c].answers \in Seq({"ok", "EIO"}) /\ Len(prog[c].returned) \in Nat
              /\ Len(told[c].answers) \in {Len(prog[c].returned), Len(prog[c].returned) + 1})'
    BY AnswersOf, PTL
  <2>. QED  BY <2>1, <2>2, <2>3 DEF Wait
<1>2. ASSUME NEW c \in Clients
      PROVE  told'[c].answers = A(c) \o (IF c = fd /\ lines # <<>> THEN <<Result(lines)>> ELSE <<>>)
  BY DEF ToldBy
<1>3. ASSUME NEW c \in Clients, ~Waits(c) \/ c # fd \/ lines = <<>> PROVE CallOf(c)' = CallOf(c)
  <2>1. CASE ~Waits(c)
    BY <2>1 DEF CallOf, Kind, Wait
  <2>2. CASE Waits(c) /\ (c # fd \/ lines = <<>>)
    <3>1. told'[c].answers = told[c].answers
      <4>1. told'[c].answers = told[c].answers \o <<>>
        BY <1>2, <2>2
      <4>2. told[c].answers \in Seq({"ok", "EIO"})
        BY <1>1, <2>2
      <4>. QED  BY ONLY <4>1, <4>2
    <3>. QED  BY <3>1 DEF CallOf, Kind, Wait
  <2>. QED  BY <1>3, <2>1, <2>2
<1>4. CASE fd \in Clients /\ lines # <<>> /\ Waits(fd)
  <2>. DEFINE r == Result(lines)
              a == told[fd].answers
              b == told'[fd].answers
              n == Len(prog[fd].returned)
  <2>1. a \in Seq({"ok", "EIO"}) /\ n \in Nat /\ Len(a) \in {n, n + 1} /\ b \in Seq({"ok", "EIO"}) /\ Len(b) \in {n, n + 1}
    BY <1>1, <1>4
  <2>2. b = a \o <<r>>
    BY <1>2, <1>4
  <2>3. r \in {"ok", "EIO"}
    BY DEF Result
  <2>4. Len(a) = n /\ Len(b) = n + 1 /\ b[n + 1] = r
    <3>. HIDE DEF a, b, n, r
    <3>. QED  BY <2>1, <2>2, <2>3
  <2>5. CallOf(fd) = [phase |-> "asked", request |-> scene.script[fd][n + 1], result |-> None]
    BY <1>4, <2>1, <2>4 DEF CallOf
  <2>6. CallOf(fd)' = [phase |-> "answered", request |-> scene.script[fd][n + 1], result |-> r]
    <3>1. /\ Kind(fd)' = "irsend" /\ prog'[fd].pc = Wait /\ Len(prog'[fd].returned) = n
          /\ Len(told'[fd].answers) = n + 1 /\ told'[fd].answers[n + 1] = r
      BY <1>4, <2>4 DEF Kind, Wait
    <3>2. n + 1 > n
      BY <2>1
    <3>. HIDE DEF n, r
    <3>. QED  BY <3>1, <3>2 DEF CallOf, Wait
  <2>. HIDE DEF r, n, a, b
  <2>7. CallOf(fd).phase = "asked" /\ CallOf(fd)' = [CallOf(fd) EXCEPT !.phase = "answered", !.result = r]
    <3>. DEFINE request == scene.script[fd][n + 1]
    <3>. HIDE DEF request
    <3>1. CallOf(fd) = CallAs("asked", request, None) /\ CallOf(fd)' = CallAs("answered", request, r)
      BY ONLY <2>5, <2>6, Zenon DEF request, CallAs
    <3>2. Becomes(CallAs("asked", request, None), "answered", r, CallAs("answered", request, r))
      BY ONLY CallChanged, Zenon
    <3>3. [CallOf(fd) EXCEPT !.phase = "answered", !.result = r] = CallAs("answered", request, r)
      BY ONLY <3>1, <3>2, Zenon DEF Becomes
    <3>4. CallAs("asked", request, None).phase = "asked"
      BY DEF CallAs
    <3>. QED  BY ONLY <3>1, <3>3, <3>4, Zenon
  <2>8. \A c \in Clients \ {fd} : CallOf(c)' = CallOf(c)
    BY <1>3
  <2>. QED  BY ONLY Unmended, <1>4, <2>3, <2>7, <2>8, AnswerStep
<1>5. CASE ~(fd \in Clients /\ lines # <<>> /\ Waits(fd))
  <2>1. \A c \in Clients : CallOf(c)' = CallOf(c)
    BY <1>3, <1>5
  <2>. QED  BY ONLY Unmended, <2>1, BreakStep
<1>. QED  BY <1>4, <1>5

(* The steps of lircd answer one call at most, or none. *)
LEMMA SilentStep ==
    ASSUME UNCHANGED <<scene, prog>>, ToldSame, \A c \in Clients : sock'[c].srv => sock[c].srv
    PROVE  C!Next
<1>1. \A c \in Clients : CallOf(c)' = CallOf(c)
  BY DEF CallOf, Kind, ToldSame
<1>2. Unmended
  BY DEF Unmended, ToldSame
<1>. QED  BY <1>1, <1>2, BreakStep

LEMMA ReadsStep ==
    ASSUME Shape, NEW p \in Clients, LircdReads(p) \/ LircdDies
    PROVE  C!Next
<1>1. DOMAIN sock = Clients /\ \A c \in Clients : DOMAIN sock[c] = {"up", "down", "srv", "cli"}
  BY Domains DEF Shape, SockShape
<1>2. UNCHANGED <<scene, prog>> /\ ToldSame
  BY DEF LircdReads, LircdDies, ToldSame
<1>3. \A c \in Clients : sock'[c].srv => sock[c].srv
  <2>1. CASE LircdReads(p)
    <3>. DEFINE r == Reading(sock[p].up, scene.packet)
    <3>1. sock' = [sock EXCEPT ![p].srv = FALSE, ![p].up = r.stream] \/ sock' = [sock EXCEPT ![p].up = r.stream]
      BY <2>1, Zenon DEF LircdReads
    <3>. HIDE DEF r
    <3>. QED  BY <1>1, <3>1
  <2>2. CASE LircdDies
    BY <1>1, <2>2 DEF LircdDies
  <2>. QED  BY <2>1, <2>2
<1>. QED  BY <1>2, <1>3, SilentStep

LEMMA RepeatsStep ==
    ASSUME CallsInv, CallsInv', LircdRepeats
    PROVE  C!Next
<1>. PICK sent \in Sendings :
        LET do == repeated(sent, daemon.st)
            socks == Sent(daemon.st.repeat.fd, do.out, <<>>, {})
        IN /\ sock' = [c \in Clients |-> [socks[c] EXCEPT !.srv = sock[c].srv]]
           /\ told' = Told(daemon.st.repeat.fd, do.out, <<>>, {})
  BY DEF LircdRepeats
<1>. DEFINE do == repeated(sent, daemon.st)
            fd == daemon.st.repeat.fd
            out == do.out
            socks == Sent(fd, out, <<>>, {})
            none == <<>>
            B == {}
<1>1. Shape /\ EventShape
  BY DEF CallsInv, HeardInv
<1>2. scene' = scene /\ prog' = prog
  BY DEF LircdRepeats
<1>3. sock' = [c \in Clients |-> [socks[c] EXCEPT !.srv = sock[c].srv]] /\ told' = Told(fd, out, none, B)
  OBVIOUS
<1>4. \A c \in Clients : DOMAIN socks[c] = {"up", "down", "srv", "cli"}
  BY <1>1, SentKeeps, Domains
<1>. HIDE DEF do, fd, out, socks
<1>5. \A c \in Clients : sock'[c].srv = sock[c].srv
  BY <1>3, <1>4
<1>6. none \in Seq(Line)
  OBVIOUS
<1>. HIDE DEF none, B
<1>7. ASSUME NEW c \in Clients PROVE ToldBy(told', c, fd, out, none, B)
  <2>1. ToldBy(Told(fd, out, none, B), c, fd, out, none, B)
    BY ONLY ToldIs, c \in Clients, Zenon
  <2>. QED  BY ONLY <1>3, <2>1, Zenon
<1>8. ASSUME NEW c \in Clients PROVE told'[c].events = <<>> => told[c].events = <<>>
  <2>1. ToldBy(told', c, fd, out, none, B)
    BY <1>7
  <2>. QED  BY ONLY <1>1, <1>6, <2>1, c \in Clients, ToldLonger, Zenon
<1>9. Unmended
  BY <1>5, <1>8 DEF Unmended
<1>. QED  BY ONLY CallsInv, CallsInv', <1>2, <1>7, <1>9, TellsStep, Zenon

(* A broadcast. *)
LEMMA BroadcastStep ==
    ASSUME CallsInv, CallsInv', NEW events \in Seq(Line), NEW B, scene' = scene, prog' = prog,
           sock' = Sent(None, <<>>, events, B), told' = Told(None, <<>>, events, B)
    PROVE  C!Next
<1>. DEFINE none == <<>>
<1>1. Shape /\ EventShape
  BY DEF CallsInv, HeardInv
<1>2. sock' = Sent(None, none, events, B) /\ told' = Told(None, none, events, B)
  OBVIOUS
<1>. HIDE DEF none
<1>3. ASSUME NEW c \in Clients PROVE ToldBy(told', c, None, none, events, B)
  <2>1. ToldBy(Told(None, none, events, B), c, None, none, events, B)
    BY ONLY ToldIs, c \in Clients, Zenon
  <2>. QED  BY ONLY <1>2, <2>1, Zenon
<1>4. ASSUME NEW c \in Clients PROVE sock'[c].srv => sock[c].srv
  <2>1. Sent(None, none, events, B)[c].srv => sock[c].srv
    BY ONLY <1>1, c \in Clients, SentCloses, Zenon
  <2>. QED  BY ONLY <1>2, <2>1, Zenon
<1>5. ASSUME NEW c \in Clients PROVE told'[c].events = <<>> => told[c].events = <<>>
  <2>1. ToldBy(told', c, None, none, events, B)
    BY <1>3
  <2>. QED  BY ONLY <1>1, <2>1, c \in Clients, events \in Seq(Line), ToldLonger, Zenon
<1>6. Unmended
  BY <1>4, <1>5 DEF Unmended
<1>. QED  BY ONLY CallsInv, CallsInv', scene' = scene, prog' = prog, <1>3, <1>6, TellsStep, Zenon

LEMMA ReceivesStep ==
    ASSUME CallsInv, CallsInv', LircdReceives
    PROVE  C!Next
<1>. DEFINE event == <<Head(daemon.left)>>
            B == Range(daemon.clis)
<1>1. daemon.left \in Seq(Event) /\ daemon.left # <<>>
  BY DEF CallsInv, EventShape, LircdReceives
<1>2. /\ scene' = scene /\ prog' = prog
      /\ sock' = Sent(None, <<>>, event, B) /\ told' = Told(None, <<>>, event, B)
  BY DEF LircdReceives
<1>3. event \in Seq(Line)
  BY <1>1, EventLines
<1>. HIDE DEF event, B
<1>. QED  BY ONLY CallsInv, CallsInv', <1>2, <1>3, BroadcastStep

LEMMA HupsStep ==
    ASSUME CallsInv, CallsInv', LircdHups
    PROVE  C!Next
<1>. DEFINE package == << <<"BEGIN">>, <<"SIGHUP">>, <<"END">> >>
            B == Range(daemon.clis)
<1>1. /\ scene' = scene /\ prog' = prog
      /\ sock' = Sent(None, <<>>, package, B) /\ told' = Told(None, <<>>, package, B)
  BY DEF LircdHups
<1>2. package \in Seq(Line)
  BY HupPackage
<1>. HIDE DEF package, B
<1>. QED  BY ONLY CallsInv, CallsInv', <1>1, <1>2, BroadcastStep

LEMMA PeerReadsStep ==
    ASSUME CallsInv, CallsInv', PeerReads
    PROVE  C!Next
<1>1. /\ scene' = scene /\ prog' = prog
      /\ peer.stream \in Seq(PieceOf(Event)) /\ peer.last \in Seq(PieceOf(Event))
  BY DEF PeerReads, CallsInv, EventShape
<1>2. PICK chunk \in PeerChunks :
        LET m == get_peer_message(chunk)
        IN IF m.ok
           THEN sock' = Sent(None, <<>>, m.lines, Local) /\ told' = Told(None, <<>>, m.lines, Local)
           ELSE UNCHANGED <<sock, told>>
  BY Zenon DEF PeerReads
<1>. DEFINE m == get_peer_message(chunk)
            lines == m.lines
            E == PieceOf(Event)
<1>3. chunk \in Seq(E)
  <2>. HIDE DEF E
  <2>1. CASE peer.stream # <<>>
    <3>1. PICK n \in 1..Len(peer.stream) : chunk = First(peer.stream, n)
      BY <2>1 DEF PeerChunks
    <3>2. n \in Int /\ n <= Len(peer.stream) /\ peer.stream \in Seq(E)
      BY <1>1 DEF E
    <3>. QED  BY <3>1, <3>2, FirstType
  <2>2. CASE peer.stream = <<>>
    <3>1. chunk \in {<<>>, peer.last} /\ <<>> \in Seq(E)
      BY <2>2 DEF PeerChunks
    <3>. QED  BY <1>1, <3>1 DEF E
  <2>. QED  BY <2>1, <2>2
<1>4. CASE m.ok
  <2>1. sock' = Sent(None, <<>>, lines, Local) /\ told' = Told(None, <<>>, lines, Local)
    BY <1>2, <1>4, Zenon
  <2>2. lines \in Seq(Line)
    <3>1. IsNewline(Last(chunk)) /\ lines = LinesOf(chunk)
      BY <1>4 DEF get_peer_message
    <3>. HIDE DEF m, lines
    <3>. QED  BY <1>3, <3>1, PeerLines, EventLines
  <2>. HIDE DEF lines
  <2>. QED  BY ONLY CallsInv, CallsInv', <1>1, <2>1, <2>2, BroadcastStep
<1>5. CASE ~m.ok
  <2>1. sock' = sock /\ told' = told
    BY <1>2, <1>5, Zenon
  <2>2. ToldSame
    BY ONLY <2>1 DEF ToldSame
  <2>. QED  BY ONLY <1>1, <2>1, <2>2, SilentStep
<1>. QED  BY <1>4, <1>5

LEMMA ExecutedStep ==
    ASSUME CallsInv, CallsInv', NEW do, NEW gone, NEW socks, NEW next, Executes(do, gone, socks, next)
    PROVE  C!Next
<1>. DEFINE fd == daemon.cmd.fd
            buffer == daemon.cmd.buffer
            message == Text(buffer)
            B == Range(daemon.clis)
<1>1. Shape /\ EventShape
  BY DEF CallsInv, HeardInv
<1>2. scene' = scene /\ prog' = prog /\ fd # None
  BY DEF Executes
<1>3. fd \in Clients /\ buffer \in Seq(PieceOf(Words))
  BY <1>1, <1>2 DEF Shape, DaemonShape
<1>. HIDE DEF message, B
<1>6. Executed(do, gone)
  BY DEF Executes
<1>. DEFINE out == do.out
            cast == do.cast
<1>7. cast \in Seq(Line)
  BY EventLines DEF Executes, Replies
<1>8. socks = Sent(fd, out, cast, B) /\ next = NextPacket(buffer, socks[fd].up, scene.packet)
  BY DEF Executes, B
<1>9. told' = [Told(fd, out, cast, B) EXCEPT ![fd].lines = Append(@, message)]
  BY <1>6, Zenon DEF Executed, message, B
<1>. HIDE DEF out, cast
<1>10. ASSUME NEW c \in Clients PROVE sock'[c].srv => sock[c].srv
  <2>1. SocksOf(Sent(fd, out, cast, B))
    BY ONLY <1>1, SentSocks, Zenon
  <2>2. /\ Shape /\ daemon.cmd.fd \in Clients /\ Executed(do, gone) /\ SocksOf(socks)
        /\ socks = Sent(daemon.cmd.fd, do.out, do.cast, Range(daemon.clis))
        /\ next = NextPacket(daemon.cmd.buffer, socks[daemon.cmd.fd].up, scene.packet)
    BY ONLY <1>1, <1>3, <1>6, <1>8, <2>1 DEF out, cast, B
  <2>3. Leaves(do, socks, next)
    BY ONLY <2>2, LeavesIs, Zenon
  <2>4. sock'[c].srv => socks[c].srv
    BY ONLY <2>3, c \in Clients DEF Leaves
  <2>5. Sent(fd, out, cast, B)[c].srv => sock[c].srv
    BY ONLY <1>1, c \in Clients, SentCloses, Zenon
  <2>. QED  BY ONLY <1>8, <2>4, <2>5
<1>. HIDE DEF fd
<1>11. ASSUME NEW c \in Clients PROVE ToldBy(told', c, fd, out, cast, B)
  BY ONLY <1>9, c \in Clients, ExecutedTold, Zenon
<1>12. ASSUME NEW c \in Clients PROVE told'[c].events = <<>> => told[c].events = <<>>
  <2>1. ToldBy(told', c, fd, out, cast, B)
    BY <1>11
  <2>. QED  BY ONLY <1>1, <1>7, <2>1, c \in Clients, ToldLonger, Zenon
<1>13. Unmended
  BY <1>10, <1>12 DEF Unmended
<1>. QED  BY ONLY CallsInv, CallsInv', <1>2, <1>11, <1>13, TellsStep, Zenon

LEMMA ExecutesStep ==
    ASSUME CallsInv, CallsInv', LircdExecutes
    PROVE  C!Next
<1>1. HeardInv
  BY DEF CallsInv
<1>. QED  BY <1>1, ExecutesIs, ExecutedStep

(* A program's step: only irsend's own change its call. *)
LEMMA AskStep ==
    ASSUME NEW p \in Clients, NEW r \in AllRequests, Sound' = Sound,
           \A c \in Clients \ {p} : CallOf(c)' = CallOf(c),
           CallOf(p).phase \in {"idle", "returned"}, CallOf(p)' = [phase |-> "asked", request |-> r, result |-> "none"]
    PROVE  C!Next
<1>1. Call' = [Call EXCEPT ![p] = [phase |-> "asked", request |-> r, result |-> "none"]]
      /\ Call[p].phase \in {"idle", "returned"}
  BY DEF Call
<1>2. C!Ask(p, r)
  BY <1>1, Zenon DEF C!Ask, Call, Sound
<1>. QED  BY <1>2 DEF C!Next

LEMMA ReturnStep ==
    ASSUME NEW p \in Clients, NEW q, NEW v, Sound' = Sound, \A c \in Clients \ {p} : CallOf(c)' = CallOf(c),
           CallOf(p) = CallAs("answered", q, v), CallOf(p)' = CallAs("returned", q, v)
    PROVE  C!Next
<1>1. [CallOf(p) EXCEPT !.phase = "returned"] = CallOf(p)' /\ CallOf(p).phase = "answered"
  <2>1. Enters(CallAs("answered", q, v), "returned", CallAs("returned", q, v))
    BY ONLY CallChanged, Zenon
  <2>2. CallAs("answered", q, v).phase = "answered"
    BY DEF CallAs
  <2>. QED  BY <2>1, <2>2, Zenon DEF Enters
<1>2. Call' = [Call EXCEPT ![p].phase = "returned"] /\ Call[p].phase = "answered"
  BY <1>1 DEF Call
<1>3. C!Return(p)
  BY <1>2, Zenon DEF C!Return, Call, Sound
<1>. QED  BY <1>3 DEF C!Next

LEMMA LoseStep ==
    ASSUME NEW p \in Clients, NEW q, NEW v, NEW phase \in {"asked", "answered"}, Sound' = Sound, ~Sound[p],
           \A c \in Clients \ {p} : CallOf(c)' = CallOf(c),
           CallOf(p) = CallAs(phase, q, v), CallOf(p)' = CallAs("returned", q, "EPROTO")
    PROVE  C!Next
<1>1. [CallOf(p) EXCEPT !.phase = "returned", !.result = "EPROTO"] = CallOf(p)' /\ CallOf(p).phase = phase
  <2>1. Becomes(CallAs(phase, q, v), "returned", "EPROTO", CallAs("returned", q, "EPROTO"))
    BY ONLY CallChanged, Zenon
  <2>2. CallAs(phase, q, v).phase = phase
    BY DEF CallAs
  <2>. QED  BY <2>1, <2>2, Zenon DEF Becomes
<1>2. Call' = [Call EXCEPT ![p].phase = "returned", ![p].result = "EPROTO"] /\ Call[p].phase \in {"asked", "answered"}
  BY <1>1 DEF Call
<1>3. C!Lose(p)
  BY <1>2, Zenon DEF C!Lose, Call, Sound
<1>. QED  BY <1>3 DEF C!Next

(* irsend's call before and after its step. *)
LEMMA WaitingCall ==
    ASSUME NEW c \in Clients, Kind(c) = "irsend", prog[c].pc = Wait, Len(told[c].answers) \in Nat,
           Len(prog[c].returned) \in Nat
    PROVE  LET k == Len(prog[c].returned)
           IN CallOf(c) = IF Len(told[c].answers) > k
                          THEN CallAs("answered", scene.script[c][k + 1], told[c].answers[k + 1])
                          ELSE CallAs("asked", scene.script[c][k + 1], None)
<1>. DEFINE n == Len(told[c].answers)
            k == Len(prog[c].returned)
<1>1. (n > k /\ ~(n <= k)) \/ (~(n > k) /\ n <= k)
  OBVIOUS
<1>. QED  BY <1>1 DEF CallOf, CallAs

LEMMA AnsweredStep ==
    ASSUME CallsInv, CallsInv', NEW p \in Clients, Answered(p), OneMoves(p), Sound' = Sound,
           \A c \in Clients \ {p} : CallOf(c)' = CallOf(c)
    PROVE  C!Next \/ CallOf(p)' = CallOf(p)
<1>. DEFINE returned == prog[p].returned
            answers == told[p].answers
            k == Len(returned)
            q == scene.script[p][k + 1]
            R == {"ok", "EIO", "EPROTO"}
<1>1. Kind(p) = "irsend" /\ prog[p].pc = Wait /\ UNCHANGED <<scene, told>> /\ Kind(p)' = "irsend"
  BY DEF Answered, OneMoves, Kind
<1>2. CallSteps(p)
  BY AnsweredCalls
<1>3. answers \in Seq({"ok", "EIO"}) /\ k \in Nat /\ Len(answers) \in {k, k + 1}
  BY <1>1, AnswersOf
<1>4. returned \in Seq(R)
  BY <1>1 DEF CallsInv, Calling
<1>5. CallOf(p) = IF Len(answers) > k THEN CallAs("answered", q, answers[k + 1]) ELSE CallAs("asked", q, None)
  BY <1>1, <1>3, WaitingCall
<1>6. CASE prog'[p].pc = Wait /\ prog'[p].returned = returned
  BY <1>1, <1>6 DEF CallOf, Kind, Wait
<1>7. ASSUME NEW r \in R, prog'[p].returned = Append(returned, r), prog'[p].pc # Wait
      PROVE  CallOf(p)' = CallAs("returned", q, r)
  <2>1. prog'[p].returned # <<>> /\ Len(prog'[p].returned) = k + 1 /\ prog'[p].returned[k + 1] = r
    <3>. HIDE DEF R
    <3>. QED  BY <1>4, <1>7
  <2>2. k + 1 > 0
    BY <1>3
  <2>. HIDE DEF k
  <2>3. CallOf(p)' = [phase |-> "returned", request |-> scene.script[p][k + 1], result |-> prog'[p].returned[k + 1]]
    BY <1>1, <1>7, <2>1, <2>2 DEF CallOf, Wait
  <2>. QED  BY ONLY <2>1, <2>3, Zenon DEF CallAs
<1>8. CASE Len(answers) = k + 1 /\ prog'[p].returned = Append(returned, answers[k + 1]) /\ prog'[p].pc # Wait
  <2>1. answers[k + 1] \in {"ok", "EIO"} /\ Len(answers) > k
    <3>1. Len(answers) > k /\ k + 1 \in 1..Len(answers)
      BY <1>3, <1>8
    <3>. QED  BY <1>3, <3>1
  <2>2. CallOf(p) = CallAs("answered", q, answers[k + 1])
    BY <1>5, <2>1
  <2>3. CallOf(p)' = CallAs("returned", q, answers[k + 1])
    BY <1>7, <1>8, <2>1
  <2>. QED  BY <2>2, <2>3, ReturnStep
<1>9. CASE /\ ~sock[p].srv \/ told[p].events # <<>>
           /\ prog'[p].returned = Append(returned, "EPROTO") /\ prog'[p].pc # Wait
  <2>1. ~Sound[p]
    BY <1>9 DEF Sound
  <2>2. CallOf(p)' = CallAs("returned", q, "EPROTO")
    BY <1>7, <1>9
  <2>. HIDE DEF answers, k, q
  <2>3. CASE Len(answers) > k
    BY <1>5, <2>1, <2>2, <2>3, LoseStep
  <2>4. CASE ~(Len(answers) > k)
    BY <1>5, <2>1, <2>2, <2>4, LoseStep
  <2>. QED  BY <2>3, <2>4
<1>. QED  BY <1>2, <1>6, <1>8, <1>9 DEF CallSteps

LEMMA SendsStep ==
    ASSUME CallsInv, NEW p \in Clients, Sends(p), OneMoves(p), Sound' = Sound,
           \A c \in Clients \ {p} : CallOf(c)' = CallOf(c)
    PROVE  C!Next \/ CallOf(p)' = CallOf(p)
<1>. DEFINE k == Len(prog[p].returned)
            q == scene.script[p][k + 1]
<1>1. Shape /\ Kind(p) = "irsend" /\ prog[p].pc = "call" /\ UNCHANGED <<scene, told>> /\ Kind(p)' = "irsend"
  BY DEF CallsInv, HeardInv, Sends, OneMoves, Kind
<1>2. /\ prog'[p].returned = prog[p].returned
      /\ prog'[p].pc = Wait => k + 1 <= Len(scene.script[p]) /\ Len(told[p].answers) = k
  BY SendsCalls
<1>3. k \in Nat
  BY <1>1 DEF CallsInv, Calling
<1>4. CASE prog'[p].pc # Wait
  BY <1>1, <1>2, <1>4 DEF CallOf, Wait
<1>5. CASE prog'[p].pc = Wait
  <2>1. Len(told[p].answers) = k /\ k + 1 \in 1..Len(scene.script[p])
    <3>1. scene.script[p] \in Seq(Words)
      BY <1>1, NetworkAssumption DEF Shape
    <3>. QED  BY <1>2, <1>3, <1>5, <3>1
  <2>2. q \in AllRequests
    <3>1. scene \in Scenes /\ scene.script[p] \in Seq(Words)
      BY <1>1, NetworkAssumption DEF Shape
    <3>. HIDE DEF k
    <3>2. q \in Range(scene.script[p])
      BY <2>1, <3>1 DEF Range
    <3>. HIDE DEF q
    <3>3. q \in UNION {Range(scene.script[c]) : c \in Clients}
      BY <3>2
    <3>. QED  BY <3>1, <3>3 DEF AllRequests
  <2>3. CallOf(p).phase \in {"idle", "returned"}
    BY <1>1 DEF CallOf, Wait
  <2>4. CallOf(p)' = [phase |-> "asked", request |-> q, result |-> "none"]
    <3>1. Len(told'[p].answers) <= k /\ ~(Len(told'[p].answers) > k) /\ Len(prog'[p].returned) = k
      BY <1>1, <1>2, <1>3, <2>1
    <3>. HIDE DEF k
    <3>. QED  BY <1>1, <1>5, <3>1 DEF CallOf, Wait, None, q
  <2>. HIDE DEF q
  <2>. QED  BY <2>2, <2>3, <2>4, AskStep
<1>. QED  BY <1>4, <1>5

LEMMA RunsStep ==
    ASSUME CallsInv, CallsInv', NEW p \in Clients, Runs(p)
    PROVE  C!Next \/ UNCHANGED <<Call, Sound>>
<1>1. OneMoves(p)
  BY RunsMove DEF CallsInv
<1>2. ASSUME NEW c \in Clients \ {p} PROVE CallOf(c)' = CallOf(c)
  BY <1>1 DEF OneMoves, CallOf, Kind
<1>3. Sound' = Sound
  <2>1. \A c \in Clients : (sock'[c].srv /\ told'[c].events = <<>>) = (sock[c].srv /\ told[c].events = <<>>)
    BY <1>1 DEF OneMoves
  <2>. QED  BY <2>1 DEF Sound
<1>4. C!Next \/ CallOf(p)' = CallOf(p)
  <2>1. CASE Kind(p) = "irsend"
    <3>1. Sends(p) \/ Answered(p)
      BY <2>1, IrsendRuns
    <3>. QED  BY <1>1, <1>2, <1>3, <3>1, SendsStep, AnsweredStep
  <2>2. CASE Kind(p) # "irsend"
    BY <1>1, <2>2 DEF OneMoves, CallOf, Kind
  <2>. QED  BY <2>1, <2>2
<1>5. CASE CallOf(p)' = CallOf(p)
  <2>1. \A c \in Clients : CallOf(c)' = CallOf(c)
    BY <1>2, <1>5
  <2>2. Call' = Call
    BY <2>1 DEF Call
  <2>. QED  BY <1>3, <2>2
<1>. QED  BY <1>4, <1>5

LEMMA CallsStep ==
    ASSUME CallsInv, CallsInv', [Next]_vars
    PROVE  C!Next \/ UNCHANGED <<Call, Sound>>
<1>1. CASE LircdExecutes \/ LircdRepeats \/ LircdReceives \/ LircdHups \/ PeerReads
  BY <1>1, ExecutesStep, RepeatsStep, ReceivesStep, HupsStep, PeerReadsStep
<1>2. Shape /\ HeardInv
  BY DEF CallsInv, HeardInv
<1>3. CASE LircdDies
  <2>1. CASE Clients = {}
    BY <1>3, <2>1 DEF Call, Sound
  <2>2. CASE Clients # {}
    BY <1>2, <1>3, <2>2, ReadsStep
  <2>. QED  BY <2>1, <2>2
<1>4. ASSUME NEW p \in Clients, LircdReads(p) PROVE C!Next
  BY <1>2, <1>4, ReadsStep
<1>5. ASSUME NEW p \in Clients, Runs(p) PROVE C!Next \/ UNCHANGED <<Call, Sound>>
  BY <1>5, RunsStep
<1>6. ASSUME NEW p \in Clients, Quits(p) PROVE C!Next
  <2>1. OneMoves(p) /\ Kind(p) # "irsend"
    BY <1>2, <1>6, QuitsMove
  <2>2. \A c \in Clients : CallOf(c)' = CallOf(c)
    BY <2>1 DEF OneMoves, CallOf, Kind
  <2>3. Unmended
    BY <2>1 DEF OneMoves, Unmended
  <2>. QED  BY <2>2, <2>3, BreakStep
<1>7. ASSUME NEW d \in Daemons, RcRuns(d) PROVE C!Next
  <2>1. UNCHANGED <<scene, daemon, sock, prog, peer>> /\ ToldSame
    BY <1>2, <1>7, RcStays
  <2>. QED  BY ONLY <2>1, SilentStep
<1>8. CASE LircdPolls \/ PeerConnects \/ PeerWaits \/ PeerSays \/ PeerEnds \/ Quiet \/ UNCHANGED vars
  <2>1. UNCHANGED <<scene, prog, sock>> /\ ToldSame
    BY <1>8 DEF LircdPolls, PeerConnects, PeerWaits, PeerSays, PeerEnds, Quiet, vars, ToldSame
  <2>. QED  BY ONLY <2>1, SilentStep
<1>. QED  BY <1>1, <1>3, <1>4, <1>5, <1>6, <1>7, <1>8 DEF Next

LEMMA CallsBegin ==
    ASSUME Init
    PROVE  C!Init
<1>1. PICK s \in Scenes : scene = s /\ InitScene(s)
  BY DEF Init
<1>2. \A c \in Clients : prog[c].pc # Wait /\ prog[c].returned = <<>>
  <2>1. prog = [c \in Clients |-> Program(s, c)]
    BY <1>1 DEF InitScene
  <2>. QED  BY <2>1 DEF Program, Wait
<1>3. \A c \in Clients : CallOf(c) = [phase |-> "idle", request |-> <<>>, result |-> "none"]
  BY <1>2 DEF CallOf, None
<1>4. Call = [c \in Clients |-> [phase |-> "idle", request |-> <<>>, result |-> "none"]]
  BY <1>3 DEF Call
<1>5. Sound \in [Clients -> BOOLEAN]
  BY DEF Sound
<1>. QED  BY <1>4, <1>5, Zenon DEF C!Init, C!Idle, Call, Sound

(* lirc_command_run() does what Calls says, for any number of programs,    *)
(* commands and events, any packet and socket size: a request that irsend  *)
(* writes is carried out at most once, the call returns the result that    *)
(* lircd answered this very request with, and it fails only on a           *)
(* connection that lircd has closed or written an event to                 *)
(* (lirc_client.c:110, 158, 190).                                          *)
THEOREM CommandsImplementCalls == Spec => CallsImplemented
<1>1. Init => CallsInv
  BY InitCalls
<1>2. CallsInv /\ [Next]_vars => CallsInv'
  BY CallsKept
<1>3. Init => C!Init
  BY CallsBegin
<1>4. CallsInv /\ CallsInv' /\ [Next]_vars
        => [C!Next]_<<[c \in Clients |-> CallOf(c)], [c \in Clients |-> sock[c].srv /\ told[c].events = <<>>]>>
  BY CallsStep DEF Call, Sound
<1>. QED  BY <1>1, <1>2, <1>3, <1>4, PTL DEF Spec, CallsImplemented, C!Spec
====
