-------------------------------- MODULE Calls --------------------------------
(***************************************************************************)
(* What lirc_command_run() promises the program that calls it: a request   *)
(* is carried out at most once, the call returns the result it was         *)
(* answered with, and it returns.  Only a connection that broke, or that   *)
(* carried something else than answers, may cost the answer, and then the  *)
(* call says so.                                                           *)
(***************************************************************************)
CONSTANTS Callers, Requests

VARIABLES
    call,       \* call[c]: the last call of c
    sound       \* sound[c]: is the connection up, and has it carried answers only?

Idle == [phase |-> "idle", request |-> <<>>, result |-> "none"]

Init ==
    /\ call = [c \in Callers |-> Idle]
    /\ sound \in [Callers -> BOOLEAN]

Ask(c, r) ==
    /\ call[c].phase \in {"idle", "returned"}
    /\ call' = [call EXCEPT ![c] = [phase |-> "asked", request |-> r, result |-> "none"]]
    /\ UNCHANGED sound

(* The daemon goes, removes clients or sends them events; a step that      *)
(* answers may do that too.                                                *)
Breaks == sound' \in {l \in [Callers -> BOOLEAN] : \A c \in Callers : l[c] => sound[c]}

Answer(c, result) ==
    /\ call[c].phase = "asked"
    /\ call' = [call EXCEPT ![c].phase = "answered", ![c].result = result]
    /\ Breaks

Break == Breaks /\ UNCHANGED call

Return(c) ==
    /\ call[c].phase = "answered"
    /\ call' = [call EXCEPT ![c].phase = "returned"]
    /\ UNCHANGED sound

Lose(c) ==
    /\ call[c].phase \in {"asked", "answered"}
    /\ ~sound[c]
    /\ call' = [call EXCEPT ![c].phase = "returned", ![c].result = "EPROTO"]
    /\ UNCHANGED sound

Next ==
    \/ Break
    \/ \E c \in Callers :
          \/ \E r \in Requests : Ask(c, r)
          \/ \E result \in {"ok", "EIO"} : Answer(c, result)
          \/ Return(c)
          \/ Lose(c)

Spec == Init /\ [][Next]_<<call, sound>>

Returns(c) == call[c].phase = "asked" ~> call[c].phase = "returned"
=============================================================================
