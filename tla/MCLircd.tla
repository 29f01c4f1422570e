------------------------------- MODULE MCLircd -------------------------------
(* Instances of Lircd for TLC. *)
EXTENDS Lircd, TLC

CONSTANTS r1, r2, c1, c2

Cmd(op, r, c, reps) == [op |-> op, remote |-> r, code |-> c, reps |-> reps]

MinRepeat0 == [r \in Remotes |-> 0]
MinRepeat1 == [r \in Remotes |-> 1]
MinRepeat20 == [r \in Remotes |-> IF r = r1 THEN 2 ELSE 0]
NoLinks == [c \in Codes |-> 0]
TwoLinks == [c \in Codes |-> IF c = c1 THEN 0 ELSE 2]

Once(reps) == Cmd("SEND_ONCE", r1, c1, reps)
Start == Cmd("SEND_START", r1, c1, -1)
Stop == Cmd("SEND_STOP", NULL, NULL, -1)
Other == Cmd("OTHER", NULL, NULL, -1)
Simulate == Cmd("SIMULATE", NULL, NULL, -1)

\* clients that transmit, with and without repeats
CommandsSend == {Once(0), Once(2), Start, Stop, Other}
\* every directive, <repeats> is absent or too large
CommandsAll == {Once(-1), Once(4), Start, Stop, Simulate}
\* two remotes, one with a minimum of repeats, one with a chain of codes; nobody stops a repeat,
\* and <repeats> is less than the minimum
CommandsCount == {Once(1), Start, Cmd("SEND_ONCE", r2, c2, -1)}
=============================================================================
