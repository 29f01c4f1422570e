----------------------------- MODULE LircClient -----------------------------
(***************************************************************************)
(* The client library's side of the protocol (lib/lirc_client.c): running  *)
(* a command over a socket (lirc_command_run) and reading button presses   *)
(* (lirc_nextcode).                                                        *)
(*                                                                         *)
(* A command context holds the packet, the characters read and not yet     *)
(* used, whether the last string handed out had no newline (next = NULL),  *)
(* and the local variables of lirc_command_run.                            *)
(***************************************************************************)
EXTENDS LircdProtocol

(* lirc_command_init() and the first lines of lirc_command_run(): a new    *)
(* context forgets what the last one had read.                             *)
lirc_command_init(packet) ==
    [packet |-> packet, buffer |-> <<>>, null |-> TRUE, state |-> "P_BEGIN",
     status |-> "ok", left |-> 0, reply |-> <<>>, result |-> None]

(* Must read_string() call read()?  Without a newline, or when the last    *)
(* string had none.                                                        *)
MustFill_when_empty(ctx) == ctx.null \/ ctx.buffer = <<>>
MustFill(ctx) == ctx.null \/ Newline(ctx.buffer) = 0

(* read_string() with new characters: the string, and the context after    *)
(* it.  A string without a newline stays in the buffer and is handed out   *)
(* again, longer, by the next call.                                        *)
read_string(ctx, new) ==
    LET buffer == ctx.buffer \o new
        n == Newline(buffer)
    IN [string |-> Text(buffer),
        ctx |-> [ctx EXCEPT !.buffer = IF n = 0 THEN buffer ELSE From(buffer, n + 1),
                            !.null = n = 0]]

(* One round of the loop of lirc_command_run(): the string in the state of *)
(* the protocol.                                                           *)
ReplyLine(ctx, string) ==
    LET to(state) == [ctx EXCEPT !.state = state]
        returns(r) == [ctx EXCEPT !.result = r]
    IN CASE string = <<>> -> returns("EPROTO")
         [] string # <<>> /\ ctx.state = "P_BEGIN" ->
              IF string = <<"BEGIN">> THEN to("P_MESSAGE") ELSE ctx
         [] string # <<>> /\ ctx.state = "P_MESSAGE" ->
              IF string = ctx.packet THEN to("P_STATUS") ELSE to("P_BEGIN")
         [] string # <<>> /\ ctx.state = "P_STATUS" ->
              (CASE string = <<"SUCCESS">> -> [to("P_DATA") EXCEPT !.status = "ok"]
                 [] string = <<"ERROR">> -> [to("P_DATA") EXCEPT !.status = "EIO"]
                 [] string = <<"END">> -> returns("ok")
                 [] OTHER -> returns("EPROTO"))
         [] string # <<>> /\ ctx.state = "P_DATA" ->
              (CASE string = <<"END">> -> returns(ctx.status)
                 [] string = <<"DATA">> -> to("P_N")
                 [] OTHER -> returns("EPROTO"))
         [] string # <<>> /\ ctx.state = "P_N" ->
              (IF string[1] \notin DOMAIN Number THEN returns("EPROTO")
               ELSE [to(IF string[1] = "0" THEN "P_END" ELSE "P_DATA_N") EXCEPT !.left = Number[string[1]]])
         [] string # <<>> /\ ctx.state = "P_DATA_N" ->
              [to(IF ctx.left = 1 THEN "P_END" ELSE "P_DATA_N") EXCEPT !.left = @ - 1, !.reply = string]
         [] OTHER -> returns(IF string = <<"END">> THEN ctx.status ELSE "EPROTO")

(* The packets of the calls that run a command. *)
lirc_send_one(remote, keysym) == <<"SEND_ONCE", remote, keysym>>
lirc_simulate(event) == <<"SIMULATE">> \o event
lirc_code2char(code) == <<"CODE">> \o code
lirc_identify == <<"IDENT", "prog">>

-----------------------------------------------------------------------------
(* lirc_nextcode(): lirc_buffer keeps what follows the first line; the     *)
(* buffer grows by a packet when it is full.  Without a newline after the  *)
(* read it returns no code, and the program calls it again.                *)
HasLine_after_read(buffer) == FALSE
HasLine(buffer) == Newline(buffer) > 0
NextCode(buffer) == Text(buffer)
AfterCode(buffer) == From(buffer, Newline(buffer) + 1)
=============================================================================
