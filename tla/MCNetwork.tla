----------------------------- MODULE MCNetwork -----------------------------
(* Scenes for TLC: two or three programs at a time. *)
EXTENDS Network

E1 == <<"c1", "00", "on", "tv">>
E2 == <<"c2", "00", "off", "tv">>
E3 == <<"c2", "01", "off", "tv">>

MCRemoteList == <<"tv", "cd">>
MCCodesOf == [tv |-> <<"on", "off", "up">>, cd |-> <<>>]

MCStartConfig == [mode |-> "start", memory |-> 0]

(* E1 gives two strings, E2 one, E3 none, but one if it comes twice on end. *)
MCEngine ==
    [config \in [mode : {"start", "m", None}, memory : {0, 1}] |->
        LET fresh == [config EXCEPT !.memory = 0]
        IN (E1 :> [strings |-> << <<"s1">>, <<"s2">> >>, config |-> fresh]) @@
           (E2 :> [strings |-> << <<"s3">> >>, config |-> fresh]) @@
           (E3 :> [strings |-> IF config.memory = 1 THEN << <<"s4">> >> ELSE <<>>,
                   config |-> [config EXCEPT !.memory = 1 - @]])]

Scene == [clients |-> <<>>, remote |-> {}, events |-> <<>>, peer |-> <<>>, peerfails |-> FALSE,
          room |-> 200, dies |-> FALSE, packet |-> 5,
          fails |-> FALSE, hups |-> 0, breaks |-> 0, quits |-> {},
          kind |-> [a |-> "absent", b |-> "absent", c |-> "absent"],
          script |-> [a |-> <<>>, b |-> <<>>, c |-> <<>>]]

Sending ==
    [Scene EXCEPT
        !.clients = <<"b", "a", "c">>, !.events = <<E1>>, !.packet = 7,
        !.kind = [a |-> "irsend", b |-> "irsend", c |-> "irw"],
        !.script = [a |-> << <<"SEND_ONCE", "tv", "on", "2">>, <<"LIST", "tv">> >>,
                    b |-> << lirc_simulate(E2) >>,
                    c |-> <<>>]]

Dying == [Sending EXCEPT !.dies = TRUE, !.packet = 5, !.events = <<>>, !.script.a = << <<"SEND_ONCE", "tv", "on", "1">> >>]

Stopping ==
    [Scene EXCEPT
        !.clients = <<"a", "b">>, !.events = <<E1>>, !.fails = TRUE,
        !.kind = [a |-> "irsend", b |-> "irsend", c |-> "absent"],
        !.script = [a |-> << <<"SEND_START", "tv", "on">>, <<"SEND_STOP", "tv", "on">> >>,
                    b |-> << <<"SEND_START", "tv", "off">> >>, c |-> <<>>]]

(* Every directive, with good and bad arguments, in one write. *)
Piping ==
    [Scene EXCEPT
        !.clients = <<"a", "b">>, !.room = 700, !.packet = 7,
        !.kind = [a |-> "nc", b |-> "irsend", c |-> "absent"],
        !.script = [a |-> << <<"VERSION">>, <<>>, <<"LIST", "radio">>, <<"LIST", "tv", "on">>, <<"LIST", "tv", "on", "x">>,
                             <<"SEND_ONCE">>, <<"SEND_ONCE", "tv">>, <<"SEND_ONCE", "tv", "on", "x">>,
                             <<"SEND_ONCE", "tv", "on", "33">>, <<"SEND_STOP">>, <<"SEND_START", "tv", "up">>,
                             <<"SEND_STOP", "cd">>, <<"SEND_STOP", "tv", "on">>, <<"SEND_STOP">>,
                             <<"SET_TRANSMITTERS">>, <<"SET_TRANSMITTERS", "1", "0">>, <<"SET_TRANSMITTERS", "33">>,
                             <<"SET_TRANSMITTERS", "3">>, <<"SET_TRANSMITTERS", "1", "2">>, <<"SIMULATE">>,
                             <<"SIMULATE", "x">>, <<"DRV_OPTION", "k">>, <<"DRV_OPTION", "x", "y">>,
                             <<"DRV_OPTION", "k", "v">>, <<"SET_INPUTLOG", "x">>, <<"SET_INPUTLOG", "f">>,
                             <<"SET_INPUTLOG">>, <<"BYE">> >>,
                    b |-> << lirc_send_one("tv", "on") >>, c |-> <<>>]]

(* A listener that is slow, and a socket that fills up. *)
Relaying ==
    [Scene EXCEPT
        !.clients = <<"a", "b">>, !.peer = <<E1, E2, E3>>, !.peerfails = TRUE, !.room = 7,
        !.kind = [a |-> "irw", b |-> "irw", c |-> "absent"]]

(* A peer that breaks off, and a SIGHUP. *)
Losing ==
    [Scene EXCEPT
        !.clients = <<"a">>, !.peer = <<E1, E2>>, !.peerfails = TRUE, !.room = 12, !.packet = 4,
        !.hups = 1, !.breaks = 1,
        !.kind = [a |-> "irw", b |-> "absent", c |-> "absent"]]

Catting ==
    [Scene EXCEPT
        !.clients = <<"a", "b">>, !.events = <<E2>>, !.packet = 7, !.dies = TRUE,
        !.kind = [a |-> "ircat", b |-> "ircat", c |-> "absent"]]

Repeated ==
    [Scene EXCEPT
        !.clients = <<"a">>, !.events = <<E1, E1, E3, E3, E3, E2>>,
        !.kind = [a |-> "ircat", b |-> "absent", c |-> "absent"]]

Moding ==
    [Scene EXCEPT
        !.clients = <<"a", "b">>, !.events = <<E2>>, !.packet = 7,
        !.kind = [a |-> "ircat", b |-> "moder", c |-> "absent"],
        !.script = [a |-> <<>>, c |-> <<>>,
                    b |-> << <<"SETMODE", "m">>, <<"GETMODE">>, <<"SETMODE">>, <<"GETMODE">> >>]]

Quitting == [Repeated EXCEPT !.quits = {"a"}, !.events = <<E1, E2>>, !.packet = 7]

RelayingRemote ==
    [Scene EXCEPT
        !.clients = <<"a", "b">>, !.peer = <<E3>>, !.remote = {"b"}, !.packet = 7,
        !.kind = [a |-> "irsend", b |-> "irw", c |-> "absent"],
        !.script.a = << <<"VERSION">> >>]

MCRelayingRemote == {RelayingRemote}
MCScenes == {Sending, Dying, Stopping, Piping, Relaying, Losing, Catting, Quitting, Repeated, Moding}
=============================================================================
