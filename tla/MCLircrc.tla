------------------------------ MODULE MCLircrc ------------------------------
(* lircrc files for TLC. *)
EXTENDS LircrcFile

CONSTANTS rc, a, b, prog, other, tv, web

W(words) == <<[eq |-> FALSE, words |-> words]>>
Set(key, val) == <<[eq |-> TRUE, key |-> key, val |-> val]>>
Button(button) == Set("button", <<button>>)
Remote(remote) == Set("remote", <<remote>>)
Config == Set("config", <<111, backslash, 110>>)
Begin == W(<<"begin">>)
End == W(<<"end">>)
Include(dir, name, quotes) ==
    W(<<"include", [dir |-> dir, name |-> name, quotes |-> quotes]>>)
Quoted == <<"\"", "\"">>
InMode(mode, lines) == W(<<"begin", mode>>) \o lines \o W(<<"end", mode>>)
\* an entry that hands a string to this program
E(lines) == Begin \o Set("prog", <<prog>>) \o Config \o lines \o End

\* sequences that overlap themselves, under a single button that quits; a remote named in one
\* entry, and repeats from an include file in the middle of an entry
Overlap == [file |-> Path(<<"rc.d">>, "main"), xdg |-> FALSE, files |->
    Path(<<"rc.d">>, "main") :>
        W(<<"#!", "lircrc">>) \o W(<<>>) \o
        E(Button(a) \o Button(a) \o Button(b)) \o
        E(Remote(rc) \o Button(a) \o Include(<<>>, "twice", Quoted) \o Set("flags", <<"quit">>)) \o
        W(<<"nonsense", "with", "words">>) \o
        E(Button("*") \o Button(b) \o Button(a) \o Button(b)
          \o Set("flags", <<"toggle_reset">>)) \o
        Begin \o Set("prog", <<other>>) \o Button(b) \o Config
    @@ Path(<<"rc.d">>, "twice") :>
        W(<<"#", "a comment">>) \o Set("repeat", <<"2">>) \o Config]

\* two modes, entered once each, left by the other's button or explicitly; the file is found
\* in the home directory
Modal == [file |-> NULL, xdg |-> FALSE, files |->
    Path(HOME \o <<".config">>, "lircrc") :>
        W(<<"lircrc_class", web>>) \o
        InMode(tv, E(Remote(rc) \o Button(a) \o Set("flags", <<"mode", "|", "quit">>))) \o
        Include(<<"~">>, "entering", <<>>) \o
        InMode(tv, E(Remote(rc) \o Button(a) \o Button(b) \o Set("mode", <<web>>) \o Set("flags", <<"once">>))) \o
        InMode(web, E(Remote(rc) \o Button(b) \o Set("ignore_first_events", <<"1">>) \o Set("flags", <<"mode">>))) \o
        E(Remote(rc) \o Button(b) \o Set("flags", <<" ", "toggle_reset">>))
    @@ Path(HOME, "entering") :>
        W(<<"lircrc_class", tv>>) \o
        E(Remote(rc) \o Button(a) \o Set("mode", <<tv>>) \o Set("flags", <<"once">>))]

\* it starts in a mode; an entry without a button quits; the system wide file
Startup == [file |-> NULL, xdg |-> TRUE, files |->
    Path(<<"/", "etc", "lirc">>, "lircrc") :>
        Begin \o Set("mode", <<tv>>) \o Set("flags", <<"startup_mode">>) \o End \o
        InMode(tv, E(Remote(rc) \o Button(b) \o Set("delay", <<"3">>) \o Set("delay", <<"1">>) \o Config
                     \o Set("flags", <<"toggle_reset">>))) \o
        E(Remote(rc) \o Button(a) \o Set("mode", <<tv>>) \o Set("flags", <<"once">>)) \o
        InMode(tv, E(Remote(rc) \o Button(b) \o Button(b) \o Set("flags", <<"mode">>))) \o
        InMode(web, E(Set("flags", <<"once">>) \o Set("flags", <<"quit">>))) \o
        Include(<<"/", "etc">>, "more", <<"<", ">">>)
    @@ Path(<<"/", "etc">>, "more") :>
        W(<<"begin", prog>>) \o E(Remote(rc) \o Button(b) \o Button(a))]

\* a wildcard behind a button
Wild == [file |-> NULL, xdg |-> TRUE, files |->
    Path(<<"/", "xdg">>, "lircrc") :>
        E(Remote(rc) \o Button(a) \o Remote("*") \o Button("*") \o Remote(rc) \o Button(b))]

\* files with an error behind, in or before a good entry
Main == Path(<<"/", "etc">>, "lircrc")
With(lines) == [file |-> NULL, xdg |-> FALSE, files |-> Main :> lines]
Good == E(Remote(rc) \o Button(a))
Broken == {
    With(Good \o Config),
    With(Begin \o Begin \o End),
    With(Good \o End),
    With(InMode(tv, Good) \o W(<<"end", tv>>)),
    With(W(<<"begin", tv>>) \o Good \o W(<<"end", web>>)),
    With(W(<<"begin", tv>>) \o Begin \o W(<<"end", tv>>)),
    With(W(<<"begin", tv>>) \o InMode(web, Good)),
    With(Good \o Include(<<>>, "missing", Quoted)),
    With(Good \o Include(<<>>, "lircrc", <<"\"", ">">>)),
    With(Good \o Include(<<>>, "lircrc", Quoted)),
    With(Good \o W(<<"include">>)),
    With(W(<<"lircrc_class">>) \o Good),
    With(E(Button(a) \o Set("config", <<35, 35>>))),
    [file |-> Path(<<>>, "elsewhere"), xdg |-> FALSE, files |-> Main :> Good]}

RefusedStrings == {<<35, 35>>}

AllDisks == {Overlap, Modal, Startup, Wild} \cup Broken
=============================================================================
