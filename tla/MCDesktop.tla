----------------------------- MODULE MCDesktop -----------------------------
(* Instances of Desktop: mice with modes, protocols and files that change; *)
(* keyboards with disabled, unknown and released buttons.                  *)
EXTENDS Desktop

press(button, rep) == [remote |-> "r", button |-> button, rep |-> rep]

Plain == << <<"#", "a", "comment">>, <<>>, <<"PROTOCOL", "IMPS/2">>, <<"MOVE_NE", "*", "up">>,
            <<"BUTTON1_TOGGLE", "r", "ok">>, <<"BUTTON3_DOWN", "r", "ok">>, <<"BUTTON2_CLICK", "r", "up">>,
            <<"IGNORE", "r", "off">>, <<"MOVE_N", "other", "*">>, <<"WHEEL", "r", "ok">>, <<"MOVE_N", "r">> >>
Modes == << <<"PROTOCOL", "IntelliMouse", "and", "more">>, <<"ACCELERATOR", "1", "3", "2">>,
            <<"ACTIVATE", "r", "ok">>, <<"BUTTON1_DOWN", "r", "ok">>, <<"MOVE_SW", "r", "up">>,
            <<"MOVE_OUT", "r", "up">>, <<"BUTTON2_TOGGLE", "r", "up">> >>
Toggled == << <<"ACCELERATOR", "1", "3", "2", "1">>, <<"PROTOCOL", "PS/2">>, <<"TOGGLE_ACTIVATE", "r", "off">>,
              <<"BUTTON3_TOGGLE", "*", "*">>, <<"MOVE_IN", "r", "up">>, <<"MOVE_W", "r", "up">> >>
Broken == << <<"PROTOCOL", "MouseSystems">>, <<"MOVE_N", "r", "up">>, TooLong >>

mouse(output, files, events) ==
    [daemon |-> "lircmd", device |-> output, files |-> files, events |-> events, mayfail |-> FALSE]

Presses == {press("ok", 0), press("up", 0), press("up", 2), press("off", 0)}

MCLircmdScenes ==
    {mouse("fifo", <<Plain, Modes, Broken>>, Presses), mouse("fifo", <<Modes, Missing, Toggled>>, Presses),
     mouse("uinput", <<Toggled, Modes>>, Presses),
     mouse("fifo", <<Missing>>, Presses), mouse("fifo", <<Broken>>, Presses)}
    \cup {[mouse("uinput", <<Plain>>, Presses) EXCEPT !.mayfail = TRUE]}

key(base, suffix) == [base |-> base, suffix |-> suffix]
line(base, suffix, rep) == [button |-> key(base, suffix), rep |-> rep]
MCKeyCodes == [b \in {"KEY_A", "KEY_B", "KEY_C"} |->
                  CASE b = "KEY_A" -> 1 [] b = "KEY_B" -> 2 [] b = "KEY_C" -> 3]

keyboard(events, disabled, releases, repeat) ==
    [daemon |-> "lircd-uinput", events |-> events, disabled |-> disabled,
     add_release_events |-> releases, repeat |-> repeat, mayfail |-> FALSE]

Lines == {line("KEY_A", FALSE, 0), line("KEY_A", FALSE, 1), line("KEY_B", FALSE, 0),
          line("KEY_A", TRUE, 0), line("unknown", FALSE, 0)}
DisabledLines == {line("KEY_A", FALSE, 0), line("KEY_A", TRUE, 0), line("KEY_B", FALSE, 0),
                  line("KEY_C", FALSE, 0)}

MCUinputScenes ==
    {keyboard(Lines, {}, TRUE, <<"300", ",", "20">>), keyboard(Lines, {}, FALSE, <<"20001">>),
     keyboard(DisabledLines, {key("KEY_A", FALSE), key("KEY_C", TRUE), key("unknown", FALSE)}, TRUE, <<",", "20">>),
     keyboard(DisabledLines, {key("KEY_A", FALSE)}, FALSE, <<"300", "x">>)}
    \cup {[keyboard(Lines, {}, TRUE, <<>>) EXCEPT !.mayfail = TRUE]}
=============================================================================
