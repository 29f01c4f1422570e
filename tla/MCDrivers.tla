------------------------------ MODULE MCDrivers ------------------------------
(* Scenes for Drivers: packets with the codes they stand for, and failures. *)
EXTENDS Drivers

P(pause, items, bits, repeat) ==
  [pause |-> pause, items |-> items, code |-> <<[bits |-> bits, repeat |-> repeat]>>]
Part(pause, items) == [pause |-> pause, items |-> items, code |-> <<>>]
NoLock == [name |-> "", target |-> ""]
(* Clients come and go while the device sends, or one is there all the time. *)
Hears(driver, packets) ==
  [driver |-> driver, packets |-> packets, fails |-> {}, faults |-> 0, clients |-> 2, unplugs |-> 0,
   missing |-> "open", steady |-> FALSE, others |-> 0, link |-> FALSE, lock |-> NoLock,
   rc |-> "none", kind |-> "lirccode", length |-> 2]
Steady(driver, packets) == [Hears(driver, packets) EXCEPT !.steady = TRUE, !.clients = 1]
Fails(driver, fails, unplugs) ==
  [driver |-> driver, packets |-> <<>>, fails |-> fails, faults |-> 1, clients |-> 3, unplugs |-> unplugs,
   missing |-> IF driver \in {"ati", "aw", "dfc"} THEN "find" ELSE "open", steady |-> FALSE, others |-> 0, link |-> FALSE, lock |-> NoLock,
   rc |-> "none", kind |-> "lirccode", length |-> 2]
(* Lock files that are there, and other programs that use the port. *)
Shared(s, others, link, name, target) ==
  [s EXCEPT !.others = others, !.link = link, !.lock = [name |-> name, target |-> target]]
Data(bytes) == [i \in DOMAIN bytes |-> [data |-> bytes[i]]]
Events(hid, values) == [i \in DOMAIN values |-> [hid |-> hid, value |-> values[i]]]
Key(type, code, value) == << [type |-> type, code |-> code, value |-> value] >>

SerialHeard == {
  Hears("creative", << P("gap", <<77, 5, 1, 254, 172, 33>>, <<132, 53, 127, 128>>, "gap"),
                       Part("gap", <<77, 5, 2>>), Part("gap", <<77, 5, 2, 2, 172, 33>>),
                       P("", <<77, 5, 16, 239, 172, 33>>, <<132, 53, 247, 8>>, "gap") >>),
  Hears("pixelview", << P("gap", <<1, 2, 4>>, <<257, 129, 65>>, "gap"), Part("gap", <<1, 2>>),
                        P("gap", <<8, 2, 4>>, <<33, 129, 65>>, "gap") >>),
  Steady("logitech", << P("gap", <<160, 17, 170>>, <<160, 17>>, "gap"), Part("gap", <<160, 19>>),
                        P("gap", <<70>>, <<160, 70>>, "gap"), P("", <<160, 18, 170>>, <<160, 18>>, "gap") >>),
  Steady("pcmak", << P("gap", <<170, 10, 10>>, <<170, 10>>, "gap"), Part("gap", <<170, 11>>),
                     P("gap", <<170, 12, 12>>, <<170, 12>>, "gap") >>),
  Steady("mp3anywhere", << P("gap", <<213, 170, 238, 1, 173>>, <<213, 170, 238, 1>>, "gap"), Part("gap", <<213, 170>>),
                          P("gap", <<213, 170, 238, 2, 173>>, <<213, 170, 238, 2>>, "gap") >>),
  Hears("mouseremote", << P("gap", <<64, 5, 63>>, <<8, 5, 127>>, "gap"), Part("gap", <<65, 5>>),
                          P("gap", <<76, 0, 62>>, <<8, 784, 127>>, "gap"), P("gap", <<65, 5, 63>>, <<8, 69, 127>>, "gap") >>),
  Hears("mouseremote_ps2", << P("gap", <<8, 5, 127>>, <<8, 5, 127>>, "gap"), Part("gap", <<8, 6>>),
                              P("gap", <<9, 0, 0>>, <<8, 2052, 127>>, "gap") >>),
  Steady("silitek", << P("gap", <<63, 1, 2>>, <<187, 1, 2>>, "gap"), Part("gap", <<42, 1>>),
                      P("gap", <<253, 128, 128>>, <<170, 160, 187>>, "gap"), P("", <<124, 2, 0>>, <<170, 0, 1>>, "no") >>),
  Steady("ea65", << P("idle", << <<160, 1, 7, 8, 9>> >>, <<7, 8, 9>>, "no"), Part("gap", << <<160, 1, 7, 8>> >>),
                    P("gap", << <<160, 4, 5, 6>> >>, <<255, 5, 6>>, "yes"),
                    P("idle", << <<160, 4, 5, 6>> >>, <<255, 5, 6>>, "no") >>),
  Hears("uirt2", << P("gap", <<1, 2, 3, 4, 5, 6>>, <<1, 2, 3, 4, 5, 6>>, "gap"), Part("gap", <<9, 9>>),
                    P("gap", <<2, 2, 3, 4, 5, 6>>, <<2, 2, 3, 4, 5, 6>>, "gap") >>),
  Steady("usbx", << P("gap", <<1, 2, 3, 4, 5, 6>>, <<1, 2, 3, 4, 5, 6>>, "no"),
                    P("", <<1, 2, 3, 4, 5, 7>>, <<1, 2, 3, 4, 5, 6>>, "yes"), P("gap", <<3, 8>>, <<3, 8>>, "no") >>),
  Steady("pinsys", << P("gap", <<1, 2, 3>>, <<1, 2, 3>>, "gap"), P("gap", <<1, 234, 67>>, <<1, 2, 3>>, "yes"),
                      Part("gap", <<1, 2>>), P("idle", <<1, 234, 67>>, <<1, 2, 3>>, "gap") >>),
  Hears("tira", << P("gap", <<1, 2, 3, 4, 5, 6>>, <<1, 2, 3, 4, 5, 6, 0>>, "gap"), Part("gap", <<9, 9>>),
                   P("gap", <<2, 2, 3, 4, 5, 6>>, <<2, 2, 3, 4, 5, 6, 0>>, "gap") >>),
  Steady("accent", << P("gap", <<144, 70, 66, 4, 5, 6, 7, 8>>, <<144, 70, 66, 4, 5, 6, 7, 8>>, "gap"),
                      P("gap", <<0>>, <<144, 70, 66, 4, 5, 6, 7, 8>>, "gap"), Part("gap", <<144, 70>>),
                      Part("gap", <<0>>), Part("gap", [i \in 1..16 |-> 0]),
                      P("gap", <<144, 70, 66, 4, 5, 6, 7, 9>>, <<144, 70, 66, 4, 5, 6, 7, 9>>, "gap"),
                      Part("idle", <<0>>) >>),
  Steady("livedrive_midi",
         << P("gap", <<9, 240, 0, 32, 33, 98, 0, 0, 5, 1, 2, 4, 8, 247>>, <<128, 65, 32, 17>>, "no"),
            P("gap", <<240, 0, 32, 33, 97, 5, 2, 2, 4, 8, 247>>, <<64, 65, 32, 17>>, "yes") >>),
  Steady("livedrive_seq",
         << P("gap", Data(<<9, 240, 0, 32, 33, 98, 0, 0, 10, 1, 2, 4, 8, 247>>), <<129, 64, 33, 16>>, "no") >>),
  Steady("alsa_usb", << P("gap", <<5>>, <<5>>, "no"), P("gap", <<5>>, <<5>>, "yes"), P("", <<6>>, <<6>>, "no"),
                        P("idle", <<6>>, <<6>>, "no") >>),
  Steady("creative_infracd", << P("gap", <<1>>, <<132, 53, 128, 127>>, "no"),
                                P("", <<2>>, <<132, 53, 64, 191>>, "no") >>),
  Steady("mplay_nowheel", << P("gap", <<10>>, <<10>>, "no"), P("gap", <<126>>, <<10>>, "yes"), Part("idle", <<126>>),
                             Part("gap", <<126>>), P("gap", <<130>>, <<130>>, "no"), Part("", <<130>>),
                             P("gap", <<130>>, <<130>>, "yes") >>) }
KernelHeard == {
  Steady("dvico", << P("gap", Events("dvico", <<5>>), <<5>>, "no"), P("gap", Events("dvico", <<32773>>), <<5>>, "yes"),
                     Part("idle", Events("dvico", <<32773>>)), Part("gap", Events("prefix", <<0>>)),
                     P("gap", Events("prefix", <<0>>) \o Events("dvico", <<6>>), <<6>>, "no") >>),
  Steady("bw6130", << P("gap", Events("bw6130", <<7>>), <<7>>, "gap"), P("gap", Events("bw6130", <<7>>), <<7>>, "yes"),
                      Part("gap", Events("bw6130", <<-86>>)), P("gap", Events("bw6130", <<7>>), <<7>>, "no"),
                      P("gap", Events("bw6130", <<64, 2, 19>>), <<150>>, "no") >>),
  Steady("asusdh", << P("gap", Events("asus", <<0, 9, 0, 0, 0, 0, 0, 0>>), <<9>>, "gap"), Part("gap", Events("asus", <<0, 8>>)),
                     P("gap", Events("asus", <<0, 7, 0, 0, 0, 0, 0, 0>>), <<7>>, "gap") >>),
  Hears("sb0540", << P("gap", << [report |-> FALSE, value |-> 2], [report |-> TRUE, value |-> 1] >>, <<131, 34, 128, 127>>, "no"),
                     P("gap", << [report |-> TRUE, value |-> 2] >>, <<131, 34, 64, 191>>, "no") >>),
  Steady("macmini", << P("gap", <<1, 2, 3, 4>>, <<1, 2, 3, 4>>, "gap"), P("gap", <<0, 0, 0, 0>>, <<1, 2, 3, 4>>, "yes"),
                       Part("gap", <<1, 2>>), Part("idle", <<0, 0, 0, 0>>) >>),
  Hears("samsung", << P("gap", << [report |-> 1, usage |-> 7, value |-> <<5, 0>>] >>, <<7, 5>>, "no"),
                      P("gap", << [report |-> 3, usage |-> 8, value |-> <<0, 6>>] >>, <<8, 6>>, "no"),
                      P("gap", << [report |-> 4, usage |-> 9, value |-> <<0, 4, 0, 0, 0, 0>>] >>, <<9, 11>>, "no") >>),
  Hears("sonyir", << P("gap", << <<1, 0, 5, 6, 7, 0>> >>, <<6, 7, 5>>, "no"), Part("", << <<1, 0, 133, 6, 7, 0>> >>),
                     P("gap", << <<1, 0, 9, 6, 7, 0>> >>, <<6, 7, 9>>, "no") >>),
  Hears("devinput", << P("gap", Key("key", 30, 1), <<30, 1>>, "no"), P("", Key("rel", 0, 5), <<0, 5>>, "uinput"),
                       P("", Key("syn", 0, 0), <<0, 0>>, "uinput"), P("gap", Key("key", 30, 2), <<30, 1>>, "yes"),
                       P("gap", Key("key", 272, 1), <<272, 1>>, "uinput"), P("", Key("key", 30, 0), <<30, 0>>, "no") >>),
  Hears("atwf83", << P("gap", << [rd |-> 8, code |-> 5] >>, <<5>>, "no"), Part("gap", << [rd |-> 8, code |-> 0] >>),
                     P("gap", << [rd |-> 6, code |-> 4] >>, <<4>>, "no"), Part("gap", << [rd |-> 6, code |-> 2] >>) >>),
  Hears("ati", << Part("gap", << <<0>> >>), P("gap", << <<1, 2, 3, 4, 37>> >>, <<1, 2, 3, 4, 5>>, "gap"),
                  P("", << <<1, 18>> >>, <<1, 2, 0, 0, 0>>, "gap") >>),
  Hears("aw", << Part("gap", << <<0>> >>), P("gap", << <<9, 1, 2, 3, 4>> >>, <<1, 2, 3, 4>>, "gap"),
                 P("", << <<9, 2, 2, 3, 4>> >>, <<2, 2, 3, 4>>, "gap") >>),
  Steady("dfc", << P("gap", << <<0, 1, 2, 3>>, <<0>>, <<0, 4, 5, 6>> >>, <<1, 2, 3, 4, 5, 6>>, "gap"),
                   P("gap", << <<0, 7, 2, 3, 4>>, <<0, 5, 6>> >>, <<7, 2, 3, 4, 5, 6>>, "gap") >>),
  Steady("i2cuser", << P("gap", << <<129, 8, 0>> >>, <<0, 66>>, "gap"), Part("gap", << <<129, 8, 0>>, <<1, 8, 0>> >>),
                       P("idle", << <<129, 8, 0>> >>, <<0, 66>>, "gap"), P("", << <<129, 12, 0>> >>, <<0, 67>>, "gap") >>) }
Raw(pause, items, levels) ==
  [pause |-> pause, items |-> items, code |-> [i \in DOMAIN levels |-> [bits |-> levels[i], repeat |-> "gap"]]]
Lirc(s, kind) == [s EXCEPT !.rc = "off", !.kind = kind, !.missing = "stat"]
LongSpace == <<"space", LIRC_VALUE_MASK>>
RawHeard == {
  Steady("irlink", << Raw("gap", <<254, 37>>, << <<"space", -1>>, <<"pulse", 1250>> >>),
                      Raw("", <<136>>, << <<"space", 1111>> >>), Raw("", <<36>>, << <<"pulse", 1250>> >>),
                      Raw("gap", <<254, 255, 37>>, << <<"pulse", -1>>, <<"space", 1250>> >>),
                      Raw("gap", <<40>>, << <<"pulse", 1388>> >>) >>),
  Hears("default", << P("gap", << <<1, 2>> >>, <<1, 2>>, "gap"), Part("gap", << <<3>> >>),
                      P("gap", << <<1, 3>> >>, <<1, 3>>, "gap") >>),
  Lirc(Steady("default_mode2",
              << Raw("gap", << LongSpace >>, << LongSpace >>), Raw("", << <<"pulse", 500>> >>, << <<"pulse", 500>> >>),
                 Raw("gap", << LongSpace >>, << LongSpace >>), Part("", << <<"space", 7>> >>),
                 Raw("", << <<"pulse", 600>> >>, << <<"pulse", 600>> >>),
                 Raw("", << <<"space", 0>> >>, << <<"space", 1>> >>) >>), "mode2") }
RawFailing ==
  {Lirc(Fails("default", {"stat", "open", "features", "length", "long"}, 1), "lirccode"),
   Lirc(Fails("default_mode2", {"features"}, 1), "mode2"), Fails("irlink", {"lock", "open", "detect"}, 1)}
  \cup {[Lirc(Fails("default", {"open", "connect"}, 0), kind) EXCEPT !.rc = "none"] : kind \in {"socket", "fifo"}}
Failing ==
  {Fails(driver, {"open"}, 0) : driver \in
     {"creative", "pixelview", "logitech", "pcmak", "mp3anywhere", "silitek", "ea65", "mouseremote", "mouseremote_ps2",
      "uirt2", "accent", "livedrive_midi", "sonyir"}}
  \cup {Fails("usbx", {"lock", "open", "reset", "baud", "rtscts"}, 1), Fails("pinsys", {"open", "detected"}, 0),
        Fails("tira", {"lock", "open", "detect"}, 0), Fails("mplay_nowheel", {"lock"}, 0), Fails("dvico", {"open"}, 1),
        Fails("sb0540", {"open", "flags"}, 1), Fails("macmini", {"open"}, 1), Fails("devinput", {"locate", "open", "uinput"}, 1),
        Fails("alsa_usb", {"open", "info", "poll"}, 0), Fails("creative_infracd", {"null"}, 0),
        Fails("atwf83", {"open"}, 1), Fails("zotac", {"open"}, 1), Fails("ati", {"pipe"}, 0), Fails("aw", {"pipe"}, 0),
        Fails("dfc", {"pipe"}, 0), Fails("i2cuser", {}, 0), Fails("mplay", {}, 0)}
Locked ==
  {Shared(Fails("usbx", {"reset"}, 0), 1, link, name, target) : link \in BOOLEAN, name \in {"", "dead"}, target \in {"", "dead"}}
  \cup {Shared(Fails("tira", {"detect"}, 0), 1, TRUE, "dead", ""), Shared(Fails("creative", {}, 0), 0, TRUE, "dead", "dead"),
        Shared(Fails("creative", {}, 0), 0, FALSE, "other", ""),
        Shared(Fails("accent", {"open"}, 0), 0, TRUE, "dead", "other"), Shared(Fails("mplay_nowheel", {}, 0), 1, FALSE, "dead", "")}
MCScenes == RawHeard \cup RawFailing \cup Locked \cup SerialHeard \cup KernelHeard \cup Failing
MCFds == 3..16
ASSUME ScenesAreClean == CleanScenes
=============================================================================
