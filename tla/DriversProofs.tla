---------------------------- MODULE DriversProofs ----------------------------
(***************************************************************************)
(* Proofs about Drivers, for every set of scenes, of descriptors, and all  *)
(* packets: what the drivers do with descriptors, lock files and children  *)
(* when clients come and go, devices are unplugged and init_func() fails.  *)
(***************************************************************************)
EXTENDS Drivers, Induction, FiniteSetTheorems

Uses == {"", "client", "dev", "dead", "r", "w", "null", "uinput"}
Marks == {"", "own", "other", "dead"}
Ports ==
  [open : [Fds -> Uses], fd : Int, dev : Int, r : Int, w : Int, tid : Int, live : Int,
   rc : {"none", "off", "on", "gone"}, link : BOOLEAN, lock : [name : Marks, target : Marks]]

ClientFds(y) == {f \in Fds : y.open[f] = "client"}
(* What init_func() opened and is open still. *)
Held(y) == {f \in Fds : y.open[f] \notin {"", "client"}}
Unlocked(y) == y.lock.name # "own" /\ y.lock.target # "own"

(* Drivers that forget the number of the device when they close it, and    *)
(* drivers with one descriptor.                                            *)
Forgetful == AllDrivers \ (Serial \cup Blocking \cup {"creative_infracd", "i2cuser"})
Single == Serial \cup Hiddev \cup Default \cup Blocking \cup {"usbx", "tira", "irlink", "sb0540", "samsung", "alsa_usb"}
Locking == Serial \cup {"usbx", "tira", "irlink", "mplay", "mplay_nowheel"}

(* The port between two sessions of driver e, or after a failure. *)
AtRest(e, y) ==
  /\ e \notin Leaking => Held(y) = {} /\ y.live = 0 /\ Unlocked(y)
  /\ e \in Serial => y.fd = None \/ y.lock.name # "other"
  /\ e = "pinsys" => y.lock.name # "other"
  /\ e \in Forgetful => y.fd = None
  /\ e \in {"devinput", "zotac", "atwf83", "mplay", "mplay_nowheel", "ati", "aw", "dfc"} => y.dev = None
  /\ e \in {"zotac", "atwf83", "mplay", "mplay_nowheel"} => y.r = None /\ y.w = None
  /\ e = "tira" => y.tid = None
(* The port after init_func() of driver e succeeded. *)
InUse(e, y) ==
  /\ y.fd \in Held(y) /\ y.open[y.fd] \in {"dev", "dead", "r", "null"}
  /\ e \in Single => Held(y) = {y.fd}
  /\ e \in Single \cup {"devinput", "mplay_nowheel", "creative_infracd"} => y.live = 0
  /\ e \in Serial => y.lock.name # "other"
  /\ e \notin Locking \cup Leaking => Unlocked(y)
  /\ e = "tira" => y.tid = None
  /\ e = "devinput" => Held(y) = {y.fd} \cup ({y.dev} \ {None})
  /\ e \in {"creative_infracd", "i2cuser"} => Held(y) = {y.fd, y.dev}
  /\ e \in {"zotac", "atwf83"} => Held(y) = {y.dev, y.r, y.w}
  /\ e = "i2cuser" => y.live = 1 /\ y.tid # None
  /\ e = "mplay_nowheel" => Held(y) = {y.fd} /\ y.dev = y.fd /\ y.r = None /\ y.w = None
  /\ e = "mplay" => y.fd = y.r /\ y.w \in Held(y)
  /\ e \in {"ati", "aw", "dfc"} => y.dev = None \/ y.dev \in Held(y)

Vacant(e, y) == AtRest(e, y) /\ y.fd = None
Begun(e, y) == InUse(e, y) \/ Vacant(e, y)
NoneDead(y) == \A f \in Fds : y.open[f] # "dead"
(* The port of driver e when there are n clients. *)
PortFor(e, y, n) ==
  /\ y \in Ports /\ n \in Nat /\ Cardinality(ClientFds(y)) = n
  /\ IF n = 0 THEN AtRest(e, y) ELSE Begun(e, y)
  /\ e = "i2cuser" => NoneDead(y)
PortInv == PortFor(d, x, clients)
SceneInv ==
  /\ scene \in Scenes
  /\ {left.others, left.unplugs} \subseteq Nat
  /\ DOMAIN left = {"faults", "others", "clients", "unplugs"}
  /\ left.others <= scene.others
  /\ plugged \/ scene.unplugs > 0
  /\ left.unplugs <= scene.unplugs
Fields == {"buf", "busy", "out", "code", "last", "n", "rep", "near", "idle", "then"}
DriverInv ==
  /\ DOMAIN m = Fields /\ m.then = ""
  /\ d = "accent" => Len(m.buf) < 16
  /\ d = "i2cuser" => DOMAIN c = DOMAIN NewChild /\ ~c.over
DInv == SceneInv /\ DriverInv /\ PortInv

-----------------------------------------------------------------------------
(* What open() and close() do to the descriptors. *)

(* The descriptor that open() returns is free. *)
LEMMA LowestFree ==
    ASSUME NEW y \in Ports, Free(y) # {}
    PROVE  Lowest(y) \in Free(y)
  <1>1. Free(y) \subseteq Nat
    BY FdsAssumption DEF Free
  <1>2. PICK n \in Free(y) : \A k \in Free(y) : n <= k
    BY <1>1, Least
  <1>3. n \in Fds /\ y.open[n] = "" /\ \A g \in Fds : y.open[g] = "" => n <= g
    BY <1>2 DEF Free
  <1> QED
    BY <1>3 DEF Lowest, Free

LEMMA OpenHeld ==
    ASSUME NEW y \in Ports, Free(y) # {}, NEW what \in Uses, what \notin {"", "client"}
    PROVE  /\ Open(y, what) \in Ports
           /\ Lowest(y) \in Fds /\ Lowest(y) \notin Held(y)
           /\ Held(Open(y, what)) = Held(y) \cup {Lowest(y)}
           /\ ClientFds(Open(y, what)) = ClientFds(y)
           /\ Free(Open(y, what)) = Free(y) \ {Lowest(y)}
           /\ Open(y, what).open[Lowest(y)] = what
           /\ \A f \in Fds : f # Lowest(y) => Open(y, what).open[f] = y.open[f]
  <1>1. Lowest(y) \in Fds /\ y.open[Lowest(y)] = ""
    BY LowestFree DEF Free
  <1> QED
    BY <1>1, ZenonT(60) DEF Open, Ports, Held, ClientFds, Free

LEMMA OpenClient ==
    ASSUME NEW y \in Ports, Free(y) # {}
    PROVE  LET z == Open(y, "client") IN
           /\ z \in Ports
           /\ Lowest(y) \in Fds /\ Lowest(y) \notin ClientFds(y)
           /\ Held(z) = Held(y)
           /\ ClientFds(z) = ClientFds(y) \cup {Lowest(y)}
           /\ Free(z) = Free(y) \ {Lowest(y)}
           /\ \A f \in Held(y) : z.open[f] = y.open[f]
  <1>1. Lowest(y) \in Fds /\ y.open[Lowest(y)] = ""
    BY LowestFree DEF Free
  <1> QED
    BY <1>1, ZenonT(60) DEF Open, Ports, Uses, Held, ClientFds, Free

LEMMA CloseHeld ==
    ASSUME NEW y \in Ports, NEW f \in Int
    PROVE  /\ Close(y, f) \in Ports
           /\ Held(Close(y, f)) = Held(y) \ {f}
           /\ ClientFds(Close(y, f)) = ClientFds(y) \ {f}
           /\ \A g \in Fds : g # f => Close(y, f).open[g] = y.open[g]
           /\ Close(y, f).fd = y.fd /\ Close(y, f).dev = y.dev /\ Close(y, f).r = y.r /\ Close(y, f).w = y.w
           /\ Close(y, f).tid = y.tid /\ Close(y, f).live = y.live /\ Close(y, f).lock = y.lock
  <1>1. CASE f \in Fds
    BY <1>1 DEF Close, Ports, Uses, Held, ClientFds
  <1>2. CASE f \notin Fds
    BY <1>2, ZenonT(60) DEF Close, Ports, Held, ClientFds
  <1> QED
    BY <1>1, <1>2

(* No descriptor is None. *)
LEMMA NotNone == None \notin Fds /\ None \in Int /\ Fds \subseteq Int
  BY FdsAssumption DEF None

(* How many descriptors are free. *)
Size(y) == Cardinality(Free(y))

LEMMA SizeIsNat ==
    ASSUME NEW y
    PROVE  IsFiniteSet(Free(y)) /\ Size(y) \in Nat
  <1>1. IsFiniteSet(Free(y))
    BY FdsAssumption, FS_Subset DEF Free
  <1> QED
    BY <1>1, FS_CardinalityType DEF Size

LEMMA RoomToOpen ==
    ASSUME NEW y \in Ports, Size(y) >= 1
    PROVE  /\ Free(y) # {}
           /\ \A what \in Uses \ {""} : Size(Open(y, what)) = Size(y) - 1
  <1>1. IsFiniteSet(Free(y))
    BY SizeIsNat
  <1>2. Free(y) # {}
    <2>1. ASSUME Free(y) = {} PROVE FALSE
      <3>1. Size(y) = 0
        BY <2>1, FS_EmptySet DEF Size
      <3> QED
        BY <3>1
    <2> QED
      BY <2>1
  <1>3. Lowest(y) \in Free(y)
    BY <1>2, LowestFree
  <1>4. Cardinality(Free(y) \ {Lowest(y)}) = Cardinality(Free(y)) - 1
    BY <1>1, <1>3, FS_RemoveElement
  <1>5. ASSUME NEW what \in Uses, what # "" PROVE Size(Open(y, what)) = Size(y) - 1
    <2>1. CASE what = "client"
      <3>1. Free(Open(y, what)) = Free(y) \ {Lowest(y)}
        BY <1>2, <2>1, OpenClient
      <3> QED
        BY <1>4, <3>1 DEF Size
    <2>2. CASE what # "client"
      <3>1. Free(Open(y, what)) = Free(y) \ {Lowest(y)}
        BY <1>2, <1>5, <2>2, OpenHeld
      <3> QED
        BY <1>4, <3>1 DEF Size
    <2> QED
      BY <2>1, <2>2
  <1> QED
    BY <1>2, <1>5

(* Two ports with the same descriptors. *)
LEMMA SameOpen ==
    ASSUME NEW y, NEW z, y.open = z.open
    PROVE  Held(y) = Held(z) /\ ClientFds(y) = ClientFds(z) /\ Free(y) = Free(z) /\ Lowest(y) = Lowest(z)
  BY DEF Held, ClientFds, Free, Lowest

LEMMA OpenKeeps ==
    ASSUME NEW y \in Ports, NEW what
    PROVE  LET z == Open(y, what) IN
           /\ z.fd = y.fd /\ z.dev = y.dev /\ z.r = y.r /\ z.w = y.w
           /\ z.tid = y.tid /\ z.live = y.live /\ z.lock = y.lock /\ z.rc = y.rc
  BY DEF Ports, Open

(* open() of the device into drv.fd. *)
LEMMA OpenFdOpens ==
    ASSUME NEW y \in Ports, Size(y) >= 1
    PROVE  LET z == OpenFd(y) IN
           /\ z \in Ports
           /\ z.fd \in Fds /\ z.fd # None /\ z.fd \notin Held(y) /\ z.open[z.fd] = "dev"
           /\ Held(z) = Held(y) \cup {z.fd} /\ ClientFds(z) = ClientFds(y)
           /\ z.dev = y.dev /\ z.r = y.r /\ z.w = y.w /\ z.tid = y.tid /\ z.live = y.live /\ z.lock = y.lock
           /\ Size(z) = Size(y) - 1
           /\ \A f \in Fds : z.open[f] = "dead" => y.open[f] = "dead"
  <1> DEFINE o == Open(y, "dev")
             z == OpenFd(y)
  <1>0. "dev" \in Uses /\ "dev" \notin {"", "client"}
    BY DEF Uses
  <1>1. /\ o \in Ports
        /\ Lowest(y) \in Fds /\ Lowest(y) \notin Held(y)
        /\ Held(o) = Held(y) \cup {Lowest(y)}
        /\ ClientFds(o) = ClientFds(y)
        /\ o.open[Lowest(y)] = "dev"
        /\ \A f \in Fds : f # Lowest(y) => o.open[f] = y.open[f]
    BY <1>0, RoomToOpen, OpenHeld
  <1>2. /\ o.dev = y.dev /\ o.r = y.r /\ o.w = y.w
        /\ o.tid = y.tid /\ o.live = y.live /\ o.lock = y.lock
    BY OpenKeeps
  <1>3. Size(o) = Size(y) - 1
    BY <1>0, RoomToOpen
  <1>4. z = [o EXCEPT !.fd = Lowest(y)]
    BY DEF OpenFd
  <1> HIDE DEF o, z
  <1>5. Lowest(y) \in Int
    BY <1>1, NotNone
  <1>6. z \in Ports /\ z.open = o.open /\ z.fd = Lowest(y)
        /\ z.dev = o.dev /\ z.r = o.r /\ z.w = o.w /\ z.tid = o.tid /\ z.live = o.live /\ z.lock = o.lock
    BY <1>1, <1>4, <1>5 DEF Ports
  <1>7. Held(z) = Held(o) /\ ClientFds(z) = ClientFds(o) /\ Free(z) = Free(o)
    BY <1>6, SameOpen
  <1>8. Size(z) = Size(y) - 1
    BY <1>3, <1>7 DEF Size
  <1>9. \A f \in Fds : z.open[f] = "dead" => y.open[f] = "dead"
    BY <1>1, <1>6
  <1>10. z.fd # None
    BY <1>1, <1>6, NotNone
  <1> QED
    BY <1>1, <1>2, <1>6, <1>7, <1>8, <1>9, <1>10 DEF z

LEMMA OpenDevOpens ==
    ASSUME NEW y \in Ports, Size(y) >= 1
    PROVE  LET z == OpenDev(y) IN
           /\ z \in Ports
           /\ z.dev \in Fds /\ z.dev # None /\ z.dev \notin Held(y) /\ z.open[z.dev] = "dev"
           /\ Held(z) = Held(y) \cup {z.dev} /\ ClientFds(z) = ClientFds(y)
           /\ z.fd = y.fd /\ z.r = y.r /\ z.w = y.w /\ z.tid = y.tid /\ z.live = y.live /\ z.lock = y.lock
           /\ Size(z) = Size(y) - 1
           /\ \A f \in Fds : f # z.dev => z.open[f] = y.open[f]
  <1> DEFINE o == Open(y, "dev")
             z == OpenDev(y)
  <1>0. "dev" \in Uses /\ "dev" \notin {"", "client"}
    BY DEF Uses
  <1>1. /\ o \in Ports
        /\ Lowest(y) \in Fds /\ Lowest(y) \notin Held(y)
        /\ Held(o) = Held(y) \cup {Lowest(y)}
        /\ ClientFds(o) = ClientFds(y)
        /\ o.open[Lowest(y)] = "dev"
        /\ \A f \in Fds : f # Lowest(y) => o.open[f] = y.open[f]
    BY <1>0, RoomToOpen, OpenHeld
  <1>2. /\ o.fd = y.fd /\ o.r = y.r /\ o.w = y.w
        /\ o.tid = y.tid /\ o.live = y.live /\ o.lock = y.lock
    BY OpenKeeps
  <1>3. Size(o) = Size(y) - 1
    BY <1>0, RoomToOpen
  <1>4. z = [o EXCEPT !.dev = Lowest(y)]
    BY DEF OpenDev
  <1> HIDE DEF o, z
  <1>5. Lowest(y) \in Int
    BY <1>1, NotNone
  <1>6. z \in Ports /\ z.open = o.open /\ z.dev = Lowest(y)
        /\ z.fd = o.fd /\ z.r = o.r /\ z.w = o.w /\ z.tid = o.tid /\ z.live = o.live /\ z.lock = o.lock
    BY <1>1, <1>4, <1>5 DEF Ports
  <1>7. Held(z) = Held(o) /\ ClientFds(z) = ClientFds(o) /\ Free(z) = Free(o)
    BY <1>6, SameOpen
  <1>8. Size(z) = Size(y) - 1
    BY <1>3, <1>7 DEF Size
  <1>9. \A f \in Fds : f # z.dev => z.open[f] = y.open[f]
    BY <1>1, <1>6
  <1>10. z.dev # None
    BY <1>1, <1>6, NotNone
  <1> QED
    BY <1>1, <1>2, <1>6, <1>7, <1>8, <1>9, <1>10 DEF z

(* pipe(): two descriptors. *)
LEMMA PipeOpens ==
    ASSUME NEW y \in Ports, Size(y) >= 2
    PROVE  LET z == Pipe(y) IN
           /\ z \in Ports
           /\ z.r \in Fds /\ z.r # None /\ z.r \notin Held(y) /\ z.open[z.r] = "r"
           /\ z.w \in Fds /\ z.w # None /\ z.w \notin Held(y) /\ z.w # z.r
           /\ Held(z) = Held(y) \cup {z.r, z.w} /\ ClientFds(z) = ClientFds(y)
           /\ z.fd = y.fd /\ z.dev = y.dev /\ z.tid = y.tid /\ z.live = y.live /\ z.lock = y.lock
           /\ Size(z) = Size(y) - 2
           /\ \A f \in Held(y) : z.open[f] = y.open[f]
           /\ \A f \in Fds : z.open[f] = "dead" => y.open[f] = "dead"
  <1> DEFINE one == Open(y, "r")
             two == Open(one, "w")
             z == Pipe(y)
  <1>0. "r" \in Uses /\ "r" \notin {"", "client"} /\ "w" \in Uses /\ "w" \notin {"", "client"}
    BY DEF Uses
  <1>1. Free(y) # {} /\ Size(one) = Size(y) - 1 /\ Size(y) \in Nat /\ Size(y) >= 1
    <2>1. Size(y) \in Nat /\ Size(y) >= 1
      BY SizeIsNat
    <2> QED
      BY <1>0, <2>1, RoomToOpen
  <1>2. /\ one \in Ports
        /\ Lowest(y) \in Fds /\ Lowest(y) \notin Held(y)
        /\ Held(one) = Held(y) \cup {Lowest(y)}
        /\ ClientFds(one) = ClientFds(y)
        /\ one.open[Lowest(y)] = "r"
        /\ \A f \in Fds : f # Lowest(y) => one.open[f] = y.open[f]
    BY <1>0, <1>1, OpenHeld
  <1>3. Free(one) # {} /\ Size(two) = Size(y) - 2
    <2> HIDE DEF one
    <2>1. Size(one) >= 1
      BY <1>1
    <2>2. Free(one) # {} /\ Size(two) = Size(one) - 1
      BY <1>0, <1>2, <2>1, RoomToOpen
    <2>3. Size(two) = Size(y) - 2
      BY <1>1, <2>2
    <2> QED
      BY <2>2, <2>3
  <1>4. /\ two \in Ports
        /\ Lowest(one) \in Fds /\ Lowest(one) \notin Held(one)
        /\ Held(two) = Held(one) \cup {Lowest(one)}
        /\ ClientFds(two) = ClientFds(one)
        /\ two.open[Lowest(one)] = "w"
        /\ \A f \in Fds : f # Lowest(one) => two.open[f] = one.open[f]
    BY <1>0, <1>2, <1>3, OpenHeld, ZenonT(60)
  <1>5. /\ two.fd = y.fd /\ two.dev = y.dev
        /\ two.tid = y.tid /\ two.live = y.live /\ two.lock = y.lock
    BY <1>2, OpenKeeps
  <1>7. z = [two EXCEPT !.r = Lowest(y), !.w = Lowest(one)]
    BY DEF Pipe
  <1> HIDE DEF one, two, z
  <1>8. Lowest(y) \in Int /\ Lowest(one) \in Int
    BY <1>2, <1>4, NotNone
  <1>9. z \in Ports /\ z.open = two.open /\ z.r = Lowest(y) /\ z.w = Lowest(one)
        /\ z.fd = two.fd /\ z.dev = two.dev /\ z.tid = two.tid /\ z.live = two.live /\ z.lock = two.lock
    BY <1>4, <1>7, <1>8 DEF Ports
  <1>10. Held(z) = Held(two) /\ ClientFds(z) = ClientFds(two) /\ Free(z) = Free(two)
    BY <1>9, SameOpen
  <1>11. Size(z) = Size(y) - 2
    BY <1>3, <1>10 DEF Size
  <1>12. \A f \in Fds : z.open[f] = "dead" => y.open[f] = "dead"
    BY <1>2, <1>4, <1>9
  <1>13. \A f \in Held(y) : z.open[f] = y.open[f]
    <2>1. Held(y) \subseteq Fds /\ Held(y) \subseteq Held(one)
      BY <1>2 DEF Held
    <2> QED
      BY <1>2, <1>4, <1>9, <2>1
  <1>14. z.r # None /\ z.w # None /\ z.w # z.r /\ z.open[z.r] = "r"
    BY <1>2, <1>4, <1>9, NotNone
  <1> QED
    BY <1>2, <1>4, <1>5, <1>9, <1>10, <1>11, <1>12, <1>13, <1>14 DEF z

(* Lock files. *)
LEMMA LockCreated ==
    ASSUME NEW y \in Ports
    PROVE  LET z == tty_create_lock(y) IN
           /\ z \in Ports /\ z.open = y.open /\ z.lock.name = "own"
           /\ z.fd = y.fd /\ z.dev = y.dev /\ z.r = y.r /\ z.w = y.w /\ z.tid = y.tid /\ z.live = y.live
           /\ [z EXCEPT !.fd = None] = tty_create_lock([y EXCEPT !.fd = None])
  <1> DEFINE l == [name |-> "own",
                   target |-> IF y.link /\ y.lock.target \in {"", "dead"} THEN "own" ELSE y.lock.target]
  <1>1. l \in [name : Marks, target : Marks] /\ l.name = "own"
    BY DEF Ports, Marks
  <1>2. tty_create_lock(y) = [y EXCEPT !.lock = l]
    BY DEF tty_create_lock, Ports
  <1>3. tty_create_lock([y EXCEPT !.fd = None]) = [[y EXCEPT !.fd = None] EXCEPT !.lock = l]
    BY DEF tty_create_lock, Ports
  <1> HIDE DEF l
  <1> QED
    BY <1>1, <1>2, <1>3, ZenonT(60) DEF Ports

LEMMA LockDeleted ==
    ASSUME NEW y \in Ports
    PROVE  LET z == tty_delete_lock(y) IN
           /\ z \in Ports /\ z.open = y.open /\ Unlocked(z)
           /\ z.lock.name = "other" => y.lock.name = "other"
           /\ z.fd = y.fd /\ z.dev = y.dev /\ z.r = y.r /\ z.w = y.w /\ z.tid = y.tid /\ z.live = y.live
  <1> DEFINE l == [f \in DOMAIN y.lock |-> IF y.lock[f] = "own" THEN "" ELSE y.lock[f]]
  <1>1. tty_delete_lock(y) = [y EXCEPT !.lock = l]
    BY DEF tty_delete_lock, Ports
  <1>2. y.lock \in [name : Marks, target : Marks]
    BY DEF Ports
  <1>3. DOMAIN y.lock = {"name", "target"}
    BY <1>2
  <1>4. l.name = (IF y.lock.name = "own" THEN "" ELSE y.lock.name)
        /\ l.target = (IF y.lock.target = "own" THEN "" ELSE y.lock.target)
    BY <1>3
  <1>5. l \in [name : Marks, target : Marks]
    BY <1>2, <1>3, <1>4 DEF Marks
  <1> HIDE DEF l
  <1> QED
    BY <1>1, <1>2, <1>4, <1>5 DEF Ports, Unlocked

-----------------------------------------------------------------------------
(* What AtRest and InUse say of each family of drivers. *)

OwnDevice(y) == y.fd \in Held(y) /\ y.open[y.fd] \in {"dev", "dead", "r", "null"}
Nothing(y) == Held(y) = {} /\ y.live = 0 /\ Unlocked(y)

LEMMA RestSerial ==
    ASSUME NEW e \in Serial, NEW y
    PROVE  /\ AtRest(e, y) <=> /\ Nothing(y) /\ (y.fd = None \/ y.lock.name # "other")
                               /\ (e = "pinsys" => y.lock.name # "other")
           /\ InUse(e, y) <=> OwnDevice(y) /\ Held(y) = {y.fd} /\ y.live = 0 /\ y.lock.name # "other"
  BY DEF AtRest, InUse, OwnDevice, Nothing, Serial, Leaking, Forgetful, AllDrivers, Single, Locking, Hiddev, Default, Blocking

LEMMA RestBlocking ==
    ASSUME NEW e \in Blocking, NEW y
    PROVE  /\ AtRest(e, y) <=> Nothing(y)
           /\ InUse(e, y) <=> OwnDevice(y) /\ Held(y) = {y.fd} /\ y.live = 0 /\ Unlocked(y)
  BY DEF AtRest, InUse, OwnDevice, Nothing, Serial, Leaking, Forgetful, AllDrivers, Single, Locking, Hiddev, Default, Blocking

LockingForgetful == {"usbx", "tira", "irlink"}
LEMMA RestLocking ==
    ASSUME NEW e \in LockingForgetful, NEW y
    PROVE  /\ AtRest(e, y) <=> Nothing(y) /\ y.fd = None /\ (e = "tira" => y.tid = None)
           /\ InUse(e, y) <=> OwnDevice(y) /\ Held(y) = {y.fd} /\ y.live = 0 /\ (e = "tira" => y.tid = None)
  BY DEF AtRest, InUse, OwnDevice, Nothing, Serial, Leaking, Forgetful, AllDrivers, Single, Locking, Hiddev, Default,
         Blocking, LockingForgetful, Threaded

Plain == Hiddev \cup Default \cup {"sb0540", "samsung", "alsa_usb"}
LEMMA RestPlain ==
    ASSUME NEW e \in Plain, NEW y
    PROVE  /\ AtRest(e, y) <=> Nothing(y) /\ y.fd = None
           /\ InUse(e, y) <=> OwnDevice(y) /\ Held(y) = {y.fd} /\ y.live = 0 /\ Unlocked(y)
  BY DEF AtRest, InUse, OwnDevice, Nothing, Serial, Leaking, Forgetful, AllDrivers, Single, Locking, Hiddev, Default,
         Blocking, Plain, Threaded

LEMMA RestDevinput ==
    ASSUME NEW y
    PROVE  /\ AtRest("devinput", y) <=> Nothing(y) /\ y.fd = None /\ y.dev = None
           /\ InUse("devinput", y) <=> OwnDevice(y) /\ Held(y) = {y.fd} \cup ({y.dev} \ {None}) /\ y.live = 0 /\ Unlocked(y)
  BY DEF AtRest, InUse, OwnDevice, Nothing, Serial, Leaking, Forgetful, AllDrivers, Single, Locking, Hiddev, Default,
         Blocking, Threaded

LEMMA RestInfracd ==
    ASSUME NEW y
    PROVE  /\ AtRest("creative_infracd", y) <=> Nothing(y)
           /\ InUse("creative_infracd", y) <=> OwnDevice(y) /\ Held(y) = {y.fd, y.dev} /\ y.live = 0 /\ Unlocked(y)
  BY DEF AtRest, InUse, OwnDevice, Nothing, Serial, Leaking, Forgetful, AllDrivers, Single, Locking, Hiddev, Default,
         Blocking, Threaded

Repeating == {"zotac", "atwf83"}
LEMMA RestRepeating ==
    ASSUME NEW e \in Repeating, NEW y
    PROVE  /\ AtRest(e, y) <=> Nothing(y) /\ y.fd = None /\ y.dev = None /\ y.r = None /\ y.w = None
           /\ InUse(e, y) <=> OwnDevice(y) /\ Held(y) = {y.dev, y.r, y.w} /\ Unlocked(y)
  BY DEF AtRest, InUse, OwnDevice, Nothing, Serial, Leaking, Forgetful, AllDrivers, Single, Locking, Hiddev, Default,
         Blocking, Threaded, Repeating

LEMMA RestI2c ==
    ASSUME NEW y
    PROVE  /\ AtRest("i2cuser", y) <=> Nothing(y)
           /\ InUse("i2cuser", y) <=> OwnDevice(y) /\ Held(y) = {y.fd, y.dev} /\ y.live = 1 /\ y.tid # None /\ Unlocked(y)
  BY DEF AtRest, InUse, OwnDevice, Nothing, Serial, Leaking, Forgetful, AllDrivers, Single, Locking, Hiddev, Default,
         Blocking, Threaded

LEMMA RestNowheel ==
    ASSUME NEW y
    PROVE  /\ AtRest("mplay_nowheel", y) <=> Nothing(y) /\ y.fd = None /\ y.dev = None /\ y.r = None /\ y.w = None
           /\ InUse("mplay_nowheel", y) <=> OwnDevice(y) /\ Held(y) = {y.fd} /\ y.live = 0 /\ y.dev = y.fd
                                            /\ y.r = None /\ y.w = None
  BY DEF AtRest, InUse, OwnDevice, Nothing, Serial, Leaking, Forgetful, AllDrivers, Single, Locking, Hiddev, Default,
         Blocking, Threaded

LEMMA RestMplay ==
    ASSUME NEW y
    PROVE  /\ AtRest("mplay", y) <=> y.fd = None /\ y.dev = None /\ y.r = None /\ y.w = None
           /\ InUse("mplay", y) <=> OwnDevice(y) /\ y.fd = y.r /\ y.w \in Held(y)
  BY DEF AtRest, InUse, OwnDevice, Nothing, Serial, Leaking, Forgetful, AllDrivers, Single, Locking, Hiddev, Default,
         Blocking, Threaded

Usb == {"ati", "aw", "dfc"}
LEMMA RestUsb ==
    ASSUME NEW e \in Usb, NEW y
    PROVE  /\ AtRest(e, y) <=> y.fd = None /\ y.dev = None
           /\ InUse(e, y) <=> OwnDevice(y) /\ (y.dev = None \/ y.dev \in Held(y))
  BY DEF AtRest, InUse, OwnDevice, Nothing, Serial, Leaking, Forgetful, AllDrivers, Single, Locking, Hiddev, Default,
         Blocking, Threaded, Usb

-----------------------------------------------------------------------------
(* deinit_func() of a driver whose device is open, or after a failure of   *)
(* init_func() when the last client has gone.                              *)
Closable(e, y) == InUse(e, y) \/ (Vacant(e, y) /\ ClientFds(y) = {})
Ended(e, y, z) == z \in Ports /\ ClientFds(z) = ClientFds(y) /\ AtRest(e, z)

LEMMA Disjoint ==
    ASSUME NEW y
    PROVE  ClientFds(y) \cap Held(y) = {} /\ None \notin Held(y) /\ None \notin ClientFds(y)
  BY NotNone DEF ClientFds, Held

LEMMA PortNumbers ==
    ASSUME NEW y \in Ports
    PROVE  y.fd \in Int /\ y.dev \in Int /\ y.r \in Int /\ y.w \in Int /\ y.tid \in Int /\ y.live \in Int
  BY DEF Ports

LEMMA TtyDeinit ==
    ASSUME NEW y \in Ports
    PROVE  LET z == tty_deinit(y) IN
           /\ z \in Ports /\ Unlocked(z)
           /\ Held(z) = Held(y) \ {y.fd} /\ ClientFds(z) = ClientFds(y) \ {y.fd}
           /\ z.lock.name = "other" => y.lock.name = "other"
           /\ z.fd = y.fd /\ z.dev = y.dev /\ z.r = y.r /\ z.w = y.w /\ z.tid = y.tid /\ z.live = y.live
  <1> DEFINE o == Close(y, y.fd)
             z == tty_deinit(y)
  <1>1. y.fd \in Int
    BY PortNumbers
  <1>2. /\ o \in Ports
        /\ Held(o) = Held(y) \ {y.fd} /\ ClientFds(o) = ClientFds(y) \ {y.fd}
        /\ o.fd = y.fd /\ o.dev = y.dev /\ o.r = y.r /\ o.w = y.w
        /\ o.tid = y.tid /\ o.live = y.live /\ o.lock = y.lock
    BY <1>1, CloseHeld
  <1>3. z = tty_delete_lock(o)
    BY DEF tty_deinit
  <1> HIDE DEF o, z
  <1>4. /\ z \in Ports /\ z.open = o.open /\ Unlocked(z)
        /\ z.lock.name = "other" => o.lock.name = "other"
        /\ z.fd = o.fd /\ z.dev = o.dev /\ z.r = o.r /\ z.w = o.w /\ z.tid = o.tid /\ z.live = o.live
    BY <1>2, <1>3, LockDeleted
  <1>5. Held(z) = Held(o) /\ ClientFds(z) = ClientFds(o)
    BY <1>4, SameOpen
  <1> QED
    BY <1>2, <1>4, <1>5 DEF z

LEMMA TtyForgets ==
    ASSUME NEW y \in Ports
    PROVE  LET z == usbx_deinit(y) IN
           /\ z \in Ports /\ Unlocked(z)
           /\ Held(z) = Held(y) \ {y.fd} /\ ClientFds(z) = ClientFds(y) \ {y.fd}
           /\ z.fd = None /\ z.dev = y.dev /\ z.r = y.r /\ z.w = y.w /\ z.tid = y.tid /\ z.live = y.live
  <1> DEFINE o == Close(y, y.fd)
             q == [o EXCEPT !.fd = None]
             z == usbx_deinit(y)
  <1>1. y.fd \in Int
    BY PortNumbers
  <1>2. /\ o \in Ports
        /\ Held(o) = Held(y) \ {y.fd} /\ ClientFds(o) = ClientFds(y) \ {y.fd}
        /\ o.fd = y.fd /\ o.dev = y.dev /\ o.r = y.r /\ o.w = y.w
        /\ o.tid = y.tid /\ o.live = y.live /\ o.lock = y.lock
    BY <1>1, CloseHeld
  <1>3. z = tty_delete_lock(q)
    BY DEF usbx_deinit
  <1> HIDE DEF o, z
  <1>4. q \in Ports /\ q.open = o.open /\ q.fd = None /\ q.dev = o.dev /\ q.r = o.r /\ q.w = o.w
        /\ q.tid = o.tid /\ q.live = o.live
    BY <1>2, NotNone DEF Ports
  <1> HIDE DEF q
  <1>5. /\ z \in Ports /\ z.open = q.open /\ Unlocked(z)
        /\ z.fd = q.fd /\ z.dev = q.dev /\ z.r = q.r /\ z.w = q.w /\ z.tid = q.tid /\ z.live = q.live
    BY <1>3, <1>4, LockDeleted
  <1>6. Held(z) = Held(o) /\ ClientFds(z) = ClientFds(o)
    BY <1>4, <1>5, SameOpen
  <1> QED
    BY <1>2, <1>4, <1>5, <1>6 DEF z

(* close() of drv.fd, which is forgotten. *)
LEMMA FdClosed ==
    ASSUME NEW y \in Ports
    PROVE  LET z == [Close(y, y.fd) EXCEPT !.fd = None] IN
           /\ z \in Ports
           /\ Held(z) = Held(y) \ {y.fd} /\ ClientFds(z) = ClientFds(y) \ {y.fd}
           /\ z.fd = None /\ z.dev = y.dev /\ z.r = y.r /\ z.w = y.w /\ z.tid = y.tid /\ z.live = y.live
           /\ z.lock = y.lock
  <1> DEFINE o == Close(y, y.fd)
             z == [o EXCEPT !.fd = None]
  <1>1. y.fd \in Int
    BY PortNumbers
  <1>2. /\ o \in Ports
        /\ Held(o) = Held(y) \ {y.fd} /\ ClientFds(o) = ClientFds(y) \ {y.fd}
        /\ o.fd = y.fd /\ o.dev = y.dev /\ o.r = y.r /\ o.w = y.w
        /\ o.tid = y.tid /\ o.live = y.live /\ o.lock = y.lock
    BY <1>1, CloseHeld
  <1> HIDE DEF o
  <1>4. z \in Ports /\ z.open = o.open /\ z.fd = None /\ z.dev = o.dev /\ z.r = o.r /\ z.w = o.w
        /\ z.tid = o.tid /\ z.live = o.live /\ z.lock = o.lock
    BY <1>2, NotNone DEF Ports
  <1>6. Held(z) = Held(o) /\ ClientFds(z) = ClientFds(o)
    BY <1>4, SameOpen
  <1> QED
    BY <1>2, <1>4, <1>6 DEF o

LEMMA SerialEnds ==
    ASSUME NEW e \in Serial, NEW y \in Ports, Closable(e, y)
    PROVE  Ended(e, y, tty_deinit(y))
  <1> DEFINE z == tty_deinit(y)
  <1>1. /\ z \in Ports /\ Unlocked(z)
        /\ Held(z) = Held(y) \ {y.fd} /\ ClientFds(z) = ClientFds(y) \ {y.fd}
        /\ z.lock.name = "other" => y.lock.name = "other"
        /\ z.fd = y.fd /\ z.live = y.live
    BY TtyDeinit
  <1> HIDE DEF z
  <1>2. CASE InUse(e, y)
    <2>1. OwnDevice(y) /\ Held(y) = {y.fd} /\ y.live = 0 /\ y.lock.name # "other"
      BY <1>2, RestSerial
    <2>2. AtRest(e, z)
      BY <1>1, <2>1, RestSerial DEF Nothing
    <2>3. ClientFds(z) = ClientFds(y)
      BY <1>1, <2>1, Disjoint
    <2> QED
      BY <1>1, <2>2, <2>3 DEF Ended, z
  <1>3. CASE Vacant(e, y)
    <2>1. Nothing(y) /\ y.fd = None /\ (e = "pinsys" => y.lock.name # "other")
      BY <1>3, RestSerial DEF Vacant
    <2>2. AtRest(e, z)
      BY <1>1, <2>1, RestSerial DEF Nothing
    <2>3. ClientFds(z) = ClientFds(y)
      BY <1>1, <2>1, Disjoint
    <2> QED
      BY <1>1, <2>2, <2>3 DEF Ended, z
  <1> QED
    BY <1>2, <1>3 DEF Closable

(* When it forgets the number the port is as it was at first. *)
LEMMA ForgetfulEnds ==
    ASSUME NEW e \in LockingForgetful, NEW y \in Ports, Closable(e, y)
    PROVE  Ended(e, y, usbx_deinit(y))
  <1> DEFINE z == usbx_deinit(y)
  <1>1. /\ z \in Ports /\ Unlocked(z)
        /\ Held(z) = Held(y) \ {y.fd} /\ ClientFds(z) = ClientFds(y) \ {y.fd}
        /\ z.fd = None /\ z.live = y.live /\ z.tid = y.tid
    BY TtyForgets
  <1> HIDE DEF z
  <1>2. /\ Held(y) \subseteq {y.fd} /\ y.live = 0 /\ (y.fd = None \/ y.fd \in Held(y))
        /\ e = "tira" => y.tid = None
    BY RestLocking DEF Closable, Vacant, Nothing, OwnDevice
  <1>3. AtRest(e, z)
    BY <1>1, <1>2, RestLocking DEF Nothing
  <1>4. ClientFds(z) = ClientFds(y)
    BY <1>1, <1>2, Disjoint
  <1> QED
    BY <1>1, <1>3, <1>4 DEF Ended, z

LEMMA TiraEnds ==
    ASSUME NEW y \in Ports, Closable("tira", y)
    PROVE  Ended("tira", y, tira_deinit(y))
  <1>0. "tira" \in LockingForgetful
    BY DEF LockingForgetful
  <1>1. y.tid = None
    BY <1>0, RestLocking DEF Closable, Vacant
  <1>2. [y EXCEPT !.tid = None, !.live = IF y.tid = None THEN @ ELSE @ - 1] = y
    BY <1>1 DEF Ports
  <1>3. tira_deinit(y) = usbx_deinit(y)
    BY <1>2 DEF tira_deinit
  <1> QED
    BY <1>0, <1>3, ForgetfulEnds

LEMMA IrlinkEnds ==
    ASSUME NEW y \in Ports, Closable("irlink", y)
    PROVE  Ended("irlink", y, irlink_deinit(y))
  <1>0. "irlink" \in LockingForgetful
    BY DEF LockingForgetful
  <1>1. CASE y.fd = None
    <2>1. ~InUse("irlink", y)
      BY <1>0, <1>1, RestLocking, Disjoint DEF OwnDevice
    <2> QED
      BY <1>1, <2>1 DEF Closable, Vacant, Ended, irlink_deinit
  <1>2. CASE y.fd # None
    BY <1>0, <1>2, ForgetfulEnds DEF irlink_deinit
  <1> QED
    BY <1>1, <1>2

LEMMA BlockingEnds ==
    ASSUME NEW e \in Blocking, NEW y \in Ports, Closable(e, y)
    PROVE  Ended(e, y, livedrive_deinit(y))
  <1> DEFINE z == Close(y, y.fd)
  <1>1. /\ z \in Ports /\ z.lock = y.lock
        /\ Held(z) = Held(y) \ {y.fd} /\ ClientFds(z) = ClientFds(y) \ {y.fd}
        /\ z.live = y.live
    BY PortNumbers, CloseHeld
  <1>0. livedrive_deinit(y) = z
    BY DEF livedrive_deinit
  <1> HIDE DEF z
  <1>2. /\ Held(y) \subseteq {y.fd} /\ y.live = 0 /\ (y.fd = None \/ y.fd \in Held(y)) /\ Unlocked(y)
    BY RestBlocking DEF Closable, Vacant, Nothing, OwnDevice
  <1>3. AtRest(e, z)
    BY <1>1, <1>2, RestBlocking DEF Nothing, Unlocked
  <1>4. ClientFds(z) = ClientFds(y)
    BY <1>1, <1>2, Disjoint
  <1> QED
    BY <1>0, <1>1, <1>3, <1>4 DEF Ended

LEMMA PlainEnds ==
    ASSUME NEW e \in Plain, NEW y \in Ports, Closable(e, y)
    PROVE  Ended(e, y, [Close(y, y.fd) EXCEPT !.fd = None])
  <1> DEFINE z == [Close(y, y.fd) EXCEPT !.fd = None]
  <1>1. /\ z \in Ports /\ z.lock = y.lock /\ z.fd = None
        /\ Held(z) = Held(y) \ {y.fd} /\ ClientFds(z) = ClientFds(y) \ {y.fd}
        /\ z.live = y.live
    BY FdClosed
  <1> HIDE DEF z
  <1>2. /\ Held(y) \subseteq {y.fd} /\ y.live = 0 /\ (y.fd = None \/ y.fd \in Held(y)) /\ Unlocked(y)
    BY RestPlain DEF Closable, Vacant, Nothing, OwnDevice
  <1>3. AtRest(e, z)
    BY <1>1, <1>2, RestPlain DEF Nothing, Unlocked
  <1>4. ClientFds(z) = ClientFds(y)
    BY <1>1, <1>2, Disjoint
  <1> QED
    BY <1>1, <1>3, <1>4 DEF Ended, z

LEMMA DevinputEnds ==
    ASSUME NEW y \in Ports, Closable("devinput", y)
    PROVE  Ended("devinput", y, devinput_deinit(y))
  <1> DEFINE o == Close(y, y.dev)
             q == [o EXCEPT !.dev = None]
             z == [Close(q, q.fd) EXCEPT !.fd = None]
  <1>0. devinput_deinit(y) = z
    BY DEF devinput_deinit
  <1>1. /\ o \in Ports /\ o.lock = y.lock /\ o.fd = y.fd /\ o.live = y.live
        /\ Held(o) = Held(y) \ {y.dev} /\ ClientFds(o) = ClientFds(y) \ {y.dev}
    BY PortNumbers, CloseHeld, SMTT(60)
  <1> HIDE DEF o
  <1>2. q \in Ports /\ q.open = o.open /\ q.lock = o.lock /\ q.fd = o.fd /\ q.live = o.live /\ q.dev = None
    BY <1>1, NotNone DEF Ports
  <1> HIDE DEF q
  <1>3. Held(q) = Held(o) /\ ClientFds(q) = ClientFds(o)
    BY <1>2, SameOpen
  <1>4. /\ z \in Ports /\ z.lock = q.lock /\ z.fd = None /\ z.dev = q.dev
        /\ Held(z) = Held(q) \ {q.fd} /\ ClientFds(z) = ClientFds(q) \ {q.fd}
        /\ z.live = q.live
    BY <1>2, FdClosed
  <1> HIDE DEF z
  <1>5. /\ Held(y) \subseteq {y.fd, y.dev} /\ y.live = 0 /\ Unlocked(y)
        /\ y.fd = None \/ y.fd \in Held(y)
        /\ y.dev = None \/ y.dev \in Held(y)
    BY RestDevinput DEF Closable, Vacant, Nothing, OwnDevice
  <1>6. AtRest("devinput", z)
    BY <1>1, <1>2, <1>3, <1>4, <1>5, RestDevinput DEF Nothing, Unlocked
  <1>7. ClientFds(z) = ClientFds(y)
    BY <1>1, <1>2, <1>3, <1>4, <1>5, Disjoint
  <1> QED
    BY <1>0, <1>4, <1>6, <1>7 DEF Ended

(* After a failure this driver closes a number it once had, when no client *)
(* can have it.                                                            *)
LEMMA InfracdEnds ==
    ASSUME NEW y \in Ports, Closable("creative_infracd", y)
    PROVE  Ended("creative_infracd", y, creative_infracd_deinit(y))
  <1> DEFINE o == Close(y, y.fd)
             z == Close(o, y.dev)
  <1>0. creative_infracd_deinit(y) = z
    BY DEF creative_infracd_deinit
  <1>1. /\ o \in Ports /\ o.lock = y.lock /\ o.live = y.live
        /\ Held(o) = Held(y) \ {y.fd} /\ ClientFds(o) = ClientFds(y) \ {y.fd}
    BY PortNumbers, CloseHeld
  <1> HIDE DEF o
  <1>2. /\ z \in Ports /\ z.lock = o.lock /\ z.live = o.live
        /\ Held(z) = Held(o) \ {y.dev} /\ ClientFds(z) = ClientFds(o) \ {y.dev}
    BY <1>1, PortNumbers, CloseHeld, SMTT(60)
  <1> HIDE DEF z
  <1>3. /\ Held(y) \subseteq {y.fd, y.dev} /\ y.live = 0 /\ Unlocked(y)
        /\ ClientFds(y) = {} \/ (y.fd \in Held(y) /\ y.dev \in Held(y))
    BY RestInfracd DEF Closable, Vacant, Nothing, OwnDevice
  <1>4. AtRest("creative_infracd", z)
    BY <1>1, <1>2, <1>3, RestInfracd DEF Nothing, Unlocked
  <1>5. ClientFds(z) = ClientFds(y)
    BY <1>1, <1>2, <1>3, Disjoint
  <1> QED
    BY <1>0, <1>2, <1>4, <1>5 DEF Ended

LEMMA RepeatingEnds ==
    ASSUME NEW e \in Repeating, NEW y \in Ports, Closable(e, y)
    PROVE  Ended(e, y, repeat_deinit(y))
  <1> DEFINE o == Close(y, y.dev)
             p == Close(o, y.w)
             q == Close(p, y.r)
             q1 == [q EXCEPT !.dev = None, !.r = None]
             q2 == [q1 EXCEPT !.w = None, !.fd = None]
             z == [q2 EXCEPT !.live = 0]
  <1>0. repeat_deinit(y) = z
    <2>1. y.w = Close(y, y.dev).w /\ y.r = Close(y, y.dev).r
      BY PortNumbers, CloseHeld
    <2> QED
      BY <2>1 DEF repeat_deinit
  <1>1. /\ o \in Ports /\ o.lock = y.lock
        /\ Held(o) = Held(y) \ {y.dev} /\ ClientFds(o) = ClientFds(y) \ {y.dev}
    BY PortNumbers, CloseHeld
  <1> HIDE DEF o
  <1>2. /\ p \in Ports /\ p.lock = o.lock
        /\ Held(p) = Held(o) \ {y.w} /\ ClientFds(p) = ClientFds(o) \ {y.w}
    BY <1>1, PortNumbers, CloseHeld
  <1> HIDE DEF p
  <1>3. /\ q \in Ports /\ q.lock = p.lock
        /\ Held(q) = Held(p) \ {y.r} /\ ClientFds(q) = ClientFds(p) \ {y.r}
    BY <1>2, PortNumbers, CloseHeld, SMTT(60)
  <1> HIDE DEF q
  <1>4. /\ z \in Ports /\ z.open = q.open /\ z.lock = q.lock /\ z.live = 0
        /\ z.dev = None /\ z.r = None /\ z.w = None /\ z.fd = None
    <2>1. q1 \in Ports /\ q1.open = q.open /\ q1.lock = q.lock /\ q1.dev = None /\ q1.r = None
      BY <1>3, NotNone DEF Ports
    <2> HIDE DEF q1
    <2>2. /\ q2 \in Ports /\ q2.open = q.open /\ q2.lock = q.lock /\ q2.dev = None /\ q2.r = None
          /\ q2.w = None /\ q2.fd = None
      BY <2>1, NotNone DEF Ports
    <2> HIDE DEF q2
    <2> QED
      BY <2>2 DEF Ports
  <1> HIDE DEF z
  <1>5. Held(z) = Held(q) /\ ClientFds(z) = ClientFds(q)
    BY <1>4, SameOpen
  <1>6. /\ Held(y) \subseteq {y.dev, y.r, y.w} /\ Unlocked(y)
        /\ y.dev = None \/ y.dev \in Held(y)
        /\ y.r = None \/ y.r \in Held(y)
        /\ y.w = None \/ y.w \in Held(y)
    BY RestRepeating DEF Closable, Vacant, Nothing, OwnDevice
  <1>7. AtRest(e, z)
    BY <1>1, <1>2, <1>3, <1>4, <1>5, <1>6, RestRepeating DEF Nothing, Unlocked
  <1>8. ClientFds(z) = ClientFds(y)
    BY <1>1, <1>2, <1>3, <1>5, <1>6, Disjoint
  <1> QED
    BY <1>0, <1>4, <1>7, <1>8 DEF Ended

LEMMA I2cEnds ==
    ASSUME NEW y \in Ports, Closable("i2cuser", y)
    PROVE  Ended("i2cuser", y, i2cuser_deinit(y))
  <1>1. CASE y.tid # None /\ y.live = 0
    BY <1>1, RestI2c DEF Closable, Vacant, Ended, i2cuser_deinit
  <1>2. CASE ~(y.tid # None /\ y.live = 0)
    <2> DEFINE o == Close(y, y.dev)
               p == Close(o, y.fd)
               z == [p EXCEPT !.live = IF y.tid # None THEN @ - 1 ELSE @]
    <2>0. i2cuser_deinit(y) = z
      <3>1. y.fd = Close(y, y.dev).fd
        BY PortNumbers, CloseHeld
      <3> QED
        BY <1>2, <3>1 DEF i2cuser_deinit
    <2>1. /\ o \in Ports /\ o.lock = y.lock /\ o.live = y.live
          /\ Held(o) = Held(y) \ {y.dev} /\ ClientFds(o) = ClientFds(y) \ {y.dev}
      BY PortNumbers, CloseHeld
    <2> HIDE DEF o
    <2>2. /\ p \in Ports /\ p.lock = o.lock /\ p.live = o.live
          /\ Held(p) = Held(o) \ {y.fd} /\ ClientFds(p) = ClientFds(o) \ {y.fd}
      BY <2>1, PortNumbers, CloseHeld, SMTT(60)
    <2> HIDE DEF p
    <2>3. /\ z \in Ports /\ z.open = p.open /\ z.lock = p.lock
          /\ z.live = IF y.tid # None THEN p.live - 1 ELSE p.live
      BY <2>2 DEF Ports
    <2> HIDE DEF z
    <2>4. Held(z) = Held(p) /\ ClientFds(z) = ClientFds(p)
      BY <2>3, SameOpen
    <2>5. /\ Held(y) \subseteq {y.fd, y.dev} /\ Unlocked(y)
          /\ ClientFds(y) = {} \/ (y.fd \in Held(y) /\ y.dev \in Held(y))
          /\ (y.tid # None /\ y.live = 1) \/ (y.tid = None /\ y.live = 0)
      BY <1>2, RestI2c DEF Closable, Vacant, Nothing, OwnDevice
    <2>6. AtRest("i2cuser", z)
      BY <2>1, <2>2, <2>3, <2>4, <2>5, RestI2c DEF Nothing, Unlocked
    <2>7. ClientFds(z) = ClientFds(y)
      BY <2>1, <2>2, <2>4, <2>5, Disjoint
    <2> QED
      BY <2>0, <2>3, <2>6, <2>7 DEF Ended
  <1> QED
    BY <1>1, <1>2

(* mplayfamily_deinit(): the pipe, then the device unless drv.fd is None.  *)
LEMMA MplayDeinit ==
    ASSUME NEW y \in Ports
    PROVE  LET z == mplayfamily_deinit(y) IN
           /\ z \in Ports /\ z.r = None /\ z.w = None /\ z.fd = None /\ z.live = y.live
           /\ y.fd = None => /\ z.dev = y.dev /\ z.lock = y.lock
                             /\ Held(z) = Held(y) \ {y.r, y.w} /\ ClientFds(z) = ClientFds(y) \ {y.r, y.w}
           /\ y.fd # None => /\ z.dev = None /\ Unlocked(z)
                             /\ Held(z) = Held(y) \ {y.r, y.w, y.fd}
                             /\ ClientFds(z) = ClientFds(y) \ {y.r, y.w, y.fd}
  <1> DEFINE o == Close(y, y.r)
             p == Close(o, y.w)
             q == [p EXCEPT !.r = None, !.w = None]
             z == mplayfamily_deinit(y)
             a == Close(q, y.fd)
             b == [a EXCEPT !.fd = None, !.dev = None]
  <1>0. z = IF y.fd = None THEN q ELSE tty_delete_lock(b)
    <2>1. y.w = Close(y, y.r).w
      BY PortNumbers, CloseHeld
    <2> QED
      BY <2>1 DEF mplayfamily_deinit
  <1>1. /\ o \in Ports /\ o.lock = y.lock /\ o.live = y.live /\ o.fd = y.fd /\ o.dev = y.dev
        /\ Held(o) = Held(y) \ {y.r} /\ ClientFds(o) = ClientFds(y) \ {y.r}
    BY PortNumbers, CloseHeld
  <1> HIDE DEF o
  <1>2. /\ p \in Ports /\ p.lock = o.lock /\ p.live = o.live /\ p.fd = o.fd /\ p.dev = o.dev
        /\ Held(p) = Held(o) \ {y.w} /\ ClientFds(p) = ClientFds(o) \ {y.w}
    <2>1. y.w \in Int
      BY PortNumbers
    <2> QED
      BY <1>1, <2>1, CloseHeld
  <1> HIDE DEF p
  <1>3. /\ q \in Ports /\ q.open = p.open /\ q.lock = p.lock /\ q.live = p.live /\ q.fd = p.fd /\ q.dev = p.dev
        /\ q.r = None /\ q.w = None
    BY <1>2, NotNone DEF Ports
  <1> HIDE DEF q
  <1>4. Held(q) = Held(y) \ {y.r, y.w} /\ ClientFds(q) = ClientFds(y) \ {y.r, y.w}
    <2>1. Held(q) = Held(p) /\ ClientFds(q) = ClientFds(p)
      BY <1>3, SameOpen
    <2> QED
      BY <1>1, <1>2, <2>1
  <1>5. /\ a \in Ports /\ a.live = q.live /\ a.r = q.r /\ a.w = q.w
        /\ Held(a) = Held(q) \ {y.fd} /\ ClientFds(a) = ClientFds(q) \ {y.fd}
    <2>1. y.fd \in Int
      BY PortNumbers
    <2> QED
      BY <1>3, <2>1, CloseHeld
  <1> HIDE DEF a
  <1>6. /\ b \in Ports /\ b.open = a.open /\ b.live = a.live /\ b.r = a.r /\ b.w = a.w /\ b.fd = None /\ b.dev = None
    BY <1>5, NotNone DEF Ports
  <1> HIDE DEF b
  <1>7. Held(b) = Held(y) \ {y.r, y.w, y.fd} /\ ClientFds(b) = ClientFds(y) \ {y.r, y.w, y.fd}
    <2>1. Held(b) = Held(a) /\ ClientFds(b) = ClientFds(a)
      BY <1>6, SameOpen
    <2> QED
      BY <1>4, <1>5, <2>1
  <1> HIDE DEF z
  <1>8. CASE y.fd = None
    BY <1>0, <1>1, <1>2, <1>3, <1>4, <1>8 DEF z
  <1>9. CASE y.fd # None
    <2>1. z = tty_delete_lock(b)
      BY <1>0, <1>9
    <2>2. /\ z \in Ports /\ z.open = b.open /\ Unlocked(z)
          /\ z.fd = b.fd /\ z.dev = b.dev /\ z.r = b.r /\ z.w = b.w /\ z.live = b.live
      BY <1>6, <2>1, LockDeleted
    <2>3. Held(z) = Held(b) /\ ClientFds(z) = ClientFds(b)
      BY <2>2, SameOpen
    <2> QED
      BY <1>1, <1>2, <1>3, <1>5, <1>6, <1>7, <1>9, <2>2, <2>3 DEF z
  <1> QED
    BY <1>8, <1>9

LEMMA NowheelEnds ==
    ASSUME NEW y \in Ports, Closable("mplay_nowheel", y)
    PROVE  Ended("mplay_nowheel", y, mplayfamily_deinit(y))
  <1> DEFINE z == mplayfamily_deinit(y)
  <1>1. /\ z \in Ports /\ z.r = None /\ z.w = None /\ z.fd = None /\ z.live = y.live
        /\ y.fd = None => /\ z.dev = y.dev /\ z.lock = y.lock
                          /\ Held(z) = Held(y) \ {y.r, y.w} /\ ClientFds(z) = ClientFds(y) \ {y.r, y.w}
        /\ y.fd # None => /\ z.dev = None /\ Unlocked(z)
                          /\ Held(z) = Held(y) \ {y.r, y.w, y.fd}
                          /\ ClientFds(z) = ClientFds(y) \ {y.r, y.w, y.fd}
    BY MplayDeinit
  <1> HIDE DEF z
  <1>2. CASE InUse("mplay_nowheel", y)
    <2>1. OwnDevice(y) /\ Held(y) = {y.fd} /\ y.live = 0 /\ y.r = None /\ y.w = None
      BY <1>2, RestNowheel
    <2>2. y.fd # None
      BY <2>1, Disjoint DEF OwnDevice
    <2>3. AtRest("mplay_nowheel", z)
      BY <1>1, <2>1, <2>2, RestNowheel DEF Nothing
    <2>4. ClientFds(z) = ClientFds(y)
      BY <1>1, <2>1, <2>2, Disjoint
    <2> QED
      BY <1>1, <2>3, <2>4 DEF Ended, z
  <1>3. CASE Vacant("mplay_nowheel", y)
    <2>1. Nothing(y) /\ y.fd = None /\ y.dev = None /\ y.r = None /\ y.w = None
      BY <1>3, RestNowheel DEF Vacant
    <2>2. AtRest("mplay_nowheel", z)
      BY <1>1, <2>1, RestNowheel DEF Nothing, Unlocked
    <2>3. ClientFds(z) = ClientFds(y)
      BY <1>1, <2>1, Disjoint
    <2> QED
      BY <1>1, <2>2, <2>3 DEF Ended, z
  <1> QED
    BY <1>2, <1>3 DEF Closable

LEMMA MplayEnds ==
    ASSUME NEW y \in Ports, Closable("mplay", y)
    PROVE  Ended("mplay", y, mplayfamily_deinit(y))
  <1> DEFINE z == mplayfamily_deinit(y)
  <1>1. /\ z \in Ports /\ z.r = None /\ z.w = None /\ z.fd = None
        /\ y.fd = None => /\ z.dev = y.dev
                          /\ ClientFds(z) = ClientFds(y) \ {y.r, y.w}
        /\ y.fd # None => /\ z.dev = None
                          /\ ClientFds(z) = ClientFds(y) \ {y.r, y.w, y.fd}
    BY MplayDeinit
  <1> HIDE DEF z
  <1>2. /\ y.fd = None => y.dev = None /\ y.r = None /\ y.w = None
        /\ y.fd # None => y.fd \in Held(y) /\ y.r \in Held(y) /\ y.w \in Held(y)
    BY RestMplay, Disjoint DEF Closable, Vacant, OwnDevice
  <1>3. AtRest("mplay", z)
    BY <1>1, <1>2, RestMplay
  <1>4. ClientFds(z) = ClientFds(y)
    BY <1>1, <1>2, Disjoint
  <1> QED
    BY <1>1, <1>3, <1>4 DEF Ended, z

LEMMA UsbEnds ==
    ASSUME NEW e \in Usb, NEW y \in Ports, Closable(e, y)
    PROVE  Ended(e, y, usb_deinit(y))
  <1> DEFINE o == Close(y, y.dev)
             p == Close(o, y.fd)
             p1 == [p EXCEPT !.dev = None, !.fd = None]
             z == [p1 EXCEPT !.live = IF y.tid # None /\ @ > 0 THEN @ - 1 ELSE @]
  <1>0. usb_deinit(y) = z
    BY DEF usb_deinit
  <1>1. /\ o \in Ports
        /\ Held(o) = Held(y) \ {y.dev} /\ ClientFds(o) = ClientFds(y) \ {y.dev}
    BY PortNumbers, CloseHeld
  <1> HIDE DEF o
  <1>2. /\ p \in Ports
        /\ Held(p) = Held(o) \ {y.fd} /\ ClientFds(p) = ClientFds(o) \ {y.fd}
    BY <1>1, PortNumbers, CloseHeld
  <1> HIDE DEF p
  <1>3. z \in Ports /\ z.open = p.open /\ z.dev = None /\ z.fd = None
    <2>1. p1 \in Ports /\ p1.open = p.open /\ p1.dev = None /\ p1.fd = None
      BY <1>2, NotNone DEF Ports
    <2> HIDE DEF p1
    <2>2. (IF y.tid # None /\ p1.live > 0 THEN p1.live - 1 ELSE p1.live) \in Int
      BY <2>1 DEF Ports
    <2> QED
      BY <2>1, <2>2 DEF Ports
  <1> HIDE DEF z
  <1>4. ClientFds(z) = ClientFds(p)
    BY <1>3, SameOpen
  <1>5. /\ y.fd = None \/ y.fd \in Held(y)
        /\ y.dev = None \/ y.dev \in Held(y)
    BY RestUsb DEF Closable, Vacant, OwnDevice
  <1>6. AtRest(e, z)
    BY <1>3, RestUsb
  <1>7. ClientFds(z) = ClientFds(y)
    BY <1>1, <1>2, <1>4, <1>5, Disjoint
  <1> QED
    BY <1>0, <1>3, <1>6, <1>7 DEF Ended

-----------------------------------------------------------------------------
(* init_func() of a driver at rest: the device is open, or nothing is.     *)
Session(e, y, z) == z \in Ports /\ ClientFds(z) = ClientFds(y) /\ (InUse(e, z) \/ Vacant(e, z))

LEMMA TtyOpens ==
    ASSUME NEW y \in Ports, Size(y) >= 1
    PROVE  LET z == tty_opened(y) IN
           /\ z \in Ports
           /\ z.fd \in Fds /\ z.fd # None /\ z.fd \notin Held(y) /\ z.open[z.fd] = "dev"
           /\ Held(z) = Held(y) \cup {z.fd} /\ ClientFds(z) = ClientFds(y)
           /\ z.dev = y.dev /\ z.r = y.r /\ z.w = y.w /\ z.tid = y.tid /\ z.live = y.live /\ z.lock.name = "own"
  <1> DEFINE o == tty_create_lock(y)
             z == OpenFd(o)
  <1>1. /\ o \in Ports /\ o.open = y.open /\ o.lock.name = "own"
        /\ o.fd = y.fd /\ o.dev = y.dev /\ o.r = y.r /\ o.w = y.w /\ o.tid = y.tid /\ o.live = y.live
    BY LockCreated
  <1>0. tty_opened(y) = z
    BY DEF tty_opened
  <1> HIDE DEF o
  <1>2. Held(o) = Held(y) /\ ClientFds(o) = ClientFds(y) /\ Size(o) >= 1
    BY <1>1, SameOpen DEF Size
  <1>3. /\ z \in Ports
        /\ z.fd \in Fds /\ z.fd # None /\ z.fd \notin Held(o) /\ z.open[z.fd] = "dev"
        /\ Held(z) = Held(o) \cup {z.fd} /\ ClientFds(z) = ClientFds(o)
        /\ z.dev = o.dev /\ z.r = o.r /\ z.w = o.w /\ z.tid = o.tid /\ z.live = o.live /\ z.lock = o.lock
    BY <1>1, <1>2, OpenFdOpens
  <1> HIDE DEF z
  <1> QED
    BY <1>0, <1>1, <1>2, <1>3

(* open() failed: only the lock was made, and is deleted. *)
LEMMA TtyNotOpened ==
    ASSUME NEW y \in Ports, Size(y) >= 1
    PROVE  LET z == tty_delete_lock([tty_opened(y) EXCEPT !.open = y.open, !.fd = None]) IN
           /\ z \in Ports /\ Unlocked(z) /\ z.lock.name # "other" /\ z.fd = None
           /\ Held(z) = Held(y) /\ ClientFds(z) = ClientFds(y)
           /\ z.dev = y.dev /\ z.r = y.r /\ z.w = y.w /\ z.tid = y.tid /\ z.live = y.live
  <1> DEFINE o == tty_opened(y)
             p == [o EXCEPT !.open = y.open, !.fd = None]
             z == tty_delete_lock(p)
  <1>1. /\ o \in Ports
        /\ o.dev = y.dev /\ o.r = y.r /\ o.w = y.w /\ o.tid = y.tid /\ o.live = y.live /\ o.lock.name = "own"
    BY TtyOpens
  <1> HIDE DEF o
  <1>2. y.open \in [Fds -> Uses]
    BY DEF Ports
  <1>3. /\ p \in Ports /\ p.open = y.open /\ p.fd = None
        /\ p.dev = o.dev /\ p.r = o.r /\ p.w = o.w /\ p.tid = o.tid /\ p.live = o.live /\ p.lock = o.lock
    BY <1>1, <1>2, NotNone DEF Ports
  <1> HIDE DEF p
  <1>4. /\ z \in Ports /\ z.open = p.open /\ Unlocked(z)
        /\ z.lock.name = "other" => p.lock.name = "other"
        /\ z.fd = p.fd /\ z.dev = p.dev /\ z.r = p.r /\ z.w = p.w /\ z.tid = p.tid /\ z.live = p.live
    BY <1>3, LockDeleted
  <1> HIDE DEF z
  <1>5. Held(z) = Held(y) /\ ClientFds(z) = ClientFds(y)
    BY <1>3, <1>4, SameOpen
  <1> QED
    BY <1>1, <1>3, <1>4, <1>5 DEF z, p, o

LEMMA RefusedStays ==
    ASSUME NEW y \in Ports, NEW fail, Refused(y, fail), Unlocked(y), fail # "lock"
    PROVE  y.lock.name = "other"
  <1>1. y.lock.name \in Marks
    BY DEF Ports
  <1> QED
    BY <1>1 DEF Refused, Lockable, Unlocked, Marks

LEMMA SerialBegins ==
    ASSUME NEW e \in Serial, NEW y \in Ports, Size(y) >= 1, AtRest(e, y),
           NEW fail, fail \notin Unclean(e), NEW undone, NEW settings \in SUBSET Unclean(e)
    PROVE  Session(e, y, serial_init(y, fail, undone, settings).x)
  <1> DEFINE s == serial_init(y, fail, undone, settings).x
  <1>1. Nothing(y) /\ (y.fd = None \/ y.lock.name # "other") /\ (e = "pinsys" => y.lock.name # "other")
    BY RestSerial
  <1>2. fail # "lock" /\ fail \notin settings
    <2>1. Unclean(e) = {"lock", "reset", "baud", "csize", "rtscts", "rts", "flush"}
      BY DEF Unclean, Serial
    <2> QED
      BY <2>1
  <1>3. CASE Refused(y, fail)
    <2>1. s = y
      BY <1>3 DEF serial_init, Failed
    <2>2. y.fd = None
      BY <1>1, <1>2, <1>3, RefusedStays DEF Nothing
    <2> QED
      BY <2>1, <2>2 DEF Session, Vacant
  <1>4. CASE ~Refused(y, fail) /\ fail = "open"
    <2> DEFINE z == tty_delete_lock([tty_opened(y) EXCEPT !.open = y.open, !.fd = None])
    <2>1. s = z
      BY <1>4 DEF serial_init, Failed
    <2>2. /\ z \in Ports /\ Unlocked(z) /\ z.lock.name # "other" /\ z.fd = None
          /\ Held(z) = Held(y) /\ ClientFds(z) = ClientFds(y)
          /\ z.live = y.live
      BY TtyNotOpened
    <2> HIDE DEF z, s
    <2>3. AtRest(e, z)
      BY <1>1, <2>2, RestSerial DEF Nothing
    <2> QED
      BY <2>1, <2>2, <2>3 DEF Session, Vacant, s
  <1>5. CASE ~Refused(y, fail) /\ fail # "open"
    <2> DEFINE z == tty_opened(y)
    <2>1. s = z
      BY <1>2, <1>5 DEF serial_init, Done
    <2>2. /\ z \in Ports
          /\ z.fd \in Fds /\ z.open[z.fd] = "dev"
          /\ Held(z) = Held(y) \cup {z.fd} /\ ClientFds(z) = ClientFds(y)
          /\ z.live = y.live /\ z.lock.name = "own"
      BY TtyOpens
    <2> HIDE DEF z, s
    <2>3. InUse(e, z)
      BY <1>1, <2>2, RestSerial DEF Nothing, OwnDevice
    <2> QED
      BY <2>1, <2>2, <2>3 DEF Session, s
  <1> QED
    BY <1>3, <1>4, <1>5

(* Here the lock may be refused at any time, and a failure of a setting is *)
(* undone by deinit_func().                                                *)
LEMMA UsbxBegins ==
    ASSUME NEW y \in Ports, Size(y) >= 1, AtRest("usbx", y), NEW fail
    PROVE  Session("usbx", y, usbx_init(y, fail).x)
  <1> DEFINE s == usbx_init(y, fail).x
             o == tty_opened(y)
             settings == {"reset", "baud", "rtscts"}
  <1>0. "usbx" \in LockingForgetful /\ "usbx" # "tira"
    BY DEF LockingForgetful
  <1>1. Nothing(y) /\ y.fd = None
    BY <1>0, RestLocking
  <1>2. /\ o \in Ports
        /\ o.fd \in Fds /\ o.open[o.fd] = "dev"
        /\ Held(o) = Held(y) \cup {o.fd} /\ ClientFds(o) = ClientFds(y)
        /\ o.live = y.live
    BY TtyOpens
  <1>3. s = IF Refused(y, fail) THEN y
            ELSE IF fail = "open" THEN tty_delete_lock([o EXCEPT !.open = y.open, !.fd = None])
            ELSE IF fail \in settings THEN usbx_deinit(o) ELSE o
    BY DEF usbx_init, serial_init, Failed, Done
  <1>4. CASE Refused(y, fail)
    BY <1>1, <1>3, <1>4 DEF Session, Vacant
  <1>5. CASE ~Refused(y, fail) /\ fail = "open"
    <2> DEFINE z == tty_delete_lock([o EXCEPT !.open = y.open, !.fd = None])
    <2>2. /\ z \in Ports /\ Unlocked(z) /\ z.fd = None
          /\ Held(z) = Held(y) /\ ClientFds(z) = ClientFds(y)
          /\ z.live = y.live
      BY TtyNotOpened
    <2>1. s = z
      BY <1>3, <1>5
    <2> HIDE DEF z, s, o
    <2>3. AtRest("usbx", z)
      BY <1>0, <1>1, <2>2, RestLocking DEF Nothing
    <2> QED
      BY <2>1, <2>2, <2>3 DEF Session, Vacant, s
  <1> HIDE DEF o
  <1>6. InUse("usbx", o)
    BY <1>0, <1>1, <1>2, RestLocking DEF Nothing, OwnDevice
  <1>7. CASE ~Refused(y, fail) /\ fail # "open" /\ fail \in settings
    <2>1. Ended("usbx", o, usbx_deinit(o)) /\ usbx_deinit(o).fd = None
      BY <1>0, <1>2, <1>6, ForgetfulEnds, TtyForgets DEF Closable
    <2> QED
      BY <1>2, <1>3, <1>7, <2>1 DEF Session, Vacant, Ended
  <1>8. CASE ~Refused(y, fail) /\ fail # "open" /\ fail \notin settings
    BY <1>2, <1>3, <1>6, <1>8 DEF Session
  <1> QED
    BY <1>4, <1>5, <1>7, <1>8

LEMMA PinsysBegins ==
    ASSUME NEW y \in Ports, Size(y) >= 1, AtRest("pinsys", y), NEW fail, fail \notin Unclean("pinsys")
    PROVE  Session("pinsys", y, pinsys_init(y, fail).x)
  <1>0. "pinsys" \in Serial
    BY DEF Serial
  <1>1. CASE fail = "detected"
    <2> DEFINE z == OpenFd(y)
    <2>1. Nothing(y) /\ y.lock.name # "other"
      BY <1>0, RestSerial
    <2>2. /\ z \in Ports
          /\ z.fd \in Fds /\ z.open[z.fd] = "dev"
          /\ Held(z) = Held(y) \cup {z.fd} /\ ClientFds(z) = ClientFds(y)
          /\ z.live = y.live /\ z.lock = y.lock
      BY OpenFdOpens
    <2>3. pinsys_init(y, fail).x = z
      BY <1>1 DEF pinsys_init, Done
    <2> HIDE DEF z
    <2>4. InUse("pinsys", z)
      BY <1>0, <2>1, <2>2, RestSerial DEF Nothing, OwnDevice
    <2> QED
      BY <2>2, <2>3, <2>4 DEF Session
  <1>2. CASE fail # "detected"
    <2>1. {"reset", "baud", "rts", "flush"} \in SUBSET Unclean("pinsys")
      BY <1>0 DEF Unclean
    <2> QED
      BY <1>0, <1>2, <2>1, SerialBegins DEF pinsys_init
  <1> QED
    BY <1>1, <1>2

LEMMA AccentBegins ==
    ASSUME NEW y \in Ports, Size(y) >= 1, AtRest("accent", y), NEW fail, fail \notin Unclean("accent")
    PROVE  Session("accent", y, accent_init(y, fail).x)
  <1> DEFINE s == accent_init(y, fail).x
             locked == [tty_create_lock(y) EXCEPT !.fd = None]
             o == OpenFd(locked)
  <1>0. "accent" \in Serial /\ "accent" # "pinsys"
    BY DEF Serial
  <1>1. Nothing(y) /\ (y.fd = None \/ y.lock.name # "other")
    BY <1>0, RestSerial
  <1>2. fail \notin {"lock", "reset", "baud", "flush"}
    <2>1. Unclean("accent") = {"lock", "reset", "baud", "csize", "rtscts", "rts", "flush"}
      BY <1>0 DEF Unclean
    <2> QED
      BY <2>1
  <1>3. s = IF Refused(y, fail) THEN y ELSE IF fail = "open" THEN tty_deinit(locked) ELSE o
    BY <1>2 DEF accent_init, Failed, Done, accent_deinit
  <1>4. /\ locked \in Ports /\ locked.open = y.open /\ locked.fd = None /\ locked.live = y.live
        /\ locked.lock.name = "own"
    <2> DEFINE q == tty_create_lock(y)
    <2>1. q \in Ports /\ q.open = y.open /\ q.lock.name = "own" /\ q.live = y.live
      BY LockCreated
    <2> HIDE DEF q
    <2>2. LET z == [q EXCEPT !.fd = None] IN
          z \in Ports /\ z.open = q.open /\ z.fd = None /\ z.live = q.live /\ z.lock = q.lock
      BY <2>1, NotNone DEF Ports
    <2> QED
      BY <2>1, <2>2 DEF q
  <1> HIDE DEF locked
  <1>5. Held(locked) = Held(y) /\ ClientFds(locked) = ClientFds(y) /\ Size(locked) >= 1
    BY <1>4, SameOpen DEF Size
  <1>6. CASE Refused(y, fail)
    <2>1. y.fd = None
      BY <1>1, <1>2, <1>6, RefusedStays DEF Nothing
    <2> QED
      BY <1>3, <1>6, <2>1 DEF Session, Vacant
  <1>7. CASE ~Refused(y, fail) /\ fail = "open"
    <2> DEFINE z == tty_deinit(locked)
    <2>1. s = z
      BY <1>3, <1>7
    <2>2. /\ z \in Ports /\ Unlocked(z)
          /\ Held(z) = Held(locked) \ {locked.fd} /\ ClientFds(z) = ClientFds(locked) \ {locked.fd}
          /\ z.lock.name = "other" => locked.lock.name = "other"
          /\ z.fd = locked.fd /\ z.live = locked.live
      BY <1>4, TtyDeinit
    <2> HIDE DEF z, s
    <2>3. AtRest("accent", z)
      BY <1>0, <1>1, <1>4, <1>5, <2>2, RestSerial DEF Nothing
    <2>4. ClientFds(z) = ClientFds(y)
      BY <1>4, <1>5, <2>2, Disjoint
    <2> QED
      BY <1>4, <2>1, <2>2, <2>3, <2>4 DEF Session, Vacant, s
  <1>8. CASE ~Refused(y, fail) /\ fail # "open"
    <2>1. s = o
      BY <1>3, <1>8
    <2>2. /\ o \in Ports
          /\ o.fd \in Fds /\ o.open[o.fd] = "dev"
          /\ Held(o) = Held(locked) \cup {o.fd} /\ ClientFds(o) = ClientFds(locked)
          /\ o.live = locked.live /\ o.lock = locked.lock
      BY <1>4, <1>5, OpenFdOpens
    <2> HIDE DEF o, s
    <2>3. InUse("accent", o)
      BY <1>0, <1>1, <1>4, <1>5, <2>2, RestSerial DEF Nothing, OwnDevice
    <2> QED
      BY <1>5, <2>1, <2>2, <2>3 DEF Session, s
  <1> QED
    BY <1>6, <1>7, <1>8

LEMMA IrlinkBegins ==
    ASSUME NEW y \in Ports, Size(y) >= 1, AtRest("irlink", y), NEW fail
    PROVE  Session("irlink", y, irlink_init(y, fail).x)
  <1> DEFINE s == irlink_init(y, fail).x
             locked == [tty_create_lock(y) EXCEPT !.fd = None]
             o == OpenFd(locked)
  <1>0. "irlink" \in LockingForgetful /\ "irlink" # "tira"
    BY DEF LockingForgetful
  <1>1. Nothing(y) /\ y.fd = None
    BY <1>0, RestLocking
  <1>2. [y EXCEPT !.fd = None] = y
    BY <1>1 DEF Ports
  <1>3. s = IF Refused(y, fail) THEN y ELSE IF fail = "open" THEN tty_delete_lock(locked)
            ELSE IF fail = "detect" THEN irlink_deinit(o) ELSE o
    BY <1>2 DEF irlink_init, Failed, Done
  <1>4. /\ locked \in Ports /\ locked.open = y.open /\ locked.fd = None /\ locked.live = y.live
        /\ locked.lock.name = "own"
    <2> DEFINE q == tty_create_lock(y)
    <2>1. q \in Ports /\ q.open = y.open /\ q.lock.name = "own" /\ q.live = y.live
      BY LockCreated
    <2> HIDE DEF q
    <2>2. LET z == [q EXCEPT !.fd = None] IN
          z \in Ports /\ z.open = q.open /\ z.fd = None /\ z.live = q.live /\ z.lock = q.lock
      BY <2>1, NotNone DEF Ports
    <2> QED
      BY <2>1, <2>2 DEF q
  <1> HIDE DEF locked
  <1>5. Held(locked) = Held(y) /\ ClientFds(locked) = ClientFds(y) /\ Size(locked) >= 1
    BY <1>4, SameOpen DEF Size
  <1>6. CASE Refused(y, fail)
    BY <1>1, <1>3, <1>6 DEF Session, Vacant
  <1>7. CASE ~Refused(y, fail) /\ fail = "open"
    <2> DEFINE z == tty_delete_lock(locked)
    <2>1. s = z
      BY <1>3, <1>7
    <2>2. z \in Ports /\ z.open = locked.open /\ Unlocked(z) /\ z.fd = locked.fd /\ z.live = locked.live
      BY <1>4, LockDeleted
    <2> HIDE DEF z, s
    <2>3. Held(z) = Held(y) /\ ClientFds(z) = ClientFds(y)
      BY <1>4, <2>2, SameOpen
    <2>4. AtRest("irlink", z)
      BY <1>0, <1>1, <1>4, <2>2, <2>3, RestLocking DEF Nothing
    <2> QED
      BY <1>4, <2>1, <2>2, <2>3, <2>4 DEF Session, Vacant, s
  <1>8. /\ o \in Ports
        /\ o.fd \in Fds /\ o.open[o.fd] = "dev" /\ o.fd # None
        /\ Held(o) = Held(locked) \cup {o.fd} /\ ClientFds(o) = ClientFds(locked)
        /\ o.live = locked.live
    BY <1>4, <1>5, OpenFdOpens
  <1> HIDE DEF o
  <1>9. InUse("irlink", o)
    BY <1>0, <1>1, <1>4, <1>5, <1>8, RestLocking DEF Nothing, OwnDevice
  <1>10. CASE ~Refused(y, fail) /\ fail = "detect"
    <2>1. Ended("irlink", o, irlink_deinit(o)) /\ irlink_deinit(o).fd = None
      BY <1>8, <1>9, IrlinkEnds, TtyForgets DEF Closable, irlink_deinit
    <2> QED
      BY <1>3, <1>5, <1>8, <1>10, <2>1 DEF Session, Vacant, Ended
  <1>11. CASE ~Refused(y, fail) /\ fail \notin {"open", "detect"}
    BY <1>3, <1>5, <1>8, <1>9, <1>11 DEF Session
  <1> QED
    BY <1>6, <1>7, <1>10, <1>11

LEMMA TiraBegins ==
    ASSUME NEW y \in Ports, Size(y) >= 1, AtRest("tira", y), NEW fail
    PROVE  Session("tira", y, tira_init(y, fail).x)
  <1> DEFINE s == tira_init(y, fail).x
             locked == tty_create_lock(y)
             closed == [locked EXCEPT !.fd = None]
             o == OpenFd(locked)
  <1>0. "tira" \in LockingForgetful
    BY DEF LockingForgetful
  <1>1. Nothing(y) /\ y.fd = None /\ y.tid = None
    BY <1>0, RestLocking
  <1>3. s = IF Refused(y, fail) THEN y ELSE IF fail = "open" THEN tty_delete_lock(closed)
            ELSE IF fail = "detect" THEN tira_deinit(o) ELSE o
    BY <1>1 DEF tira_init, Failed, Done
  <1>4. /\ locked \in Ports /\ locked.open = y.open /\ locked.fd = None /\ locked.live = y.live
        /\ locked.tid = None
    BY <1>1, LockCreated
  <1>5. Held(locked) = Held(y) /\ ClientFds(locked) = ClientFds(y) /\ Size(locked) >= 1
    BY <1>4, SameOpen DEF Size
  <1> HIDE DEF locked
  <1>6. CASE Refused(y, fail)
    BY <1>1, <1>3, <1>6 DEF Session, Vacant
  <1>7. CASE ~Refused(y, fail) /\ fail = "open"
    <2> DEFINE z == tty_delete_lock(closed)
    <2>1. s = z
      BY <1>3, <1>7
    <2>2. closed = locked
      BY <1>4 DEF Ports
    <2>3. z \in Ports /\ z.open = locked.open /\ Unlocked(z) /\ z.fd = locked.fd /\ z.live = locked.live
          /\ z.tid = locked.tid
      BY <1>4, <2>2, LockDeleted
    <2> HIDE DEF z, s
    <2>4. Held(z) = Held(y) /\ ClientFds(z) = ClientFds(y)
      BY <1>4, <2>3, SameOpen
    <2>5. AtRest("tira", z)
      BY <1>0, <1>1, <1>4, <2>3, <2>4, RestLocking DEF Nothing
    <2> QED
      BY <1>4, <2>1, <2>3, <2>4, <2>5 DEF Session, Vacant, s
  <1>8. /\ o \in Ports
        /\ o.fd \in Fds /\ o.open[o.fd] = "dev" /\ o.fd # None
        /\ Held(o) = Held(locked) \cup {o.fd} /\ ClientFds(o) = ClientFds(locked)
        /\ o.live = locked.live /\ o.tid = locked.tid
    BY <1>4, <1>5, OpenFdOpens
  <1> HIDE DEF o
  <1>9. InUse("tira", o)
    BY <1>0, <1>1, <1>4, <1>5, <1>8, RestLocking DEF Nothing, OwnDevice
  <1>10. CASE ~Refused(y, fail) /\ fail = "detect"
    <2>1. Ended("tira", o, tira_deinit(o))
      BY <1>8, <1>9, TiraEnds DEF Closable
    <2>2. tira_deinit(o).fd = None
      BY <1>0, <2>1, RestLocking DEF Ended
    <2> QED
      BY <1>3, <1>5, <1>8, <1>10, <2>1, <2>2 DEF Session, Vacant, Ended
  <1>11. CASE ~Refused(y, fail) /\ fail \notin {"open", "detect"}
    BY <1>3, <1>5, <1>8, <1>9, <1>11 DEF Session
  <1> QED
    BY <1>6, <1>7, <1>10, <1>11

LEMMA BlockingBegins ==
    ASSUME NEW e \in Blocking, NEW y \in Ports, Size(y) >= 1, AtRest(e, y), NEW fail
    PROVE  Session(e, y, livedrive_init(y, fail).x)
  <1>1. Nothing(y)
    BY RestBlocking
  <1>2. CASE fail = "open"
    <2> DEFINE z == [y EXCEPT !.fd = None]
    <2>1. livedrive_init(y, fail).x = z
      BY <1>2 DEF livedrive_init, Failed
    <2>2. z \in Ports /\ z.open = y.open /\ z.fd = None /\ z.live = y.live /\ z.lock = y.lock
      BY NotNone DEF Ports
    <2> HIDE DEF z
    <2>3. Held(z) = Held(y) /\ ClientFds(z) = ClientFds(y)
      BY <2>2, SameOpen
    <2>4. AtRest(e, z)
      BY <1>1, <2>2, <2>3, RestBlocking DEF Nothing, Unlocked
    <2> QED
      BY <2>1, <2>2, <2>3, <2>4 DEF Session, Vacant
  <1>3. CASE fail # "open"
    <2> DEFINE z == OpenFd(y)
    <2>1. livedrive_init(y, fail).x = z
      BY <1>3 DEF livedrive_init, Done
    <2>2. /\ z \in Ports
          /\ z.fd \in Fds /\ z.open[z.fd] = "dev"
          /\ Held(z) = Held(y) \cup {z.fd} /\ ClientFds(z) = ClientFds(y)
          /\ z.live = y.live /\ z.lock = y.lock
      BY OpenFdOpens
    <2> HIDE DEF z
    <2>3. InUse(e, z)
      BY <1>1, <2>2, RestBlocking DEF Nothing, OwnDevice, Unlocked
    <2> QED
      BY <2>1, <2>2, <2>3 DEF Session
  <1> QED
    BY <1>2, <1>3

(* A driver with one descriptor and no lock: nothing, or an open device.   *)
LEMMA PlainOpens ==
    ASSUME NEW e \in Plain, NEW y \in Ports, Size(y) >= 1, AtRest(e, y)
    PROVE  /\ [y EXCEPT !.fd = None] = y
           /\ Session(e, y, y)
           /\ Session(e, y, OpenFd(y)) /\ OpenFd(y) \in Ports /\ InUse(e, OpenFd(y))
           /\ ClientFds(OpenFd(y)) = ClientFds(y)
  <1>1. Nothing(y) /\ y.fd = None
    BY RestPlain
  <1>2. [y EXCEPT !.fd = None] = y
    BY <1>1 DEF Ports
  <1> DEFINE z == OpenFd(y)
  <1>3. /\ z \in Ports
        /\ z.fd \in Fds /\ z.open[z.fd] = "dev"
        /\ Held(z) = Held(y) \cup {z.fd} /\ ClientFds(z) = ClientFds(y)
        /\ z.live = y.live /\ z.lock = y.lock
    BY OpenFdOpens
  <1> HIDE DEF z
  <1>4. InUse(e, z)
    BY <1>1, <1>3, RestPlain DEF Nothing, OwnDevice, Unlocked
  <1>5. Session(e, y, y)
    BY <1>1 DEF Session, Vacant
  <1>6. Session(e, y, z)
    BY <1>3, <1>4 DEF Session
  <1> QED
    BY <1>2, <1>3, <1>4, <1>5, <1>6 DEF z

LEMMA HiddevBegins ==
    ASSUME NEW e \in Plain, NEW y \in Ports, Size(y) >= 1, AtRest(e, y), NEW fail
    PROVE  /\ Session(e, y, hiddev_init(y, fail).x)
           /\ Session(e, y, sb0540_init(y, fail).x)
           /\ Session(e, y, alsa_usb_init(y, fail).x)
  <1> DEFINE q == [y EXCEPT !.fd = None]
             z == OpenFd(y)
  <1>1. q = y /\ Session(e, y, y) /\ Session(e, y, z)
    BY PlainOpens
  <1>2. hiddev_init(y, fail).x = (IF fail = "open" THEN q ELSE z)
    BY DEF hiddev_init, livedrive_init, Failed, Done
  <1>3. sb0540_init(y, fail).x = (IF fail = "flags" THEN z ELSE IF fail = "open" THEN q ELSE z)
    BY <1>2 DEF sb0540_init, Failed
  <1>4. alsa_usb_init(y, fail).x = (IF fail \in {"open", "info", "poll"} THEN y ELSE z)
    BY DEF alsa_usb_init, Failed, Done
  <1> HIDE DEF q, z
  <1> QED
    BY <1>1, <1>2, <1>3, <1>4

(* default_init() opens the device after it was found.                     *)
LEMMA DefaultBegins ==
    ASSUME NEW e \in Default, NEW y \in Ports, Size(y) >= 1, AtRest(e, y), NEW fail, NEW kind
    PROVE  Session(e, y, default_init(y, fail, kind).x)
  <1> DEFINE q == set_rc_protocol(y)
             o == OpenFd(q)
             s == default_init(y, fail, kind).x
  <1>0. e \in Plain
    BY DEF Plain
  <1>1. q \in Ports /\ q.open = y.open /\ q.fd = y.fd /\ q.live = y.live /\ q.lock = y.lock
    <2>1. visit_rc(y.rc) \in {"none", "off", "on", "gone"}
      BY DEF visit_rc, Ports
    <2> QED
      BY <2>1 DEF set_rc_protocol, Ports
  <1>2. \/ s = q \/ s = [q EXCEPT !.fd = None] \/ s = default_deinit(o) \/ s = o
    BY DEF default_init, Failed, Done
  <1> HIDE DEF q, s
  <1>3. Held(q) = Held(y) /\ ClientFds(q) = ClientFds(y) /\ Size(q) >= 1
    BY <1>1, SameOpen DEF Size
  <1>4. AtRest(e, q)
    BY <1>0, <1>1, <1>3, RestPlain DEF Nothing, Unlocked
  <1>5. /\ [q EXCEPT !.fd = None] = q
        /\ Session(e, q, q)
        /\ Session(e, q, o) /\ o \in Ports /\ InUse(e, o)
        /\ ClientFds(o) = ClientFds(q)
    BY <1>0, <1>1, <1>3, <1>4, PlainOpens
  <1> HIDE DEF o
  <1>6. Session(e, q, default_deinit(o))
    <2> DEFINE z == [Close(o, o.fd) EXCEPT !.fd = None]
    <2>1. Ended(e, o, z)
      BY <1>0, <1>5, PlainEnds DEF Closable
    <2>2. default_deinit(o) = z
      BY DEF default_deinit
    <2>3. z.fd = None
      BY <1>5, FdClosed
    <2> HIDE DEF z
    <2> QED
      BY <1>5, <2>1, <2>2, <2>3 DEF Session, Vacant, Ended
  <1>7. Session(e, q, s)
    BY <1>2, <1>5, <1>6
  <1> QED
    BY <1>3, <1>7 DEF Session, s

LEMMA DevinputBegins ==
    ASSUME NEW y \in Ports, Size(y) >= 2, AtRest("devinput", y), NEW fail
    PROVE  Session("devinput", y, devinput_init_fwd(y, fail).x)
  <1> DEFINE o == OpenFd(y)
             q == [o EXCEPT !.dev = None]
             u == Open(o, "uinput")
             z == [u EXCEPT !.dev = Lowest(o)]
             s == devinput_init_fwd(y, fail).x
  <1>1. Nothing(y) /\ y.fd = None /\ y.dev = None
    BY RestDevinput
  <1>2. s = (IF fail = "locate" THEN y ELSE IF fail = "open" THEN [y EXCEPT !.fd = None]
             ELSE IF fail = "uinput" THEN q ELSE z)
    BY DEF devinput_init_fwd, Failed, Done
  <1>3. [y EXCEPT !.fd = None] = y
    BY <1>1 DEF Ports
  <1>4. Session("devinput", y, y)
    BY <1>1 DEF Session, Vacant
  <1>0. Size(y) \in Nat /\ Size(y) >= 1
    BY SizeIsNat
  <1>5. /\ o \in Ports
        /\ o.fd \in Fds /\ o.fd \notin Held(y) /\ o.open[o.fd] = "dev"
        /\ Held(o) = Held(y) \cup {o.fd} /\ ClientFds(o) = ClientFds(y)
        /\ o.dev = y.dev /\ o.live = y.live /\ o.lock = y.lock
        /\ Size(o) = Size(y) - 1
    BY <1>0, OpenFdOpens
  <1> HIDE DEF o
  <1>6. Session("devinput", y, q)
    <2>1. q = o
      BY <1>1, <1>5 DEF Ports
    <2>2. InUse("devinput", o)
      BY <1>1, <1>5, RestDevinput DEF Nothing, OwnDevice, Unlocked
    <2> QED
      BY <1>5, <2>1, <2>2 DEF Session
  <1>7. Session("devinput", y, z)
    <2>0. Size(o) >= 1 /\ "uinput" \in Uses /\ "uinput" \notin {"", "client"}
      BY <1>0, <1>5 DEF Uses
    <2>1. /\ u \in Ports
          /\ Lowest(o) \in Fds /\ Lowest(o) \notin Held(o)
          /\ Held(u) = Held(o) \cup {Lowest(o)}
          /\ ClientFds(u) = ClientFds(o)
          /\ \A f \in Fds : f # Lowest(o) => u.open[f] = o.open[f]
      BY <1>5, <2>0, RoomToOpen, OpenHeld
    <2>2. u.fd = o.fd /\ u.live = o.live /\ u.lock = o.lock
      BY <1>5, OpenKeeps
    <2> HIDE DEF u
    <2>3. Lowest(o) \in Int /\ Lowest(o) # None
      BY <2>1, NotNone
    <2>4. z \in Ports /\ z.open = u.open /\ z.dev = Lowest(o) /\ z.fd = u.fd /\ z.live = u.live /\ z.lock = u.lock
      BY <2>1, <2>3 DEF Ports
    <2> HIDE DEF z
    <2>5. Held(z) = Held(u) /\ ClientFds(z) = ClientFds(u)
      BY <2>4, SameOpen
    <2>6. OwnDevice(z)
      <3>1. z.fd = o.fd /\ o.fd # Lowest(o)
        BY <1>5, <2>1, <2>2, <2>4
      <3> QED
        BY <1>5, <2>1, <2>4, <2>5, <3>1 DEF OwnDevice
    <2>7. InUse("devinput", z)
      BY <1>1, <1>5, <2>1, <2>2, <2>3, <2>4, <2>5, <2>6, RestDevinput DEF Nothing, Unlocked
    <2> QED
      BY <1>5, <2>1, <2>4, <2>5, <2>7 DEF Session
  <1> QED
    BY <1>2, <1>3, <1>4, <1>6, <1>7

LEMMA InfracdBegins ==
    ASSUME NEW y \in Ports, Size(y) >= 2, AtRest("creative_infracd", y),
           NEW fail, fail \notin Unclean("creative_infracd")
    PROVE  Session("creative_infracd", y, creative_infracd_init(y, fail).x)
  <1> DEFINE o == OpenDev(y)
             cl == Close(o, o.dev)
             q == [cl EXCEPT !.fd = None, !.dev = y.dev]
             u == Open(o, "null")
             z == [u EXCEPT !.fd = Lowest(o)]
             s == creative_infracd_init(y, fail).x
  <1>1. Nothing(y)
    BY RestInfracd
  <1>2. s = (IF fail = "null" THEN q ELSE z)
    <2>1. fail \notin {"open", "detect"}
      BY DEF Unclean, Serial
    <2> QED
      BY <2>1 DEF creative_infracd_init, Failed, Done
  <1>0. Size(y) \in Nat /\ Size(y) >= 1
    BY SizeIsNat
  <1>5. /\ o \in Ports
        /\ o.dev \in Fds /\ o.dev # None /\ o.dev \notin Held(y) /\ o.open[o.dev] = "dev"
        /\ Held(o) = Held(y) \cup {o.dev} /\ ClientFds(o) = ClientFds(y)
        /\ o.live = y.live /\ o.lock = y.lock
        /\ Size(o) = Size(y) - 1
    BY <1>0, OpenDevOpens
  <1> HIDE DEF o
  <1>6. Session("creative_infracd", y, q)
    <2>1. /\ cl \in Ports /\ cl.live = o.live /\ cl.lock = o.lock
          /\ Held(cl) = Held(o) \ {o.dev} /\ ClientFds(cl) = ClientFds(o) \ {o.dev}
      BY <1>5, NotNone, CloseHeld
    <2> HIDE DEF cl
    <2>2. q \in Ports /\ q.open = cl.open /\ q.fd = None /\ q.live = cl.live /\ q.lock = cl.lock
      BY <2>1, NotNone DEF Ports
    <2> HIDE DEF q
    <2>3. Held(q) = Held(cl) /\ ClientFds(q) = ClientFds(cl)
      BY <2>2, SameOpen
    <2>4. AtRest("creative_infracd", q)
      BY <1>1, <1>5, <2>1, <2>2, <2>3, RestInfracd DEF Nothing, Unlocked
    <2>5. ClientFds(q) = ClientFds(y)
      BY <1>5, <2>1, <2>3, Disjoint
    <2> QED
      BY <2>2, <2>4, <2>5 DEF Session, Vacant
  <1>7. Session("creative_infracd", y, z)
    <2>0. Size(o) >= 1 /\ "null" \in Uses /\ "null" \notin {"", "client"}
      BY <1>0, <1>5 DEF Uses
    <2>1. /\ u \in Ports
          /\ Lowest(o) \in Fds /\ Lowest(o) \notin Held(o)
          /\ Held(u) = Held(o) \cup {Lowest(o)}
          /\ ClientFds(u) = ClientFds(o)
          /\ u.open[Lowest(o)] = "null"
      BY <1>5, <2>0, RoomToOpen, OpenHeld
    <2>2. u.dev = o.dev /\ u.live = o.live /\ u.lock = o.lock
      BY <1>5, OpenKeeps
    <2> HIDE DEF u
    <2>3. Lowest(o) \in Int
      BY <2>1, NotNone
    <2>4. z \in Ports /\ z.open = u.open /\ z.fd = Lowest(o) /\ z.dev = u.dev /\ z.live = u.live /\ z.lock = u.lock
      BY <2>1, <2>3 DEF Ports
    <2> HIDE DEF z
    <2>5. Held(z) = Held(u) /\ ClientFds(z) = ClientFds(u)
      BY <2>4, SameOpen
    <2>6. OwnDevice(z)
      BY <2>1, <2>4, <2>5 DEF OwnDevice
    <2>7. InUse("creative_infracd", z)
      BY <1>1, <1>5, <2>1, <2>2, <2>4, <2>5, <2>6, RestInfracd DEF Nothing, Unlocked
    <2> QED
      BY <1>5, <2>1, <2>4, <2>5, <2>7 DEF Session
  <1> QED
    BY <1>2, <1>6, <1>7

(* A device that a thread or a child reads: fd is the end of its pipe.     *)
LEMMA RepeatingBegins ==
    ASSUME NEW e \in Repeating, NEW y \in Ports, Size(y) >= 3, AtRest(e, y),
           NEW fail, fail \notin Unclean(e)
    PROVE  /\ Session(e, y, atwf83_init(y, fail).x)
           /\ e = "zotac" => Session(e, y, zotac_init(y, fail).x)
  <1> DEFINE o == OpenDev(y)
             hid == [o EXCEPT !.fd = o.dev]
             p == Pipe(hid)
             both == [p EXCEPT !.fd = p.r]
             z == [both EXCEPT !.live = 1]
             s == atwf83_init(y, fail).x
  <1>1. Nothing(y) /\ y.fd = None /\ y.dev = None /\ y.r = None /\ y.w = None
    BY RestRepeating
  <1>2. fail # "pipe" /\ (e = "zotac" => fail # "flags")
    BY DEF Unclean, Serial, Repeating
  <1>3. s = (IF fail = "open" THEN [y EXCEPT !.dev = None] ELSE IF fail = "thread" THEN both ELSE z)
    BY <1>2 DEF atwf83_init, Failed, Done
  <1>4. [y EXCEPT !.dev = None] = y
    BY <1>1 DEF Ports
  <1>0. Size(y) \in Nat /\ Size(y) >= 1
    BY SizeIsNat
  <1>5. /\ o \in Ports
        /\ o.dev \in Fds /\ o.dev # None /\ o.dev \notin Held(y)
        /\ Held(o) = Held(y) \cup {o.dev} /\ ClientFds(o) = ClientFds(y)
        /\ o.live = y.live /\ o.lock = y.lock
        /\ Size(o) = Size(y) - 1
    BY <1>0, OpenDevOpens
  <1> HIDE DEF o
  <1>6. /\ hid \in Ports /\ hid.open = o.open /\ hid.dev = o.dev /\ hid.live = o.live /\ hid.lock = o.lock
    BY <1>5, NotNone DEF Ports
  <1> HIDE DEF hid
  <1>7. Held(hid) = Held(o) /\ ClientFds(hid) = ClientFds(o) /\ Size(hid) >= 2
    BY <1>0, <1>5, <1>6, SameOpen DEF Size
  <1>8. /\ p \in Ports
        /\ p.r \in Fds /\ p.open[p.r] = "r"
        /\ Held(p) = Held(hid) \cup {p.r, p.w} /\ ClientFds(p) = ClientFds(hid)
        /\ p.dev = hid.dev /\ p.live = hid.live /\ p.lock = hid.lock
    BY <1>6, <1>7, PipeOpens
  <1> HIDE DEF p
  <1>9. /\ both \in Ports /\ both.open = p.open /\ both.fd = p.r /\ both.r = p.r /\ both.w = p.w /\ both.dev = p.dev
        /\ both.live = p.live /\ both.lock = p.lock
    BY <1>8, NotNone DEF Ports
  <1> HIDE DEF both
  <1>10. Held(both) = Held(p) /\ ClientFds(both) = ClientFds(p)
    BY <1>9, SameOpen
  <1>11. /\ OwnDevice(both) /\ Held(both) = {both.dev, both.r, both.w} /\ Unlocked(both)
         /\ ClientFds(both) = ClientFds(y)
    BY <1>1, <1>5, <1>6, <1>7, <1>8, <1>9, <1>10 DEF OwnDevice, Nothing, Unlocked
  <1>12. /\ z \in Ports /\ z.open = both.open /\ z.fd = both.fd /\ z.r = both.r /\ z.w = both.w /\ z.dev = both.dev
         /\ z.lock = both.lock
    BY <1>9 DEF Ports
  <1> HIDE DEF z
  <1>13. Held(z) = Held(both) /\ ClientFds(z) = ClientFds(both)
    BY <1>12, SameOpen
  <1>14. OwnDevice(z) /\ Held(z) = {z.dev, z.r, z.w} /\ Unlocked(z)
    BY <1>11, <1>12, <1>13 DEF OwnDevice, Unlocked
  <1>15. InUse(e, both) /\ InUse(e, z)
    BY <1>11, <1>14, RestRepeating
  <1>16. Session(e, y, both) /\ Session(e, y, z)
    BY <1>9, <1>11, <1>12, <1>13, <1>15 DEF Session
  <1>17. Session(e, y, y)
    BY <1>1 DEF Session, Vacant
  <1>18. Session(e, y, s)
    BY <1>3, <1>4, <1>16, <1>17
  <1>19. ASSUME e = "zotac" PROVE zotac_init(y, fail).x = s
    BY <1>2, <1>19 DEF zotac_init
  <1> QED
    BY <1>18, <1>19

LEMMA UsbBegins ==
    ASSUME NEW e \in Usb, NEW y \in Ports, Size(y) >= 3, AtRest(e, y),
           NEW fail, fail \notin Unclean(e)
    PROVE  /\ fail # "find" => Session(e, y, awlibusb_init(y, fail).x)
           /\ e = "ati" => Session(e, y, ati_init(y, fail).x)
           /\ e # "ati" => fail # "find"
  <1> DEFINE p == Pipe(y)
             q == [p EXCEPT !.fd = p.r]
             o == OpenDev(q)
             o1 == [o EXCEPT !.tid = 1]
             z == [o1 EXCEPT !.live = @ + 1]
             n == [p EXCEPT !.fd = p.r, !.r = None, !.w = None]
             s == awlibusb_init(y, fail).x
  <1>1. y.fd = None /\ y.dev = None
    BY RestUsb
  <1>2. fail \notin {"open", "claim", "fork"} /\ (e # "ati" => fail # "find")
    BY DEF Unclean, Serial, Usb
  <1>3. fail # "find" => s = (IF fail = "pipe" THEN y ELSE z)
    BY <1>2 DEF awlibusb_init, Failed, Done
  <1>4. Session(e, y, y)
    BY <1>1 DEF Session, Vacant
  <1>0. Size(y) \in Nat /\ Size(y) >= 2
    BY SizeIsNat
  <1>5. /\ p \in Ports
        /\ p.r \in Fds /\ p.open[p.r] = "r"
        /\ Held(p) = Held(y) \cup {p.r, p.w} /\ ClientFds(p) = ClientFds(y)
        /\ p.dev = y.dev /\ Size(p) = Size(y) - 2
    BY <1>0, PipeOpens
  <1> HIDE DEF p
  <1>6. q \in Ports /\ q.open = p.open /\ q.fd = p.r /\ q.dev = p.dev
    BY <1>5, NotNone DEF Ports
  <1> HIDE DEF q
  <1>7. Held(q) = Held(p) /\ ClientFds(q) = ClientFds(p) /\ Size(q) >= 1
    BY <1>0, <1>5, <1>6, SameOpen DEF Size
  <1>8. /\ o \in Ports
        /\ o.dev \in Fds /\ o.dev \notin Held(q)
        /\ Held(o) = Held(q) \cup {o.dev} /\ ClientFds(o) = ClientFds(q)
        /\ o.fd = q.fd
        /\ \A f \in Fds : f # o.dev => o.open[f] = q.open[f]
    BY <1>6, <1>7, OpenDevOpens
  <1> HIDE DEF o
  <1>9. z \in Ports /\ z.open = o.open /\ z.fd = o.fd /\ z.dev = o.dev
    <2>1. o1 \in Ports /\ o1.open = o.open /\ o1.fd = o.fd /\ o1.dev = o.dev
      BY <1>8 DEF Ports
    <2> HIDE DEF o1
    <2>2. o1.live + 1 \in Int
      BY <2>1, PortNumbers
    <2> QED
      BY <2>1, <2>2 DEF Ports
  <1> HIDE DEF z
  <1>10. Held(z) = Held(o) /\ ClientFds(z) = ClientFds(o)
    BY <1>9, SameOpen
  <1>11. OwnDevice(z) /\ z.dev \in Held(z)
    <2>1. p.r # o.dev /\ p.r \in Held(p)
      BY <1>5, <1>7, <1>8
    <2> QED
      BY <1>5, <1>6, <1>7, <1>8, <1>9, <1>10, <2>1 DEF OwnDevice
  <1>12. Session(e, y, z)
    BY <1>5, <1>7, <1>8, <1>9, <1>10, <1>11, RestUsb DEF Session
  <1>13. ASSUME e = "ati", fail = "find" PROVE Session(e, y, ati_init(y, fail).x)
    <2>1. ati_init(y, fail).x = n
      BY <1>13 DEF ati_init, Failed, p
    <2>2. n \in Ports /\ n.open = p.open /\ n.fd = p.r /\ n.dev = p.dev
      BY <1>5, NotNone DEF Ports
    <2> HIDE DEF n
    <2>3. Held(n) = Held(p) /\ ClientFds(n) = ClientFds(p)
      BY <2>2, SameOpen
    <2>4. OwnDevice(n) /\ n.dev = None
      BY <1>1, <1>5, <2>2, <2>3 DEF OwnDevice
    <2> QED
      BY <1>5, <2>1, <2>2, <2>3, <2>4, RestUsb DEF Session
  <1>14. fail # "find" => Session(e, y, s)
    BY <1>3, <1>4, <1>12
  <1>15. fail # "find" => ati_init(y, fail).x = s
    BY DEF ati_init
  <1> QED
    BY <1>2, <1>13, <1>14, <1>15

LEMMA I2cBegins ==
    ASSUME NEW y \in Ports, Size(y) >= 3, AtRest("i2cuser", y),
           NEW fail, fail \notin Unclean("i2cuser")
    PROVE  LET z == i2cuser_init(y, fail).x IN
           /\ Session("i2cuser", y, z)
           /\ \A f \in Fds : z.open[f] = "dead" => y.open[f] = "dead"
  <1> DEFINE p == Pipe(y)
             q == [p EXCEPT !.fd = p.r]
             o == OpenDev(q)
             k == Close(o, o.w)
             k1 == [k EXCEPT !.tid = 1]
             z == [k1 EXCEPT !.live = @ + 1]
             s == i2cuser_init(y, fail).x
  <1>1. Nothing(y)
    BY RestI2c
  <1>2. fail \notin {"pipe", "open", "slave", "fork"}
    BY DEF Unclean, Serial
  <1>3. s = z
    BY <1>2 DEF i2cuser_init, Done
  <1>0. Size(y) \in Nat /\ Size(y) >= 2
    BY SizeIsNat
  <1>5. /\ p \in Ports
        /\ p.r \in Fds /\ p.open[p.r] = "r" /\ p.w # p.r /\ p.w \in Fds
        /\ Held(p) = Held(y) \cup {p.r, p.w} /\ ClientFds(p) = ClientFds(y)
        /\ p.live = y.live /\ p.lock = y.lock /\ Size(p) = Size(y) - 2
        /\ \A f \in Fds : p.open[f] = "dead" => y.open[f] = "dead"
    BY <1>0, PipeOpens
  <1> HIDE DEF p
  <1>6. q \in Ports /\ q.open = p.open /\ q.fd = p.r /\ q.w = p.w /\ q.live = p.live /\ q.lock = p.lock
    BY <1>5, NotNone DEF Ports
  <1> HIDE DEF q
  <1>7. Held(q) = Held(p) /\ ClientFds(q) = ClientFds(p) /\ Size(q) >= 1
    BY <1>0, <1>5, <1>6, SameOpen DEF Size
  <1>8. /\ o \in Ports
        /\ o.dev \in Fds /\ o.dev \notin Held(q) /\ o.open[o.dev] = "dev"
        /\ Held(o) = Held(q) \cup {o.dev} /\ ClientFds(o) = ClientFds(q)
        /\ o.fd = q.fd /\ o.w = q.w /\ o.live = q.live /\ o.lock = q.lock
        /\ \A f \in Fds : f # o.dev => o.open[f] = q.open[f]
    BY <1>6, <1>7, OpenDevOpens
  <1> HIDE DEF o
  <1>9. /\ k \in Ports
        /\ Held(k) = Held(o) \ {o.w} /\ ClientFds(k) = ClientFds(o) \ {o.w}
        /\ \A g \in Fds : g # o.w => k.open[g] = o.open[g]
        /\ k.fd = o.fd /\ k.dev = o.dev /\ k.live = o.live /\ k.lock = o.lock
    <2>1. o.w \in Int
      BY <1>8, PortNumbers
    <2> QED
      BY <1>8, <2>1, CloseHeld
  <1>10. k.open[o.w] = ""
    <2>1. o.w \in Fds /\ o.open \in [Fds -> Uses]
      BY <1>5, <1>6, <1>8 DEF Ports
    <2> QED
      BY <1>8, <2>1 DEF Close, Ports
  <1> HIDE DEF k
  <1>11. /\ z \in Ports /\ z.open = k.open /\ z.fd = k.fd /\ z.dev = k.dev /\ z.tid = 1 /\ z.live = k.live + 1
         /\ z.lock = k.lock
    <2>1. /\ k1 \in Ports /\ k1.open = k.open /\ k1.fd = k.fd /\ k1.dev = k.dev /\ k1.tid = 1 /\ k1.live = k.live
          /\ k1.lock = k.lock
      BY <1>9 DEF Ports
    <2> HIDE DEF k1
    <2>2. k1.live + 1 \in Int
      BY <2>1, PortNumbers
    <2> QED
      BY <2>1, <2>2 DEF Ports
  <1> HIDE DEF z
  <1>12. Held(z) = Held(k) /\ ClientFds(z) = ClientFds(k)
    BY <1>11, SameOpen
  <1>13. p.r # o.dev /\ p.w # o.dev /\ p.r \in Held(p) /\ p.w \in Held(p)
    BY <1>5, <1>7, <1>8
  <1>14. Held(z) = {z.fd, z.dev}
    BY <1>1, <1>5, <1>6, <1>7, <1>8, <1>9, <1>11, <1>12, <1>13 DEF Nothing
  <1>15. ClientFds(z) = ClientFds(y)
    <2>1. o.w \notin ClientFds(o)
      BY <1>6, <1>7, <1>8, <1>13, Disjoint
    <2> QED
      BY <1>5, <1>7, <1>8, <1>9, <1>12, <2>1
  <1>16. z.open[z.fd] = "r"
    BY <1>5, <1>6, <1>8, <1>9, <1>11, <1>13
  <1>17. OwnDevice(z)
    BY <1>14, <1>16 DEF OwnDevice
  <1>18. z.live = 1 /\ z.tid # None /\ Unlocked(z)
    BY <1>1, <1>5, <1>6, <1>8, <1>9, <1>11 DEF Nothing, Unlocked, None
  <1>19. InUse("i2cuser", z)
    BY <1>14, <1>17, <1>18, RestI2c
  <1>20. ASSUME NEW f \in Fds, z.open[f] = "dead" PROVE y.open[f] = "dead"
    <2>1. f # o.w
      BY <1>10, <1>11, <1>20
    <2>2. o.open[f] = "dead"
      BY <1>9, <1>11, <1>20, <2>1
    <2>3. f # o.dev
      BY <1>8, <2>2
    <2> QED
      BY <1>5, <1>6, <1>8, <2>2, <2>3
  <1> QED
    BY <1>3, <1>11, <1>15, <1>19, <1>20 DEF Session

(* mplayfamily_init(): drv.fd becomes the device, or the pipe.             *)
LEMMA NowheelBegins ==
    ASSUME NEW y \in Ports, Size(y) >= 1, AtRest("mplay_nowheel", y),
           NEW fail, fail \notin Unclean("mplay_nowheel")
    PROVE  Session("mplay_nowheel", y, mplay_nowheel_init(y, fail).x)
  <1> DEFINE l == tty_create_lock(y)
             o == OpenDev(l)
             n == mplayfamily_deinit(y)
             z == [o EXCEPT !.fd = o.dev]
             v == [n EXCEPT !.fd = n.dev]
             s == mplay_nowheel_init(y, fail).x
  <1>1. Nothing(y) /\ y.fd = None /\ y.dev = None /\ y.r = None /\ y.w = None
    BY RestNowheel
  <1>2. fail # "open"
    BY DEF Unclean, Serial
  <1>3. s = v \/ s = z
    BY <1>2 DEF mplay_nowheel_init, mplayfamily_init
  <1>4. Session("mplay_nowheel", y, v)
    <2>1. /\ n \in Ports /\ n.r = None /\ n.w = None /\ n.fd = None /\ n.live = y.live
          /\ n.dev = y.dev /\ n.lock = y.lock
          /\ Held(n) = Held(y) \ {y.r, y.w} /\ ClientFds(n) = ClientFds(y) \ {y.r, y.w}
      BY <1>1, MplayDeinit
    <2> HIDE DEF n
    <2>2. v = n
      BY <1>1, <2>1 DEF Ports
    <2>3. AtRest("mplay_nowheel", n)
      BY <1>1, <2>1, RestNowheel DEF Nothing, Unlocked
    <2>4. ClientFds(n) = ClientFds(y)
      BY <1>1, <2>1, Disjoint
    <2> QED
      BY <2>1, <2>2, <2>3, <2>4 DEF Session, Vacant
  <1>5. Session("mplay_nowheel", y, z)
    <2>1. /\ l \in Ports /\ l.open = y.open
          /\ l.r = y.r /\ l.w = y.w /\ l.live = y.live
      BY LockCreated
    <2> HIDE DEF l
    <2>2. Held(l) = Held(y) /\ ClientFds(l) = ClientFds(y) /\ Size(l) >= 1
      BY <2>1, SameOpen DEF Size
    <2>3. /\ o \in Ports
          /\ o.dev \in Fds /\ o.open[o.dev] = "dev"
          /\ Held(o) = Held(l) \cup {o.dev} /\ ClientFds(o) = ClientFds(l)
          /\ o.r = l.r /\ o.w = l.w /\ o.live = l.live
      BY <2>1, <2>2, OpenDevOpens
    <2> HIDE DEF o
    <2>4. z \in Ports /\ z.open = o.open /\ z.fd = o.dev /\ z.dev = o.dev /\ z.r = o.r /\ z.w = o.w /\ z.live = o.live
      BY <2>3, PortNumbers DEF Ports
    <2> HIDE DEF z
    <2>5. Held(z) = Held(o) /\ ClientFds(z) = ClientFds(o)
      BY <2>4, SameOpen
    <2>6. OwnDevice(z) /\ Held(z) = {z.fd}
      BY <1>1, <2>2, <2>3, <2>4, <2>5 DEF OwnDevice, Nothing
    <2>7. InUse("mplay_nowheel", z)
      BY <1>1, <2>1, <2>3, <2>4, <2>6, RestNowheel DEF Nothing
    <2> QED
      BY <2>2, <2>3, <2>4, <2>5, <2>7 DEF Session
  <1> QED
    BY <1>3, <1>4, <1>5

(* The pipe and the device of the last session that failed are closed, the *)
(* lock file may stay.                                                     *)
LEMMA MplayUndone ==
    ASSUME NEW y \in Ports, NEW p \in Ports, p.fd = None, p.dev = None, ClientFds(p) = ClientFds(y),
           p.r \notin ClientFds(y), p.w \notin ClientFds(y)
    PROVE  LET n == mplayfamily_deinit(p) IN Session("mplay", y, [n EXCEPT !.fd = n.r])
  <1> DEFINE n == mplayfamily_deinit(p)
             v == [n EXCEPT !.fd = n.r]
  <1>1. /\ n \in Ports /\ n.r = None /\ n.w = None /\ n.fd = None
        /\ n.dev = p.dev
        /\ ClientFds(n) = ClientFds(p) \ {p.r, p.w}
    BY MplayDeinit
  <1> HIDE DEF n
  <1>2. v = n
    BY <1>1 DEF Ports
  <1>3. AtRest("mplay", n)
    BY <1>1, RestMplay
  <1>4. ClientFds(n) = ClientFds(y)
    BY <1>1
  <1> HIDE DEF v
  <1>5. Session("mplay", y, v)
    BY <1>1, <1>2, <1>3, <1>4 DEF Session, Vacant
  <1> QED
    BY <1>5 DEF v, n

LEMMA MplayBegins ==
    ASSUME NEW y \in Ports, Size(y) >= 3, AtRest("mplay", y), NEW fail
    PROVE  Session("mplay", y, mplay_init(y, fail).x)
  <1> DEFINE p == Pipe(y)
             l == tty_create_lock(p)
             u == [l EXCEPT !.dev = None]
             o == OpenDev(l)
             z == [o EXCEPT !.fd = o.r]
             undone(k) == [mplayfamily_deinit(k) EXCEPT !.fd = mplayfamily_deinit(k).r]
             s == mplay_init(y, fail).x
  <1>0. Size(y) \in Nat /\ Size(y) >= 2
    BY SizeIsNat
  <1>1. y.fd = None /\ y.dev = None /\ y.r = None /\ y.w = None
    BY RestMplay
  <1>2. s = undone(y) \/ s = undone(p) \/ s = undone(u) \/ s = z
    BY DEF mplay_init, mplayfamily_init
  <1>3. /\ p \in Ports
        /\ p.r \in Fds /\ p.open[p.r] = "r" /\ p.w \in Fds
        /\ Held(p) = Held(y) \cup {p.r, p.w} /\ ClientFds(p) = ClientFds(y)
        /\ p.fd = y.fd /\ p.dev = y.dev /\ Size(p) = Size(y) - 2
    BY <1>0, PipeOpens
  <1> HIDE DEF p
  <1>4. p.r \notin ClientFds(y) /\ p.w \notin ClientFds(y)
    BY <1>3, Disjoint
  <1>5. Session("mplay", y, undone(y))
    BY <1>1, Disjoint, MplayUndone
  <1>6. Session("mplay", y, undone(p))
    BY <1>1, <1>3, <1>4, MplayUndone
  <1>7. l \in Ports /\ l.open = p.open /\ l.fd = p.fd /\ l.dev = p.dev /\ l.r = p.r /\ l.w = p.w
    BY <1>3, LockCreated
  <1>8. Held(l) = Held(p) /\ ClientFds(l) = ClientFds(p) /\ Size(l) >= 1
    BY <1>0, <1>3, <1>7, SameOpen DEF Size
  <1> HIDE DEF l
  <1>9. Session("mplay", y, undone(u))
    <2>1. u = l
      BY <1>1, <1>3, <1>7 DEF Ports
    <2> HIDE DEF u
    <2> QED
      BY <1>1, <1>3, <1>4, <1>7, <1>8, <2>1, MplayUndone
  <1>10. Session("mplay", y, z)
    <2>1. /\ o \in Ports
          /\ o.dev \in Fds /\ o.dev \notin Held(l)
          /\ Held(o) = Held(l) \cup {o.dev} /\ ClientFds(o) = ClientFds(l)
          /\ o.r = l.r /\ o.w = l.w
          /\ \A f \in Fds : f # o.dev => o.open[f] = l.open[f]
      BY <1>7, <1>8, OpenDevOpens
    <2> HIDE DEF o
    <2>2. z \in Ports /\ z.open = o.open /\ z.fd = o.r /\ z.r = o.r /\ z.w = o.w
      BY <2>1, PortNumbers DEF Ports
    <2> HIDE DEF z
    <2>3. Held(z) = Held(o) /\ ClientFds(z) = ClientFds(o)
      BY <2>2, SameOpen
    <2>4. p.r \in Held(p) /\ p.w \in Held(p)
      BY <1>3
    <2>5. z.fd = p.r /\ p.r # o.dev
      BY <1>7, <1>8, <2>1, <2>2, <2>4
    <2>6. OwnDevice(z)
      BY <1>3, <1>7, <1>8, <2>1, <2>2, <2>3, <2>4, <2>5 DEF OwnDevice
    <2>7. InUse("mplay", z)
      BY <1>7, <1>8, <2>1, <2>2, <2>3, <2>4, <2>6, RestMplay
    <2> QED
      BY <1>3, <1>8, <2>1, <2>2, <2>3, <2>7 DEF Session
  <1> QED
    BY <1>2, <1>5, <1>6, <1>9, <1>10

-----------------------------------------------------------------------------
(* init_func() of the driver that is configured.                           *)
LEMMA SerialInit ==
    ASSUME NEW y \in Ports, Size(y) >= 1, d \in Serial, AtRest(d, y), NEW fail, fail \notin Unclean(d)
    PROVE  Session(d, y, InitFunc(y, fail).x)
  <1>1. {"reset", "baud", "csize", "rtscts"} \subseteq Unclean(d)
    <2>1. Unclean(d) = {"lock", "reset", "baud", "csize", "rtscts", "rts", "flush"}
      BY DEF Unclean, Serial
    <2> QED
      BY <2>1
  <1>2. \A undone : \A settings \in SUBSET {"reset", "baud", "csize", "rtscts"} :
          Session(d, y, serial_init(y, fail, undone, settings).x)
    BY <1>1, SerialBegins
  <1>3. CASE d = "creative"
    BY <1>2, <1>3 DEF InitFunc, creative_init
  <1>4. CASE d = "pixelview"
    BY <1>2, <1>4 DEF InitFunc, pixelview_init
  <1>5. CASE d = "logitech"
    BY <1>2, <1>5 DEF InitFunc, logitech_init
  <1>6. CASE d = "pcmak"
    BY <1>2, <1>6 DEF InitFunc, pcmak_init
  <1>7. CASE d = "mp3anywhere"
    BY <1>2, <1>7 DEF InitFunc, mp3anywhere_init
  <1>8. CASE d = "silitek"
    BY <1>2, <1>8 DEF InitFunc, silitek_init
  <1>9. CASE d = "ea65"
    BY <1>2, <1>9 DEF InitFunc, ea65_init
  <1>10. CASE d = "mouseremote"
    BY <1>2, <1>10 DEF InitFunc, mouseremote_init
  <1>11. CASE d = "mouseremote_ps2"
    BY <1>2, <1>11 DEF InitFunc, mouseremote_ps2_init
  <1>12. CASE d = "uirt2"
    BY <1>2, <1>12 DEF InitFunc, uirt2_init
  <1>13. CASE d = "pinsys"
    BY <1>13, PinsysBegins DEF InitFunc
  <1>14. CASE d = "accent"
    BY <1>14, AccentBegins DEF InitFunc
  <1> QED
    BY <1>3, <1>4, <1>5, <1>6, <1>7, <1>8, <1>9, <1>10, <1>11, <1>12, <1>13, <1>14 DEF Serial

LEMMA OtherInit ==
    ASSUME NEW y \in Ports, Size(y) >= 3, d \in AllDrivers \ Serial, AtRest(d, y), NEW fail, fail \notin Unclean(d)
    PROVE  /\ Session(d, y, InitFunc(y, fail).x)
           /\ d = "i2cuser" => \A f \in Fds : InitFunc(y, fail).x.open[f] = "dead" => y.open[f] = "dead"
  <1>0. Size(y) \in Nat /\ Size(y) >= 1 /\ Size(y) >= 2
    BY SizeIsNat
  <1>1. CASE d = "usbx"
    BY <1>0, <1>1, UsbxBegins DEF InitFunc
  <1>2. CASE d = "tira"
    BY <1>0, <1>2, TiraBegins DEF InitFunc
  <1>3. CASE d = "irlink"
    BY <1>0, <1>3, IrlinkBegins DEF InitFunc
  <1>4. CASE d = "mplay"
    BY <1>0, <1>4, MplayBegins DEF InitFunc
  <1>5. CASE d = "mplay_nowheel"
    BY <1>0, <1>5, NowheelBegins DEF InitFunc
  <1>6. CASE d = "devinput"
    BY <1>0, <1>6, DevinputBegins DEF InitFunc
  <1>7. CASE d = "creative_infracd"
    BY <1>0, <1>7, InfracdBegins DEF InitFunc
  <1>8. CASE d = "i2cuser"
    BY <1>0, <1>8, I2cBegins DEF InitFunc
  <1>9. CASE d \in Blocking
    BY <1>0, <1>9, BlockingBegins DEF InitFunc, Blocking
  <1>10. CASE d \in Default
    BY <1>0, <1>10, DefaultBegins DEF InitFunc, Default
  <1>11. CASE d \in Hiddev
    BY <1>0, <1>11, HiddevBegins DEF InitFunc, Hiddev, Plain
  <1>12. CASE d = "sb0540"
    BY <1>0, <1>12, HiddevBegins DEF InitFunc, Plain
  <1>13. CASE d = "samsung"
    BY <1>0, <1>13, HiddevBegins DEF InitFunc, Plain, samsung_init
  <1>14. CASE d = "alsa_usb"
    BY <1>0, <1>14, HiddevBegins DEF InitFunc, Plain
  <1>15. CASE d \in Repeating
    BY <1>0, <1>15, RepeatingBegins DEF InitFunc, Repeating
  <1>16. CASE d \in Usb
    BY <1>0, <1>16, UsbBegins DEF InitFunc, Usb, dfc_init
  <1> QED
    BY <1>1, <1>2, <1>3, <1>4, <1>5, <1>6, <1>7, <1>8, <1>9, <1>10, <1>11, <1>12, <1>13, <1>14, <1>15, <1>16
       DEF AllDrivers, Threaded, Repeating, Usb, Blocking, Default, Hiddev

(* deinit_func() of the driver that is configured. *)
LEMMA SerialDeinit ==
    ASSUME NEW y \in Ports, d \in Serial, Closable(d, y)
    PROVE  Ended(d, y, DeinitFunc(y))
  <1>1. d = "creative" => DeinitFunc(y) = tty_deinit(y)
    BY DEF DeinitFunc, Blocking, creative_deinit
  <1>2. d = "pixelview" => DeinitFunc(y) = tty_deinit(y)
    BY DEF DeinitFunc, Blocking, pixelview_deinit
  <1>3. d = "logitech" => DeinitFunc(y) = tty_deinit(y)
    BY DEF DeinitFunc, Blocking, logitech_deinit
  <1>4. d = "pcmak" => DeinitFunc(y) = tty_deinit(y)
    BY DEF DeinitFunc, Blocking, pcmak_deinit
  <1>5. d = "mp3anywhere" => DeinitFunc(y) = tty_deinit(y)
    BY DEF DeinitFunc, Blocking, mp3anywhere_deinit
  <1>6. d = "silitek" => DeinitFunc(y) = tty_deinit(y)
    BY DEF DeinitFunc, Blocking, silitek_deinit
  <1>7. d = "ea65" => DeinitFunc(y) = tty_deinit(y)
    BY DEF DeinitFunc, Blocking, ea65_deinit
  <1>8. d = "uirt2" => DeinitFunc(y) = tty_deinit(y)
    BY DEF DeinitFunc, Blocking, uirt2_deinit
  <1>9. d \in {"mouseremote", "mouseremote_ps2"} => DeinitFunc(y) = tty_deinit(y)
    BY DEF DeinitFunc, Blocking, mouseremote_deinit
  <1>10. d = "pinsys" => DeinitFunc(y) = tty_deinit(y)
    BY DEF DeinitFunc, Blocking, pinsys_deinit
  <1>11. d = "accent" => DeinitFunc(y) = tty_deinit(y)
    BY DEF DeinitFunc, Blocking, accent_deinit
  <1>12. DeinitFunc(y) = tty_deinit(y)
    BY <1>1, <1>2, <1>3, <1>4, <1>5, <1>6, <1>7, <1>8, <1>9, <1>10, <1>11 DEF Serial
  <1> QED
    BY <1>12, SerialEnds

LEMMA OtherDeinit ==
    ASSUME NEW y \in Ports, d \in AllDrivers \ Serial, Closable(d, y)
    PROVE  Ended(d, y, DeinitFunc(y))
  <1>1. CASE d = "usbx"
    <2>1. DeinitFunc(y) = usbx_deinit(y) /\ "usbx" \in LockingForgetful
      BY <1>1 DEF DeinitFunc, Blocking, LockingForgetful
    <2> QED
      BY <1>1, <2>1, ForgetfulEnds
  <1>2. CASE d = "tira"
    <2>1. DeinitFunc(y) = tira_deinit(y)
      BY <1>2 DEF DeinitFunc, Blocking
    <2> QED
      BY <1>2, <2>1, TiraEnds
  <1>3. CASE d = "irlink"
    BY <1>3, IrlinkEnds DEF DeinitFunc, Blocking
  <1>4. CASE d = "mplay"
    <2>1. DeinitFunc(y) = mplayfamily_deinit(y)
      BY <1>4 DEF DeinitFunc, Blocking
    <2> QED
      BY <1>4, <2>1, MplayEnds
  <1>5. CASE d = "mplay_nowheel"
    <2>1. DeinitFunc(y) = mplayfamily_deinit(y)
      BY <1>5 DEF DeinitFunc, Blocking
    <2> QED
      BY <1>5, <2>1, NowheelEnds
  <1>6. CASE d = "devinput"
    BY <1>6, DevinputEnds DEF DeinitFunc, Blocking
  <1>7. CASE d = "creative_infracd"
    BY <1>7, InfracdEnds DEF DeinitFunc, Blocking
  <1>8. CASE d = "i2cuser"
    BY <1>8, I2cEnds DEF DeinitFunc, Blocking
  <1>9. CASE d \in Blocking
    BY <1>9, BlockingEnds DEF DeinitFunc, Blocking
  <1>10. CASE d \in Default
    BY <1>10, PlainEnds DEF DeinitFunc, Blocking, Default, Plain, default_deinit
  <1>11. CASE d \in Hiddev
    BY <1>11, PlainEnds DEF DeinitFunc, Blocking, Hiddev, Plain, hiddev_deinit
  <1>12. CASE d \in {"sb0540", "samsung"}
    BY <1>12, PlainEnds DEF DeinitFunc, Blocking, Plain, hiddev_deinit
  <1>13. CASE d = "alsa_usb"
    BY <1>13, PlainEnds DEF DeinitFunc, Blocking, Plain, alsa_usb_deinit
  <1>14. CASE d \in Repeating
    BY <1>14, RepeatingEnds DEF DeinitFunc, Blocking, Repeating, zotac_deinit, atwf83_deinit
  <1>15. CASE d \in Usb
    BY <1>15, UsbEnds DEF DeinitFunc, Blocking, Usb, ati_deinit, awlibusb_deinit, dfc_deinit
  <1> QED
    BY <1>1, <1>2, <1>3, <1>4, <1>5, <1>6, <1>7, <1>8, <1>9, <1>10, <1>11, <1>12, <1>13, <1>14, <1>15
       DEF AllDrivers, Threaded, Repeating, Usb, Blocking, Default, Hiddev

(* With a client the device is open and owned, or nothing is; without one  *)
(* the port is at rest. *)
LEMMA InitSession ==
    ASSUME NEW y \in Ports, Size(y) >= 3, d \in AllDrivers, AtRest(d, y), NEW fail, fail \notin Unclean(d)
    PROVE  /\ Session(d, y, InitFunc(y, fail).x)
           /\ d = "i2cuser" => \A f \in Fds : InitFunc(y, fail).x.open[f] = "dead" => y.open[f] = "dead"
  <1>0. Size(y) \in Nat /\ Size(y) >= 1
    BY SizeIsNat
  <1>1. CASE d \in Serial
    <2>1. d # "i2cuser"
      BY <1>1 DEF Serial
    <2> QED
      BY <1>0, <1>1, <2>1, SerialInit
  <1>2. CASE d \notin Serial
    BY <1>2, OtherInit
  <1> QED
    BY <1>1, <1>2

LEMMA DeinitEnds ==
    ASSUME NEW y \in Ports, d \in AllDrivers, Closable(d, y)
    PROVE  /\ Ended(d, y, DeinitFunc(y))
           /\ d \in Forgetful => Vacant(d, DeinitFunc(y))
  <1>1. Ended(d, y, DeinitFunc(y))
    BY SerialDeinit, OtherDeinit
  <1>2. d \in Forgetful => DeinitFunc(y).fd = None
    BY <1>1 DEF Ended, AtRest
  <1> QED
    BY <1>1, <1>2 DEF Ended, Vacant

-----------------------------------------------------------------------------
(* rec_func() closes the device when read() failed, if the driver forgets  *)
(* its number then, and opens it again only in accent.                     *)
Quietly(s) == DOMAIN s = Fields /\ s.then \in {"", "flush"}
Returns(e, s) ==
  /\ DOMAIN s = Fields
  /\ s.then = "deinit" => e \in Forgetful
  /\ s.then = "reopen" => e = "accent"
  /\ e = "accent" => Len(s.buf) < 16

LEMMA QuietReturn ==
    ASSUME NEW e, e # "accent", NEW s, Quietly(s)
    PROVE  Returns(e, s)
  BY DEF Quietly, Returns

LEMMA QuietDrop ==
    ASSUME NEW s, Quietly(s)
    PROVE  Quietly(Drop(s)) /\ \A b : Quietly(More(s, b))
  BY DEF Quietly, Fields, Drop, More

LEMMA QuietField ==
    ASSUME NEW s, Quietly(s), NEW v
    PROVE  /\ Quietly([s EXCEPT !.n = v]) /\ Quietly([s EXCEPT !.code = v]) /\ Quietly([s EXCEPT !.last = v])
           /\ Quietly([s EXCEPT !.rep = v]) /\ Quietly([s EXCEPT !.out = v]) /\ Quietly([s EXCEPT !.idle = v])
           /\ Quietly([s EXCEPT !.near = v])
  BY DEF Quietly, Fields

LEMMA QuietReport ==
    ASSUME NEW s, Quietly(s), NEW bits, NEW repeat
    PROVE  Quietly(Report(s, bits, repeat))
  <1> DEFINE r == Drop(s)
             o == <<[bits |-> bits, repeat |-> repeat]>>
  <1>1. Report(s, bits, repeat) = [r EXCEPT !.out = o, !.idle = FALSE, !.near = TRUE]
    BY DEF Report
  <1>2. Quietly(r)
    BY QuietDrop
  <1> HIDE DEF r, o
  <1> QED
    BY <1>1, <1>2 DEF Quietly, Fields

LEMMA Flushed ==
    ASSUME NEW s, Quietly(s)
    PROVE  /\ Quietly([s EXCEPT !.then = "flush"])
           /\ \A e \in Forgetful : Returns(e, [s EXCEPT !.then = "deinit"])
  <1>1. "accent" \notin Forgetful
    BY DEF Forgetful, Serial
  <1> QED
    BY <1>1 DEF Quietly, Returns, Fields

LEMMA QuietMouse ==
    ASSUME NEW s, Quietly(s), NEW dx, NEW dy, NEW stat
    PROVE  Quietly(mouse_event(s, dx, dy, stat))
  BY QuietDrop, QuietReport DEF mouse_event

LEMMA QuietSerial ==
    ASSUME NEW s, Quietly(s), NEW item
    PROVE  /\ Quietly(creative_rec(s, item)) /\ Quietly(pixelview_rec(s, item)) /\ Quietly(logitech_rec(s, item))
           /\ Quietly(pcmak_rec(s, item)) /\ Quietly(mp3anywhere_rec(s, item)) /\ Quietly(mouseremote_rec(s, item))
           /\ Quietly(mouseremote_ps2_rec(s, item)) /\ Quietly(silitek_rec(s, item)) /\ Quietly(silitek_empty(s))
           /\ Quietly(ea65_rec(s, item)) /\ Quietly(uirt2_rec(s, item))
  <1>0. /\ Quietly(Drop(s)) /\ \A b : Quietly(More(s, b)) /\ \A bits, r : Quietly(Report(s, bits, r))
        /\ \A v, bits, r : Quietly(Report([s EXCEPT !.last = v], bits, r))
        /\ \A v, bits, r : Quietly(Report([s EXCEPT !.code = v], bits, r))
    BY QuietDrop, QuietReport, QuietField
  <1>1. Quietly(creative_rec(s, item))
    BY QuietDrop, QuietReport DEF creative_rec
  <1>2. Quietly(pixelview_rec(s, item))
    BY QuietDrop, QuietReport DEF pixelview_rec
  <1>3. Quietly(logitech_rec(s, item))
    BY QuietDrop, QuietReport, QuietField, ZenonT(60) DEF logitech_rec
  <1>4. Quietly(pcmak_rec(s, item))
    BY QuietDrop, QuietReport, QuietField DEF pcmak_rec
  <1>5. Quietly(mp3anywhere_rec(s, item))
    BY QuietDrop, QuietReport DEF mp3anywhere_rec
  <1>6. Quietly(mouseremote_rec(s, item))
    BY QuietDrop, QuietReport, QuietMouse, SMT DEF mouseremote_rec
  <1>7. Quietly(mouseremote_ps2_rec(s, item))
    BY QuietDrop, QuietReport, QuietMouse, ZenonT(60) DEF mouseremote_ps2_rec
  <1>8. \A byte : Quietly(silitek_rec(s, byte))
    BY ONLY <1>0, SMT DEF silitek_rec
  <1>9. Quietly(silitek_empty(s))
    BY <1>8, Zenon DEF silitek_empty
  <1>10. Quietly(ea65_rec(s, item))
    BY <1>0, Zenon DEF ea65_rec
  <1>11. Quietly(uirt2_rec(s, item))
    BY QuietDrop, QuietReport DEF uirt2_rec, Fixed
  <1> QED
    BY <1>1, <1>2, <1>3, <1>4, <1>5, <1>6, <1>7, <1>8, <1>9, <1>10, <1>11

LEMMA QuietPorts ==
    ASSUME NEW s, Quietly(s), NEW item
    PROVE  /\ Quietly(usbx_rec(s, item)) /\ Quietly(usbx_timeout(s)) /\ Quietly(pinsys_rec(s, item))
           /\ Quietly(pinsys_timeout(s)) /\ Quietly(tira_rec(s, item)) /\ Quietly(tira_timeout(s))
           /\ Quietly(irlink_readdata(s, item)) /\ Quietly(mplayfamily_rec(s, item))
           /\ Quietly(livedrive_message(s, item)) /\ Quietly(alsa_usb_rec(s, item))
           /\ Quietly(creative_infracd_rec(s, item))
  <1>1. \A b : Quietly(usbx_end(s, b))
    BY QuietReport, Zenon DEF usbx_end
  <1>2. Quietly(usbx_rec(s, item)) /\ Quietly(usbx_timeout(s))
    BY <1>1, QuietDrop DEF usbx_rec, usbx_timeout
  <1>3. Quietly(pinsys_rec(s, item))
    BY QuietDrop, QuietReport, ZenonT(60) DEF pinsys_rec
  <1>4. Quietly(pinsys_timeout(s)) /\ Quietly(tira_timeout(s))
    BY QuietDrop, Flushed DEF pinsys_timeout, tira_timeout
  <1>5. Quietly(tira_rec(s, item))
    BY QuietDrop, QuietReport DEF tira_rec
  <1>6. Quietly(irlink_readdata(s, item))
    BY QuietDrop, QuietReport, QuietField DEF irlink_readdata
  <1>7. Quietly(mplayfamily_rec(s, item))
    <2>1. Quietly(mplayfamily_rec_handle_repetition(s))
      BY QuietDrop, QuietReport, QuietField DEF mplayfamily_rec_handle_repetition
    <2>2. Quietly(mplayfamily_rec_handle_new(s, item))
      <3> DEFINE q == [s EXCEPT !.code = <<item>>]
                 r == [q EXCEPT !.n = 0]
      <3>1. Quietly(q)
        BY QuietField
      <3>2. \A bits, again : Quietly(Report(r, bits, again))
        BY <3>1, QuietField, QuietReport
      <3>3. r = [s EXCEPT !.code = <<item>>, !.n = 0]
        OBVIOUS
      <3> HIDE DEF r
      <3> QED
        BY <3>2, <3>3, QuietDrop, ZenonT(60) DEF mplayfamily_rec_handle_new
    <2> QED
      BY <2>1, <2>2 DEF mplayfamily_rec
  <1>8. Quietly(livedrive_message(s, item))
    BY QuietDrop, QuietReport DEF livedrive_message
  <1>9. Quietly(alsa_usb_rec(s, item))
    BY QuietReport, QuietField DEF alsa_usb_rec
  <1>10. Quietly(creative_infracd_rec(s, item))
    BY QuietReport DEF creative_infracd_rec
  <1> QED
    BY <1>2, <1>3, <1>4, <1>5, <1>6, <1>7, <1>8, <1>9, <1>10

LEMMA QuietHid ==
    ASSUME NEW s, Quietly(s), NEW item
    PROVE  /\ Quietly(hiddev_rec(s, item)) /\ Quietly(sb0540_rec(s, item)) /\ Quietly(macmini_rec(s, item))
           /\ Quietly(samsung_rec(s, item)) /\ Quietly(sonyir_rec(s, item)) /\ Quietly(code_rec(s, item))
           /\ Quietly(default_readdata(s, item)) /\ \A uinput : Quietly(devinput_rec(s, item, uinput))
  <1>1. \A y : Quietly(bw6130_wheel(s, y))
    <2> DEFINE q == [s EXCEPT !.code = <<s.code[1] % 16>>]
               r == [q EXCEPT !.n = 0]
    <2>1. Quietly(q)
      BY QuietField
    <2>2. Quietly(r)
      BY <2>1, QuietField
    <2>3. Quietly(Drop(q)) /\ \A bits, again : Quietly(Report(r, bits, again))
      BY <2>1, <2>2, QuietDrop, QuietReport
    <2> QED
      BY <2>3, ZenonT(60) DEF bw6130_wheel
  <1>2. \A e : Quietly(bw6130_event(s, e))
    <2> TAKE e
    <2> DEFINE q == [s EXCEPT !.rep = IF s.last = <<e.value>> THEN "yes" ELSE @, !.last = <<e.value>>]
               none == [s EXCEPT !.rep = "no", !.last = <<0>>]
               next == [s EXCEPT !.code = <<e.value>>, !.n = 2]
               wheel == [q EXCEPT !.n = 1]
    <2>1. Quietly(q) /\ Quietly(none) /\ Quietly(next)
      BY DEF Quietly, Fields
    <2>2. bw6130_event(s, e) \in {bw6130_wheel(s, e.value), Drop(next), Drop(wheel), Report(q, <<e.value>>, q.rep),
                                  Drop(none), Drop(s)}
      BY Zenon DEF bw6130_event
    <2> HIDE DEF q, none, next
    <2>3. Quietly(wheel)
      BY <2>1, QuietField
    <2> HIDE DEF wheel
    <2> QED
      BY <1>1, <2>1, <2>2, <2>3, QuietDrop, QuietReport
  <1>3. Quietly(hiddev_rec(s, item))
    <2>1. /\ \A b : Quietly(More(s, b)) /\ \A bits, r : Quietly(Report(s, bits, r))
          /\ \A v : Quietly(Drop([s EXCEPT !.rep = v]))
          /\ \A v, bits, r : Quietly(Report([s EXCEPT !.rep = v], bits, r))
      BY QuietDrop, QuietReport, QuietField
    <2>2. \A e : Quietly(dvico_event(s, e))
      <3> TAKE e
      <3> DEFINE r == IF e.value >= 32768 THEN "yes" ELSE "no"
                 code == <<e.value % 32768>>
      <3>1. dvico_event(s, e) = (IF r = "yes" /\ s.idle THEN Drop([s EXCEPT !.rep = r])
                                 ELSE Report([s EXCEPT !.rep = r], code, r))
        BY DEF dvico_event
      <3> HIDE DEF r, code
      <3>2. Quietly(Drop([s EXCEPT !.rep = r])) /\ Quietly(Report([s EXCEPT !.rep = r], code, r))
        BY <2>1
      <3> QED
        BY <3>1, <3>2
    <2> QED
      BY ONLY <1>2, <2>1, <2>2, Zenon DEF hiddev_rec
  <1>4. Quietly(sb0540_rec(s, item)) /\ Quietly(code_rec(s, item))
    BY QuietDrop, QuietReport DEF sb0540_rec, code_rec
  <1>5. Quietly(macmini_rec(s, item))
    BY QuietDrop, QuietReport, QuietField DEF macmini_rec
  <1>6. Quietly(samsung_rec(s, item))
    BY QuietDrop, QuietReport, Zenon DEF samsung_rec
  <1>7. Quietly(sonyir_rec(s, item))
    BY QuietDrop, QuietReport DEF sonyir_rec
  <1>8. Quietly(default_readdata(s, item))
    BY QuietDrop, QuietReport, QuietField DEF default_readdata
  <1>9. \A uinput : Quietly(devinput_rec(s, item, uinput))
    BY QuietDrop, QuietReport, QuietField, Zenon DEF devinput_rec
  <1> QED
    BY <1>3, <1>4, <1>5, <1>6, <1>7, <1>8, <1>9

(* A read() that failed closes the device of these. *)
LEMMA GivesUp ==
    ASSUME NEW e \in Forgetful, NEW s, Quietly(s), NEW item
    PROVE  /\ Returns(e, hiddev_empty(s)) /\ Returns(e, mplayfamily_empty(s)) /\ Returns(e, usbx_empty(s))
           /\ Returns(e, repeat_rec(s, item)) /\ \A length : Returns(e, default_rec(s, item, length))
  <1>0. e # "accent"
    BY DEF Forgetful, Serial
  <1>1. Returns(e, [Drop(s) EXCEPT !.then = "deinit"])
    BY QuietDrop, Flushed
  <1>2. Returns(e, hiddev_empty(s)) /\ Returns(e, mplayfamily_empty(s)) /\ Returns(e, usbx_empty(s))
    BY <1>1 DEF hiddev_empty, mplayfamily_empty, usbx_empty
  <1>3. Returns(e, repeat_rec(s, item))
    <2> DEFINE q == [s EXCEPT !.code = <<>>]
               r == [s EXCEPT !.code = item]
    <2>1. Quietly(q) /\ Quietly(r)
      BY QuietField
    <2>2. Returns(e, Drop(q)) /\ \A bits, again : Returns(e, Report(r, bits, again))
      BY <1>0, <2>1, QuietDrop, QuietReport, QuietReturn
    <2> QED
      BY <1>1, <2>2, Zenon DEF repeat_rec
  <1>4. \A length : Returns(e, default_rec(s, item, length))
    BY <1>0, <1>2, QuietReport, QuietReturn DEF default_rec
  <1> QED
    BY <1>2, <1>3, <1>4

(* Sixteen zeroes are a jam, a pause before the sixteenth byte never is.   *)
LEMMA AccentReturns ==
    ASSUME NEW s, Quietly(s), Len(s.buf) < 16, NEW item
    PROVE  /\ Returns("accent", accent_rec(s, item))
           /\ Returns("accent", accent_timeout(s)) /\ accent_timeout(s).then # "reopen"
  <1> DEFINE n == [Drop(s) EXCEPT !.last = <<>>]
  <1>0. "accent" \notin Forgetful
    BY DEF Forgetful, Serial
  <1>1. \A t : Quietly(t) => Quietly(Drop(t)) /\ Len(Drop(t).buf) < 16
    <2>1. \A t : Quietly(t) => Drop(t).buf = <<>>
      BY DEF Drop, Quietly, Fields
    <2>2. Len(<<>>) < 16
      OBVIOUS
    <2> QED
      BY <2>1, <2>2, QuietDrop, Zenon
  <1>2. \A t, bits : Quietly(t) => Quietly(Report(t, bits, "gap")) /\ Len(Report(t, bits, "gap").buf) < 16
    <2> TAKE t, bits
    <2> HAVE Quietly(t)
    <2> DEFINE r == Drop(t)
               o == <<[bits |-> bits, repeat |-> "gap"]>>
    <2>1. Report(t, bits, "gap") = [r EXCEPT !.out = o, !.idle = FALSE, !.near = TRUE]
      BY DEF Report
    <2>2. Quietly(r) /\ Len(r.buf) < 16
      BY <1>1
    <2> HIDE DEF r, o
    <2>3. Quietly(Report(t, bits, "gap"))
      BY QuietReport
    <2>4. Report(t, bits, "gap").buf = r.buf
      BY <2>1, <2>2 DEF Quietly, Fields
    <2> QED
      BY <2>2, <2>3, <2>4, Zenon
  <1>3. Quietly(n) /\ Len(n.buf) < 16
    <2> DEFINE q == Drop(s)
    <2>1. Quietly(q) /\ Len(q.buf) < 16
      BY <1>1
    <2> HIDE DEF q
    <2>2. Quietly(n)
      BY <2>1, QuietField DEF q
    <2>3. n.buf = q.buf
      BY <2>1 DEF q, Quietly, Fields
    <2> QED
      BY <2>1, <2>2, <2>3, Zenon
  <1>4. \A t : Quietly(t) /\ Len(t.buf) < 16 => /\ Returns("accent", t) /\ Returns("accent", [t EXCEPT !.then = "flush"])
                                               /\ t.then # "reopen" /\ [t EXCEPT !.then = "flush"].then # "reopen"
    BY <1>0 DEF Quietly, Returns, Fields
  <1>5. Returns("accent", [n EXCEPT !.then = "reopen"])
    <2> HIDE DEF n
    <2> QED
      BY <1>0, <1>3 DEF Quietly, Returns, Fields
  <1>6. \A b : Returns("accent", accent_end(s, b)) /\ (accent_end(s, b).then = "reopen" => Len(b) = 16)
    <2> TAKE b
    <2> DEFINE l == [s EXCEPT !.last = SubSeq(b, 1, 8)]
               r == Report(s, s.last, "gap")
               c8 == Report(l, SubSeq(b, 1, 8), "gap")
    <2>1. Quietly(l)
      BY QuietField
    <2>2. Quietly(r) /\ Len(r.buf) < 16 /\ Quietly(c8) /\ Len(c8.buf) < 16
      BY <1>2, <2>1
    <2>3. \/ accent_end(s, b) \in {n, [r EXCEPT !.then = "flush"], [c8 EXCEPT !.then = "flush"]}
          \/ Len(b) = 16 /\ accent_end(s, b) = [n EXCEPT !.then = "reopen"]
      BY DEF accent_end
    <2> HIDE DEF n, r, c8, l
    <2> QED
      BY <1>3, <1>4, <1>5, <2>2, <2>3
  <1>7. Returns("accent", accent_timeout(s)) /\ accent_timeout(s).then # "reopen"
    <2>1. ASSUME accent_end(s, s.buf).then = "reopen" PROVE FALSE
      <3>1. Len(s.buf) = 16
        BY <1>6, <2>1
      <3> QED
        BY <3>1
    <2> QED
      BY <1>6, <2>1 DEF accent_timeout
  <1>8. \A b : Len(b) < 16 => Returns("accent", More(s, b))
    BY <1>0 DEF Quietly, Returns, Fields, More
  <1>9. Returns("accent", accent_rec(s, item))
    BY <1>6, <1>8 DEF accent_rec
  <1> QED
    BY <1>7, <1>9

LEMMA RecReturns ==
    ASSUME Quietly(m), d \in AllDrivers, d = "accent" => Len(m.buf) < 16, NEW item
    PROVE  Returns(d, RecFunc(item))
  <1> DEFINE r == RecFunc(item)
  <1>1. CASE d = "creative"
    <2>1. Quietly(r)
      BY <1>1, QuietSerial DEF RecFunc
    <2> QED
      BY <1>1, <2>1, QuietReturn
  <1>2. CASE d = "pixelview"
    <2>1. Quietly(r)
      BY <1>2, QuietSerial DEF RecFunc
    <2> QED
      BY <1>2, <2>1, QuietReturn
  <1>3. CASE d = "logitech"
    <2>1. Quietly(r)
      BY <1>3, QuietSerial DEF RecFunc
    <2> QED
      BY <1>3, <2>1, QuietReturn
  <1>4. CASE d = "pcmak"
    <2>1. Quietly(r)
      BY <1>4, QuietSerial DEF RecFunc
    <2> QED
      BY <1>4, <2>1, QuietReturn
  <1>5. CASE d = "mp3anywhere"
    <2>1. Quietly(r)
      BY <1>5, QuietSerial DEF RecFunc
    <2> QED
      BY <1>5, <2>1, QuietReturn
  <1>6. CASE d = "silitek"
    <2>1. Quietly(r)
      BY <1>6, QuietSerial DEF RecFunc
    <2> QED
      BY <1>6, <2>1, QuietReturn
  <1>7. CASE d = "ea65"
    <2>1. Quietly(r)
      BY <1>7, QuietSerial DEF RecFunc
    <2> QED
      BY <1>7, <2>1, QuietReturn
  <1>8. CASE d = "mouseremote"
    <2>1. Quietly(r)
      BY <1>8, QuietSerial DEF RecFunc
    <2> QED
      BY <1>8, <2>1, QuietReturn
  <1>9. CASE d = "mouseremote_ps2"
    <2>1. Quietly(r)
      BY <1>9, QuietSerial DEF RecFunc
    <2> QED
      BY <1>9, <2>1, QuietReturn
  <1>10. CASE d = "uirt2"
    <2>1. Quietly(r)
      BY <1>10, QuietSerial DEF RecFunc
    <2> QED
      BY <1>10, <2>1, QuietReturn
  <1>11. CASE d = "usbx"
    <2>1. Quietly(r)
      BY <1>11, QuietPorts DEF RecFunc
    <2> QED
      BY <1>11, <2>1, QuietReturn
  <1>12. CASE d = "pinsys"
    <2>1. Quietly(r)
      BY <1>12, QuietPorts DEF RecFunc
    <2> QED
      BY <1>12, <2>1, QuietReturn
  <1>13. CASE d = "tira"
    <2>1. Quietly(r)
      BY <1>13, QuietPorts DEF RecFunc
    <2> QED
      BY <1>13, <2>1, QuietReturn
  <1>14. CASE d = "irlink"
    <2>1. Quietly(r)
      BY <1>14, QuietPorts DEF RecFunc
    <2> QED
      BY <1>14, <2>1, QuietReturn
  <1>15. CASE d = "alsa_usb"
    <2>1. Quietly(r)
      BY <1>15, QuietPorts DEF RecFunc
    <2> QED
      BY <1>15, <2>1, QuietReturn
  <1>16. CASE d = "creative_infracd"
    <2>1. Quietly(r)
      BY <1>16, QuietPorts DEF RecFunc
    <2> QED
      BY <1>16, <2>1, QuietReturn
  <1>17. CASE d \in {"mplay", "mplay_nowheel"}
    <2>1. Quietly(r)
      BY <1>17, QuietPorts DEF RecFunc
    <2> QED
      BY <1>17, <2>1, QuietReturn
  <1>18. CASE d = "livedrive_midi"
    <2>1. Quietly(r)
      BY <1>18, QuietPorts DEF RecFunc, livedrive_rec_midi
    <2> QED
      BY <1>18, <2>1, QuietReturn
  <1>19. CASE d = "livedrive_seq"
    <2>1. Quietly(r)
      BY <1>19, QuietPorts DEF RecFunc, livedrive_rec_seq
    <2> QED
      BY <1>19, <2>1, QuietReturn
  <1>20. CASE d \in {"dvico", "bw6130", "asusdh"}
    <2>1. Quietly(r)
      BY <1>20, QuietHid DEF RecFunc
    <2> QED
      BY <1>20, <2>1, QuietReturn
  <1>21. CASE d = "sb0540"
    <2>1. Quietly(r)
      BY <1>21, QuietHid DEF RecFunc
    <2> QED
      BY <1>21, <2>1, QuietReturn
  <1>22. CASE d = "macmini"
    <2>1. Quietly(r)
      BY <1>22, QuietHid DEF RecFunc
    <2> QED
      BY <1>22, <2>1, QuietReturn
  <1>23. CASE d = "samsung"
    <2>1. Quietly(r)
      BY <1>23, QuietHid DEF RecFunc
    <2> QED
      BY <1>23, <2>1, QuietReturn
  <1>24. CASE d = "sonyir"
    <2>1. Quietly(r)
      BY <1>24, QuietHid DEF RecFunc
    <2> QED
      BY <1>24, <2>1, QuietReturn
  <1>25. CASE d = "devinput"
    <2>1. Quietly(r)
      BY <1>25, QuietHid DEF RecFunc
    <2> QED
      BY <1>25, <2>1, QuietReturn
  <1>26. CASE d = "default_mode2"
    <2>1. Quietly(r)
      BY <1>26, QuietHid DEF RecFunc
    <2> QED
      BY <1>26, <2>1, QuietReturn
  <1>27. CASE d \in {"ati", "aw", "dfc", "i2cuser"}
    <2>1. Quietly(r)
      BY <1>27, QuietHid DEF RecFunc
    <2> QED
      BY <1>27, <2>1, QuietReturn
  <1>28. CASE d \in {"zotac", "atwf83"}
    <2>1. d \in Forgetful
      BY <1>28 DEF Forgetful, AllDrivers, Serial, Blocking, Threaded, Default, Hiddev
    <2> QED
      BY <1>28, <2>1, GivesUp DEF RecFunc
  <1>29. CASE d = "default"
    <2>1. d \in Forgetful
      BY <1>29 DEF Forgetful, AllDrivers, Serial, Blocking, Threaded, Default, Hiddev
    <2> QED
      BY <1>29, <2>1, GivesUp DEF RecFunc
  <1>30. CASE d = "accent"
    BY <1>30, AccentReturns DEF RecFunc
  <1> QED
    BY <1>1, <1>2, <1>3, <1>4, <1>5, <1>6, <1>7, <1>8, <1>9, <1>10, <1>11, <1>12, <1>13, <1>14, <1>15, <1>16, <1>17, <1>18, <1>19, <1>20, <1>21, <1>22, <1>23, <1>24, <1>25, <1>26, <1>27, <1>28, <1>29, <1>30
       DEF AllDrivers, Serial, Blocking, Threaded, Default, Hiddev

LEMMA TimeoutReturns ==
    ASSUME Quietly(m), d = "accent" => Len(m.buf) < 16
    PROVE  Returns(d, RecTimeout) /\ RecTimeout.then \notin {"deinit", "reopen"}
  <1>1. \A s : Quietly(s) => s.then \notin {"deinit", "reopen"}
    BY DEF Quietly
  <1>2. CASE d = "accent"
    <2>1. RecTimeout = accent_timeout(m)
      BY <1>2 DEF RecTimeout
    <2>2. accent_timeout(m).then # "deinit" /\ accent_timeout(m).then # "reopen" /\ Returns("accent", accent_timeout(m))
      <3>1. "accent" \notin Forgetful
        BY DEF Forgetful, Serial
      <3> QED
        BY <1>2, <3>1, AccentReturns DEF Returns
    <2> QED
      BY <1>2, <2>1, <2>2
  <1>3. CASE d # "accent"
    <2>1. Quietly(RecTimeout)
      BY <1>3, QuietPorts, QuietDrop DEF RecTimeout
    <2> QED
      BY <1>1, <1>3, <2>1, QuietReturn
  <1> QED
    BY <1>2, <1>3

LEMMA EmptyReturns ==
    ASSUME Quietly(m), d \in AllDrivers
    PROVE  Returns(d, RecEmpty)
  <1> DEFINE Closes == {"usbx", "mplay", "mplay_nowheel", "dvico", "bw6130", "asusdh", "macmini", "sb0540", "samsung",
                        "devinput", "zotac", "atwf83", "ati", "dfc", "default", "default_mode2", "irlink"}
  <1>1. Closes \subseteq Forgetful
    BY DEF Forgetful, AllDrivers, Serial, Blocking, Threaded, Default, Hiddev
  <1>2. \/ RecEmpty = Drop(m)
        \/ d = "silitek" /\ RecEmpty = silitek_empty(m)
        \/ d \in Closes /\ RecEmpty \in {usbx_empty(m), mplayfamily_empty(m), hiddev_empty(m)}
    BY DEF RecEmpty
  <1> HIDE DEF Closes
  <1>3. CASE RecEmpty = Drop(m)
    <2>1. Quietly(Drop(m)) /\ Len(Drop(m).buf) < 16
      <3>1. Drop(m).buf = <<>>
        BY DEF Drop, Quietly, Fields
      <3>2. Len(<<>>) < 16
        OBVIOUS
      <3> QED
        BY <3>1, <3>2, QuietDrop, Zenon
    <2> QED
      BY <1>3, <2>1 DEF Quietly, Returns
  <1>4. CASE d = "silitek" /\ RecEmpty = silitek_empty(m)
    BY <1>4, QuietSerial, QuietReturn
  <1>5. CASE d \in Closes /\ RecEmpty \in {usbx_empty(m), mplayfamily_empty(m), hiddev_empty(m)}
    BY <1>1, <1>5, GivesUp
  <1> QED
    BY <1>2, <1>3, <1>4, <1>5

-----------------------------------------------------------------------------
(* What clients, other programs and the cable do to the port.              *)
Carried(e, y, z) ==
  /\ Held(z) = Held(y)
  /\ z.fd = y.fd /\ z.dev = y.dev /\ z.r = y.r /\ z.w = y.w /\ z.tid = y.tid /\ z.live = y.live
  /\ Unlocked(y) => Unlocked(z)
  /\ e \in Serial /\ z.lock.name = "other" => y.lock.name = "other"

LEMMA RestCarried ==
    ASSUME NEW e, NEW y, NEW z, Carried(e, y, z)
    PROVE  /\ AtRest(e, y) => AtRest(e, z)
           /\ Vacant(e, y) => Vacant(e, z)
  <1>0. "pinsys" \in Serial
    BY DEF Serial
  <1>1. AtRest(e, y) => AtRest(e, z)
    BY <1>0 DEF Carried, AtRest
  <1> QED
    BY <1>1 DEF Vacant, Carried

LEMMA UseCarried ==
    ASSUME NEW e, NEW y, NEW z, Carried(e, y, z), InUse(e, y),
           z.open[y.fd] = y.open[y.fd] \/ z.open[y.fd] = "dead"
    PROVE  InUse(e, z)
  BY DEF Carried, InUse

LEMMA SessionCarried ==
    ASSUME NEW e, NEW y, NEW z, Carried(e, y, z),
           \A f \in Held(y) : z.open[f] = y.open[f] \/ z.open[f] = "dead"
    PROVE  Begun(e, y) => Begun(e, z)
  <1>1. ASSUME InUse(e, y) PROVE InUse(e, z)
    <2>1. y.fd \in Held(y)
      BY <1>1 DEF InUse
    <2> QED
      BY <1>1, <2>1, UseCarried
  <1> QED
    BY <1>1, RestCarried DEF Begun

(* add_client() *)
LEMMA ClientCarried ==
    ASSUME NEW e, NEW y \in Ports, Size(y) >= 4
    PROVE  LET z == Open(y, "client") IN
           /\ z \in Ports /\ Carried(e, y, z) /\ Size(z) >= 3
           /\ \A f \in Held(y) : z.open[f] = y.open[f]
           /\ \A f \in Fds : z.open[f] = "dead" => y.open[f] = "dead"
           /\ Cardinality(ClientFds(z)) = Cardinality(ClientFds(y)) + 1
           /\ Cardinality(ClientFds(y)) \in Nat
  <1> DEFINE z == Open(y, "client")
  <1>0. Size(y) \in Nat /\ Size(y) >= 1 /\ "client" \in Uses \ {""}
    BY SizeIsNat DEF Uses
  <1>1. Free(y) # {} /\ Size(z) = Size(y) - 1
    BY <1>0, RoomToOpen
  <1>2. /\ z \in Ports
        /\ Lowest(y) \in Fds /\ Lowest(y) \notin ClientFds(y)
        /\ Held(z) = Held(y)
        /\ ClientFds(z) = ClientFds(y) \cup {Lowest(y)}
        /\ \A f \in Held(y) : z.open[f] = y.open[f]
    BY <1>1, OpenClient
  <1>3. /\ z.fd = y.fd /\ z.dev = y.dev /\ z.r = y.r /\ z.w = y.w
        /\ z.tid = y.tid /\ z.live = y.live /\ z.lock = y.lock
    BY OpenKeeps
  <1> HIDE DEF z
  <1>4. Carried(e, y, z)
    BY <1>2, <1>3 DEF Carried, Unlocked
  <1>5. \A f \in Fds : z.open[f] = "dead" => y.open[f] = "dead"
    <2> TAKE f \in Fds
    <2> HAVE z.open[f] = "dead"
    <2>1. f \in Held(z)
      BY DEF Held
    <2> QED
      BY <1>2, <2>1
  <1>6. IsFiniteSet(ClientFds(y))
    BY FdsAssumption, FS_Subset DEF ClientFds
  <1>7. Cardinality(ClientFds(z)) = Cardinality(ClientFds(y)) + 1 /\ Cardinality(ClientFds(y)) \in Nat
    BY <1>2, <1>6, FS_AddElement, FS_CardinalityType
  <1>8. Size(z) >= 3
    BY <1>0, <1>1
  <1> QED
    BY <1>2, <1>4, <1>5, <1>7, <1>8 DEF z

(* remove_client() *)
LEMMA ClientGone ==
    ASSUME NEW e, NEW y \in Ports, NEW f \in ClientFds(y)
    PROVE  LET z == Close(y, f) IN
           /\ z \in Ports /\ Carried(e, y, z)
           /\ \A g \in Held(y) : z.open[g] = y.open[g]
           /\ \A g \in Fds : z.open[g] = "dead" => y.open[g] = "dead"
           /\ Cardinality(ClientFds(z)) = Cardinality(ClientFds(y)) - 1
           /\ Cardinality(ClientFds(y)) \in Nat
           /\ Cardinality(ClientFds(y)) = 1 => ClientFds(z) = {}
  <1> DEFINE z == Close(y, f)
  <1>0. f \in Fds /\ f \in Int /\ f \notin Held(y)
    BY NotNone DEF ClientFds, Held
  <1>1. /\ z \in Ports
        /\ Held(z) = Held(y) \ {f}
        /\ ClientFds(z) = ClientFds(y) \ {f}
        /\ \A g \in Fds : g # f => z.open[g] = y.open[g]
        /\ z.fd = y.fd /\ z.dev = y.dev /\ z.r = y.r /\ z.w = y.w
        /\ z.tid = y.tid /\ z.live = y.live /\ z.lock = y.lock
    BY <1>0, CloseHeld
  <1> HIDE DEF z
  <1>2. Held(z) = Held(y)
    BY <1>0, <1>1
  <1>3. Carried(e, y, z)
    BY <1>1, <1>2 DEF Carried, Unlocked
  <1>4. \A g \in Held(y) : z.open[g] = y.open[g]
    BY <1>0, <1>1 DEF Held
  <1>5. \A g \in Fds : z.open[g] = "dead" => y.open[g] = "dead"
    <2> TAKE g \in Fds
    <2> HAVE z.open[g] = "dead"
    <2>1. g \in Held(z)
      BY DEF Held
    <2> QED
      BY <1>2, <1>4, <2>1
  <1>6. IsFiniteSet(ClientFds(y))
    BY FdsAssumption, FS_Subset DEF ClientFds
  <1>7. Cardinality(ClientFds(z)) = Cardinality(ClientFds(y)) - 1 /\ Cardinality(ClientFds(y)) \in Nat
    BY <1>1, <1>6, FS_RemoveElement, FS_CardinalityType
  <1>8. Cardinality(ClientFds(y)) = 1 => ClientFds(z) = {}
    <2>1. IsFiniteSet(ClientFds(z))
      BY <1>1, <1>6, FS_Subset
    <2> QED
      BY <1>7, <2>1, FS_EmptySet
  <1> QED
    BY <1>1, <1>3, <1>4, <1>5, <1>7, <1>8 DEF z

(* The lock file of another program, and the state of the protocol lirc.   *)
LEMMA LockCarried ==
    ASSUME NEW e, NEW y \in Ports, y.lock.name # "own", NEW file \in {"", "dead", "other"},
           e \in Serial => file # "other"
    PROVE  LET z == [y EXCEPT !.lock.name = file] IN
           z \in Ports /\ Carried(e, y, z) /\ z.open = y.open
  <1> DEFINE l == [y.lock EXCEPT !.name = file]
             z == [y EXCEPT !.lock = l]
  <1>1. l \in [name : Marks, target : Marks] /\ l.name = file /\ l.target = y.lock.target
    BY DEF Ports, Marks
  <1>0. [y EXCEPT !.lock.name = file] = z
    BY DEF Ports
  <1> HIDE DEF l
  <1>2. /\ z \in Ports /\ z.open = y.open /\ z.lock = l
        /\ z.fd = y.fd /\ z.dev = y.dev /\ z.r = y.r /\ z.w = y.w /\ z.tid = y.tid /\ z.live = y.live
    BY <1>1 DEF Ports
  <1> HIDE DEF z
  <1>3. Held(z) = Held(y)
    BY <1>2, SameOpen
  <1>4. Carried(e, y, z)
    BY <1>1, <1>2, <1>3 DEF Carried, Unlocked
  <1> QED
    BY <1>0, <1>2, <1>4

LEMMA RcCarried ==
    ASSUME NEW e, NEW y \in Ports, NEW rc \in {"none", "off", "on", "gone"}
    PROVE  LET z == [y EXCEPT !.rc = rc] IN
           z \in Ports /\ Carried(e, y, z) /\ z.open = y.open /\ ClientFds(z) = ClientFds(y)
  <1> DEFINE z == [y EXCEPT !.rc = rc]
  <1>2. /\ z \in Ports /\ z.open = y.open /\ z.lock = y.lock
        /\ z.fd = y.fd /\ z.dev = y.dev /\ z.r = y.r /\ z.w = y.w /\ z.tid = y.tid /\ z.live = y.live
    BY DEF Ports
  <1> HIDE DEF z
  <1>3. Held(z) = Held(y) /\ ClientFds(z) = ClientFds(y)
    BY <1>2, SameOpen
  <1>4. Carried(e, y, z)
    BY <1>2, <1>3 DEF Carried, Unlocked
  <1> QED
    BY <1>2, <1>3, <1>4 DEF z

(* The device is gone: what was open on it is dead. *)
LEMMA DeadCarried ==
    ASSUME NEW e, NEW y \in Ports
    PROVE  LET z == [y EXCEPT !.open = [f \in Fds |-> IF @[f] = "dev" THEN "dead" ELSE @[f]]] IN
           /\ z \in Ports /\ Carried(e, y, z) /\ ClientFds(z) = ClientFds(y) /\ z.rc = y.rc
           /\ \A f \in Held(y) : z.open[f] = y.open[f] \/ z.open[f] = "dead"
  <1> DEFINE o == [f \in Fds |-> IF y.open[f] = "dev" THEN "dead" ELSE y.open[f]]
             z == [y EXCEPT !.open = o]
  <1>1. o \in [Fds -> Uses]
    BY DEF Ports, Uses
  <1>2. \A f \in Fds : o[f] = IF y.open[f] = "dev" THEN "dead" ELSE y.open[f]
    OBVIOUS
  <1> HIDE DEF o
  <1>3. /\ z \in Ports /\ z.open = o /\ z.lock = y.lock /\ z.rc = y.rc
        /\ z.fd = y.fd /\ z.dev = y.dev /\ z.r = y.r /\ z.w = y.w /\ z.tid = y.tid /\ z.live = y.live
    BY <1>1 DEF Ports
  <1> HIDE DEF z
  <1>4. Held(z) = Held(y) /\ ClientFds(z) = ClientFds(y)
    BY <1>2, <1>3 DEF Held, ClientFds
  <1>5. Carried(e, y, z)
    BY <1>3, <1>4 DEF Carried, Unlocked
  <1>6. \A f \in Held(y) : z.open[f] = y.open[f] \/ z.open[f] = "dead"
    BY <1>2, <1>3 DEF Held
  <1> QED
    BY <1>3, <1>4, <1>5, <1>6 DEF z, o

-----------------------------------------------------------------------------
(* What the scenes allow, and how they go on.                              *)
LEMMA SceneAllows ==
    ASSUME CleanScenes, SceneInv
    PROVE  /\ d \in AllDrivers
           /\ d \in Serial => left.others = 0
           /\ \A fail \in scene.fails \cup {""} : fail \notin Unclean(d)
           /\ ~plugged \/ left.unplugs > 0 => scene.missing \notin Unclean(d) /\ d # "i2cuser"
           /\ left.others \in Nat /\ left.unplugs \in Nat /\ scene.unplugs \in Nat
  <1>1. scene \in Scenes /\ {scene.others, scene.unplugs} \subseteq Nat /\ d \in AllDrivers
    BY ScenesAssumption DEF SceneInv, d
  <1>2. /\ scene.fails \cap Unclean(d) = {}
        /\ scene.unplugs > 0 => scene.missing \notin Unclean(d) /\ d # "i2cuser"
        /\ d \in Serial => scene.others = 0
    BY <1>1 DEF CleanScenes, d
  <1>3. "" \notin Unclean(d)
    BY DEF Unclean, Serial
  <1>4. left.others \in Nat /\ left.unplugs \in Nat /\ left.others <= scene.others /\ left.unplugs <= scene.unplugs
        /\ (plugged \/ scene.unplugs > 0)
    BY DEF SceneInv
  <1>5. ASSUME NEW fail \in scene.fails \cup {""} PROVE fail \notin Unclean(d)
    BY <1>2, <1>3
  <1>6. d \in Serial => left.others = 0
    <2> HAVE d \in Serial
    <2>1. scene.others = 0
      BY <1>2
    <2> QED
      BY <1>4, <2>1
  <1>7. ~plugged \/ left.unplugs > 0 => scene.unplugs > 0
    BY <1>1, <1>4
  <1>8. ~plugged \/ left.unplugs > 0 => scene.missing \notin Unclean(d) /\ d # "i2cuser"
    BY ONLY <1>2, <1>7
  <1>9. scene.unplugs \in Nat
    BY <1>1
  <1> QED
    BY ONLY <1>1, <1>4, <1>5, <1>6, <1>8, <1>9, Zenon

SceneStep ==
  /\ scene' = scene
  /\ DOMAIN left' = DOMAIN left
  /\ left'.others = left.others \/ (left.others > 0 /\ left'.others = left.others - 1)
  /\ left'.unplugs = left.unplugs \/ (left.unplugs > 0 /\ left'.unplugs = left.unplugs - 1)
  /\ plugged' \/ plugged' = plugged \/ left.unplugs > 0

LEMMA SceneGoesOn ==
    ASSUME SceneInv, SceneStep
    PROVE  SceneInv' /\ d' = d
  <1>1. scene \in Scenes /\ scene.others \in Nat /\ scene.unplugs \in Nat
    BY ScenesAssumption DEF SceneInv
  <1>2. left.others \in Nat /\ left.unplugs \in Nat /\ left.others <= scene.others /\ left.unplugs <= scene.unplugs
        /\ (plugged \/ scene.unplugs > 0) /\ DOMAIN left = {"faults", "others", "clients", "unplugs"}
    BY DEF SceneInv
  <1>3. d' = d
    BY DEF SceneStep, d
  <1>4. left'.others \in Nat /\ left'.others <= scene.others
    BY <1>1, <1>2 DEF SceneStep
  <1>5. left'.unplugs \in Nat /\ left'.unplugs <= scene.unplugs
    BY <1>1, <1>2 DEF SceneStep
  <1>6. plugged' \/ scene.unplugs > 0
    BY <1>1, <1>2 DEF SceneStep
  <1> QED
    BY <1>1, <1>2, <1>3, <1>4, <1>5, <1>6 DEF SceneInv, SceneStep

LEMMA SceneNext ==
    ASSUME SceneInv, [Next]_vars
    PROVE  SceneInv' /\ d' = d
  <1>0. DOMAIN left = {"faults", "others", "clients", "unplugs"}
    BY DEF SceneInv
  <1>1. \A y, n : Initialises(y, n) /\ scene' = scene /\ plugged' = plugged => SceneStep
    <2> TAKE y, n
    <2> HAVE Initialises(y, n) /\ scene' = scene /\ plugged' = plugged
    <2>1. PICK fail : left' = [left EXCEPT !.faults = IF plugged /\ fail # "" THEN @ - 1 ELSE @, !.clients = @ - n]
      BY DEF Initialises
    <2>2. DOMAIN left' = DOMAIN left /\ left'.others = left.others /\ left'.unplugs = left.unplugs
      BY <1>0, <2>1
    <2> QED
      BY <2>2 DEF SceneStep
  <1>2. UNCHANGED <<scene, left, plugged>> => SceneStep
    BY DEF SceneStep
  <1>3. CASE Sends
    BY <1>2, <1>3, SceneGoesOn DEF Sends
  <1>4. CASE Unplugs
    BY <1>0, <1>4, SceneGoesOn DEF Unplugs, SceneStep
  <1>5. CASE Plugs
    BY <1>5, SceneGoesOn DEF Plugs, SceneStep
  <1>6. CASE OtherLocks
    BY <1>0, <1>6, SceneGoesOn DEF OtherLocks, SceneStep
  <1>7. CASE OtherEnds
    BY <1>2, <1>7, SceneGoesOn DEF OtherEnds
  <1>8. CASE Connects
    <2>1. SceneStep
      <3>1. CASE use_hw
        BY <1>0, <1>8, <3>1 DEF Connects, SceneStep
      <3>2. CASE ~use_hw
        BY <1>1, <1>8, <3>2 DEF Connects
      <3> QED
        BY <3>1, <3>2
    <2> QED
      BY <2>1, SceneGoesOn
  <1>9. CASE Leaves
    BY <1>2, <1>9, SceneGoesOn DEF Leaves
  <1>10. CASE Reconnects
    BY <1>1, <1>10, SceneGoesOn DEF Reconnects
  <1>11. CASE Polls
    BY <1>2, <1>11, SceneGoesOn DEF Polls
  <1>12. CASE Reads
    <2>1. UNCHANGED <<scene, left, plugged>>
      BY <1>12 DEF Reads, After
    <2> QED
      BY <1>2, <2>1, SceneGoesOn
  <1>13. CASE TimesOut
    BY <1>2, <1>13, SceneGoesOn DEF TimesOut, After
  <1>14. CASE ChildReads
    <2>1. UNCHANGED <<scene, left, plugged>>
      BY <1>14 DEF ChildReads, Steps
    <2> QED
      BY <1>2, <2>1, SceneGoesOn
  <1>15. CASE ChildRepeats
    BY <1>2, <1>15, SceneGoesOn DEF ChildRepeats, Steps
  <1>16. CASE UNCHANGED vars
    BY <1>2, <1>16, SceneGoesOn DEF vars
  <1> QED
    BY <1>3, <1>4, <1>5, <1>6, <1>7, <1>8, <1>9, <1>10, <1>11, <1>12, <1>13, <1>14, <1>15, <1>16 DEF Next, Lircd, Quiet

-----------------------------------------------------------------------------
(* The port at each step.                                                  *)
LEMMA PortCarried ==
    ASSUME NEW e, NEW y, NEW n, PortFor(e, y, n), NEW z \in Ports, Carried(e, y, z), ClientFds(z) = ClientFds(y),
           \A f \in Held(y) : z.open[f] = y.open[f] \/ (e # "i2cuser" /\ z.open[f] = "dead")
    PROVE  PortFor(e, z, n)
  <1>1. AtRest(e, y) => AtRest(e, z)
    BY RestCarried
  <1>2. Begun(e, y) => Begun(e, z)
    BY SessionCarried
  <1>3. ASSUME e = "i2cuser", NEW f \in Fds, z.open[f] = "dead", NoneDead(y) PROVE FALSE
    <2>1. f \in Held(z)
      BY <1>3 DEF Held
    <2>2. f \in Held(y)
      BY <2>1 DEF Carried
    <2> QED
      BY <1>3, <2>2 DEF NoneDead
  <1> QED
    BY <1>1, <1>2, <1>3 DEF PortFor, NoneDead

LEMMA Initialised ==
    ASSUME CleanScenes, SceneInv, NEW y \in Ports, Size(y) >= 3, AtRest(d, y), NEW n, Initialises(y, n),
           Cardinality(ClientFds(y)) \in Nat \ {0}, d = "i2cuser" => NoneDead(y)
    PROVE  PortFor(d, x', Cardinality(ClientFds(y)))
  <1>1. PICK fail : /\ fail \in (IF ~plugged THEN {scene.missing} ELSE {""} \cup (IF left.faults > 0 THEN scene.fails ELSE {}))
                    /\ x' = InitFunc(y, fail).x
    BY DEF Initialises
  <1>2. fail \notin Unclean(d) /\ d \in AllDrivers
    BY <1>1, SceneAllows
  <1>3. /\ Session(d, y, x')
        /\ d = "i2cuser" => \A f \in Fds : x'.open[f] = "dead" => y.open[f] = "dead"
    BY <1>1, <1>2, InitSession
  <1> QED
    BY <1>3 DEF Session, PortFor, Begun, NoneDead

LEMMA RoomIsSize ==
    ASSUME NEW y, Room(y)
    PROVE  Size(y) >= 4 /\ Size(y) >= 3
  BY SizeIsNat DEF Room, Size

LEMMA PortConnects ==
    ASSUME CleanScenes, SceneInv, PortInv, Connects
    PROVE  PortFor(d, x', clients')
  <1> DEFINE y == Open(x, "client")
  <1>0. x \in Ports /\ clients \in Nat /\ Cardinality(ClientFds(x)) = clients /\ clients' = clients + 1
    BY DEF PortInv, PortFor, Connects
  <1>1. Size(x) >= 4
    BY RoomIsSize DEF Connects
  <1>2. /\ y \in Ports /\ Carried(d, x, y) /\ Size(y) >= 3
        /\ \A f \in Held(x) : y.open[f] = x.open[f]
        /\ \A f \in Fds : y.open[f] = "dead" => x.open[f] = "dead"
        /\ Cardinality(ClientFds(y)) = clients + 1
    BY <1>0, <1>1, ClientCarried
  <1>3. /\ use_hw => x' = y
        /\ ~use_hw => Initialises(y, 1)
    BY DEF Connects
  <1> HIDE DEF y
  <1>4. d = "i2cuser" => NoneDead(y)
    BY <1>2 DEF PortInv, PortFor, NoneDead
  <1>5. CASE use_hw
    <2>1. Begun(d, x)
      BY <1>0, <1>5 DEF PortInv, PortFor, use_hw
    <2>2. Begun(d, y)
      BY <1>2, <2>1, SessionCarried
    <2> QED
      BY <1>0, <1>2, <1>3, <1>4, <1>5, <2>2 DEF PortFor
  <1>6. CASE ~use_hw
    <2>1. AtRest(d, x) /\ clients = 0
      BY <1>0, <1>6 DEF PortInv, PortFor, use_hw
    <2>2. AtRest(d, y)
      BY <1>2, <2>1, RestCarried
    <2>3. Cardinality(ClientFds(y)) = clients' /\ Cardinality(ClientFds(y)) \in Nat \ {0}
      BY <1>0, <1>2, <2>1
    <2> QED
      BY <1>2, <1>3, <1>4, <1>6, <2>2, <2>3, Initialised
  <1> QED
    BY <1>5, <1>6

LEMMA PortReconnects ==
    ASSUME CleanScenes, SceneInv, PortInv, Reconnects
    PROVE  PortFor(d, x', clients')
  <1>1. /\ x \in Ports /\ clients \in Nat \ {0} /\ Cardinality(ClientFds(x)) = clients
        /\ Begun(d, x) /\ x.fd = None /\ (d = "i2cuser" => NoneDead(x)) /\ Size(x) >= 3 /\ clients' = clients
        /\ Initialises(x, 0)
    BY RoomIsSize DEF PortInv, PortFor, Reconnects, use_hw
  <1>2. AtRest(d, x)
    BY <1>1, Disjoint DEF Begun, InUse, Vacant
  <1> QED
    BY <1>1, <1>2, Initialised

LEMMA PortLeaves ==
    ASSUME CleanScenes, SceneInv, PortInv, Leaves
    PROVE  PortFor(d, x', clients')
  <1> DEFINE f == CHOOSE g \in Fds : x.open[g] = "client"
             y == Close(x, f)
  <1>0. /\ x \in Ports /\ clients \in Nat \ {0} /\ Cardinality(ClientFds(x)) = clients
        /\ Begun(d, x) /\ (d = "i2cuser" => NoneDead(x)) /\ clients' = clients - 1
        /\ (clients > 1 => x' = y) /\ (~(clients > 1) => x' = DeinitFunc(y))
    BY DEF PortInv, PortFor, Leaves
  <1>1. f \in ClientFds(x)
    <2>1. ClientFds(x) # {}
      BY <1>0, FS_EmptySet
    <2>2. \E g \in Fds : x.open[g] = "client"
      BY <2>1 DEF ClientFds
    <2> QED
      BY <2>2 DEF ClientFds
  <1> HIDE DEF f
  <1>2. /\ y \in Ports /\ Carried(d, x, y)
        /\ \A g \in Held(x) : y.open[g] = x.open[g]
        /\ \A g \in Fds : y.open[g] = "dead" => x.open[g] = "dead"
        /\ Cardinality(ClientFds(y)) = clients - 1
        /\ clients = 1 => ClientFds(y) = {}
    BY <1>0, <1>1, ClientGone
  <1> HIDE DEF y
  <1>3. Begun(d, y)
    BY <1>0, <1>2, SessionCarried
  <1>4. d = "i2cuser" => NoneDead(y)
    BY <1>0, <1>2 DEF NoneDead
  <1>5. CASE clients > 1
    <2>1. clients' \in Nat /\ clients' # 0 /\ x' = y
      BY <1>0, <1>5
    <2> QED
      BY <1>0, <1>2, <1>3, <1>4, <2>1 DEF PortFor
  <1>6. CASE ~(clients > 1)
    <2>1. clients = 1 /\ clients' = 0
      BY <1>0, <1>6
    <2>2. Closable(d, y)
      BY <1>2, <1>3, <2>1 DEF Closable, Begun
    <2>3. Ended(d, y, x')
      BY <1>0, <1>2, <1>6, <2>2, SceneAllows, DeinitEnds
    <2>4. d = "i2cuser" => Held(x') = {}
      BY <2>3 DEF Ended, AtRest, Leaking
    <2>5. d = "i2cuser" => NoneDead(x')
      BY <2>4 DEF NoneDead, Held
    <2> QED
      BY <1>2, <2>1, <2>3, <2>5 DEF Ended, PortFor
  <1> QED
    BY <1>5, <1>6

LEMMA PortUnplugs ==
    ASSUME CleanScenes, SceneInv, PortInv, Unplugs
    PROVE  PortFor(d, x', clients')
  <1> DEFINE z == [x EXCEPT !.open = [f \in Fds |-> IF @[f] = "dev" THEN "dead" ELSE @[f]]]
             rc == IF x.rc = "none" THEN x.rc ELSE "gone"
             u == [z EXCEPT !.rc = rc]
  <1>1. x \in Ports /\ PortFor(d, x, clients) /\ d # "i2cuser" /\ clients' = clients
    BY SceneAllows DEF PortInv, PortFor, Unplugs
  <1>2. /\ z \in Ports /\ Carried(d, x, z) /\ ClientFds(z) = ClientFds(x) /\ z.rc = x.rc
        /\ \A f \in Held(x) : z.open[f] = x.open[f] \/ z.open[f] = "dead"
    BY <1>1, DeadCarried
  <1>3. x' = u
    BY DEF Unplugs
  <1> HIDE DEF z
  <1>4. PortFor(d, z, clients)
    BY <1>1, <1>2, PortCarried
  <1>5. rc \in {"none", "off", "on", "gone"}
    BY <1>1 DEF Ports
  <1> HIDE DEF rc
  <1>6. u \in Ports /\ Carried(d, z, u) /\ u.open = z.open /\ ClientFds(u) = ClientFds(z)
    BY <1>2, <1>5, RcCarried
  <1> QED
    BY <1>1, <1>3, <1>4, <1>6, PortCarried

LEMMA PortPlugs ==
    ASSUME PortInv, Plugs
    PROVE  PortFor(d, x', clients')
  <1> DEFINE rc == IF x.rc = "none" THEN x.rc ELSE "off"
             u == [x EXCEPT !.rc = rc]
  <1>1. x \in Ports /\ PortFor(d, x, clients) /\ clients' = clients /\ x' = u
    BY DEF PortInv, PortFor, Plugs
  <1>2. rc \in {"none", "off", "on", "gone"}
    BY <1>1 DEF Ports
  <1> HIDE DEF rc
  <1>3. u \in Ports /\ Carried(d, x, u) /\ u.open = x.open /\ ClientFds(u) = ClientFds(x)
    BY <1>1, <1>2, RcCarried
  <1> QED
    BY <1>1, <1>3, PortCarried

LEMMA PortOthers ==
    ASSUME CleanScenes, SceneInv, PortInv, OtherLocks \/ OtherEnds
    PROVE  PortFor(d, x', clients')
  <1>1. x \in Ports /\ PortFor(d, x, clients) /\ clients' = clients
    BY DEF PortInv, PortFor, OtherLocks, OtherEnds
  <1>2. PICK file \in {"", "dead", "other"} :
          /\ x' = [x EXCEPT !.lock.name = file] /\ x.lock.name # "own"
          /\ d \in Serial => file # "other"
    <2>1. CASE OtherLocks
      <3>1. d \notin Serial
        <4>1. left.others > 0
          BY <2>1 DEF OtherLocks
        <4>2. d \in Serial => left.others = 0
          BY SceneAllows, Zenon
        <4>3. d \in Serial => FALSE
          BY ONLY <4>1, <4>2
        <4> QED
          BY <4>3
      <3> QED
        BY <2>1, <3>1 DEF OtherLocks
    <2>2. CASE OtherEnds
      BY <2>2 DEF OtherEnds
    <2> QED
      BY <2>1, <2>2
  <1> DEFINE z == [x EXCEPT !.lock.name = file]
  <1>3. z \in Ports /\ Carried(d, x, z) /\ z.open = x.open
    BY <1>1, <1>2, LockCarried
  <1>4. x' = z
    BY <1>2
  <1> HIDE DEF z
  <1>5. ClientFds(z) = ClientFds(x)
    BY <1>3, SameOpen
  <1> QED
    BY <1>1, <1>3, <1>4, <1>5, PortCarried

(* accent_rec() closes the device and opens it again.                      *)
LEMMA ReopensInUse ==
    ASSUME NEW y \in Ports, InUse("accent", y)
    PROVE  LET z == accent_reopen(y) IN z \in Ports /\ InUse("accent", z) /\ ClientFds(z) = ClientFds(y)
  <1> DEFINE k == Close(y, y.fd)
             z == OpenFd(k)
  <1>0. "accent" \in Serial /\ accent_reopen(y) = z
    BY DEF Serial, accent_reopen
  <1>1. OwnDevice(y) /\ Held(y) = {y.fd} /\ y.live = 0 /\ y.lock.name # "other"
    BY <1>0, RestSerial
  <1>2. y.fd \in Fds
    BY <1>1 DEF Held
  <1>3. k.open[y.fd] = ""
    BY <1>2 DEF Close, Ports
  <1>4. /\ k \in Ports
        /\ Held(k) = Held(y) \ {y.fd} /\ ClientFds(k) = ClientFds(y) \ {y.fd}
        /\ k.live = y.live /\ k.lock = y.lock
    <2>1. y.fd \in Int
      BY PortNumbers
    <2> QED
      BY <2>1, CloseHeld
  <1> HIDE DEF k
  <1>5. Size(k) >= 1
    <2>1. y.fd \in Free(k)
      BY <1>2, <1>3 DEF Free
    <2>2. IsFiniteSet(Free(k)) /\ Size(k) \in Nat
      BY SizeIsNat
    <2>3. Size(k) # 0
      BY <2>1, <2>2, FS_EmptySet DEF Size
    <2> QED
      BY <2>2, <2>3
  <1>6. /\ z \in Ports
        /\ z.fd \in Fds /\ z.open[z.fd] = "dev"
        /\ Held(z) = Held(k) \cup {z.fd} /\ ClientFds(z) = ClientFds(k)
        /\ z.live = k.live /\ z.lock = k.lock
    BY <1>4, <1>5, OpenFdOpens
  <1> HIDE DEF z
  <1>7. Held(z) = {z.fd} /\ OwnDevice(z)
    BY <1>1, <1>4, <1>6 DEF OwnDevice
  <1>8. InUse("accent", z)
    BY <1>0, <1>1, <1>4, <1>6, <1>7, RestSerial
  <1>9. ClientFds(z) = ClientFds(y)
    BY <1>1, <1>4, <1>6, Disjoint
  <1> QED
    BY <1>0, <1>6, <1>8, <1>9

(* What rec_func() does on top of reading. *)
LEMMA PortAfter ==
    ASSUME SceneInv, d \in AllDrivers, PortInv, NEW s, Returns(d, s), NEW rest, After(s, rest), UNCHANGED clients,
           s.then \notin {"deinit", "reopen"} \/ Polled
    PROVE  PortFor(d, x', clients')
  <1>1. x' = (CASE s.then = "deinit" -> DeinitFunc(x) [] s.then = "reopen" -> accent_reopen(x) [] OTHER -> x)
    BY DEF After
  <1>2. CASE s.then \notin {"deinit", "reopen"}
    BY <1>1, <1>2 DEF PortInv
  <1>3. CASE Polled
    <2>1. /\ x \in Ports /\ clients \in Nat \ {0} /\ Cardinality(ClientFds(x)) = clients /\ InUse(d, x)
          /\ d = "i2cuser" => NoneDead(x)
      BY <1>3 DEF PortInv, PortFor, Polled, use_hw, Begun, Vacant
    <2>2. CASE s.then = "deinit"
      <3>1. d \in Forgetful /\ d # "i2cuser"
        BY <2>2 DEF Returns, Forgetful
      <3>2. Ended(d, x, DeinitFunc(x)) /\ Vacant(d, DeinitFunc(x))
        BY <2>1, <3>1, DeinitEnds DEF Closable
      <3>3. x' = DeinitFunc(x)
        BY <1>1, <2>2
      <3> QED
        BY <2>1, <3>1, <3>2, <3>3 DEF Ended, PortFor, Begun
    <2>3. CASE s.then = "reopen"
      <3>1. d = "accent"
        BY <2>3 DEF Returns
      <3>2. x' = accent_reopen(x)
        BY <1>1, <2>3
      <3>3. x' \in Ports /\ InUse(d, x') /\ ClientFds(x') = ClientFds(x)
        BY <2>1, <3>1, <3>2, ReopensInUse
      <3> QED
        BY <2>1, <3>1, <3>3 DEF PortFor, Begun
    <2> QED
      BY <1>2, <2>2, <2>3
  <1> QED
    BY <1>2, <1>3

LEMMA QuietDriver ==
    ASSUME DriverInv
    PROVE  Quietly(m) /\ (d = "accent" => Len(m.buf) < 16)
  BY DEF DriverInv, Quietly

LEMMA PortReads ==
    ASSUME CleanScenes, SceneInv, DriverInv, PortInv, Reads
    PROVE  PortFor(d, x', clients')
  <1>0. d \in AllDrivers /\ Quietly(m) /\ (d = "accent" => Len(m.buf) < 16)
    BY SceneAllows, QuietDriver, Zenon
  <1>1. CASE x' = x /\ clients' = clients
    BY <1>1 DEF PortInv
  <1>2. CASE Polled /\ After(RecFunc(Head(Queue)), Tail(Queue))
    <2>1. Returns(d, RecFunc(Head(Queue))) /\ UNCHANGED clients
      BY <1>0, <1>2, RecReturns DEF After
    <2> QED
      BY <1>0, <1>2, <2>1, PortAfter
  <1>3. CASE Polled /\ After(RecEmpty, <<>>)
    <2>1. Returns(d, RecEmpty) /\ UNCHANGED clients
      BY <1>0, <1>3, EmptyReturns DEF After
    <2> QED
      BY <1>0, <1>3, <2>1, PortAfter
  <1> QED
    BY <1>1, <1>2, <1>3, Zenon DEF Reads

LEMMA PortTimesOut ==
    ASSUME CleanScenes, SceneInv, DriverInv, PortInv, TimesOut
    PROVE  PortFor(d, x', clients')
  <1>0. d \in AllDrivers /\ Quietly(m) /\ (d = "accent" => Len(m.buf) < 16)
    BY SceneAllows, QuietDriver, Zenon
  <1>1. After(RecTimeout, Queue) /\ UNCHANGED clients
    BY DEF TimesOut, After
  <1>2. Returns(d, RecTimeout) /\ RecTimeout.then \notin {"deinit", "reopen"}
    BY <1>0, TimeoutReturns
  <1> QED
    BY <1>0, <1>1, <1>2, PortAfter

(* The thread or the child: for a child that ends there is one less.       *)
LEMMA PortSteps ==
    ASSUME PortInv, NEW s, NEW rest, Steps(s, rest), d \in {"zotac", "atwf83"} \cup Usb \/ ~s.over
    PROVE  PortFor(d, x', clients')
  <1>1. clients' = clients /\ x' = IF s.over /\ d \notin {"zotac", "atwf83"} THEN [x EXCEPT !.live = @ - 1] ELSE x
    BY DEF Steps
  <1>2. CASE x' = x
    BY <1>1, <1>2 DEF PortInv
  <1>3. CASE d \in Usb /\ x' = [x EXCEPT !.live = @ - 1]
    <2> DEFINE z == [x EXCEPT !.live = @ - 1]
    <2>1. x \in Ports /\ clients \in Nat /\ Cardinality(ClientFds(x)) = clients
      BY DEF PortInv, PortFor
    <2>2. z \in Ports /\ z.open = x.open /\ z.fd = x.fd /\ z.dev = x.dev
      BY <2>1 DEF Ports
    <2>3. x' = z
      BY <1>3
    <2> HIDE DEF z
    <2>4. Held(z) = Held(x) /\ ClientFds(z) = ClientFds(x)
      BY <2>2, SameOpen
    <2>5. AtRest(d, x) => AtRest(d, z)
      BY <1>3, <2>2, RestUsb
    <2>6. Begun(d, x) => Begun(d, z)
      BY <1>3, <2>2, <2>4, <2>5, RestUsb DEF Begun, Vacant, OwnDevice
    <2>7. d # "i2cuser"
      BY <1>3 DEF Usb
    <2> QED
      BY <1>1, <2>1, <2>2, <2>3, <2>4, <2>5, <2>6, <2>7 DEF PortInv, PortFor
  <1> QED
    BY <1>1, <1>2, <1>3

-----------------------------------------------------------------------------
(* The driver and its child at each step.                                  *)
DriverFor(e, s, k) ==
  /\ DOMAIN s = Fields /\ s.then = ""
  /\ e = "accent" => Len(s.buf) < 16
  /\ e = "i2cuser" => DOMAIN k = DOMAIN NewChild /\ ~k.over

LEMMA ChildWrites ==
    ASSUME NEW k, DOMAIN k = DOMAIN NewChild, ~k.over, NEW item
    PROVE  LET s == i2cuser_read_loop(k, item) IN
           ~s.over /\ DOMAIN [s EXCEPT !.writes = <<>>] = DOMAIN NewChild /\ ~[s EXCEPT !.writes = <<>>].over
  <1>1. \A s, v : DOMAIN s = DOMAIN NewChild /\ ~s.over =>
          LET z == [s EXCEPT !.writes = v] IN DOMAIN z = DOMAIN NewChild /\ ~z.over
    BY DEF NewChild
  <1>2. \A v : LET z == [k EXCEPT !.current = v, !.pressed = TRUE] IN DOMAIN z = DOMAIN NewChild /\ ~z.over
    BY DEF NewChild
  <1>3. \E s, v : DOMAIN s = DOMAIN NewChild /\ ~s.over /\ i2cuser_read_loop(k, item) = [s EXCEPT !.writes = v]
    BY <1>2, ZenonT(60) DEF i2cuser_read_loop, Writes
  <1> QED
    BY <1>1, <1>3

(* The child of i2cuser goes on while the device is there. *)
LEMMA ChildLives ==
    ASSUME DriverInv, PortInv, ChildReads, d = "i2cuser"
    PROVE  \E s, rest : Steps(s, rest) /\ ~s.over /\ DOMAIN c' = DOMAIN NewChild /\ ~c'.over
  <1>1. DOMAIN c = DOMAIN NewChild /\ ~c.over
    BY DEF DriverInv
  <1>2. ~HasOpen("dead")
    BY DEF PortInv, PortFor, NoneDead, HasOpen
  <1>3. Steps(ReadLoop(Head(line)), Tail(line))
    BY <1>2 DEF ChildReads
  <1>4. ReadLoop(Head(line)) = i2cuser_read_loop(c, Head(line))
    BY DEF ReadLoop
  <1> DEFINE s == i2cuser_read_loop(c, Head(line))
  <1>5. ~s.over /\ DOMAIN [s EXCEPT !.writes = <<>>] = DOMAIN NewChild /\ ~[s EXCEPT !.writes = <<>>].over
    BY <1>1, ChildWrites
  <1>6. Steps(s, Tail(line))
    BY <1>3, <1>4
  <1> HIDE DEF s
  <1>7. c' = [s EXCEPT !.writes = <<>>]
    BY <1>6 DEF Steps
  <1> QED
    BY <1>5, <1>6, <1>7

LEMMA PortChild ==
    ASSUME DriverInv, PortInv, ChildReads \/ ChildRepeats
    PROVE  PortFor(d, x', clients')
  <1>1. CASE d = "i2cuser" /\ ChildReads
    <2>1. PICK s, rest : Steps(s, rest) /\ ~s.over
      BY <1>1, ChildLives
    <2> QED
      BY <2>1, PortSteps
  <1>2. CASE d # "i2cuser" /\ ChildReads
    <2>1. \E s, rest : Steps(s, rest)
      BY <1>2 DEF ChildReads
    <2>2. d \in {"zotac", "atwf83"} \cup Usb
      BY <1>2 DEF ChildReads, Threaded, Usb
    <2> QED
      BY <2>1, <2>2, PortSteps
  <1>3. CASE ChildRepeats
    BY <1>3, PortSteps DEF ChildRepeats
  <1> QED
    BY <1>1, <1>2, <1>3

LEMMA DriverAfter ==
    ASSUME NEW e, NEW s, Returns(e, s), e = "i2cuser" => DOMAIN c = DOMAIN NewChild /\ ~c.over, NEW rest, After(s, rest)
    PROVE  DriverFor(e, m', c')
  <1>1. m' = [s EXCEPT !.out = <<>>, !.then = ""] /\ c' = c
    BY DEF After
  <1>2. DOMAIN s = Fields /\ (e = "accent" => Len(s.buf) < 16)
    BY DEF Returns
  <1>3. DOMAIN m' = Fields /\ m'.then = "" /\ m'.buf = s.buf
    BY <1>1, <1>2 DEF Fields
  <1> QED
    BY <1>1, <1>2, <1>3 DEF DriverFor

LEMMA DriverNext ==
    ASSUME CleanScenes, SceneInv, DriverInv, PortInv, [Next]_vars
    PROVE  DriverFor(d, m', c')
  <1>0. d \in AllDrivers /\ Quietly(m) /\ (d = "accent" => Len(m.buf) < 16)
    BY SceneAllows, QuietDriver, Zenon
  <1>1. DriverFor(d, m, c) /\ (d = "i2cuser" => DOMAIN c = DOMAIN NewChild /\ ~c.over)
    BY DEF DriverInv, DriverFor
  <1>2. UNCHANGED <<m, c>> => DriverFor(d, m', c')
    BY <1>1
  <1>3. DOMAIN NewChild = DOMAIN NewChild /\ ~NewChild.over
    BY DEF NewChild
  <1>4. m' = m /\ c' = NewChild => DriverFor(d, m', c')
    BY <1>1, <1>3 DEF DriverFor
  <1>5. CASE Sends
    <2> DEFINE first == at[2] = 0
    <2>1. \/ m' = m
          \/ m' = [m EXCEPT !.near = FALSE, !.idle = @ \/ packet.pause = "idle"]
      BY <1>5 DEF Sends
    <2>2. DOMAIN m' = Fields /\ m'.then = "" /\ m'.buf = m.buf
      <3>1. DOMAIN m = Fields /\ m.then = ""
        BY DEF DriverInv
      <3> QED
        BY <2>1, <3>1 DEF Fields
    <2>3. c' = c \/ c' = [c EXCEPT !.pressed = FALSE]
      BY <1>5 DEF Sends
    <2>4. d = "i2cuser" => DOMAIN c' = DOMAIN NewChild /\ ~c'.over
      BY <1>1, <2>3 DEF NewChild
    <2> QED
      BY <1>0, <2>2, <2>4 DEF DriverFor
  <1>6. CASE Unplugs \/ Plugs \/ OtherLocks \/ OtherEnds
    BY <1>2, <1>6 DEF Unplugs, Plugs, OtherLocks, OtherEnds
  <1>7. CASE Connects
    BY <1>2, <1>4, <1>7 DEF Connects, Initialises
  <1>8. CASE Leaves
    BY <1>2, <1>8 DEF Leaves
  <1>9. CASE Reconnects
    BY <1>4, <1>9 DEF Reconnects, Initialises
  <1>10. CASE Polls \/ Quiet \/ UNCHANGED vars
    BY <1>2, <1>10 DEF Polls, Quiet, vars
  <1>11. CASE Reads
    <2>1. \/ UNCHANGED <<m, c>>
          \/ After(RecFunc(Head(Queue)), Tail(Queue))
          \/ After(RecEmpty, <<>>)
      BY <1>11 DEF Reads
    <2>2. CASE After(RecFunc(Head(Queue)), Tail(Queue))
      BY <1>0, <1>1, <2>2, RecReturns, DriverAfter
    <2>3. CASE After(RecEmpty, <<>>)
      BY <1>0, <1>1, <2>3, EmptyReturns, DriverAfter
    <2> QED
      BY <1>2, <2>1, <2>2, <2>3
  <1>12. CASE TimesOut
    BY <1>0, <1>1, <1>12, TimeoutReturns, DriverAfter DEF TimesOut
  <1>13. CASE ChildReads
    <2>1. m' = m
      BY <1>13 DEF ChildReads, Steps
    <2>2. d = "i2cuser" => DOMAIN c' = DOMAIN NewChild /\ ~c'.over
      BY <1>13, ChildLives
    <2> QED
      BY <1>1, <2>1, <2>2 DEF DriverFor
  <1>14. CASE ChildRepeats
    BY <1>1, <1>14 DEF ChildRepeats, Steps, DriverFor
  <1> QED
    BY <1>5, <1>6, <1>7, <1>8, <1>9, <1>10, <1>11, <1>12, <1>13, <1>14 DEF Next, Lircd

LEMMA PortNext ==
    ASSUME CleanScenes, SceneInv, DriverInv, PortInv, [Next]_vars
    PROVE  PortFor(d, x', clients')
  <1>1. CASE Sends \/ Polls \/ Quiet \/ UNCHANGED vars
    <2>1. UNCHANGED <<x, clients>>
      BY <1>1 DEF Sends, Polls, Quiet, vars
    <2> QED
      BY <2>1 DEF PortInv
  <1> QED
    BY <1>1, PortConnects, PortReconnects, PortLeaves, PortUnplugs, PortPlugs, PortOthers, PortReads, PortTimesOut,
       PortChild DEF Next, Lircd

-----------------------------------------------------------------------------
LEMMA InitDInv ==
    ASSUME CleanScenes, Init
    PROVE  DInv
  <1> DEFINE y == [NewPort EXCEPT !.link = scene.link, !.lock = scene.lock, !.rc = scene.rc]
  <1>1. /\ scene \in Scenes /\ {scene.others, scene.unplugs} \subseteq Nat /\ d \in AllDrivers
        /\ scene.link \in BOOLEAN /\ scene.rc \in {"none", "off", "on"}
        /\ scene.lock \in [name : {"", "dead", "other"}, target : {"", "dead", "other"}]
    BY ScenesAssumption DEF Init, d
  <1>2. d = "pinsys" => scene.lock.name # "other"
    BY <1>1 DEF CleanScenes, d
  <1>3. SceneInv
    <2>1. left.others = scene.others /\ left.unplugs = scene.unplugs /\ plugged
          /\ DOMAIN left = {"faults", "others", "clients", "unplugs"}
      BY DEF Init
    <2>2. scene.others <= scene.others /\ scene.unplugs <= scene.unplugs
      <3>1. \A n \in Nat : n <= n
        OBVIOUS
      <3> QED
        BY ONLY <1>1, <3>1, Zenon
    <2> QED
      BY <1>1, <2>1, <2>2 DEF SceneInv
  <1>4. DriverInv
    <2>1. DOMAIN m = Fields /\ m.then = "" /\ m.buf = <<>>
      BY DEF Init, NewDriver, Fields
    <2>2. Len(<<>>) < 16
      OBVIOUS
    <2>3. d = "accent" => Len(m.buf) < 16
      BY <2>1, <2>2, Zenon
    <2>4. DOMAIN c = DOMAIN NewChild /\ ~c.over
      BY DEF Init, NewChild
    <2> QED
      BY <2>1, <2>3, <2>4 DEF DriverInv
  <1>5. /\ y \in Ports /\ (\A f \in Fds : y.open[f] = "") /\ y.fd = None /\ y.dev = None /\ y.r = None /\ y.w = None
        /\ y.tid = None /\ y.live = 0 /\ y.lock = scene.lock
    <2> DEFINE link == scene.link
               lock == scene.lock
               rc == scene.rc
    <2>1. /\ link \in BOOLEAN /\ rc \in {"none", "off", "on", "gone"} /\ lock \in [name : Marks, target : Marks]
          /\ y = [NewPort EXCEPT !.link = link, !.lock = lock, !.rc = rc]
      BY <1>1 DEF Marks
    <2> HIDE DEF y, link, lock, rc
    <2>2. y = [open |-> [f \in Fds |-> ""], fd |-> None, dev |-> None, r |-> None, w |-> None,
               tid |-> None, live |-> 0, rc |-> rc, link |-> link, lock |-> lock]
      BY <2>1 DEF NewPort
    <2>3. [f \in Fds |-> ""] \in [Fds -> Uses]
      BY DEF Uses
    <2>4. y \in Ports
      <3> DEFINE made(o, p, b, l) ==
                   [open |-> o, fd |-> None, dev |-> None, r |-> None, w |-> None,
                    tid |-> None, live |-> 0, rc |-> p, link |-> b, lock |-> l]
                 none == [f \in Fds |-> ""]
      <3>1. \A o \in [Fds -> Uses], p \in {"none", "off", "on", "gone"}, b \in BOOLEAN,
              l \in [name : Marks, target : Marks] : made(o, p, b, l) \in Ports
        BY NotNone DEF Ports
      <3>2. y = made(none, rc, link, lock) /\ none \in [Fds -> Uses]
        BY <2>2, <2>3
      <3> HIDE DEF made, none
      <3> QED
        <4>1. link \in BOOLEAN /\ rc \in {"none", "off", "on", "gone"} /\ lock \in [name : Marks, target : Marks]
          BY <2>1
        <4>2. none \in [Fds -> Uses]
          BY <3>2
        <4>3. made(none, rc, link, lock) \in Ports
          BY ONLY <3>1, <4>1, <4>2, Zenon
        <4> QED
          BY <3>2, <4>3, Zenon
    <2>5. y.lock = scene.lock
      BY <2>2 DEF lock
    <2> QED
      BY <2>2, <2>4, <2>5
  <1>6. x = set_rc_protocol(y) /\ clients = 0
    BY DEF Init, my_open
  <1> HIDE DEF y
  <1>7. /\ x \in Ports /\ x.open = y.open /\ x.fd = None /\ x.dev = None /\ x.r = None /\ x.w = None
        /\ x.tid = None /\ x.live = 0 /\ x.lock = scene.lock
    BY <1>5, <1>6 DEF set_rc_protocol, visit_rc, Ports
  <1>8. Held(x) = {} /\ ClientFds(x) = {} /\ NoneDead(x)
    BY <1>5, <1>7 DEF Held, ClientFds, NoneDead
  <1>9. Unlocked(x)
    BY <1>1, <1>7 DEF Unlocked
  <1>10. AtRest(d, x)
    BY <1>2, <1>7, <1>8, <1>9 DEF AtRest
  <1>11. PortInv
    BY <1>6, <1>7, <1>8, <1>10, FS_EmptySet DEF PortInv, PortFor
  <1> QED
    BY <1>3, <1>4, <1>11 DEF DInv

LEMMA NextDInv ==
    ASSUME CleanScenes, DInv, [Next]_vars
    PROVE  DInv'
  <1>0. SceneInv /\ DriverInv /\ PortInv
    BY DEF DInv
  <1>1. SceneInv' /\ d' = d
    BY <1>0, SceneNext
  <1>2. DriverFor(d, m', c')
    BY <1>0, DriverNext
  <1>3. PortFor(d, x', clients')
    BY <1>0, PortNext
  <1>4. DriverInv'
    BY <1>1, <1>2 DEF DriverInv, DriverFor
  <1>5. PortInv'
    BY <1>1, <1>3 DEF PortInv
  <1> QED
    BY <1>1, <1>4, <1>5 DEF DInv

(* For every driver, every set of packets and of descriptors: the port is  *)
(* at rest without clients, and in use, or without drv.fd, with clients.   *)
THEOREM DriversPortInvariant ==
    ASSUME CleanScenes
    PROVE  Spec => []DInv
  <1>1. Init => DInv
    BY InitDInv
  <1>2. DInv /\ [Next]_vars => DInv'
    BY NextDInv
  <1> QED
    BY <1>1, <1>2, PTL DEF Spec

(* What lircd polls in mywaitfordata() for the device, drv.fd, is open and *)
(* is what the driver's init_func() opened: not a number that deinit_func()*)
(* or a failed init_func() closed and add_client() may have got since, and *)
(* whatever happened while rec_func() waited in the event loop.            *)
THEOREM DriversOwnFd ==
    ASSUME CleanScenes
    PROVE  Spec => []OwnFd
  <1>1. DInv => OwnFd
    <2> HAVE DInv
    <2>1. ASSUME Polled PROVE x.fd \in Fds /\ x.open[x.fd] \in {"dev", "dead", "r", "null"}
      <3>1. clients \in Nat \ {0} /\ x.fd # None /\ Begun(d, x)
        BY <2>1 DEF DInv, PortInv, PortFor, Polled, use_hw
      <3> QED
        BY <3>1 DEF Begun, Vacant, InUse, Held
    <2> QED
      BY <2>1 DEF OwnFd
  <1> QED
    BY <1>1, DriversPortInvariant, PTL

(* After the deinit_func() of the last client, and after an init_func()    *)
(* that failed, no descriptor of the device, no lock file with the pid of  *)
(* lircd and no child is left, except in the four drivers of Leaking.      *)
THEOREM DriversNothingLeaks ==
    ASSUME CleanScenes
    PROVE  Spec => []NothingLeaks
  <1>1. DInv => NothingLeaks
    <2> HAVE DInv
    <2>1. ASSUME clients = 0, d \notin Leaking
          PROVE  (\A f \in Fds : x.open[f] \in {"", "client"}) /\ x.live = 0 /\ \A f \in DOMAIN x.lock : x.lock[f] # "own"
      <3>1. x \in Ports /\ Held(x) = {} /\ x.live = 0 /\ Unlocked(x)
        BY <2>1 DEF DInv, PortInv, PortFor, AtRest
      <3>2. DOMAIN x.lock = {"name", "target"}
        BY <3>1 DEF Ports
      <3> QED
        BY <3>1, <3>2 DEF Held, Unlocked
    <2> QED
      BY <2>1 DEF NothingLeaks
  <1> QED
    BY <1>1, DriversPortInvariant, PTL
=============================================================================
