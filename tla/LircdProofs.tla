----------------------------- MODULE LircdProofs -----------------------------
(* Proofs about Lircd, for every value of its constants. *)
EXTENDS Lircd, SequenceTheorems, TLAPS

LEMMA InitInd == Init => IndInv
  <1> SUFFICES ASSUME Init PROVE IndInv
    OBVIOUS
  <1>1. TypeOK
    <2>1. MaxClients \in Nat \ {0}
      BY ServerAssumption
    <2>2. revents \in [cli : [Slots -> BOOLEAN], listen : SUBSET Listening,
                    peer : BOOLEAN, driver : BOOLEAN]
      BY DEF Init, NoEvents
    <2>3. {timer, alrm, hup, term, hw} \subseteq BOOLEAN /\ relay \in BOOLEAN
      BY DEF Init
    <2>4. inq \in [Fds -> Seq(Message)] /\ out \in [Fds -> Seq(Reply)] /\ batch \in Seq(Message)
      BY DEF Init
    <2> QED
      BY <2>1, <2>2, <2>3, <2>4 DEF Init, TypeOK, Types, NoFd, NoMessage, PCs
  <1>2. LoopInv
    BY DEF Init, LoopInv, simulating
  <1>3. TableMatchesSockets
    BY DEF Init, TableMatchesSockets
  <1>4. AlarmHasRepeat /\ HwInv
    BY DEF Init, AlarmHasRepeat, HwInv, use_hw
  <1> QED
    BY <1>1, <1>2, <1>3, <1>4 DEF IndInv

-----------------------------------------------------------------------------
(* The parts of IndInv that remove_client() and the replies can disturb,   *)
(* without reference to pc. *)

TableType ==
    /\ peer \in [Fds -> {"none", "open", "closed"}]
    /\ owner \in [Fds -> Nat] /\ sent \in [Fds -> Nat]
    /\ inq \in [Fds -> Seq(Message)]
    /\ conns \in Nat
    /\ clis \in [Slots -> Fds \cup {NoFd}]
    /\ cli_type \in [Slots -> Types]
    /\ clin \in 0..MaxClients
    /\ hw \in BOOLEAN

SlotsOpen == \A k \in 1..clin : clis[k] \in Fds

TableOK ==
    /\ \A k, m \in 1..clin : clis[k] = clis[m] => k = m
    /\ \A fd \in Fds : peer[fd] # "none" <=> \E k \in 1..clin : clis[k] = fd

HwOK ==
    /\ hw => use_hw(clin, repeat_remote)
    /\ use_hw(clin, repeat_remote) /\ ~InitMayFail => hw

TablePart == TableType /\ SlotsOpen /\ TableOK /\ HwOK

LEMMA SlotBounds == MaxClients \in Nat \ {0} /\ Slots = 1..MaxClients
  BY ServerAssumption DEF Slots

LEMMA IndHasTablePart == IndInv /\ pc # "exit" => TablePart
  BY DEF IndInv, TypeOK, LoopInv, TableMatchesSockets, HwInv, TablePart, TableType, SlotsOpen,
         TableOK, HwOK

(* remove_client() closes the gap it makes: the table still matches the    *)
(* open sockets, and the hardware its users.  A handler may have stopped   *)
(* the repeat just before only while there is a client left.               *)
LEMMA RemoveClient ==
  ASSUME TablePart, NEW fd, remove_client(fd),
         clin > 0 \/ repeat_remote' = repeat_remote
  PROVE  TablePart'
  <1>0. MaxClients \in Nat \ {0} /\ Slots = 1..MaxClients
    BY SlotBounds
  <1>1. CASE ~\E k \in 1..clin : clis[k] = fd
    <2>1. UNCHANGED <<clis, cli_type, clin, peer, inq, owner, sent, conns, hw>>
      BY <1>1 DEF remove_client, table
    <2>2. TableType' /\ SlotsOpen' /\ TableOK'
      BY <2>1 DEF TablePart, TableType, SlotsOpen, TableOK
    <2>3. HwOK'
      BY <2>1 DEF TablePart, HwOK, use_hw, TableType
    <2> QED
      BY <2>2, <2>3 DEF TablePart
  <1>2. CASE \E k \in 1..clin : clis[k] = fd
    <2>1. PICK k \in 1..clin :
            /\ clis[k] = fd
            /\ clis' = [m \in Slots |-> IF m >= k /\ m < clin THEN clis[m + 1] ELSE clis[m]]
            /\ clin' = clin - 1
            /\ peer' = [peer EXCEPT ![fd] = "none"]
            /\ inq' = [inq EXCEPT ![fd] = <<>>]
            /\ hw' = (hw /\ use_hw(clin - 1, repeat_remote'))
            /\ UNCHANGED <<cli_type, owner, sent, conns>>
      BY <1>2 DEF remove_client
    <2>2. fd \in Fds /\ clin \in 1..MaxClients /\ k \in 1..clin
      BY <2>1, <1>0 DEF TablePart, TableType, SlotsOpen
    <2>3. TableType'
      <3>1. clis' \in [Slots -> Fds \cup {NoFd}]
        BY <1>0, <2>1, <2>2 DEF TablePart, TableType
      <3>2. inq' \in [Fds -> Seq(Message)]
        BY <2>1, <2>2 DEF TablePart, TableType
      <3>3. peer' \in [Fds -> {"none", "open", "closed"}]
        BY <2>1, <2>2 DEF TablePart, TableType
      <3>4. hw' \in BOOLEAN
        BY <2>1
      <3> QED
        BY <1>0, <2>1, <2>2, <3>1, <3>2, <3>3, <3>4 DEF TablePart, TableType
    <2>4. \A m \in 1..clin' : clis'[m] = IF m >= k THEN clis[m + 1] ELSE clis[m]
      BY <1>0, <2>1, <2>2 DEF TablePart, TableType
    <2>5. SlotsOpen'
      BY <1>0, <2>1, <2>2, <2>4 DEF TablePart, SlotsOpen
    <2>6. TableOK'
      <3>1. ASSUME NEW a \in 1..clin', NEW b \in 1..clin', clis'[a] = clis'[b] PROVE a = b
        BY <1>0, <2>1, <2>2, <2>4, <3>1 DEF TablePart, TableOK
      <3>2. ASSUME NEW g \in Fds, peer'[g] # "none" PROVE \E m \in 1..clin' : clis'[m] = g
        <4>1. g # fd /\ peer[g] # "none"
          BY <2>1, <2>2, <3>2 DEF TablePart, TableType
        <4>2. PICK a \in 1..clin : clis[a] = g
          BY <4>1 DEF TablePart, TableOK
        <4>3. a # k
          BY <2>1, <4>1, <4>2
        <4>4. CASE a < k
          BY <1>0, <2>1, <2>2, <2>4, <4>2, <4>4
        <4>5. CASE a > k
          <5>1. a - 1 \in 1..clin' /\ a - 1 >= k /\ (a - 1) + 1 = a
            BY <2>1, <2>2, <4>2, <4>5
          <5> QED
            BY <2>4, <4>2, <5>1
        <4> QED
          BY <2>2, <4>2, <4>3, <4>4, <4>5
      <3>3. ASSUME NEW g \in Fds, NEW m \in 1..clin', clis'[m] = g PROVE peer'[g] # "none"
        <4>1. PICK a \in 1..clin : a # k /\ clis[a] = g
          BY <1>0, <2>1, <2>2, <2>4, <3>3
        <4>2. g # fd
          BY <2>1, <4>1 DEF TablePart, TableOK
        <4> QED
          BY <2>1, <2>2, <4>1, <4>2 DEF TablePart, TableOK, TableType
      <3> QED
        BY <3>1, <3>2, <3>3 DEF TableOK
    <2>7. HwOK'
      <3>1. use_hw(clin, repeat_remote)
        BY <2>2 DEF use_hw
      <3>2. ~InitMayFail => hw
        BY <3>1 DEF TablePart, HwOK
      <3>3. hw' = (hw /\ use_hw(clin', repeat_remote'))
        BY <2>1
      <3> QED
        BY <3>2, <3>3 DEF HwOK
    <2> QED
      BY <2>3, <2>5, <2>6, <2>7 DEF TablePart
  <1> QED
    BY <1>1, <1>2

-----------------------------------------------------------------------------
(* The rest of IndInv, by the variables it is about. *)

RepeatPart ==
    /\ repeat_remote \in Remotes \cup {NULL} /\ repeat_code \in Codes \cup {NULL}
    /\ repeat_fd \in Fds \cup {NoFd}
    /\ repeat_message \in [owner : Nat, n : Nat]
    /\ repeat_countdown \in [Remotes -> Int]
    /\ last_code \in [Remotes -> Codes \cup {NULL}]
    /\ transmit_state \in Nat
    /\ timer \in BOOLEAN /\ alrm \in BOOLEAN
    /\ repeat_remote = NULL <=> repeat_code = NULL
    /\ tx \in Nat /\ want \in Int

SignalPart == hup \in BOOLEAN /\ term \in BOOLEAN /\ hups \in Nat /\ events \in Nat

CursorPart ==
    /\ out \in [Fds -> Seq(Reply)]
    /\ pc \in PCs \ {"exit"}
    /\ i \in 1..MaxClients + 1 /\ j \in 1..MaxClients + 1
    /\ revents \in [cli : [Slots -> BOOLEAN], listen : SUBSET Listening,
                    peer : BOOLEAN, driver : BOOLEAN]
    /\ fd_ \in Fds \cup {NoFd}
    /\ batch \in Seq(Message)
    /\ ret \in {"hupclear", "simulated", "sighup", "accept"} /\ relay \in BOOLEAN
    /\ pc \in {"read", "command"} \/ simulating => i \in Slots /\ fd_ \in Fds
    /\ pc \in {"read", "command"} => clin > 0
    /\ pc = "command" \/ simulating => batch # <<>>

Parts == TablePart /\ RepeatPart /\ SignalPart /\ CursorPart /\ AlarmHasRepeat

LEMMA IndHasParts == IndInv /\ pc # "exit" => Parts
  <1> SUFFICES ASSUME IndInv, pc # "exit" PROVE Parts
    OBVIOUS
  <1>1. TablePart
    BY IndHasTablePart
  <1>2. RepeatPart /\ SignalPart
    BY DEF IndInv, TypeOK, LoopInv, RepeatPart, SignalPart
  <1>3. CursorPart
    BY DEF IndInv, TypeOK, LoopInv, CursorPart
  <1> QED
    BY <1>1, <1>2, <1>3 DEF Parts, IndInv

LEMMA PartsGiveInd == ASSUME Parts' PROVE IndInv'
  <1>1. TypeOK'
    BY DEF TypeOK, Parts, TablePart, TableType, RepeatPart, SignalPart, CursorPart
  <1>2. LoopInv'
    BY DEF LoopInv, Parts, TablePart, SlotsOpen, RepeatPart, CursorPart
  <1>3. TableMatchesSockets' /\ HwInv'
    BY DEF TableMatchesSockets, HwInv, Parts, TablePart, TableOK, HwOK
  <1> QED
    BY <1>1, <1>2, <1>3 DEF IndInv, Parts

-----------------------------------------------------------------------------
(* A step that leaves the client table and its users alone. *)
LEMMA SameTable ==
  ASSUME TablePart, UNCHANGED <<peer, owner, sent, inq, conns, clis, cli_type, clin, hw>>,
         repeat_remote' = repeat_remote
  PROVE  TablePart'
  BY DEF TablePart, TableType, SlotsOpen, TableOK, HwOK, use_hw

(* A reply goes to a client's log. *)
LEMMA SendReply ==
  ASSUME TableType, out \in [Fds -> Seq(Reply)], NEW fd \in Fds, NEW msg,
         msg.owner \in Nat, msg.n \in Nat, NEW ok \in BOOLEAN, NEW written,
         send_reply(fd, msg, ok, written)
  PROVE  out' \in [Fds -> Seq(Reply)]
  <1>1. [owner |-> msg.owner, n |-> msg.n, ok |-> ok] \in Reply
    BY DEF Reply
  <1>2. Append(out[fd], [owner |-> msg.owner, n |-> msg.n, ok |-> ok]) \in Seq(Reply)
    BY <1>1
  <1> QED
    BY <1>2 DEF send_reply

(* A successful write means a socket that is open, so there is a client. *)
LEMMA WriteNeedsClient ==
  ASSUME TablePart, NEW fd \in Fds, TRUE \in write_socket(fd)
  PROVE  clin > 0
  <1>1. peer[fd] # "none"
    BY DEF write_socket
  <1>2. PICK k \in 1..clin : clis[k] = fd
    BY <1>1 DEF TablePart, TableOK
  <1> QED
    BY <1>2 DEF TablePart, TableType

LEMMA HeadTail ==
  ASSUME batch \in Seq(Message), batch # <<>>
  PROVE  /\ Head(batch) \in Message /\ Tail(batch) \in Seq(Message)
         /\ Len(batch) # 1 => Tail(batch) # <<>>
  <1>1. Head(batch) \in Message /\ Tail(batch) \in Seq(Message) /\ Len(Tail(batch)) = Len(batch) - 1
    BY HeadTailProperties
  <1>2. Len(batch) \in Nat
    OBVIOUS
  <1>3. ASSUME Tail(batch) = <<>> PROVE Len(batch) = 1
    BY <1>1, <1>2, <1>3
  <1> QED
    BY <1>1, <1>3

(* A handler that ends with a reply, whatever it did to the repeat. *)
LEMMA Answer ==
  ASSUME Parts, pc \in {"command", "simulated"},
         clin > 0 \/ repeat_remote' = repeat_remote,
         NEW ok \in BOOLEAN, answer(ok)
  PROVE  TablePart' /\ CursorPart'
  <1>0. MaxClients \in Nat \ {0} /\ Slots = 1..MaxClients
    BY SlotBounds
  <1>1. i \in Slots /\ fd_ \in Fds /\ batch \in Seq(Message) /\ batch # <<>>
    BY DEF Parts, CursorPart, simulating
  <1>2. PICK w \in write_socket(fd_) :
            /\ send_reply(fd_, Head(batch), ok, w)
            /\ IF w THEN next_command ELSE drop_client
            /\ UNCHANGED <<j, revents, fd_, ret, relay>>
    BY DEF answer
  <1>3. w \in BOOLEAN
    BY <1>1, <1>2 DEF write_socket
  <1>4. out' \in [Fds -> Seq(Reply)]
    <2>1. Head(batch).owner \in Nat /\ Head(batch).n \in Nat
      BY <1>1, HeadTail DEF Message
    <2> QED
      BY <1>1, <1>2, <2>1, SendReply DEF Parts, CursorPart, TablePart
  <1>5. CASE w
    <2>1. clin > 0
      BY <1>1, <1>2, <1>3, <1>5, WriteNeedsClient DEF Parts
    <2>2. next_command
      BY <1>2, <1>5
    <2>3. TablePart'
      BY <2>1, <2>2 DEF next_command, table, Parts, TablePart, TableType, SlotsOpen, TableOK, HwOK,
                        use_hw
    <2>4. CursorPart'
      BY <1>0, <1>1, <1>2, <1>4, <2>1, <2>2, HeadTail
         DEF next_command, table, Parts, CursorPart, simulating, PCs
    <2> QED
      BY <2>3, <2>4
  <1>6. CASE ~w
    <2>1. drop_client
      BY <1>2, <1>6
    <2>2. TablePart'
      BY <2>1, RemoveClient DEF drop_client, Parts
    <2>3. CursorPart'
      BY <1>0, <1>1, <1>2, <1>4, <2>1 DEF drop_client, Parts, CursorPart, simulating, PCs
    <2> QED
      BY <2>2, <2>3
  <1> QED
    BY <1>3, <1>5, <1>6

-----------------------------------------------------------------------------
(* One lemma for every step. *)

LEMMA SigalrmStep == ASSUME Parts, sigalrm PROVE Parts'
  <1>1. TablePart'
    BY SameTable DEF Parts, sigalrm, sockets, table, repeats, signals, cursor, history, interrupted
  <1>2. RepeatPart' /\ SignalPart'
    BY DEF Parts, RepeatPart, SignalPart, sigalrm, sockets, table, repeats, signals, cursor, history, interrupted
  <1>3. CursorPart'
    BY ServerAssumption DEF Parts, CursorPart, simulating, PCs, TablePart, TableType, Slots, sigalrm, sockets, table, repeats, signals, cursor, history, interrupted
  <1>4. AlarmHasRepeat'
    BY DEF Parts, AlarmHasRepeat, CursorPart, PCs, sigalrm, sockets, table, repeats, signals, cursor, history, interrupted
  <1> QED
    BY <1>1, <1>2, <1>3, <1>4 DEF Parts

LEMMA SighupStep == ASSUME Parts, sighup PROVE Parts'
  <1>1. TablePart'
    BY SameTable DEF Parts, sighup, sockets, table, repeats, signals, cursor, history, interrupted
  <1>2. RepeatPart' /\ SignalPart'
    BY DEF Parts, RepeatPart, SignalPart, sighup, sockets, table, repeats, signals, cursor, history, interrupted
  <1>3. CursorPart'
    BY ServerAssumption DEF Parts, CursorPart, simulating, PCs, TablePart, TableType, Slots, sighup, sockets, table, repeats, signals, cursor, history, interrupted
  <1>4. AlarmHasRepeat'
    BY DEF Parts, AlarmHasRepeat, CursorPart, PCs, sighup, sockets, table, repeats, signals, cursor, history, interrupted
  <1> QED
    BY <1>1, <1>2, <1>3, <1>4 DEF Parts

LEMMA SigtermStep == ASSUME Parts, sigterm PROVE Parts'
  <1>1. TablePart'
    BY SameTable DEF Parts, sigterm, sockets, table, repeats, signals, cursor, history, interrupted
  <1>2. RepeatPart' /\ SignalPart'
    BY DEF Parts, RepeatPart, SignalPart, sigterm, sockets, table, repeats, signals, cursor, history, interrupted
  <1>3. CursorPart'
    BY ServerAssumption DEF Parts, CursorPart, simulating, PCs, TablePart, TableType, Slots, sigterm, sockets, table, repeats, signals, cursor, history, interrupted
  <1>4. AlarmHasRepeat'
    BY DEF Parts, AlarmHasRepeat, CursorPart, PCs, sigterm, sockets, table, repeats, signals, cursor, history, interrupted
  <1> QED
    BY <1>1, <1>2, <1>3, <1>4 DEF Parts

LEMMA DosighupStep == ASSUME Parts, dosighup PROVE Parts'
  <1>1. TablePart'
    BY SameTable DEF Parts, dosighup, sockets, table, repeats, signals, cursor, history
  <1>2. RepeatPart' /\ SignalPart'
    BY DEF Parts, RepeatPart, SignalPart, dosighup, sockets, table, repeats, signals, cursor, history
  <1>3. CursorPart'
    <2>1. relay' \in BOOLEAN
      BY DEF Parts, CursorPart, dosighup, cursor
    <2>2. revents' \in [cli : [Slots -> BOOLEAN], listen : SUBSET Listening,
                    peer : BOOLEAN, driver : BOOLEAN]
      BY DEF Parts, CursorPart, dosighup, cursor
    <2>3. CASE hup
      BY <2>1, <2>2, <2>3, SlotBounds DEF Parts, CursorPart, simulating, PCs, TablePart, TableType, dosighup, sockets, table, repeats, signals, cursor, history
    <2>4. CASE ~hup
      BY <2>1, <2>2, <2>4, SlotBounds DEF Parts, CursorPart, simulating, PCs, TablePart, TableType, dosighup, sockets, table, repeats, signals, cursor, history
    <2> QED
      BY <2>3, <2>4
  <1>4. AlarmHasRepeat'
    BY DEF Parts, AlarmHasRepeat, CursorPart, PCs, dosighup, sockets, table, repeats, signals, cursor, history
  <1> QED
    BY <1>1, <1>2, <1>3, <1>4 DEF Parts

LEMMA HupClearStep == ASSUME Parts, hup_clear PROVE Parts'
  <1>1. TablePart'
    BY SameTable DEF Parts, hup_clear, sockets, table, repeats, signals, cursor, history
  <1>2. RepeatPart' /\ SignalPart'
    BY DEF Parts, RepeatPart, SignalPart, hup_clear, sockets, table, repeats, signals, cursor, history
  <1>3. CursorPart'
    BY ServerAssumption DEF Parts, CursorPart, simulating, PCs, TablePart, TableType, Slots, hup_clear, sockets, table, repeats, signals, cursor, history
  <1>4. AlarmHasRepeat'
    BY DEF Parts, AlarmHasRepeat, CursorPart, PCs, hup_clear, sockets, table, repeats, signals, cursor, history
  <1> QED
    BY <1>1, <1>2, <1>3, <1>4 DEF Parts

LEMMA NoAlarmStep == ASSUME Parts, no_alarm PROVE Parts'
  <1>1. TablePart'
    BY SameTable DEF Parts, no_alarm, sockets, table, repeats, signals, cursor, history
  <1>2. RepeatPart' /\ SignalPart'
    BY DEF Parts, RepeatPart, SignalPart, no_alarm, sockets, table, repeats, signals, cursor, history
  <1>3. CursorPart'
    BY ServerAssumption DEF Parts, CursorPart, simulating, PCs, TablePart, TableType, Slots, no_alarm, sockets, table, repeats, signals, cursor, history
  <1>4. AlarmHasRepeat'
    BY DEF Parts, AlarmHasRepeat, CursorPart, PCs, no_alarm, sockets, table, repeats, signals, cursor, history
  <1> QED
    BY <1>1, <1>2, <1>3, <1>4 DEF Parts

LEMMA AlrmClearStep == ASSUME Parts, alrm_clear PROVE Parts'
  <1>1. TablePart'
    BY SameTable DEF Parts, alrm_clear, sockets, table, repeats, signals, cursor, history
  <1>2. RepeatPart' /\ SignalPart'
    BY DEF Parts, RepeatPart, SignalPart, alrm_clear, sockets, table, repeats, signals, cursor, history
  <1>3. CursorPart'
    BY ServerAssumption DEF Parts, CursorPart, simulating, PCs, TablePart, TableType, Slots, alrm_clear, sockets, table, repeats, signals, cursor, history
  <1>4. AlarmHasRepeat'
    BY DEF Parts, AlarmHasRepeat, CursorPart, PCs, alrm_clear, sockets, table, repeats, signals, cursor, history
  <1> QED
    BY <1>1, <1>2, <1>3, <1>4 DEF Parts

LEMMA EnterPollStep == ASSUME Parts, enter_poll PROVE Parts'
  <1>1. TablePart'
    BY SameTable DEF Parts, enter_poll, sockets, table, repeats, signals, cursor, history
  <1>2. RepeatPart' /\ SignalPart'
    BY DEF Parts, RepeatPart, SignalPart, enter_poll, sockets, table, repeats, signals, cursor, history
  <1>3. CursorPart'
    BY ServerAssumption DEF Parts, CursorPart, simulating, PCs, TablePart, TableType, Slots, enter_poll, sockets, table, repeats, signals, cursor, history
  <1>4. AlarmHasRepeat'
    BY DEF Parts, AlarmHasRepeat, CursorPart, PCs, enter_poll, sockets, table, repeats, signals, cursor, history
  <1> QED
    BY <1>1, <1>2, <1>3, <1>4 DEF Parts

LEMMA ServeClientStep == ASSUME Parts, serve_client PROVE Parts'
  <1>1. TablePart'
    BY SameTable DEF Parts, serve_client, sockets, table, repeats, signals, cursor, history
  <1>2. RepeatPart' /\ SignalPart'
    BY DEF Parts, RepeatPart, SignalPart, serve_client, sockets, table, repeats, signals, cursor, history
  <1>3. CursorPart'
    <2>1. relay' \in BOOLEAN
      BY DEF Parts, CursorPart, serve_client, cursor
    <2>2. revents' \in [cli : [Slots -> BOOLEAN], listen : SUBSET Listening,
                    peer : BOOLEAN, driver : BOOLEAN]
      <3>1. \E k \in i..clin : revents' = [revents EXCEPT !.cli[k] = FALSE]
        BY DEF serve_client
      <3>2. revents \in [cli : [Slots -> BOOLEAN], listen : SUBSET Listening,
                          peer : BOOLEAN, driver : BOOLEAN]
        BY DEF Parts, CursorPart
      <3> QED
        BY <3>1, <3>2
    <2>3. PICK k \in i..clin : i' = k /\ fd_' = clis[k]
      BY DEF serve_client
    <2>4. k \in 1..MaxClients /\ clin > 0 /\ clis[k] \in Fds
      BY <2>3, SlotBounds DEF Parts, CursorPart, TablePart, TableType, SlotsOpen
    <2>5. pc' = "read" /\ UNCHANGED <<out, j, batch, ret, clin>>
      BY DEF serve_client, sockets, table, repeats, signals, cursor, history
    <2> QED
      BY <2>1, <2>2, <2>3, <2>4, <2>5, SlotBounds DEF Parts, CursorPart, simulating, PCs, TablePart, TableType
  <1>4. AlarmHasRepeat'
    BY DEF Parts, AlarmHasRepeat, CursorPart, PCs, serve_client, sockets, table, repeats, signals, cursor, history
  <1> QED
    BY <1>1, <1>2, <1>3, <1>4 DEF Parts

LEMMA ClientsServedStep == ASSUME Parts, clients_served PROVE Parts'
  <1>1. TablePart'
    BY SameTable DEF Parts, clients_served, sockets, table, repeats, signals, cursor, history
  <1>2. RepeatPart' /\ SignalPart'
    BY DEF Parts, RepeatPart, SignalPart, clients_served, sockets, table, repeats, signals, cursor, history
  <1>3. CursorPart'
    <2>1. relay' \in BOOLEAN
      BY DEF Parts, CursorPart, clients_served, cursor
    <2>2. revents' \in [cli : [Slots -> BOOLEAN], listen : SUBSET Listening,
                    peer : BOOLEAN, driver : BOOLEAN]
      BY DEF Parts, CursorPart, clients_served, cursor
    <2>3. pc' = "peers" /\ i' = 1 /\ fd_' = NoFd /\ UNCHANGED <<out, j, batch, ret, clin>>
      BY DEF clients_served, sockets, table, repeats, signals, cursor, history
    <2> QED
      BY <2>1, <2>2, <2>3, SlotBounds DEF Parts, CursorPart, simulating, PCs, TablePart, TableType
  <1>4. AlarmHasRepeat'
    BY DEF Parts, AlarmHasRepeat, CursorPart, PCs, clients_served, sockets, table, repeats, signals, cursor, history
  <1> QED
    BY <1>1, <1>2, <1>3, <1>4 DEF Parts

LEMMA SimulateStep == ASSUME Parts, simulate PROVE Parts'
  <1>1. TablePart'
    BY SameTable DEF Parts, simulate, sockets, table, repeats, signals, cursor, history, executing
  <1>2. RepeatPart' /\ SignalPart'
    BY DEF Parts, RepeatPart, SignalPart, simulate, sockets, table, repeats, signals, cursor, history, executing
  <1>3. CursorPart'
    <2>1. relay' \in BOOLEAN
      BY DEF Parts, CursorPart, simulate, cursor
    <2>2. revents' \in [cli : [Slots -> BOOLEAN], listen : SUBSET Listening,
                    peer : BOOLEAN, driver : BOOLEAN]
      BY DEF Parts, CursorPart, simulate, cursor, executing
    <2> QED
      BY <2>1, <2>2, SlotBounds DEF Parts, CursorPart, simulating, PCs, TablePart, TableType,
         SlotsOpen, NoFd, simulate, sockets, table, repeats, signals, cursor, history, executing
  <1>4. AlarmHasRepeat'
    BY DEF Parts, AlarmHasRepeat, CursorPart, PCs, simulate, sockets, table, repeats, signals, cursor, history, executing
  <1> QED
    BY <1>1, <1>2, <1>3, <1>4 DEF Parts

LEMMA BroadcastDoneStep == ASSUME Parts, broadcast_done PROVE Parts'
  <1>1. TablePart'
    BY SameTable DEF Parts, broadcast_done, sockets, table, repeats, signals, cursor, history
  <1>2. RepeatPart' /\ SignalPart'
    BY DEF Parts, RepeatPart, SignalPart, broadcast_done, sockets, table, repeats, signals, cursor, history
  <1>3. CursorPart'
    BY ServerAssumption DEF Parts, CursorPart, simulating, PCs, TablePart, TableType, Slots, broadcast_done, sockets, table, repeats, signals, cursor, history
  <1>4. AlarmHasRepeat'
    BY DEF Parts, AlarmHasRepeat, CursorPart, PCs, broadcast_done, sockets, table, repeats, signals, cursor, history
  <1> QED
    BY <1>1, <1>2, <1>3, <1>4 DEF Parts

LEMMA PeerMessageStep == ASSUME Parts, peer_message PROVE Parts'
  <1>1. TablePart'
    BY SameTable DEF Parts, peer_message, sockets, table, repeats, signals, cursor, history
  <1>2. RepeatPart' /\ SignalPart'
    BY DEF Parts, RepeatPart, SignalPart, peer_message, sockets, table, repeats, signals, cursor, history
  <1>3. CursorPart'
    <2>1. relay' \in BOOLEAN
      BY DEF Parts, CursorPart, peer_message, cursor
    <2>2. revents' \in [cli : [Slots -> BOOLEAN], listen : SUBSET Listening,
                    peer : BOOLEAN, driver : BOOLEAN]
      BY DEF Parts, CursorPart, peer_message, cursor
    <2>3. /\ \/ pc' = "broadcast" /\ j' = 1 /\ ret' = "accept"
             \/ pc' = "accept" /\ UNCHANGED <<j, ret>>
          /\ UNCHANGED <<out, i, fd_, batch, clin>>
      BY DEF peer_message, sockets, table, repeats, signals, cursor, history
    <2> QED
      BY <2>1, <2>2, <2>3, SlotBounds, SMTT(30) DEF Parts, CursorPart, simulating, PCs, TablePart, TableType
  <1>4. AlarmHasRepeat'
    BY DEF Parts, AlarmHasRepeat, CursorPart, PCs, peer_message, sockets, table, repeats, signals, cursor, history
  <1> QED
    BY <1>1, <1>2, <1>3, <1>4 DEF Parts

LEMMA AllAcceptedStep == ASSUME Parts, all_accepted PROVE Parts'
  <1>1. TablePart'
    BY SameTable DEF Parts, all_accepted, sockets, table, repeats, signals, cursor, history
  <1>2. RepeatPart' /\ SignalPart'
    BY DEF Parts, RepeatPart, SignalPart, all_accepted, sockets, table, repeats, signals, cursor, history
  <1>3. CursorPart'
    BY ServerAssumption DEF Parts, CursorPart, simulating, PCs, TablePart, TableType, Slots, all_accepted, sockets, table, repeats, signals, cursor, history
  <1>4. AlarmHasRepeat'
    BY DEF Parts, AlarmHasRepeat, CursorPart, PCs, all_accepted, sockets, table, repeats, signals, cursor, history
  <1> QED
    BY <1>1, <1>2, <1>3, <1>4 DEF Parts

LEMMA ReceiveStep == ASSUME Parts, receive PROVE Parts'
  <1>1. TablePart'
    BY SameTable DEF Parts, receive, sockets, table, repeats, signals, cursor, history, NoEvents
  <1>2. RepeatPart' /\ SignalPart'
    BY DEF Parts, RepeatPart, SignalPart, receive, sockets, table, repeats, signals, cursor, history, NoEvents
  <1>3. CursorPart'
    <2>1. relay' \in BOOLEAN
      BY DEF Parts, CursorPart, receive, cursor
    <2>2. revents' \in [cli : [Slots -> BOOLEAN], listen : SUBSET Listening,
                    peer : BOOLEAN, driver : BOOLEAN]
      BY DEF Parts, CursorPart, receive, cursor, NoEvents
    <2>3. \/ pc' = "broadcast" /\ j' = 1 /\ ret' = "sighup"
          \/ pc' = "sighup" /\ UNCHANGED <<j, ret>>
      BY DEF receive
    <2>4. UNCHANGED <<out, i, fd_, batch>>
      BY DEF receive, sockets
    <2>5. /\ pc' \in PCs \ {"exit"} /\ j' \in 1..MaxClients + 1
          /\ ret' \in {"hupclear", "simulated", "sighup", "accept"}
      BY <2>3, SlotBounds DEF Parts, CursorPart, PCs
    <2>6. pc' \notin {"read", "command"} /\ ~simulating'
      BY <2>3 DEF simulating
    <2> QED
      BY <2>1, <2>2, <2>4, <2>5, <2>6 DEF Parts, CursorPart
  <1>4. AlarmHasRepeat'
    BY DEF Parts, AlarmHasRepeat, CursorPart, PCs, receive, sockets, table, repeats, signals, cursor, history, NoEvents
  <1> QED
    BY <1>1, <1>2, <1>3, <1>4 DEF Parts

LEMMA NothingReceivedStep == ASSUME Parts, nothing_received PROVE Parts'
  <1>1. TablePart'
    BY SameTable DEF Parts, nothing_received, sockets, table, repeats, signals, cursor, history, NoEvents
  <1>2. RepeatPart' /\ SignalPart'
    BY DEF Parts, RepeatPart, SignalPart, nothing_received, sockets, table, repeats, signals, cursor, history, NoEvents
  <1>3. CursorPart'
    BY ServerAssumption DEF Parts, CursorPart, simulating, PCs, TablePart, TableType, Slots, nothing_received, sockets, table, repeats, signals, cursor, history, NoEvents
  <1>4. AlarmHasRepeat'
    BY DEF Parts, AlarmHasRepeat, CursorPart, PCs, nothing_received, sockets, table, repeats, signals, cursor, history, NoEvents
  <1> QED
    BY <1>1, <1>2, <1>3, <1>4 DEF Parts

LEMMA PollReturnStep == ASSUME Parts, poll_return PROVE Parts'
  <1>1. TablePart'
    <2>1. CASE ~hw /\ use_hw(clin, repeat_remote)
      <3>1. hw' \in init_func
        BY <2>1 DEF poll_return
      <3>2. hw' \in BOOLEAN /\ (~InitMayFail => hw')
        BY <3>1 DEF init_func
      <3>3. UNCHANGED <<peer, owner, sent, inq, conns, clis, cli_type, clin, repeat_remote>>
        BY DEF poll_return, sockets, table, repeats
      <3>4. TableType' /\ SlotsOpen' /\ TableOK'
        BY <3>2, <3>3 DEF Parts, TablePart, TableType, SlotsOpen, TableOK
      <3>5. HwOK'
        BY <2>1, <3>2, <3>3 DEF HwOK, use_hw
      <3> QED
        BY <3>4, <3>5 DEF TablePart
    <2>2. CASE ~(~hw /\ use_hw(clin, repeat_remote))
      BY <2>2, SameTable DEF Parts, poll_return, sockets, table, repeats
    <2> QED
      BY <2>1, <2>2
  <1>2. RepeatPart' /\ SignalPart'
    BY DEF Parts, RepeatPart, SignalPart, poll_return, sockets, table, repeats, signals, cursor, history, readable
  <1>3. CursorPart'
    BY ServerAssumption DEF Parts, CursorPart, simulating, PCs, TablePart, TableType, Slots, poll_return, sockets, table, repeats, signals, cursor, history, readable
  <1>4. AlarmHasRepeat'
    BY DEF Parts, AlarmHasRepeat, CursorPart, PCs, poll_return, sockets, table, repeats, signals, cursor, history, readable
  <1> QED
    BY <1>1, <1>2, <1>3, <1>4 DEF Parts

(* What the arguments of a send command are made of. *)
LEMMA SendArguments ==
  ASSUME Parts, executing("SEND_ONCE") \/ executing("SEND_START")
  PROVE  /\ cmd.remote \in Remotes /\ cmd.code \in Codes
         /\ MinRepeat[cmd.remote] \in Nat /\ countdown \in Int
         /\ next_transmit_state(cmd.remote, cmd.code, 0) \in Nat
  <1>1. batch \in Seq(Message) /\ batch # <<>>
    BY DEF Parts, CursorPart, executing
  <1>2. cmd \in Commands
    BY <1>1, HeadTail DEF cmd, Message
  <1>3. cmd \in Command /\ cmd.remote \in Remotes /\ cmd.code \in Codes
    BY <1>2, ServerAssumption DEF executing
  <1>4. cmd.reps \in Int
    BY <1>3 DEF Command
  <1>5. MinRepeat[cmd.remote] \in Nat /\ RepeatMax \in Nat /\ Links[cmd.code] \in Nat
    BY <1>3, ServerAssumption
  <1> QED
    BY <1>3, <1>4, <1>5 DEF countdown, Max2, next_transmit_state

(* The part that all successful sends share. *)
LEMMA FirstSent ==
  ASSUME Parts, first_sent
  PROVE  /\ last_code' \in [Remotes -> Codes \cup {NULL}]
         /\ repeat_countdown' \in [Remotes -> Int] /\ transmit_state' \in Nat
         /\ tx' \in Nat /\ want' \in Int /\ alrm' = alrm
         /\ SignalPart'
  <1>1. /\ last_code' \in [Remotes -> Codes \cup {NULL}]
        /\ repeat_countdown' \in [Remotes -> Int]
    BY SendArguments DEF Parts, RepeatPart, first_sent
  <1>2. transmit_state' \in Nat /\ tx' \in Nat /\ want' \in Int
    BY SendArguments DEF first_sent
  <1> QED
    BY <1>1, <1>2 DEF Parts, SignalPart, first_sent, signals

LEMMA OtherDirectiveStep == ASSUME Parts, other_directive PROVE Parts'
  <1>1. pc \in {"command", "simulated"} /\ (clin > 0 \/ repeat_remote' = repeat_remote)
    BY DEF Parts, CursorPart, other_directive, executing, repeats
  <1>2. TablePart' /\ CursorPart'
    BY <1>1, Answer DEF other_directive
  <1>3. RepeatPart' /\ SignalPart'
    BY DEF Parts, RepeatPart, SignalPart, other_directive, sockets, table, repeats, signals, cursor, history
  <1>4. AlarmHasRepeat'
    BY <1>1 DEF Parts, AlarmHasRepeat, other_directive, sockets, table, repeats, signals, cursor, history
  <1> QED
    BY <1>2, <1>3, <1>4 DEF Parts

LEMMA SendRefusedStep == ASSUME Parts, send_refused PROVE Parts'
  <1>1. pc \in {"command", "simulated"} /\ (clin > 0 \/ repeat_remote' = repeat_remote)
    BY DEF Parts, CursorPart, send_refused, executing, repeats
  <1>2. TablePart' /\ CursorPart'
    BY <1>1, Answer DEF send_refused
  <1>3. RepeatPart' /\ SignalPart'
    BY DEF Parts, RepeatPart, SignalPart, send_refused, sockets, table, repeats, signals, cursor, history
  <1>4. AlarmHasRepeat'
    BY <1>1 DEF Parts, AlarmHasRepeat, send_refused, sockets, table, repeats, signals, cursor, history
  <1> QED
    BY <1>2, <1>3, <1>4 DEF Parts

LEMMA StopRefusedStep == ASSUME Parts, stop_refused PROVE Parts'
  <1>1. pc \in {"command", "simulated"} /\ (clin > 0 \/ repeat_remote' = repeat_remote)
    BY DEF Parts, CursorPart, stop_refused, executing, repeats
  <1>2. TablePart' /\ CursorPart'
    BY <1>1, Answer DEF stop_refused
  <1>3. RepeatPart' /\ SignalPart'
    BY DEF Parts, RepeatPart, SignalPart, stop_refused, sockets, table, repeats, signals, cursor, history
  <1>4. AlarmHasRepeat'
    BY <1>1 DEF Parts, AlarmHasRepeat, stop_refused, sockets, table, repeats, signals, cursor, history
  <1> QED
    BY <1>2, <1>3, <1>4 DEF Parts

LEMMA SimulateAnswerStep == ASSUME Parts, simulate_answer PROVE Parts'
  <1>1. pc \in {"command", "simulated"} /\ (clin > 0 \/ repeat_remote' = repeat_remote)
    BY DEF Parts, CursorPart, simulate_answer, executing, repeats
  <1>2. TablePart' /\ CursorPart'
    BY <1>1, Answer DEF simulate_answer
  <1>3. RepeatPart' /\ SignalPart'
    BY DEF Parts, RepeatPart, SignalPart, simulate_answer, sockets, table, repeats, signals, cursor, history
  <1>4. AlarmHasRepeat'
    BY <1>1 DEF Parts, AlarmHasRepeat, simulate_answer, sockets, table, repeats, signals, cursor, history
  <1> QED
    BY <1>2, <1>3, <1>4 DEF Parts

LEMMA SendFailedStep == ASSUME Parts, send_failed PROVE Parts'
  <1>1. pc \in {"command", "simulated"} /\ (clin > 0 \/ repeat_remote' = repeat_remote)
    BY DEF Parts, CursorPart, send_failed, executing, repeats
  <1>2. TablePart' /\ CursorPart'
    BY <1>1, Answer DEF send_failed
  <1>3. RepeatPart' /\ SignalPart'
    <2>1. repeat_countdown' \in [Remotes -> Int] /\ transmit_state' \in Nat
      BY SendArguments DEF Parts, RepeatPart, send_failed
    <2> QED
      BY <2>1 DEF Parts, RepeatPart, SignalPart, send_failed, sockets, table, repeats, signals, cursor, history
  <1>4. AlarmHasRepeat'
    BY <1>1 DEF Parts, AlarmHasRepeat, send_failed, sockets, table, repeats, signals, cursor, history
  <1> QED
    BY <1>2, <1>3, <1>4 DEF Parts

LEMMA StopLaterStep == ASSUME Parts, stop_later PROVE Parts'
  <1>1. pc \in {"command", "simulated"} /\ (clin > 0 \/ repeat_remote' = repeat_remote)
    BY DEF Parts, CursorPart, stop_later, executing, repeats, stop_matches, done
  <1>2. TablePart' /\ CursorPart'
    BY <1>1, Answer DEF stop_later
  <1>3. RepeatPart' /\ SignalPart'
    <2>1. repeat_remote \in Remotes
      BY DEF Parts, RepeatPart, stop_later, stop_matches
    <2>2. MinRepeat[repeat_remote] \in Nat /\ RepeatMax \in Nat
      BY <2>1, ServerAssumption
    <2>3. repeat_countdown' \in [Remotes -> Int] /\ want' \in Int
      BY <2>1, <2>2 DEF Parts, RepeatPart, stop_later, done
    <2> QED
      BY <2>3 DEF Parts, RepeatPart, SignalPart, stop_later, sockets, table, repeats, signals, cursor, history
  <1>4. AlarmHasRepeat'
    BY <1>1 DEF Parts, AlarmHasRepeat, stop_later, sockets, table, repeats, signals, cursor, history, stop_matches, done
  <1> QED
    BY <1>2, <1>3, <1>4 DEF Parts

LEMMA StopNowStep == ASSUME Parts, stop_now PROVE Parts'
  <1>1. pc \in {"command", "simulated"} /\ (clin > 0 \/ repeat_remote' = repeat_remote)
    BY DEF Parts, CursorPart, stop_now, executing, repeats, stop_matches
  <1>2. TablePart' /\ CursorPart'
    BY <1>1, Answer DEF stop_now
  <1>3. RepeatPart' /\ SignalPart'
    BY DEF Parts, RepeatPart, SignalPart, stop_now, sockets, table, repeats, signals, cursor, history, stop_matches
  <1>4. AlarmHasRepeat'
    BY <1>1 DEF Parts, AlarmHasRepeat, stop_now, sockets, table, repeats, signals, cursor, history, stop_matches
  <1> QED
    BY <1>2, <1>3, <1>4 DEF Parts

LEMMA SendSingleStep == ASSUME Parts, send_single PROVE Parts'
  <1>1. pc \in {"command", "simulated"} /\ (clin > 0 \/ repeat_remote' = repeat_remote)
    BY DEF Parts, CursorPart, send_single, executing, repeats, first_sent
  <1>2. TablePart' /\ CursorPart'
    BY <1>1, Answer DEF send_single
  <1>3. RepeatPart' /\ SignalPart'
    BY FirstSent DEF Parts, RepeatPart, send_single
  <1>4. AlarmHasRepeat'
    BY <1>1 DEF Parts, AlarmHasRepeat, send_single, sockets, table, repeats, signals, cursor, history, first_sent
  <1> QED
    BY <1>2, <1>3, <1>4 DEF Parts

LEMMA SendOnceStep == ASSUME Parts, send_once PROVE Parts'
  <1>1. /\ pc = "command" /\ fd_ \in Fds /\ i \in Slots /\ clin > 0
        /\ batch \in Seq(Message) /\ batch # <<>>
    BY DEF Parts, CursorPart, send_once, first_sent, executing
  <1>2. cmd.remote \in Remotes /\ cmd.code \in Codes /\ NULL \notin Remotes \cup Codes
    BY SendArguments, ServerAssumption DEF send_once, first_sent
  <1>3. TablePart'
    BY <1>1, <1>2 DEF send_once, next_command, table, Parts, TablePart, TableType, SlotsOpen,
                      TableOK, HwOK, use_hw
  <1>4. RepeatPart' /\ SignalPart'
    <2>1. repeat_message' \in [owner : Nat, n : Nat]
      BY <1>1, HeadTail DEF send_once, Message
    <2>2. timer' \in BOOLEAN
      BY DEF send_once
    <2> QED
      BY <1>1, <1>2, <2>1, <2>2, FirstSent DEF Parts, RepeatPart, send_once
  <1>5. CursorPart'
    BY <1>1, SlotBounds, HeadTail
       DEF send_once, next_command, table, Parts, CursorPart, simulating, PCs
  <1>6. AlarmHasRepeat'
    <2>1. ~alrm /\ alrm' = alrm
      BY <1>1, FirstSent DEF Parts, AlarmHasRepeat, send_once, first_sent
    <2> QED
      BY <1>2, <2>1 DEF send_once, AlarmHasRepeat
  <1> QED
    BY <1>3, <1>4, <1>5, <1>6 DEF Parts

LEMMA SendStartStep == ASSUME Parts, send_start PROVE Parts'
  <1>1. /\ pc = "command" /\ fd_ \in Fds /\ i \in Slots /\ clin > 0
        /\ batch \in Seq(Message) /\ batch # <<>> /\ repeat_remote = NULL /\ repeat_code = NULL
    BY DEF Parts, CursorPart, RepeatPart, send_start, first_sent, executing
  <1>2. cmd.remote \in Remotes /\ cmd.code \in Codes /\ NULL \notin Remotes \cup Codes
    BY SendArguments, ServerAssumption DEF send_start, first_sent
  <1>3. PICK w \in write_socket(fd_) :
          /\ send_reply(fd_, Head(batch), TRUE, w)
          /\ timer' = (w \/ timer)
          /\ IF w
             THEN repeat_remote' = cmd.remote /\ repeat_code' = cmd.code /\ next_command
             ELSE repeat_remote' = NULL /\ repeat_code' = NULL /\ drop_client
    BY DEF send_start
  <1>4. w \in BOOLEAN
    BY <1>1, <1>3 DEF write_socket
  <1>5. out' \in [Fds -> Seq(Reply)]
    <2>1. Head(batch).owner \in Nat /\ Head(batch).n \in Nat
      BY <1>1, HeadTail DEF Message
    <2> QED
      BY <1>1, <1>3, <2>1, SendReply DEF Parts, CursorPart, TablePart
  <1>6. ~timer /\ ~alrm /\ timer \in BOOLEAN /\ alrm' = alrm
    BY <1>1, FirstSent DEF Parts, RepeatPart, AlarmHasRepeat, send_start
  <1>7. UNCHANGED <<j, revents, fd_, ret, relay, repeat_fd, repeat_message>>
    BY DEF send_start
  <1>8. CASE w
    <2>1. repeat_remote' = cmd.remote /\ repeat_code' = cmd.code /\ next_command /\ timer' = TRUE
      BY <1>3, <1>8
    <2>2. TablePart'
      BY <1>1, <1>2, <2>1 DEF next_command, table, Parts, TablePart, TableType, SlotsOpen,
                        TableOK, HwOK, use_hw
    <2>3. RepeatPart' /\ SignalPart'
      BY <1>2, <1>7, <2>1, FirstSent DEF Parts, RepeatPart, send_start
    <2>4. CursorPart'
      BY <1>1, <1>5, <1>7, <2>1, SlotBounds, HeadTail
         DEF next_command, table, Parts, CursorPart, simulating, PCs
    <2>5. AlarmHasRepeat'
      BY <1>2, <1>6, <2>1 DEF AlarmHasRepeat
    <2> QED
      BY <2>2, <2>3, <2>4, <2>5 DEF Parts
  <1>9. CASE ~w
    <2>1. repeat_remote' = NULL /\ repeat_code' = NULL /\ drop_client /\ timer' = timer
      BY <1>3, <1>6, <1>9
    <2>2. TablePart'
      BY <1>1, <2>1, RemoveClient DEF drop_client, Parts
    <2>3. RepeatPart' /\ SignalPart'
      BY <1>7, <2>1, FirstSent DEF Parts, RepeatPart, send_start
    <2>4. CursorPart'
      BY <1>1, <1>5, <1>7, <2>1, SlotBounds DEF drop_client, Parts, CursorPart, simulating, PCs
    <2>5. AlarmHasRepeat'
      BY <1>6, <2>1 DEF AlarmHasRepeat
    <2> QED
      BY <2>2, <2>3, <2>4, <2>5 DEF Parts
  <1> QED
    BY <1>4, <1>8, <1>9

LEMMA ReadCommandsStep == ASSUME Parts, read_commands PROVE Parts'
  <1>1. pc = "read" /\ fd_ \in Fds /\ i \in Slots /\ clin > 0 /\ inq[fd_] \in Seq(Message)
    BY DEF Parts, CursorPart, TablePart, TableType, read_commands
  <1>2. PICK n \in 1..Len(inq[fd_]) :
          /\ batch' = SubSeq(inq[fd_], 1, n)
          /\ inq' = [inq EXCEPT ![fd_] = SubSeq(@, n + 1, Len(@))]
    BY DEF read_commands
  <1>3. Len(inq[fd_]) \in Nat /\ n \in Nat /\ n >= 1
        /\ \A m \in 1..Len(inq[fd_]) : inq[fd_][m] \in Message
    BY <1>1, <1>2, LenProperties
  <1>4. batch' \in Seq(Message) /\ Len(batch') = n
    <2>1. \A m \in 1..n : inq[fd_][m] \in Message
      BY <1>2, <1>3
    <2> QED
      BY <1>2, <1>3, <2>1, SubSeqProperties
  <1>5. batch' # <<>>
    BY <1>3, <1>4
  <1>6. SubSeq(inq[fd_], n + 1, Len(inq[fd_])) \in Seq(Message)
    <2>1. \A m \in n + 1..Len(inq[fd_]) : inq[fd_][m] \in Message
      BY <1>3
    <2> QED
      BY <1>3, <2>1, SubSeqProperties
  <1>7. inq' \in [Fds -> Seq(Message)]
    BY <1>1, <1>2, <1>6 DEF Parts, TablePart, TableType
  <1>8. /\ pc' = "command"
        /\ UNCHANGED <<peer, owner, sent, out, conns, clis, cli_type, clin, hw, i, j,
                       revents, fd_, ret, relay, repeat_remote>>
    BY DEF read_commands, table, repeats
  <1>9. TablePart'
    BY <1>7, <1>8 DEF Parts, TablePart, TableType, SlotsOpen, TableOK, HwOK, use_hw
  <1>10. CursorPart'
    BY <1>1, <1>4, <1>5, <1>8 DEF Parts, CursorPart, simulating, PCs
  <1>11. RepeatPart' /\ SignalPart' /\ AlarmHasRepeat'
    BY <1>1 DEF Parts, RepeatPart, SignalPart, AlarmHasRepeat, read_commands, repeats, signals, history
  <1> QED
    BY <1>9, <1>10, <1>11 DEF Parts

LEMMA ReadEofStep == ASSUME Parts, read_eof PROVE Parts'
  <1>1. UNCHANGED repeats /\ drop_client /\ pc = "read" /\ fd_ \in Fds
    BY DEF Parts, CursorPart, read_eof
  <1>2. TablePart'
    BY <1>1, RemoveClient DEF drop_client, Parts, repeats
  <1>3. CursorPart'
    BY <1>1, SlotBounds DEF drop_client, read_eof, Parts, CursorPart, simulating, PCs
  <1>4. RepeatPart' /\ SignalPart' /\ AlarmHasRepeat'
    BY <1>1 DEF Parts, RepeatPart, SignalPart, AlarmHasRepeat, read_eof, drop_client, repeats, signals,
                history
  <1> QED
    BY <1>2, <1>3, <1>4 DEF Parts

(* The end of a repeat: the answer is typed, and the hardware released if  *)
(* there is no client. *)
LEMMA StopRepeating ==
  ASSUME Parts, NEW ok \in BOOLEAN, stop_repeating(ok),
         UNCHANGED <<peer, owner, sent, inq, conns, clis, cli_type, clin>>,
         use_hw(clin, repeat_remote)
  PROVE  /\ TablePart' /\ out' \in [Fds -> Seq(Reply)]
         /\ repeat_remote' = NULL /\ repeat_code' = NULL
         /\ repeat_fd' = NoFd /\ repeat_message' \in [owner : Nat, n : Nat]
  <1>1. out' \in [Fds -> Seq(Reply)]
    <2>1. repeat_message.owner \in Nat /\ repeat_message.n \in Nat
      BY DEF Parts, RepeatPart
    <2>2. CASE repeat_fd # NoFd
      <3>1. repeat_fd \in Fds
        BY <2>2 DEF Parts, RepeatPart
      <3>2. PICK w \in write_socket(repeat_fd) : send_reply(repeat_fd, repeat_message, ok, w)
        BY <2>2 DEF stop_repeating
      <3> QED
        BY <2>1, <3>1, <3>2, SendReply DEF Parts, CursorPart, TablePart
    <2>3. CASE repeat_fd = NoFd
      BY <2>3 DEF stop_repeating, Parts, CursorPart
    <2> QED
      BY <2>2, <2>3
  <1>2. hw' = (hw /\ use_hw(clin', repeat_remote')) /\ repeat_remote' = NULL
    BY DEF stop_repeating
  <1>3. HwOK'
    BY <1>2 DEF Parts, TablePart, HwOK
  <1>4. TableType' /\ SlotsOpen' /\ TableOK'
    <2>1. hw' \in BOOLEAN
      BY <1>2
    <2> QED
      BY <2>1 DEF Parts, TablePart, TableType, SlotsOpen, TableOK
  <1> QED
    BY <1>1, <1>2, <1>3, <1>4 DEF TablePart, stop_repeating, NoMessage

LEMMA RepeatInterruptedStep == ASSUME Parts, repeat_interrupted PROVE Parts'
  <1>1. repeat_remote # NULL /\ pc = "sigalrm" /\ pc' = "alrmclear"
    BY DEF Parts, AlarmHasRepeat, repeat_interrupted
  <1>2. stop_repeating(FALSE) /\ UNCHANGED <<peer, owner, sent, inq, conns, clis, cli_type, clin>>
    BY DEF repeat_interrupted, table
  <1>3. /\ TablePart' /\ out' \in [Fds -> Seq(Reply)]
        /\ repeat_remote' = NULL /\ repeat_code' = NULL
        /\ repeat_fd' = NoFd /\ repeat_message' \in [owner : Nat, n : Nat]
    BY <1>1, <1>2, StopRepeating DEF use_hw
  <1>4. RepeatPart' /\ SignalPart'
    BY <1>3 DEF Parts, RepeatPart, SignalPart, repeat_interrupted, signals, history
  <1>5. CursorPart'
    BY <1>1, <1>3 DEF Parts, CursorPart, simulating, PCs, repeat_interrupted, cursor, table
  <1>6. AlarmHasRepeat'
    <2>1. ~timer
      BY DEF Parts, AlarmHasRepeat, repeat_interrupted
    <2> QED
      BY <1>1, <2>1 DEF AlarmHasRepeat, repeat_interrupted
  <1> QED
    BY <1>3, <1>4, <1>5, <1>6 DEF Parts

LEMMA RepeatSendStep == ASSUME Parts, repeat_send PROVE Parts'
  <1> DEFINE r == repeat_remote
             c == repeat_code
             left == IF Links[c] = 0 \/ (transmit_state # 0 /\ transmit_state = Links[c])
                     THEN repeat_countdown[r] - 1 ELSE repeat_countdown[r]
  <1>1. /\ r \in Remotes /\ c \in Codes /\ r # NULL /\ pc = "sigalrm" /\ pc' = "alrmclear"
        /\ ~timer /\ alrm
    BY DEF Parts, RepeatPart, AlarmHasRepeat, repeat_send
  <1>2. PICK ok \in BOOLEAN :
            /\ repeat_countdown' = [repeat_countdown EXCEPT ![r] = left]
            /\ transmit_state' = IF ok THEN next_transmit_state(r, c, transmit_state)
                                       ELSE transmit_state
            /\ tx' = IF ok THEN tx + 1 ELSE tx
            /\ IF ok /\ left > 0
               THEN /\ timer' = TRUE
                    /\ UNCHANGED <<repeat_remote, repeat_code, repeat_fd, repeat_message, out, hw>>
               ELSE /\ stop_repeating(TRUE)
                    /\ UNCHANGED timer
    BY DEF repeat_send
  <1>3. /\ UNCHANGED <<peer, owner, sent, inq, conns, clis, cli_type, clin, last_code, alrm,
                       hup, term, hups, events, i, j, revents, fd_, batch, ret, relay, want>>
    BY DEF repeat_send, table, signals, cursor
  <1>4. repeat_countdown' \in [Remotes -> Int] /\ transmit_state' \in Nat /\ tx' \in Nat
    <2>1. Links[c] \in Nat
      BY <1>1, ServerAssumption
    <2>2. left \in Int
      BY <1>1, <2>1 DEF Parts, RepeatPart
    <2> QED
      BY <1>1, <1>2, <2>1, <2>2 DEF Parts, RepeatPart, next_transmit_state
  <1>5. CASE ok /\ left > 0
    <2>1. timer' = TRUE /\ UNCHANGED <<repeat_remote, repeat_code, repeat_fd, repeat_message, out, hw>>
      BY <1>2, <1>5
    <2>2. TablePart'
      BY <1>3, <2>1, SameTable DEF Parts
    <2>3. RepeatPart' /\ SignalPart'
      BY <1>3, <1>4, <2>1 DEF Parts, RepeatPart, SignalPart
    <2>4. CursorPart'
      BY <1>1, <1>3, <2>1 DEF Parts, CursorPart, simulating, PCs
    <2>5. AlarmHasRepeat'
      BY <1>1, <2>1 DEF AlarmHasRepeat
    <2> QED
      BY <2>2, <2>3, <2>4, <2>5 DEF Parts
  <1>6. CASE ~(ok /\ left > 0)
    <2>1. stop_repeating(TRUE) /\ timer' = timer
      BY <1>2, <1>6
    <2>2. /\ TablePart' /\ out' \in [Fds -> Seq(Reply)]
          /\ repeat_remote' = NULL /\ repeat_code' = NULL
          /\ repeat_fd' = NoFd /\ repeat_message' \in [owner : Nat, n : Nat]
      BY <1>1, <1>3, <2>1, StopRepeating DEF use_hw
    <2>3. RepeatPart' /\ SignalPart'
      BY <1>3, <1>4, <2>1, <2>2 DEF Parts, RepeatPart, SignalPart
    <2>4. CursorPart'
      BY <1>1, <1>3, <2>2 DEF Parts, CursorPart, simulating, PCs
    <2>5. AlarmHasRepeat'
      BY <1>1, <2>1 DEF AlarmHasRepeat
    <2> QED
      BY <2>2, <2>3, <2>4, <2>5 DEF Parts
  <1> QED
    BY <1>5, <1>6

LEMMA BroadcastWriteStep == ASSUME Parts, broadcast_write PROVE Parts'
  <1>1. /\ pc = "broadcast" /\ pc' = pc /\ j <= clin /\ clin' \in 0..MaxClients
        /\ UNCHANGED <<repeat_remote, repeat_code, repeat_fd, repeat_message, repeat_countdown,
                       last_code, transmit_state, timer, alrm, hup, term, hups, events, i, revents,
                       fd_, batch, ret, relay, tx, want>>
        /\ TablePart'
        /\ j' \in 1..MaxClients + 1 /\ out' = out
    <2>1. \/ j' = j + 1 /\ UNCHANGED <<sockets, table, hw>>
          \/ remove_client(clis[j]) /\ UNCHANGED <<j, out>>
      BY DEF broadcast_write
    <2>2. UNCHANGED repeats /\ UNCHANGED signals /\ j <= clin
      BY DEF broadcast_write
    <2>3. TablePart'
      BY <2>1, <2>2, SameTable, RemoveClient DEF Parts, repeats, sockets, table
    <2>4. j' \in 1..MaxClients + 1 /\ out' = out
      BY <2>1, <2>2, SlotBounds DEF Parts, CursorPart, TablePart, TableType, sockets
    <2> QED
      BY <2>2, <2>3, <2>4 DEF broadcast_write, repeats, signals, history, TablePart, TableType
  <1>2. CursorPart'
    BY <1>1 DEF Parts, CursorPart, simulating
  <1>3. RepeatPart' /\ SignalPart' /\ AlarmHasRepeat'
    BY <1>1 DEF Parts, RepeatPart, SignalPart, AlarmHasRepeat
  <1> QED
    BY <1>1, <1>2, <1>3 DEF Parts

LEMMA AddClient ==
  ASSUME TablePart, out \in [Fds -> Seq(Reply)], NEW type \in {"CT_LOCAL", "CT_REMOTE"},
         add_client(type), repeat_remote' = repeat_remote
  PROVE  TablePart' /\ out' \in [Fds -> Seq(Reply)]
  <1>1. CASE clin = MaxClients
    <2>1. conns' = conns + 1 /\ UNCHANGED <<peer, owner, sent, inq, out, clis, cli_type, clin, hw>>
      BY <1>1 DEF add_client, table
    <2> QED
      BY <2>1 DEF TablePart, TableType, SlotsOpen, TableOK, HwOK, use_hw
  <1>2. CASE clin # MaxClients
    <2>1. PICK fd \in Fds :
              /\ peer[fd] = "none"
              /\ peer' = [peer EXCEPT ![fd] = "open"]
              /\ owner' = [owner EXCEPT ![fd] = conns']
              /\ sent' = [sent EXCEPT ![fd] = 0]
              /\ inq' = [inq EXCEPT ![fd] = <<>>] /\ out' = [out EXCEPT ![fd] = <<>>]
              /\ cli_type' = [cli_type EXCEPT ![clin + 1] = type]
              /\ clis' = [clis EXCEPT ![clin + 1] = fd]
              /\ clin' = clin + 1
              /\ IF use_hw(clin, repeat_remote) THEN UNCHANGED hw ELSE hw' \in init_func
      BY <1>2 DEF add_client
    <2>2. conns' = conns + 1
      BY DEF add_client
    <2>3. clin + 1 \in 1..MaxClients /\ clin + 1 \in Slots /\ clin \in Nat
      BY <1>2, SlotBounds DEF TablePart, TableType
    <2>4. hw' \in BOOLEAN
      BY <2>1 DEF init_func, TablePart, TableType
    <2>5. inq' \in [Fds -> Seq(Message)] /\ out' \in [Fds -> Seq(Reply)]
      BY <2>1 DEF TablePart, TableType
    <2>6. TableType'
      BY <2>1, <2>2, <2>3, <2>4, <2>5 DEF TablePart, TableType, Types
    <2>7. \A k \in 1..clin' : clis'[k] = IF k = clin + 1 THEN fd ELSE clis[k]
      BY <2>1, <2>3, SlotBounds DEF TablePart, TableType
    <2>8. SlotsOpen'
      BY <2>1, <2>3, <2>7 DEF TablePart, SlotsOpen
    <2>9. TableOK'
      <3>1. \A k \in 1..clin : clis[k] # fd
        BY <2>1 DEF TablePart, TableOK
      <3>2. ASSUME NEW a \in 1..clin', NEW b \in 1..clin', clis'[a] = clis'[b] PROVE a = b
        BY <2>1, <2>3, <2>7, <3>1, <3>2 DEF TablePart, TableOK
      <3>3. ASSUME NEW g \in Fds PROVE peer'[g] # "none" <=> \E k \in 1..clin' : clis'[k] = g
        <4>1. CASE g = fd
          <5>1. clin + 1 \in 1..clin' /\ clis'[clin + 1] = g
            BY <2>1, <2>3, <2>7, <4>1
          <5> QED
            BY <2>1, <4>1, <5>1 DEF TablePart, TableType
        <4>2. CASE g # fd
          <5>1. peer'[g] = peer[g]
            BY <2>1, <4>2 DEF TablePart, TableType
          <5>2. (\E k \in 1..clin' : clis'[k] = g) <=> (\E k \in 1..clin : clis[k] = g)
            BY <2>1, <2>3, <2>7, <4>2
          <5> QED
            BY <5>1, <5>2 DEF TablePart, TableOK
        <4> QED
          BY <4>1, <4>2
      <3> QED
        BY <3>2, <3>3 DEF TableOK
    <2>10. HwOK'
      <3>1. use_hw(clin', repeat_remote')
        BY <2>1, <2>3 DEF use_hw
      <3>2. ~InitMayFail => hw'
        BY <2>1 DEF TablePart, HwOK, init_func
      <3> QED
        BY <3>1, <3>2 DEF HwOK
    <2> QED
      BY <2>5, <2>6, <2>8, <2>9, <2>10 DEF TablePart
  <1> QED
    BY <1>1, <1>2

LEMMA AcceptClientStep == ASSUME Parts, accept_client PROVE Parts'
  <1>1. PICK type \in {"CT_LOCAL", "CT_REMOTE"} :
          revents' = [revents EXCEPT !.listen = @ \ {type}] /\ add_client(type)
    BY DEF accept_client
  <1>2. TablePart' /\ out' \in [Fds -> Seq(Reply)]
    BY <1>1, AddClient DEF Parts, CursorPart, accept_client, repeats
  <1>3. revents' \in [cli : [Slots -> BOOLEAN], listen : SUBSET Listening,
                      peer : BOOLEAN, driver : BOOLEAN]
    BY <1>1 DEF Parts, CursorPart
  <1>4. pc = "accept" /\ UNCHANGED <<pc, i, j, fd_, batch, ret, relay>>
    BY DEF accept_client
  <1>5. CursorPart'
    BY <1>2, <1>3, <1>4 DEF Parts, CursorPart, simulating
  <1>6. RepeatPart' /\ SignalPart' /\ AlarmHasRepeat'
    BY <1>4 DEF Parts, RepeatPart, SignalPart, AlarmHasRepeat, accept_client, repeats, signals, history
  <1> QED
    BY <1>2, <1>5, <1>6 DEF Parts

LEMMA ClientSendStep == ASSUME Parts, NEW fd \in Fds, client_send(fd) PROVE Parts'
  <1>1. sent' \in [Fds -> Nat]
    BY DEF Parts, TablePart, TableType, client_send
  <1>2. inq' \in [Fds -> Seq(Message)]
    <2>1. PICK c \in Commands :
            inq' = [inq EXCEPT ![fd] = Append(@, [owner |-> owner[fd], n |-> sent[fd] + 1, cmd |-> c])]
      BY DEF client_send
    <2>2. [owner |-> owner[fd], n |-> sent[fd] + 1, cmd |-> c] \in Message
      BY DEF Message, Parts, TablePart, TableType
    <2> QED
      BY <2>1, <2>2 DEF Parts, TablePart, TableType
  <1>3. TablePart'
    BY <1>1, <1>2 DEF Parts, TablePart, TableType, SlotsOpen, TableOK, HwOK, use_hw, client_send, table, repeats
  <1>4. RepeatPart' /\ SignalPart' /\ AlarmHasRepeat'
    BY DEF Parts, RepeatPart, SignalPart, AlarmHasRepeat, client_send, repeats, signals, history
  <1>5. CursorPart'
    BY DEF Parts, CursorPart, simulating, client_send, cursor, table
  <1> QED
    BY <1>3, <1>4, <1>5 DEF Parts

LEMMA ClientCloseStep == ASSUME Parts, NEW fd \in Fds, client_close(fd) PROVE Parts'
  <1>1. peer' \in [Fds -> {"none", "open", "closed"}]
        /\ \A g \in Fds : peer'[g] = "none" <=> peer[g] = "none"
    BY DEF Parts, TablePart, TableType, client_close
  <1>2. UNCHANGED <<owner, sent, inq, conns, clis, cli_type, clin, hw, repeat_remote>>
    BY DEF client_close, table, repeats
  <1>3. TableType' /\ SlotsOpen' /\ HwOK'
    BY <1>1, <1>2 DEF Parts, TablePart, TableType, SlotsOpen, HwOK, use_hw
  <1>4. TableOK'
    BY <1>1, <1>2 DEF Parts, TablePart, TableOK
  <1>5. RepeatPart' /\ SignalPart' /\ AlarmHasRepeat'
    BY DEF Parts, RepeatPart, SignalPart, AlarmHasRepeat, client_close, repeats, signals, history
  <1>6. CursorPart'
    BY DEF Parts, CursorPart, simulating, client_close, cursor, table
  <1> QED
    BY <1>3, <1>4, <1>5, <1>6 DEF Parts, TablePart

(* The last step of the daemon leaves IndInv true, if trivially. *)
LEMMA DosigtermStep == ASSUME IndInv, dosigterm PROVE IndInv'
  <1>1. pc' = "exit" /\ timer' = FALSE
    BY DEF dosigterm
  <1>2. TypeOK'
    <2>1. hw' \in BOOLEAN /\ timer' \in BOOLEAN
      BY DEF dosigterm
    <2> QED
      BY <2>1, SMTT(30) DEF IndInv, TypeOK, dosigterm, table, signals, cursor, history, PCs
  <1>3. LoopInv'
    BY <1>1 DEF IndInv, LoopInv, simulating, dosigterm, table, cursor
  <1>4. TableMatchesSockets' /\ AlarmHasRepeat' /\ HwInv'
    BY <1>1 DEF TableMatchesSockets, AlarmHasRepeat, HwInv
  <1> QED
    BY <1>2, <1>3, <1>4 DEF IndInv

-----------------------------------------------------------------------------
LEMMA NextInd == IndInv /\ [Next]_vars => IndInv'
  <1> SUFFICES ASSUME IndInv, [Next]_vars PROVE IndInv'
    OBVIOUS
  <1>1. CASE UNCHANGED vars
    <2>1. TypeOK'
      BY <1>1, SMTT(30) DEF vars, sockets, table, repeats, signals, cursor, history, IndInv, TypeOK
    <2>2. LoopInv' /\ TableMatchesSockets'
      BY <1>1 DEF vars, sockets, table, repeats, cursor, IndInv, LoopInv, TableMatchesSockets,
                  simulating
    <2>3. AlarmHasRepeat' /\ HwInv'
      BY <1>1 DEF vars, table, repeats, IndInv, AlarmHasRepeat, HwInv, use_hw
    <2> QED
      BY <2>1, <2>2, <2>3 DEF IndInv
  <1>2. CASE Environment
    <2>1. Parts
      BY <1>2, IndHasParts DEF Environment
    <2>2. Parts'
      BY <1>2, <2>1, SigalrmStep, SighupStep, SigtermStep, ClientSendStep, ClientCloseStep
         DEF Environment
    <2> QED
      BY <2>2, PartsGiveInd
  <1>3. CASE Daemon
    <2>1. CASE dosigterm
      BY <2>1, DosigtermStep
    <2>2. CASE dosighup
      BY <2>2, IndHasParts, DosighupStep, PartsGiveInd DEF dosighup
    <2>3. CASE hup_clear
      BY <2>3, IndHasParts, HupClearStep, PartsGiveInd DEF hup_clear
    <2>4. CASE no_alarm
      BY <2>4, IndHasParts, NoAlarmStep, PartsGiveInd DEF no_alarm
    <2>5. CASE repeat_interrupted
      BY <2>5, IndHasParts, RepeatInterruptedStep, PartsGiveInd DEF repeat_interrupted
    <2>6. CASE repeat_send
      BY <2>6, IndHasParts, RepeatSendStep, PartsGiveInd DEF repeat_send
    <2>7. CASE alrm_clear
      BY <2>7, IndHasParts, AlrmClearStep, PartsGiveInd DEF alrm_clear
    <2>8. CASE enter_poll
      BY <2>8, IndHasParts, EnterPollStep, PartsGiveInd DEF enter_poll
    <2>9. CASE poll_return
      BY <2>9, IndHasParts, PollReturnStep, PartsGiveInd DEF poll_return
    <2>10. CASE serve_client
      BY <2>10, IndHasParts, ServeClientStep, PartsGiveInd DEF serve_client
    <2>11. CASE clients_served
      BY <2>11, IndHasParts, ClientsServedStep, PartsGiveInd DEF clients_served
    <2>12. CASE read_commands
      BY <2>12, IndHasParts, ReadCommandsStep, PartsGiveInd DEF read_commands
    <2>13. CASE read_eof
      BY <2>13, IndHasParts, ReadEofStep, PartsGiveInd DEF read_eof
    <2>14. CASE other_directive
      BY <2>14, IndHasParts, OtherDirectiveStep, PartsGiveInd DEF other_directive, executing
    <2>15. CASE send_refused
      BY <2>15, IndHasParts, SendRefusedStep, PartsGiveInd DEF send_refused, executing
    <2>16. CASE send_failed
      BY <2>16, IndHasParts, SendFailedStep, PartsGiveInd DEF send_failed, executing
    <2>17. CASE send_single
      BY <2>17, IndHasParts, SendSingleStep, PartsGiveInd DEF send_single, first_sent, executing
    <2>18. CASE send_once
      BY <2>18, IndHasParts, SendOnceStep, PartsGiveInd DEF send_once, first_sent, executing
    <2>19. CASE send_start
      BY <2>19, IndHasParts, SendStartStep, PartsGiveInd DEF send_start, first_sent, executing
    <2>20. CASE stop_refused
      BY <2>20, IndHasParts, StopRefusedStep, PartsGiveInd DEF stop_refused, executing
    <2>21. CASE stop_later
      BY <2>21, IndHasParts, StopLaterStep, PartsGiveInd DEF stop_later, stop_matches, executing
    <2>22. CASE stop_now
      BY <2>22, IndHasParts, StopNowStep, PartsGiveInd DEF stop_now, stop_matches, executing
    <2>23. CASE simulate
      BY <2>23, IndHasParts, SimulateStep, PartsGiveInd DEF simulate, executing
    <2>24. CASE simulate_answer
      BY <2>24, IndHasParts, SimulateAnswerStep, PartsGiveInd DEF simulate_answer
    <2>25. CASE broadcast_write
      BY <2>25, IndHasParts, BroadcastWriteStep, PartsGiveInd DEF broadcast_write
    <2>26. CASE broadcast_done
      BY <2>26, IndHasParts, BroadcastDoneStep, PartsGiveInd DEF broadcast_done
    <2>27. CASE peer_message
      BY <2>27, IndHasParts, PeerMessageStep, PartsGiveInd DEF peer_message
    <2>28. CASE accept_client
      BY <2>28, IndHasParts, AcceptClientStep, PartsGiveInd DEF accept_client
    <2>29. CASE all_accepted
      BY <2>29, IndHasParts, AllAcceptedStep, PartsGiveInd DEF all_accepted
    <2>30. CASE receive
      BY <2>30, IndHasParts, ReceiveStep, PartsGiveInd DEF receive
    <2>31. CASE nothing_received
      BY <2>31, IndHasParts, NothingReceivedStep, PartsGiveInd DEF nothing_received
    <2> QED
      BY <1>3, <2>1, <2>2, <2>3, <2>4, <2>5, <2>6, <2>7, <2>8, <2>9, <2>10, <2>11, <2>12, <2>13, <2>14, <2>15, <2>16, <2>17, <2>18, <2>19, <2>20, <2>21, <2>22, <2>23, <2>24, <2>25, <2>26, <2>27, <2>28, <2>29, <2>30, <2>31 DEF Daemon
  <1> QED
    BY <1>1, <1>2, <1>3 DEF Next

(* IndInv holds throughout, for any number of clients, remotes, codes and  *)
(* commands. *)
THEOREM IndInvariant == Spec => []IndInv
  <1> QED
    BY InitInd, NextInd, PTL DEF Spec

(* Every variable of the daemon keeps its type; the indices into clis[]    *)
(* stay within the array. *)
THEOREM TypeCorrect == Spec => []TypeOK
  <1>1. IndInv => TypeOK
    BY DEF IndInv
  <1> QED
    BY <1>1, IndInvariant, PTL

(* dosigalrm() never finds repeat_remote NULL, whatever SEND_STOP, hang-up *)
(* or signal comes between arming the timer and handling the alarm.        *)
THEOREM AlarmSafe == Spec => []AlarmHasRepeat
  <1>1. IndInv => AlarmHasRepeat
    BY DEF IndInv
  <1> QED
    BY <1>1, IndInvariant, PTL

(* remove_client() and add_client() keep clis[0..clin) and the open        *)
(* sockets in step.                                                        *)
THEOREM TableSafe == Spec => []TableMatchesSockets
  <1>1. IndInv => TableMatchesSockets
    BY DEF IndInv
  <1> QED
    BY <1>1, IndInvariant, PTL

(* The hardware is open while, and only while, a client or a repeat uses   *)
(* it.                                                                     *)
THEOREM HwSafe == Spec => []HwMatchesUse
  <1>1. IndInv => HwMatchesUse
    BY DEF IndInv, HwInv, HwMatchesUse
  <1> QED
    BY <1>1, IndInvariant, PTL

-----------------------------------------------------------------------------
(* What the repeat engine counts: the timer of a repeat, the transmissions *)
(* done and left, and min_repeat. *)

(* The steps of send_core(), dosigalrm(), send_stop() and dosigterm() that *)
(* begin, count or end a repeat. *)
RepeatStep ==
    \/ send_failed \/ send_single \/ send_once \/ send_start
    \/ stop_later \/ stop_now
    \/ repeat_send \/ repeat_interrupted
    \/ dosigterm

counters == <<repeat_remote, repeat_code, repeat_countdown, tx, want>>

(* Every other step, a client's or a handler's, leaves the repeat alone. *)
LEMMA CountersKept ==
  ASSUME [Next]_vars, ~RepeatStep
  PROVE  UNCHANGED counters
  <1>1. CASE UNCHANGED vars
    BY <1>1 DEF vars, repeats, history, counters
  <1>2. CASE Environment
    BY <1>2 DEF Environment, sigalrm, sighup, sigterm, client_send, client_close, repeats, history,
                counters
  <1>3. CASE \/ dosighup \/ hup_clear \/ no_alarm \/ alrm_clear \/ enter_poll \/ poll_return
             \/ serve_client \/ clients_served \/ read_commands \/ read_eof
    BY <1>3 DEF dosighup, hup_clear, no_alarm, alrm_clear, enter_poll, poll_return, serve_client,
                clients_served, read_commands, read_eof, repeats, history, counters
  <1>4. CASE other_directive \/ send_refused \/ stop_refused \/ simulate \/ simulate_answer
    BY <1>4 DEF other_directive, send_refused, stop_refused, simulate, simulate_answer, repeats,
                history, counters
  <1>5. CASE \/ broadcast_write \/ broadcast_done \/ peer_message
             \/ accept_client \/ all_accepted \/ receive \/ nothing_received
    BY <1>5 DEF broadcast_write, broadcast_done, peer_message, accept_client, all_accepted,
                receive, nothing_received, repeats, history, counters
  <1> QED
    BY <1>1, <1>2, <1>3, <1>4, <1>5 DEF Next, Daemon, RepeatStep

-----------------------------------------------------------------------------
(* The timer *)

(* SIGALRM does not hit the instructions between dosigalrm() and "alrm =   *)
(* 0": there the flag of an alarm that has just come would be wiped out.   *)
AlarmNotWiped == pc = "alrmclear" => ~sigalrm

LEMMA TimerKept == ASSUME IndInv, TimerInv, [Next]_vars, [AlarmNotWiped]_vars PROVE TimerInv'
  <1>1. CASE UNCHANGED vars
    BY <1>1 DEF vars, repeats, TimerInv
  <1>2. CASE Environment
    <2>1. CASE sigalrm
      <3>1. pc # "alrmclear"
        BY <2>1 DEF AlarmNotWiped, sigalrm, vars, repeats, IndInv, TypeOK
      <3> QED
        BY <2>1, <3>1 DEF sigalrm, interrupted, TimerInv
    <2> QED
      BY <1>2, <2>1 DEF Environment, sighup, sigterm, client_send, client_close, interrupted,
                        repeats, TimerInv
  <1>3. CASE repeat_send
    <2>1. repeat_remote' = NULL \/ timer'
      BY <1>3 DEF repeat_send, stop_repeating
    <2> QED
      BY <2>1 DEF TimerInv
  <1>4. CASE repeat_interrupted \/ dosigterm \/ stop_now
    BY <1>4 DEF repeat_interrupted, stop_repeating, dosigterm, stop_now, TimerInv
  <1>5. CASE send_once \/ send_start
    <2>1. repeat_remote' = NULL \/ timer'
      BY <1>5 DEF send_once, send_start
    <2> QED
      BY <2>1 DEF TimerInv
  <1>6. CASE send_failed \/ send_single
    BY <1>6 DEF send_failed, send_single, first_sent, TimerInv
  <1>7. CASE stop_later \/ other_directive \/ send_refused \/ stop_refused \/ simulate_answer
    <2>1. pc \in {"command", "simulated"} /\ UNCHANGED <<repeat_remote, timer, alrm>>
      BY <1>7 DEF stop_later, stop_matches, other_directive, send_refused, stop_refused,
                  simulate_answer, executing, repeats
    <2>2. pc' \in {"clients", "command"}
      BY <1>7 DEF stop_later, other_directive, send_refused, stop_refused, simulate_answer, answer,
                  next_command, drop_client
    <2> QED
      BY <2>1, <2>2 DEF TimerInv
  <1>8. CASE alrm_clear
    BY <1>8 DEF alrm_clear, TimerInv
  <1>9. CASE read_eof
    BY <1>9 DEF read_eof, drop_client, repeats, TimerInv
  <1>10. CASE \/ dosighup \/ hup_clear \/ no_alarm \/ enter_poll \/ poll_return \/ serve_client
              \/ clients_served \/ read_commands \/ simulate
    BY <1>10 DEF dosighup, hup_clear, no_alarm, enter_poll, poll_return, serve_client,
                 clients_served, read_commands, simulate, executing, repeats, TimerInv
  <1>11. CASE broadcast_write \/ broadcast_done
    BY <1>11 DEF broadcast_write, broadcast_done, repeats, TimerInv, IndInv, TypeOK
  <1>12. CASE peer_message \/ accept_client \/ all_accepted \/ receive \/ nothing_received
    BY <1>12 DEF peer_message, accept_client, all_accepted, receive, nothing_received, repeats,
                 TimerInv
  <1> QED
    BY <1>1, <1>2, <1>3, <1>4, <1>5, <1>6, <1>7, <1>8, <1>9, <1>10, <1>11, <1>12 DEF Next, Daemon

(* A repeat under way always has a timer that runs or an alarm that will   *)
(* be looked at, unless SIGALRM hits the one window after dosigalrm().     *)
THEOREM RepeatGoesOn == Spec /\ [][AlarmNotWiped]_vars => []RepeatHasAlarm
  <1>1. Init => TimerInv
    BY DEF Init, TimerInv
  <1>2. IndInv /\ TimerInv /\ [Next]_vars /\ [AlarmNotWiped]_vars => TimerInv'
    BY TimerKept
  <1>3. TimerInv => RepeatHasAlarm
    BY DEF TimerInv, RepeatHasAlarm
  <1> QED
    BY <1>1, <1>2, <1>3, IndInvariant, PTL DEF Spec

(* In particular where signals do not hit the windows. *)
THEOREM RepeatGoesOnOutsideWindows == ASSUME ~SignalWindows PROVE Spec => []RepeatHasAlarm
  <1>1. [Next]_vars => [AlarmNotWiped]_vars
    BY DEF AlarmNotWiped, sigalrm
  <1> QED
    BY <1>1, RepeatGoesOn, PTL DEF Spec

-----------------------------------------------------------------------------
(* The countdown *)

(* send_stop() takes repeat_max minus the countdown for the repeats done,  *)
(* which is right of a repeat that counts down from repeat_max: SEND_START *)
(* and a first SEND_STOP, not SEND_ONCE with fewer repeats.                *)
StopCounts == stop_matches => want = RepeatMax

LEMMA CountKept ==
  ASSUME IndInv, CountInv, [Next]_vars, [StopCounts]_vars
  PROVE  CountInv'
  <1>1. CASE ~RepeatStep
    BY <1>1, CountersKept DEF counters, CountInv
  <1>2. CASE repeat_interrupted \/ dosigterm \/ stop_now \/ send_failed \/ send_single
    BY <1>2 DEF repeat_interrupted, stop_repeating, dosigterm, stop_now, send_failed, send_single,
                first_sent, CountInv
  <1>3. CASE send_once \/ send_start
    <2> SUFFICES ASSUME repeat_remote' # NULL PROVE CountInv'
      BY DEF CountInv
    <2>1. Parts /\ first_sent /\ repeat_remote' = cmd.remote /\ repeat_code' = cmd.code
      BY <1>3, IndHasParts DEF send_once, send_start, first_sent, executing
    <2>2. cmd \in Commands /\ cmd.remote \in Remotes /\ cmd.reps \in Int
      <3>1. batch \in Seq(Message) /\ batch # <<>>
        BY <2>1 DEF Parts, CursorPart, first_sent, executing
      <3>2. cmd \in Commands
        BY <3>1, HeadTail DEF cmd, Message
      <3>3. cmd.op \in {"SEND_ONCE", "SEND_START"}
        BY <2>1 DEF first_sent, executing
      <3> QED
        BY <3>2, <3>3, ServerAssumption DEF Command
    <2>3. /\ countdown \in Int
          /\ MinRepeat[cmd.remote] <= RepeatMax => MinRepeat[cmd.remote] <= countdown
      BY <2>2, ServerAssumption DEF countdown, Max2
    <2>4. /\ repeat_countdown'[cmd.remote] = countdown
          /\ tx' = 1 /\ want' = countdown
      BY <2>1, <2>2 DEF first_sent, Parts, RepeatPart
    <2> QED
      BY <2>1, <2>3, <2>4 DEF CountInv
  <1>4. CASE stop_later
    <2>1. Parts /\ pc = "command" /\ repeat_remote \in Remotes /\ want = RepeatMax
      <3>1. Parts /\ pc = "command" /\ stop_matches
        BY <1>4, IndHasParts DEF stop_later, stop_matches, executing
      <3>2. pc' # pc \/ batch' # batch
        <4>1. batch \in Seq(Message) /\ batch # <<>>
          BY <3>1 DEF Parts, CursorPart
        <4>2. pc' = "clients" \/ batch' = Tail(batch)
          BY <1>4 DEF stop_later, answer, next_command, drop_client
        <4> QED
          BY <3>1, <4>1, <4>2, HeadTailProperties
      <3>3. ~UNCHANGED vars
        BY <3>2 DEF vars, cursor
      <3> QED
        BY <3>1, <3>3 DEF StopCounts, stop_matches, Parts, RepeatPart
    <2>2. repeat_countdown[repeat_remote] \in Int /\ MinRepeat[repeat_remote] \in Nat
          /\ RepeatMax \in Nat /\ tx \in Nat
      BY <2>1, ServerAssumption DEF Parts, RepeatPart
    <2>3. /\ repeat_countdown'[repeat_remote] =
                MinRepeat[repeat_remote] - (RepeatMax - repeat_countdown[repeat_remote])
          /\ want' = MinRepeat[repeat_remote]
          /\ UNCHANGED <<repeat_remote, repeat_code, tx>>
      BY <1>4, <2>1 DEF stop_later, done, Parts, RepeatPart
    <2> QED
      BY <2>1, <2>2, <2>3 DEF CountInv
  <1>5. CASE repeat_send
    <2> SUFFICES ASSUME repeat_remote' # NULL PROVE CountInv'
      BY DEF CountInv
    <2>1. Parts /\ repeat_remote \in Remotes
      BY <1>5, IndHasParts DEF repeat_send, Parts, RepeatPart, AlarmHasRepeat
    <2>2. repeat_countdown \in [Remotes -> Int] /\ tx \in Nat /\ want \in Int
      BY <2>1 DEF Parts, RepeatPart
    <2>3. /\ UNCHANGED <<repeat_remote, repeat_code, want>>
          /\ tx' = tx + 1
          /\ Links[repeat_code] = 0 =>
                repeat_countdown'[repeat_remote] = repeat_countdown[repeat_remote] - 1
      BY <1>5, <2>1, <2>2 DEF repeat_send, stop_repeating
    <2> QED
      BY <2>1, <2>2, <2>3 DEF CountInv
  <1> QED
    BY <1>1, <1>2, <1>3, <1>4, <1>5 DEF RepeatStep

LEMMA CountInvariant == Spec /\ [][StopCounts]_vars => []CountInv
  <1>1. Init => CountInv
    BY DEF Init, CountInv
  <1>2. IndInv /\ CountInv /\ [Next]_vars /\ [StopCounts]_vars => CountInv'
    BY CountKept
  <1> QED
    BY <1>1, <1>2, IndInvariant, PTL DEF Spec

(* Transmissions done and left add up to what SEND_ONCE, SEND_START or the *)
(* last SEND_STOP asked for, as long as SEND_STOP meets only repeats that  *)
(* count down from repeat_max. *)
THEOREM RepeatsCounted == Spec /\ [][StopCounts]_vars => []RepeatAccounting
  <1>1. CountInv => RepeatAccounting
    BY DEF CountInv, RepeatAccounting
  <1> QED
    BY <1>1, CountInvariant, PTL

(* min_repeat *)

(* The step that ends a repeat has sent more than min_repeat signals, the  *)
(* first one and at least min_repeat repeats. *)
LEMMA EndHonours ==
  ASSUME \A r \in Remotes : MinRepeat[r] <= RepeatMax,
         IndInv, CountInv, [Next]_vars, [StopCounts]_vars,
         repeat_remote # NULL, repeat_remote' = NULL, pc' # "exit",
         Links[repeat_code] = 0, last_code[repeat_remote] = repeat_code,
         pc' = "alrmclear" => tx' # tx
  PROVE  tx' > MinRepeat[repeat_remote]
  <1>0. /\ repeat_remote \in Remotes /\ repeat_countdown[repeat_remote] \in Int
        /\ MinRepeat[repeat_remote] \in Nat /\ RepeatMax \in Nat /\ tx \in Nat /\ want \in Int
    BY ServerAssumption DEF IndInv, TypeOK
  <1>1. /\ tx + repeat_countdown[repeat_remote] = want + 1
        /\ MinRepeat[repeat_remote] <= want
    BY <1>0 DEF CountInv
  <1>2. RepeatStep
    BY CountersKept DEF counters
  <1>3. CASE stop_now
    <2>1. ~UNCHANGED vars
      BY DEF vars, repeats
    <2>2. want = RepeatMax /\ tx' = tx /\ done >= MinRepeat[repeat_remote]
      BY <1>3, <2>1 DEF stop_now, StopCounts, history
    <2> QED
      BY <1>0, <1>1, <2>2 DEF done
  <1>4. CASE repeat_send
    <2>1. PICK ok \in BOOLEAN :
            /\ tx' = IF ok THEN tx + 1 ELSE tx
            /\ ok /\ repeat_countdown[repeat_remote] - 1 > 0 => repeat_remote' = repeat_remote
            /\ pc' = "alrmclear"
      BY <1>4 DEF repeat_send
    <2>2. ok /\ ~(repeat_countdown[repeat_remote] - 1 > 0)
      BY <2>1
    <2>3. tx' = tx + 1 /\ repeat_countdown[repeat_remote] - 1 <= 0
      BY <1>0, <2>1, <2>2
    <2> QED
      BY <1>0, <1>1, <2>3
  <1>5. CASE \/ send_failed \/ send_single \/ send_once \/ send_start \/ stop_later
             \/ repeat_interrupted \/ dosigterm
    BY <1>5 DEF send_failed, send_single, send_once, send_start, first_sent, stop_later,
                repeat_interrupted, dosigterm
  <1> QED
    BY <1>2, <1>3, <1>4, <1>5 DEF RepeatStep

(* "Code is repeated at least x times": a repeat that is neither           *)
(* interrupted by another button nor given up by the transmitter nor       *)
(* stopped by a SEND_STOP that counts wrongly sends min_repeat repeats, if *)
(* repeat_max allows for as many. *)
THEOREM MinRepeatSent ==
  ASSUME \A r \in Remotes : MinRepeat[r] <= RepeatMax
  PROVE  Spec /\ [][StopCounts]_vars => MinRepeatHonoured
  <1>1. IndInv /\ CountInv /\ [Next]_vars /\ [StopCounts]_vars =>
          [ /\ repeat_remote # NULL /\ repeat_remote' = NULL /\ pc' # "exit"
            /\ Links[repeat_code] = 0 /\ last_code[repeat_remote] = repeat_code
            /\ pc' = "alrmclear" => tx' # tx
            => tx' > MinRepeat[repeat_remote] ]_vars
    BY EndHonours
  <1> QED
    BY <1>1, CountInvariant, IndInvariant, PTL DEF Spec, MinRepeatHonoured

-----------------------------------------------------------------------------
(* Answers of lircd reach the client that asked, once and in order.        *)

(* What the loop relies on when a client waits for the end of its          *)
(* SEND_ONCE: mywaitfordata() leaves it out of the poll set, and nobody    *)
(* closes its socket, so that repeat_fd still stands for it.  The slots    *)
(* poll() marked are worked off while the table is shifted, and a          *)
(* broadcast closes the sockets it cannot write to: neither is true of     *)
(* every behaviour. *)
WaiterNotRead == serve_client => fd_' # repeat_fd
WaiterConnected == repeat_fd # NoFd /\ pc # "exit" => peer[repeat_fd] # "none"

executed == pc = "command" \/ simulating

AnswerTypes ==
    /\ peer \in [Fds -> {"none", "open", "closed"}]
    /\ owner \in [Fds -> Nat] /\ sent \in [Fds -> Nat]
    /\ inq \in [Fds -> Seq(Message)] /\ out \in [Fds -> Seq(Reply)]
    /\ clis \in [Slots -> Fds \cup {NoFd}]
    /\ repeat_fd \in Fds \cup {NoFd}
    /\ repeat_message \in [owner : Nat, n : Nat]
    /\ pc \in PCs
    /\ batch \in Seq(Message)
    /\ NoFd \notin Fds

LEMMA AnswerTyped == IndInv => AnswerTypes
  <1>1. NoFd \notin Fds
    BY ServerAssumption DEF NoFd
  <1> QED
    BY <1>1 DEF IndInv, TypeOK, AnswerTypes

LEMMA AnswerInit == Init => AnswerInv
  BY DEF Init, AnswerInv, AnswersInOrder, simulating

-----------------------------------------------------------------------------
(* A step that moves only the loop. *)
LEMMA LoopStep ==
  ASSUME AnswerInv, UNCHANGED <<owner, sent, out, inq, repeat_fd, repeat_message>>,
         pc' = "read" => repeat_fd # fd_',
         executed' => executed /\ UNCHANGED <<batch, fd_>>
  PROVE  AnswerInv'
  <1>1. AnswersInOrder'
    BY DEF AnswerInv, AnswersInOrder
  <1>2. \A fd \in Fds : inq'[fd] # <<>> =>
            /\ Len(inq'[fd]) = 1 /\ Due(fd, inq[fd][1])'
            /\ repeat_fd' # fd
    BY DEF AnswerInv, Due
  <1>3. pc' = "read" \/ executed' => repeat_fd' # fd_'
    BY DEF AnswerInv, executed
  <1>4. executed' => Len(batch') = 1 /\ Due(fd_, batch[1])' /\ inq'[fd_'] = <<>>
    BY DEF AnswerInv, executed, Due
  <1>5. repeat_fd' # NoFd => Due(repeat_fd, repeat_message)'
    BY DEF AnswerInv, Due
  <1> QED
    BY <1>1, <1>2, <1>3, <1>4, <1>5 DEF AnswerInv, executed

(* A step that moves the loop and may have closed one client. *)
LEMMA CloseStep ==
  ASSUME AnswerInv, AnswerTypes, UNCHANGED <<owner, sent, out, repeat_fd, repeat_message>>,
         \A fd \in Fds : inq'[fd] \in {inq[fd], <<>>},
         pc' # "read",
         executed' => executed /\ UNCHANGED <<batch, fd_>> /\ fd_ \in Fds
  PROVE  AnswerInv'
  <1>1. AnswersInOrder'
    BY DEF AnswerInv, AnswersInOrder
  <1>2. ASSUME NEW fd \in Fds, inq'[fd] # <<>>
        PROVE  /\ Len(inq'[fd]) = 1 /\ Due(fd, inq[fd][1])'
               /\ repeat_fd' # fd
    <2>1. inq'[fd] = inq[fd] /\ inq[fd] # <<>>
      BY <1>2
    <2> QED
      BY <2>1 DEF AnswerInv, Due
  <1>3. pc' = "read" \/ executed' => repeat_fd' # fd_'
    BY DEF AnswerInv, executed
  <1>4. executed' => Len(batch') = 1 /\ Due(fd_, batch[1])' /\ inq'[fd_'] = <<>>
    BY DEF AnswerInv, executed, Due
  <1>5. repeat_fd' # NoFd => Due(repeat_fd, repeat_message)'
    BY DEF AnswerInv, Due
  <1> QED
    BY <1>1, <1>2, <1>3, <1>4, <1>5 DEF AnswerInv, executed

(* remove_client() empties at most the queue of the client it closes. *)
LEMMA RemovedQueue ==
  ASSUME AnswerTypes, NEW fd, remove_client(fd)
  PROVE  /\ \A f \in Fds : inq'[f] \in {inq[f], <<>>}
         /\ UNCHANGED <<owner, sent>>
  BY DEF remove_client, AnswerTypes

(* The answer that is due goes behind the earlier ones. *)
LEMMA Replied ==
  ASSUME AnswerTypes, AnswersInOrder, NEW fd \in Fds, NEW msg, Due(fd, msg),
         NEW ok \in BOOLEAN, NEW w, send_reply(fd, msg, ok, w), UNCHANGED <<owner, sent>>
  PROVE  /\ AnswersInOrder'
         /\ \A f \in Fds : f # fd => out'[f] = out[f]
  <1>1. CASE out' = out
    BY <1>1 DEF AnswersInOrder
  <1>2. CASE out' # out
    <2> DEFINE r == [owner |-> msg.owner, n |-> msg.n, ok |-> ok]
    <2>1. out' = [out EXCEPT ![fd] = Append(@, r)]
      BY <1>2 DEF send_reply
    <2>2. out[fd] \in Seq(Reply) /\ Len(out[fd]) \in Nat
      BY DEF AnswerTypes
    <2>3. /\ Len(out'[fd]) = Len(out[fd]) + 1
          /\ out'[fd][Len(out[fd]) + 1] = r
          /\ \A k \in 1..Len(out[fd]) : out'[fd][k] = out[fd][k]
      BY <2>1, <2>2 DEF AnswerTypes
    <2>4. \A f \in Fds : f # fd => out'[f] = out[f]
      BY <2>1 DEF AnswerTypes
    <2>5. ASSUME NEW k \in 1..Len(out'[fd])
          PROVE  /\ out'[fd][k].owner = owner[fd] /\ out'[fd][k].n <= sent[fd]
                 /\ k > 1 => out'[fd][k - 1].n < out'[fd][k].n
      <3>1. CASE k <= Len(out[fd])
        <4>1. k \in 1..Len(out[fd]) /\ (k > 1 => k - 1 \in 1..Len(out[fd]))
          BY <2>2, <2>3, <2>5, <3>1
        <4>2. /\ out'[fd][k] = out[fd][k]
              /\ k > 1 => out'[fd][k - 1] = out[fd][k - 1]
          BY <2>3, <4>1
        <4> QED
          BY <4>1, <4>2 DEF AnswersInOrder
      <3>2. CASE k = Len(out[fd]) + 1
        <4>1. out'[fd][k] = r /\ r.owner = owner[fd] /\ r.n = sent[fd] /\ sent[fd] \in Nat
          BY <2>3, <3>2 DEF Due, AnswerTypes
        <4>2. k > 1 => out'[fd][k - 1].n < sent[fd]
          BY <2>2, <2>3, <3>2 DEF Due
        <4> QED
          BY <4>1, <4>2
      <3> QED
        BY <2>2, <2>3, <2>5, <3>1, <3>2
    <2> HIDE DEF r
    <2>6. ASSUME NEW f \in Fds, NEW k \in 1..Len(out'[f])
          PROVE  /\ out'[f][k].owner = owner'[f] /\ out'[f][k].n <= sent'[f]
                 /\ k > 1 => out'[f][k - 1].n < out'[f][k].n
      <3>1. CASE f = fd
        BY <2>5, <2>6, <3>1
      <3>2. CASE f # fd
        BY <2>4, <2>6, <3>2 DEF AnswersInOrder
      <3> QED
        BY <3>1, <3>2
    <2> QED
      BY <2>4, <2>6 DEF AnswersInOrder
  <1> QED
    BY <1>1, <1>2

-----------------------------------------------------------------------------
(* A handler that answers its command at once. *)
LEMMA AnswerStep ==
  ASSUME Parts, AnswerTypes, AnswerInv, pc \in {"command", "simulated"},
         UNCHANGED <<repeat_fd, repeat_message>>, NEW ok \in BOOLEAN, answer(ok)
  PROVE  AnswerInv'
  <1>1. /\ executed /\ fd_ \in Fds /\ batch # <<>> /\ Head(batch) = batch[1]
        /\ Len(batch) = 1 /\ Due(fd_, batch[1]) /\ inq[fd_] = <<>> /\ repeat_fd # fd_
    BY DEF Parts, CursorPart, AnswerTypes, AnswerInv, simulating, executed
  <1>2. PICK w \in write_socket(fd_) :
            /\ send_reply(fd_, Head(batch), ok, w)
            /\ IF w THEN next_command ELSE drop_client
    BY DEF answer
  <1>3. /\ \A f \in Fds : inq'[f] \in {inq[f], <<>>}
        /\ UNCHANGED <<owner, sent>>
        /\ pc' = "clients"
    <2>1. CASE next_command
      BY <1>1, <2>1 DEF next_command
    <2>2. CASE drop_client
      BY <2>2, RemovedQueue DEF drop_client
    <2> QED
      BY <1>2, <2>1, <2>2
  <1>4. AnswersInOrder' /\ \A f \in Fds : f # fd_ => out'[f] = out[f]
    BY <1>1, <1>2, <1>3, Replied DEF AnswerInv
  <1>5. ASSUME NEW fd \in Fds, inq'[fd] # <<>>
        PROVE  /\ Len(inq'[fd]) = 1 /\ Due(fd, inq[fd][1])'
               /\ repeat_fd' # fd
    <2>1. inq'[fd] = inq[fd] /\ inq[fd] # <<>> /\ fd # fd_
      BY <1>1, <1>3, <1>5
    <2>2. out'[fd] = out[fd]
      BY <1>4, <2>1
    <2> QED
      BY <1>3, <2>1, <2>2 DEF AnswerInv, Due
  <1>6. ASSUME repeat_fd' # NoFd PROVE Due(repeat_fd, repeat_message)'
    <2>1. repeat_fd \in Fds /\ out'[repeat_fd] = out[repeat_fd]
      BY <1>1, <1>4, <1>6 DEF AnswerTypes
    <2> QED
      BY <1>3, <1>6, <2>1 DEF AnswerInv, Due
  <1> QED
    BY <1>3, <1>4, <1>5, <1>6 DEF AnswerInv, simulating

(* The end of a repeat answers the SEND_ONCE that began it. *)
LEMMA StopRepeatingStep ==
  ASSUME AnswerTypes, AnswerInv, NEW ok \in BOOLEAN, stop_repeating(ok), pc' = "alrmclear",
         UNCHANGED <<owner, sent, inq>>
  PROVE  AnswerInv'
  <1>1. AnswersInOrder' /\ \A f \in Fds : f # repeat_fd => out'[f] = out[f]
    <2>1. CASE repeat_fd = NoFd
      BY <2>1 DEF stop_repeating, AnswerInv, AnswersInOrder
    <2>2. CASE repeat_fd # NoFd
      <3>1. repeat_fd \in Fds /\ Due(repeat_fd, repeat_message)
        BY <2>2 DEF AnswerTypes, AnswerInv
      <3>2. PICK w \in write_socket(repeat_fd) : send_reply(repeat_fd, repeat_message, ok, w)
        BY <2>2 DEF stop_repeating
      <3> QED
        BY <3>1, <3>2, Replied DEF AnswerInv
    <2> QED
      BY <2>1, <2>2
  <1>2. ASSUME NEW fd \in Fds, inq'[fd] # <<>>
        PROVE  /\ Len(inq'[fd]) = 1 /\ Due(fd, inq[fd][1])'
               /\ repeat_fd' # fd
    <2>1. inq[fd] # <<>> /\ fd # repeat_fd
      BY <1>2 DEF AnswerInv
    <2>2. out'[fd] = out[fd]
      BY <1>1, <2>1
    <2>3. repeat_fd' # fd
      BY DEF stop_repeating, AnswerTypes
    <2> QED
      BY <2>1, <2>2, <2>3 DEF AnswerInv, Due
  <1>3. repeat_fd' = NoFd
    BY DEF stop_repeating
  <1> QED
    BY <1>1, <1>2, <1>3 DEF AnswerInv, simulating

(* The answer to SEND_ONCE is put off. *)
LEMMA AnswerPutOff == ASSUME Parts, AnswerTypes, AnswerInv, send_once PROVE AnswerInv'
  <1>1. /\ pc = "command" /\ fd_ \in Fds /\ Head(batch) = batch[1]
        /\ Len(batch) = 1 /\ Due(fd_, batch[1]) /\ inq[fd_] = <<>>
    BY DEF send_once, first_sent, executing, Parts, CursorPart, AnswerTypes, AnswerInv
  <1>2. /\ repeat_fd' = fd_ /\ repeat_message' = [owner |-> Head(batch).owner, n |-> Head(batch).n]
        /\ UNCHANGED <<owner, sent, inq, out>> /\ pc' = "clients"
    BY <1>1 DEF send_once, next_command
  <1>3. AnswersInOrder'
    BY <1>2 DEF AnswerInv, AnswersInOrder
  <1>4. \A fd \in Fds : inq'[fd] # <<>> =>
            /\ Len(inq'[fd]) = 1 /\ Due(fd, inq[fd][1])'
            /\ repeat_fd' # fd
    BY <1>1, <1>2 DEF AnswerInv, Due
  <1>5. Due(repeat_fd, repeat_message)'
    BY <1>1, <1>2 DEF Due
  <1> QED
    BY <1>2, <1>3, <1>4, <1>5 DEF AnswerInv, simulating

(* A client that waits for its answers sends when it has them all. *)
LEMMA ClientAnswered ==
  ASSUME ~Pipelining, AnswerTypes, AnswerInv, NEW fd \in Fds, client_send(fd), NEW msg
  PROVE  ~Due(fd, msg)
  <1>1. sent[fd] = 0 \/ Idle(fd)
    BY DEF client_send
  <1> QED
    BY <1>1 DEF Idle, Due, AnswerTypes

LEMMA ClientSendsNext ==
  ASSUME ~Pipelining, Parts, AnswerTypes, AnswerInv, NEW fd \in Fds, client_send(fd)
  PROVE  AnswerInv'
  <1>1. inq[fd] = <<>> /\ repeat_fd # fd /\ (executed => fd # fd_)
    BY ClientAnswered DEF AnswerInv, AnswerTypes, executed
  <1>2. PICK c \in Commands :
            inq' = [inq EXCEPT ![fd] = Append(@, [owner |-> owner[fd], n |-> sent[fd] + 1, cmd |-> c])]
    BY DEF client_send
  <1>3. /\ UNCHANGED <<owner, out, repeat_fd, repeat_message, pc, fd_, batch, ret>>
        /\ sent' = [sent EXCEPT ![fd] = @ + 1]
    BY DEF client_send, repeats, cursor
  <1>4. sent[fd] \in Nat /\ sent'[fd] = sent[fd] + 1 /\ \A f \in Fds : f # fd => sent'[f] = sent[f]
    BY <1>3 DEF AnswerTypes
  <1>5. inq'[fd] = <<[owner |-> owner[fd], n |-> sent[fd] + 1, cmd |-> c]>>
        /\ \A f \in Fds : f # fd => inq'[f] = inq[f]
    BY <1>1, <1>2 DEF AnswerTypes
  <1>6. \A k \in 1..Len(out[fd]) : out[fd][k].n \in Nat /\ out[fd][k].n <= sent[fd]
    <2>1. out[fd] \in Seq(Reply)
      BY DEF AnswerTypes
    <2>2. \A k \in 1..Len(out[fd]) : out[fd][k] \in Reply
      BY <2>1
    <2> QED
      BY <2>2 DEF AnswerInv, AnswersInOrder, Reply
  <1>7. AnswersInOrder'
    <2> SUFFICES ASSUME NEW f \in Fds, NEW k \in 1..Len(out[f])
                 PROVE  /\ out[f][k].owner = owner[f] /\ out[f][k].n <= sent'[f]
                        /\ k > 1 => out[f][k - 1].n < out[f][k].n
      BY <1>3 DEF AnswersInOrder
    <2>1. CASE f = fd
      BY <1>4, <1>6, <2>1 DEF AnswerInv, AnswersInOrder
    <2>2. CASE f # fd
      BY <1>4, <2>2 DEF AnswerInv, AnswersInOrder
    <2> QED
      BY <2>1, <2>2
  <1>8. ASSUME NEW f \in Fds, inq'[f] # <<>>
        PROVE  /\ Len(inq'[f]) = 1 /\ Due(f, inq[f][1])'
               /\ repeat_fd' # f
    <2>1. CASE f = fd
      <3>1. Len(inq'[fd]) = 1 /\ inq'[fd][1].owner = owner[fd] /\ inq'[fd][1].n = sent[fd] + 1
        BY <1>5
      <3>2. sent'[fd] > 0 /\ \A k \in 1..Len(out'[fd]) : out'[fd][k].n < sent'[fd]
        BY <1>3, <1>4, <1>6
      <3>3. Due(fd, inq[fd][1])'
        BY <1>3, <1>4, <3>1, <3>2 DEF Due
      <3> QED
        BY <1>1, <1>3, <2>1, <3>1, <3>3
    <2>2. CASE f # fd
      BY <1>3, <1>4, <1>5, <1>8, <2>2 DEF AnswerInv, Due
    <2> QED
      BY <2>1, <2>2
  <1>9. executed' => Len(batch') = 1 /\ Due(fd_, batch[1])' /\ inq'[fd_'] = <<>>
    <2> SUFFICES ASSUME executed' PROVE Len(batch') = 1 /\ Due(fd_, batch[1])' /\ inq'[fd_'] = <<>>
      OBVIOUS
    <2>1. executed
      BY <1>3 DEF executed, simulating
    <2>2. fd_ \in Fds /\ fd_ # fd
      BY <1>1, <2>1 DEF Parts, CursorPart, executed
    <2> QED
      BY <1>3, <1>4, <1>5, <2>1, <2>2 DEF AnswerInv, executed, Due
  <1>10. repeat_fd' # NoFd => Due(repeat_fd, repeat_message)'
    BY <1>1, <1>3, <1>4 DEF AnswerInv, AnswerTypes, Due
  <1>11. pc' = "read" \/ executed' => repeat_fd' # fd_'
    BY <1>3 DEF AnswerInv, executed, simulating
  <1> QED
    BY <1>7, <1>8, <1>9, <1>10, <1>11 DEF AnswerInv, executed

(* A connection starts with no commands and no answers; the descriptor is  *)
(* not the one a repeat still answers to. *)
LEMMA NewClient ==
  ASSUME AnswerTypes, AnswerInv, WaiterConnected, accept_client
  PROVE  AnswerInv'
  <1>1. UNCHANGED <<repeat_fd, repeat_message, pc>> /\ pc = "accept"
    BY DEF accept_client, repeats
  <1>2. CASE UNCHANGED <<owner, sent, inq, out>>
    BY <1>1, <1>2, LoopStep DEF executed, simulating
  <1>3. CASE ~UNCHANGED <<owner, sent, inq, out>>
    <2>1. PICK type : add_client(type)
      BY DEF accept_client
    <2>2. PICK fd \in Fds :
            /\ peer[fd] = "none"
            /\ owner' = [owner EXCEPT ![fd] = conns']
            /\ sent' = [sent EXCEPT ![fd] = 0]
            /\ inq' = [inq EXCEPT ![fd] = <<>>] /\ out' = [out EXCEPT ![fd] = <<>>]
      BY <1>3, <2>1 DEF add_client
    <2>3. fd # repeat_fd
      BY <1>1, <2>2 DEF WaiterConnected, AnswerTypes
    <2>4. inq'[fd] = <<>> /\ out'[fd] = <<>>
      BY <2>2 DEF AnswerTypes
    <2>5. \A f \in Fds : f # fd => /\ owner'[f] = owner[f] /\ sent'[f] = sent[f]
                                    /\ inq'[f] = inq[f] /\ out'[f] = out[f]
      BY <2>2 DEF AnswerTypes
    <2>6. AnswersInOrder'
      <3> SUFFICES ASSUME NEW f \in Fds, NEW k \in 1..Len(out'[f])
                   PROVE  /\ out'[f][k].owner = owner'[f] /\ out'[f][k].n <= sent'[f]
                          /\ k > 1 => out'[f][k - 1].n < out'[f][k].n
        BY DEF AnswersInOrder
      <3>1. f # fd
        BY <2>4
      <3> QED
        BY <2>5, <3>1 DEF AnswerInv, AnswersInOrder
    <2>7. ASSUME NEW f \in Fds, inq'[f] # <<>>
          PROVE  /\ Len(inq'[f]) = 1 /\ Due(f, inq[f][1])'
                 /\ repeat_fd' # f
      <3>1. f # fd
        BY <2>4, <2>7
      <3> QED
        BY <1>1, <2>5, <2>7, <3>1 DEF AnswerInv, Due
    <2>8. repeat_fd' # NoFd => Due(repeat_fd, repeat_message)'
      BY <1>1, <2>3, <2>5 DEF AnswerInv, AnswerTypes, Due
    <2> QED
      BY <1>1, <2>6, <2>7, <2>8 DEF AnswerInv, simulating
  <1> QED
    BY <1>2, <1>3

(* get_command() reads the one command that is there. *)
LEMMA ReadOne ==
  ASSUME Parts, AnswerTypes, AnswerInv, read_commands
  PROVE  AnswerInv'
  <1>1. pc = "read" /\ pc' = "command" /\ fd_ \in Fds /\ inq[fd_] # <<>>
        /\ UNCHANGED <<owner, sent, out, repeat_fd, repeat_message, fd_>>
    BY DEF read_commands, repeats, Parts, CursorPart
  <1>2. inq[fd_] \in Seq(Message) /\ Len(inq[fd_]) = 1 /\ Due(fd_, inq[fd_][1]) /\ repeat_fd # fd_
    BY <1>1 DEF AnswerInv, AnswerTypes
  <1>3. /\ batch' = SubSeq(inq[fd_], 1, 1)
        /\ inq' = [inq EXCEPT ![fd_] = SubSeq(@, 2, 1)]
    BY <1>2 DEF read_commands
  <1>4. Len(batch') = 1 /\ batch'[1] = inq[fd_][1]
    BY <1>2, <1>3
  <1>5. inq'[fd_] = <<>> /\ \A f \in Fds : f # fd_ => inq'[f] = inq[f]
    <2>1. SubSeq(inq[fd_], 2, 1) = <<>>
      BY <1>2
    <2> QED
      BY <1>1, <1>3, <2>1 DEF AnswerTypes
  <1>6. AnswersInOrder'
    BY <1>1 DEF AnswerInv, AnswersInOrder
  <1>7. \A fd \in Fds : inq'[fd] # <<>> =>
            /\ Len(inq'[fd]) = 1 /\ Due(fd, inq[fd][1])'
            /\ repeat_fd' # fd
    BY <1>1, <1>5 DEF AnswerInv, Due
  <1>8. Due(fd_, batch[1])'
    BY <1>1, <1>2, <1>4 DEF Due
  <1>9. repeat_fd' # NoFd => Due(repeat_fd, repeat_message)'
    BY <1>1 DEF AnswerInv, Due
  <1> QED
    BY <1>1, <1>2, <1>4, <1>5, <1>6, <1>7, <1>8, <1>9 DEF AnswerInv, simulating

-----------------------------------------------------------------------------
LEMMA AnswerKept ==
  ASSUME ~Pipelining, IndInv, AnswerInv, WaiterConnected, [Next]_vars, [WaiterNotRead]_vars
  PROVE  AnswerInv'
  <1>0. AnswerTypes
    BY AnswerTyped
  <1>1. CASE UNCHANGED vars
    BY <1>1, LoopStep DEF vars, sockets, repeats, cursor, executed, simulating, AnswerInv
  <1>2. CASE Environment
    <2>1. Parts
      BY <1>2, IndHasParts DEF Environment
    <2>2. CASE sigalrm \/ sighup \/ sigterm
      BY <2>2, LoopStep DEF sigalrm, sighup, sigterm, interrupted, sockets, repeats, cursor,
                            executed, simulating, AnswerInv
    <2>3. CASE \E fd \in Fds : client_send(fd)
      BY <1>0, <2>1, <2>3, ClientSendsNext
    <2>4. CASE \E fd \in Fds : client_close(fd)
      BY <2>4, LoopStep DEF client_close, repeats, cursor, executed, simulating, AnswerInv
    <2> QED
      BY <1>2, <2>2, <2>3, <2>4 DEF Environment
  <1>3. CASE \/ dosighup \/ hup_clear \/ no_alarm \/ alrm_clear \/ enter_poll \/ poll_return
             \/ clients_served
    BY <1>3, LoopStep DEF dosighup, hup_clear, no_alarm, alrm_clear, enter_poll, poll_return,
                          clients_served, sockets, repeats, cursor, executed, simulating
  <1>4. CASE dosigterm
    BY <1>4, LoopStep DEF dosigterm, executed, simulating
  <1>5. CASE repeat_interrupted
    BY <1>0, <1>5, StopRepeatingStep DEF repeat_interrupted
  <1>6. CASE repeat_send
    <2>1. pc' = "alrmclear" /\ UNCHANGED <<owner, sent, inq>>
      BY <1>6 DEF repeat_send
    <2>2. CASE stop_repeating(TRUE)
      BY <1>0, <2>1, <2>2, StopRepeatingStep
    <2>3. CASE UNCHANGED <<repeat_fd, repeat_message, out>>
      BY <2>1, <2>3, LoopStep DEF executed, simulating
    <2> QED
      BY <1>6, <2>2, <2>3 DEF repeat_send
  <1>7. CASE serve_client
    <2>1. pc' = "read" /\ ~UNCHANGED vars
      BY <1>7 DEF serve_client, vars
    <2>2. repeat_fd # fd_'
      BY <1>7, <2>1 DEF WaiterNotRead
    <2> QED
      BY <1>7, <2>1, <2>2, LoopStep DEF serve_client, sockets, repeats, executed, simulating
  <1>8. CASE read_commands
    BY <1>0, <1>8, IndHasParts, ReadOne DEF read_commands
  <1>9. CASE read_eof
    <2>1. pc' = "clients" /\ remove_client(clis[i])
          /\ UNCHANGED <<out, repeat_fd, repeat_message>>
      BY <1>9 DEF read_eof, drop_client, repeats
    <2> QED
      BY <1>0, <2>1, RemovedQueue, CloseStep DEF executed, simulating
  <1>10. CASE other_directive \/ send_refused \/ stop_refused
    BY <1>0, <1>10, IndHasParts, AnswerStep
       DEF other_directive, send_refused, stop_refused, executing, repeats
  <1>11. CASE send_failed \/ send_single
    BY <1>0, <1>11, IndHasParts, AnswerStep
       DEF send_failed, send_single, first_sent, executing
  <1>12. CASE stop_later \/ stop_now
    BY <1>0, <1>12, IndHasParts, AnswerStep DEF stop_later, stop_now, stop_matches, executing
  <1>13. CASE simulate_answer
    BY <1>0, <1>13, IndHasParts, AnswerStep DEF simulate_answer, repeats
  <1>14. CASE send_once
    BY <1>0, <1>14, IndHasParts, AnswerPutOff DEF send_once, first_sent, executing
  <1>15. CASE send_start
    <2>1. answer(TRUE) /\ pc = "command" /\ UNCHANGED <<repeat_fd, repeat_message>>
      BY <1>15 DEF send_start, first_sent, executing, answer
    <2> QED
      BY <1>0, <2>1, IndHasParts, AnswerStep
  <1>16. CASE simulate
    BY <1>16, LoopStep DEF simulate, executing, sockets, repeats, executed, simulating
  <1>17. CASE broadcast_write
    <2>1. /\ pc' = pc /\ ret' = ret /\ batch' = batch /\ fd_' = fd_ /\ pc = "broadcast"
          /\ UNCHANGED <<repeat_fd, repeat_message>>
      BY <1>17 DEF broadcast_write, repeats
    <2>2. \/ UNCHANGED <<owner, sent, inq, out>>
          \/ UNCHANGED out /\ remove_client(clis[j])
      BY <1>17 DEF broadcast_write, sockets
    <2>3. executed => fd_ \in Fds
      BY <2>1, IndHasParts DEF Parts, CursorPart, executed
    <2>4. executed' => executed
      BY <2>1 DEF executed, simulating
    <2>5. CASE UNCHANGED <<owner, sent, inq, out>>
      BY <2>1, <2>4, <2>5, LoopStep
    <2>6. CASE UNCHANGED out /\ remove_client(clis[j])
      BY <1>0, <2>1, <2>3, <2>4, <2>6, RemovedQueue, CloseStep
    <2> QED
      BY <2>2, <2>5, <2>6
  <1>18. CASE broadcast_done
    BY <1>18, LoopStep DEF broadcast_done, sockets, repeats, executed, simulating, IndInv, TypeOK
  <1>19. CASE peer_message \/ all_accepted \/ nothing_received
    BY <1>19, LoopStep DEF peer_message, all_accepted, nothing_received, sockets, repeats, cursor,
                           executed, simulating
  <1>20. CASE receive
    BY <1>20, LoopStep DEF receive, sockets, executed, simulating
  <1>21. CASE accept_client
    BY <1>0, <1>21, NewClient
  <1> QED
    BY <1>1, <1>2, <1>3, <1>4, <1>5, <1>6, <1>7, <1>8, <1>9, <1>10, <1>11, <1>12, <1>13, <1>14,
       <1>15, <1>16, <1>17, <1>18, <1>19, <1>20, <1>21 DEF Next, Daemon

(* Clients that wait for their answers get each one once, in order, and no *)
(* other client's, in every behaviour in which the client that waits for   *)
(* the end of its SEND_ONCE is neither read from nor closed.               *)
THEOREM AnswersOrdered ==
  ASSUME ~Pipelining
  PROVE  Spec /\ []WaiterConnected /\ [][WaiterNotRead]_vars => []AnswersInOrder
  <1>1. IndInv /\ AnswerInv /\ WaiterConnected /\ [Next]_vars /\ [WaiterNotRead]_vars => AnswerInv'
    BY AnswerKept
  <1>2. AnswerInv => AnswersInOrder
    BY DEF AnswerInv
  <1> QED
    BY <1>1, <1>2, AnswerInit, IndInvariant, PTL DEF Spec

-----------------------------------------------------------------------------
(* Nobody hangs up *)

reading == pc \in {"read", "command"} \/ simulating

(* Every client in the table can be written to. *)
LEMMA AllOpen ==
  ASSUME ~FullSockets, Parts, StayInv
  PROVE  /\ \A k \in 1..clin : clis[k] \in Fds /\ write_socket(clis[k]) = {TRUE}
         /\ reading => fd_ \in Fds /\ write_socket(fd_) = {TRUE}
  <1>0. pc # "exit" /\ clin \in Nat
    BY DEF Parts, CursorPart, PCs, TablePart, TableType
  <1>1. ASSUME NEW k \in 1..clin PROVE clis[k] \in Fds /\ write_socket(clis[k]) = {TRUE}
    <2>1. clis[k] \in Fds /\ peer[clis[k]] # "none"
      BY <1>1 DEF Parts, TablePart, SlotsOpen, TableOK
    <2>2. peer[clis[k]] = "open"
      BY <1>0, <2>1 DEF StayInv, Parts, TablePart, TableType
    <2> QED
      BY <2>1, <2>2 DEF write_socket
  <1>2. reading => i \in 1..clin /\ clis[i] = fd_
    BY <1>0, SlotBounds DEF StayInv, reading, Parts, CursorPart
  <1> QED
    BY <1>1, <1>2

(* A step that leaves the table, the waiting client and the marks alone. *)
LEMMA StayStep ==
  ASSUME Parts, StayInv, UNCHANGED <<peer, clis, clin, repeat_fd>>,
         reading' => reading /\ UNCHANGED <<i, fd_, revents>>,
         pc' = "clients" => pc = "clients" /\ UNCHANGED revents
  PROVE  StayInv'
  BY DEF StayInv, reading, simulating, Parts, CursorPart

(* A handler that answers its command: the write works. *)
LEMMA StayAnswer ==
  ASSUME ~FullSockets, Parts, StayInv, AnswerInv, pc \in {"command", "simulated"},
         UNCHANGED <<repeat_fd, repeat_message>>, NEW ok, answer(ok)
  PROVE  StayInv'
  <1>1. reading /\ pc # "exit"
    BY DEF reading, simulating
  <1>2. next_command /\ UNCHANGED revents
    <2>1. write_socket(fd_) = {TRUE}
      BY <1>1, AllOpen
    <2>2. PICK w \in write_socket(fd_) : IF w THEN next_command ELSE drop_client
      BY DEF answer
    <2>3. UNCHANGED revents
      BY DEF answer
    <2> QED
      BY <2>1, <2>2, <2>3
  <1>3. pc' = "clients" /\ UNCHANGED <<peer, clis, clin>>
    BY <1>2 DEF next_command, table, AnswerInv, simulating
  <1> QED
    BY <1>1, <1>2, <1>3 DEF StayInv, reading, simulating

LEMMA StayKept ==
  ASSUME ~Hangups, ~FullSockets, IndInv, StayInv, AnswerInv, [Next]_vars
  PROVE  StayInv'
  <1>1. CASE UNCHANGED vars
    BY <1>1 DEF vars, sockets, table, repeats, cursor, StayInv, simulating
  <1>2. CASE Environment
    <2>1. Parts
      BY <1>2, IndHasParts DEF Environment
    <2>2. CASE sigalrm \/ sighup \/ sigterm
      BY <2>1, <2>2, StayStep DEF sigalrm, sighup, sigterm, interrupted, sockets, table, repeats,
                            cursor, reading, simulating
    <2>3. CASE \E fd \in Fds : client_send(fd) \/ client_close(fd)
      BY <2>1, <2>3, StayStep DEF client_send, client_close, table, repeats, cursor, reading,
                                  simulating
    <2> QED
      BY <1>2, <2>2, <2>3 DEF Environment
  <1>3. CASE dosigterm
    BY <1>3 DEF dosigterm, StayInv
  <1>4. ASSUME Daemon, ~dosigterm PROVE StayInv'
    <2>0. Parts
      BY <1>4, IndHasParts
         DEF Daemon, dosighup, hup_clear, no_alarm, repeat_interrupted, repeat_send, alrm_clear,
             enter_poll, poll_return, serve_client, clients_served, read_commands, read_eof,
             other_directive, send_refused, send_failed, send_single, send_once, send_start,
             first_sent, stop_refused, stop_later, stop_now, stop_matches, simulate,
             simulate_answer, executing, broadcast_write, broadcast_done, peer_message,
             accept_client, all_accepted, receive, nothing_received
    <2>1. CASE dosighup \/ hup_clear \/ no_alarm \/ alrm_clear \/ enter_poll \/ clients_served
      BY <2>0, <2>1, StayStep DEF dosighup, hup_clear, no_alarm, alrm_clear, enter_poll,
                                  clients_served, sockets, table, repeats, cursor, reading,
                                  simulating
    <2>2. CASE repeat_interrupted \/ repeat_send
      <3>1. UNCHANGED <<peer, clis, clin>> /\ pc' = "alrmclear" /\ pc = "sigalrm"
        BY <2>2 DEF repeat_interrupted, repeat_send, table
      <3>2. repeat_fd' \in {repeat_fd, NoFd}
        BY <2>2 DEF repeat_interrupted, repeat_send, stop_repeating
      <3> QED
        BY <3>1, <3>2 DEF StayInv, simulating
    <2>3. CASE poll_return
      <3>1. UNCHANGED <<peer, clis, clin, repeat_fd>> /\ pc' = "clients" /\ pc = "poll"
        BY <2>3 DEF poll_return, sockets, table, repeats
      <3>2. revents'.cli = [k \in Slots |-> readable(k)]
        BY <2>3 DEF poll_return
      <3>3. \A k \in 1..clin : revents'.cli[k] => clis[k] # repeat_fd
        BY <2>0, <3>2, SlotBounds DEF readable, Parts, TablePart, TableType
      <3> QED
        BY <3>1, <3>3 DEF StayInv, simulating
    <2>4. CASE serve_client
      <3>1. PICK k \in i..clin : /\ i' = k /\ fd_' = clis[k]
                                 /\ revents' = [revents EXCEPT !.cli[k] = FALSE]
        BY <2>4 DEF serve_client
      <3>2. /\ revents.cli \in [Slots -> BOOLEAN] /\ k \in Slots /\ k <= clin
            /\ revents \in [cli : [Slots -> BOOLEAN], listen : SUBSET Listening,
                             peer : BOOLEAN, driver : BOOLEAN]
        BY <2>0, <3>1, SlotBounds DEF Parts, TablePart, TableType, CursorPart
      <3>3. revents'.cli = [revents.cli EXCEPT ![k] = FALSE]
        BY <3>1, <3>2
      <3>4. ~revents'.cli[k] /\ \A m \in Slots : revents'.cli[m] => revents.cli[m]
        BY <3>2, <3>3
      <3>5. UNCHANGED <<peer, clis, clin, repeat_fd>> /\ pc' = "read" /\ pc = "clients"
        BY <2>4 DEF serve_client, sockets, table, repeats
      <3>6. \A m \in 1..clin : revents'.cli[m] => clis[m] # repeat_fd
        BY <2>0, <3>4, <3>5, SlotBounds DEF StayInv, Parts, TablePart, TableType
      <3> QED
        BY <3>1, <3>2, <3>4, <3>5, <3>6 DEF StayInv, simulating
    <2>5. CASE read_commands
      BY <2>0, <2>5, StayStep DEF read_commands, table, repeats, reading, simulating
    <2>6. CASE read_eof
      BY <2>0, <2>6 DEF read_eof, StayInv, Parts, CursorPart
    <2>7. CASE other_directive \/ send_refused \/ stop_refused
      BY <2>0, <2>7, StayAnswer DEF other_directive, send_refused, stop_refused, executing, repeats
    <2>8. CASE send_failed \/ send_single
      BY <2>0, <2>8, StayAnswer DEF send_failed, send_single, first_sent, executing
    <2>9. CASE stop_later \/ stop_now
      BY <2>0, <2>9, StayAnswer DEF stop_later, stop_now, stop_matches, executing
    <2>10. CASE simulate_answer
      BY <2>0, <2>10, StayAnswer DEF simulate_answer, repeats
    <2>11. CASE send_start
      <3>1. answer(TRUE) /\ pc = "command" /\ UNCHANGED <<repeat_fd, repeat_message>>
        BY <2>11 DEF send_start, first_sent, executing, answer
      <3> QED
        BY <2>0, <3>1, StayAnswer
    <2>12. CASE send_once
      <3>1. /\ pc = "command" /\ repeat_fd' = fd_ /\ pc' = "clients"
            /\ UNCHANGED <<peer, clis, clin, revents>>
        BY <2>12 DEF send_once, first_sent, executing, next_command, table, AnswerInv
      <3>2. i \in 1..clin /\ clis[i] = fd_ /\ ~revents.cli[i] /\ fd_ \in Fds
        BY <2>0, <3>1 DEF StayInv, Parts, CursorPart, Slots
      <3>3. peer[fd_] = "open"
        BY <2>0, <3>1, <3>2 DEF StayInv, Parts, TablePart, TableType, TableOK
      <3>4. \A k \in 1..clin : revents.cli[k] => clis[k] # fd_
        BY <2>0, <3>2 DEF Parts, TablePart, TableOK
      <3> QED
        BY <3>1, <3>3, <3>4 DEF StayInv, simulating
    <2>13. CASE simulate
      BY <2>0, <2>13, StayStep DEF simulate, executing, sockets, table, repeats, reading, simulating
    <2>14. CASE broadcast_write
      <3>1. j \in 1..clin
        BY <2>0, <2>14 DEF broadcast_write, Parts, CursorPart, TablePart, TableType
      <3>2. UNCHANGED <<peer, clis, clin>>
        <4>1. write_socket(clis[j]) = {TRUE}
          BY <2>0, <3>1, AllOpen
        <4>2. \/ UNCHANGED <<sockets, table>>
              \/ \E w \in write_socket(clis[j]) : IF w THEN UNCHANGED <<sockets, table>> ELSE TRUE
          BY <2>14 DEF broadcast_write
        <4> QED
          BY <4>1, <4>2 DEF sockets, table
      <3> QED
        BY <2>0, <2>14, <3>2, StayStep DEF broadcast_write, repeats, reading, simulating
    <2>15. CASE broadcast_done
      BY <2>0, <2>15, StayStep DEF broadcast_done, sockets, table, repeats, reading, simulating,
                                   Parts, CursorPart
    <2>16. CASE peer_message \/ all_accepted \/ nothing_received
      BY <2>0, <2>16, StayStep DEF peer_message, all_accepted, nothing_received, sockets, table,
                                   repeats, cursor, reading, simulating
    <2>17. CASE receive
      BY <2>0, <2>17, StayStep DEF receive, sockets, table, reading, simulating
    <2>18. CASE accept_client
      <3>1. pc = "accept" /\ pc' = "accept" /\ repeat_fd' = repeat_fd
        BY <2>18 DEF accept_client, repeats
      <3>2. peer' = peer \/ \E fd \in Fds : peer' = [peer EXCEPT ![fd] = "open"]
        BY <2>18 DEF accept_client, add_client
      <3>3. \A f \in Fds : peer'[f] \in {peer[f], "open"}
        BY <2>0, <3>2 DEF Parts, TablePart, TableType
      <3>4. repeat_fd \in Fds \cup {NoFd}
        BY <2>0 DEF Parts, RepeatPart
      <3> QED
        BY <3>1, <3>3, <3>4 DEF StayInv, simulating
    <2> QED
      BY <1>4, <2>1, <2>2, <2>3, <2>4, <2>5, <2>6, <2>7, <2>8, <2>9, <2>10, <2>11, <2>12, <2>13,
         <2>14, <2>15, <2>16, <2>17, <2>18 DEF Daemon
  <1> QED
    BY <1>1, <1>2, <1>3, <1>4 DEF Next

(* Clients that wait for their answers, do not hang up and read what they  *)
(* are sent before their sockets are full get the answers in order, with   *)
(* any number of clients, whatever signals, broadcasts, failing            *)
(* transmissions and stopped repeats come between.  Without either         *)
(* hypothesis a broadcast can take the client that waits for its SEND_ONCE *)
(* out of the table, and its answer then goes to whoever connects next.    *)
THEOREM AnswersOrderedWhileConnected ==
  ASSUME ~Pipelining, ~Hangups, ~FullSockets
  PROVE  Spec => []AnswersInOrder
  <1>1. Init => StayInv
    BY DEF Init, StayInv, simulating
  <1>2. IndInv /\ StayInv => WaiterConnected
    BY DEF StayInv, WaiterConnected
  <1>3. IndInv /\ StayInv /\ [Next]_vars => [WaiterNotRead]_vars
    <2> SUFFICES ASSUME IndInv, StayInv, serve_client PROVE fd_' # repeat_fd
      BY DEF WaiterNotRead
    <2>1. PICK k \in i..clin : revents.cli[k] /\ fd_' = clis[k]
      BY DEF serve_client
    <2>2. k \in 1..clin
      BY <2>1 DEF IndInv, TypeOK
    <2> QED
      BY <2>1, <2>2 DEF StayInv, serve_client
  <1>4. IndInv /\ StayInv /\ AnswerInv /\ [Next]_vars => StayInv' /\ AnswerInv'
    BY <1>2, <1>3, StayKept, AnswerKept
  <1>5. AnswerInv => AnswersInOrder
    BY DEF AnswerInv
  <1> QED
    BY <1>1, <1>4, <1>5, AnswerInit, IndInvariant, PTL DEF Spec

=============================================================================
