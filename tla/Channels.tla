------------------------------ MODULE Channels ------------------------------
(***************************************************************************)
(* The multiplexed channels of newchannels.c: an ssh client and the sshd   *)
(* child serving it, each with a table of channels, joined by an encrypted *)
(* connection that delivers packets in order.  A channel carries one       *)
(* forwarded TCP/IP, X11 or agent connection; the local program at each    *)
(* end of it (its socket) is the environment.                              *)
(*                                                                         *)
(* Each end is one process running the loop of client_loop/server_loop:    *)
(*   "packets"  process_buffered_input_packets                             *)
(*   "poll"     channel_output_poll                                        *)
(*   "prepare"  channel_prepare_select                                     *)
(*   "after"    channel_after_select                                       *)
(* One step is one packet, or one iteration of one of the three for-loops  *)
(* over the table; entries a loop passes over with `continue' are skipped. *)
(***************************************************************************)
EXTENDS ChannelEnd, FiniteSets, FiniteSetsExt

CONSTANTS
  Listeners,   \* [Ends -> Seq([type, target])]: set up before the loop starts
  Targets,     \* host:port pairs a PORT_OPEN can name
  Permitted,   \* permitted_opens of the client (the server permits all)
  Spoof,       \* x11_saved_proto # NULL at the client
  InitAlloc,   \* 10 in the code: first size of the table
  AllocStep,   \* 10 in the code: growth of the table
  HighWater,   \* packet_max_size() / 2, in data items
  Chunk,       \* largest DATA payload, in data items
  SetupLen,    \* items in a complete first X11 packet
  MaxOpens,    \* bound: connections accepted by the listeners
  Writes       \* bound: [Ends -> Nat], items a program writes into one connection

Ends      == {"client", "server"}
Peer(e)   == IF e = "client" THEN "server" ELSE "client"
Instances == 1 .. MaxOpens
Items     == Nat \ {0}

ASSUME ListenersAssumption ==
  /\ Listeners \in [Ends -> Seq([type : ListenerTypes, target : Targets \cup {NoTarget}])]
  /\ \A i \in DOMAIN Listeners["client"] : Listeners["client"][i].type = "PORT_LISTENER"
ASSUME BoundsAssumption ==
  /\ InitAlloc \in Nat \ {0} /\ AllocStep \in Nat \ {0}
  /\ \A e \in Ends : Len(Listeners[e]) =< InitAlloc
  /\ HighWater \in Nat \ {0} /\ Chunk \in Nat \ {0} /\ SetupLen \in Nat \ {0}
  /\ MaxOpens \in Nat \ {0} /\ Writes \in [Ends -> Nat]
  /\ Spoof \in BOOLEAN /\ NoTarget \notin Targets /\ Permitted \subseteq Targets

VARIABLES
  tbl,     \* channels[0 .. channels_alloc-1] of each end
  alloc,   \* channels_alloc of each end
  used,    \* channels_used of each end
  at,      \* where each end is in its loop: [phase, slot]
  rset,    \* readset: socket numbers
  wset,    \* writeset: socket numbers
  net,     \* packets on their way to each end, oldest first
  fault,   \* why an end's process died, "none" while it runs
  opened,  \* history: connections accepted so far
  hist     \* history: per connection (0: none) and end, [read, wrote, shut]

vars == <<tbl, alloc, used, at, rset, wset, net, fault, opened, hist>>

InUse(t)  == {i \in DOMAIN t : t[i].type # "FREE"}

\* Why an end shut down the writing side of a connection's socket.
Reasons == {"no", "drained", "error", "rejected", "early"}

-----------------------------------------------------------------------------
(* Where the loop goes next.                                               *)

\* What an iteration of each loop does not pass over.
EofDue(ch) == "INPUT_CLOSED" \in ch.flags /\ "EOF_SENT" \notin ch.flags
Looks(phase, ch) ==
  CASE phase = "poll"    -> ch.type = "OPEN" /\ (ch.input # << >> \/ EofDue(ch))
    [] phase = "prepare" -> ch.type \in ListenerTypes \cup {"OPEN", "X11_OPEN"}
    [] phase = "after"   -> ch.type \in ListenerTypes \cup {"OPEN"}

\* The next iteration that looks at an entry, from slot k of a phase on.
From(phase, k, t, after) ==
  LET todo == {i \in DOMAIN t : i >= k /\ Looks(phase, t[i])}
  IN  IF todo = {} THEN after ELSE [phase |-> phase, slot |-> Min(todo)]

Packets            == [phase |-> "packets", slot |-> 0]
AfterFrom(k, t)    == From("after", k, t, Packets)
PrepareFrom(k, t)  == From("prepare", k, t, AfterFrom(0, t))
PollFrom(k, t)     == From("poll", k, t, PrepareFrom(0, t))

\* End e is about to look at slot i in the given phase, its table being t
\* after the step.
AtSlot(e, phase, i) ==
  fault[e] = "none" /\ at[e].phase = phase /\ at[e].slot = i
Ready(e) == fault[e] = "none" /\ at[e].phase = "packets"

-----------------------------------------------------------------------------
(* channel_allocate.                                                       *)

Full(e) == used[e] = alloc[e]
NewAlloc(e) ==
  IF alloc[e] = 0 THEN InitAlloc
  ELSE IF Full(e) THEN alloc[e] + AllocStep ELSE alloc[e]
Grown(e) ==
  [i \in 0 .. NewAlloc(e) - 1 |->
     IF i < alloc[e] THEN tbl[e][i] ELSE BlankChannel]

\* The search starts after the used entries if the table has just grown.
FreeSlots(e) ==
  {i \in 0 .. NewAlloc(e) - 1 :
     /\ Grown(e)[i].type = "FREE"
     /\ (Full(e) /\ alloc[e] # 0) => i >= used[e]}
NewSlot(e) == Min(FreeSlots(e))

\* The kernel returns the lowest descriptor that is not open.
NewSock(e) ==
  Min((0 .. alloc[e]) \ {tbl[e][i].sock : i \in InUse(tbl[e])})

\* fatal("Internal bug in channel_allocate.") if no slot is found.
Allocated(e, ch) ==
  IF FreeSlots(e) = {} THEN Grown(e) ELSE [Grown(e) EXCEPT ![NewSlot(e)] = ch]
AllocateIn(e, ch) ==
  /\ tbl'   = [tbl EXCEPT ![e] = Allocated(e, ch)]
  /\ alloc' = [alloc EXCEPT ![e] = NewAlloc(e)]
  /\ used'  = [used EXCEPT ![e] = @ + 1]
  /\ fault' = [fault EXCEPT ![e] =
                 IF FreeSlots(e) = {} THEN "table corrupt" ELSE "none"]

-----------------------------------------------------------------------------
(* Storing the result of a run (ChannelEnd) of slot i of end e.            *)

ShutNow(ch, r) ==
  "OUTPUT_CLOSED" \in r.c.flags /\ "OUTPUT_CLOSED" \notin ch.flags

Store(e, i, r, why) ==
  /\ tbl'   = [tbl EXCEPT ![e][i] = r.c]
  /\ used'  = [used EXCEPT ![e] = @ - r.frees]
  /\ fault' = [fault EXCEPT ![e] = r.fault]
  /\ hist'  = IF ShutNow(tbl[e][i], r)
              THEN [hist EXCEPT ![r.c.inst][e].shut = why] ELSE hist

Emit(e, out)    == net' = [net EXCEPT ![Peer(e)] = @ \o out]
Receive(e, out) == net' = [net EXCEPT ![e] = Tail(@), ![Peer(e)] = @ \o out]
Die(e, why)     == fault' = [fault EXCEPT ![e] = why]

-----------------------------------------------------------------------------
(* Before the loop: the listeners have been set up by the forwarding       *)
(* requests of the preparation phase, in the order of the requests.        *)

InitialAlloc(e) == IF Listeners[e] = << >> THEN 0 ELSE InitAlloc

\* Mutant of InitialTable: channel_allocate takes the last free entry, so that
\* the listeners come after the connections.
InitialTableBackwards(e) ==
  [i \in 0 .. InitialAlloc(e) - 1 |->
     LET n == InitialAlloc(e) - i
     IN  IF n =< Len(Listeners[e])
         THEN [BlankChannel EXCEPT !.type = Listeners[e][n].type, !.sock = n - 1,
                                   !.target = Listeners[e][n].target]
         ELSE BlankChannel]

InitialTable(e) ==
  [i \in 0 .. InitialAlloc(e) - 1 |->
     IF i < Len(Listeners[e])
     THEN [BlankChannel EXCEPT !.type = Listeners[e][i + 1].type, !.sock = i,
                               !.target = Listeners[e][i + 1].target]
     ELSE BlankChannel]

Init ==
  /\ tbl    = [e \in Ends |-> InitialTable(e)]
  /\ alloc  = [e \in Ends |-> InitialAlloc(e)]
  /\ used   = [e \in Ends |-> Len(Listeners[e])]
  /\ at     = [e \in Ends |-> Packets]
  /\ rset   = [e \in Ends |-> {}]
  /\ wset   = [e \in Ends |-> {}]
  /\ net    = [e \in Ends |-> << >>]
  /\ fault  = [e \in Ends |-> "none"]
  /\ opened = 0
  /\ hist   = [i \in Instances \cup {0} |->
                 [e \in Ends |-> [read |-> 0, wrote |-> 0, shut |-> "no"]]]

-----------------------------------------------------------------------------
(* "packets": one packet from the peer.                                    *)

Arrived(e, kind) == Ready(e) /\ net[e] # << >> /\ Head(net[e]).kind = kind

\* The channel number check at the top of every handler.
Exists(e, i) == i \in DOMAIN tbl[e] /\ tbl[e][i].type # "FREE"

\* PORT_OPEN, SMSG_X11_OPEN, SMSG_AGENT_OPEN when the local program answers:
\* channel_input_port_open, x11_input_open, auth_input_open_request.
AcceptOpen(e, kind) ==
  LET m  == Head(net[e])
      ch == [BlankChannel EXCEPT
               !.type  = IF kind = "X11_OPEN" /\ Spoof THEN "X11_OPEN" ELSE "OPEN",
               !.sock  = NewSock(e), !.rid = m.chan,
               !.isx   = (kind = "X11_OPEN"), !.inst = m.inst]
  IN  /\ Arrived(e, kind)
      /\ (kind = "PORT_OPEN" /\ e = "client") => m.target \in Permitted
      /\ AllocateIn(e, ch)
      /\ Receive(e, <<Packet("OPEN_CONFIRMATION", m.chan, NewSlot(e),
                             NoTarget, << >>, m.inst)>>)
      /\ UNCHANGED <<at, rset, wset, opened, hist>>

\* Mutant of RefuseOpen: the failure is not reported.
RefuseOpenSilently(e, kind) ==
  /\ Arrived(e, kind)
  /\ Receive(e, << >>)
  /\ UNCHANGED <<alloc, tbl, used, at, rset, wset, fault, opened, hist>>

\* The same handlers when the target is not permitted, or connecting fails.
RefuseOpen(e, kind) ==
  LET m == Head(net[e])
  IN  /\ Arrived(e, kind)
      /\ Receive(e, <<Packet("OPEN_FAILURE", m.chan, NoId, NoTarget, << >>,
                             m.inst)>>)
      /\ UNCHANGED <<alloc, tbl, used, at, rset, wset, fault, opened, hist>>

\* channel_input_open_confirmation
InputOpenConfirmation(e) ==
  LET m  == Head(net[e])
      ok == m.chan \in DOMAIN tbl[e] /\ tbl[e][m.chan].type = "OPENING"
  IN  /\ Arrived(e, "OPEN_CONFIRMATION")
      /\ IF ok THEN tbl' = [tbl EXCEPT ![e][m.chan].rid = m.from,
                                       ![e][m.chan].type = "OPEN"]
                    /\ UNCHANGED fault
               ELSE Die(e, "not opening") /\ UNCHANGED tbl
      /\ Receive(e, << >>)
      /\ UNCHANGED <<alloc, used, at, rset, wset, opened, hist>>

\* channel_input_open_failure
InputOpenFailure(e) ==
  LET m  == Head(net[e])
      ok == m.chan \in DOMAIN tbl[e] /\ tbl[e][m.chan].type = "OPENING"
      r  == ChannelFree(Run(tbl[e][m.chan]))
  IN  /\ Arrived(e, "OPEN_FAILURE")
      /\ IF ok THEN Store(e, m.chan, r, "no")
               ELSE Die(e, "not opening") /\ UNCHANGED <<tbl, used, hist>>
      /\ Receive(e, << >>)
      /\ UNCHANGED <<alloc, at, rset, wset, opened>>

\* channel_input_data
InputData(e) ==
  LET m  == Head(net[e])
      ch == tbl[e][m.chan]
  IN  /\ Arrived(e, "DATA")
      /\ IF ~Exists(e, m.chan)
         THEN Die(e, "nonexistent channel") /\ UNCHANGED tbl
         ELSE IF ch.type \in {"OPEN", "X11_OPEN"} /\ "EOF_RECEIVED" \in ch.flags
         THEN Die(e, "data after eof") /\ UNCHANGED tbl
         ELSE /\ tbl' = IF /\ ch.type \in {"OPEN", "X11_OPEN"}
                           /\ "OUTPUT_CLOSED" \notin ch.flags
                        THEN [tbl EXCEPT ![e][m.chan].output = @ \o m.data]
                        ELSE tbl
              /\ UNCHANGED fault
      /\ Receive(e, << >>)
      /\ UNCHANGED <<alloc, used, at, rset, wset, opened, hist>>

\* channel_ieof and channel_oclosed; the run of the flag functions may send
\* packets of its own.
InputClose(e, kind, r, why) ==
  LET m == Head(net[e])
  IN  /\ Arrived(e, kind)
      /\ IF Exists(e, m.chan)
         THEN Store(e, m.chan, r, why) /\ Receive(e, r.out)
         ELSE /\ Die(e, "nonexistent channel") /\ Receive(e, << >>)
              /\ UNCHANGED <<tbl, used, hist>>
      /\ UNCHANGED <<alloc, at, rset, wset, opened>>

\* The run starts from the entry the packet at the head of the queue names.
RunOfHead(e)     == Run(tbl[e][Head(net[e]).chan])
InputEof(e)      == InputClose(e, "INPUT_EOF", ReceiveIeof(RunOfHead(e)), "early")
OutputClosed(e)  ==
  InputClose(e, "OUTPUT_CLOSED", ReceiveOclosed(RunOfHead(e)), "no")

\* No complete packet is left in the input buffer.
PacketsDone(e) ==
  /\ Ready(e)
  /\ at' = [at EXCEPT ![e] = PollFrom(0, tbl[e])]
  /\ UNCHANGED <<alloc, tbl, used, rset, wset, net, fault, opened, hist>>

InputPacket(e) ==
  \/ \E kind \in OpenKinds : AcceptOpen(e, kind) \/ RefuseOpen(e, kind)
  \/ InputOpenConfirmation(e) \/ InputOpenFailure(e)
  \/ InputData(e) \/ InputEof(e) \/ OutputClosed(e)

-----------------------------------------------------------------------------
(* "poll": channel_output_poll, one OPEN channel.                          *)

PollData(e, i) ==
  LET ch  == tbl[e][i]
      len == Min({Len(ch.input), Chunk})
  IN  /\ AtSlot(e, "poll", i)
      /\ ch.type = "OPEN" /\ ch.input # << >>
      /\ Emit(e, <<Packet("DATA", ch.rid, NoId, NoTarget,
                          SubSeq(ch.input, 1, len), ch.inst)>>)
      /\ tbl' = [tbl EXCEPT ![e][i].input = SubSeq(@, len + 1, Len(@))]
      /\ at' = [at EXCEPT ![e] = PollFrom(i + 1, tbl[e])]
      /\ UNCHANGED <<alloc, used, rset, wset, fault, opened, hist>>

\* The input is drained and its socket closed for reading: send the eof.
PollEof(e, i) ==
  LET r == SendIeof(Run(tbl[e][i]))
  IN  /\ AtSlot(e, "poll", i)
      /\ tbl[e][i].type = "OPEN"
      /\ tbl[e][i].input = << >> /\ EofDue(tbl[e][i])
      /\ Store(e, i, r, "no")
      /\ Emit(e, r.out)
      /\ at' = [at EXCEPT ![e] = PollFrom(i + 1, tbl'[e])]
      /\ UNCHANGED <<alloc, rset, wset, opened>>

\* packet_not_very_much_data_to_write is false: the poll is not started, or
\* broken off before this channel.
PollBreak(e) ==
  /\ fault[e] = "none" /\ at[e].phase = "poll"
  /\ at' = [at EXCEPT ![e] = PrepareFrom(0, tbl[e])]
  /\ UNCHANGED <<alloc, tbl, used, rset, wset, net, fault, opened, hist>>

-----------------------------------------------------------------------------
(* "prepare": channel_prepare_select, one entry.  The sets are zeroed at   *)
(* the start of the pass, modelled as emptying them at the end of the last.*)

Move(e, pos, rs, ws) ==
  /\ at'   = [at EXCEPT ![e] = pos]
  /\ rset' = [rset EXCEPT ![e] = IF pos = Packets THEN {} ELSE rs]
  /\ wset' = [wset EXCEPT ![e] = IF pos = Packets THEN {} ELSE ws]

PrepareListener(e, i) ==
  /\ AtSlot(e, "prepare", i)
  /\ tbl[e][i].type \in ListenerTypes
  /\ Move(e, PrepareFrom(i + 1, tbl[e]), rset[e] \cup {tbl[e][i].sock}, wset[e])
  /\ UNCHANGED <<alloc, tbl, used, net, fault, opened, hist>>

\* Mutant of PrepareOpen: the output is closed before it is drained.
PrepareOpenHasty(e, i) ==
  LET ch       == tbl[e][i]
      reads    == Len(ch.input) < HighWater /\ "INPUT_CLOSED" \notin ch.flags
      writable == "OUTPUT_CLOSED" \notin ch.flags
      writes   == writable /\ ch.output # << >>
      drained  == writable /\ "EOF_RECEIVED" \in ch.flags
      r        == IF drained THEN CloseOutput(Run(ch)) ELSE Run(ch)
  IN  /\ AtSlot(e, "prepare", i)
      /\ ch.type = "OPEN"
      /\ Store(e, i, r, "drained")
      /\ Emit(e, r.out)
      /\ Move(e, PrepareFrom(i + 1, tbl'[e]),
              IF reads  THEN rset[e] \cup {ch.sock} ELSE rset[e],
              IF writes THEN wset[e] \cup {ch.sock} ELSE wset[e])
      /\ UNCHANGED <<alloc, opened>>

PrepareOpen(e, i) ==
  LET ch       == tbl[e][i]
      reads    == Len(ch.input) < HighWater /\ "INPUT_CLOSED" \notin ch.flags
      writable == "OUTPUT_CLOSED" \notin ch.flags
      writes   == writable /\ ch.output # << >>
      drained  == writable /\ ch.output = << >> /\ "EOF_RECEIVED" \in ch.flags
      r        == IF drained THEN CloseOutput(Run(ch)) ELSE Run(ch)
  IN  /\ AtSlot(e, "prepare", i)
      /\ ch.type = "OPEN"
      /\ Store(e, i, r, "drained")
      /\ Emit(e, r.out)
      /\ Move(e, PrepareFrom(i + 1, tbl'[e]),
              IF reads  THEN rset[e] \cup {ch.sock} ELSE rset[e],
              IF writes THEN wset[e] \cup {ch.sock} ELSE wset[e])
      /\ UNCHANGED <<alloc, opened>>

\* The first packet of a spoofed X11 connection is not there yet ...
PrepareX11Incomplete(e, i) ==
  /\ AtSlot(e, "prepare", i)
  /\ tbl[e][i].type = "X11_OPEN"
  /\ Len(tbl[e][i].output) < SetupLen
  /\ Move(e, PrepareFrom(i + 1, tbl[e]), rset[e], wset[e])
  /\ UNCHANGED <<alloc, tbl, used, net, fault, opened, hist>>

\* ... or is, with the fake data in it: the channel is redone as an OPEN one ...
PrepareX11Good(e, i) ==
  /\ AtSlot(e, "prepare", i)
  /\ tbl[e][i].type = "X11_OPEN"
  /\ Len(tbl[e][i].output) >= SetupLen
  /\ tbl' = [tbl EXCEPT ![e][i].type = "OPEN"]
  /\ UNCHANGED <<alloc, used, at, rset, wset, net, fault, opened, hist>>

\* ... or has a bad byte order (already in the fixed part) or bad credentials.
PrepareX11Bad(e, i) ==
  LET r == RejectX11(Run(tbl[e][i]))
  IN  /\ AtSlot(e, "prepare", i)
      /\ tbl[e][i].type = "X11_OPEN"
      /\ tbl[e][i].output # << >>
      /\ Store(e, i, r, "rejected")
      /\ Emit(e, r.out)
      /\ Move(e, PrepareFrom(i + 1, tbl'[e]), rset[e], wset[e])
      /\ UNCHANGED <<alloc, opened>>

-----------------------------------------------------------------------------
(* "after": channel_after_select, one entry.  An entry whose descriptor is *)
(* not ready after all is passed over, like one whose read or write says   *)
(* EAGAIN.                                                                 *)

OpenKind(type) ==
  CASE type = "X11_LISTENER"  -> "X11_OPEN"
    [] type = "PORT_LISTENER" -> "PORT_OPEN"
    [] type = "AUTH_LISTENER" -> "AGENT_OPEN"

\* What the packet says the target is.  The code reads ch->path and
\* ch->host_port after channel_allocate, which may have moved the table: then
\* ch points into freed memory and any target can be read.
NamedTarget(e, ch, target) ==
  IF ch.type = "PORT_LISTENER" /\ Full(e) THEN target \in Targets
  ELSE target = ch.target

\* A connection is accepted; the open request goes to the other end.
AcceptConnection(e, i) ==
  LET ch  == tbl[e][i]
      new == [BlankChannel EXCEPT
                !.type = "OPENING", !.sock = NewSock(e),
                !.isx = (ch.type = "X11_LISTENER"), !.inst = opened + 1]
  IN  /\ AtSlot(e, "after", i)
      /\ ch.type \in ListenerTypes /\ ch.sock \in rset[e]
      /\ opened < MaxOpens
      /\ opened' = opened + 1
      /\ AllocateIn(e, new)
      /\ \E target \in Targets \cup {NoTarget} :
            /\ NamedTarget(e, ch, target)
            /\ Emit(e, <<Packet(OpenKind(ch.type), NewSlot(e), NoId, target,
                                << >>, opened + 1)>>)
      /\ Move(e, AfterFrom(i + 1, tbl'[e]), rset[e], wset[e])
      /\ UNCHANGED hist

\* No connection, accept failed, or tcp_wrappers refused the connection.
NoConnection(e, i) ==
  /\ AtSlot(e, "after", i)
  /\ tbl[e][i].type \in ListenerTypes
  /\ Move(e, AfterFrom(i + 1, tbl[e]), rset[e], wset[e])
  /\ UNCHANGED <<alloc, tbl, used, net, fault, opened, hist>>

\* An OPEN channel is read from, if its descriptor is in readset, ...
CanRead(e, i)  == AtSlot(e, "after", i) /\ tbl[e][i].type = "OPEN"
                  /\ tbl[e][i].sock \in rset[e]
\* ... and then written to, if it is in writeset and output is buffered.
CanWrite(e, i) == AtSlot(e, "after", i) /\ tbl[e][i].type = "OPEN"
                  /\ tbl[e][i].sock \in wset[e] /\ tbl[e][i].output # << >>

\* read returned 0 or an error: the write is left for the next round.
ReadEof(e, i) ==
  LET r == CloseInput(Run(tbl[e][i]))
  IN  /\ CanRead(e, i)
      /\ Store(e, i, r, "no")
      /\ Emit(e, r.out)
      /\ Move(e, AfterFrom(i + 1, tbl'[e]), rset[e], wset[e])
      /\ UNCHANGED <<alloc, opened>>

\* What read and write transfer: up to one item in, any part of the output out.
Transfers(e, i) ==
  {x \in {0, 1} \X (0 .. Len(tbl[e][i].output)) :
     /\ x[1] = 1 => /\ CanRead(e, i)
                    /\ hist[tbl[e][i].inst][e].read < Writes[e]
     /\ x[2] > 0 => CanWrite(e, i)}

\* Mutant of ReadAndWrite: a short write consumes the whole buffer.
ReadAndWriteShort(e, i) ==
  LET ch == tbl[e][i]
      h  == hist[ch.inst][e]
  IN  /\ AtSlot(e, "after", i)
      /\ ch.type = "OPEN"
      /\ \E x \in Transfers(e, i) :
           /\ tbl' = [tbl EXCEPT
                ![e][i].input  = IF x[1] = 1 THEN Append(@, h.read + 1) ELSE @,
                ![e][i].output = IF x[2] > 0 THEN << >> ELSE @]
           /\ hist' = [hist EXCEPT ![ch.inst][e].read  = @ + x[1],
                                   ![ch.inst][e].wrote = @ + x[2]]
      /\ Move(e, AfterFrom(i + 1, tbl'[e]), rset[e], wset[e])
      /\ UNCHANGED <<alloc, used, net, fault, opened>>

ReadAndWrite(e, i) ==
  LET ch == tbl[e][i]
      h  == hist[ch.inst][e]
  IN  /\ AtSlot(e, "after", i)
      /\ ch.type = "OPEN"
      /\ \E x \in Transfers(e, i) :
           /\ tbl' = [tbl EXCEPT
                ![e][i].input  = IF x[1] = 1 THEN Append(@, h.read + 1) ELSE @,
                ![e][i].output = SubSeq(@, x[2] + 1, Len(@))]
           /\ hist' = [hist EXCEPT ![ch.inst][e].read  = @ + x[1],
                                   ![ch.inst][e].wrote = @ + x[2]]
      /\ Move(e, AfterFrom(i + 1, tbl'[e]), rset[e], wset[e])
      /\ UNCHANGED <<alloc, used, net, fault, opened>>

\* The write failed: the program has closed its end of the socket.  A read of
\* the same round has been done before.
WriteError(e, i) ==
  LET ch == tbl[e][i]
      h  == hist[ch.inst][e]
  IN  /\ CanWrite(e, i)
      /\ \E n \in IF CanRead(e, i) /\ h.read < Writes[e] THEN {0, 1} ELSE {0} :
           LET r == CloseOutput(Run([ch EXCEPT
                      !.input = IF n = 1 THEN Append(@, h.read + 1) ELSE @]))
           IN  /\ tbl'   = [tbl EXCEPT ![e][i] = r.c]
               /\ used'  = [used EXCEPT ![e] = @ - r.frees]
               /\ fault' = [fault EXCEPT ![e] = r.fault]
               /\ hist'  = [hist EXCEPT ![ch.inst][e].read = @ + n,
                                        ![ch.inst][e].shut = "error"]
               /\ Emit(e, r.out)
      /\ Move(e, AfterFrom(i + 1, tbl'[e]), rset[e], wset[e])
      /\ UNCHANGED <<alloc, opened>>

-----------------------------------------------------------------------------
(* channel_stop_listening, on the client's ~& escape: X11 and port         *)
(* listeners are freed, an agent listener only loses its socket file.      *)

\* Mutant of StopListening: the entries are counted off twice.
StopListeningTwice(e) ==
  LET gone == {i \in DOMAIN tbl[e] :
                 tbl[e][i].type \in {"X11_LISTENER", "PORT_LISTENER"}}
  IN  /\ e = "client"
      /\ Ready(e)
      /\ gone # {}
      /\ tbl' = [tbl EXCEPT ![e] = [i \in DOMAIN @ |->
                   IF i \in gone THEN ChannelFree(Run(@[i])).c ELSE @[i]]]
      /\ used' = [used EXCEPT ![e] = @ - 2 * Cardinality(gone)]
      /\ UNCHANGED <<alloc, at, rset, wset, net, fault, opened, hist>>

StopListening(e) ==
  LET gone == {i \in DOMAIN tbl[e] :
                 tbl[e][i].type \in {"X11_LISTENER", "PORT_LISTENER"}}
  IN  /\ e = "client"
      /\ Ready(e)
      /\ gone # {}
      /\ tbl' = [tbl EXCEPT ![e] = [i \in DOMAIN @ |->
                   IF i \in gone THEN ChannelFree(Run(@[i])).c ELSE @[i]]]
      /\ used' = [used EXCEPT ![e] = @ - Cardinality(gone)]
      /\ UNCHANGED <<alloc, at, rset, wset, net, fault, opened, hist>>

-----------------------------------------------------------------------------
OutputPoll(e)    == PollBreak(e) \/ \E i \in DOMAIN tbl[e] :
                      PollData(e, i) \/ PollEof(e, i)
PrepareSelect(e) == \E i \in DOMAIN tbl[e] :
                      \/ PrepareListener(e, i) \/ PrepareOpen(e, i)
                      \/ PrepareX11Incomplete(e, i) \/ PrepareX11Good(e, i)
                      \/ PrepareX11Bad(e, i)
AfterSelect(e)   == \E i \in DOMAIN tbl[e] :
                      \/ AcceptConnection(e, i) \/ NoConnection(e, i)
                      \/ ReadEof(e, i) \/ ReadAndWrite(e, i) \/ WriteError(e, i)

Next == \E e \in Ends :
          \/ InputPacket(e) \/ PacketsDone(e)
          \/ OutputPoll(e) \/ PrepareSelect(e) \/ AfterSelect(e)
          \/ StopListening(e)

Spec == Init /\ [][Next]_vars

-----------------------------------------------------------------------------
(* Fairness.  The loop of each end keeps running (select returns at least  *)
(* when something is ready); the connection delivers the packets on it and *)
(* drains, so that polling is not broken off for ever; a program that left *)
(* its socket open for reading reads it or closes it.  Nothing is assumed  *)
(* of what the programs write, or of when they stop.                       *)

Loop(e)  == PacketsDone(e) \/ OutputPoll(e) \/ PrepareSelect(e) \/ AfterSelect(e)
Poll(e)  == \E i \in DOMAIN tbl[e] : PollData(e, i) \/ PollEof(e, i)
Drain(e) == \E i \in DOMAIN tbl[e] :
              WriteError(e, i) \/
              (ReadAndWrite(e, i) /\ Len(tbl'[e][i].output) < Len(tbl[e][i].output))

Fairness ==
  \A e \in Ends : /\ WF_vars(Loop(e)) /\ SF_vars(InputPacket(e))
                  /\ SF_vars(Poll(e)) /\ SF_vars(Drain(e))

FairSpec == Spec /\ Fairness

-----------------------------------------------------------------------------
(* Types.                                                                  *)

Sockets  == Nat \cup {NoId}
Ids      == Nat \cup {NoId}
Positions == [phase : {"packets", "poll", "prepare", "after"}, slot : Nat]

Channel ==
  [type : ChannelTypes, sock : Sockets, rid : Ids, flags : SUBSET Flags,
   isx : BOOLEAN, input : Seq(Items), output : Seq(Items),
   target : Targets \cup {NoTarget}, inst : Instances \cup {0}]

Message ==
  [kind : Kinds, chan : Ids, from : Ids, target : Targets \cup {NoTarget},
   data : Seq(Items), inst : Instances \cup {0}]

\* The type of every variable: no step stores an entry, a packet or a set of
\* another shape, and no counter leaves its range.
TypeOK ==
  /\ alloc  \in [Ends -> Nat]
  /\ DOMAIN tbl = Ends
  /\ \A e \in Ends : tbl[e] \in [0 .. alloc[e] - 1 -> Channel]
  /\ used   \in [Ends -> Nat]
  /\ at     \in [Ends -> Positions]
  /\ rset   \in [Ends -> SUBSET Sockets]
  /\ wset   \in [Ends -> SUBSET Sockets]
  /\ net    \in [Ends -> Seq(Message)]
  /\ fault  \in [Ends -> Faults]
  /\ opened \in 0 .. MaxOpens
  /\ hist   \in [Instances \cup {0} ->
                   [Ends -> [read : Nat, wrote : Nat, shut : Reasons]]]

-----------------------------------------------------------------------------
(* Safety that needs no more than the tables and the packets on their way; *)
(* the properties of the data streams are in ChannelProperties.            *)

\* Between two ends running this code no packet makes the receiver disconnect
\* (double eof, double close, data after eof, nonexistent or non-opening
\* channel), and neither the assertion of channel_free nor the "internal bug"
\* of channel_allocate is reached.
NoFault == \A e \in Ends : fault[e] = "none"

\* A packet on its way finds, when it is handled, the entry that serves the
\* connection it was sent for: slots are reused only when nothing addressed to
\* their last user is left.  A confirmation or refusal finds it still opening.
PacketsFindTheirChannel ==
  \A e \in Ends : \A k \in 1 .. Len(net[e]) :
    LET m == net[e][k]
    IN  m.kind \notin OpenKinds =>
          /\ m.chan \in DOMAIN tbl[e]
          /\ tbl[e][m.chan].inst = m.inst
          /\ tbl[e][m.chan].type \in
               (IF m.kind \in {"OPEN_CONFIRMATION", "OPEN_FAILURE"}
                THEN {"OPENING"} ELSE LiveTypes)

\* While the pass over the select results runs, a descriptor number found in
\* readset or writeset still means what select was asked about: it belongs to
\* a listener or to an open channel that has not been closed since, and never
\* to a connection that was accepted, in the same pass, into the number of an
\* entry freed before.
SelectSetsCurrent ==
  \A e \in Ends :
    at[e].phase = "after" =>
      \A i \in InUse(tbl[e]) :
        LET ch  == tbl[e][i]
            due == i >= at[e].slot
        IN  /\ ch.sock \in rset[e] =>
                 \/ ch.type \in ListenerTypes
                 \/ ch.type = "OPEN" /\ (due => "INPUT_CLOSED" \notin ch.flags)
            /\ ch.sock \in wset[e] =>
                 ch.type = "OPEN" /\ (due => ch.output # << >>)

\* channels_used counts the entries in use, so that channel_allocate always
\* finds a slot; no two entries share a descriptor, and no entry outlives the
\* six flags that end it.
TableConsistent ==
  \A e \in Ends :
    /\ used[e] = Cardinality(InUse(tbl[e]))
    /\ fault[e] # "table corrupt"
    /\ \A i, j \in InUse(tbl[e]) : tbl[e][i].sock = tbl[e][j].sock => i = j
    /\ \A i \in InUse(tbl[e]) : tbl[e][i].flags # Flags
=============================================================================
