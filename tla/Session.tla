------------------------------- MODULE Session ------------------------------
(***************************************************************************)
(* The interactive session: client_loop of clientloop.c against            *)
(* server_loop of serverloop.c, with the program the server runs and the   *)
(* user at the client's terminal as environment.  Data is counted in       *)
(* items; a STDIN_DATA, STDOUT_DATA or STDERR_DATA packet carries one      *)
(* item.  Packets are named by their type.  All forwarded connections      *)
(* together are one flag: Channels has their detail.                       *)
(***************************************************************************)
EXTENDS Naturals, Sequences, FiniteSets

CONSTANTS
  Sessions,    \* the sessions that may be set up: records of
               \*   kind     what joins server and program: "pipes", a "pty", or, in
               \*            an sshd built without USE_PIPES, a "socket", fdin == fdout
               \*   forward  a forwarded connection is open from the start
               \*   types    bound: items the user types
               \*   writes   bound: items the program writes, per stream
               \*   faults   what may happen to the client: "hangup", "kill"
  StdinLimit,  \* 4096 in the code: stdin data buffered by the server
  Small,       \* 512 in the code: stdout data that waits for more
  HighOutput,  \* limit of packet_not_very_much_data_to_write, in packets
  HighBuffer,  \* buffer_high of the client
  PipeCap,     \* what fits into a pipe of the program
  NetCap       \* what fits into the connection, each way

Streams == {"stdout", "stderr"}

ASSUME SessionAssumption ==
  /\ Sessions \subseteq [kind : {"pipes", "pty", "socket"}, forward : BOOLEAN, types : Nat,
                         writes : [Streams -> Nat], faults : SUBSET {"hangup", "kill"}]
  /\ {StdinLimit, Small, HighOutput, HighBuffer, PipeCap, NetCap} \subseteq Nat \ {0}

VARIABLES
  c,      \* the client: its loop, its buffers, the packet layer's buffers
  s,      \* the server: the same, and what it knows of the program
  p,      \* the program's processes and pipes
  u,      \* the user: the session asked for; typed, taken, closed, shown, tty
  c2s,    \* packets in the connection to the server
  s2c     \* packets in the connection to the client

vars == <<c, s, p, u, c2s, s2c>>

Least(a, b) == IF a < b THEN a ELSE b
Copies(x, n) == [i \in 1 .. n |-> x]

-----------------------------------------------------------------------------
(* The packet layer of either end.                                         *)

\* packet_not_very_much_data_to_write
NotMuch(x) == Len(x.output) < HighOutput
\* How many of n buffered items the send loops turn into packets.
Sendable(x, n) == IF NotMuch(x) THEN Least(n, HighOutput - Len(x.output)) ELSE 0
Send(x, packets) == [x EXCEPT !.output = @ \o packets]
\* packet_write_poll: the socket takes what fits.
Fitting(x, conn) == Least(Len(x.output), NetCap - Len(conn))
Written(x, conn)   == [x EXCEPT !.output = SubSeq(@, Fitting(x, conn) + 1, Len(@))]
Delivered(x, conn) == conn \o SubSeq(x.output, 1, Fitting(x, conn))

-----------------------------------------------------------------------------
(* The client.                                                             *)

\* client_process_buffered_input_packets, one packet; a DISCONNECT never
\* comes back from packet_read_poll.
ClientPacket ==
  /\ c.pc = "packets" /\ c.input # << >>
  /\ LET m    == Head(c.input)
         rest == [c EXCEPT !.input = Tail(@)]
     IN  c' = CASE m \in Streams     -> [rest EXCEPT !.buf[m] = @ + 1]
                [] m = "exitstatus"  -> [Send(rest, <<"confirmation">>)
                                           EXCEPT !.exit = "status", !.pc = "flush"]
                [] m = "disconnect"  -> [rest EXCEPT !.exit = "fatal", !.pc = "gone"]
  /\ UNCHANGED <<s, p, u, c2s, s2c>>

\* client_make_packets_from_stdin_data: the eof follows the last item.
MakeStdinPackets(x) ==
  LET k == Sendable(x, x.stdin)
  IN  [Send(x, Copies("stdin", k)
               \o IF k > 0 /\ k = x.stdin /\ x.eof THEN <<"eof">> ELSE << >>)
         EXCEPT !.stdin = @ - k]

\* channel_output_poll, for the connection the user has ended.
ClientPollChannels(x) ==
  IF NotMuch(x) /\ x.forward = "closing"
  THEN [Send(x, <<"close">>) EXCEPT !.forward = "closed"] ELSE x

ClientMakePackets ==
  /\ c.pc = "packets" /\ c.input = << >>
  /\ c' = [ClientPollChannels(MakeStdinPackets(c)) EXCEPT !.pc = "select"]
  /\ UNCHANGED <<s, p, u, c2s, s2c>>

\* What client_wait_until_can_do_something finds ready; the terminal takes
\* output when it pleases.
ClientReady(accepts) ==
  (IF /\ \A st \in Streams : c.buf[st] < HighBuffer
      /\ s2c # << >> \/ s.pc = "gone" THEN {"connection in"} ELSE {})
  \cup (IF ~c.eof /\ NotMuch(c) /\ (u.typed > u.taken \/ u.closed)
        THEN {"stdin"} ELSE {})
  \cup (IF c.output # << >> /\ (Len(c2s) < NetCap \/ s.pc = "gone")
        THEN {"connection out"} ELSE {})
  \cup {st \in Streams : c.buf[st] > 0 /\ (accepts \/ u.tty = "gone")}
  \cup (IF c.forward = "closing" THEN {"channel"} ELSE {})

\* Mutant of ClientReadStdin: the eof is left to the code that sends buffered data.
ClientReadStdinSilent(x) ==
  IF x.quit THEN x
  ELSE IF u.typed > u.taken THEN [x EXCEPT !.stdin = @ + (u.typed - u.taken)]
  ELSE [x EXCEPT !.eof = TRUE]

\* client_process_input: all that is there, or end of file.
ClientReadConnection(x) ==
  IF s2c # << >> THEN [x EXCEPT !.input = @ \o s2c] ELSE [x EXCEPT !.quit = TRUE]

ClientReadStdin(x) ==
  IF x.quit THEN x
  ELSE IF u.typed > u.taken THEN [x EXCEPT !.stdin = @ + (u.typed - u.taken)]
  ELSE [Send(x, IF x.stdin = 0 THEN <<"eof">> ELSE << >>) EXCEPT !.eof = TRUE]

\* client_process_output: a write takes all or some of what is buffered, so much is left;
\* one that fails ends the session.
Leftovers == {left \in [Streams -> 0 .. c.buf["stdout"] + c.buf["stderr"]] :
                \A st \in Streams : left[st] = 0 \/ left[st] < c.buf[st]}
ClientWriteOut(x, ready, left) ==
  IF ready \cap Streams = {} THEN x
  ELSE IF u.tty = "gone" THEN [x EXCEPT !.quit = TRUE]
  ELSE [x EXCEPT !.buf = [st \in Streams |-> IF st \in ready THEN left[st] ELSE @[st]]]

\* select returns; channels, input, output and the connection are served.
ClientSelect ==
  \E accepts \in BOOLEAN, left \in Leftovers :
    LET ready == ClientReady(accepts)
        c1 == IF "connection in" \in ready THEN ClientReadConnection(c) ELSE c
        c2 == IF "stdin" \in ready THEN ClientReadStdin(c1) ELSE c1
        c3 == ClientWriteOut(c2, ready, left)
        writes == "connection out" \in ready
        c4 == IF writes THEN Written(c3, c2s) ELSE c3
        lost == writes /\ s.pc = "gone"
    IN  /\ c.pc = "select" /\ ready # {}
        /\ c' = [c4 EXCEPT !.pc = IF lost THEN "gone" ELSE IF c4.quit THEN "leave"
                                      ELSE "packets",
                               !.exit = IF lost THEN "fatal" ELSE @]
        /\ c2s' = IF writes THEN Delivered(c3, c2s) ELSE c2s
        /\ s2c' = IF "connection in" \in ready THEN << >> ELSE s2c
        /\ u' = [u EXCEPT !.taken = IF "stdin" \in ready /\ ~c1.quit THEN u.typed ELSE @,
                          !.shown = [st \in Streams |-> @[st] + (c.buf[st] - c4.buf[st])]]
        /\ UNCHANGED <<s, p>>

\* packet_write_wait for the confirmation; then quit_pending = 1.
ClientFlush ==
  /\ c.pc = "flush"
  /\ IF c.output = << >>
     THEN /\ c' = [c EXCEPT !.pc = "leave", !.quit = TRUE] /\ UNCHANGED c2s
     ELSE /\ Len(c2s) < NetCap \/ s.pc = "gone"
          /\ c' = IF s.pc = "gone" THEN [c EXCEPT !.pc = "gone", !.exit = "fatal"]
                  ELSE Written(c, c2s)
          /\ c2s' = Delivered(c, c2s)
  /\ UNCHANGED <<s, p, u, s2c>>

\* The end of client_loop: buffered output is written, blocking.
ClientLeave ==
  /\ c.pc = "leave"
  /\ c' = [c EXCEPT !.pc = "gone",
                    !.buf = IF u.tty = "gone" THEN @ ELSE [st \in Streams |-> 0]]
  /\ u' = [u EXCEPT !.shown = [st \in Streams |-> @[st] + (c.buf[st] - c'.buf[st])]]
  /\ UNCHANGED <<s, p, c2s, s2c>>

\* signal_handler: SIGINT, SIGQUIT or SIGTERM, at any moment.
ClientKilled ==
  /\ "kill" \in u.session.faults /\ c.pc # "gone"
  /\ c' = [c EXCEPT !.pc = "gone", !.exit = "killed"]
  /\ UNCHANGED <<s, p, u, c2s, s2c>>

-----------------------------------------------------------------------------
(* The server.                                                             *)

\* server_loop up to the loop: the handler is set after the program started.
ServerStart ==
  /\ s.pc = "start"
  /\ s' = [s EXCEPT !.pc = "packets", !.handler = TRUE]
  /\ UNCHANGED <<c, p, u, c2s, s2c>>

\* process_buffered_input_packets, one packet; any other type makes
\* packet_disconnect end the process.
ServerPacket ==
  /\ s.pc = "packets" /\ s.input # << >>
  /\ LET m    == Head(s.input)
         rest == [s EXCEPT !.input = Tail(@)]
     IN  s' = CASE m = "stdin" -> [rest EXCEPT !.stdin = IF s.fdin THEN @ + 1 ELSE @]
                [] m = "eof"   -> [rest EXCEPT !.stdin_eof = TRUE]
                [] m = "close" -> [rest EXCEPT !.forward = FALSE]
                [] OTHER -> [Send(rest, <<"disconnect">>)
                               EXCEPT !.pc = "flush", !.then = "gone", !.cause = "protocol error"]
  /\ UNCHANGED <<c, p, u, c2s, s2c>>

\* Mutant of CloseStdin: buffered data is not waited for.
CloseStdinAtOnce(x) == IF x.stdin_eof /\ x.fdin THEN [x EXCEPT !.fdin = FALSE] ELSE x

\* The real eof: fdin is closed when the data before it has drained.
CloseStdin(x) ==
  IF x.stdin_eof /\ x.fdin /\ x.stdin = 0 THEN [x EXCEPT !.fdin = FALSE] ELSE x

\* Mutant of MakePackets: a packet is sent even when the buffer is empty.
MakePacketsEager(x, st) ==
  LET k == IF NotMuch(x) THEN HighOutput - Len(x.output) ELSE 0
  IN  [Send(x, Copies(st, k)) EXCEPT !.buf[st] = @ - k]

\* make_packets_from_stderr_data, make_packets_from_stdout_data
MakePackets(x, st) ==
  LET k == Sendable(x, x.buf[st])
  IN  [Send(x, Copies(st, k)) EXCEPT !.buf[st] = @ - k]

\* A little stdout data waits 17 ms, once, for more to come.
HoldsBack(x) ==
  x.buf["stdout"] # 0 /\ x.buf["stdout"] < Small /\ x.buf["stdout"] # x.previous

\* Mutant of MakeStdoutPackets: what was held back last time is forgotten.
MakeStdoutPacketsForgetful(x) ==
  IF HoldsBack(x) THEN [x EXCEPT !.timeout = "17ms"]
  ELSE LET y == MakePackets(x, "stdout")
       IN  [y EXCEPT !.timeout = "none", !.previous = y.buf["stdout"]]

\* make_packets_from_stdout_data, or not yet.
MakeStdoutPackets(x) ==
  IF HoldsBack(x)
  THEN [x EXCEPT !.timeout = "17ms", !.previous = x.buf["stdout"]]
  ELSE LET y == MakePackets(x, "stdout")
       IN  [y EXCEPT !.timeout = "none", !.previous = y.buf["stdout"]]

\* Mutant of Finished: the end of stderr is not waited for.
FinishedStdout(x) ==
  x.eof["stdout"] /\ \A st \in Streams : x.buf[st] = 0 /\ x.output = << >>

\* Both streams ended and everything is sent.
Finished(x) ==
  \A st \in Streams : x.eof[st] /\ x.buf[st] = 0 /\ x.output = << >>

\* "Waiting for forwarded connections to terminate..."
Notice(x) ==
  IF Finished(x) /\ ~x.waiting /\ ~x.just
  THEN [x EXCEPT !.waiting = TRUE, !.buf["stderr"] = @ + 1] ELSE x

\* The loop from the eof test to the start of wait_until_can_do_something,
\* whose first statement resets child_just_terminated.
ServerMakePackets ==
  /\ s.pc = "packets" /\ s.input = << >>
  /\ LET x == MakeStdoutPackets(MakePackets(CloseStdin(s), "stderr"))
     IN  s' = IF Finished(x) /\ ~x.forward
              THEN [x EXCEPT !.pc = "flush", !.then = "ended"]
              ELSE [Notice(x) EXCEPT !.pc = "sets", !.just = FALSE]
  /\ UNCHANGED <<c, p, u, c2s, s2c>>

\* The timeout is chosen by a test of child_terminated before select.
ServerSets ==
  /\ s.pc = "sets"
  /\ s' = [s EXCEPT !.pc = "select",
                    !.timeout = IF s.terminated /\ @ = "none" THEN "100ms" ELSE @]
  /\ UNCHANGED <<c, p, u, c2s, s2c>>

\* A pty or a socket is one object for the program's stdin and stdout.
Kind   == u.session.kind
Linked == Kind # "pipes"
StdinRead == "stdin" \in p.open \/ (Linked /\ "stdout" \in p.open)
Held(st)  == st \in p.open \/ (Linked /\ st = "stdout" /\ "stdin" \in p.open)

\* What select in wait_until_can_do_something finds ready.
ServerReady ==
  (IF s.stdin < StdinLimit /\ (c2s # << >> \/ c.pc = "gone") THEN {"connection in"} ELSE {})
  \cup {st \in Streams : NotMuch(s) /\ ~s.eof[st] /\ (p.out[st] > 0 \/ ~Held(st))}
  \cup (IF s.output # << >> /\ (Len(s2c) < NetCap \/ c.pc = "gone")
        THEN {"connection out"} ELSE {})
  \cup (IF s.fdin /\ s.stdin > 0 /\ (p.stdin < PipeCap \/ ~StdinRead) THEN {"fdin"} ELSE {})

\* A closed descriptor is in the sets: select fails with EBADF.
BadSets == ~s.fdout["stdout"] /\ ~s.eof["stdout"] /\ NotMuch(s)

\* All descriptors to the dead program are shut down when nothing comes from
\* it; fdin is closed although it may be the number fdout still has.
ShutdownChild(x) ==
  IF ~x.terminated \/ x.just THEN x
  ELSE [x EXCEPT !.fdin = FALSE,
                 !.fdout = [st \in Streams |-> @[st] /\ ~x.eof[st]
                                               /\ ~(Kind = "socket" /\ st = "stdout" /\ x.fdin)]]

\* select returns 0 or -1: nothing is read or written.
ServerNothing ==
  /\ s.pc = "select"
  /\ \/ BadSets
     \/ s.interrupted
     \/ ServerReady = {} /\ s.timeout # "none"
  /\ s' = [ShutdownChild(s) EXCEPT !.pc = "packets", !.interrupted = FALSE]
  /\ UNCHANGED <<c, p, u, c2s, s2c>>

\* Mutant of ReadProgram: a read of nothing is not taken as the end.
ReadProgramEndless(x, ready) ==
  [x EXCEPT !.buf = [st \in Streams |-> IF st \in ready THEN @[st] + p.out[st] ELSE @[st]]]

\* process_input
ReadProgram(x, ready) ==
  [x EXCEPT !.buf = [st \in Streams |-> IF st \in ready THEN @[st] + p.out[st] ELSE @[st]],
            !.eof = [st \in Streams |-> @[st] \/ (st \in ready /\ p.out[st] = 0)]]

\* process_output to the program: a failed write closes fdin, whatever is
\* still buffered.
ToProgram == Least(s.stdin, PipeCap - p.stdin)
WriteProgram(x, ready) ==
  IF "fdin" \notin ready THEN x
  ELSE IF StdinRead THEN [x EXCEPT !.stdin = @ - ToProgram]
  ELSE [x EXCEPT !.fdin = FALSE]

\* select returns with something to do: process_input, process_output.  A
\* connection that is gone is fatal.
ServerSelect ==
  LET ready  == ServerReady
      reads  == "connection in" \in ready
      writes == "connection out" \in ready
      s1     == IF reads THEN [s EXCEPT !.input = @ \o c2s] ELSE s
      s2     == WriteProgram(ReadProgram(s1, ready), ready)
      fatal  == (reads /\ c2s = << >>) \/ (writes /\ c.pc = "gone")
  IN  /\ s.pc = "select" /\ ~s.interrupted /\ ~BadSets /\ ready # {}
      /\ s' = IF fatal THEN [s EXCEPT !.pc = "gone", !.cause = "connection lost"]
              ELSE [(IF writes THEN Written(s2, s2c) ELSE s2) EXCEPT !.pc = "packets"]
      /\ p' = [p EXCEPT !.out = [st \in Streams |-> IF st \in ready THEN 0 ELSE @[st]],
                        !.stdin = IF "fdin" \in ready /\ StdinRead THEN @ + ToProgram ELSE @]
      /\ c2s' = IF reads THEN << >> ELSE c2s
      /\ s2c' = IF writes /\ ~fatal THEN Delivered(s2, s2c) ELSE s2c
      /\ UNCHANGED <<c, u>>

\* packet_write_wait, from drain_output, packet_disconnect or for the exit
\* status.
ServerFlush ==
  /\ s.pc = "flush"
  /\ IF s.output = << >>
     THEN /\ s' = [s EXCEPT !.pc = s.then] /\ UNCHANGED s2c
     ELSE /\ Len(s2c) < NetCap \/ c.pc = "gone"
          /\ s' = IF c.pc = "gone" THEN [s EXCEPT !.pc = "gone", !.cause = "connection lost"]
                  ELSE Written(s, s2c)
          /\ s2c' = Delivered(s, s2c)
  /\ UNCHANGED <<c, p, u, c2s>>

\* Mutant of ServerEnded: SIGCHLD stays caught.
ServerEndedCatching ==
  /\ s.pc = "ended"
  /\ s' = [s EXCEPT !.pc = "status", !.fdin = FALSE, !.fdout = [st \in Streams |-> FALSE]]
  /\ UNCHANGED <<c, p, u, c2s, s2c>>

\* After the loop: the descriptors are closed, SIGCHLD is ignored again.
ServerEnded ==
  /\ s.pc = "ended"
  /\ s' = [s EXCEPT !.pc = "status", !.handler = FALSE, !.fdin = FALSE,
                    !.fdout = [st \in Streams |-> FALSE]]
  /\ UNCHANGED <<c, p, u, c2s, s2c>>

\* What is sent for the status wait returned.
Report(x) ==
  IF p.child = "exited"
  THEN [Send(x, <<"exitstatus">>) EXCEPT !.pc = "flush", !.then = "confirm"]
  ELSE [Send(x, <<"disconnect">>) EXCEPT !.pc = "flush", !.then = "gone", !.cause = "signal"]

\* The handler has the status already, or wait is called.
ServerStatus ==
  /\ s.pc = "status"
  /\ s' = IF s.terminated THEN Report(s) ELSE [s EXCEPT !.pc = "wait"]
  /\ UNCHANGED <<c, p, u, c2s, s2c>>

\* wait returns, or fails because there is no child.
ServerWait ==
  /\ s.pc = "wait" /\ p.child # "running"
  /\ s' = IF p.reaped
          THEN [Send(s, <<"disconnect">>) EXCEPT !.pc = "flush", !.then = "gone",
                                                 !.cause = "wait failed"]
          ELSE Report(s)
  /\ p' = [p EXCEPT !.reaped = TRUE]
  /\ UNCHANGED <<c, u, c2s, s2c>>

\* Packets before the confirmation are ignored.
ServerConfirm ==
  /\ s.pc = "confirm" /\ (c2s # << >> \/ c.pc = "gone")
  /\ s' = [s EXCEPT
       !.pc = IF c2s = << >> \/ "confirmation" \in {c2s[i] : i \in DOMAIN c2s}
              THEN "gone" ELSE @,
       !.cause = IF c2s = << >> THEN "connection lost"
                 ELSE IF "confirmation" \in {c2s[i] : i \in DOMAIN c2s}
                 THEN "confirmed" ELSE @]
  /\ c2s' = << >>
  /\ UNCHANGED <<c, p, u, s2c>>

\* sigchld_handler, between any two steps; it may interrupt a select that
\* found nothing ready.
SigChld ==
  /\ p.signal /\ s.pc # "gone"
  /\ IF s.handler
     THEN \E interrupts \in BOOLEAN :
            /\ interrupts => (s.pc = "select" /\ ServerReady = {})
            /\ s' = [s EXCEPT !.terminated = @ \/ ~p.reaped, !.just = @ \/ ~p.reaped,
                              !.interrupted = interrupts]
            /\ p' = [p EXCEPT !.signal = FALSE, !.reaped = TRUE]
     ELSE /\ p' = [p EXCEPT !.signal = FALSE] /\ UNCHANGED s
  /\ UNCHANGED <<c, u, c2s, s2c>>

-----------------------------------------------------------------------------
(* The program, whose descriptors may be shared by processes it leaves     *)
(* behind, and the user.                                                   *)

ProgramWrites(st) ==
  /\ st \in p.open /\ p.wrote[st] < u.session.writes[st] /\ p.out[st] < PipeCap
  /\ p' = [p EXCEPT !.out[st] = @ + 1, !.wrote[st] = @ + 1]
  /\ UNCHANGED <<c, s, u, c2s, s2c>>

\* Closing fdin ends the program's input, but a pty must lose both its
\* descriptors.
InputEnded == ~s.fdin /\ (Kind = "pty" => ~s.fdout["stdout"])

\* A read takes what there is, or sees the end of file.
ProgramReads ==
  /\ "stdin" \in p.open
  /\ p.stdin > 0 \/ (InputEnded /\ ~p.sawEof)
  /\ p' = IF p.stdin > 0 THEN [p EXCEPT !.read = @ + p.stdin, !.stdin = 0]
          ELSE [p EXCEPT !.sawEof = TRUE]
  /\ UNCHANGED <<c, s, u, c2s, s2c>>

ProgramCloses(d) ==
  /\ d \in p.open
  /\ p' = [p EXCEPT !.open = @ \ {d}]
  /\ UNCHANGED <<c, s, u, c2s, s2c>>

\* The child ends; the descriptors stay open in processes it leaves behind.
\* Without a handler SIGCHLD is ignored.
ChildEnds(how, left) ==
  /\ p.child = "running" /\ left \in {{}, p.open}
  /\ p' = [p EXCEPT !.child = how, !.open = left, !.signal = s.handler]
  /\ UNCHANGED <<c, s, u, c2s, s2c>>

UserTypes ==
  /\ u.tty # "gone" /\ ~u.closed /\ u.typed < u.session.types
  /\ u' = [u EXCEPT !.typed = @ + 1]
  /\ UNCHANGED <<c, s, p, c2s, s2c>>
UserEndsInput ==
  /\ ~u.closed
  /\ u' = [u EXCEPT !.closed = TRUE]
  /\ UNCHANGED <<c, s, p, c2s, s2c>>
UserEndsForwarding ==
  /\ c.forward = "open" /\ c.pc # "gone"
  /\ c' = [c EXCEPT !.forward = "closing"]
  /\ UNCHANGED <<s, p, u, c2s, s2c>>
UserHangsUp ==
  /\ "hangup" \in u.session.faults /\ u.tty = "ok"
  /\ u' = [u EXCEPT !.tty = "gone"]
  /\ UNCHANGED <<c, s, p, c2s, s2c>>

-----------------------------------------------------------------------------
Both(x) == [st \in Streams |-> x]
\* client_check_initial_eof_on_stdin: the input may have ended already.
Init ==
  /\ \E session \in Sessions, nothing \in BOOLEAN :
       /\ u = [session |-> session, typed |-> 0, taken |-> 0, closed |-> nothing,
               shown |-> Both(0), tty |-> "ok"]
       /\ c = [pc |-> "packets", input |-> << >>, stdin |-> 0, eof |-> nothing,
               output |-> IF nothing THEN <<"eof">> ELSE << >>, buf |-> Both(0),
               quit |-> FALSE, exit |-> "none",
               forward |-> IF session.forward THEN "open" ELSE "none"]
  /\ s = [pc |-> "start", then |-> "none", input |-> << >>, output |-> << >>,
          stdin |-> 0, stdin_eof |-> FALSE, fdin |-> TRUE,
          fdout |-> [st \in Streams |-> st = "stdout" \/ Kind # "pty"],
          eof |-> [st \in Streams |-> st = "stderr" /\ Kind = "pty"],
          buf |-> Both(0), previous |-> 0, waiting |-> FALSE, terminated |-> FALSE,
          just |-> FALSE, timeout |-> "none", interrupted |-> FALSE,
          handler |-> FALSE, forward |-> u.session.forward, cause |-> "none"]
  /\ p = [child |-> "running", signal |-> FALSE, reaped |-> FALSE,
          open |-> {"stdin", "stdout"} \cup (IF Kind = "pty" THEN {} ELSE {"stderr"}),
          stdin |-> 0, read |-> 0, sawEof |-> FALSE, out |-> Both(0), wrote |-> Both(0)]
  /\ c2s = << >> /\ s2c = << >>

ClientStep == \/ ClientPacket \/ ClientMakePackets \/ ClientSelect
              \/ ClientFlush \/ ClientLeave
ServerStep == \/ ServerStart \/ ServerPacket \/ ServerMakePackets \/ ServerSets
              \/ ServerNothing \/ ServerSelect \/ ServerFlush \/ ServerEnded
              \/ ServerStatus \/ ServerWait \/ ServerConfirm
Environment ==
  \/ \E st \in Streams : ProgramWrites(st)
  \/ ProgramReads
  \/ \E d \in Streams \cup {"stdin"} : ProgramCloses(d)
  \/ \E how \in {"exited", "killed"}, left \in SUBSET (Streams \cup {"stdin"}) :
       ChildEnds(how, left)
  \/ UserTypes \/ UserEndsInput \/ UserEndsForwarding \/ UserHangsUp
Next == ClientStep \/ ServerStep \/ SigChld \/ ClientKilled \/ Environment

Spec == Init /\ [][Next]_vars

\* select returns when something is ready, the kernel delivers the signal, the
\* terminal takes output, and the program reads its input.
FairSpec ==
  /\ Spec
  /\ WF_vars(ClientStep) /\ WF_vars(ServerStep) /\ WF_vars(SigChld)
  /\ WF_vars(ProgramReads)
=============================================================================
