------------------------------ MODULE MCSession -----------------------------
(***************************************************************************)
(* The properties of Session that TLC checks, and its instances.           *)
(***************************************************************************)
EXTENDS Session

\* The server is in its loop.
Looping == s.pc \in {"start", "packets", "sets", "select"}

\* The packets of either direction.  The types of the two ends are over the
\* packets that may be on their way to the client.
ToClient == Streams \cup {"exitstatus", "disconnect"}
ToServer == {"stdin", "eof", "close", "confirmation"}

ClientType(M) ==
  [pc : {"packets", "select", "flush", "leave", "gone"},
   input : Seq(M), stdin : Nat, eof : BOOLEAN, output : Seq(ToServer),
   buf : [Streams -> Nat], quit : BOOLEAN,
   exit : {"none", "status", "fatal", "killed"},
   forward : {"none", "open", "closing", "closed"}]
ServerType(M) ==
  [pc : {"start", "packets", "sets", "select", "flush", "ended", "status", "wait",
         "confirm", "gone"},
   then : {"none", "ended", "confirm", "gone"},
   input : Seq(ToServer), output : Seq(M),
   stdin : Nat, stdin_eof : BOOLEAN, fdin : BOOLEAN,
   fdout : [Streams -> BOOLEAN], eof : [Streams -> BOOLEAN],
   buf : [Streams -> Nat], previous : Nat, waiting : BOOLEAN,
   terminated : BOOLEAN, just : BOOLEAN, timeout : {"none", "17ms", "100ms"},
   interrupted : BOOLEAN, handler : BOOLEAN, forward : BOOLEAN,
   cause : {"none", "protocol error", "connection lost", "signal", "confirmed",
            "wait failed"}]
ProgramType ==
  [child : {"running", "exited", "killed"}, signal : BOOLEAN, reaped : BOOLEAN,
   open : SUBSET (Streams \cup {"stdin"}), stdin : 0 .. PipeCap, read : Nat,
   sawEof : BOOLEAN, out : [Streams -> 0 .. PipeCap], wrote : [Streams -> Nat]]
UserType ==
  [session : Sessions, typed : Nat, taken : Nat, closed : BOOLEAN,
   shown : [Streams -> Nat], tty : {"ok", "gone"}]

TypeOK ==
  /\ c \in ClientType(ToClient) /\ s \in ServerType(ToClient)
  /\ p \in ProgramType /\ u \in UserType
  /\ c2s \in Seq(ToServer) /\ Len(c2s) =< NetCap
  /\ s2c \in Seq(ToClient) /\ Len(s2c) =< NetCap

Notices(st) == IF st = "stderr" /\ s.waiting THEN 1 ELSE 0

\* A client that leaves with the program's exit status has written everything
\* the program, and what it left behind, ever wrote.
OutputBeforeStatus ==
  (c.exit = "status" /\ c.pc = "gone" /\ u.tty = "ok") =>
    \A st \in Streams : u.shown[st] = p.wrote[st] + Notices(st)

\* The program sees the end of its input only when it has read everything the
\* user typed.
EofAfterInput ==
  (p.sawEof /\ p.child = "running" /\ Looping) =>
    /\ u.closed
    /\ p.read = u.typed

\* The server always learns how its child ended: whoever reaps it, the handler
\* or the wait at the end, the status reported is the child's.
StatusIsTheChilds ==
  /\ s.cause # "wait failed"
  /\ c.exit = "status" => p.child = "exited"
  /\ s.cause = "signal" => p.child = "killed"

\* Output never gets stuck, however little it is: the terminal always catches
\* up with the program.
OutputFlows ==
  []<>(c.pc = "gone" \/ \A st \in Streams : u.shown[st] >= p.wrote[st])

\* A program that reads always catches up with what is typed, and sees the end
\* of it.
InputOver == p.child # "running" \/ "stdin" \notin p.open \/ c.pc = "gone" \/ ~Looping
InputFlows ==
  []<>\/ InputOver
      \/ p.read = u.typed /\ (u.closed /\ Kind # "pty" => p.sawEof)

\* Once the program and all it left behind are gone, and no forwarded
\* connection is left, both ends stop.
NothingLeft ==
  p.child # "running" /\ p.open = {} /\ c.forward \in {"none", "closing", "closed"}
SessionEnds == NothingLeft ~> (c.pc = "gone" /\ s.pc = "gone")

-----------------------------------------------------------------------------
(* Instances.                                                              *)

Out(a, b) == [st \in Streams |-> IF st = "stdout" THEN a ELSE b]
Case(kind, forward, types, writes, faults) ==
  [kind |-> kind, forward |-> forward, types |-> types, writes |-> writes,
   faults |-> faults]

\* A command that writes to both streams, input that fills the pipe, a login
\* with a forwarded connection and a terminal that may go, and the socket.
AllKinds == {Case("pipes", FALSE, 0, Out(2, 1), {}),
             Case("pipes", FALSE, 2, Out(0, 0), {}),
             Case("pty", TRUE, 1, Out(1, 0), {"hangup"}),
             Case("socket", FALSE, 1, Out(1, 0), {})}
\* Input only, output only, and a forwarded connection with a client that may
\* be killed.
EndingKinds == {Case("pipes", FALSE, 1, Out(0, 0), {}),
                Case("pty", FALSE, 0, Out(2, 0), {}),
                Case("pty", TRUE, 0, Out(1, 0), {"kill"})}
\* A login whose user types ahead.
TypesAhead == {Case("pty", TRUE, 2, Out(0, 0), {})}
=============================================================================
