---------------------------- MODULE SessionProofs ---------------------------
(***************************************************************************)
(* Theorems about Session, for all sessions that may be set up, all sizes  *)
(* of buffers and pipes, and any amount of input and output: the types;    *)
(* that the status the server reports is its child's; that the user has    *)
(* seen all the program wrote when the client leaves with it; and that     *)
(* the program is told of the end of its input after all the input.        *)
(***************************************************************************)
EXTENDS MCSession, SequenceTheorems, FiniteSetTheorems, TLAPS

\* The packets the server may send: an exit status only once the child has
\* exited.
Allowed == IF p.child = "exited" THEN ToClient ELSE ToClient \ {"exitstatus"}

Typed ==
  /\ c \in ClientType(Allowed) /\ s \in ServerType(Allowed)
  /\ p \in ProgramType /\ u \in UserType
  /\ c2s \in Seq(ToServer) /\ Len(c2s) =< NetCap
  /\ s2c \in Seq(Allowed) /\ Len(s2c) =< NetCap

\* The server has not yet looked at the child's status.
BeforeReport(x) ==
  \/ x.pc \in {"start", "packets", "sets", "select", "ended", "status", "wait"}
  \/ x.pc = "flush" /\ x.then = "ended"

\* What the client and the server say of the child.
ClientSays == c.exit = "status" => p.child = "exited"
ServerSays ==
  /\ s.cause = "signal" => p.child = "killed"
  /\ s.cause # "wait failed"

\* Who reaps the child: before the report only the handler can have done it,
\* and then child_terminated says so; the handler is off when wait is called.
Reaping ==
  /\ s.terminated \/ p.signal => p.child # "running"
  /\ BeforeReport(s) /\ p.reaped => s.terminated
  /\ s.pc \in {"status", "wait"} => ~s.handler
  /\ s.pc = "wait" => ~s.terminated

\* What follows a flush is decided before it.
Flushing == s.pc = "flush" => s.then # "none"

IInv == Typed /\ ClientSays /\ ServerSays /\ Reaping /\ Flushing

-----------------------------------------------------------------------------
(* The packet layer.                                                       *)

\* A client or a server that has nothing else than packets to send.
LEMMA AllowedPackets ==
  Streams \cup {"disconnect"} \subseteq Allowed /\ Allowed \subseteq ToClient
BY DEF Allowed, ToClient, Streams

\* What fits into the connection and what is left, as sequences.
LEMMA FittingOK ==
  ASSUME NEW M, NEW x, x.output \in Seq(M), NEW conn \in Seq(M), Len(conn) =< NetCap
  PROVE  /\ SubSeq(x.output, Fitting(x, conn) + 1, Len(x.output)) \in Seq(M)
         /\ Delivered(x, conn) \in Seq(M)
         /\ Len(Delivered(x, conn)) =< NetCap
<1> DEFINE out == x.output
           f   == Fitting(x, conn)
<1>1. NetCap \in Nat /\ Len(out) \in Nat /\ Len(conn) \in Nat
  BY SessionAssumption, LenProperties
<1>2. f \in Nat /\ f =< Len(out) /\ f =< NetCap - Len(conn)
  BY <1>1 DEF Fitting, Least
<1>3. \A i \in 1 .. Len(out) : out[i] \in M
  BY ElementOfSeq
<1>4. SubSeq(out, f + 1, Len(out)) \in Seq(M)
  <2>1. \A i \in f + 1 .. Len(out) : out[i] \in M
    BY <1>1, <1>2, <1>3
  <2>2. f + 1 \in Int /\ Len(out) \in Int
    BY <1>1, <1>2
  <2>3. QED
    BY <2>1, <2>2, SubSeqProperties
<1>5. SubSeq(out, 1, f) \in Seq(M) /\ Len(SubSeq(out, 1, f)) =< f
  <2>1. \A i \in 1 .. f : out[i] \in M
    BY <1>1, <1>2, <1>3
  <2>2. 1 \in Int /\ f \in Int /\ (IF 1 <= f THEN f - 1 + 1 ELSE 0) =< f
    BY <1>2
  <2>3. SubSeq(out, 1, f) \in Seq(M)
        /\ Len(SubSeq(out, 1, f)) = IF 1 <= f THEN f - 1 + 1 ELSE 0
    BY <2>1, <2>2, SubSeqProperties
  <2>4. QED
    BY <2>2, <2>3
<1>6. conn \o SubSeq(out, 1, f) \in Seq(M)
      /\ Len(conn \o SubSeq(out, 1, f)) = Len(conn) + Len(SubSeq(out, 1, f))
  BY <1>5, ConcatProperties
<1>7. Len(SubSeq(out, 1, f)) \in Nat
  BY <1>5, LenProperties
<1>8. QED
  BY <1>1, <1>2, <1>4, <1>5, <1>6, <1>7 DEF Delivered

\* The send loops send at most what is buffered.
LEMMA SendableOK ==
  ASSUME NEW M, NEW x, x.output \in Seq(M), NEW n \in Nat
  PROVE  Sendable(x, n) \in Nat /\ Sendable(x, n) =< n
BY SessionAssumption, LenProperties DEF Sendable, NotMuch, Least

\* Copies of a packet are a sequence of packets.
LEMMA CopiesOK ==
  ASSUME NEW M, NEW m \in M, NEW n \in Nat
  PROVE  Copies(m, n) \in Seq(M)
<1>1. Copies(m, n) \in [1 .. n -> M]
  BY DEF Copies
<1>2. QED
  BY <1>1

-----------------------------------------------------------------------------
(* The server's helpers keep its type and, unless it is their business,    *)
(* what Reaping and ServerSays look at.                                    *)

Says(M) == Streams \cup {"disconnect"} \subseteq M
SameControl(x, y) ==
  /\ y.pc = x.pc /\ y.then = x.then /\ y.handler = x.handler
  /\ y.terminated = x.terminated /\ y.cause = x.cause

\* Sending.
LEMMA ServerSendOK ==
  ASSUME NEW M, NEW x \in ServerType(M), NEW packets \in Seq(M)
  PROVE  Send(x, packets) \in ServerType(M) /\ SameControl(x, Send(x, packets))
<1>1. x.output \o packets \in Seq(M)
  BY ConcatProperties DEF ServerType
<1>2. QED
  BY <1>1 DEF Send, ServerType, SameControl

\* Writing to the connection.
LEMMA ServerWrittenOK ==
  ASSUME NEW M, NEW x \in ServerType(M), NEW conn \in Seq(M), Len(conn) =< NetCap
  PROVE  /\ Written(x, conn) \in ServerType(M) /\ SameControl(x, Written(x, conn))
         /\ Delivered(x, conn) \in Seq(M) /\ Len(Delivered(x, conn)) =< NetCap
<1>1. x.output \in Seq(M)
  BY DEF ServerType
<1>2. SubSeq(x.output, Fitting(x, conn) + 1, Len(x.output)) \in Seq(M)
  BY <1>1, FittingOK
<1>3. Written(x, conn) \in ServerType(M) /\ SameControl(x, Written(x, conn))
  BY <1>2 DEF Written, ServerType, SameControl
<1>4. QED
  BY <1>1, <1>3, FittingOK

\* make_packets_from_stderr_data and make_packets_from_stdout_data.
LEMMA MakePacketsOK ==
  ASSUME NEW M, Says(M), NEW x \in ServerType(M), NEW st \in Streams
  PROVE  /\ MakePackets(x, st) \in ServerType(M)
         /\ SameControl(x, MakePackets(x, st))
<1> DEFINE k == Sendable(x, x.buf[st])
           y == Send(x, Copies(st, k))
<1>1. x.output \in Seq(M) /\ x.buf \in [Streams -> Nat]
  BY DEF ServerType
<1>2. k \in Nat /\ k =< x.buf[st] /\ x.buf[st] \in Nat
  BY <1>1, SendableOK
<1>3. y \in ServerType(M) /\ SameControl(x, y) /\ y.buf = x.buf
  <2>1. Copies(st, k) \in Seq(M)
    BY <1>2, CopiesOK DEF Says
  <2>2. y.buf = x.buf
    BY DEF Send, ServerType
  <2>3. QED
    BY <2>1, <2>2, ServerSendOK
<1>4. [y.buf EXCEPT ![st] = @ - k] \in [Streams -> Nat]
  BY <1>1, <1>2, <1>3
<1>5. MakePackets(x, st) = [y EXCEPT !.buf = [y.buf EXCEPT ![st] = @ - k]]
  BY <1>3 DEF MakePackets, ServerType
<1> HIDE DEF y, k
<1>6. MakePackets(x, st) \in ServerType(M)
  BY <1>3, <1>4, <1>5 DEF ServerType
<1>7. SameControl(y, MakePackets(x, st))
  BY <1>3, <1>5 DEF ServerType, SameControl
<1>8. QED
  BY <1>3, <1>6, <1>7 DEF SameControl

\* make_packets_from_stdout_data, or not yet.
LEMMA MakeStdoutPacketsOK ==
  ASSUME NEW M, Says(M), NEW x \in ServerType(M)
  PROVE  /\ MakeStdoutPackets(x) \in ServerType(M)
         /\ SameControl(x, MakeStdoutPackets(x))
<1>1. CASE HoldsBack(x)
  <2>1. x.buf["stdout"] \in Nat
    BY DEF ServerType, Streams
  <2>2. QED
    BY <1>1, <2>1 DEF MakeStdoutPackets, ServerType, SameControl
<1>2. CASE ~HoldsBack(x)
  <2> DEFINE y == MakePackets(x, "stdout")
  <2>1. y \in ServerType(M) /\ SameControl(x, y)
    BY MakePacketsOK DEF Streams
  <2>2. y.buf["stdout"] \in Nat
    BY <2>1 DEF ServerType, Streams
  <2>3. MakeStdoutPackets(x) = [y EXCEPT !.timeout = "none", !.previous = y.buf["stdout"]]
    BY <1>2 DEF MakeStdoutPackets
  <2> HIDE DEF y
  <2>4. MakeStdoutPackets(x) \in ServerType(M)
    BY <2>1, <2>2, <2>3 DEF ServerType
  <2>5. SameControl(y, MakeStdoutPackets(x))
    BY <2>1, <2>3 DEF ServerType, SameControl
  <2>6. QED
    BY <2>1, <2>4, <2>5 DEF SameControl
<1>3. QED
  BY <1>1, <1>2

\* Closing fdin after the eof.
LEMMA CloseStdinOK ==
  ASSUME NEW M, NEW x \in ServerType(M)
  PROVE  CloseStdin(x) \in ServerType(M) /\ SameControl(x, CloseStdin(x))
<1>1. CloseStdin(x) \in {x, [x EXCEPT !.fdin = FALSE]}
  BY DEF CloseStdin
<1>2. [x EXCEPT !.fdin = FALSE] \in ServerType(M)
  BY DEF ServerType
<1>3. SameControl(x, [x EXCEPT !.fdin = FALSE])
  BY DEF ServerType, SameControl
<1>4. QED
  BY <1>1, <1>2, <1>3 DEF SameControl

\* The notice about forwarded connections.
LEMMA NoticeOK ==
  ASSUME NEW M, NEW x \in ServerType(M)
  PROVE  Notice(x) \in ServerType(M) /\ SameControl(x, Notice(x))
<1> DEFINE b == [x.buf EXCEPT !["stderr"] = @ + 1]
           y == [x EXCEPT !.waiting = TRUE, !.buf = b]
<1>1. x.buf \in [Streams -> Nat]
  BY DEF ServerType
<1>2. b \in [Streams -> Nat]
  BY <1>1 DEF Streams
<1>3. Notice(x) \in {x, y}
  BY DEF Notice, ServerType
<1> HIDE DEF b
<1>4. y \in ServerType(M)
  BY <1>2 DEF ServerType
<1>5. SameControl(x, y)
  BY DEF ServerType, SameControl
<1>6. QED
  BY <1>3, <1>4, <1>5 DEF SameControl

\* Shutting down the descriptors of a program that has terminated.
LEMMA ShutdownChildOK ==
  ASSUME NEW M, NEW x \in ServerType(M)
  PROVE  ShutdownChild(x) \in ServerType(M) /\ SameControl(x, ShutdownChild(x))
<1> DEFINE f == [st \in Streams |-> x.fdout[st] /\ ~x.eof[st]
                                   /\ ~(Kind = "socket" /\ st = "stdout" /\ x.fdin)]
           y == [x EXCEPT !.fdin = FALSE, !.fdout = f]
<1>1. f \in [Streams -> BOOLEAN]
  OBVIOUS
<1>2. ShutdownChild(x) \in {x, y}
  BY DEF ShutdownChild, ServerType
<1> HIDE DEF f
<1>3. y \in ServerType(M)
  BY <1>1 DEF ServerType
<1>4. SameControl(x, y)
  BY DEF ServerType, SameControl
<1>5. QED
  BY <1>2, <1>3, <1>4 DEF SameControl

\* Reading what the program wrote.
LEMMA ReadProgramOK ==
  ASSUME NEW M, NEW x \in ServerType(M), NEW ready, p \in ProgramType
  PROVE  /\ ReadProgram(x, ready) \in ServerType(M)
         /\ SameControl(x, ReadProgram(x, ready))
<1> DEFINE b == [st \in Streams |-> IF st \in ready THEN x.buf[st] + p.out[st] ELSE x.buf[st]]
           e == [st \in Streams |-> x.eof[st] \/ (st \in ready /\ p.out[st] = 0)]
<1>1. x.buf \in [Streams -> Nat] /\ p.out \in [Streams -> 0 .. PipeCap] /\ PipeCap \in Nat
  BY SessionAssumption DEF ServerType, ProgramType
<1>2. b \in [Streams -> Nat]
  BY <1>1
<1>3. e \in [Streams -> BOOLEAN]
  OBVIOUS
<1>4. ReadProgram(x, ready) = [x EXCEPT !.buf = b, !.eof = e]
  BY DEF ReadProgram, ServerType
<1> HIDE DEF b, e
<1>5. ReadProgram(x, ready) \in ServerType(M)
  BY <1>2, <1>3, <1>4 DEF ServerType
<1>6. QED
  BY <1>4, <1>5 DEF ServerType, SameControl

\* Writing what the program is to read.
LEMMA WriteProgramOK ==
  ASSUME NEW M, NEW x \in ServerType(M), x.stdin = s.stdin, NEW ready,
         p \in ProgramType
  PROVE  /\ WriteProgram(x, ready) \in ServerType(M)
         /\ SameControl(x, WriteProgram(x, ready))
         /\ ToProgram \in Nat /\ p.stdin + ToProgram \in 0 .. PipeCap
<1>1. PipeCap \in Nat /\ p.stdin \in 0 .. PipeCap /\ x.stdin \in Nat
  BY SessionAssumption DEF ProgramType, ServerType
<1>2. /\ ToProgram \in Nat /\ x.stdin - ToProgram \in Nat
      /\ p.stdin + ToProgram \in 0 .. PipeCap
  BY <1>1 DEF ToProgram, Least
<1>3. WriteProgram(x, ready) \in
        {x, [x EXCEPT !.stdin = @ - ToProgram], [x EXCEPT !.fdin = FALSE]}
  BY DEF WriteProgram
<1>4. [x EXCEPT !.stdin = @ - ToProgram] \in ServerType(M)
  BY <1>2 DEF ServerType
<1>5. [x EXCEPT !.fdin = FALSE] \in ServerType(M)
  BY DEF ServerType
<1>6. SameControl(x, WriteProgram(x, ready))
  BY <1>3 DEF ServerType, SameControl
<1>7. QED
  BY <1>2, <1>3, <1>4, <1>5, <1>6

-----------------------------------------------------------------------------
(* The client's helpers keep its type, how it ended, and, unless it is     *)
(* their business, what it has to show.                                    *)

SameOutcome(x, y) == y.exit = x.exit /\ y.buf = x.buf

\* Sending.
LEMMA ClientSendOK ==
  ASSUME NEW M, NEW x \in ClientType(M), NEW packets \in Seq(ToServer)
  PROVE  Send(x, packets) \in ClientType(M) /\ SameOutcome(x, Send(x, packets))
<1>1. x.output \o packets \in Seq(ToServer)
  BY ConcatProperties DEF ClientType
<1>2. QED
  BY <1>1 DEF Send, ClientType, SameOutcome

\* Writing to the connection.
LEMMA ClientWrittenOK ==
  ASSUME NEW M, NEW x \in ClientType(M), NEW conn \in Seq(ToServer), Len(conn) =< NetCap
  PROVE  /\ Written(x, conn) \in ClientType(M) /\ SameOutcome(x, Written(x, conn))
         /\ Delivered(x, conn) \in Seq(ToServer) /\ Len(Delivered(x, conn)) =< NetCap
<1>1. x.output \in Seq(ToServer)
  BY DEF ClientType
<1>2. SubSeq(x.output, Fitting(x, conn) + 1, Len(x.output)) \in Seq(ToServer)
  BY <1>1, FittingOK
<1>3. Written(x, conn) \in ClientType(M) /\ SameOutcome(x, Written(x, conn))
  BY <1>2 DEF Written, ClientType, SameOutcome
<1>4. QED
  BY <1>1, <1>3, FittingOK

\* client_make_packets_from_stdin_data.
LEMMA MakeStdinPacketsOK ==
  ASSUME NEW M, NEW x \in ClientType(M)
  PROVE  /\ MakeStdinPackets(x) \in ClientType(M)
         /\ SameOutcome(x, MakeStdinPackets(x))
<1> DEFINE k == Sendable(x, x.stdin)
           eof == IF k > 0 /\ k = x.stdin /\ x.eof THEN <<"eof">> ELSE << >>
           y == Send(x, Copies("stdin", k) \o eof)
<1>1. x.output \in Seq(ToServer) /\ x.stdin \in Nat
  BY DEF ClientType
<1>2. k \in Nat /\ k =< x.stdin
  BY <1>1, SendableOK
<1>3. Copies("stdin", k) \in Seq(ToServer)
  BY <1>2, CopiesOK DEF ToServer
<1>4. eof \in Seq(ToServer)
  BY DEF ToServer
<1>5. Copies("stdin", k) \o eof \in Seq(ToServer)
  BY <1>3, <1>4, ConcatProperties
<1>6. y \in ClientType(M) /\ SameOutcome(x, y)
  BY <1>5, ClientSendOK
<1>7. y.stdin = x.stdin
  BY DEF Send, ClientType
<1>8. MakeStdinPackets(x) = [y EXCEPT !.stdin = y.stdin - k]
  BY DEF MakeStdinPackets
<1>9. y.stdin - k \in Nat
  BY <1>1, <1>2, <1>7
<1> HIDE DEF y, k, eof
<1>10. MakeStdinPackets(x) \in ClientType(M)
  BY <1>6, <1>8, <1>9 DEF ClientType
<1>11. SameOutcome(y, MakeStdinPackets(x))
  BY <1>6, <1>8 DEF ClientType, SameOutcome
<1>12. QED
  BY <1>6, <1>10, <1>11 DEF SameOutcome

\* Closing the forwarded connection.
LEMMA ClientPollChannelsOK ==
  ASSUME NEW M, NEW x \in ClientType(M)
  PROVE  /\ ClientPollChannels(x) \in ClientType(M)
         /\ SameOutcome(x, ClientPollChannels(x))
<1> DEFINE y == Send(x, <<"close">>)
<1>1. <<"close">> \in Seq(ToServer)
  BY DEF ToServer
<1>2. y \in ClientType(M) /\ SameOutcome(x, y)
  BY <1>1, ClientSendOK
<1>3. ClientPollChannels(x) \in {x, [y EXCEPT !.forward = "closed"]}
  BY DEF ClientPollChannels
<1> HIDE DEF y
<1>4. [y EXCEPT !.forward = "closed"] \in ClientType(M)
  BY <1>2 DEF ClientType
<1>5. SameOutcome(y, [y EXCEPT !.forward = "closed"])
  BY <1>2 DEF ClientType, SameOutcome
<1>6. QED
  BY <1>2, <1>3, <1>4, <1>5 DEF SameOutcome

\* client_process_input, the connection.
LEMMA ClientReadConnectionOK ==
  ASSUME NEW M, NEW x \in ClientType(M), s2c \in Seq(M)
  PROVE  /\ ClientReadConnection(x) \in ClientType(M)
         /\ SameOutcome(x, ClientReadConnection(x))
<1>1. x.input \o s2c \in Seq(M)
  BY ConcatProperties DEF ClientType
<1>2. ClientReadConnection(x) \in {[x EXCEPT !.input = @ \o s2c], [x EXCEPT !.quit = TRUE]}
  BY DEF ClientReadConnection
<1>3. [x EXCEPT !.input = @ \o s2c] \in ClientType(M)
  BY <1>1 DEF ClientType
<1>4. [x EXCEPT !.quit = TRUE] \in ClientType(M)
  BY DEF ClientType
<1>5. SameOutcome(x, ClientReadConnection(x))
  BY <1>2 DEF ClientType, SameOutcome
<1>6. QED
  BY <1>2, <1>3, <1>4, <1>5

\* client_process_input, the terminal.
LEMMA ClientReadStdinOK ==
  ASSUME NEW M, NEW x \in ClientType(M), u \in UserType
  PROVE  /\ ClientReadStdin(x) \in ClientType(M)
         /\ SameOutcome(x, ClientReadStdin(x))
<1> DEFINE y == Send(x, IF x.stdin = 0 THEN <<"eof">> ELSE << >>)
<1>1. u.typed \in Nat /\ u.taken \in Nat /\ x.stdin \in Nat
  BY DEF UserType, ClientType
<1>2. (IF x.stdin = 0 THEN <<"eof">> ELSE << >>) \in Seq(ToServer)
  <2>1. <<"eof">> \in Seq(ToServer) /\ << >> \in Seq(ToServer)
    BY DEF ToServer
  <2>2. QED
    BY <2>1
<1>3. y \in ClientType(M) /\ SameOutcome(x, y)
  BY <1>2, ClientSendOK
<1>4. CASE x.quit
  BY <1>4 DEF ClientReadStdin, SameOutcome
<1>5. CASE ~x.quit /\ u.typed > u.taken
  <2>1. ClientReadStdin(x) = [x EXCEPT !.stdin = x.stdin + (u.typed - u.taken)]
    BY <1>5 DEF ClientReadStdin
  <2>2. x.stdin + (u.typed - u.taken) \in Nat
    BY <1>1, <1>5
  <2>3. ClientReadStdin(x) \in ClientType(M)
    BY <2>1, <2>2 DEF ClientType
  <2>4. SameOutcome(x, ClientReadStdin(x))
    BY <2>1 DEF ClientType, SameOutcome
  <2>5. QED
    BY <2>3, <2>4
<1>6. CASE ~x.quit /\ ~(u.typed > u.taken)
  <2>1. ClientReadStdin(x) = [y EXCEPT !.eof = TRUE]
    BY <1>6 DEF ClientReadStdin
  <2> HIDE DEF y
  <2>2. ClientReadStdin(x) \in ClientType(M)
    BY <2>1, <1>3 DEF ClientType
  <2>3. SameOutcome(y, ClientReadStdin(x))
    BY <2>1, <1>3 DEF ClientType, SameOutcome
  <2>4. QED
    BY <1>3, <2>2, <2>3 DEF SameOutcome
<1>7. QED
  BY <1>4, <1>5, <1>6

\* client_process_output.
LEMMA LeftoversOK ==
  ASSUME c.buf \in [Streams -> Nat], NEW left \in Leftovers
  PROVE  left \in [Streams -> Nat] /\ \A st \in Streams : left[st] =< c.buf[st]
<1>1. c.buf["stdout"] + c.buf["stderr"] \in Nat
  BY DEF Streams
<1>2. left \in [Streams -> Nat] /\ \A st \in Streams : left[st] = 0 \/ left[st] < c.buf[st]
  BY <1>1 DEF Leftovers
<1>3. QED
  BY <1>2

LEMMA ClientWriteOutOK ==
  ASSUME NEW M, NEW x \in ClientType(M), NEW ready,
         NEW left \in [Streams -> Nat]
  PROVE  /\ ClientWriteOut(x, ready, left) \in ClientType(M)
         /\ ClientWriteOut(x, ready, left).exit = x.exit
         /\ \A st \in Streams : left[st] =< x.buf[st] =>
              ClientWriteOut(x, ready, left).buf[st] \in 0 .. x.buf[st]
<1> DEFINE b == [st \in Streams |-> IF st \in ready THEN left[st] ELSE x.buf[st]]
           y == [x EXCEPT !.buf = b]
<1>1. x.buf \in [Streams -> Nat]
  BY DEF ClientType
<1>2. b \in [Streams -> Nat] /\ \A st \in Streams : left[st] =< x.buf[st] => b[st] \in 0 .. x.buf[st]
  BY <1>1
<1>3. ClientWriteOut(x, ready, left) \in {x, [x EXCEPT !.quit = TRUE], y}
  BY DEF ClientWriteOut
<1> HIDE DEF b
<1>4. y \in ClientType(M) /\ y.exit = x.exit /\ y.buf = b
  BY <1>2 DEF ClientType
<1>5. LET z == [x EXCEPT !.quit = TRUE]
      IN  z \in ClientType(M) /\ z.exit = x.exit /\ z.buf = x.buf
  BY DEF ClientType
<1> HIDE DEF y
<1>6. \A st \in Streams : x.buf[st] \in 0 .. x.buf[st]
  BY <1>1
<1>7. CASE ClientWriteOut(x, ready, left) = y
  BY <1>2, <1>4, <1>7
<1>8. CASE ClientWriteOut(x, ready, left) \in {x, [x EXCEPT !.quit = TRUE]}
  BY <1>5, <1>6, <1>8
<1>9. QED
  BY <1>3, <1>7, <1>8

-----------------------------------------------------------------------------
(* The client's actions.                                                   *)

\* What an action of the client, which leaves the server and the program
\* alone, must keep.
LEMMA ClientFrame ==
  ASSUME IInv, UNCHANGED <<s, p>>, c' \in ClientType(Allowed), u' \in UserType,
         c2s' \in Seq(ToServer), Len(c2s') =< NetCap,
         s2c' \in Seq(Allowed), Len(s2c') =< NetCap, ClientSays'
  PROVE  IInv'
<1>1. Allowed' = Allowed
  BY DEF Allowed
<1>2. Typed'
  BY <1>1 DEF IInv, Typed
<1>3. ServerSays' /\ Reaping' /\ Flushing'
  BY DEF IInv, ServerSays, Reaping, BeforeReport, Flushing
<1>4. QED
  BY <1>2, <1>3 DEF IInv

\* The same for an action that changes the client alone.
LEMMA ClientAlone ==
  ASSUME IInv, UNCHANGED <<s, p, u, c2s, s2c>>, c' \in ClientType(Allowed),
         c'.exit = "status" => p.child = "exited"
  PROVE  IInv'
<1>1. /\ u \in UserType
      /\ c2s \in Seq(ToServer) /\ Len(c2s) =< NetCap
      /\ s2c \in Seq(Allowed) /\ Len(s2c) =< NetCap
  BY DEF IInv, Typed
<1>2. ClientSays'
  BY DEF ClientSays
<1>3. QED
  BY <1>1, <1>2, ClientFrame

\* The client takes an exit status from its packets only if the child has
\* exited.
LEMMA ClientPacketOK ==
  ASSUME IInv, ClientPacket
  PROVE  IInv'
<1> DEFINE m    == Head(c.input)
           rest == [c EXCEPT !.input = Tail(@)]
           told == Send(rest, <<"confirmation">>)
<1>1. /\ c \in ClientType(Allowed) /\ c.input \in Seq(Allowed) /\ c.input # << >>
      /\ c.exit = "status" => p.child = "exited"
  BY DEF IInv, Typed, ClientType, ClientPacket, ClientSays
<1>2. m \in Allowed /\ Tail(c.input) \in Seq(Allowed)
  BY <1>1, HeadTailProperties
<1>3. rest \in ClientType(Allowed) /\ SameOutcome(c, rest)
  <2>1. rest \in ClientType(Allowed)
    BY <1>1, <1>2 DEF ClientType
  <2>2. QED
    BY <1>1, <2>1 DEF ClientType, SameOutcome
<1>4. m \in ToClient /\ (m = "exitstatus" => p.child = "exited")
  BY <1>2 DEF Allowed
<1>5. /\ UNCHANGED <<s, p, u, c2s, s2c>>
      /\ c' = CASE m \in Streams     -> [rest EXCEPT !.buf = [rest.buf EXCEPT ![m] = @ + 1]]
                [] m = "exitstatus"  -> [told EXCEPT !.exit = "status", !.pc = "flush"]
                [] m = "disconnect"  -> [rest EXCEPT !.exit = "fatal", !.pc = "gone"]
  BY DEF ClientPacket
<1>6. CASE m \in Streams
  <2> DEFINE b == [rest.buf EXCEPT ![m] = @ + 1]
  <2>1. c' = [rest EXCEPT !.buf = b]
    <3> HIDE DEF m, rest, told
    <3>1. QED
      BY <1>5, <1>6 DEF Streams
  <2>2. b \in [Streams -> Nat]
    BY SMTT(60), <1>3, <1>6 DEF ClientType
  <2> HIDE DEF b, rest
  <2>3. c' \in ClientType(Allowed)
    BY <1>3, <2>1, <2>2 DEF ClientType
  <2>4. c'.exit = c.exit
    BY <1>3, <2>1 DEF ClientType, SameOutcome
  <2>5. QED
    BY <1>1, <1>5, <2>3, <2>4, ClientAlone
<1>7. CASE m = "exitstatus"
  <2>1. <<"confirmation">> \in Seq(ToServer)
    BY DEF ToServer
  <2>2. told \in ClientType(Allowed)
    BY <1>3, <2>1, ClientSendOK
  <2>3. c' = [told EXCEPT !.exit = "status", !.pc = "flush"]
    <3> HIDE DEF m, rest, told
    <3>1. QED
      BY <1>5, <1>7 DEF Streams
  <2> HIDE DEF told
  <2>4. c' \in ClientType(Allowed)
    BY <2>2, <2>3 DEF ClientType
  <2>5. QED
    BY <1>4, <1>5, <1>7, <2>4, ClientAlone
<1>8. CASE m = "disconnect"
  <2>1. c' = [rest EXCEPT !.exit = "fatal", !.pc = "gone"]
    <3> HIDE DEF m, rest, told
    <3>1. QED
      BY <1>5, <1>8 DEF Streams
  <2> HIDE DEF rest
  <2>2. c' \in ClientType(Allowed) /\ c'.exit = "fatal"
    BY <1>3, <2>1 DEF ClientType
  <2>3. QED
    BY <1>5, <2>2, ClientAlone
<1>9. QED
  BY <1>4, <1>6, <1>7, <1>8 DEF ToClient

LEMMA ClientMakePacketsOK ==
  ASSUME IInv, ClientMakePackets
  PROVE  IInv'
<1> DEFINE x == ClientPollChannels(MakeStdinPackets(c))
<1>1. c \in ClientType(Allowed) /\ (c.exit = "status" => p.child = "exited")
  BY DEF IInv, Typed, ClientSays
<1>2. x \in ClientType(Allowed) /\ x.exit = c.exit
  BY <1>1, MakeStdinPacketsOK, ClientPollChannelsOK DEF SameOutcome
<1>3. UNCHANGED <<s, p, u, c2s, s2c>> /\ c' = [x EXCEPT !.pc = "select"]
  BY DEF ClientMakePackets
<1> HIDE DEF x
<1>4. c' \in ClientType(Allowed) /\ c'.exit = c.exit
  BY <1>2, <1>3 DEF ClientType
<1>5. QED
  BY <1>1, <1>3, <1>4, ClientAlone

\* What the terminal is shown is what leaves the client's buffers.
LEMMA ShownOK ==
  ASSUME u \in UserType, NEW b \in [Streams -> Nat], NEW e \in [Streams -> Nat],
         \A st \in Streams : e[st] \in 0 .. b[st]
  PROVE  [st \in Streams |-> u.shown[st] + (b[st] - e[st])] \in [Streams -> Nat]
<1>1. u.shown \in [Streams -> Nat]
  BY DEF UserType
<1>2. QED
  BY <1>1

LEMMA ClientSelectOK ==
  ASSUME IInv, ClientSelect
  PROVE  IInv'
<1>1. PICK accepts \in BOOLEAN, left \in Leftovers :
        LET ready == ClientReady(accepts)
            c1 == IF "connection in" \in ready THEN ClientReadConnection(c) ELSE c
            c2 == IF "stdin" \in ready THEN ClientReadStdin(c1) ELSE c1
            c3 == ClientWriteOut(c2, ready, left)
            writes == "connection out" \in ready
            c4 == IF writes THEN Written(c3, c2s) ELSE c3
            lost == writes /\ s.pc = "gone"
        IN  /\ c.pc = "select" /\ ready # {}
            /\ c' = [c4 EXCEPT !.pc = IF lost THEN "gone" ELSE IF c4.quit THEN "leave"
                                          ELSE "packets",
                                   !.exit = IF lost THEN "fatal" ELSE @]
            /\ c2s' = IF writes THEN Delivered(c3, c2s) ELSE c2s
            /\ s2c' = IF "connection in" \in ready THEN << >> ELSE s2c
            /\ u' = [u EXCEPT !.taken = IF "stdin" \in ready /\ ~c1.quit THEN u.typed ELSE @,
                              !.shown = [st \in Streams |-> @[st] + (c.buf[st] - c4.buf[st])]]
            /\ UNCHANGED <<s, p>>
  BY DEF ClientSelect
<1> DEFINE ready == ClientReady(accepts)
           c1 == IF "connection in" \in ready THEN ClientReadConnection(c) ELSE c
           c2 == IF "stdin" \in ready THEN ClientReadStdin(c1) ELSE c1
           c3 == ClientWriteOut(c2, ready, left)
           writes == "connection out" \in ready
           c4 == IF writes THEN Written(c3, c2s) ELSE c3
           lost == writes /\ s.pc = "gone"
<1>2. /\ c \in ClientType(Allowed) /\ u \in UserType
      /\ c2s \in Seq(ToServer) /\ Len(c2s) =< NetCap
      /\ s2c \in Seq(Allowed) /\ Len(s2c) =< NetCap
      /\ c.exit = "status" => p.child = "exited"
  BY DEF IInv, Typed, ClientSays
<1>3. c1 \in ClientType(Allowed) /\ SameOutcome(c, c1)
  <2>1. ClientReadConnection(c) \in ClientType(Allowed)
        /\ SameOutcome(c, ClientReadConnection(c))
    BY <1>2, ClientReadConnectionOK
  <2>2. QED
    BY <1>2, <2>1 DEF SameOutcome
<1>4. c2 \in ClientType(Allowed) /\ SameOutcome(c, c2)
  <2> HIDE DEF c1
  <2>1. ClientReadStdin(c1) \in ClientType(Allowed) /\ SameOutcome(c1, ClientReadStdin(c1))
    BY <1>2, <1>3, ClientReadStdinOK
  <2>2. QED
    BY <1>3, <2>1 DEF SameOutcome
<1>5. /\ c3 \in ClientType(Allowed) /\ c3.exit = c.exit
      /\ \A st \in Streams : c3.buf[st] \in 0 .. c.buf[st]
  <2> HIDE DEF c2
  <2>1. left \in [Streams -> Nat] /\ \A st \in Streams : left[st] =< c.buf[st]
    BY <1>2, LeftoversOK DEF ClientType
  <2>2. QED
    BY <1>4, <2>1, ClientWriteOutOK DEF SameOutcome
<1> HIDE DEF c3
<1>6. /\ Written(c3, c2s) \in ClientType(Allowed) /\ SameOutcome(c3, Written(c3, c2s))
      /\ Delivered(c3, c2s) \in Seq(ToServer) /\ Len(Delivered(c3, c2s)) =< NetCap
  BY <1>2, <1>5, ClientWrittenOK
<1>7. /\ c4 \in ClientType(Allowed) /\ c4.exit = c.exit
      /\ \A st \in Streams : c4.buf[st] \in 0 .. c.buf[st]
  BY <1>5, <1>6 DEF SameOutcome
<1> HIDE DEF c4, writes, ready
<1>8. /\ c' = [c4 EXCEPT !.pc = IF lost THEN "gone" ELSE IF c4.quit THEN "leave"
                                   ELSE "packets",
                         !.exit = IF lost THEN "fatal" ELSE @]
      /\ c2s' = IF writes THEN Delivered(c3, c2s) ELSE c2s
      /\ s2c' = IF "connection in" \in ready THEN << >> ELSE s2c
      /\ u' = [u EXCEPT !.taken = IF "stdin" \in ready /\ ~c1.quit THEN u.typed ELSE @,
                        !.shown = [st \in Streams |-> @[st] + (c.buf[st] - c4.buf[st])]]
      /\ UNCHANGED <<s, p>>
  BY <1>1 DEF c3, c4, writes, ready
<1> HIDE DEF c1, lost
<1>9. c' \in ClientType(Allowed)
  <2> DEFINE next == IF lost THEN "gone" ELSE IF c4.quit THEN "leave" ELSE "packets"
             exit == IF lost THEN "fatal" ELSE c4.exit
  <2>1. next \in {"gone", "leave", "packets"} /\ exit \in {"none", "status", "fatal", "killed"}
    BY <1>7 DEF ClientType
  <2>2. c' = [c4 EXCEPT !.pc = next, !.exit = exit]
    BY <1>8
  <2> HIDE DEF next, exit
  <2>3. QED
    BY <1>7, <2>1, <2>2 DEF ClientType
<1>10. ClientSays'
  BY <1>2, <1>7, <1>8 DEF ClientSays, ClientType
<1>11. c2s' \in Seq(ToServer) /\ Len(c2s') =< NetCap
  BY <1>2, <1>6, <1>8
<1>12. s2c' \in Seq(Allowed) /\ Len(s2c') =< NetCap
  <2>1. << >> \in Seq(Allowed) /\ Len(<< >>) = 0 /\ 0 =< NetCap
    BY SessionAssumption
  <2>2. QED
    BY <1>2, <1>8, <2>1
<1>13. u' \in UserType
  <2> DEFINE taken == IF "stdin" \in ready /\ ~c1.quit THEN u.typed ELSE u.taken
             shown == [st \in Streams |-> u.shown[st] + (c.buf[st] - c4.buf[st])]
  <2>1. taken \in Nat
    BY <1>2 DEF UserType
  <2>2. shown \in [Streams -> Nat]
    BY <1>2, <1>7, ShownOK DEF ClientType
  <2>3. u' = [u EXCEPT !.taken = taken, !.shown = shown]
    BY <1>8
  <2> HIDE DEF taken, shown
  <2>4. QED
    BY <1>2, <2>1, <2>2, <2>3 DEF UserType
<1>14. QED
  BY <1>8, <1>9, <1>10, <1>11, <1>12, <1>13, ClientFrame

LEMMA ClientFlushOK ==
  ASSUME IInv, ClientFlush
  PROVE  IInv'
<1>1. /\ c \in ClientType(Allowed) /\ u \in UserType
      /\ c2s \in Seq(ToServer) /\ Len(c2s) =< NetCap
      /\ s2c \in Seq(Allowed) /\ Len(s2c) =< NetCap
      /\ c.exit = "status" => p.child = "exited"
  BY DEF IInv, Typed, ClientSays
<1>2. /\ Written(c, c2s) \in ClientType(Allowed) /\ Written(c, c2s).exit = c.exit
      /\ Delivered(c, c2s) \in Seq(ToServer) /\ Len(Delivered(c, c2s)) =< NetCap
  BY <1>1, ClientWrittenOK DEF SameOutcome
<1>3. UNCHANGED <<s, p, u, s2c>>
  BY DEF ClientFlush
<1>4. c' \in {Written(c, c2s), [c EXCEPT !.pc = "leave", !.quit = TRUE],
              [c EXCEPT !.pc = "gone", !.exit = "fatal"]}
  BY DEF ClientFlush
<1>5. c2s' \in {c2s, Delivered(c, c2s)}
  BY DEF ClientFlush
<1>6. c2s' \in Seq(ToServer) /\ Len(c2s') =< NetCap
  BY <1>1, <1>2, <1>5
<1>7. LET x == [c EXCEPT !.pc = "leave", !.quit = TRUE]
      IN  x \in ClientType(Allowed) /\ x.exit = c.exit
  BY <1>1 DEF ClientType
<1>8. LET x == [c EXCEPT !.pc = "gone", !.exit = "fatal"]
      IN  x \in ClientType(Allowed) /\ x.exit = "fatal"
  BY <1>1 DEF ClientType
<1>9. c' \in ClientType(Allowed) /\ (c'.exit = "status" => p.child = "exited")
  BY <1>1, <1>2, <1>4, <1>7, <1>8
<1>10. ClientSays'
  BY <1>3, <1>9 DEF ClientSays
<1>11. QED
  BY <1>1, <1>3, <1>6, <1>9, <1>10, ClientFrame

LEMMA ClientLeaveOK ==
  ASSUME IInv, ClientLeave
  PROVE  IInv'
<1>1. /\ c \in ClientType(Allowed) /\ u \in UserType
      /\ c2s \in Seq(ToServer) /\ Len(c2s) =< NetCap
      /\ s2c \in Seq(Allowed) /\ Len(s2c) =< NetCap
      /\ c.exit = "status" => p.child = "exited"
  BY DEF IInv, Typed, ClientSays
<1> DEFINE b == IF u.tty = "gone" THEN c.buf ELSE [st \in Streams |-> 0]
           shown == [st \in Streams |-> u.shown[st] + (c.buf[st] - c'.buf[st])]
<1>2. b \in [Streams -> Nat] /\ \A st \in Streams : b[st] \in 0 .. c.buf[st]
  BY <1>1 DEF ClientType
<1>3. /\ UNCHANGED <<s, p, c2s, s2c>>
      /\ c' = [c EXCEPT !.pc = "gone", !.buf = b]
      /\ u' = [u EXCEPT !.shown = shown]
  BY DEF ClientLeave
<1> HIDE DEF b
<1>4. c' \in ClientType(Allowed) /\ c'.exit = c.exit /\ c'.buf = b
  BY <1>1, <1>2, <1>3 DEF ClientType
<1>5. shown \in [Streams -> Nat]
  BY <1>1, <1>2, <1>4, ShownOK DEF ClientType
<1> HIDE DEF shown
<1>6. u' \in UserType
  BY <1>1, <1>3, <1>5 DEF UserType
<1>7. ClientSays'
  BY <1>1, <1>3, <1>4 DEF ClientSays
<1>8. QED
  BY <1>1, <1>3, <1>4, <1>6, <1>7, ClientFrame

LEMMA ClientKilledOK ==
  ASSUME IInv, ClientKilled
  PROVE  IInv'
<1>1. c \in ClientType(Allowed)
  BY DEF IInv, Typed
<1>2. UNCHANGED <<s, p, u, c2s, s2c>> /\ c' = [c EXCEPT !.pc = "gone", !.exit = "killed"]
  BY DEF ClientKilled
<1>3. c' \in ClientType(Allowed) /\ c'.exit = "killed"
  BY <1>1, <1>2 DEF ClientType
<1>4. QED
  BY <1>2, <1>3, ClientAlone

-----------------------------------------------------------------------------
(* The server's actions.                                                   *)

\* What an action of the server must keep.
LEMMA ServerFrame ==
  ASSUME IInv, UNCHANGED <<c, u>>, p'.child = p.child,
         s' \in ServerType(Allowed), p' \in ProgramType,
         c2s' \in Seq(ToServer), Len(c2s') =< NetCap,
         s2c' \in Seq(Allowed), Len(s2c') =< NetCap,
         ServerSays', Reaping', Flushing'
  PROVE  IInv'
<1>1. Allowed' = Allowed
  BY DEF Allowed
<1>2. Typed'
  BY <1>1 DEF IInv, Typed
<1>3. ClientSays'
  BY DEF IInv, ClientSays
<1>4. QED
  BY <1>2, <1>3 DEF IInv

\* An action that concerns neither the end of the loop nor the child.
LEMMA ServerQuiet ==
  ASSUME IInv, UNCHANGED <<c, u>>, p' \in ProgramType,
         p'.child = p.child, p'.signal = p.signal, p'.reaped = p.reaped,
         s' \in ServerType(Allowed), s'.terminated = s.terminated,
         s'.cause \in {s.cause, "protocol error", "connection lost", "confirmed"},
         BeforeReport(s') => BeforeReport(s), s'.pc \notin {"status", "wait"},
         Flushing',
         c2s' \in Seq(ToServer), Len(c2s') =< NetCap,
         s2c' \in Seq(Allowed), Len(s2c') =< NetCap
  PROVE  IInv'
<1>1. ServerSays'
  BY DEF IInv, ServerSays
<1>2. BeforeReport(s)' <=> BeforeReport(s')
  BY DEF BeforeReport
<1>3. Reaping'
  BY <1>2 DEF IInv, Reaping
<1>4. QED
  BY <1>1, <1>3, ServerFrame

\* The same for one that changes the server alone.
LEMMA ServerAlone ==
  ASSUME IInv, UNCHANGED <<c, p, u, c2s, s2c>>,
         s' \in ServerType(Allowed), s'.terminated = s.terminated,
         s'.cause \in {s.cause, "protocol error"},
         BeforeReport(s') => BeforeReport(s), s'.pc \notin {"status", "wait"},
         Flushing'
  PROVE  IInv'
<1>1. /\ p \in ProgramType
      /\ c2s \in Seq(ToServer) /\ Len(c2s) =< NetCap
      /\ s2c \in Seq(Allowed) /\ Len(s2c) =< NetCap
  BY DEF IInv, Typed
<1>2. QED
  BY <1>1, ServerQuiet

LEMMA ServerStartOK ==
  ASSUME IInv, ServerStart
  PROVE  IInv'
<1>1. s \in ServerType(Allowed) /\ s.pc = "start"
  BY DEF IInv, Typed, ServerStart
<1>2. UNCHANGED <<c, p, u, c2s, s2c>> /\ s' = [s EXCEPT !.pc = "packets", !.handler = TRUE]
  BY DEF ServerStart
<1>3. s' \in ServerType(Allowed)
  BY <1>1, <1>2 DEF ServerType
<1>4. s'.pc = "packets" /\ s'.terminated = s.terminated /\ s'.cause = s.cause
  BY <1>1, <1>2 DEF ServerType
<1>5. QED
  BY <1>1, <1>2, <1>3, <1>4, ServerAlone DEF BeforeReport, Flushing

LEMMA ServerPacketOK ==
  ASSUME IInv, ServerPacket
  PROVE  IInv'
<1> DEFINE m    == Head(s.input)
           rest == [s EXCEPT !.input = Tail(@)]
           told == Send(rest, <<"disconnect">>)
           n    == IF s.fdin THEN rest.stdin + 1 ELSE rest.stdin
<1>1. s \in ServerType(Allowed) /\ s.input \in Seq(ToServer) /\ s.input # << >>
      /\ s.pc = "packets"
  BY DEF IInv, Typed, ServerType, ServerPacket
<1>2. Tail(s.input) \in Seq(ToServer)
  BY <1>1, HeadTailProperties
<1>3. rest \in ServerType(Allowed) /\ SameControl(s, rest)
  <2>1. rest \in ServerType(Allowed)
    BY <1>1, <1>2 DEF ServerType
  <2>2. QED
    BY <1>1, <2>1 DEF ServerType, SameControl
<1>4. told \in ServerType(Allowed) /\ SameControl(s, told)
  <2>1. <<"disconnect">> \in Seq(Allowed)
    BY AllowedPackets
  <2> HIDE DEF rest
  <2>2. QED
    BY <1>3, <2>1, ServerSendOK DEF SameControl
<1>5. n \in Nat
  <2>1. rest.stdin \in Nat
    BY <1>3 DEF ServerType
  <2> HIDE DEF rest
  <2>2. QED
    BY <2>1
<1>6. UNCHANGED <<c, p, u, c2s, s2c>>
  BY DEF ServerPacket
<1>7. s' \in {[rest EXCEPT !.stdin = n], [rest EXCEPT !.stdin_eof = TRUE],
              [rest EXCEPT !.forward = FALSE],
              [told EXCEPT !.pc = "flush", !.then = "gone", !.cause = "protocol error"]}
  BY DEF ServerPacket
<1> HIDE DEF m, rest, told, n
<1>8. CASE s' = [rest EXCEPT !.stdin = n]
  <2>1. s' \in ServerType(Allowed)
    BY <1>3, <1>5, <1>8 DEF ServerType
  <2>2. SameControl(rest, s')
    BY <1>3, <1>8 DEF ServerType, SameControl
  <2>3. QED
    BY <1>1, <1>3, <1>6, <2>1, <2>2, ServerAlone DEF SameControl, BeforeReport, Flushing
<1>9. CASE s' = [rest EXCEPT !.stdin_eof = TRUE]
  <2>1. s' \in ServerType(Allowed)
    BY <1>3, <1>9 DEF ServerType
  <2>2. SameControl(rest, s')
    BY <1>3, <1>9 DEF ServerType, SameControl
  <2>3. QED
    BY <1>1, <1>3, <1>6, <2>1, <2>2, ServerAlone DEF SameControl, BeforeReport, Flushing
<1>10. CASE s' = [rest EXCEPT !.forward = FALSE]
  <2>1. s' \in ServerType(Allowed)
    BY <1>3, <1>10 DEF ServerType
  <2>2. SameControl(rest, s')
    BY <1>3, <1>10 DEF ServerType, SameControl
  <2>3. QED
    BY <1>1, <1>3, <1>6, <2>1, <2>2, ServerAlone DEF SameControl, BeforeReport, Flushing
<1>11. CASE s' = [told EXCEPT !.pc = "flush", !.then = "gone", !.cause = "protocol error"]
  <2>1. s' \in ServerType(Allowed)
    BY <1>4, <1>11 DEF ServerType
  <2>2. /\ s'.pc = "flush" /\ s'.then = "gone" /\ s'.cause = "protocol error"
        /\ s'.terminated = s.terminated
    BY <1>4, <1>11 DEF ServerType, SameControl
  <2>3. QED
    BY <1>6, <2>1, <2>2, ServerAlone DEF BeforeReport, Flushing
<1>12. QED
  BY <1>7, <1>8, <1>9, <1>10, <1>11

LEMMA ServerMakePacketsOK ==
  ASSUME IInv, ServerMakePackets
  PROVE  IInv'
<1> DEFINE x == MakeStdoutPackets(MakePackets(CloseStdin(s), "stderr"))
           y == Notice(x)
<1>1. s \in ServerType(Allowed) /\ s.pc = "packets" /\ Says(Allowed)
  BY AllowedPackets DEF IInv, Typed, ServerMakePackets, Says
<1>2. CloseStdin(s) \in ServerType(Allowed) /\ SameControl(s, CloseStdin(s))
  BY <1>1, CloseStdinOK
<1>3. LET z == MakePackets(CloseStdin(s), "stderr")
      IN  z \in ServerType(Allowed) /\ SameControl(s, z)
  BY <1>1, <1>2, MakePacketsOK DEF SameControl, Streams
<1>4. x \in ServerType(Allowed) /\ SameControl(s, x)
  BY <1>1, <1>3, MakeStdoutPacketsOK DEF SameControl
<1>5. y \in ServerType(Allowed) /\ SameControl(s, y)
  BY <1>4, NoticeOK DEF SameControl
<1>6. UNCHANGED <<c, p, u, c2s, s2c>>
  BY DEF ServerMakePackets
<1>7. s' \in {[x EXCEPT !.pc = "flush", !.then = "ended"],
              [y EXCEPT !.pc = "sets", !.just = FALSE]}
  BY DEF ServerMakePackets
<1> HIDE DEF x, y
<1>8. CASE s' = [x EXCEPT !.pc = "flush", !.then = "ended"]
  <2>1. s' \in ServerType(Allowed)
    BY <1>4, <1>8 DEF ServerType
  <2>2. /\ s'.pc = "flush" /\ s'.then = "ended" /\ s'.cause = s.cause
        /\ s'.terminated = s.terminated
    BY <1>4, <1>8 DEF ServerType, SameControl
  <2>3. QED
    BY <1>1, <1>6, <2>1, <2>2, ServerAlone DEF BeforeReport, Flushing
<1>9. CASE s' = [y EXCEPT !.pc = "sets", !.just = FALSE]
  <2>1. s' \in ServerType(Allowed)
    BY <1>5, <1>9 DEF ServerType
  <2>2. s'.pc = "sets" /\ s'.cause = s.cause /\ s'.terminated = s.terminated
    BY <1>5, <1>9 DEF ServerType, SameControl
  <2>3. QED
    BY <1>1, <1>6, <2>1, <2>2, ServerAlone DEF BeforeReport, Flushing
<1>10. QED
  BY <1>7, <1>8, <1>9

LEMMA ServerSetsOK ==
  ASSUME IInv, ServerSets
  PROVE  IInv'
<1> DEFINE t == IF s.terminated /\ s.timeout = "none" THEN "100ms" ELSE s.timeout
<1>1. s \in ServerType(Allowed) /\ s.pc = "sets"
  BY DEF IInv, Typed, ServerSets
<1>2. t \in {"none", "17ms", "100ms"}
  BY <1>1 DEF ServerType
<1>3. UNCHANGED <<c, p, u, c2s, s2c>> /\ s' = [s EXCEPT !.pc = "select", !.timeout = t]
  BY DEF ServerSets
<1> HIDE DEF t
<1>4. s' \in ServerType(Allowed)
  BY <1>1, <1>2, <1>3 DEF ServerType
<1>5. s'.pc = "select" /\ s'.terminated = s.terminated /\ s'.cause = s.cause
  BY <1>1, <1>3 DEF ServerType
<1>6. QED
  BY <1>1, <1>3, <1>4, <1>5, ServerAlone DEF BeforeReport, Flushing

LEMMA ServerNothingOK ==
  ASSUME IInv, ServerNothing
  PROVE  IInv'
<1> DEFINE x == ShutdownChild(s)
<1>1. s \in ServerType(Allowed) /\ s.pc = "select"
  BY DEF IInv, Typed, ServerNothing
<1>2. x \in ServerType(Allowed) /\ SameControl(s, x)
  BY <1>1, ShutdownChildOK
<1>3. UNCHANGED <<c, p, u, c2s, s2c>>
      /\ s' = [x EXCEPT !.pc = "packets", !.interrupted = FALSE]
  BY DEF ServerNothing
<1> HIDE DEF x
<1>4. s' \in ServerType(Allowed)
  BY <1>2, <1>3 DEF ServerType
<1>5. s'.pc = "packets" /\ s'.terminated = s.terminated /\ s'.cause = s.cause
  BY <1>2, <1>3 DEF ServerType, SameControl
<1>6. QED
  BY <1>1, <1>3, <1>4, <1>5, ServerAlone DEF BeforeReport, Flushing

LEMMA ServerSelectOK ==
  ASSUME IInv, ServerSelect
  PROVE  IInv'
<1> DEFINE ready  == ServerReady
           reads  == "connection in" \in ready
           writes == "connection out" \in ready
           s1     == IF reads THEN [s EXCEPT !.input = @ \o c2s] ELSE s
           r1     == ReadProgram(s1, ready)
           s2     == WriteProgram(r1, ready)
           s3     == IF writes THEN Written(s2, s2c) ELSE s2
           fatal  == (reads /\ c2s = << >>) \/ (writes /\ c.pc = "gone")
           out    == [st \in Streams |-> IF st \in ready THEN 0 ELSE p.out[st]]
           stdin  == IF "fdin" \in ready /\ StdinRead THEN p.stdin + ToProgram ELSE p.stdin
<1>1. /\ s \in ServerType(Allowed) /\ s.pc = "select" /\ p \in ProgramType
      /\ c2s \in Seq(ToServer) /\ Len(c2s) =< NetCap
      /\ s2c \in Seq(Allowed) /\ Len(s2c) =< NetCap
  BY DEF IInv, Typed, ServerSelect
<1>2. /\ UNCHANGED <<c, u>>
      /\ s' \in {[s EXCEPT !.pc = "gone", !.cause = "connection lost"],
                 [s3 EXCEPT !.pc = "packets"]}
      /\ p' = [p EXCEPT !.out = out, !.stdin = stdin]
      /\ c2s' \in {<< >>, c2s} /\ s2c' \in {s2c, Delivered(s2, s2c)}
  BY DEF ServerSelect
<1>3. /\ s1 \in ServerType(Allowed) /\ SameControl(s, s1) /\ s1.stdin = s.stdin
  <2> DEFINE y == [s EXCEPT !.input = @ \o c2s]
  <2>1. s.input \o c2s \in Seq(ToServer)
    BY <1>1, ConcatProperties DEF ServerType
  <2>2. y \in ServerType(Allowed)
    BY <1>1, <2>1 DEF ServerType
  <2>3. SameControl(s, y) /\ y.stdin = s.stdin
    BY <1>1 DEF ServerType, SameControl
  <2> HIDE DEF y, reads
  <2>4. s1 \in {s, y}
    BY DEF y
  <2> HIDE DEF s1
  <2>5. QED
    BY <1>1, <2>2, <2>3, <2>4 DEF SameControl
<1> HIDE DEF s1, reads, ready
<1>4. r1 \in ServerType(Allowed) /\ SameControl(s, r1) /\ r1.stdin = s.stdin
  <2>1. r1 \in ServerType(Allowed) /\ SameControl(s1, r1)
    BY <1>1, <1>3, ReadProgramOK
  <2>2. r1.stdin = s1.stdin
    <3> DEFINE b == [st \in Streams |-> IF st \in ready THEN s1.buf[st] + p.out[st]
                                        ELSE s1.buf[st]]
               e == [st \in Streams |-> s1.eof[st] \/ (st \in ready /\ p.out[st] = 0)]
    <3>1. r1 = [s1 EXCEPT !.buf = b, !.eof = e]
      BY DEF ReadProgram
    <3> HIDE DEF b, e, r1
    <3>2. QED
      BY <1>3, <3>1 DEF ServerType
  <2>3. QED
    BY <1>3, <2>1, <2>2 DEF SameControl
<1> HIDE DEF r1
<1>5. /\ s2 \in ServerType(Allowed) /\ SameControl(s, s2)
      /\ ToProgram \in Nat /\ p.stdin + ToProgram \in 0 .. PipeCap
  BY <1>1, <1>4, WriteProgramOK DEF SameControl
<1> HIDE DEF s2
<1>6. /\ Written(s2, s2c) \in ServerType(Allowed) /\ SameControl(s2, Written(s2, s2c))
      /\ Delivered(s2, s2c) \in Seq(Allowed) /\ Len(Delivered(s2, s2c)) =< NetCap
  BY <1>1, <1>5, ServerWrittenOK
<1>7. s3 \in ServerType(Allowed) /\ SameControl(s, s3)
  BY <1>5, <1>6 DEF SameControl
<1> HIDE DEF s3, fatal, writes
<1>8. /\ p' \in ProgramType /\ p'.child = p.child /\ p'.signal = p.signal
      /\ p'.reaped = p.reaped
  <2>1. out \in [Streams -> 0 .. PipeCap]
    BY <1>1, SessionAssumption DEF ProgramType
  <2>2. stdin \in 0 .. PipeCap
    <3>1. p.stdin \in 0 .. PipeCap
      BY <1>1 DEF ProgramType
    <3>2. QED
      BY <1>5, <3>1
  <2> HIDE DEF out, stdin
  <2>3. p' \in ProgramType
    BY <1>1, <1>2, <2>1, <2>2 DEF ProgramType
  <2>4. QED
    BY <1>1, <1>2, <2>3 DEF ProgramType
<1>9. c2s' \in Seq(ToServer) /\ Len(c2s') =< NetCap
  <2>1. << >> \in Seq(ToServer) /\ Len(<< >>) = 0 /\ 0 =< NetCap
    BY SessionAssumption
  <2>2. QED
    BY <1>1, <1>2, <2>1
<1>10. s2c' \in Seq(Allowed) /\ Len(s2c') =< NetCap
  BY <1>1, <1>2, <1>6
<1>11. CASE s' = [s EXCEPT !.pc = "gone", !.cause = "connection lost"]
  <2>1. s' \in ServerType(Allowed)
    BY <1>1, <1>11 DEF ServerType
  <2>2. s'.pc = "gone" /\ s'.cause = "connection lost" /\ s'.terminated = s.terminated
    BY <1>1, <1>11 DEF ServerType
  <2>3. QED
    BY <1>2, <1>8, <1>9, <1>10, <2>1, <2>2, ServerQuiet DEF BeforeReport, Flushing
<1>12. CASE s' = [s3 EXCEPT !.pc = "packets"]
  <2>1. s' \in ServerType(Allowed)
    BY <1>7, <1>12 DEF ServerType
  <2>2. s'.pc = "packets" /\ s'.cause = s.cause /\ s'.terminated = s.terminated
    BY <1>7, <1>12 DEF ServerType, SameControl
  <2>3. QED
    BY <1>1, <1>2, <1>8, <1>9, <1>10, <2>1, <2>2, ServerQuiet DEF BeforeReport, Flushing
<1>13. QED
  BY <1>2, <1>11, <1>12

LEMMA ServerFlushOK ==
  ASSUME IInv, ServerFlush
  PROVE  IInv'
<1>1. /\ s \in ServerType(Allowed) /\ s.pc = "flush" /\ p \in ProgramType
      /\ s.then \in {"ended", "confirm", "gone"}
      /\ c2s \in Seq(ToServer) /\ Len(c2s) =< NetCap
      /\ s2c \in Seq(Allowed) /\ Len(s2c) =< NetCap
  BY DEF IInv, Typed, ServerFlush, Flushing, ServerType
<1>2. /\ Written(s, s2c) \in ServerType(Allowed) /\ SameControl(s, Written(s, s2c))
      /\ Delivered(s, s2c) \in Seq(Allowed) /\ Len(Delivered(s, s2c)) =< NetCap
  BY <1>1, ServerWrittenOK
<1>3. /\ UNCHANGED <<c, p, u, c2s>> /\ s2c' \in {s2c, Delivered(s, s2c)}
      /\ s' \in {[s EXCEPT !.pc = s.then],
                 [s EXCEPT !.pc = "gone", !.cause = "connection lost"], Written(s, s2c)}
  BY DEF ServerFlush
<1>4. s2c' \in Seq(Allowed) /\ Len(s2c') =< NetCap
  BY <1>1, <1>2, <1>3
<1>5. CASE s' = [s EXCEPT !.pc = s.then]
  <2>1. s' \in ServerType(Allowed)
    BY <1>1, <1>5 DEF ServerType
  <2>2. s'.pc = s.then /\ s'.cause = s.cause /\ s'.terminated = s.terminated
    BY <1>1, <1>5 DEF ServerType
  <2>3. QED
    BY <1>1, <1>3, <1>4, <2>1, <2>2, ServerQuiet DEF BeforeReport, Flushing
<1>6. CASE s' = [s EXCEPT !.pc = "gone", !.cause = "connection lost"]
  <2>1. s' \in ServerType(Allowed)
    BY <1>1, <1>6 DEF ServerType
  <2>2. s'.pc = "gone" /\ s'.cause = "connection lost" /\ s'.terminated = s.terminated
    BY <1>1, <1>6 DEF ServerType
  <2>3. QED
    BY <1>1, <1>3, <1>4, <2>1, <2>2, ServerQuiet DEF BeforeReport, Flushing
<1>7. CASE s' = Written(s, s2c)
  <2>1. /\ s'.pc = "flush" /\ s'.then = s.then /\ s'.cause = s.cause
        /\ s'.terminated = s.terminated
    BY <1>1, <1>2, <1>7 DEF SameControl
  <2>2. QED
    BY <1>1, <1>2, <1>3, <1>4, <1>7, <2>1, ServerQuiet DEF BeforeReport, Flushing
<1>8. QED
  BY <1>3, <1>5, <1>6, <1>7

\* The handler is off before the status is looked at.
LEMMA ServerEndedOK ==
  ASSUME IInv, ServerEnded
  PROVE  IInv'
<1> DEFINE f == [st \in Streams |-> FALSE]
<1>1. /\ s \in ServerType(Allowed) /\ s.pc = "ended" /\ p \in ProgramType
      /\ c2s \in Seq(ToServer) /\ Len(c2s) =< NetCap
      /\ s2c \in Seq(Allowed) /\ Len(s2c) =< NetCap
  BY DEF IInv, Typed, ServerEnded
<1>2. /\ UNCHANGED <<c, p, u, c2s, s2c>>
      /\ s' = [s EXCEPT !.pc = "status", !.handler = FALSE, !.fdin = FALSE, !.fdout = f]
  BY DEF ServerEnded
<1>3. f \in [Streams -> BOOLEAN]
  OBVIOUS
<1> HIDE DEF f
<1>4. s' \in ServerType(Allowed)
  BY <1>1, <1>2, <1>3 DEF ServerType
<1>5. /\ s'.pc = "status" /\ s'.handler = FALSE /\ s'.cause = s.cause
      /\ s'.terminated = s.terminated
  BY <1>1, <1>2 DEF ServerType
<1>6. ServerSays' /\ Flushing'
  BY <1>2, <1>5 DEF IInv, ServerSays, Flushing
<1>7. Reaping'
  BY <1>1, <1>2, <1>5 DEF IInv, Reaping, BeforeReport
<1>8. QED
  BY <1>1, <1>2, <1>4, <1>6, <1>7, ServerFrame

\* The report of a child that has ended.
LEMMA ReportOK ==
  ASSUME s \in ServerType(Allowed), p \in ProgramType, p.child # "running"
  PROVE  /\ Report(s) \in ServerType(Allowed)
         /\ Report(s).pc = "flush" /\ Report(s).then \in {"confirm", "gone"}
         /\ Report(s).cause \in {s.cause, "signal"}
         /\ Report(s).cause = "signal" => s.cause = "signal" \/ p.child = "killed"
         /\ Report(s).terminated = s.terminated
<1>1. CASE p.child = "exited"
  <2> DEFINE x == Send(s, <<"exitstatus">>)
  <2>1. "exitstatus" \in Allowed
    BY <1>1 DEF Allowed, ToClient
  <2>2. x \in ServerType(Allowed) /\ SameControl(s, x)
    BY <2>1, ServerSendOK
  <2>3. Report(s) = [x EXCEPT !.pc = "flush", !.then = "confirm"]
    BY <1>1 DEF Report
  <2> HIDE DEF x
  <2>4. Report(s) \in ServerType(Allowed)
    BY ZenonT(60), <2>2, <2>3 DEF ServerType
  <2>5. /\ Report(s).pc = "flush" /\ Report(s).then = "confirm"
        /\ Report(s).cause = s.cause /\ Report(s).terminated = s.terminated
    BY ZenonT(60), <2>2, <2>3 DEF ServerType, SameControl
  <2>6. QED
    BY <2>4, <2>5
<1>2. CASE p.child = "killed"
  <2> DEFINE x == Send(s, <<"disconnect">>)
  <2>1. "disconnect" \in Allowed
    BY AllowedPackets
  <2>2. x \in ServerType(Allowed) /\ SameControl(s, x)
    BY <2>1, ServerSendOK
  <2>3. Report(s) = [x EXCEPT !.pc = "flush", !.then = "gone", !.cause = "signal"]
    BY <1>2 DEF Report
  <2> HIDE DEF x
  <2>4. Report(s) \in ServerType(Allowed)
    BY ZenonT(60), <2>2, <2>3 DEF ServerType
  <2>5. /\ Report(s).pc = "flush" /\ Report(s).then = "gone"
        /\ Report(s).cause = "signal" /\ Report(s).terminated = s.terminated
    BY ZenonT(60), <2>2, <2>3 DEF ServerType, SameControl
  <2>6. QED
    BY <1>2, <2>4, <2>5
<1>3. QED
  BY <1>1, <1>2 DEF ProgramType

\* Reporting ends the time in which the child may be reaped.
LEMMA ReportKeeps ==
  ASSUME IInv, UNCHANGED <<c, u, c2s, s2c>>, s' = Report(s), p.child # "running",
         p' \in ProgramType, p'.child = p.child, p'.signal = p.signal
  PROVE  IInv'
<1>1. /\ s \in ServerType(Allowed) /\ p \in ProgramType
      /\ c2s \in Seq(ToServer) /\ Len(c2s) =< NetCap
      /\ s2c \in Seq(Allowed) /\ Len(s2c) =< NetCap
  BY DEF IInv, Typed
<1>2. /\ s' \in ServerType(Allowed)
      /\ s'.pc = "flush" /\ s'.then \in {"confirm", "gone"}
      /\ s'.cause \in {s.cause, "signal"}
      /\ s'.cause = "signal" => s.cause = "signal" \/ p.child = "killed"
      /\ s'.terminated = s.terminated
  BY <1>1, ReportOK
<1>3. ServerSays' /\ Flushing'
  BY <1>2 DEF IInv, ServerSays, Flushing
<1>4. Reaping'
  BY <1>2 DEF IInv, Reaping, BeforeReport
<1>5. QED
  BY <1>1, <1>2, <1>3, <1>4, ServerFrame

LEMMA ServerStatusOK ==
  ASSUME IInv, ServerStatus
  PROVE  IInv'
<1>1. /\ s \in ServerType(Allowed) /\ s.pc = "status" /\ p \in ProgramType
      /\ c2s \in Seq(ToServer) /\ Len(c2s) =< NetCap
      /\ s2c \in Seq(Allowed) /\ Len(s2c) =< NetCap
  BY DEF IInv, Typed, ServerStatus
<1>2. UNCHANGED <<c, p, u, c2s, s2c>>
  BY DEF ServerStatus
<1>3. CASE s.terminated
  <2>1. s' = Report(s) /\ p.child # "running"
    BY <1>3 DEF ServerStatus, IInv, Reaping
  <2>2. QED
    BY <1>1, <1>2, <2>1, ReportKeeps
<1>4. CASE ~s.terminated
  <2>1. s' = [s EXCEPT !.pc = "wait"]
    BY <1>4 DEF ServerStatus
  <2>2. s' \in ServerType(Allowed)
    BY <1>1, <2>1 DEF ServerType
  <2>3. /\ s'.pc = "wait" /\ s'.handler = s.handler /\ s'.cause = s.cause
        /\ s'.terminated = s.terminated
    BY <1>1, <2>1 DEF ServerType
  <2>4. ServerSays' /\ Flushing'
    BY <1>2, <2>3 DEF IInv, ServerSays, Flushing
  <2>5. Reaping'
    BY <1>1, <1>2, <1>4, <2>3 DEF IInv, Reaping, BeforeReport
  <2>6. QED
    BY <1>1, <1>2, <2>2, <2>4, <2>5, ServerFrame
<1>5. QED
  BY <1>3, <1>4

\* wait cannot fail: nothing but the handler reaps, and then it has said so.
LEMMA ServerWaitOK ==
  ASSUME IInv, ServerWait
  PROVE  IInv'
<1>1. p \in ProgramType /\ s.pc = "wait" /\ p.child # "running"
  BY DEF IInv, Typed, ServerWait
<1>2. ~p.reaped
  BY <1>1 DEF IInv, Reaping, BeforeReport
<1>3. /\ UNCHANGED <<c, u, c2s, s2c>> /\ s' = Report(s)
      /\ p' = [p EXCEPT !.reaped = TRUE]
  BY <1>2 DEF ServerWait
<1>4. p' \in ProgramType /\ p'.child = p.child /\ p'.signal = p.signal
  BY <1>1, <1>3 DEF ProgramType
<1>5. QED
  BY <1>1, <1>3, <1>4, ReportKeeps

LEMMA ServerConfirmOK ==
  ASSUME IInv, ServerConfirm
  PROVE  IInv'
<1> DEFINE came == "confirmation" \in {c2s[i] : i \in DOMAIN c2s}
           next == IF c2s = << >> \/ came THEN "gone" ELSE s.pc
           cause == IF c2s = << >> THEN "connection lost"
                    ELSE IF came THEN "confirmed" ELSE s.cause
<1>1. /\ s \in ServerType(Allowed) /\ s.pc = "confirm" /\ p \in ProgramType
      /\ s2c \in Seq(Allowed) /\ Len(s2c) =< NetCap
  BY DEF IInv, Typed, ServerConfirm
<1>2. /\ UNCHANGED <<c, p, u, s2c>> /\ c2s' = << >>
      /\ s' = [s EXCEPT !.pc = next, !.cause = cause]
  BY DEF ServerConfirm
<1>3. next \in {"gone", "confirm"} /\ cause \in {s.cause, "connection lost", "confirmed"}
  BY <1>1
<1>4. << >> \in Seq(ToServer) /\ Len(<< >>) = 0 /\ 0 =< NetCap
  BY SessionAssumption
<1> HIDE DEF next, cause
<1>5. s' \in ServerType(Allowed)
  BY <1>1, <1>2, <1>3 DEF ServerType
<1>6. s'.pc = next /\ s'.cause = cause /\ s'.terminated = s.terminated
  BY <1>1, <1>2 DEF ServerType
<1>7. QED
  BY <1>1, <1>2, <1>3, <1>4, <1>5, <1>6, ServerQuiet DEF BeforeReport, Flushing

-----------------------------------------------------------------------------
(* The signal handler, the program and the user.                           *)

\* The handler reaps the child once, and says so.
LEMMA SigChldOK ==
  ASSUME IInv, SigChld
  PROVE  IInv'
<1>1. /\ s \in ServerType(Allowed) /\ p \in ProgramType
      /\ c2s \in Seq(ToServer) /\ Len(c2s) =< NetCap
      /\ s2c \in Seq(Allowed) /\ Len(s2c) =< NetCap
      /\ p.signal /\ p.child # "running"
  BY DEF IInv, Typed, Reaping, SigChld
<1>2. UNCHANGED <<c, u, c2s, s2c>>
  BY DEF SigChld
<1>3. CASE s.handler
  <2>1. PICK interrupts \in BOOLEAN :
          /\ s' = [s EXCEPT !.terminated = @ \/ ~p.reaped, !.just = @ \/ ~p.reaped,
                            !.interrupted = interrupts]
          /\ p' = [p EXCEPT !.signal = FALSE, !.reaped = TRUE]
    BY <1>3 DEF SigChld
  <2>2. p' \in ProgramType /\ p'.child = p.child /\ p'.signal = FALSE /\ p'.reaped = TRUE
    BY <1>1, <2>1 DEF ProgramType
  <2>3. s' \in ServerType(Allowed)
    <3> DEFINE t == s.terminated \/ ~p.reaped
               j == s.just \/ ~p.reaped
    <3>1. t \in BOOLEAN /\ j \in BOOLEAN
      OBVIOUS
    <3>2. s' = [s EXCEPT !.terminated = t, !.just = j, !.interrupted = interrupts]
      BY <2>1
    <3> HIDE DEF t, j
    <3>3. QED
      BY ZenonT(60), <1>1, <3>1, <3>2 DEF ServerType
  <2>4. /\ s'.pc = s.pc /\ s'.then = s.then /\ s'.cause = s.cause
        /\ s'.handler = s.handler /\ (s'.terminated <=> s.terminated \/ ~p.reaped)
    BY <1>1, <2>1 DEF ServerType
  <2>5. ServerSays' /\ Flushing'
    BY <2>2, <2>4 DEF IInv, ServerSays, Flushing
  <2>6. BeforeReport(s)' <=> BeforeReport(s)
    BY <2>4 DEF BeforeReport
  <2>7. Reaping'
    BY <1>1, <1>3, <2>2, <2>4, <2>6 DEF IInv, Reaping
  <2>8. QED
    BY <1>1, <1>2, <2>2, <2>3, <2>5, <2>7, ServerFrame
<1>4. CASE ~s.handler
  <2>1. s' = s /\ p' = [p EXCEPT !.signal = FALSE]
    BY <1>4 DEF SigChld
  <2>2. /\ p' \in ProgramType /\ p'.child = p.child /\ p'.signal = FALSE
        /\ p'.reaped = p.reaped
    BY <1>1, <2>1 DEF ProgramType
  <2>3. ServerSays' /\ Reaping' /\ Flushing'
    BY <2>1, <2>2 DEF IInv, ServerSays, Reaping, BeforeReport, Flushing
  <2>4. QED
    BY <1>1, <1>2, <2>1, <2>2, <2>3, ServerFrame
<1>5. QED
  BY <1>3, <1>4

\* What an action of the program that leaves the child alone must keep.
LEMMA ProgramFrame ==
  ASSUME IInv, UNCHANGED <<c, s, u, c2s, s2c>>, p' \in ProgramType,
         p'.child = p.child, p'.signal = p.signal, p'.reaped = p.reaped
  PROVE  IInv'
<1>1. /\ s \in ServerType(Allowed)
      /\ c2s \in Seq(ToServer) /\ Len(c2s) =< NetCap
      /\ s2c \in Seq(Allowed) /\ Len(s2c) =< NetCap
  BY DEF IInv, Typed
<1>2. ServerSays' /\ Reaping' /\ Flushing'
  BY DEF IInv, ServerSays, Reaping, BeforeReport, Flushing
<1>3. QED
  BY <1>1, <1>2, ServerFrame

LEMMA ProgramWritesOK ==
  ASSUME IInv, NEW st \in Streams, ProgramWrites(st)
  PROVE  IInv'
<1> DEFINE out   == [p.out EXCEPT ![st] = @ + 1]
           wrote == [p.wrote EXCEPT ![st] = @ + 1]
<1>1. p \in ProgramType /\ p.out[st] < PipeCap /\ PipeCap \in Nat
  BY SessionAssumption DEF IInv, Typed, ProgramWrites
<1>2. UNCHANGED <<c, s, u, c2s, s2c>> /\ p' = [p EXCEPT !.out = out, !.wrote = wrote]
  BY DEF ProgramWrites
<1>3. out \in [Streams -> 0 .. PipeCap]
  BY <1>1 DEF ProgramType
<1>4. wrote \in [Streams -> Nat]
  BY <1>1 DEF ProgramType
<1> HIDE DEF out, wrote
<1>5. /\ p' \in ProgramType /\ p'.child = p.child /\ p'.signal = p.signal
      /\ p'.reaped = p.reaped
  BY <1>1, <1>2, <1>3, <1>4 DEF ProgramType
<1>6. QED
  BY <1>2, <1>5, ProgramFrame

LEMMA ProgramReadsOK ==
  ASSUME IInv, ProgramReads
  PROVE  IInv'
<1> DEFINE n == p.read + p.stdin
<1>1. p \in ProgramType /\ n \in Nat /\ 0 \in 0 .. PipeCap
  BY SessionAssumption DEF IInv, Typed, ProgramType
<1>2. UNCHANGED <<c, s, u, c2s, s2c>>
      /\ p' \in {[p EXCEPT !.read = n, !.stdin = 0], [p EXCEPT !.sawEof = TRUE]}
  BY DEF ProgramReads
<1> HIDE DEF n
<1>3. p' \in ProgramType
  BY <1>1, <1>2 DEF ProgramType
<1>4. p'.child = p.child /\ p'.signal = p.signal /\ p'.reaped = p.reaped
  BY <1>1, <1>2 DEF ProgramType
<1>5. QED
  BY <1>2, <1>3, <1>4, ProgramFrame

LEMMA ProgramClosesOK ==
  ASSUME IInv, NEW d, ProgramCloses(d)
  PROVE  IInv'
<1>1. p \in ProgramType
  BY DEF IInv, Typed
<1>2. UNCHANGED <<c, s, u, c2s, s2c>> /\ p' = [p EXCEPT !.open = p.open \ {d}]
  BY DEF ProgramCloses
<1>3. p.open \ {d} \in SUBSET (Streams \cup {"stdin"})
  BY <1>1 DEF ProgramType
<1>4. /\ p' \in ProgramType /\ p'.child = p.child /\ p'.signal = p.signal
      /\ p'.reaped = p.reaped
  BY <1>1, <1>2, <1>3 DEF ProgramType
<1>5. QED
  BY <1>2, <1>4, ProgramFrame

\* Once the child has exited, the server may send more.
LEMMA ChildEndsOK ==
  ASSUME IInv, NEW how \in {"exited", "killed"},
         NEW left \in SUBSET (Streams \cup {"stdin"}), ChildEnds(how, left)
  PROVE  IInv'
<1>1. /\ p \in ProgramType /\ p.child = "running"
      /\ c \in ClientType(Allowed) /\ s \in ServerType(Allowed)
      /\ s2c \in Seq(Allowed)
  BY DEF IInv, Typed, ChildEnds
<1>2. UNCHANGED <<c, s, u, c2s, s2c>>
      /\ p' = [p EXCEPT !.child = how, !.open = left, !.signal = s.handler]
  BY DEF ChildEnds
<1>3. s.handler \in BOOLEAN
  BY <1>1 DEF ServerType
<1>4. p' \in ProgramType /\ p'.child = how /\ p'.signal = s.handler /\ p'.reaped = p.reaped
  BY <1>1, <1>2, <1>3 DEF ProgramType
<1>5. Allowed \subseteq Allowed'
  BY <1>1 DEF Allowed
<1>6. Seq(Allowed) \subseteq Seq(Allowed')
  BY <1>5, SeqMonotonic
<1>7. c \in ClientType(Allowed')
  BY <1>1, <1>6 DEF ClientType
<1>8. s \in ServerType(Allowed')
  BY <1>1, <1>6 DEF ServerType
<1>9. Typed'
  BY <1>1, <1>2, <1>4, <1>6, <1>7, <1>8 DEF IInv, Typed
<1>10. ClientSays' /\ ServerSays' /\ Flushing'
  BY <1>1, <1>2 DEF IInv, ClientSays, ServerSays, Flushing
<1>11. Reaping'
  BY <1>1, <1>2, <1>4 DEF IInv, Reaping, BeforeReport
<1>12. QED
  BY <1>9, <1>10, <1>11 DEF IInv

\* What an action of the user that changes u alone must keep.
LEMMA UserFrame ==
  ASSUME IInv, UNCHANGED <<c, s, p, c2s, s2c>>, u' \in UserType
  PROVE  IInv'
<1>1. /\ c \in ClientType(Allowed)
      /\ c2s \in Seq(ToServer) /\ Len(c2s) =< NetCap
      /\ s2c \in Seq(Allowed) /\ Len(s2c) =< NetCap
  BY DEF IInv, Typed
<1>2. ClientSays'
  BY DEF IInv, ClientSays
<1>3. QED
  BY <1>1, <1>2, ClientFrame

LEMMA UserOK ==
  ASSUME IInv, UserTypes \/ UserEndsInput \/ UserHangsUp
  PROVE  IInv'
<1>1. u \in UserType /\ u.typed + 1 \in Nat
  BY DEF IInv, Typed, UserType
<1>2. /\ UNCHANGED <<c, s, p, c2s, s2c>>
      /\ u' \in {[u EXCEPT !.typed = u.typed + 1], [u EXCEPT !.closed = TRUE],
                 [u EXCEPT !.tty = "gone"]}
  BY DEF UserTypes, UserEndsInput, UserHangsUp
<1>3. u' \in UserType
  BY <1>1, <1>2 DEF UserType
<1>4. QED
  BY <1>2, <1>3, UserFrame

LEMMA UserEndsForwardingOK ==
  ASSUME IInv, UserEndsForwarding
  PROVE  IInv'
<1>1. c \in ClientType(Allowed) /\ (c.exit = "status" => p.child = "exited")
  BY DEF IInv, Typed, ClientSays
<1>2. UNCHANGED <<s, p, u, c2s, s2c>> /\ c' = [c EXCEPT !.forward = "closing"]
  BY DEF UserEndsForwarding
<1>3. c' \in ClientType(Allowed) /\ c'.exit = c.exit
  BY <1>1, <1>2 DEF ClientType
<1>4. QED
  BY <1>1, <1>2, <1>3, ClientAlone

-----------------------------------------------------------------------------
(* The theorems.                                                           *)

LEMMA InitOK ==
  ASSUME Init
  PROVE  IInv
<1>1. PICK session \in Sessions, nothing \in BOOLEAN :
       /\ u = [session |-> session, typed |-> 0, taken |-> 0, closed |-> nothing,
               shown |-> Both(0), tty |-> "ok"]
       /\ c = [pc |-> "packets", input |-> << >>, stdin |-> 0, eof |-> nothing,
               output |-> IF nothing THEN <<"eof">> ELSE << >>, buf |-> Both(0),
               quit |-> FALSE, exit |-> "none",
               forward |-> IF session.forward THEN "open" ELSE "none"]
  BY DEF Init
<1>2. Both(0) \in [Streams -> Nat] /\ Both(0) \in [Streams -> 0 .. PipeCap]
      /\ 0 \in 0 .. PipeCap
  BY SessionAssumption DEF Both
<1>3. u \in UserType /\ u.session \in Sessions /\ u.session.forward \in BOOLEAN
  BY <1>1, <1>2, SessionAssumption DEF UserType
<1>4. c \in ClientType(Allowed) /\ c.exit = "none"
  <2> DEFINE out == IF nothing THEN <<"eof">> ELSE << >>
             forward == IF session.forward THEN "open" ELSE "none"
  <2>1. out \in Seq(ToServer)
    <3>1. <<"eof">> \in Seq(ToServer) /\ << >> \in Seq(ToServer)
      BY DEF ToServer
    <3>2. QED
      BY <3>1
  <2>2. forward \in {"none", "open"} /\ << >> \in Seq(Allowed)
    OBVIOUS
  <2>3. c = [pc |-> "packets", input |-> << >>, stdin |-> 0, eof |-> nothing,
             output |-> out, buf |-> Both(0), quit |-> FALSE, exit |-> "none",
             forward |-> forward]
    BY <1>1
  <2> HIDE DEF out, forward
  <2>4. QED
    BY <1>2, <2>1, <2>2, <2>3 DEF ClientType
<1>5. /\ s \in ServerType(Allowed) /\ s.pc = "start" /\ s.cause = "none"
      /\ ~s.terminated
  <2> DEFINE fdout == [st \in Streams |-> st = "stdout" \/ Kind # "pty"]
             eof == [st \in Streams |-> st = "stderr" /\ Kind = "pty"]
  <2>1. fdout \in [Streams -> BOOLEAN] /\ eof \in [Streams -> BOOLEAN]
    OBVIOUS
  <2>2. << >> \in Seq(Allowed) /\ << >> \in Seq(ToServer)
    OBVIOUS
  <2>3. s = [pc |-> "start", then |-> "none", input |-> << >>, output |-> << >>,
             stdin |-> 0, stdin_eof |-> FALSE, fdin |-> TRUE,
             fdout |-> fdout, eof |-> eof,
             buf |-> Both(0), previous |-> 0, waiting |-> FALSE, terminated |-> FALSE,
             just |-> FALSE, timeout |-> "none", interrupted |-> FALSE,
             handler |-> FALSE, forward |-> u.session.forward, cause |-> "none"]
    BY DEF Init
  <2> HIDE DEF fdout, eof
  <2>4. QED
    BY <1>2, <1>3, <2>1, <2>2, <2>3 DEF ServerType
<1>6. p \in ProgramType /\ p.child = "running" /\ ~p.signal /\ ~p.reaped
  <2> DEFINE open == {"stdin", "stdout"} \cup (IF Kind = "pty" THEN {} ELSE {"stderr"})
  <2>1. open \in SUBSET (Streams \cup {"stdin"})
    BY DEF Streams
  <2>2. p = [child |-> "running", signal |-> FALSE, reaped |-> FALSE, open |-> open,
             stdin |-> 0, read |-> 0, sawEof |-> FALSE, out |-> Both(0), wrote |-> Both(0)]
    BY DEF Init
  <2> HIDE DEF open
  <2>3. QED
    BY <1>2, <2>1, <2>2 DEF ProgramType
<1>7. /\ c2s \in Seq(ToServer) /\ Len(c2s) =< NetCap
      /\ s2c \in Seq(Allowed) /\ Len(s2c) =< NetCap
  <2>1. /\ << >> \in Seq(Allowed) /\ << >> \in Seq(ToServer) /\ Len(<< >>) = 0
        /\ 0 =< NetCap
    BY SessionAssumption
  <2>2. QED
    BY <2>1 DEF Init
<1>8. Typed
  BY <1>3, <1>4, <1>5, <1>6, <1>7 DEF Typed
<1>9. ClientSays /\ ServerSays /\ Reaping /\ Flushing
  BY <1>4, <1>5, <1>6 DEF ClientSays, ServerSays, Reaping, BeforeReport, Flushing
<1>10. QED
  BY <1>8, <1>9 DEF IInv

LEMMA NextOK ==
  ASSUME IInv, [Next]_vars
  PROVE  IInv'
<1>1. CASE ClientStep
  BY <1>1, ClientPacketOK, ClientMakePacketsOK, ClientSelectOK, ClientFlushOK,
     ClientLeaveOK DEF ClientStep
<1>2. CASE ServerStep
  BY <1>2, ServerStartOK, ServerPacketOK, ServerMakePacketsOK, ServerSetsOK,
     ServerNothingOK, ServerSelectOK, ServerFlushOK, ServerEndedOK, ServerStatusOK,
     ServerWaitOK, ServerConfirmOK DEF ServerStep
<1>3. CASE SigChld \/ ClientKilled
  BY <1>3, SigChldOK, ClientKilledOK
<1>4. CASE Environment
  BY <1>4, ProgramWritesOK, ProgramReadsOK, ProgramClosesOK, ChildEndsOK, UserOK,
     UserEndsForwardingOK DEF Environment
<1>5. CASE UNCHANGED vars
  <2>1. UNCHANGED <<c, s, p, u, c2s, s2c>>
    BY <1>5 DEF vars
  <2>2. u \in UserType
    BY DEF IInv, Typed
  <2>3. QED
    BY <2>1, <2>2, UserFrame
<1>6. QED
  BY <1>1, <1>2, <1>3, <1>4, <1>5 DEF Next

LEMMA IInvAlways == Spec => []IInv
<1>1. Init => IInv
  BY InitOK
<1>2. IInv /\ [Next]_vars => IInv'
  BY NextOK
<1>3. QED
  BY <1>1, <1>2, PTL DEF Spec

\* Both ends, the program and the connection keep their types; the connection
\* never holds more than it takes.
THEOREM TypesKept == Spec => []TypeOK
<1>1. IInv => TypeOK
  <2> SUFFICES ASSUME IInv PROVE TypeOK
    OBVIOUS
  <2>1. Allowed \subseteq ToClient
    BY AllowedPackets
  <2>2. Seq(Allowed) \subseteq Seq(ToClient)
    BY <2>1, SeqMonotonic
  <2>3. c \in ClientType(ToClient)
    BY <2>2 DEF IInv, Typed, ClientType
  <2>4. s \in ServerType(ToClient)
    BY <2>2 DEF IInv, Typed, ServerType
  <2>5. QED
    BY <2>2, <2>3, <2>4 DEF IInv, Typed, TypeOK
<1>2. QED
  BY <1>1, IInvAlways, PTL

\* However the handler and the wait at the end of server_loop race, wait never
\* fails, and the status the client leaves with is the child's.
THEOREM StatusTrue == Spec => []StatusIsTheChilds
<1>1. IInv => StatusIsTheChilds
  BY DEF IInv, ClientSays, ServerSays, StatusIsTheChilds
<1>2. QED
  BY <1>1, IInvAlways, PTL

-----------------------------------------------------------------------------
(* What is on its way, counted.                                            *)

\* How often x is in q, whether it is, and that nothing of S comes after it.
Times(q, x) == Cardinality({i \in DOMAIN q : q[i] = x})
In(q, x) == \E i \in DOMAIN q : q[i] = x
NoneAfter(q, x, S) == \A i, j \in DOMAIN q : i < j /\ q[i] = x => q[j] \notin S

LEMMA TimesOK ==
  ASSUME NEW M, NEW q \in Seq(M), NEW x
  PROVE  /\ IsFiniteSet({i \in DOMAIN q : q[i] = x})
         /\ Times(q, x) \in Nat
         /\ Times(q, x) = 0 <=> ~In(q, x)
<1> DEFINE A == {i \in DOMAIN q : q[i] = x}
<1>1. Len(q) \in Nat /\ DOMAIN q = 1 .. Len(q)
  BY LenProperties
<1>2. IsFiniteSet(1 .. Len(q))
  BY <1>1, FS_Interval
<1>3. A \in SUBSET (1 .. Len(q))
  BY <1>1
<1>4. IsFiniteSet(A)
  BY <1>2, <1>3, FS_Subset
<1>5. A = {} <=> ~In(q, x)
  BY DEF In
<1>6. Times(q, x) = Cardinality(A)
  BY DEF Times
<1> HIDE DEF A
<1>7. Cardinality(A) \in Nat /\ (Cardinality(A) = 0 <=> A = {})
  BY <1>4, FS_CardinalityType, FS_EmptySet
<1>8. QED
  BY <1>4, <1>5, <1>6, <1>7 DEF A

\* Where an element of a concatenation comes from.
LEMMA ConcatElements ==
  ASSUME NEW M, NEW a \in Seq(M), NEW b \in Seq(M)
  PROVE  /\ a \o b \in Seq(M) /\ Len(a) \in Nat /\ Len(b) \in Nat
         /\ DOMAIN a = 1 .. Len(a) /\ DOMAIN b = 1 .. Len(b)
         /\ DOMAIN (a \o b) = 1 .. Len(a) + Len(b)
         /\ \A i \in 1 .. Len(a) : i \in 1 .. Len(a) + Len(b) /\ (a \o b)[i] = a[i]
         /\ \A i \in 1 .. Len(b) : i + Len(a) \in 1 .. Len(a) + Len(b)
                                   /\ (a \o b)[i + Len(a)] = b[i]
         /\ \A i \in 1 .. Len(a) + Len(b) :
              \/ i \in 1 .. Len(a) /\ (a \o b)[i] = a[i]
              \/ \E j \in 1 .. Len(b) : i = j + Len(a) /\ (a \o b)[i] = b[j]
<1> DEFINE q == a \o b
           m == Len(a)
           n == Len(b)
<1>1. m \in Nat /\ n \in Nat /\ DOMAIN a = 1 .. m /\ DOMAIN b = 1 .. n
  BY LenProperties
<1>2. /\ q \in Seq(M) /\ Len(q) = m + n
      /\ \A i \in 1 .. m + n : q[i] = IF i =< m THEN a[i] ELSE b[i - m]
  BY ConcatProperties
<1>3. DOMAIN q = 1 .. m + n
  BY <1>2, LenProperties
<1> HIDE DEF q, m, n
<1>4. \A i \in 1 .. m : i \in 1 .. m + n /\ q[i] = a[i]
  BY <1>1, <1>2
<1>5. ASSUME NEW i \in 1 .. n
      PROVE  i + m \in 1 .. m + n /\ q[i + m] = b[i]
  <2>1. i + m \in 1 .. m + n /\ ~(i + m =< m) /\ (i + m) - m = i
    BY <1>1
  <2>2. QED
    BY <1>2, <2>1
<1>6. ASSUME NEW i \in 1 .. m + n
      PROVE  \/ i \in 1 .. m /\ q[i] = a[i]
             \/ \E j \in 1 .. n : i = j + m /\ q[i] = b[j]
  <2>1. CASE i =< m
    <3>1. i \in 1 .. m
      BY <1>1, <2>1
    <3>2. QED
      BY <1>4, <3>1
  <2>2. CASE ~(i =< m)
    <3>1. i - m \in 1 .. n /\ i = (i - m) + m
      BY <1>1, <2>2
    <3>2. q[i] = b[i - m]
      BY <1>2, <2>2
    <3>3. QED
      BY <3>1, <3>2
  <2>3. QED
    BY <2>1, <2>2
<1>7. QED
  BY <1>1, <1>2, <1>3, <1>4, <1>5, <1>6 DEF q, m, n

LEMMA InConcat ==
  ASSUME NEW M, NEW a \in Seq(M), NEW b \in Seq(M), NEW x
  PROVE  In(a \o b, x) <=> In(a, x) \/ In(b, x)
<1> DEFINE q == a \o b
           m == Len(a)
           n == Len(b)
<1>1. /\ m \in Nat /\ n \in Nat /\ q \in Seq(M)
      /\ DOMAIN a = 1 .. m /\ DOMAIN b = 1 .. n /\ DOMAIN q = 1 .. m + n
      /\ \A i \in 1 .. m : i \in 1 .. m + n /\ q[i] = a[i]
      /\ \A i \in 1 .. n : i + m \in 1 .. m + n /\ q[i + m] = b[i]
      /\ \A i \in 1 .. m + n : \/ i \in 1 .. m /\ q[i] = a[i]
                               \/ \E j \in 1 .. n : i = j + m /\ q[i] = b[j]
  BY ConcatElements
<1> HIDE DEF q, m, n
<1>2. In(q, x) => In(a, x) \/ In(b, x)
  BY <1>1 DEF In
<1>3. In(a, x) => In(q, x)
  BY <1>1 DEF In
<1>4. In(b, x) => In(q, x)
  BY <1>1 DEF In
<1>5. QED
  BY <1>2, <1>3, <1>4 DEF q

LEMMA TimesConcat ==
  ASSUME NEW M, NEW a \in Seq(M), NEW b \in Seq(M), NEW x
  PROVE  Times(a \o b, x) = Times(a, x) + Times(b, x)
<1> DEFINE q == a \o b
           m == Len(a)
           n == Len(b)
           A == {i \in DOMAIN a : a[i] = x}
           B == {i \in DOMAIN b : b[i] = x}
           C == {i \in DOMAIN q : q[i] = x}
           S == {j + m : j \in B}
           f == [j \in B |-> j + m]
<1>1. /\ m \in Nat /\ n \in Nat /\ q \in Seq(M)
      /\ DOMAIN a = 1 .. m /\ DOMAIN b = 1 .. n /\ DOMAIN q = 1 .. m + n
      /\ \A i \in 1 .. m : i \in 1 .. m + n /\ q[i] = a[i]
      /\ \A i \in 1 .. n : i + m \in 1 .. m + n /\ q[i + m] = b[i]
      /\ \A i \in 1 .. m + n : \/ i \in 1 .. m /\ q[i] = a[i]
                               \/ \E j \in 1 .. n : i = j + m /\ q[i] = b[j]
  BY ConcatElements
<1>2. IsFiniteSet(A) /\ IsFiniteSet(B) /\ IsFiniteSet(C)
  BY <1>1, TimesOK
<1> HIDE DEF q, m, n
<1>3. C = A \cup S
  <2>1. \A i \in C : i \in A \/ i \in S
    BY <1>1
  <2>2. A \subseteq C
    BY <1>1
  <2>3. S \subseteq C
    BY <1>1
  <2>4. QED
    BY <2>1, <2>2, <2>3
<1>4. A \cap S = {}
  <2>1. \A i \in A : i \in 1 .. m
    BY <1>1
  <2>2. \A j \in B : j \in 1 .. n
    BY <1>1
  <2>3. \A j \in 1 .. n : j + m \notin 1 .. m
    BY <1>1
  <2>4. QED
    BY <2>1, <2>2, <2>3
<1>5. IsFiniteSet(S) /\ Cardinality(S) = Cardinality(B)
  <2>1. \A j \in B : j \in Nat
    BY <1>1
  <2>2. f \in [B -> S]
    OBVIOUS
  <2>3. \A j, k \in B : f[j] = f[k] => j = k
    BY <1>1, <2>1
  <2>4. \A t \in S : \E j \in B : f[j] = t
    OBVIOUS
  <2> HIDE DEF f, S, B
  <2>5. f \in Bijection(B, S)
    BY <2>2, <2>3, <2>4 DEF Bijection, Injection, Surjection, IsInjective
  <2>6. ExistsBijection(B, S)
    BY <2>5 DEF ExistsBijection
  <2>7. QED
    BY <1>2, <2>6, FS_Bijection
<1>6. /\ Times(q, x) = Cardinality(C) /\ Times(a, x) = Cardinality(A)
      /\ Times(b, x) = Cardinality(B)
  BY DEF Times
<1> HIDE DEF A, B, C, S
<1>7. Cardinality(A \cup S) = Cardinality(A) + Cardinality(S) - Cardinality(A \cap S)
  BY <1>2, <1>5, FS_Union
<1>8. Cardinality(A) \in Nat /\ Cardinality(B) \in Nat /\ Cardinality(A \cap S) = 0
  BY <1>2, <1>4, FS_CardinalityType, FS_EmptySet
<1>9. QED
  BY <1>3, <1>5, <1>6, <1>7, <1>8 DEF q

\* Nothing of S comes after x in a concatenation if it does not in either part
\* and x is not in the first or nothing of S in the second.
LEMMA NoneAfterConcat ==
  ASSUME NEW M, NEW a \in Seq(M), NEW b \in Seq(M), NEW x, NEW S,
         NoneAfter(a, x, S), NoneAfter(b, x, S),
         In(a, x) => \A i \in DOMAIN b : b[i] \notin S
  PROVE  NoneAfter(a \o b, x, S)
<1> DEFINE q == a \o b
           m == Len(a)
           n == Len(b)
<1>1. /\ m \in Nat /\ n \in Nat /\ q \in Seq(M)
      /\ DOMAIN a = 1 .. m /\ DOMAIN b = 1 .. n /\ DOMAIN q = 1 .. m + n
      /\ \A i \in 1 .. m + n : \/ i \in 1 .. m /\ q[i] = a[i]
                               \/ \E j \in 1 .. n : i = j + m /\ q[i] = b[j]
  BY ConcatElements
<1> HIDE DEF q, m, n
<1>2. SUFFICES ASSUME NEW i \in 1 .. m + n, NEW j \in 1 .. m + n, i < j, q[i] = x
               PROVE  q[j] \notin S
  BY <1>1 DEF NoneAfter, q
<1>3. CASE j \in 1 .. m /\ q[j] = a[j]
  <2>1. i \in 1 .. m
    BY <1>1, <1>2, <1>3
  <2>2. q[i] = a[i]
    BY <1>1, <2>1
  <2>3. QED
    BY <1>1, <1>2, <1>3, <2>1, <2>2 DEF NoneAfter
<1>4. ASSUME NEW k \in 1 .. n, j = k + m, q[j] = b[k]
      PROVE  q[j] \notin S
  <2>1. CASE i \in 1 .. m /\ q[i] = a[i]
    <3>1. In(a, x)
      BY <1>1, <1>2, <2>1 DEF In
    <3>2. QED
      BY <1>1, <1>4, <3>1
  <2>2. ASSUME NEW l \in 1 .. n, i = l + m, q[i] = b[l]
        PROVE  q[j] \notin S
    <3>1. l < k
      BY <1>1, <1>2, <1>4, <2>2
    <3>2. QED
      BY <1>1, <1>2, <1>4, <2>2, <3>1 DEF NoneAfter
  <2>3. QED
    BY <1>1, <2>1, <2>2
<1>5. QED
  BY <1>1, <1>3, <1>4

\* The first element and the others.
LEMMA HeadAndTail ==
  ASSUME NEW M, NEW q \in Seq(M), q # << >>
  PROVE  /\ <<Head(q)>> \in Seq(M) /\ Tail(q) \in Seq(M)
         /\ q = <<Head(q)>> \o Tail(q)
<1>1. Head(q) \in M /\ Tail(q) \in Seq(M)
  BY HeadTailProperties
<1>2. Len(q) \in Nat \ {0}
  BY EmptySeq
<1>3. Head(q) = q[1]
  BY <1>2
<1>4. Tail(q) = SubSeq(q, 2, Len(q))
  BY TailIsSubSeq
<1>5. SubSeq(q, 1, Len(q)) = q
  BY SubSeqFull
<1>6. SubSeq(q, 1, Len(q)) = <<q[1]>> \o SubSeq(q, 1 + 1, Len(q))
  <2>1. 1 \in 1 .. Len(q) /\ Len(q) \in 1 .. Len(q)
    BY <1>2
  <2>2. QED
    BY <2>1, SubSeqRecursiveFirst
<1>7. <<Head(q)>> \in Seq(M)
  BY <1>1
<1>8. QED
  BY <1>1, <1>3, <1>4, <1>5, <1>6, <1>7

\* One packet, and several of one kind.
LEMMA TimesOne ==
  ASSUME NEW y, NEW x
  PROVE  Times(<<y>>, x) = IF y = x THEN 1 ELSE 0
<1> DEFINE A == {i \in DOMAIN <<y>> : <<y>>[i] = x}
<1>1. A = IF y = x THEN {1} ELSE {}
  OBVIOUS
<1>2. Times(<<y>>, x) = Cardinality(A)
  BY DEF Times
<1> HIDE DEF A
<1>3. Cardinality({1}) = 1 /\ Cardinality({}) = 0
  BY FS_Singleton, FS_EmptySet
<1>4. QED
  BY <1>1, <1>2, <1>3

LEMMA TimesCopies ==
  ASSUME NEW y, NEW n \in Nat, NEW x
  PROVE  Times(Copies(y, n), x) = IF y = x THEN n ELSE 0
<1> DEFINE A == {i \in DOMAIN Copies(y, n) : Copies(y, n)[i] = x}
<1>1. A = IF y = x THEN 1 .. n ELSE {}
  BY DEF Copies
<1>2. Times(Copies(y, n), x) = Cardinality(A)
  BY DEF Times
<1> HIDE DEF A
<1>3. Cardinality(1 .. n) = n /\ Cardinality({}) = 0
  <2>1. Cardinality(1 .. n) = IF 1 > n THEN 0 ELSE n - 1 + 1
    BY FS_Interval
  <2>2. QED
    BY <2>1, FS_EmptySet
<1>4. QED
  BY <1>1, <1>2, <1>3

LEMMA HeadCounts ==
  ASSUME NEW M, NEW h, <<h>> \in Seq(M), NEW rest \in Seq(M)
  PROVE  \A x : /\ Times(<<h>> \o rest, x) = Times(rest, x) + (IF h = x THEN 1 ELSE 0)
                /\ Times(rest, x) \in Nat
                /\ In(rest, x) => In(<<h>> \o rest, x)
<1> DEFINE a == <<h>>
<1>1. a \in Seq(M)
  OBVIOUS
<1>2. \A x : Times(a, x) = IF h = x THEN 1 ELSE 0
  BY TimesOne
<1> HIDE DEF a
<1>3. \A x : Times(rest, x) \in Nat
  BY TimesOK
<1>4. ASSUME NEW x
      PROVE  /\ Times(a \o rest, x) = Times(a, x) + Times(rest, x)
             /\ In(rest, x) => In(a \o rest, x)
  BY <1>1, TimesConcat, InConcat
<1>5. \A x : /\ Times(a \o rest, x) = Times(rest, x) + (IF h = x THEN 1 ELSE 0)
             /\ Times(rest, x) \in Nat
             /\ In(rest, x) => In(a \o rest, x)
  BY <1>2, <1>3, <1>4
<1>6. QED
  BY <1>5 DEF a

\* What is written to the connection is taken from the front of the output.
LEMMA SplitAt ==
  ASSUME NEW M, NEW out \in Seq(M), NEW f \in Nat, f =< Len(out)
  PROVE  /\ SubSeq(out, 1, f) \in Seq(M) /\ SubSeq(out, f + 1, Len(out)) \in Seq(M)
         /\ out = SubSeq(out, 1, f) \o SubSeq(out, f + 1, Len(out))
<1>1. Len(out) \in Nat /\ \A i \in 1 .. Len(out) : out[i] \in M
  BY LenProperties, ElementOfSeq
<1>2. SubSeq(out, f + 1, Len(out)) \in Seq(M)
  <2>1. \A i \in f + 1 .. Len(out) : out[i] \in M
    BY <1>1
  <2>2. QED
    BY <1>1, <2>1, SubSeqProperties
<1>3. SubSeq(out, 1, f) \in Seq(M)
  <2>1. \A i \in 1 .. f : out[i] \in M
    BY <1>1
  <2>2. QED
    BY <2>1, SubSeqProperties
<1>4. SubSeq(out, 1, f) \o SubSeq(out, f + 1, Len(out)) = out
  <2>1. /\ 1 \in 1 .. Len(out) + 1 /\ f \in 1 - 1 .. Len(out)
        /\ Len(out) \in f .. Len(out)
    BY <1>1
  <2>2. SubSeq(out, 1, f) \o SubSeq(out, f + 1, Len(out)) = SubSeq(out, 1, Len(out))
    BY <2>1, ConcatAdjacentSubSeq
  <2>3. QED
    BY <2>2, SubSeqFull
<1>5. QED
  BY <1>2, <1>3, <1>4

-----------------------------------------------------------------------------
(* Output.  As long as the client runs, everything written is in exactly   *)
(* one place on its way to the user; an exit status is sent when nothing   *)
(* is left before it, and nothing that the user should see follows it.     *)

\* All that is on its way from the server's loop to the client's.
ToUser == c.input \o s2c \o s.output

\* Nothing more comes from the program, and nothing is kept for the client.
Drained == \A st \in Streams : s.eof[st] /\ s.buf[st] = 0 /\ Times(s.output, st) = 0

\* The server is past its loop; it has sent the exit status.
LeftLoop == \/ s.pc \in {"ended", "status", "wait", "confirm"}
            \/ s.pc = "flush" /\ s.then \in {"ended", "confirm"}
Reported == s.pc \in {"confirm", "gone"} \/ (s.pc = "flush" /\ s.then = "confirm")
Told == c.exit = "status" \/ (c.pc # "gone" /\ In(ToUser, "exitstatus"))

\* The end of a stream is seen when nothing is in it and nobody can write.
Ended == \A st \in Streams : s.eof[st] => p.out[st] = 0 /\ ~Held(st)
Emptied == LeftLoop => Drained
ToldLast == Told => Drained /\ Reported

\* What the user is to see, and where it is.
Output(st) == p.wrote[st] + Notices(st)
Chain(st) ==
  Output(st) = p.out[st] + s.buf[st] + Times(ToUser, st) + c.buf[st] + u.shown[st]
OnTheWay ==
  c.pc # "gone" =>
    /\ \A st \in Streams : Chain(st)
    /\ NoneAfter(ToUser, "exitstatus", Streams)
    /\ c.exit = "status" => \A st \in Streams : Times(ToUser, st) = 0
    /\ c.exit = "status" => c.pc \in {"flush", "leave"}
AtTheEnd == c.pc = "gone" => OutputBeforeStatus

OutInv == Ended /\ Emptied /\ ToldLast /\ OnTheWay /\ AtTheEnd

\* The types of what OutInv speaks of.
OutTypes ==
  /\ c.input \in Seq(ToClient) /\ s2c \in Seq(ToClient) /\ s.output \in Seq(ToClient)
  /\ c.buf \in [Streams -> Nat] /\ s.buf \in [Streams -> Nat]
  /\ s.eof \in [Streams -> BOOLEAN] /\ s.waiting \in BOOLEAN
  /\ p.out \in [Streams -> Nat] /\ p.wrote \in [Streams -> Nat]
  /\ u.shown \in [Streams -> Nat]

LEMMA OutTyped == IInv => OutTypes
<1> SUFFICES ASSUME IInv PROVE OutTypes
  OBVIOUS
<1>1. Seq(Allowed) \subseteq Seq(ToClient)
  BY AllowedPackets, SeqMonotonic
<1>2. c.input \in Seq(Allowed) /\ s2c \in Seq(Allowed) /\ s.output \in Seq(Allowed)
  BY DEF IInv, Typed, ClientType, ServerType
<1>3. p.out \in [Streams -> 0 .. PipeCap] /\ 0 .. PipeCap \subseteq Nat
  BY SessionAssumption DEF IInv, Typed, ProgramType
<1>4. p.out \in [Streams -> Nat]
  BY <1>3
<1>5. c.buf \in [Streams -> Nat]
  BY DEF IInv, Typed, ClientType
<1>6. s.buf \in [Streams -> Nat] /\ s.eof \in [Streams -> BOOLEAN] /\ s.waiting \in BOOLEAN
  BY DEF IInv, Typed, ServerType
<1>7. p.wrote \in [Streams -> Nat] /\ u.shown \in [Streams -> Nat]
  BY DEF IInv, Typed, ProgramType, UserType
<1>8. QED
  BY <1>1, <1>2, <1>4, <1>5, <1>6, <1>7 DEF OutTypes

LEMMA OutTypedNext == IInv' => OutTypes'
BY OutTyped, PTL

\* What is on its way, as a sequence and counted.
LEMMA ToUserOK ==
  ASSUME OutTypes
  PROVE  /\ ToUser \in Seq(ToClient)
         /\ \A x : /\ Times(ToUser, x) = Times(c.input, x) + Times(s2c, x) + Times(s.output, x)
                   /\ Times(c.input, x) \in Nat /\ Times(s2c, x) \in Nat
                   /\ Times(s.output, x) \in Nat
                   /\ In(ToUser, x) <=> In(c.input, x) \/ In(s2c, x) \/ In(s.output, x)
<1> DEFINE a == c.input
           b == s2c
           d == s.output
<1>1. a \in Seq(ToClient) /\ b \in Seq(ToClient) /\ d \in Seq(ToClient)
  BY DEF OutTypes
<1>2. ToUser = (a \o b) \o d
  BY DEF ToUser
<1> HIDE DEF a, b, d
<1>3. a \o b \in Seq(ToClient)
  BY <1>1, ConcatProperties
<1> DEFINE f == a \o b
<1>4. f \o d \in Seq(ToClient)
  <2> HIDE DEF f
  <2>1. QED
    BY <1>1, <1>3, ConcatProperties DEF f
<1>5. ASSUME NEW x
      PROVE  /\ Times(f \o d, x) = Times(a, x) + Times(b, x) + Times(d, x)
             /\ Times(a, x) \in Nat /\ Times(b, x) \in Nat /\ Times(d, x) \in Nat
             /\ In(f \o d, x) <=> In(a, x) \/ In(b, x) \/ In(d, x)
  <2>1. Times(f, x) = Times(a, x) + Times(b, x) /\ (In(f, x) <=> In(a, x) \/ In(b, x))
    BY <1>1, TimesConcat, InConcat
  <2>2. Times(a, x) \in Nat /\ Times(b, x) \in Nat /\ Times(d, x) \in Nat
    BY <1>1, TimesOK
  <2>3. f \in Seq(ToClient)
    BY <1>3
  <2> HIDE DEF f
  <2>4. Times(f \o d, x) = Times(f, x) + Times(d, x) /\ (In(f \o d, x) <=> In(f, x) \/ In(d, x))
    BY <1>1, <2>3, TimesConcat, InConcat
  <2>5. QED
    BY <2>1, <2>2, <2>4
<1>6. QED
  BY <1>2, <1>4, <1>5 DEF a, b, d

\* Steps that move nothing of the output.
LEMMA OutKept ==
  ASSUME IInv, IInv', OutInv,
         s'.eof = s.eof, s'.buf = s.buf, s'.output = s.output, s'.waiting = s.waiting,
         p'.out = p.out, p'.wrote = p.wrote, p'.open \subseteq p.open,
         u'.session = u.session, u'.shown = u.shown, u'.tty = "ok" => u.tty = "ok",
         c'.input = c.input, s2c' = s2c, c'.buf = c.buf, c'.exit = c.exit,
         c'.pc = "gone" <=> c.pc = "gone",
         c.exit = "status" => c'.pc \in {c.pc, "leave"},
         LeftLoop' => LeftLoop, Reported => Reported'
  PROVE  OutInv'
<1>1. ToUser' = ToUser
  BY DEF ToUser
<1>2. Drained' <=> Drained
  BY DEF Drained
<1>3. Told' <=> Told
  BY <1>1 DEF Told
<1>4. Ended'
  <2>1. \A st \in Streams : Held(st)' => Held(st)
    BY DEF Held, Linked, Kind
  <2>2. QED
    BY <2>1 DEF OutInv, Ended
<1>5. Emptied' /\ ToldLast'
  BY <1>2, <1>3 DEF OutInv, Emptied, ToldLast
<1>6. \A st \in Streams : Output(st)' = Output(st) /\ (Chain(st)' <=> Chain(st))
  BY <1>1 DEF Output, Notices, Chain
<1>7. OnTheWay'
  BY <1>1, <1>6 DEF OutInv, OnTheWay
<1>8. AtTheEnd'
  BY <1>6 DEF OutInv, AtTheEnd, OutputBeforeStatus, Output
<1>9. QED
  BY <1>4, <1>5, <1>7, <1>8 DEF OutInv

\* The client is gone, without a status.
LEMMA OutGone ==
  ASSUME IInv, IInv', OutInv, UNCHANGED <<s, p>>, u'.session = u.session,
         c'.pc = "gone", c'.exit # "status"
  PROVE  OutInv'
<1>1. Ended'
  BY DEF OutInv, Ended, Held, Linked, Kind
<1>2. Emptied'
  BY DEF OutInv, Emptied, LeftLoop, Drained
<1>3. ToldLast' /\ OnTheWay' /\ AtTheEnd'
  BY DEF ToldLast, Told, OnTheWay, AtTheEnd, OutputBeforeStatus
<1>4. QED
  BY <1>1, <1>2, <1>3 DEF OutInv

\* A step of the server before it reports.
LEMMA OutServer ==
  ASSUME IInv, IInv', OutInv, ~Reported, UNCHANGED <<c, u>>, Ended', Emptied',
         c.pc # "gone" =>
           /\ \A st \in Streams : Chain(st)'
           /\ ~In(ToUser, "exitstatus") => ~In(ToUser, "exitstatus")'
  PROVE  OutInv'
<1>1. ~Told /\ c.exit # "status"
  BY DEF OutInv, ToldLast, Told
<1>2. c.pc # "gone" => ~In(ToUser, "exitstatus")'
  BY <1>1 DEF Told
<1>3. ToldLast'
  BY <1>1, <1>2 DEF ToldLast, Told
<1>4. c.pc # "gone" => NoneAfter(ToUser, "exitstatus", Streams)'
  BY <1>2 DEF In, NoneAfter
<1>5. OnTheWay'
  BY <1>1, <1>4 DEF OnTheWay
<1>6. AtTheEnd'
  BY <1>1 DEF AtTheEnd, OutputBeforeStatus
<1>7. QED
  BY <1>3, <1>5, <1>6 DEF OutInv

-----------------------------------------------------------------------------
(* Output: the client's actions.                                           *)

\* The rest of what is on its way, and what follows its head.
LEMMA ToUserTail ==
  ASSUME OutTypes, c.input # << >>, NEW rest, rest = (Tail(c.input) \o s2c) \o s.output
  PROVE  /\ ToUser = <<Head(c.input)>> \o rest
         /\ rest \in Seq(ToClient) /\ Head(c.input) \in ToClient
         /\ <<Head(c.input)>> \in Seq(ToClient)
<1> DEFINE h == <<Head(c.input)>>
           t == Tail(c.input)
           b == s2c
           d == s.output
<1>1. /\ c.input \in Seq(ToClient) /\ b \in Seq(ToClient) /\ d \in Seq(ToClient)
      /\ Head(c.input) \in ToClient
  BY HeadTailProperties DEF OutTypes
<1>2. h \in Seq(ToClient) /\ t \in Seq(ToClient) /\ c.input = h \o t
  BY <1>1, HeadAndTail
<1>3. ToUser = (c.input \o b) \o d /\ rest = (t \o b) \o d
  BY DEF ToUser
<1> HIDE DEF h, t, b, d
<1>4. t \o b \in Seq(ToClient) /\ (h \o t) \o b = h \o (t \o b)
  <2>1. t \o b \in Seq(ToClient)
    BY <1>1, <1>2, ConcatProperties
  <2>2. (h \o t) \o b = h \o (t \o b)
    BY SMTT(20), <1>1, <1>2, ConcatAssociative
  <2>3. QED
    BY <2>1, <2>2
<1> DEFINE f == t \o b
<1>5. f \o d \in Seq(ToClient) /\ (h \o f) \o d = h \o (f \o d)
  <2>1. f \in Seq(ToClient)
    BY <1>4
  <2> HIDE DEF f
  <2>2. QED
    BY <1>1, <1>2, <2>1, ConcatProperties, ConcatAssociative
<1>6. QED
  BY <1>1, <1>2, <1>3, <1>4, <1>5 DEF h

\* After the exit status there is nothing of the streams.
LEMMA NoneAfterHead ==
  ASSUME NEW M, NEW h \in M, NEW rest \in Seq(M), <<h>> \in Seq(M), NEW x, NEW S,
         NoneAfter(<<h>> \o rest, x, S)
  PROVE  /\ NoneAfter(rest, x, S)
         /\ h = x => \A i \in DOMAIN rest : rest[i] \notin S
<1> DEFINE a == <<h>>
           q == a \o rest
           n == Len(rest)
<1>1. Len(a) = 1 /\ a[1] = h
  OBVIOUS
<1>2. a \in Seq(M)
  OBVIOUS
<1> HIDE DEF a
<1>3. /\ n \in Nat /\ DOMAIN rest = 1 .. n /\ DOMAIN q = 1 .. Len(a) + n
      /\ \A i \in 1 .. Len(a) : i \in 1 .. Len(a) + n /\ q[i] = a[i]
      /\ \A i \in 1 .. n : i + Len(a) \in 1 .. Len(a) + n /\ q[i + Len(a)] = rest[i]
  BY <1>2, ConcatElements
<1>4. NoneAfter(q, x, S)
  BY DEF a
<1> HIDE DEF q, n
<1>5. /\ 1 \in DOMAIN q /\ q[1] = h
      /\ \A i \in 1 .. n : i + 1 \in DOMAIN q /\ q[i + 1] = rest[i]
  BY <1>1, <1>3
<1>6. ASSUME NEW i \in 1 .. n, NEW j \in 1 .. n, i < j, rest[i] = x
      PROVE  rest[j] \notin S
  <2>1. i + 1 < j + 1
    BY <1>6
  <2>2. QED
    BY <1>4, <1>5, <1>6, <2>1 DEF NoneAfter
<1>7. ASSUME h = x, NEW i \in 1 .. n
      PROVE  rest[i] \notin S
  <2>1. 1 < i + 1
    BY <1>7
  <2>2. QED
    BY <1>4, <1>5, <1>7, <2>1 DEF NoneAfter
<1>8. QED
  BY <1>3, <1>6, <1>7 DEF NoneAfter

\* Where the client is while it has no status.
LEMMA NoStatusYet ==
  ASSUME OutInv, c.pc \in {"packets", "select"}
  PROVE  c.exit # "status"
BY DEF OutInv, OnTheWay

LEMMA ClientPacketOut ==
  ASSUME IInv, IInv', OutInv, ClientPacket
  PROVE  OutInv'
<1> DEFINE m == Head(c.input)
           rest == [c EXCEPT !.input = Tail(@)]
<1>1. /\ c.pc = "packets" /\ c.input # << >> /\ UNCHANGED <<s, p, u, c2s, s2c>>
      /\ c' = CASE m \in Streams     -> [rest EXCEPT !.buf[m] = @ + 1]
                [] m = "exitstatus"  -> [Send(rest, <<"confirmation">>)
                                           EXCEPT !.exit = "status", !.pc = "flush"]
                [] m = "disconnect"  -> [rest EXCEPT !.exit = "fatal", !.pc = "gone"]
  BY DEF ClientPacket
<1>2. c \in ClientType(Allowed) /\ c.exit # "status" /\ OutTypes
  BY <1>1, NoStatusYet, OutTyped DEF IInv, Typed
<1> DEFINE line == (Tail(c.input) \o s2c) \o s.output
<1>3. /\ ToUser = <<m>> \o line /\ line \in Seq(ToClient) /\ m \in ToClient
      /\ <<m>> \in Seq(ToClient)
  BY <1>1, <1>2, ToUserTail
<1> HIDE DEF m, line
<1>4. c'.input = Tail(c.input) => ToUser' = line
  BY <1>1 DEF ToUser, line
<1>5. \A x : /\ Times(ToUser, x) = Times(line, x) + (IF m = x THEN 1 ELSE 0)
             /\ Times(line, x) \in Nat
             /\ In(line, x) => In(ToUser, x)
  BY <1>3, HeadCounts
<1>6. /\ \A st \in Streams : Chain(st)
      /\ NoneAfter(ToUser, "exitstatus", Streams)
  BY <1>1 DEF OutInv, OnTheWay
<1>7. /\ NoneAfter(line, "exitstatus", Streams)
      /\ m = "exitstatus" => \A st \in Streams : Times(line, st) = 0
  <2>1. /\ NoneAfter(line, "exitstatus", Streams)
        /\ m = "exitstatus" => \A i \in DOMAIN line : line[i] \notin Streams
    BY <1>3, <1>6, NoneAfterHead
  <2>2. ASSUME m = "exitstatus", NEW st \in Streams PROVE Times(line, st) = 0
    <3>1. ~In(line, st)
      BY <2>1, <2>2 DEF In
    <3>2. QED
      BY <1>3, <3>1, TimesOK
  <2>3. QED
    BY <2>1, <2>2
<1>8. Drained' = Drained /\ Reported' = Reported /\ Ended' /\ Emptied'
  BY <1>1 DEF OutInv, Drained, Reported, Ended, Emptied, LeftLoop, Held, Linked, Kind
<1>9. In(ToUser, "exitstatus") => Drained /\ Reported
  BY <1>1 DEF OutInv, ToldLast, Told
<1>10. CASE m \in Streams
  <2>1. c' = [rest EXCEPT !.buf = [c.buf EXCEPT ![m] = @ + 1]]
    <3>1. m # "exitstatus" /\ m # "disconnect"
      BY <1>10 DEF Streams
    <3>2. c' = [rest EXCEPT !.buf[m] = @ + 1]
      BY <1>1, <1>10, <3>1
    <3>3. rest.buf = c.buf
      BY <1>2 DEF ClientType
    <3>4. QED
      BY <3>2, <3>3
  <2>2. /\ c'.pc = "packets" /\ c'.exit = c.exit /\ c'.input = Tail(c.input)
        /\ c'.buf = [c.buf EXCEPT ![m] = @ + 1]
    BY <1>1, <1>2, <2>1 DEF ClientType
  <2>3. ToUser' = line
    BY <1>4, <2>2
  <2>4. ASSUME NEW st \in Streams PROVE Chain(st)'
    <3>1. /\ c.buf[st] \in Nat /\ c'.buf[st] = c.buf[st] + (IF m = st THEN 1 ELSE 0)
          /\ p.out[st] \in Nat /\ s.buf[st] \in Nat /\ u.shown[st] \in Nat
      BY <1>2, <2>2 DEF OutTypes
    <3>2. Times(ToUser, st) = Times(line, st) + (IF m = st THEN 1 ELSE 0)
          /\ Times(line, st) \in Nat
      BY <1>5
    <3>3. Output(st)' = Output(st)
      BY <1>1 DEF Output, Notices
    <3>4. Output(st) = p.out[st] + s.buf[st] + Times(ToUser, st) + c.buf[st] + u.shown[st]
      BY <1>6 DEF Chain
    <3>5. Output(st)' = p.out[st] + s.buf[st] + Times(line, st) + c'.buf[st] + u.shown[st]
      BY <3>1, <3>2, <3>3, <3>4
    <3>6. QED
      BY <1>1, <2>3, <3>5 DEF Chain
  <2>5. OnTheWay'
    BY <1>2, <1>7, <2>2, <2>3, <2>4 DEF OnTheWay
  <2>6. ToldLast'
    BY <1>2, <1>5, <1>8, <1>9, <2>2, <2>3 DEF ToldLast, Told
  <2>7. AtTheEnd'
    BY <2>2 DEF AtTheEnd
  <2>8. QED
    BY <1>8, <2>5, <2>6, <2>7 DEF OutInv
<1>11. CASE m = "exitstatus"
  <2>1. c' = [Send(rest, <<"confirmation">>) EXCEPT !.exit = "status", !.pc = "flush"]
    BY <1>1, <1>11 DEF Streams
  <2>2. /\ c'.pc = "flush" /\ c'.exit = "status" /\ c'.input = Tail(c.input)
        /\ c'.buf = c.buf
    BY <1>2, <2>1 DEF Send, ClientType
  <2>3. ToUser' = line
    BY <1>4, <2>2
  <2>4. ASSUME NEW st \in Streams PROVE Chain(st)'
    <3>1. m # st
      BY <1>11 DEF Streams
    <3>2. Times(ToUser, st) = Times(line, st)
      BY <1>5, <3>1
    <3>3. Output(st)' = Output(st)
      BY <1>1 DEF Output, Notices
    <3>4. QED
      BY <1>1, <1>6, <2>2, <2>3, <3>2, <3>3 DEF Chain
  <2>5. \A st \in Streams : Times(line, st) = 0
    BY <1>7, <1>11
  <2>6. OnTheWay'
    BY <1>7, <2>2, <2>3, <2>4, <2>5 DEF OnTheWay
  <2>7. In(ToUser, "exitstatus")
    <3>1. In(<<m>>, "exitstatus")
      BY <1>11 DEF In
    <3>2. QED
      BY <1>3, <3>1, InConcat
  <2>8. ToldLast'
    BY <1>8, <1>9, <2>7 DEF ToldLast
  <2>9. AtTheEnd'
    BY <2>2 DEF AtTheEnd
  <2>10. QED
    BY <1>8, <2>6, <2>8, <2>9 DEF OutInv
<1>12. CASE m = "disconnect"
  <2>1. c' = [rest EXCEPT !.exit = "fatal", !.pc = "gone"]
    BY <1>1, <1>12 DEF Streams
  <2>2. c'.pc = "gone" /\ c'.exit # "status"
    BY <1>2, <2>1 DEF ClientType
  <2>3. QED
    BY <1>1, <2>2, OutGone
<1>13. QED
  BY <1>3, <1>10, <1>11, <1>12 DEF ToClient

\* What the helpers of select leave of the streams.
SameOutput(x, y) == y.input = x.input /\ y.buf = x.buf

LEMMA ClientReadConnectionOut ==
  ASSUME OutTypes, NEW M, NEW x \in ClientType(M), x.input = c.input
  PROVE  /\ ClientReadConnection(x).input \o << >> = c.input \o s2c
         /\ ClientReadConnection(x).buf = x.buf
<1>1. CASE s2c # << >>
  <2>1. ClientReadConnection(x) = [x EXCEPT !.input = @ \o s2c]
    BY <1>1 DEF ClientReadConnection
  <2>2. ClientReadConnection(x).input = c.input \o s2c /\ ClientReadConnection(x).buf = x.buf
    BY <2>1 DEF ClientType
  <2>3. c.input \o s2c \in Seq(ToClient)
    BY ConcatProperties DEF OutTypes
  <2>4. (c.input \o s2c) \o << >> = c.input \o s2c
    BY <2>3, ConcatEmptySeq
  <2>5. QED
    BY <2>2, <2>4
<1>2. CASE s2c = << >>
  <2>1. ClientReadConnection(x) = [x EXCEPT !.quit = TRUE]
    BY <1>2 DEF ClientReadConnection
  <2>2. ClientReadConnection(x).input = c.input /\ ClientReadConnection(x).buf = x.buf
    BY <2>1 DEF ClientType
  <2>3. QED
    BY <1>2, <2>2
<1>3. QED
  BY <1>1, <1>2

LEMMA ClientReadStdinOut ==
  ASSUME NEW M, NEW x \in ClientType(M)
  PROVE  SameOutput(x, ClientReadStdin(x))
<1> DEFINE y == Send(x, IF x.stdin = 0 THEN <<"eof">> ELSE << >>)
<1>1. SameOutput(x, y) /\ SameOutput(y, [y EXCEPT !.eof = TRUE])
  BY DEF Send, ClientType, SameOutput
<1>2. SameOutput(x, [x EXCEPT !.stdin = @ + (u.typed - u.taken)])
  BY DEF ClientType, SameOutput
<1>3. ClientReadStdin(x) \in {x, [y EXCEPT !.eof = TRUE],
                              [x EXCEPT !.stdin = @ + (u.typed - u.taken)]}
  BY DEF ClientReadStdin
<1> HIDE DEF y
<1>4. QED
  BY <1>1, <1>2, <1>3 DEF SameOutput

LEMMA ClientWriteOutOut ==
  ASSUME NEW M, NEW x \in ClientType(M), NEW ready, NEW left
  PROVE  ClientWriteOut(x, ready, left).input = x.input
BY DEF ClientWriteOut, ClientType

LEMMA ClientSelectOut ==
  ASSUME IInv, IInv', OutInv, ClientSelect
  PROVE  OutInv'
<1>1. PICK accepts \in BOOLEAN, left \in Leftovers :
        LET ready == ClientReady(accepts)
            c1 == IF "connection in" \in ready THEN ClientReadConnection(c) ELSE c
            c2 == IF "stdin" \in ready THEN ClientReadStdin(c1) ELSE c1
            c3 == ClientWriteOut(c2, ready, left)
            writes == "connection out" \in ready
            c4 == IF writes THEN Written(c3, c2s) ELSE c3
            lost == writes /\ s.pc = "gone"
        IN  /\ c.pc = "select" /\ ready # {}
            /\ c' = [c4 EXCEPT !.pc = IF lost THEN "gone" ELSE IF c4.quit THEN "leave"
                                          ELSE "packets",
                                   !.exit = IF lost THEN "fatal" ELSE @]
            /\ c2s' = IF writes THEN Delivered(c3, c2s) ELSE c2s
            /\ s2c' = IF "connection in" \in ready THEN << >> ELSE s2c
            /\ u' = [u EXCEPT !.taken = IF "stdin" \in ready /\ ~c1.quit THEN u.typed ELSE @,
                              !.shown = [st \in Streams |-> @[st] + (c.buf[st] - c4.buf[st])]]
            /\ UNCHANGED <<s, p>>
  BY DEF ClientSelect
<1> DEFINE ready == ClientReady(accepts)
           c1 == IF "connection in" \in ready THEN ClientReadConnection(c) ELSE c
           c2 == IF "stdin" \in ready THEN ClientReadStdin(c1) ELSE c1
           c3 == ClientWriteOut(c2, ready, left)
           writes == "connection out" \in ready
           c4 == IF writes THEN Written(c3, c2s) ELSE c3
           lost == writes /\ s.pc = "gone"
<1>2. /\ c \in ClientType(Allowed) /\ u \in UserType /\ OutTypes
      /\ c2s \in Seq(ToServer) /\ Len(c2s) =< NetCap /\ s2c \in Seq(Allowed)
  BY OutTyped DEF IInv, Typed
<1>3. c1 \in ClientType(Allowed) /\ SameOutcome(c, c1)
  <2>1. ClientReadConnection(c) \in ClientType(Allowed)
        /\ SameOutcome(c, ClientReadConnection(c))
    BY <1>2, ClientReadConnectionOK
  <2>2. QED
    BY <1>2, <2>1 DEF SameOutcome
<1>4. c1.input \o (IF "connection in" \in ready THEN << >> ELSE s2c) = c.input \o s2c
  BY <1>2, ClientReadConnectionOut
<1>5. c2 \in ClientType(Allowed) /\ SameOutcome(c1, c2) /\ SameOutput(c1, c2)
  <2> HIDE DEF c1
  <2>1. /\ ClientReadStdin(c1) \in ClientType(Allowed) /\ SameOutcome(c1, ClientReadStdin(c1))
        /\ SameOutput(c1, ClientReadStdin(c1))
    BY <1>2, <1>3, ClientReadStdinOK, ClientReadStdinOut
  <2>2. QED
    BY <1>3, <2>1 DEF SameOutcome, SameOutput
<1>6. /\ c3 \in ClientType(Allowed) /\ c3.exit = c.exit /\ c3.input = c1.input
      /\ \A st \in Streams : c3.buf[st] \in 0 .. c.buf[st]
  <2> HIDE DEF c2
  <2>1. left \in [Streams -> Nat] /\ \A st \in Streams : left[st] =< c.buf[st]
    BY <1>2, LeftoversOK DEF ClientType
  <2>2. c2.buf = c.buf /\ c2.exit = c.exit /\ c2.input = c1.input
    BY <1>3, <1>5 DEF SameOutcome, SameOutput
  <2>3. /\ c3 \in ClientType(Allowed) /\ c3.exit = c2.exit
        /\ \A st \in Streams : left[st] =< c2.buf[st] => c3.buf[st] \in 0 .. c2.buf[st]
    BY <1>5, <2>1, ClientWriteOutOK
  <2>4. c3.input = c2.input
    BY <1>5, ClientWriteOutOut
  <2>5. QED
    BY <2>1, <2>2, <2>3, <2>4
<1> HIDE DEF c3
<1>7. /\ Written(c3, c2s) \in ClientType(Allowed) /\ SameOutcome(c3, Written(c3, c2s))
  BY <1>2, <1>6, ClientWrittenOK
<1>8. Written(c3, c2s).input = c3.input
  BY <1>6 DEF Written, ClientType
<1>9. /\ c4 \in ClientType(Allowed) /\ c4.input = c1.input
      /\ \A st \in Streams : c4.buf[st] \in 0 .. c.buf[st]
  BY <1>6, <1>7, <1>8 DEF SameOutcome
<1> DEFINE b  == c4.buf
           in == IF "connection in" \in ready THEN << >> ELSE s2c
<1>10. /\ c.pc = "select"
       /\ c' = [c4 EXCEPT !.pc = IF lost THEN "gone" ELSE IF c4.quit THEN "leave"
                                    ELSE "packets",
                          !.exit = IF lost THEN "fatal" ELSE c4.exit]
       /\ s2c' = in
       /\ u'.shown = [st \in Streams |-> u.shown[st] + (c.buf[st] - b[st])]
       /\ u'.session = u.session
       /\ UNCHANGED <<s, p>>
  BY <1>1, <1>2 DEF c3, UserType
<1>11. c4.exit = c.exit
  BY <1>6, <1>7 DEF SameOutcome
<1>12. c1.input \o in = c.input \o s2c
  BY <1>4
<1> HIDE DEF c4, c1, lost, in, ready
<1>13. CASE lost
  <2>1. c'.pc = "gone" /\ c'.exit = "fatal"
    BY <1>9, <1>10, <1>13 DEF ClientType
  <2>2. QED
    BY <1>10, <2>1, OutGone
<1>14. CASE ~lost
  <2>1. c.exit # "status"
    BY <1>10, NoStatusYet
  <2>2. /\ c'.pc \in {"leave", "packets"} /\ c'.exit = c.exit /\ c'.input = c1.input
        /\ c'.buf = b
    BY <1>9, <1>10, <1>11, <1>14 DEF ClientType
  <2>3. ToUser' = ToUser
    BY <1>10, <1>12, <2>2 DEF ToUser
  <2>4. ASSUME NEW st \in Streams PROVE Chain(st)'
    <3>1. /\ c.buf[st] \in Nat /\ b[st] \in 0 .. c.buf[st] /\ u.shown[st] \in Nat
          /\ p.out[st] \in Nat /\ s.buf[st] \in Nat /\ Times(ToUser, st) \in Nat
      BY <1>2, <1>9, ToUserOK, TimesOK DEF OutTypes
    <3>2. u'.shown[st] = u.shown[st] + (c.buf[st] - b[st])
      BY <1>10
    <3>3. Output(st)' = Output(st)
      BY <1>10 DEF Output, Notices
    <3>4. Output(st) = p.out[st] + s.buf[st] + Times(ToUser, st) + c.buf[st] + u.shown[st]
      BY <1>10 DEF OutInv, OnTheWay, Chain
    <3> HIDE DEF b
    <3>5. Output(st)' = p.out[st] + s.buf[st] + Times(ToUser, st) + b[st] + u'.shown[st]
      BY <3>1, <3>2, <3>3, <3>4
    <3>6. QED
      BY <1>10, <2>2, <2>3, <3>5 DEF Chain
  <2>5. OnTheWay'
    BY <1>10, <2>1, <2>2, <2>3, <2>4 DEF OnTheWay, OutInv
  <2>6. Ended' /\ Emptied' /\ Drained' = Drained /\ Reported' = Reported
    BY <1>10 DEF OutInv, Drained, Reported, Ended, Emptied, LeftLoop, Held, Linked, Kind
  <2>7. ToldLast'
    BY <1>10, <2>1, <2>2, <2>3, <2>6 DEF ToldLast, Told, OutInv
  <2>8. AtTheEnd'
    BY <2>2 DEF AtTheEnd
  <2>9. QED
    BY <2>5, <2>6, <2>7, <2>8 DEF OutInv
<1>15. QED
  BY <1>13, <1>14

LEMMA ClientFlushOut ==
  ASSUME IInv, IInv', OutInv, ClientFlush
  PROVE  OutInv'
<1>1. c \in ClientType(Allowed) /\ c2s \in Seq(ToServer) /\ Len(c2s) =< NetCap
  BY DEF IInv, Typed
<1>2. UNCHANGED <<s, p, u, s2c>> /\ c.pc = "flush"
  BY DEF ClientFlush
<1>3. c' \in {Written(c, c2s), [c EXCEPT !.pc = "leave", !.quit = TRUE],
              [c EXCEPT !.pc = "gone", !.exit = "fatal"]}
  BY DEF ClientFlush
<1>4. CASE c' = [c EXCEPT !.pc = "gone", !.exit = "fatal"]
  <2>1. c'.pc = "gone" /\ c'.exit = "fatal"
    BY <1>1, <1>4 DEF ClientType
  <2>2. QED
    BY <1>2, <2>1, OutGone
<1>5. CASE c' \in {Written(c, c2s), [c EXCEPT !.pc = "leave", !.quit = TRUE]}
  <2>1. /\ c'.pc \in {"flush", "leave"} /\ c'.exit = c.exit /\ c'.input = c.input
        /\ c'.buf = c.buf
    BY <1>1, <1>2, <1>5 DEF Written, ClientType
  <2>2. (LeftLoop' <=> LeftLoop) /\ (Reported' <=> Reported)
    BY <1>2 DEF LeftLoop, Reported
  <2>3. QED
    BY <1>2, <2>1, <2>2, OutKept
<1>6. QED
  BY <1>3, <1>4, <1>5

LEMMA ClientLeaveOut ==
  ASSUME IInv, IInv', OutInv, ClientLeave
  PROVE  OutInv'
<1> DEFINE b == IF u.tty = "gone" THEN c.buf ELSE [st \in Streams |-> 0]
<1>1. /\ UNCHANGED <<s, p, c2s, s2c>> /\ c.pc = "leave"
      /\ c' = [c EXCEPT !.pc = "gone", !.buf = b]
      /\ u' = [u EXCEPT !.shown = [st \in Streams |-> @[st] + (c.buf[st] - c'.buf[st])]]
  BY DEF ClientLeave
<1>2. c \in ClientType(Allowed) /\ u \in UserType /\ OutTypes
  BY OutTyped DEF IInv, Typed
<1>3. c'.pc = "gone" /\ c'.exit = c.exit /\ c'.buf = b
  BY <1>1, <1>2 DEF ClientType
<1>4. /\ u'.session = u.session /\ u'.tty = u.tty
      /\ u'.shown = [st \in Streams |-> u.shown[st] + (c.buf[st] - b[st])]
  BY <1>1, <1>2, <1>3 DEF UserType
<1>5. CASE c.exit # "status"
  BY <1>1, <1>3, <1>4, <1>5, OutGone
<1>6. CASE c.exit = "status"
  <2>1. Drained /\ Reported
    BY <1>6 DEF OutInv, ToldLast, Told
  <2>2. Ended' /\ Emptied' /\ Drained' /\ Reported'
    BY <1>1, <1>4, <2>1 DEF OutInv, Drained, Reported, Ended, Emptied, LeftLoop, Held, Linked,
                            Kind
  <2>3. ASSUME NEW st \in Streams, u.tty = "ok"
        PROVE  u'.shown[st] = Output(st)
    <3>1. /\ p.out[st] = 0 /\ s.buf[st] = 0 /\ Times(ToUser, st) = 0
      BY <1>1, <1>6, <2>1 DEF OutInv, Drained, Ended, OnTheWay
    <3>2. Output(st) = p.out[st] + s.buf[st] + Times(ToUser, st) + c.buf[st] + u.shown[st]
      BY <1>1 DEF OutInv, OnTheWay, Chain
    <3>3. c.buf[st] \in Nat /\ u.shown[st] \in Nat /\ b[st] = 0
      BY <1>2, <2>3 DEF OutTypes
    <3>4. u'.shown[st] = u.shown[st] + (c.buf[st] - b[st])
      BY <1>4
    <3> HIDE DEF b
    <3>5. QED
      BY <3>1, <3>2, <3>3, <3>4
  <2>4. OutputBeforeStatus'
    BY <1>1, <1>4, <2>3 DEF OutputBeforeStatus, Output, Notices
  <2>5. ToldLast' /\ OnTheWay' /\ AtTheEnd'
    BY <1>3, <2>2, <2>4 DEF ToldLast, OnTheWay, AtTheEnd
  <2>6. QED
    BY <2>2, <2>5 DEF OutInv
<1>7. QED
  BY <1>5, <1>6

LEMMA ClientKilledOut ==
  ASSUME IInv, IInv', OutInv, ClientKilled
  PROVE  OutInv'
<1>1. c \in ClientType(Allowed)
  BY DEF IInv, Typed
<1>2. UNCHANGED <<s, p, u, c2s, s2c>> /\ c' = [c EXCEPT !.pc = "gone", !.exit = "killed"]
  BY DEF ClientKilled
<1>3. c'.pc = "gone" /\ c'.exit = "killed"
  BY <1>1, <1>2 DEF ClientType
<1>4. QED
  BY <1>2, <1>3, OutGone

-----------------------------------------------------------------------------
(* Output: the server's actions.                                           *)

\* y has made some of what x has buffered into packets.
Making(x, y) ==
  /\ y.eof = x.eof /\ y.waiting = x.waiting
  /\ \E q \in Seq(ToClient) :
       /\ y.output = x.output \o q /\ ~In(q, "exitstatus")
       /\ \A st \in Streams : y.buf[st] + Times(q, st) = x.buf[st]

LEMMA MakingTwice ==
  ASSUME NEW x \in ServerType(ToClient), NEW y \in ServerType(ToClient),
         NEW z \in ServerType(ToClient), Making(x, y), Making(y, z)
  PROVE  Making(x, z)
<1>1. PICK q \in Seq(ToClient) :
        /\ y.output = x.output \o q /\ ~In(q, "exitstatus")
        /\ \A st \in Streams : y.buf[st] + Times(q, st) = x.buf[st]
  BY DEF Making
<1>2. PICK r \in Seq(ToClient) :
        /\ z.output = y.output \o r /\ ~In(r, "exitstatus")
        /\ \A st \in Streams : z.buf[st] + Times(r, st) = y.buf[st]
  BY DEF Making
<1>3. x.output \in Seq(ToClient)
  BY DEF ServerType
<1>4. z.output = x.output \o (q \o r)
  <2> DEFINE o == x.output
  <2>1. o \in Seq(ToClient) /\ q \in Seq(ToClient) /\ r \in Seq(ToClient)
    BY <1>1, <1>2, <1>3
  <2> HIDE DEF o
  <2>2. (o \o q) \o r = o \o (q \o r)
    BY <2>1, ConcatAssociative
  <2>3. QED
    BY <1>1, <1>2, <2>2 DEF o
<1>5. q \o r \in Seq(ToClient) /\ ~In(q \o r, "exitstatus")
  BY <1>1, <1>2, ConcatProperties, InConcat
<1>6. ASSUME NEW st \in Streams
      PROVE  z.buf[st] + Times(q \o r, st) = x.buf[st]
  <2>1. /\ Times(q \o r, st) = Times(q, st) + Times(r, st)
        /\ Times(q, st) \in Nat /\ Times(r, st) \in Nat
    <3>1. q \in Seq(ToClient) /\ r \in Seq(ToClient)
      BY <1>1, <1>2
    <3>2. Times(q \o r, st) = Times(q, st) + Times(r, st)
      BY <3>1, TimesConcat
    <3>3. Times(q, st) \in Nat /\ Times(r, st) \in Nat
      BY <3>1, TimesOK
    <3>4. QED
      BY <3>2, <3>3
  <2>2. x.buf[st] \in Nat /\ y.buf[st] \in Nat /\ z.buf[st] \in Nat
    BY DEF ServerType
  <2>3. y.buf[st] + Times(q, st) = x.buf[st] /\ z.buf[st] + Times(r, st) = y.buf[st]
    BY <1>1, <1>2
  <2>4. QED
    BY <2>1, <2>2, <2>3
<1>7. QED
  BY <1>4, <1>5, <1>6 DEF Making

LEMMA MakingNothing ==
  ASSUME NEW x \in ServerType(ToClient), NEW y, y.eof = x.eof, y.waiting = x.waiting,
         y.output = x.output, y.buf = x.buf
  PROVE  Making(x, y)
<1>1. x.output \o << >> = x.output /\ << >> \in Seq(ToClient)
  <2> DEFINE o == x.output
  <2>1. o \in Seq(ToClient)
    BY DEF ServerType
  <2> HIDE DEF o
  <2>2. o \o << >> = o /\ << >> \in Seq(ToClient)
    BY <2>1, ConcatEmptySeq, EmptySeq
  <2>3. QED
    BY <2>2 DEF o
<1>2. \A z : ~In(<< >>, z)
  BY DEF In
<1>3. \A st \in Streams : Times(<< >>, st) = 0
  <2> DEFINE q == << >>
  <2>1. q \in Seq(ToClient) /\ \A z : ~In(q, z)
    BY <1>1, <1>2
  <2> HIDE DEF q
  <2>2. \A st \in Streams : Times(q, st) = 0
    BY <2>1, TimesOK
  <2>3. QED
    BY <2>2 DEF q
<1>4. \A st \in Streams : x.buf[st] \in Nat
  BY DEF ServerType
<1>5. \A st \in Streams : y.buf[st] + Times(<< >>, st) = x.buf[st]
  BY <1>3, <1>4
<1>6. y.output = x.output \o << >> /\ << >> \in Seq(ToClient) /\ ~In(<< >>, "exitstatus")
  BY <1>1, <1>2
<1>7. QED
  BY <1>5, <1>6 DEF Making

LEMMA MakePacketsMakes ==
  ASSUME NEW x \in ServerType(ToClient), NEW st \in Streams
  PROVE  Making(x, MakePackets(x, st))
<1> DEFINE k == Sendable(x, x.buf[st])
           q == Copies(st, k)
           y == Send(x, q)
<1>1. x.output \in Seq(ToClient) /\ x.buf \in [Streams -> Nat]
  BY DEF ServerType
<1>2. k \in Nat /\ k =< x.buf[st] /\ x.buf[st] \in Nat
  BY <1>1, SendableOK
<1>3. st \in ToClient /\ st # "exitstatus"
  BY DEF ToClient, Streams
<1>4. q \in Seq(ToClient) /\ ~In(q, "exitstatus")
  <2>1. q \in Seq(ToClient)
    BY <1>2, <1>3, CopiesOK
  <2>2. Times(q, "exitstatus") = 0
    BY <1>2, <1>3, TimesCopies
  <2> HIDE DEF q
  <2>3. QED
    BY <2>1, <2>2, TimesOK
<1>5. \A a \in Streams : Times(q, a) = IF st = a THEN k ELSE 0
  BY <1>2, TimesCopies
<1>6. MakePackets(x, st) = [y EXCEPT !.buf[st] = @ - k]
  BY DEF MakePackets
<1> HIDE DEF k, q
<1>7. /\ y.buf = x.buf /\ y.eof = x.eof /\ y.waiting = x.waiting
      /\ y.output = x.output \o q /\ y \in [DOMAIN x -> {y[f] : f \in DOMAIN x}]
  BY DEF Send, ServerType
<1>8. LET z == MakePackets(x, st)
      IN  /\ z.eof = x.eof /\ z.waiting = x.waiting /\ z.output = x.output \o q
          /\ z.buf = [x.buf EXCEPT ![st] = @ - k]
  BY <1>6, <1>7 DEF Send, ServerType
<1>9. ASSUME NEW a \in Streams
      PROVE  [x.buf EXCEPT ![st] = @ - k][a] + Times(q, a) = x.buf[a]
  <2>1. x.buf[a] \in Nat
    BY <1>1
  <2>2. CASE st = a
    BY <1>1, <1>2, <1>5, <2>2
  <2>3. CASE st # a
    BY <1>1, <1>5, <2>1, <2>3
  <2>4. QED
    BY <2>2, <2>3
<1>10. QED
  BY <1>4, <1>8, <1>9 DEF Making

LEMMA MakeStdoutPacketsMakes ==
  ASSUME NEW x \in ServerType(ToClient)
  PROVE  Making(x, MakeStdoutPackets(x))
<1>1. CASE HoldsBack(x)
  <2> DEFINE y == MakeStdoutPackets(x)
  <2>1. y = [x EXCEPT !.timeout = "17ms", !.previous = x.buf["stdout"]]
    BY <1>1 DEF MakeStdoutPackets
  <2>2. /\ y.eof = x.eof /\ y.waiting = x.waiting
        /\ y.output = x.output /\ y.buf = x.buf
    BY <2>1 DEF ServerType
  <2> HIDE DEF y
  <2>3. Making(x, y)
    BY <2>2, MakingNothing
  <2>4. QED
    BY <2>3 DEF y
<1>2. CASE ~HoldsBack(x)
  <2> DEFINE y == MakePackets(x, "stdout")
             z == MakeStdoutPackets(x)
  <2>1. Making(x, y) /\ y \in ServerType(ToClient)
    BY MakePacketsMakes, MakePacketsOK DEF Streams, Says, ToClient
  <2>2. z = [y EXCEPT !.timeout = "none", !.previous = y.buf["stdout"]]
    BY <1>2 DEF MakeStdoutPackets
  <2> HIDE DEF y
  <2>3. z.eof = y.eof /\ z.waiting = y.waiting /\ z.output = y.output /\ z.buf = y.buf
    BY <2>1, <2>2 DEF ServerType
  <2> HIDE DEF z
  <2>4. Making(x, z)
    BY <2>1, <2>3 DEF Making
  <2>5. QED
    BY <2>4 DEF z
<1>3. QED
  BY <1>1, <1>2

LEMMA CloseStdinMakes ==
  ASSUME NEW x \in ServerType(ToClient)
  PROVE  Making(x, CloseStdin(x))
<1> DEFINE y == CloseStdin(x)
<1>1. y.eof = x.eof /\ y.waiting = x.waiting /\ y.output = x.output /\ y.buf = x.buf
  BY DEF CloseStdin, ServerType
<1> HIDE DEF y
<1>2. Making(x, y)
  BY <1>1, MakingNothing
<1>3. QED
  BY <1>2 DEF y

\* All of it.
LEMMA AllMakes ==
  ASSUME NEW x \in ServerType(ToClient)
  PROVE  LET y == MakeStdoutPackets(MakePackets(CloseStdin(x), "stderr"))
         IN  Making(x, y) /\ y \in ServerType(ToClient)
<1> DEFINE a == CloseStdin(x)
           b == MakePackets(a, "stderr")
           y == MakeStdoutPackets(b)
<1>1. Says(ToClient) /\ "stderr" \in Streams
  BY DEF Says, ToClient, Streams
<1>2. a \in ServerType(ToClient) /\ Making(x, a)
  BY CloseStdinOK, CloseStdinMakes
<1> HIDE DEF a
<1>3. b \in ServerType(ToClient) /\ Making(a, b)
  BY <1>1, <1>2, MakePacketsOK, MakePacketsMakes
<1> HIDE DEF b
<1>4. y \in ServerType(ToClient) /\ Making(b, y)
  BY <1>1, <1>3, MakeStdoutPacketsOK, MakeStdoutPacketsMakes
<1> HIDE DEF y
<1>5. Making(x, y)
  BY <1>2, <1>3, <1>4, MakingTwice
<1>6. QED
  BY <1>4, <1>5 DEF y, b, a

\* Packets are added at the end of what is on its way, ...
LEMMA ToUserAppend ==
  ASSUME OutTypes, NEW q \in Seq(ToClient),
         c'.input = c.input, s2c' = s2c, s'.output = s.output \o q
  PROVE  /\ ToUser' = ToUser \o q
         /\ \A x : /\ Times(ToUser, x)' = Times(ToUser, x) + Times(q, x)
                   /\ Times(ToUser, x) \in Nat /\ Times(q, x) \in Nat
                   /\ In(ToUser, x)' <=> In(ToUser, x) \/ In(q, x)
<1> DEFINE a == c.input \o s2c
           o == s.output
           l == ToUser
<1>1. a \in Seq(ToClient) /\ o \in Seq(ToClient)
  BY ConcatProperties DEF OutTypes
<1>2. ToUser = a \o o /\ ToUser' = a \o (o \o q)
  BY DEF ToUser
<1> HIDE DEF a, o
<1>3. (a \o o) \o q = a \o (o \o q)
  BY <1>1, ConcatAssociative
<1>4. l \in Seq(ToClient)
  BY ToUserOK
<1>5. ToUser' = l \o q
  BY <1>2, <1>3
<1> HIDE DEF l
<1>6. ASSUME NEW x
      PROVE  /\ Times(l \o q, x) = Times(l, x) + Times(q, x)
             /\ Times(l, x) \in Nat /\ Times(q, x) \in Nat
             /\ In(l \o q, x) <=> In(l, x) \/ In(q, x)
  <2>1. Times(l \o q, x) = Times(l, x) + Times(q, x)
    BY <1>4, TimesConcat
  <2>2. Times(l, x) \in Nat /\ Times(q, x) \in Nat
    BY <1>4, TimesOK
  <2>3. In(l \o q, x) <=> In(l, x) \/ In(q, x)
    BY <1>4, InConcat
  <2>4. QED
    BY <2>1, <2>2, <2>3
<1>7. \A x : Times(ToUser, x)' = Times(ToUser', x) /\ (In(ToUser, x)' <=> In(ToUser', x))
  BY DEF Times, In
<1>8. QED
  BY <1>5, <1>6, <1>7 DEF l

\* ... and stay where they are in it when they are written.
LEMMA ToUserMoves ==
  ASSUME OutTypes, Len(s2c) =< NetCap, NEW x, x.output = s.output,
         c'.input = c.input, s2c' = Delivered(x, s2c), s'.output = Written(x, s2c).output,
         "output" \in DOMAIN x
  PROVE  /\ ToUser' = ToUser
         /\ \A y : Times(s.output, y) = 0 => Times(s'.output, y) = 0
<1> DEFINE i == c.input
           b == s2c
           sent == SubSeq(x.output, 1, Fitting(x, b))
           left == SubSeq(x.output, Fitting(x, b) + 1, Len(x.output))
<1>1. i \in Seq(ToClient) /\ b \in Seq(ToClient) /\ x.output \in Seq(ToClient)
  BY DEF OutTypes
<1>2. /\ sent \in Seq(ToClient) /\ left \in Seq(ToClient) /\ x.output = sent \o left
      /\ Delivered(x, b) = b \o sent
  <2> DEFINE o == x.output
             f == Fitting(x, b)
  <2>1. o \in Seq(ToClient) /\ NetCap \in Nat /\ Len(o) \in Nat /\ Len(b) \in Nat
        /\ Len(b) =< NetCap
    BY <1>1, SessionAssumption, LenProperties
  <2>2. f \in Nat /\ f =< Len(o)
    BY <2>1 DEF Fitting, Least
  <2>3. Delivered(x, b) = b \o SubSeq(o, 1, f)
    BY DEF Delivered
  <2> HIDE DEF o, f
  <2>4. /\ SubSeq(o, 1, f) \in Seq(ToClient) /\ SubSeq(o, f + 1, Len(o)) \in Seq(ToClient)
        /\ o = SubSeq(o, 1, f) \o SubSeq(o, f + 1, Len(o))
    BY <2>1, <2>2, SplitAt
  <2>5. QED
    BY <2>3, <2>4 DEF o, f
<1>3. s'.output = left
  BY DEF Written
<1> HIDE DEF i, b, sent, left
<1>4. ToUser = (i \o b) \o (sent \o left) /\ ToUser' = (i \o (b \o sent)) \o left
  BY <1>2, <1>3 DEF ToUser, i, b
<1>5. i \o b \in Seq(ToClient) /\ (i \o b) \o sent = i \o (b \o sent)
  <2>1. i \o b \in Seq(ToClient)
    BY <1>1, ConcatProperties
  <2>2. (i \o b) \o sent = i \o (b \o sent)
    BY <1>1, <1>2, ConcatAssociative
  <2>3. QED
    BY <2>1, <2>2
<1> DEFINE f == i \o b
<1>6. (f \o sent) \o left = f \o (sent \o left)
  <2>1. f \in Seq(ToClient) /\ sent \in Seq(ToClient) /\ left \in Seq(ToClient)
    BY <1>2, <1>5
  <2> HIDE DEF f
  <2>2. QED
    BY <2>1, ConcatAssociative
<1>7. ASSUME NEW y, Times(s.output, y) = 0 PROVE Times(left, y) = 0
  <2>1. Times(sent \o left, y) = Times(sent, y) + Times(left, y)
    BY <1>2, TimesConcat
  <2>2. Times(sent, y) \in Nat /\ Times(left, y) \in Nat
    BY <1>2, TimesOK
  <2>3. QED
    BY <1>2, <1>7, <2>1, <2>2
<1>8. QED
  BY <1>3, <1>4, <1>5, <1>6, <1>7

\* An empty output holds nothing.
LEMMA NothingThere == \A x : Times(<< >>, x) = 0
<1> DEFINE q == << >>
<1>1. q \in Seq(ToClient) /\ \A x : ~In(q, x)
  BY EmptySeq DEF In
<1> HIDE DEF q
<1>2. \A x : Times(q, x) = 0
  BY <1>1, TimesOK
<1>3. QED
  BY <1>2 DEF q

\* packet_disconnect: whatever else was to be sent, there will be no status.
LEMMA DisconnectOut ==
  ASSUME IInv, IInv', OutInv, ~Reported, UNCHANGED <<c, u, s2c>>,
         p'.out = p.out, p'.wrote = p.wrote, p'.open = p.open,
         s'.eof = s.eof, s'.buf = s.buf, s'.waiting = s.waiting,
         s'.output = s.output \o <<"disconnect">>, s'.pc = "flush", s'.then = "gone"
  PROVE  OutInv'
<1> DEFINE q == <<"disconnect">>
<1>1. OutTypes
  BY OutTyped
<1>2. <<"disconnect">> \in Seq(ToClient) /\ ~In(<<"disconnect">>, "exitstatus")
  BY DEF ToClient, In
<1>3. \A st \in Streams : Times(<<"disconnect">>, st) = 0
  BY TimesOne DEF Streams
<1>4. q \in Seq(ToClient) /\ ~In(q, "exitstatus") /\ (\A st \in Streams : Times(q, st) = 0)
      /\ s'.output = s.output \o q
  BY <1>2, <1>3
<1> HIDE DEF q
<1>5. \A x : /\ Times(ToUser, x)' = Times(ToUser, x) + Times(q, x)
             /\ Times(ToUser, x) \in Nat /\ Times(q, x) \in Nat
             /\ In(ToUser, x)' <=> In(ToUser, x) \/ In(q, x)
  BY <1>1, <1>4, ToUserAppend
<1>6. Ended' /\ Emptied'
  BY DEF OutInv, Ended, Held, Linked, Kind, Emptied, LeftLoop
<1>7. ASSUME c.pc # "gone", NEW st \in Streams PROVE Chain(st)'
  <2>1. Times(ToUser, st)' = Times(ToUser, st)
    BY <1>4, <1>5
  <2>2. Output(st)' = Output(st)
    BY DEF Output, Notices
  <2>3. QED
    BY <1>7, <2>1, <2>2 DEF OutInv, OnTheWay, Chain
<1>8. QED
  BY <1>4, <1>5, <1>6, <1>7, OutServer

LEMMA ServerPacketOut ==
  ASSUME IInv, IInv', OutInv, ServerPacket
  PROVE  OutInv'
<1> DEFINE m == Head(s.input)
           rest == [s EXCEPT !.input = Tail(@)]
<1>1. /\ s.pc = "packets" /\ UNCHANGED <<c, p, u, c2s, s2c>>
      /\ s' = CASE m = "stdin" -> [rest EXCEPT !.stdin = IF s.fdin THEN @ + 1 ELSE @]
                [] m = "eof"   -> [rest EXCEPT !.stdin_eof = TRUE]
                [] m = "close" -> [rest EXCEPT !.forward = FALSE]
                [] OTHER -> [Send(rest, <<"disconnect">>)
                               EXCEPT !.pc = "flush", !.then = "gone", !.cause = "protocol error"]
  BY DEF ServerPacket
<1>2. s \in ServerType(Allowed) /\ OutTypes
  BY OutTyped DEF IInv, Typed
<1>3. ~LeftLoop /\ ~Reported
  BY <1>1 DEF LeftLoop, Reported
<1> HIDE DEF m
<1>4. CASE m \in {"stdin", "eof", "close"}
  <2>1. /\ s'.eof = s.eof /\ s'.buf = s.buf /\ s'.output = s.output /\ s'.waiting = s.waiting
        /\ s'.pc = "packets"
    BY <1>1, <1>2, <1>4 DEF ServerType
  <2>2. ~LeftLoop'
    BY <2>1 DEF LeftLoop
  <2>3. QED
    BY <1>1, <1>3, <2>1, <2>2, OutKept
<1>5. CASE m \notin {"stdin", "eof", "close"}
  <2>1. s' = [Send(rest, <<"disconnect">>)
                EXCEPT !.pc = "flush", !.then = "gone", !.cause = "protocol error"]
    BY <1>1, <1>5
  <2>2. /\ s'.eof = s.eof /\ s'.buf = s.buf /\ s'.waiting = s.waiting
        /\ s'.pc = "flush" /\ s'.then = "gone" /\ s'.output = s.output \o <<"disconnect">>
    BY <1>2, <2>1 DEF Send, ServerType
  <2>3. QED
    BY <1>1, <1>3, <2>2, DisconnectOut
<1>6. QED
  BY <1>4, <1>5

\* A server that can send only some packets can send any.
LEMMA ServerMaySendMore ==
  ASSUME NEW x \in ServerType(Allowed)
  PROVE  x \in ServerType(ToClient)
<1>1. Seq(Allowed) \subseteq Seq(ToClient)
  BY AllowedPackets, SeqMonotonic
<1>2. QED
  BY <1>1 DEF ServerType

\* The notice is one more item for the user.
LEMMA NoticeOut ==
  ASSUME NEW M, NEW x \in ServerType(M)
  PROVE  LET y == Notice(x)
             note(z, st) == IF st = "stderr" /\ z.waiting THEN 1 ELSE 0
         IN  /\ y.eof = x.eof /\ y.output = x.output
             /\ \A st \in Streams : y.buf[st] + note(x, st) = x.buf[st] + note(y, st)
<1> DEFINE b == [x.buf EXCEPT !["stderr"] = @ + 1]
           y == Notice(x)
           z == [x EXCEPT !.waiting = TRUE, !.buf = b]
<1>1. x.buf \in [Streams -> Nat] /\ "stderr" \in Streams /\ x.waiting \in BOOLEAN
  BY DEF ServerType, Streams
<1>2. y = x \/ (~x.waiting /\ y = z)
  BY DEF Notice, ServerType
<1>3. \A st \in Streams : b[st] = x.buf[st] + (IF st = "stderr" THEN 1 ELSE 0)
  BY <1>1
<1> HIDE DEF b, y
<1>4. y = x \/ (~x.waiting /\ y.waiting /\ y.eof = x.eof /\ y.output = x.output /\ y.buf = b)
  BY <1>2 DEF ServerType
<1>5. QED
  BY <1>1, <1>3, <1>4 DEF y

LEMMA ServerMakePacketsOut ==
  ASSUME IInv, IInv', OutInv, ServerMakePackets
  PROVE  OutInv'
<1> DEFINE x == MakeStdoutPackets(MakePackets(CloseStdin(s), "stderr"))
           note(z, st) == IF st = "stderr" /\ z.waiting THEN 1 ELSE 0
<1>1. /\ s.pc = "packets" /\ UNCHANGED <<c, p, u, c2s, s2c>>
      /\ s' = IF Finished(x) /\ ~x.forward
              THEN [x EXCEPT !.pc = "flush", !.then = "ended"]
              ELSE [Notice(x) EXCEPT !.pc = "sets", !.just = FALSE]
  BY DEF ServerMakePackets
<1>2. s \in ServerType(ToClient) /\ OutTypes
  BY OutTyped, ServerMaySendMore DEF IInv, Typed
<1>3. x \in ServerType(ToClient) /\ Making(s, x)
  BY <1>2, AllMakes
<1> HIDE DEF x
<1> DEFINE y == Notice(x)
<1>4. /\ y \in ServerType(ToClient) /\ y.eof = x.eof /\ y.output = x.output
      /\ \A st \in Streams : y.buf[st] + note(x, st) = x.buf[st] + note(y, st)
  BY <1>3, NoticeOK, NoticeOut
<1> HIDE DEF y
<1>5. \/ /\ s' = [x EXCEPT !.pc = "flush", !.then = "ended"] /\ Finished(x)
      \/ s' = [y EXCEPT !.pc = "sets", !.just = FALSE]
  BY <1>1 DEF y
<1>6. /\ s'.eof = x.eof /\ s'.output = x.output
      /\ \A st \in Streams : s'.buf[st] + note(x, st) = x.buf[st] + note(s', st)
      /\ s'.pc = "sets" \/ (Finished(x) /\ s'.buf = x.buf)
  <2>1. CASE s' = [x EXCEPT !.pc = "flush", !.then = "ended"] /\ Finished(x)
    <3>1. s'.eof = x.eof /\ s'.output = x.output /\ s'.buf = x.buf /\ s'.waiting = x.waiting
      BY <1>3, <2>1 DEF ServerType
    <3>2. QED
      BY <2>1, <3>1
  <2>2. CASE s' = [y EXCEPT !.pc = "sets", !.just = FALSE]
    <3>1. /\ s'.eof = y.eof /\ s'.output = y.output /\ s'.buf = y.buf /\ s'.waiting = y.waiting
          /\ s'.pc = "sets"
      BY <1>4, <2>2 DEF ServerType
    <3>2. QED
      BY <1>4, <3>1
  <2>3. QED
    BY <1>5, <2>1, <2>2
<1>7. PICK q \in Seq(ToClient) :
        /\ x.output = s.output \o q /\ ~In(q, "exitstatus")
        /\ \A st \in Streams : x.buf[st] + Times(q, st) = s.buf[st]
  BY <1>3 DEF Making
<1>8. \A z : /\ Times(ToUser, z)' = Times(ToUser, z) + Times(q, z)
             /\ Times(ToUser, z) \in Nat /\ Times(q, z) \in Nat
             /\ In(ToUser, z)' <=> In(ToUser, z) \/ In(q, z)
  <2>1. q \in Seq(ToClient) /\ c'.input = c.input /\ s2c' = s2c /\ s'.output = s.output \o q
    BY <1>1, <1>6, <1>7
  <2>2. QED
    BY <1>2, <2>1, ToUserAppend
<1>9. x.eof = s.eof /\ x.waiting = s.waiting
  BY <1>3 DEF Making
<1>10. ~Reported
  BY <1>1 DEF Reported
<1>11. Ended'
  BY <1>1, <1>6, <1>9 DEF OutInv, Ended, Held, Linked, Kind
<1>12. Emptied'
  <2>1. CASE s'.pc = "sets"
    BY <2>1 DEF Emptied, LeftLoop
  <2>2. CASE Finished(x) /\ s'.buf = x.buf
    <3>1. s'.output = << >> /\ \A st \in Streams : s'.eof[st] /\ s'.buf[st] = 0
      BY <1>6, <2>2 DEF Finished, Streams
    <3>2. QED
      BY <3>1, NothingThere DEF Emptied, Drained
  <2>3. QED
    BY <1>6, <2>1, <2>2
<1>13. ASSUME c.pc # "gone", NEW st \in Streams PROVE Chain(st)'
  <2>1. Output(st) = p.out[st] + s.buf[st] + Times(ToUser, st) + c.buf[st] + u.shown[st]
    BY <1>13 DEF OutInv, OnTheWay, Chain
  <2>2. Output(st) = p.wrote[st] + note(s, st) /\ Output(st)' = p.wrote[st] + note(s', st)
    BY <1>1 DEF Output, Notices
  <2>3. note(s, st) = note(x, st) /\ note(s, st) \in Nat /\ note(s', st) \in Nat
    BY <1>9
  <2>4. /\ p.wrote[st] \in Nat /\ p.out[st] \in Nat /\ s.buf[st] \in Nat
        /\ c.buf[st] \in Nat /\ u.shown[st] \in Nat /\ x.buf[st] \in Nat
    BY <1>2, <1>3 DEF OutTypes, ServerType
  <2>5. s'.buf[st] \in Nat
    BY <1>3, OutTypedNext DEF OutTypes
  <2>6. s'.buf[st] + note(x, st) = x.buf[st] + note(s', st)
    BY <1>6
  <2>7. Times(ToUser, st)' = Times(ToUser, st) + Times(q, st)
        /\ Times(ToUser, st) \in Nat /\ Times(q, st) \in Nat
        /\ x.buf[st] + Times(q, st) = s.buf[st]
    BY <1>7, <1>8
  <2>8. PICK n0 \in Nat, n1 \in Nat : n0 = note(s, st) /\ n1 = note(s', st)
    BY <2>3
  <2>9. PICK sb \in Nat, t0 \in Nat, tq \in Nat :
           sb = s'.buf[st] /\ t0 = Times(ToUser, st) /\ tq = Times(q, st)
    BY <2>5, <2>7
  <2>a. Output(st)' = p.wrote[st] + n1
    BY <2>2, <2>8
  <2> HIDE DEF note
  <2>b. PICK w \in Nat, o \in Nat, b \in Nat, d \in Nat, h \in Nat, xb \in Nat :
          /\ w = p.wrote[st] /\ o = p.out[st] /\ b = s.buf[st] /\ d = c.buf[st]
          /\ h = u.shown[st] /\ xb = x.buf[st]
    BY <2>4
  <2>10. w + n0 = o + b + t0 + d + h /\ sb + n0 = xb + n1 /\ xb + tq = b
    BY <2>1, <2>2, <2>3, <2>6, <2>7, <2>8, <2>9, <2>b
  <2>11. w + n1 = o + sb + (t0 + tq) + d + h
    BY <2>10
  <2>12. Output(st)' = p.out[st] + s'.buf[st] + Times(ToUser, st)' + c.buf[st] + u.shown[st]
    BY <2>a, <2>7, <2>9, <2>11, <2>b
  <2>13. QED
    BY <1>1, <2>12 DEF Chain
<1>14. ~In(ToUser, "exitstatus") => ~In(ToUser, "exitstatus")'
  BY <1>7, <1>8
<1>15. QED
  BY <1>1, <1>10, <1>11, <1>12, <1>13, <1>14, OutServer

\* What is written to the program is no output.
LEMMA WriteProgramOut ==
  ASSUME NEW M, NEW x \in ServerType(M), NEW ready
  PROVE  LET y == WriteProgram(x, ready)
         IN  y.eof = x.eof /\ y.buf = x.buf /\ y.output = x.output /\ y.waiting = x.waiting
<1> DEFINE y == WriteProgram(x, ready)
<1>1. y \in {x, [x EXCEPT !.stdin = @ - ToProgram], [x EXCEPT !.fdin = FALSE]}
  BY DEF WriteProgram
<1> HIDE DEF y
<1>2. y.eof = x.eof /\ y.buf = x.buf /\ y.output = x.output /\ y.waiting = x.waiting
  BY <1>1 DEF ServerType
<1>3. QED
  BY <1>2 DEF y

LEMMA ServerSelectOut ==
  ASSUME IInv, IInv', OutInv, ServerSelect
  PROVE  OutInv'
<1> DEFINE ready  == ServerReady
           reads  == "connection in" \in ready
           writes == "connection out" \in ready
           s1     == IF reads THEN [s EXCEPT !.input = @ \o c2s] ELSE s
           r      == ReadProgram(s1, ready)
           s2     == WriteProgram(r, ready)
           fatal  == (reads /\ c2s = << >>) \/ (writes /\ c.pc = "gone")
<1>1. /\ s.pc = "select"
      /\ s' = IF fatal THEN [s EXCEPT !.pc = "gone", !.cause = "connection lost"]
              ELSE [(IF writes THEN Written(s2, s2c) ELSE s2) EXCEPT !.pc = "packets"]
      /\ p' = [p EXCEPT !.out = [st \in Streams |-> IF st \in ready THEN 0 ELSE @[st]],
                        !.stdin = IF "fdin" \in ready /\ StdinRead THEN @ + ToProgram ELSE @]
      /\ s2c' = IF writes /\ ~fatal THEN Delivered(s2, s2c) ELSE s2c
      /\ UNCHANGED <<c, u>>
  BY DEF ServerSelect
<1>2. /\ s \in ServerType(Allowed) /\ OutTypes /\ p \in ProgramType
      /\ c2s \in Seq(ToServer) /\ s2c \in Seq(Allowed) /\ Len(s2c) =< NetCap
  BY OutTyped DEF IInv, Typed
<1>3. ~Reported
  BY <1>1 DEF Reported
<1>4. \A st \in Streams : st \in ready <=> NotMuch(s) /\ ~s.eof[st] /\ (p.out[st] > 0 \/ ~Held(st))
  BY DEF ServerReady, Streams
<1>5. p'.wrote = p.wrote /\ p'.open = p.open /\ u' = u
      /\ \A st \in Streams : p'.out[st] = IF st \in ready THEN 0 ELSE p.out[st]
  BY <1>1, <1>2 DEF ProgramType
<1>6. \A st \in Streams : Held(st)' <=> Held(st)
  BY <1>5 DEF Held, Linked, Kind
<1>7. fatal => c.pc = "gone"
  BY DEF ServerReady, Streams
<1>8. s1 \in ServerType(Allowed) /\ s1.eof = s.eof /\ s1.buf = s.buf /\ s1.output = s.output
      /\ s1.waiting = s.waiting /\ s1.stdin = s.stdin
  <2> DEFINE q == s.input \o c2s
             z == [s EXCEPT !.input = q]
  <2>1. q \in Seq(ToServer)
    BY <1>2, ConcatProperties DEF ServerType
  <2>2. s1 \in {s, z}
    BY <1>2 DEF ServerType
  <2> HIDE DEF q, s1
  <2>3. /\ z \in ServerType(Allowed) /\ z.eof = s.eof /\ z.buf = s.buf /\ z.output = s.output
        /\ z.waiting = s.waiting /\ z.stdin = s.stdin
    BY <1>2, <2>1 DEF ServerType
  <2> HIDE DEF z
  <2>4. QED
    BY <1>2, <2>2, <2>3
<1> HIDE DEF s1, ready
<1>9. /\ r \in ServerType(Allowed) /\ r.output = s.output /\ r.waiting = s.waiting
      /\ r.stdin = s.stdin
      /\ \A st \in Streams : /\ r.eof[st] = (s.eof[st] \/ (st \in ready /\ p.out[st] = 0))
                             /\ r.buf[st] = IF st \in ready THEN s.buf[st] + p.out[st]
                                            ELSE s.buf[st]
  <2>1. r \in ServerType(Allowed)
    BY <1>2, <1>8, ReadProgramOK
  <2>2. r = [s1 EXCEPT
               !.buf = [st \in Streams |-> IF st \in ready THEN @[st] + p.out[st] ELSE @[st]],
               !.eof = [st \in Streams |-> @[st] \/ (st \in ready /\ p.out[st] = 0)]]
    BY DEF ReadProgram
  <2>3. /\ r.buf = [st \in Streams |-> IF st \in ready THEN s1.buf[st] + p.out[st]
                                       ELSE s1.buf[st]]
        /\ r.eof = [st \in Streams |-> s1.eof[st] \/ (st \in ready /\ p.out[st] = 0)]
        /\ r.output = s1.output /\ r.waiting = s1.waiting /\ r.stdin = s1.stdin
    BY <1>8, <2>2 DEF ServerType
  <2> HIDE DEF r
  <2>4. QED
    BY <1>8, <2>1, <2>3
<1> HIDE DEF r
<1>10. s2 \in ServerType(Allowed) /\ s2.eof = r.eof /\ s2.buf = r.buf
       /\ s2.output = s.output /\ s2.waiting = s.waiting
  <2>1. s2 \in ServerType(Allowed)
    BY <1>2, <1>9, WriteProgramOK
  <2>2. s2.eof = r.eof /\ s2.buf = r.buf /\ s2.output = r.output /\ s2.waiting = r.waiting
    BY <1>9, WriteProgramOut
  <2>3. QED
    BY <1>9, <2>1, <2>2
<1> HIDE DEF s2
<1>11. CASE fatal
  <2>1. s'.pc = "gone" /\ s'.eof = s.eof
    BY <1>1, <1>2, <1>11 DEF ServerType
  <2>2. Ended'
    BY <1>5, <1>6, <2>1 DEF OutInv, Ended
  <2>3. Emptied'
    BY <2>1 DEF Emptied, LeftLoop
  <2>4. QED
    BY <1>1, <1>3, <1>7, <1>11, <2>2, <2>3, OutServer
<1>12. CASE ~fatal
  <2> DEFINE w == IF writes THEN Written(s2, s2c) ELSE s2
  <2>1. /\ w \in ServerType(Allowed) /\ w.eof = r.eof /\ w.buf = r.buf /\ w.waiting = s.waiting
        /\ w.output = IF writes THEN Written(s2, s2c).output ELSE s.output
    <3>1. Written(s2, s2c) \in ServerType(Allowed)
      BY <1>2, <1>10, ServerWrittenOK
    <3>2. /\ Written(s2, s2c).eof = s2.eof /\ Written(s2, s2c).buf = s2.buf
          /\ Written(s2, s2c).waiting = s2.waiting
      BY <1>10 DEF Written, ServerType
    <3>3. QED
      BY <1>10, <3>1, <3>2
  <2>2. s' = [w EXCEPT !.pc = "packets"]
    BY <1>1, <1>12
  <2> HIDE DEF w
  <2>3. /\ s'.eof = r.eof /\ s'.buf = r.buf /\ s'.waiting = s.waiting /\ s'.pc = "packets"
        /\ s'.output = IF writes THEN Written(s2, s2c).output ELSE s.output
    BY <2>1, <2>2 DEF ServerType
  <2>4. ToUser' = ToUser
    <3>1. CASE writes
      <4>1. "output" \in DOMAIN s2
        BY <1>10 DEF ServerType
      <4>2. s2c' = Delivered(s2, s2c) /\ s'.output = Written(s2, s2c).output
        BY <1>1, <1>12, <2>3, <3>1
      <4>3. QED
        BY <1>1, <1>2, <1>10, <4>1, <4>2, ToUserMoves
    <3>2. CASE ~writes
      BY <1>1, <2>3, <3>2 DEF ToUser
    <3>3. QED
      BY <3>1, <3>2
  <2>5. Ended'
    <3>1. ASSUME NEW st \in Streams, s'.eof[st]
          PROVE  p'.out[st] = 0 /\ ~Held(st)
      <4>1. CASE s.eof[st]
        BY <1>5, <4>1 DEF OutInv, Ended
      <4>2. CASE ~s.eof[st]
        <5>1. st \in ready /\ p.out[st] = 0
          BY <1>9, <2>3, <3>1, <4>2
        <5>2. QED
          BY <1>4, <1>5, <5>1
      <4>3. QED
        BY <4>1, <4>2
    <3>2. QED
      BY <1>6, <3>1 DEF Ended
  <2>6. Emptied'
    BY <2>3 DEF Emptied, LeftLoop
  <2>7. ASSUME c.pc # "gone", NEW st \in Streams PROVE Chain(st)'
    <3>1. Output(st) = p.out[st] + s.buf[st] + Times(ToUser, st) + c.buf[st] + u.shown[st]
      BY <2>7 DEF OutInv, OnTheWay, Chain
    <3>2. Output(st)' = Output(st)
      BY <1>5, <2>3 DEF Output, Notices
    <3>3. p'.out[st] + s'.buf[st] = p.out[st] + s.buf[st]
      <4>1. p.out[st] \in Nat /\ s.buf[st] \in Nat
        BY <1>2 DEF OutTypes
      <4>2. /\ p'.out[st] = (IF st \in ready THEN 0 ELSE p.out[st])
            /\ s'.buf[st] = (IF st \in ready THEN s.buf[st] + p.out[st] ELSE s.buf[st])
        BY <1>5, <1>9, <2>3
      <4>3. QED
        BY <4>1, <4>2
    <3>4. QED
      BY <1>1, <2>4, <3>1, <3>2, <3>3 DEF Chain
  <2>8. ~In(ToUser, "exitstatus") => ~In(ToUser, "exitstatus")'
    BY <2>4 DEF In
  <2>9. QED
    BY <1>1, <1>3, <2>5, <2>6, <2>7, <2>8, OutServer
<1>13. QED
  BY <1>11, <1>12

LEMMA ServerFlushOut ==
  ASSUME IInv, IInv', OutInv, ServerFlush
  PROVE  OutInv'
<1>1. /\ s.pc = "flush" /\ UNCHANGED <<c, p, u, c2s>>
      /\ IF s.output = << >>
         THEN s' = [s EXCEPT !.pc = s.then] /\ UNCHANGED s2c
         ELSE /\ s' = IF c.pc = "gone" THEN [s EXCEPT !.pc = "gone", !.cause = "connection lost"]
                      ELSE Written(s, s2c)
              /\ s2c' = Delivered(s, s2c)
  BY DEF ServerFlush
<1>2. s \in ServerType(Allowed) /\ OutTypes /\ Len(s2c) =< NetCap
  BY OutTyped DEF IInv, Typed
<1>3. CASE s.output = << >>
  <2>1. /\ s'.eof = s.eof /\ s'.buf = s.buf /\ s'.output = s.output /\ s'.waiting = s.waiting
        /\ s'.pc = s.then /\ s'.then = s.then /\ UNCHANGED s2c
    BY <1>1, <1>2, <1>3 DEF ServerType
  <2>2. s.then # "flush"
    BY <1>2 DEF ServerType
  <2>3. (LeftLoop' => LeftLoop) /\ (Reported => Reported')
    BY <1>1, <1>2, <2>1, <2>2 DEF LeftLoop, Reported, ServerType
  <2>4. QED
    BY <1>1, <2>1, <2>3, OutKept
<1>4. CASE s.output # << >> /\ c.pc = "gone"
  <2>1. /\ s'.eof = s.eof /\ s'.buf = s.buf /\ s'.output = s.output /\ s'.waiting = s.waiting
        /\ s'.pc = "gone"
    BY <1>1, <1>2, <1>4 DEF ServerType
  <2>2. Drained' = Drained /\ ~LeftLoop' /\ Reported'
    BY <2>1 DEF Drained, LeftLoop, Reported
  <2>3. Ended' /\ Emptied'
    BY <1>1, <2>1, <2>2 DEF OutInv, Ended, Held, Linked, Kind, Emptied
  <2>4. ToldLast' /\ OnTheWay'
    BY <1>1, <1>4, <2>2 DEF OutInv, ToldLast, Told, OnTheWay
  <2>5. AtTheEnd'
    BY <1>1, <2>1 DEF OutInv, AtTheEnd, OutputBeforeStatus, Notices
  <2>6. QED
    BY <2>3, <2>4, <2>5 DEF OutInv
<1>5. CASE s.output # << >> /\ c.pc # "gone"
  <2>1. s' = Written(s, s2c) /\ s2c' = Delivered(s, s2c)
    BY <1>1, <1>5
  <2>2. /\ s'.eof = s.eof /\ s'.buf = s.buf /\ s'.waiting = s.waiting
        /\ s'.pc = s.pc /\ s'.then = s.then /\ "output" \in DOMAIN s
    BY <1>2, <2>1 DEF Written, ServerType
  <2>3. ToUser' = ToUser /\ \A y : Times(s.output, y) = 0 => Times(s'.output, y) = 0
    BY <1>1, <1>2, <2>1, <2>2, ToUserMoves
  <2>4. /\ Drained => Drained'
        /\ (LeftLoop' <=> LeftLoop) /\ (Reported' <=> Reported)
    <3>1. Drained => Drained'
      BY <2>2, <2>3 DEF Drained
    <3>2. QED
      BY <2>2, <3>1 DEF LeftLoop, Reported
  <2>5. Ended' /\ Emptied'
    BY <1>1, <2>2, <2>4 DEF OutInv, Ended, Held, Linked, Kind, Emptied
  <2>6. ToldLast'
    BY <1>1, <2>3, <2>4 DEF OutInv, ToldLast, Told
  <2>7. \A st \in Streams : Chain(st)' <=> Chain(st)
    BY <1>1, <2>2, <2>3 DEF Chain, Output, Notices
  <2>8. OnTheWay' /\ AtTheEnd'
    BY <1>1, <1>5, <2>3, <2>7 DEF OutInv, OnTheWay, AtTheEnd
  <2>9. QED
    BY <2>5, <2>6, <2>8 DEF OutInv
<1>6. QED
  BY <1>3, <1>4, <1>5

\* The status follows everything there is to see, whoever asked for it.
LEMMA ReportOut ==
  ASSUME IInv, IInv', OutInv, s.pc \in {"status", "wait"}, s' = Report(s),
         UNCHANGED <<c, u, s2c>>, p'.out = p.out, p'.wrote = p.wrote, p'.open = p.open
  PROVE  OutInv'
<1>1. s \in ServerType(Allowed) /\ OutTypes
  BY OutTyped DEF IInv, Typed
<1>2. ~Reported /\ Drained /\ ~Told
  BY DEF OutInv, Emptied, LeftLoop, Reported, ToldLast
<1>3. CASE p.child # "exited"
  <2>1. s' = [Send(s, <<"disconnect">>)
                EXCEPT !.pc = "flush", !.then = "gone", !.cause = "signal"]
    BY <1>3 DEF Report
  <2>2. /\ s'.eof = s.eof /\ s'.buf = s.buf /\ s'.waiting = s.waiting
        /\ s'.output = s.output \o <<"disconnect">> /\ s'.pc = "flush" /\ s'.then = "gone"
    BY <1>1, <2>1 DEF Send, ServerType
  <2>3. QED
    BY <1>2, <2>2, DisconnectOut
<1>4. CASE p.child = "exited"
  <2> DEFINE q == <<"exitstatus">>
  <2>1. s' = [Send(s, <<"exitstatus">>) EXCEPT !.pc = "flush", !.then = "confirm"]
    BY <1>4 DEF Report
  <2>2. /\ s'.eof = s.eof /\ s'.buf = s.buf /\ s'.waiting = s.waiting
        /\ s'.output = s.output \o q /\ s'.pc = "flush" /\ s'.then = "confirm"
    BY <1>1, <2>1 DEF Send, ServerType
  <2>3. /\ q \in Seq(ToClient) /\ (\A st \in Streams : Times(q, st) = 0)
        /\ NoneAfter(q, "exitstatus", Streams) /\ (\A i \in DOMAIN q : q[i] \notin Streams)
    <3>1. q \in Seq(ToClient) /\ \A i \in DOMAIN q : q[i] \notin Streams
      BY DEF ToClient, Streams
    <3>2. \A st \in Streams : Times(q, st) = 0
      BY TimesOne DEF Streams
    <3>3. NoneAfter(q, "exitstatus", Streams)
      BY <3>1 DEF NoneAfter
    <3>4. QED
      BY <3>1, <3>2, <3>3
  <2> HIDE DEF q
  <2>4. /\ ToUser' = ToUser \o q
        /\ \A x : Times(ToUser, x)' = Times(ToUser, x) + Times(q, x)
                  /\ Times(ToUser, x) \in Nat
    BY <1>1, <2>2, <2>3, ToUserAppend
  <2>5. Drained' /\ Reported'
    <3>1. ASSUME NEW st \in Streams PROVE Times(s'.output, st) = 0
      <4> DEFINE o == s.output
      <4>1. o \in Seq(ToClient) /\ Times(o, st) = 0
        BY <1>1, <1>2 DEF OutTypes, Drained
      <4> HIDE DEF o
      <4>2. Times(o \o q, st) = Times(o, st) + Times(q, st)
        BY <2>3, <4>1, TimesConcat
      <4>3. QED
        BY <2>2, <2>3, <4>1, <4>2 DEF o
    <3>2. QED
      BY <1>2, <2>2, <3>1 DEF Drained, Reported
  <2>6. Ended' /\ Emptied' /\ ToldLast'
    BY <2>2, <2>5 DEF OutInv, Ended, Held, Linked, Kind, Emptied, ToldLast
  <2>7. ASSUME c.pc # "gone", NEW st \in Streams PROVE Chain(st)'
    <3>1. Times(ToUser, st)' = Times(ToUser, st)
      BY <2>3, <2>4
    <3>2. Output(st)' = Output(st)
      BY <2>2 DEF Output, Notices
    <3>3. QED
      BY <2>2, <2>7, <3>1, <3>2 DEF OutInv, OnTheWay, Chain
  <2>8. c.pc # "gone" => NoneAfter(ToUser, "exitstatus", Streams)'
    <3>1. SUFFICES ASSUME c.pc # "gone" PROVE NoneAfter(ToUser', "exitstatus", Streams)
      BY DEF NoneAfter
    <3> DEFINE l == ToUser
    <3>2. /\ l \in Seq(ToClient) /\ ~In(l, "exitstatus")
          /\ NoneAfter(l, "exitstatus", Streams)
      BY <1>1, <1>2, <3>1, ToUserOK DEF Told, OutInv, OnTheWay
    <3> HIDE DEF l
    <3>3. NoneAfter(l \o q, "exitstatus", Streams)
      BY <2>3, <3>2, NoneAfterConcat
    <3>4. QED
      BY <2>4, <3>3 DEF l
  <2>9. OnTheWay' /\ AtTheEnd'
    BY <1>2, <2>7, <2>8 DEF OnTheWay, AtTheEnd, OutputBeforeStatus, Told
  <2>10. QED
    BY <2>6, <2>9 DEF OutInv
<1>5. QED
  BY <1>3, <1>4

LEMMA ServerStatusOut ==
  ASSUME IInv, IInv', OutInv, ServerStatus
  PROVE  OutInv'
<1>1. /\ s.pc = "status" /\ UNCHANGED <<c, p, u, c2s, s2c>>
      /\ s' = IF s.terminated THEN Report(s) ELSE [s EXCEPT !.pc = "wait"]
  BY DEF ServerStatus
<1>2. s \in ServerType(Allowed)
  BY DEF IInv, Typed
<1>3. CASE s.terminated
  BY <1>1, <1>3, ReportOut
<1>4. CASE ~s.terminated
  <2>1. /\ s'.eof = s.eof /\ s'.buf = s.buf /\ s'.output = s.output /\ s'.waiting = s.waiting
        /\ s'.pc = "wait"
    BY <1>1, <1>2, <1>4 DEF ServerType
  <2>2. LeftLoop /\ ~Reported
    BY <1>1 DEF LeftLoop, Reported
  <2>3. QED
    BY <1>1, <2>1, <2>2, OutKept
<1>5. QED
  BY <1>3, <1>4

LEMMA ServerWaitOut ==
  ASSUME IInv, IInv', OutInv, ServerWait
  PROVE  OutInv'
<1>1. /\ s.pc = "wait" /\ UNCHANGED <<c, u, c2s, s2c>>
      /\ p' = [p EXCEPT !.reaped = TRUE]
      /\ s' = IF p.reaped
              THEN [Send(s, <<"disconnect">>) EXCEPT !.pc = "flush", !.then = "gone",
                                                     !.cause = "wait failed"]
              ELSE Report(s)
  BY DEF ServerWait
<1>2. s \in ServerType(Allowed) /\ p \in ProgramType
  BY DEF IInv, Typed
<1>3. p'.out = p.out /\ p'.wrote = p.wrote /\ p'.open = p.open
  BY <1>1, <1>2 DEF ProgramType
<1>4. CASE p.reaped
  <2>1. s' = [Send(s, <<"disconnect">>) EXCEPT !.pc = "flush", !.then = "gone",
                                               !.cause = "wait failed"]
    BY <1>1, <1>4
  <2>2. /\ s'.eof = s.eof /\ s'.buf = s.buf /\ s'.waiting = s.waiting
        /\ s'.output = s.output \o <<"disconnect">> /\ s'.pc = "flush" /\ s'.then = "gone"
    BY <1>2, <2>1 DEF Send, ServerType
  <2>3. ~Reported
    BY <1>1 DEF Reported
  <2>4. QED
    BY <1>1, <1>3, <2>2, <2>3, DisconnectOut
<1>5. CASE ~p.reaped
  BY <1>1, <1>3, <1>5, ReportOut
<1>6. QED
  BY <1>4, <1>5

\* The steps of the server that leave the output alone.
LEMMA ServerOthersOut ==
  ASSUME IInv, IInv', OutInv,
         ServerStart \/ ServerSets \/ ServerNothing \/ ServerEnded \/ ServerConfirm \/ SigChld
  PROVE  OutInv'
<1>1. s \in ServerType(Allowed) /\ p \in ProgramType
  BY DEF IInv, Typed
<1>2. CASE ServerStart
  <2>1. UNCHANGED <<c, p, u, c2s, s2c>> /\ s.pc = "start"
        /\ s' = [s EXCEPT !.pc = "packets", !.handler = TRUE]
    BY <1>2 DEF ServerStart
  <2>2. /\ s'.eof = s.eof /\ s'.buf = s.buf /\ s'.output = s.output /\ s'.waiting = s.waiting
        /\ s'.pc = "packets"
    BY <1>1, <2>1 DEF ServerType
  <2>3. ~LeftLoop' /\ ~Reported
    BY <2>1, <2>2 DEF LeftLoop, Reported
  <2>4. QED
    BY <2>1, <2>2, <2>3, OutKept
<1>3. CASE ServerSets
  <2>1. UNCHANGED <<c, p, u, c2s, s2c>> /\ s.pc = "sets"
    BY <1>3 DEF ServerSets
  <2>2. /\ s'.eof = s.eof /\ s'.buf = s.buf /\ s'.output = s.output /\ s'.waiting = s.waiting
        /\ s'.pc = "select"
    BY <1>1, <1>3 DEF ServerSets, ServerType
  <2>3. ~LeftLoop' /\ ~Reported
    BY <2>1, <2>2 DEF LeftLoop, Reported
  <2>4. QED
    BY <2>1, <2>2, <2>3, OutKept
<1>4. CASE ServerNothing
  <2> DEFINE y == ShutdownChild(s)
  <2>1. UNCHANGED <<c, p, u, c2s, s2c>> /\ s.pc = "select"
        /\ s' = [y EXCEPT !.pc = "packets", !.interrupted = FALSE]
    BY <1>4 DEF ServerNothing
  <2>2. y \in ServerType(Allowed)
    BY <1>1, ShutdownChildOK
  <2>3. y.eof = s.eof /\ y.buf = s.buf /\ y.output = s.output /\ y.waiting = s.waiting
    BY <1>1 DEF ShutdownChild, ServerType
  <2> HIDE DEF y
  <2>4. /\ s'.eof = s.eof /\ s'.buf = s.buf /\ s'.output = s.output /\ s'.waiting = s.waiting
        /\ s'.pc = "packets"
    BY <2>1, <2>2, <2>3 DEF ServerType
  <2>5. ~LeftLoop' /\ ~Reported
    BY <2>1, <2>4 DEF LeftLoop, Reported
  <2>6. QED
    BY <2>1, <2>4, <2>5, OutKept
<1>5. CASE ServerEnded
  <2>1. UNCHANGED <<c, p, u, c2s, s2c>> /\ s.pc = "ended"
    BY <1>5 DEF ServerEnded
  <2>2. /\ s'.eof = s.eof /\ s'.buf = s.buf /\ s'.output = s.output /\ s'.waiting = s.waiting
        /\ s'.pc = "status"
    BY <1>1, <1>5 DEF ServerEnded, ServerType
  <2>3. LeftLoop /\ ~Reported
    BY <2>1 DEF LeftLoop, Reported
  <2>4. QED
    BY <2>1, <2>2, <2>3, OutKept
<1>6. CASE ServerConfirm
  <2>1. UNCHANGED <<c, p, u, s2c>> /\ s.pc = "confirm"
    BY <1>6 DEF ServerConfirm
  <2>2. /\ s'.eof = s.eof /\ s'.buf = s.buf /\ s'.output = s.output /\ s'.waiting = s.waiting
        /\ s'.pc \in {"confirm", "gone"}
    BY <1>1, <1>6 DEF ServerConfirm, ServerType
  <2>3. LeftLoop /\ Reported'
    BY <2>1, <2>2 DEF LeftLoop, Reported
  <2>4. QED
    BY <2>1, <2>2, <2>3, OutKept
<1>7. CASE SigChld
  <2>1. UNCHANGED <<c, u, c2s, s2c>>
    BY <1>7 DEF SigChld
  <2>2. /\ s'.eof = s.eof /\ s'.buf = s.buf /\ s'.output = s.output /\ s'.waiting = s.waiting
        /\ s'.pc = s.pc /\ s'.then = s.then
    BY <1>1, <1>7 DEF SigChld, ServerType
  <2>3. p'.out = p.out /\ p'.wrote = p.wrote /\ p'.open = p.open
    BY <1>1, <1>7 DEF SigChld, ProgramType
  <2>4. (LeftLoop' <=> LeftLoop) /\ (Reported' <=> Reported)
    BY <2>2 DEF LeftLoop, Reported
  <2>5. QED
    BY <2>1, <2>2, <2>3, <2>4, OutKept
<1>8. QED
  BY <1>2, <1>3, <1>4, <1>5, <1>6, <1>7

-----------------------------------------------------------------------------
(* Output: the program, the user, and the rest of the client.              *)

LEMMA ProgramWritesOut ==
  ASSUME IInv, IInv', OutInv, NEW d \in Streams, ProgramWrites(d)
  PROVE  OutInv'
<1>1. /\ d \in p.open /\ UNCHANGED <<c, s, u, c2s, s2c>>
      /\ p' = [p EXCEPT !.out[d] = @ + 1, !.wrote[d] = @ + 1]
  BY DEF ProgramWrites
<1>2. p \in ProgramType /\ OutTypes
  BY OutTyped DEF IInv, Typed
<1>3. p'.open = p.open /\ \A st \in Streams : /\ p'.out[st] = p.out[st] + (IF st = d THEN 1 ELSE 0)
                                             /\ p'.wrote[st] = p.wrote[st] + (IF st = d THEN 1 ELSE 0)
  <2>1. p'.out = [p.out EXCEPT ![d] = @ + 1] /\ p'.wrote = [p.wrote EXCEPT ![d] = @ + 1]
        /\ p'.open = p.open
    BY <1>1, <1>2 DEF ProgramType
  <2>2. p.out \in [Streams -> Nat] /\ p.wrote \in [Streams -> Nat]
    BY <1>2 DEF OutTypes
  <2>3. QED
    BY <2>1, <2>2
<1>4. ~s.eof[d]
  BY <1>1 DEF OutInv, Ended, Held
<1>5. ~Drained /\ ~Told
  BY <1>4 DEF Drained, OutInv, ToldLast
<1>6. Ended'
  <2>1. \A st \in Streams : Held(st)' <=> Held(st)
    BY <1>1, <1>3 DEF Held, Linked, Kind
  <2>2. \A st \in Streams : s.eof[st] => p'.out[st] = p.out[st]
    <3>1. ASSUME NEW st \in Streams, s.eof[st] PROVE st # d /\ p.out[st] \in Nat
      BY <1>2, <1>4, <3>1 DEF OutTypes
    <3>2. QED
      BY <1>3, <3>1
  <2>3. QED
    BY <1>1, <2>1, <2>2 DEF OutInv, Ended
<1>7. Emptied' /\ ToldLast'
  <2>1. (Drained' <=> Drained) /\ (LeftLoop' <=> LeftLoop) /\ (Told' <=> Told)
    BY <1>1 DEF Drained, LeftLoop, Told, ToUser, In
  <2>2. QED
    BY <1>5, <2>1 DEF OutInv, Emptied, ToldLast
<1>8. ASSUME c.pc # "gone", NEW st \in Streams PROVE Chain(st)'
  <2>1. Output(st) = p.out[st] + s.buf[st] + Times(ToUser, st) + c.buf[st] + u.shown[st]
    BY <1>8 DEF OutInv, OnTheWay, Chain
  <2>2. Times(ToUser, st)' = Times(ToUser, st) /\ Times(ToUser, st) \in Nat
    <3>1. ToUser' = ToUser
      BY <1>1 DEF ToUser
    <3>2. QED
      BY <1>2, <3>1, ToUserOK, TimesOK
  <2>3. /\ p.out[st] \in Nat /\ p.wrote[st] \in Nat /\ s.buf[st] \in Nat /\ c.buf[st] \in Nat
        /\ u.shown[st] \in Nat /\ Notices(st) \in Nat
    BY <1>2 DEF OutTypes, Notices
  <2>4. Output(st) = p.wrote[st] + Notices(st) /\ Output(st)' = p'.wrote[st] + Notices(st)
    BY <1>1 DEF Output, Notices
  <2>5. PICK o \in Nat, w \in Nat, b \in Nat, t \in Nat, k \in Nat, h \in Nat, n \in Nat :
          /\ o = p.out[st] /\ w = p.wrote[st] /\ b = s.buf[st] /\ t = Times(ToUser, st)
          /\ k = c.buf[st] /\ h = u.shown[st] /\ n = Notices(st)
    BY <2>2, <2>3
  <2>6. PICK e \in {0, 1} : p'.out[st] = o + e /\ p'.wrote[st] = w + e
    BY <1>3, <2>5
  <2>7. w + n = o + b + t + k + h
    BY <2>1, <2>4, <2>5
  <2>8. (w + e) + n = (o + e) + b + t + k + h
    BY <2>7
  <2>9. QED
    BY <1>1, <2>2, <2>4, <2>5, <2>6, <2>8 DEF Chain
<1>9. OnTheWay'
  <2>1. ToUser' = ToUser /\ c.exit # "status"
    BY <1>1, <1>5 DEF ToUser, Told
  <2>2. QED
    BY <1>1, <1>8, <2>1 DEF OutInv, OnTheWay
<1>10. AtTheEnd'
  BY <1>1, <1>5 DEF AtTheEnd, OutputBeforeStatus, Told
<1>11. QED
  BY <1>6, <1>7, <1>9, <1>10 DEF OutInv

LEMMA ProgramOthersOut ==
  ASSUME IInv, IInv', OutInv,
         \/ ProgramReads
         \/ \E d \in Streams \cup {"stdin"} : ProgramCloses(d)
         \/ \E how \in {"exited", "killed"}, left \in SUBSET (Streams \cup {"stdin"}) :
              ChildEnds(how, left)
  PROVE  OutInv'
<1>1. p \in ProgramType
  BY DEF IInv, Typed
<1>2. UNCHANGED <<c, s, u, c2s, s2c>>
  BY DEF ProgramReads, ProgramCloses, ChildEnds
<1>3. p'.out = p.out /\ p'.wrote = p.wrote /\ p'.open \subseteq p.open
  <2>1. CASE ProgramReads
    BY <1>1, <2>1 DEF ProgramReads, ProgramType
  <2>2. CASE \E d \in Streams \cup {"stdin"} : ProgramCloses(d)
    BY <1>1, <2>2 DEF ProgramCloses, ProgramType
  <2>3. CASE \E how \in {"exited", "killed"}, left \in SUBSET (Streams \cup {"stdin"}) :
               ChildEnds(how, left)
    <3>1. PICK how \in {"exited", "killed"}, left \in SUBSET (Streams \cup {"stdin"}) :
             ChildEnds(how, left)
      BY <2>3
    <3>2. /\ p' = [p EXCEPT !.child = how, !.open = left, !.signal = s.handler]
          /\ left \subseteq p.open
      BY <3>1 DEF ChildEnds
    <3>3. p'.out = p.out /\ p'.wrote = p.wrote /\ p'.open = left
      BY <1>1, <3>2 DEF ProgramType
    <3>4. QED
      BY <3>2, <3>3
  <2>4. QED
    BY <2>1, <2>2, <2>3
<1>4. (LeftLoop' <=> LeftLoop) /\ (Reported' <=> Reported)
  BY <1>2 DEF LeftLoop, Reported
<1>5. QED
  BY <1>2, <1>3, <1>4, OutKept

LEMMA UserOut ==
  ASSUME IInv, IInv', OutInv, UserTypes \/ UserEndsInput \/ UserEndsForwarding \/ UserHangsUp
  PROVE  OutInv'
<1>1. u \in UserType /\ c \in ClientType(Allowed)
  BY DEF IInv, Typed
<1>2. UNCHANGED <<s, p, c2s, s2c>>
  BY DEF UserTypes, UserEndsInput, UserEndsForwarding, UserHangsUp
<1>3. u'.session = u.session /\ u'.shown = u.shown /\ (u'.tty = "ok" => u.tty = "ok")
  BY <1>1 DEF UserTypes, UserEndsInput, UserEndsForwarding, UserHangsUp, UserType
<1>4. c'.input = c.input /\ c'.buf = c.buf /\ c'.exit = c.exit /\ c'.pc = c.pc
  BY <1>1 DEF UserTypes, UserEndsInput, UserEndsForwarding, UserHangsUp, ClientType
<1>5. (LeftLoop' <=> LeftLoop) /\ (Reported' <=> Reported)
  BY <1>2 DEF LeftLoop, Reported
<1>6. QED
  BY <1>2, <1>3, <1>4, <1>5, OutKept

LEMMA ClientMakePacketsOut ==
  ASSUME IInv, IInv', OutInv, ClientMakePackets
  PROVE  OutInv'
<1> DEFINE y == MakeStdinPackets(c)
           z == ClientPollChannels(y)
<1>1. /\ c.pc = "packets" /\ UNCHANGED <<s, p, u, c2s, s2c>>
      /\ c' = [z EXCEPT !.pc = "select"]
  BY DEF ClientMakePackets
<1>2. c \in ClientType(Allowed)
  BY DEF IInv, Typed
<1>3. y \in ClientType(Allowed) /\ SameOutcome(c, y)
  BY <1>2, MakeStdinPacketsOK
<1>4. y.input = c.input
  BY <1>2 DEF MakeStdinPackets, Send, ClientType
<1> HIDE DEF y
<1>5. z \in ClientType(Allowed) /\ SameOutcome(y, z)
  BY <1>3, ClientPollChannelsOK
<1>6. z.input = y.input
  BY <1>3 DEF ClientPollChannels, Send, ClientType
<1> HIDE DEF z
<1>7. c'.input = c.input /\ c'.buf = c.buf /\ c'.exit = c.exit /\ c'.pc = "select"
  BY <1>1, <1>3, <1>4, <1>5, <1>6 DEF SameOutcome, ClientType
<1>8. (LeftLoop' <=> LeftLoop) /\ (Reported' <=> Reported)
  BY <1>1 DEF LeftLoop, Reported
<1>9. c.exit # "status"
  BY <1>1, NoStatusYet
<1>10. QED
  BY <1>1, <1>7, <1>8, <1>9, OutKept

-----------------------------------------------------------------------------
(* Output: the theorem.                                                    *)

LEMMA InitOut == Init => OutInv
<1> SUFFICES ASSUME Init PROVE OutInv
  OBVIOUS
<1>1. OutTypes
  BY InitOK, OutTyped
<1>2. /\ c.input = << >> /\ c.buf = [st \in Streams |-> 0] /\ c.exit = "none"
      /\ c.pc = "packets" /\ u.shown = [st \in Streams |-> 0]
  BY DEF Init, Both
<1>3. /\ s.output = << >> /\ s.buf = [st \in Streams |-> 0] /\ s.pc = "start"
      /\ s.eof = [st \in Streams |-> st = "stderr" /\ Kind = "pty"] /\ ~s.waiting
  BY DEF Init, Both
<1>4. /\ p.out = [st \in Streams |-> 0] /\ p.wrote = [st \in Streams |-> 0]
      /\ p.open = {"stdin", "stdout"} \cup (IF Kind = "pty" THEN {} ELSE {"stderr"})
      /\ s2c = << >>
  BY DEF Init, Both
<1>5. \A x : Times(ToUser, x) = 0 /\ ~In(ToUser, x)
  <2>1. \A x : Times(ToUser, x) = 0
    BY <1>1, <1>2, <1>3, <1>4, ToUserOK, NothingThere
  <2>2. ToUser \in Seq(ToClient)
    BY <1>1, ToUserOK
  <2>3. QED
    BY <2>1, <2>2, TimesOK
<1>6. Ended
  BY <1>3, <1>4 DEF Ended, Held
<1>7. Emptied /\ ToldLast /\ AtTheEnd
  BY <1>2, <1>3, <1>5 DEF Emptied, LeftLoop, ToldLast, Told, AtTheEnd
<1>8. OnTheWay
  BY <1>2, <1>3, <1>4, <1>5 DEF OnTheWay, Chain, Output, Notices, NoneAfter, In
<1>9. QED
  BY <1>6, <1>7, <1>8 DEF OutInv

LEMMA NextOut ==
  ASSUME IInv, IInv', OutInv, [Next]_vars
  PROVE  OutInv'
<1>1. CASE ClientStep
  BY <1>1, ClientPacketOut, ClientMakePacketsOut, ClientSelectOut, ClientFlushOut,
     ClientLeaveOut DEF ClientStep
<1>2. CASE ServerStep
  BY <1>2, ServerOthersOut, ServerPacketOut, ServerMakePacketsOut, ServerSelectOut,
     ServerFlushOut, ServerStatusOut, ServerWaitOut DEF ServerStep
<1>3. CASE SigChld
  BY <1>3, ServerOthersOut
<1>4. CASE ClientKilled
  BY <1>4, ClientKilledOut
<1>5. CASE Environment
  BY <1>5, ProgramWritesOut, ProgramOthersOut, UserOut DEF Environment
<1>6. CASE UNCHANGED vars
  <2>1. UNCHANGED <<c, s, p, u, c2s, s2c>>
    BY <1>6 DEF vars
  <2>2. (LeftLoop' <=> LeftLoop) /\ (Reported' <=> Reported)
    BY <2>1 DEF LeftLoop, Reported
  <2>3. QED
    BY <2>1, <2>2, OutKept
<1>7. QED
  BY <1>1, <1>2, <1>3, <1>4, <1>5, <1>6 DEF Next

\* A client that ends with the program's exit status has shown everything the
\* program and what it left behind ever wrote, and the server's own notice:
\* exit_status is sent by server_loop when nothing is buffered, on its way or
\* still to come, and client_loop writes what it holds before it returns.
THEOREM NoOutputIsLost == Spec => []OutputBeforeStatus
<1>1. OutInv => OutputBeforeStatus
  BY DEF OutInv, AtTheEnd, OutputBeforeStatus
<1>2. IInv /\ IInv' /\ OutInv /\ [Next]_vars => OutInv'
  BY NextOut
<1>3. QED
  BY <1>1, <1>2, InitOut, IInvAlways, PTL DEF Spec

-----------------------------------------------------------------------------
(* Input.  What the client has taken from the user is in exactly one place *)
(* on its way to the program, as long as someone reads it, and the end of  *)
(* it follows the last item everywhere.                                    *)

\* All that is on its way from the client's loop to the server's.
ToServerLine == s.input \o c2s \o c.output

\* The program is there for the input, or was to its end.
Following == Looping /\ p.child = "running" /\ (StdinRead \/ p.sawEof)

\* Where the input is, and how far its end has come.
Accounted ==
  /\ u.taken = c.stdin + Times(ToServerLine, "stdin") + s.stdin + p.stdin + p.read
  /\ NoneAfter(ToServerLine, "eof", {"stdin"})
  /\ s.stdin_eof \/ In(ToServerLine, "eof") => c.eof /\ c.stdin = 0
  /\ s.stdin_eof => Times(ToServerLine, "stdin") = 0
  /\ ~s.fdin => s.stdin_eof /\ s.stdin = 0
  /\ p.sawEof => ~s.fdin /\ p.stdin = 0

\* The client takes what is typed, and its end after that.
TakenInOrder == u.taken =< u.typed /\ (c.eof => u.closed /\ u.typed = u.taken)

InInv == TakenInOrder /\ (Following => Accounted)

\* The types of what InInv speaks of.
InTypes ==
  /\ s.input \in Seq(ToServer) /\ c2s \in Seq(ToServer) /\ c.output \in Seq(ToServer)
  /\ c.stdin \in Nat /\ s.stdin \in Nat /\ p.stdin \in Nat /\ p.read \in Nat
  /\ u.typed \in Nat /\ u.taken \in Nat

LEMMA InTyped == IInv => InTypes
<1> SUFFICES ASSUME IInv PROVE InTypes
  OBVIOUS
<1>1. c.output \in Seq(ToServer) /\ c.stdin \in Nat /\ c2s \in Seq(ToServer)
  BY DEF IInv, Typed, ClientType
<1>2. s.input \in Seq(ToServer) /\ s.stdin \in Nat
  BY DEF IInv, Typed, ServerType
<1>3. p.stdin \in Nat /\ p.read \in Nat
  BY SessionAssumption DEF IInv, Typed, ProgramType
<1>4. u.typed \in Nat /\ u.taken \in Nat
  BY DEF IInv, Typed, UserType
<1>5. QED
  BY <1>1, <1>2, <1>3, <1>4 DEF InTypes

LEMMA InTypedNext == IInv' => InTypes'
BY InTyped, PTL

LEMMA LineOK ==
  ASSUME InTypes
  PROVE  ToServerLine \in Seq(ToServer)
<1> DEFINE a == s.input \o c2s
           b == c.output
<1>1. a \in Seq(ToServer) /\ b \in Seq(ToServer)
  BY ConcatProperties DEF InTypes
<1>2. ToServerLine = a \o b
  BY DEF ToServerLine
<1> HIDE DEF a, b
<1>3. QED
  BY <1>1, <1>2, ConcatProperties

\* Packets that are no data.
LEMMA NoData ==
  ASSUME NEW q \in {<< >>, <<"eof">>, <<"close">>, <<"confirmation">>}
  PROVE  /\ q \in Seq(ToServer) /\ Times(q, "stdin") = 0
         /\ NoneAfter(q, "eof", {"stdin"}) /\ (\A i \in DOMAIN q : q[i] \notin {"stdin"})
         /\ In(q, "eof") => q = <<"eof">>
<1>1. q \in Seq(ToServer) /\ \A i \in DOMAIN q : q[i] \notin {"stdin"}
  <2>1. CASE q = << >>
    BY <2>1
  <2>2. CASE q = <<"eof">>
    BY <2>2 DEF ToServer
  <2>3. CASE q = <<"close">>
    BY <2>3 DEF ToServer
  <2>4. CASE q = <<"confirmation">>
    BY <2>4 DEF ToServer
  <2>5. QED
    BY <2>1, <2>2, <2>3, <2>4
<1>2. In(q, "eof") => q = <<"eof">>
  <2>1. q = << >> => ~In(q, "eof")
    BY DEF In
  <2>2. q = <<"close">> => ~In(q, "eof")
    BY DEF In
  <2>3. q = <<"confirmation">> => ~In(q, "eof")
    BY DEF In
  <2>4. QED
    BY <2>1, <2>2, <2>3
<1>3. Times(q, "stdin") = 0
  <2>1. ~In(q, "stdin")
    BY <1>1 DEF In
  <2>2. QED
    BY <1>1, <2>1, TimesOK
<1>4. NoneAfter(q, "eof", {"stdin"})
  BY <1>1 DEF NoneAfter
<1>5. QED
  BY <1>1, <1>2, <1>3, <1>4

\* Packets added at the end of the line.
LEMMA LineGrows ==
  ASSUME InTypes, NEW q \in Seq(ToServer), ToServerLine' = ToServerLine \o q
  PROVE  /\ \A x : /\ Times(ToServerLine, x)' = Times(ToServerLine, x) + Times(q, x)
                   /\ Times(ToServerLine, x) \in Nat /\ Times(q, x) \in Nat
                   /\ In(ToServerLine, x)' <=> In(ToServerLine, x) \/ In(q, x)
         /\ /\ NoneAfter(ToServerLine, "eof", {"stdin"}) /\ NoneAfter(q, "eof", {"stdin"})
            /\ In(ToServerLine, "eof") => Times(q, "stdin") = 0
            => NoneAfter(ToServerLine, "eof", {"stdin"})'
<1> DEFINE l == ToServerLine
           n == l \o q
<1>1. l \in Seq(ToServer) /\ ToServerLine' = n
  BY LineOK
<1> HIDE DEF l
<1>2. ASSUME NEW x
      PROVE  /\ Times(n, x) = Times(l, x) + Times(q, x)
             /\ Times(l, x) \in Nat /\ Times(q, x) \in Nat
             /\ In(n, x) <=> In(l, x) \/ In(q, x)
  <2>1. Times(n, x) = Times(l, x) + Times(q, x)
    BY <1>1, TimesConcat
  <2>2. Times(l, x) \in Nat /\ Times(q, x) \in Nat
    BY <1>1, TimesOK
  <2>3. In(n, x) <=> In(l, x) \/ In(q, x)
    BY <1>1, InConcat
  <2>4. QED
    BY <2>1, <2>2, <2>3
<1>3. ASSUME NoneAfter(l, "eof", {"stdin"}), NoneAfter(q, "eof", {"stdin"}),
             In(l, "eof") => Times(q, "stdin") = 0
      PROVE  NoneAfter(n, "eof", {"stdin"})
  <2>1. In(l, "eof") => \A i \in DOMAIN q : q[i] \notin {"stdin"}
    <3>1. Times(q, "stdin") = 0 => ~In(q, "stdin")
      BY TimesOK
    <3>2. QED
      BY <1>3, <3>1 DEF In
  <2>2. QED
    BY <1>1, <1>3, <2>1, NoneAfterConcat
<1> HIDE DEF n
<1>4. \A x : /\ Times(ToServerLine, x)' = Times(n, x)
             /\ In(ToServerLine, x)' <=> In(n, x)
  BY <1>1 DEF Times, In
<1>5. NoneAfter(ToServerLine, "eof", {"stdin"})' <=> NoneAfter(n, "eof", {"stdin"})
  BY <1>1 DEF NoneAfter
<1>6. QED
  BY <1>2, <1>3, <1>4, <1>5 DEF l

\* What the client writes to the connection is still in the line.
LEMMA ClientWritingKeeps ==
  ASSUME NEW M, NEW x \in ClientType(M), NEW conn \in Seq(ToServer), Len(conn) =< NetCap,
         NEW i \in Seq(ToServer)
  PROVE  (i \o Delivered(x, conn)) \o Written(x, conn).output = (i \o conn) \o x.output
<1> DEFINE o == x.output
           f == Fitting(x, conn)
           sent == SubSeq(o, 1, f)
           left == SubSeq(o, f + 1, Len(o))
<1>1. o \in Seq(ToServer) /\ NetCap \in Nat /\ Len(o) \in Nat /\ Len(conn) \in Nat
  BY SessionAssumption, LenProperties DEF ClientType
<1>2. f \in Nat /\ f =< Len(o)
  BY <1>1 DEF Fitting, Least
<1>3. Delivered(x, conn) = conn \o sent /\ Written(x, conn).output = left
  BY DEF Delivered, Written, ClientType
<1> HIDE DEF o, f
<1>4. sent \in Seq(ToServer) /\ left \in Seq(ToServer) /\ o = sent \o left
  BY <1>1, <1>2, SplitAt
<1> HIDE DEF sent, left
<1>5. i \o conn \in Seq(ToServer) /\ (i \o conn) \o sent = i \o (conn \o sent)
  <2>1. i \o conn \in Seq(ToServer)
    BY ConcatProperties
  <2>2. (i \o conn) \o sent = i \o (conn \o sent)
    BY SMTT(20), <1>4, ConcatAssociative
  <2>3. QED
    BY <2>1, <2>2
<1> DEFINE g == i \o conn
<1>6. (g \o sent) \o left = g \o (sent \o left)
  <2>1. g \in Seq(ToServer)
    BY <1>5
  <2> HIDE DEF g
  <2>2. QED
    BY <1>4, <2>1, ConcatAssociative
<1>7. QED
  BY <1>3, <1>4, <1>5, <1>6 DEF o

-----------------------------------------------------------------------------
(* Input: the client's actions.                                            *)

\* Steps that move nothing of the input.
LEMMA InKept ==
  ASSUME InInv, Following' => Following,
         u'.typed = u.typed, u'.taken = u.taken, u.closed => u'.closed,
         c'.stdin = c.stdin, c'.eof = c.eof, ToServerLine' = ToServerLine,
         s'.stdin = s.stdin, s'.stdin_eof = s.stdin_eof,
         s'.fdin = s.fdin \/ (s.stdin_eof /\ s.stdin = 0 /\ s'.fdin = FALSE),
         p'.stdin = p.stdin, p'.read = p.read,
         p'.sawEof => p.sawEof \/ (~s.fdin /\ p.stdin = 0)
  PROVE  InInv'
<1>1. TakenInOrder'
  BY DEF InInv, TakenInOrder
<1>2. ASSUME Following' PROVE Accounted'
  <2>1. Accounted
    BY <1>2 DEF InInv
  <2>2. /\ Times(ToServerLine, "stdin")' = Times(ToServerLine, "stdin")
        /\ NoneAfter(ToServerLine, "eof", {"stdin"})' <=> NoneAfter(ToServerLine, "eof", {"stdin"})
        /\ In(ToServerLine, "eof")' <=> In(ToServerLine, "eof")
    BY DEF Times, NoneAfter, In
  <2>3. QED
    BY <2>1, <2>2 DEF Accounted
<1>3. QED
  BY <1>1, <1>2 DEF InInv

\* Once the server has left its loop, or the child has ended, nothing is asked.
LEMMA InOver ==
  ASSUME InInv, ~Following', u'.typed = u.typed, u'.taken = u.taken, u.closed => u'.closed,
         c'.eof = c.eof
  PROVE  InInv'
BY DEF InInv, TakenInOrder

\* A step of the client that sends q.
LEMMA InClient ==
  ASSUME IInv, IInv', InInv, UNCHANGED <<s, p>>, TakenInOrder', u'.session = u.session,
         NEW q \in Seq(ToServer), ToServerLine' = ToServerLine \o q,
         NoneAfter(q, "eof", {"stdin"}), In(q, "eof") => c'.eof /\ c'.stdin = 0,
         u'.taken + c.stdin = u.taken + c'.stdin + Times(q, "stdin"),
         c.eof => c'.eof,
         c.eof /\ c.stdin = 0 => c'.stdin = 0 /\ Times(q, "stdin") = 0
  PROVE  InInv'
<1>1. InTypes /\ InTypes'
  BY InTyped, InTypedNext
<1>2. ASSUME Following' PROVE Accounted'
  <2>1. Accounted
    BY <1>2 DEF InInv, Following, Looping, StdinRead, Linked, Kind
  <2>2. /\ \A x : /\ Times(ToServerLine, x)' = Times(ToServerLine, x) + Times(q, x)
                  /\ Times(ToServerLine, x) \in Nat /\ Times(q, x) \in Nat
                  /\ In(ToServerLine, x)' <=> In(ToServerLine, x) \/ In(q, x)
        /\ /\ NoneAfter(ToServerLine, "eof", {"stdin"}) /\ NoneAfter(q, "eof", {"stdin"})
           /\ In(ToServerLine, "eof") => Times(q, "stdin") = 0
           => NoneAfter(ToServerLine, "eof", {"stdin"})'
    BY <1>1, LineGrows
  <2>3. u'.taken = c'.stdin + Times(ToServerLine, "stdin")' + s.stdin + p.stdin + p.read
    <3>1. PICK t0 \in Nat, tq \in Nat, a \in Nat, b \in Nat, e \in Nat, f \in Nat, g \in Nat,
               h \in Nat, k \in Nat :
             /\ t0 = Times(ToServerLine, "stdin") /\ tq = Times(q, "stdin")
             /\ a = u.taken /\ b = u'.taken /\ e = c.stdin /\ f = c'.stdin
             /\ g = s.stdin /\ h = p.stdin /\ k = p.read
      BY <1>1, <2>2 DEF InTypes
    <3>2. a = e + t0 + g + h + k /\ b + e = a + f + tq
      BY <2>1, <3>1 DEF Accounted
    <3>a. b + e = (e + t0 + g + h + k) + f + tq
      BY <3>2
    <3>3. b = f + (t0 + tq) + g + h + k
      BY <3>a
    <3>4. QED
      BY <2>2, <3>1, <3>3
  <2>4. NoneAfter(ToServerLine, "eof", {"stdin"})'
    BY <2>1, <2>2 DEF Accounted
  <2>5. s.stdin_eof \/ In(ToServerLine, "eof")' => c'.eof /\ c'.stdin = 0
    BY <2>1, <2>2 DEF Accounted
  <2>6. s.stdin_eof => Times(ToServerLine, "stdin")' = 0
    BY <2>1, <2>2 DEF Accounted
  <2>7. QED
    BY <2>1, <2>3, <2>4, <2>5, <2>6 DEF Accounted
<1>3. QED
  BY <1>2 DEF InInv

\* Packets that are added to the client's output.
LEMMA ClientAppends ==
  ASSUME InTypes, UNCHANGED <<s, c2s>>, NEW q \in Seq(ToServer), c'.output = c.output \o q
  PROVE  ToServerLine' = ToServerLine \o q
<1> DEFINE a == s.input \o c2s
           o == c.output
<1>1. a \in Seq(ToServer) /\ o \in Seq(ToServer)
  BY ConcatProperties DEF InTypes
<1>2. ToServerLine = a \o o /\ ToServerLine' = a \o (o \o q)
  BY DEF ToServerLine
<1> HIDE DEF a, o
<1>3. (a \o o) \o q = a \o (o \o q)
  BY <1>1, ConcatAssociative
<1>4. QED
  BY <1>2, <1>3

LEMMA ClientPacketIn ==
  ASSUME IInv, IInv', InInv, ClientPacket
  PROVE  InInv'
<1> DEFINE m == Head(c.input)
           rest == [c EXCEPT !.input = Tail(@)]
<1>1. /\ UNCHANGED <<s, p, u, c2s, s2c>> /\ c.pc = "packets" /\ c.input # << >>
      /\ c' = CASE m \in Streams     -> [rest EXCEPT !.buf[m] = @ + 1]
                [] m = "exitstatus"  -> [Send(rest, <<"confirmation">>)
                                           EXCEPT !.exit = "status", !.pc = "flush"]
                [] m = "disconnect"  -> [rest EXCEPT !.exit = "fatal", !.pc = "gone"]
  BY DEF ClientPacket
<1>2. c \in ClientType(Allowed) /\ InTypes
  BY InTyped DEF IInv, Typed
<1>3. m \in ToClient
  BY <1>1, OutTyped, HeadTailProperties DEF OutTypes
<1> HIDE DEF m
<1>4. CASE m = "exitstatus"
  <2> DEFINE q == <<"confirmation">>
  <2>1. c' = [Send(rest, <<"confirmation">>) EXCEPT !.exit = "status", !.pc = "flush"]
    BY <1>1, <1>4 DEF Streams
  <2>2. c'.stdin = c.stdin /\ c'.eof = c.eof /\ c'.output = c.output \o q
    BY <1>2, <2>1 DEF Send, ClientType
  <2>3. /\ q \in Seq(ToServer) /\ Times(q, "stdin") = 0 /\ NoneAfter(q, "eof", {"stdin"})
        /\ ~In(q, "eof")
    <3>1. q # <<"eof">>
      OBVIOUS
    <3>2. q \in {<< >>, <<"eof">>, <<"close">>, <<"confirmation">>}
      OBVIOUS
    <3> HIDE DEF q
    <3>3. QED
      BY <3>1, <3>2, NoData
  <2> HIDE DEF q
  <2>4. ToServerLine' = ToServerLine \o q
    BY <1>1, <1>2, <2>2, <2>3, ClientAppends
  <2>5. u'.taken + c.stdin = u.taken + c'.stdin + Times(q, "stdin")
    <3>1. c.stdin \in Nat /\ u.taken \in Nat /\ u'.taken = u.taken
      BY <1>1, <1>2 DEF InTypes
    <3>2. QED
      BY <2>2, <2>3, <3>1
  <2>6. TakenInOrder'
    BY <1>1, <2>2 DEF InInv, TakenInOrder
  <2>7. QED
    BY <1>1, <2>2, <2>3, <2>4, <2>5, <2>6, InClient
<1>5. CASE m # "exitstatus"
  <2>1. c'.stdin = c.stdin /\ c'.eof = c.eof /\ c'.output = c.output
    <3>1. CASE m \in Streams
      <4>1. c' = [rest EXCEPT !.buf[m] = @ + 1]
        BY <1>1, <3>1 DEF Streams
      <4>2. QED
        BY <1>2, <4>1 DEF ClientType
    <3>2. CASE m = "disconnect"
      <4>1. c' = [rest EXCEPT !.exit = "fatal", !.pc = "gone"]
        BY <1>1, <3>2 DEF Streams
      <4>2. QED
        BY <1>2, <4>1 DEF ClientType
    <3>3. QED
      BY <1>3, <1>5, <3>1, <3>2 DEF ToClient
  <2>2. ToServerLine' = ToServerLine /\ (Following' <=> Following)
    BY <1>1, <2>1 DEF ToServerLine, Following, Looping, StdinRead, Linked, Kind
  <2>3. QED
    BY <1>1, <2>1, <2>2, InKept
<1>6. QED
  BY <1>4, <1>5

\* What the client makes of its buffered input: data, and the eof behind the last of it.
LEMMA ClientSends ==
  ASSUME NEW M, NEW x \in ClientType(M)
  PROVE  LET z == ClientPollChannels(MakeStdinPackets(x))
         IN  /\ z \in ClientType(M) /\ z.eof = x.eof
             /\ \E q \in Seq(ToServer) :
                  /\ z.output = x.output \o q /\ z.stdin + Times(q, "stdin") = x.stdin
                  /\ NoneAfter(q, "eof", {"stdin"})
                  /\ In(q, "eof") => x.eof /\ z.stdin = 0
<1> DEFINE k  == Sendable(x, x.stdin)
           cp == Copies("stdin", k)
           e  == IF k > 0 /\ k = x.stdin /\ x.eof THEN <<"eof">> ELSE << >>
           y  == MakeStdinPackets(x)
           d  == IF NotMuch(y) /\ y.forward = "closing" THEN <<"close">> ELSE << >>
           z  == ClientPollChannels(y)
           o  == x.output
<1>1. o \in Seq(ToServer) /\ x.stdin \in Nat /\ k \in Nat /\ k =< x.stdin
  BY SendableOK DEF ClientType
<1>2. /\ y.output = o \o (cp \o e) /\ y.stdin = x.stdin - k /\ y.eof = x.eof
      /\ y \in ClientType(M)
  <2>1. y \in ClientType(M)
    BY MakeStdinPacketsOK
  <2>2. y = [Send(x, cp \o e) EXCEPT !.stdin = @ - k]
    BY DEF MakeStdinPackets
  <2> HIDE DEF y, cp, e, k
  <2>3. QED
    BY <2>1, <2>2 DEF Send, ClientType
<1>3. /\ cp \in Seq(ToServer) /\ Times(cp, "stdin") = k /\ ~In(cp, "eof")
      /\ NoneAfter(cp, "eof", {"stdin"})
  <2>1. cp \in Seq(ToServer)
    BY <1>1, CopiesOK DEF ToServer
  <2>2. Times(cp, "stdin") = k /\ Times(cp, "eof") = 0
    BY <1>1, TimesCopies
  <2> HIDE DEF cp
  <2>3. ~In(cp, "eof")
    BY <2>1, <2>2, TimesOK
  <2>4. QED
    BY <2>1, <2>2, <2>3 DEF In, NoneAfter
<1>4. /\ e \in Seq(ToServer) /\ Times(e, "stdin") = 0 /\ NoneAfter(e, "eof", {"stdin"})
      /\ In(e, "eof") => k = x.stdin /\ x.eof
  <2>1. e \in {<< >>, <<"eof">>, <<"close">>, <<"confirmation">>}
    OBVIOUS
  <2>2. e = <<"eof">> => k = x.stdin /\ x.eof
    OBVIOUS
  <2> HIDE DEF e
  <2>3. QED
    BY <2>1, <2>2, NoData
<1>5. z.output = y.output \o d /\ z.stdin = y.stdin /\ z.eof = y.eof /\ z \in ClientType(M)
  <2>1. z \in ClientType(M)
    BY <1>2, ClientPollChannelsOK
  <2>2. CASE NotMuch(y) /\ y.forward = "closing"
    <3>1. z = [Send(y, <<"close">>) EXCEPT !.forward = "closed"] /\ d = <<"close">>
      BY <2>2 DEF ClientPollChannels
    <3> HIDE DEF z, d, y
    <3>2. QED
      BY <1>2, <2>1, <3>1 DEF Send, ClientType
  <2>3. CASE ~(NotMuch(y) /\ y.forward = "closing")
    <3>1. z = y /\ d = << >>
      BY <2>3 DEF ClientPollChannels
    <3> DEFINE w == y.output
    <3>2. w \in Seq(ToServer)
      BY <1>2 DEF ClientType
    <3> HIDE DEF w
    <3>3. w \o << >> = w
      BY <3>2, ConcatEmptySeq
    <3> HIDE DEF z, d, y
    <3>4. QED
      BY <2>1, <3>1, <3>3 DEF w
  <2>4. QED
    BY <2>2, <2>3
<1>6. /\ d \in Seq(ToServer) /\ Times(d, "stdin") = 0 /\ ~In(d, "eof")
      /\ NoneAfter(d, "eof", {"stdin"}) /\ \A i \in DOMAIN d : d[i] \notin {"stdin"}
  <2>1. d \in {<< >>, <<"eof">>, <<"close">>, <<"confirmation">>} /\ d # <<"eof">>
    OBVIOUS
  <2> HIDE DEF d
  <2>2. QED
    BY <2>1, NoData
<1> HIDE DEF k, cp, e, y, d, z, o
<1> DEFINE f == cp \o e
           q == f \o d
<1>7. /\ f \in Seq(ToServer) /\ Times(f, "stdin") = k /\ (In(f, "eof") <=> In(e, "eof"))
      /\ NoneAfter(f, "eof", {"stdin"})
  <2>1. f \in Seq(ToServer)
    BY <1>3, <1>4, ConcatProperties
  <2>2. Times(f, "stdin") = Times(cp, "stdin") + Times(e, "stdin")
    BY <1>3, <1>4, TimesConcat
  <2>3. In(f, "eof") <=> In(cp, "eof") \/ In(e, "eof")
    BY <1>3, <1>4, InConcat
  <2>4. NoneAfter(f, "eof", {"stdin"})
    BY <1>3, <1>4, NoneAfterConcat
  <2>5. QED
    BY <1>1, <1>3, <1>4, <2>1, <2>2, <2>3, <2>4
<1>8. z.output = (o \o f) \o d
  BY <1>2, <1>5
<1> HIDE DEF f
<1>9. /\ q \in Seq(ToServer) /\ Times(q, "stdin") = k /\ (In(q, "eof") <=> In(e, "eof"))
      /\ NoneAfter(q, "eof", {"stdin"}) /\ (o \o f) \o d = o \o q
  <2>1. q \in Seq(ToServer)
    BY <1>6, <1>7, ConcatProperties
  <2>2. Times(q, "stdin") = Times(f, "stdin") + Times(d, "stdin")
    BY <1>6, <1>7, TimesConcat
  <2>3. In(q, "eof") <=> In(f, "eof") \/ In(d, "eof")
    BY <1>6, <1>7, InConcat
  <2>4. NoneAfter(q, "eof", {"stdin"})
    BY <1>6, <1>7, NoneAfterConcat
  <2>5. (o \o f) \o d = o \o q
    BY <1>1, <1>6, <1>7, ConcatAssociative
  <2>6. QED
    BY <1>1, <1>6, <1>7, <2>1, <2>2, <2>3, <2>4, <2>5
<1> HIDE DEF q
<1>10. z.stdin + Times(q, "stdin") = x.stdin /\ (In(q, "eof") => x.eof /\ z.stdin = 0)
  <2>1. z.stdin = x.stdin - k
    BY <1>2, <1>5
  <2>2. QED
    BY <1>1, <1>4, <1>9, <2>1
<1>11. /\ z \in ClientType(M) /\ z.eof = x.eof
       /\ \E q_1 \in Seq(ToServer) :
            /\ z.output = x.output \o q_1 /\ z.stdin + Times(q_1, "stdin") = x.stdin
            /\ NoneAfter(q_1, "eof", {"stdin"})
            /\ In(q_1, "eof") => x.eof /\ z.stdin = 0
  BY <1>2, <1>5, <1>8, <1>9, <1>10 DEF o
<1>12. QED
  BY <1>11 DEF z, y

LEMMA ClientMakePacketsIn ==
  ASSUME IInv, IInv', InInv, ClientMakePackets
  PROVE  InInv'
<1> DEFINE z == ClientPollChannels(MakeStdinPackets(c))
<1>1. UNCHANGED <<s, p, u, c2s, s2c>> /\ c' = [z EXCEPT !.pc = "select"]
  BY DEF ClientMakePackets
<1>2. c \in ClientType(Allowed) /\ InTypes
  BY InTyped DEF IInv, Typed
<1>3. /\ z \in ClientType(Allowed) /\ z.eof = c.eof
      /\ \E q \in Seq(ToServer) :
           /\ z.output = c.output \o q /\ z.stdin + Times(q, "stdin") = c.stdin
           /\ NoneAfter(q, "eof", {"stdin"})
           /\ In(q, "eof") => c.eof /\ z.stdin = 0
  BY <1>2, ClientSends
<1> HIDE DEF z
<1>4. PICK q \in Seq(ToServer) :
        /\ z.output = c.output \o q /\ z.stdin + Times(q, "stdin") = c.stdin
        /\ NoneAfter(q, "eof", {"stdin"})
        /\ In(q, "eof") => c.eof /\ z.stdin = 0
  BY <1>3
<1>5. c'.eof = c.eof /\ c'.stdin = z.stdin /\ c'.output = c.output \o q /\ z.stdin \in Nat
  BY <1>1, <1>3, <1>4 DEF ClientType
<1>6. ToServerLine' = ToServerLine \o q
  BY <1>1, <1>2, <1>5, ClientAppends
<1>7. Times(q, "stdin") \in Nat
  BY TimesOK
<1>8. u'.taken + c.stdin = u.taken + c'.stdin + Times(q, "stdin")
  <2>1. u'.taken = u.taken /\ u.taken \in Nat /\ c.stdin \in Nat
    BY <1>1, <1>2 DEF InTypes
  <2>2. QED
    BY <1>4, <1>5, <1>7, <2>1
<1>9. c.stdin = 0 => c'.stdin = 0 /\ Times(q, "stdin") = 0
  BY <1>4, <1>5, <1>7
<1>10. TakenInOrder'
  BY <1>1, <1>5 DEF InInv, TakenInOrder
<1>11. QED
  BY <1>1, <1>4, <1>5, <1>6, <1>8, <1>9, <1>10, InClient

\* Reading the connection is not reading the user, nor is writing to the user.
SameInput(x, y) == y.stdin = x.stdin /\ y.eof = x.eof /\ y.output = x.output

LEMMA ClientReadConnectionIn ==
  ASSUME NEW M, NEW x \in ClientType(M)
  PROVE  SameInput(x, ClientReadConnection(x))
<1>1. ClientReadConnection(x) \in {[x EXCEPT !.input = @ \o s2c], [x EXCEPT !.quit = TRUE]}
  BY DEF ClientReadConnection
<1>2. SameInput(x, [x EXCEPT !.input = @ \o s2c]) /\ SameInput(x, [x EXCEPT !.quit = TRUE])
  BY DEF ClientType, SameInput
<1>3. QED
  BY <1>1, <1>2

LEMMA ClientWriteOutIn ==
  ASSUME NEW M, NEW x \in ClientType(M), NEW ready, NEW left
  PROVE  SameInput(x, ClientWriteOut(x, ready, left))
<1> DEFINE b == [st \in Streams |-> IF st \in ready THEN left[st] ELSE x.buf[st]]
<1>1. ClientWriteOut(x, ready, left) \in {x, [x EXCEPT !.quit = TRUE], [x EXCEPT !.buf = b]}
  BY DEF ClientWriteOut, ClientType
<1> HIDE DEF b
<1>2. SameInput(x, [x EXCEPT !.quit = TRUE]) /\ SameInput(x, [x EXCEPT !.buf = b])
      /\ SameInput(x, x)
  BY DEF ClientType, SameInput
<1>3. QED
  BY <1>1, <1>2

\* All that is typed is taken, or its end is noticed; the eof is sent at once
\* when nothing is buffered before it.
LEMMA ClientReadStdinIn ==
  ASSUME NEW M, NEW x \in ClientType(M), InTypes, TakenInOrder, ~x.quit, ~x.eof,
         u.typed > u.taken \/ u.closed
  PROVE  LET y == ClientReadStdin(x)
         IN  \E q \in {<< >>, <<"eof">>} :
               /\ y.output = x.output \o q /\ (q = <<"eof">> => y.eof /\ y.stdin = 0)
               /\ u.typed + x.stdin = u.taken + y.stdin
               /\ y.eof => u.closed
<1> DEFINE y == ClientReadStdin(x)
           o == x.output
           q == IF x.stdin = 0 THEN <<"eof">> ELSE << >>
           w == Send(x, q)
<1>1. o \in Seq(ToServer) /\ x.stdin \in Nat /\ u.typed \in Nat /\ u.taken \in Nat
      /\ u.taken =< u.typed
  BY DEF ClientType, InTypes, TakenInOrder
<1>2. CASE u.typed > u.taken
  <2>1. y = [x EXCEPT !.stdin = @ + (u.typed - u.taken)]
    BY <1>2 DEF ClientReadStdin
  <2>2. y.output = o /\ y.stdin = x.stdin + (u.typed - u.taken) /\ ~y.eof
    <3> HIDE DEF y
    <3>1. QED
      BY <2>1 DEF ClientType
  <2> HIDE DEF y, o
  <2>3. o = o \o << >>
    BY <1>1, ConcatEmptySeq
  <2>4. u.typed + x.stdin = u.taken + y.stdin
    BY <1>1, <2>2
  <2>5. << >> # <<"eof">>
    OBVIOUS
  <2>6. \E r \in {<< >>, <<"eof">>} :
          /\ y.output = o \o r /\ (r = <<"eof">> => y.eof /\ y.stdin = 0)
          /\ u.typed + x.stdin = u.taken + y.stdin
          /\ y.eof => u.closed
    BY <2>2, <2>3, <2>4, <2>5
  <2>7. QED
    BY <2>6 DEF y, o
<1>3. CASE ~(u.typed > u.taken)
  <2>1. y = [w EXCEPT !.eof = TRUE]
    BY <1>3 DEF ClientReadStdin
  <2>2. q \in {<< >>, <<"eof">>} /\ (q = <<"eof">> => x.stdin = 0)
    OBVIOUS
  <2> HIDE DEF y, q
  <2>3. y.output = o \o q /\ y.stdin = x.stdin /\ y.eof
    BY <2>1 DEF ClientType, Send
  <2>4. u.typed = u.taken /\ u.closed
    BY <1>1, <1>3
  <2>5. \E r \in {<< >>, <<"eof">>} :
          /\ y.output = o \o r /\ (r = <<"eof">> => y.eof /\ y.stdin = 0)
          /\ u.typed + x.stdin = u.taken + y.stdin
          /\ y.eof => u.closed
    BY <2>2, <2>3, <2>4
  <2>6. QED
    BY <2>5 DEF y, o
<1>4. QED
  BY <1>2, <1>3

LEMMA ClientSelectIn ==
  ASSUME IInv, IInv', InInv, ClientSelect
  PROVE  InInv'
<1>1. PICK accepts \in BOOLEAN, left \in Leftovers :
        LET ready == ClientReady(accepts)
            c1 == IF "connection in" \in ready THEN ClientReadConnection(c) ELSE c
            c2 == IF "stdin" \in ready THEN ClientReadStdin(c1) ELSE c1
            c3 == ClientWriteOut(c2, ready, left)
            writes == "connection out" \in ready
            c4 == IF writes THEN Written(c3, c2s) ELSE c3
            lost == writes /\ s.pc = "gone"
        IN  /\ c.pc = "select" /\ ready # {}
            /\ c' = [c4 EXCEPT !.pc = IF lost THEN "gone" ELSE IF c4.quit THEN "leave"
                                          ELSE "packets",
                                   !.exit = IF lost THEN "fatal" ELSE @]
            /\ c2s' = IF writes THEN Delivered(c3, c2s) ELSE c2s
            /\ s2c' = IF "connection in" \in ready THEN << >> ELSE s2c
            /\ u' = [u EXCEPT !.taken = IF "stdin" \in ready /\ ~c1.quit THEN u.typed ELSE @,
                              !.shown = [st \in Streams |-> @[st] + (c.buf[st] - c4.buf[st])]]
            /\ UNCHANGED <<s, p>>
  BY DEF ClientSelect
<1> DEFINE ready == ClientReady(accepts)
           c1 == IF "connection in" \in ready THEN ClientReadConnection(c) ELSE c
           c2 == IF "stdin" \in ready THEN ClientReadStdin(c1) ELSE c1
           c3 == ClientWriteOut(c2, ready, left)
           writes == "connection out" \in ready
           c4 == IF writes THEN Written(c3, c2s) ELSE c3
           lost == writes /\ s.pc = "gone"
           reads == "stdin" \in ready /\ ~c1.quit
           took == IF reads THEN u.typed ELSE u.taken
<1>2. /\ c \in ClientType(Allowed) /\ u \in UserType /\ InTypes
      /\ c2s \in Seq(ToServer) /\ Len(c2s) =< NetCap /\ s2c \in Seq(Allowed)
  BY InTyped DEF IInv, Typed
<1>3. c1 \in ClientType(Allowed) /\ SameInput(c, c1)
  BY <1>2, ClientReadConnectionOK, ClientReadConnectionIn DEF SameInput
<1>4. "stdin" \in ready => ~c.eof /\ (u.typed > u.taken \/ u.closed)
  BY DEF ClientReady, Streams
<1>5. /\ c' = [c4 EXCEPT !.pc = IF lost THEN "gone" ELSE IF c4.quit THEN "leave"
                                   ELSE "packets",
                         !.exit = IF lost THEN "fatal" ELSE c4.exit]
      /\ c2s' = IF writes THEN Delivered(c3, c2s) ELSE c2s
      /\ u'.taken = took /\ u'.typed = u.typed /\ u'.closed = u.closed
      /\ u'.session = u.session
      /\ UNCHANGED <<s, p>>
  BY <1>1, <1>2 DEF UserType
<1> HIDE DEF ready, c1
<1>6. c2 \in ClientType(Allowed)
  BY <1>2, <1>3, ClientReadStdinOK
<1>7. PICK q \in {<< >>, <<"eof">>} :
        /\ c2.output = c.output \o q /\ (q = <<"eof">> => c2.eof /\ c2.stdin = 0)
        /\ took + c.stdin = u.taken + c2.stdin
        /\ c.eof => c2.eof /\ q = << >> /\ c2.stdin = c.stdin
        /\ u.taken =< took /\ took =< u.typed
        /\ c2.eof => u.closed /\ took = u.typed
  <2>1. CASE reads
    <3> DEFINE y == ClientReadStdin(c1)
    <3>1. c2 = y /\ took = u.typed /\ ~c1.quit /\ ~c1.eof /\ (u.typed > u.taken \/ u.closed)
          /\ ~c.eof
      BY <1>3, <1>4, <2>1 DEF SameInput
    <3> HIDE DEF c2
    <3>2. TakenInOrder /\ u.taken =< u.typed
      BY DEF InInv, TakenInOrder
    <3>3. \E q \in {<< >>, <<"eof">>} :
            /\ y.output = c1.output \o q /\ (q = <<"eof">> => y.eof /\ y.stdin = 0)
            /\ u.typed + c1.stdin = u.taken + y.stdin
            /\ y.eof => u.closed
      BY <1>2, <1>3, <3>1, <3>2, ClientReadStdinIn
    <3> HIDE DEF y, took
    <3>4. u.typed =< u.typed
      BY <1>2 DEF InTypes
    <3>5. QED
      BY <1>3, <3>1, <3>2, <3>3, <3>4 DEF SameInput
  <2>2. CASE ~reads
    <3> DEFINE q == << >>
               o == c.output
    <3>1. c2 = c1 /\ took = u.taken
      BY <2>2 DEF ClientReadStdin
    <3>2. o \o q = o
      <4>1. o \in Seq(ToServer)
        BY <1>2 DEF InTypes
      <4> HIDE DEF o
      <4>2. QED
        BY <4>1, ConcatEmptySeq
    <3>3. c2.stdin = c.stdin /\ c2.eof = c.eof /\ c2.output = c.output
      BY <1>3, <3>1 DEF SameInput
    <3>4. /\ u.taken =< u.taken /\ u.taken =< u.typed /\ (c.eof => u.closed /\ u.taken = u.typed)
          /\ u.taken + c.stdin = u.taken + c.stdin
      BY <1>2 DEF InTypes, InInv, TakenInOrder
    <3>5. q # <<"eof">> /\ q \in {<< >>, <<"eof">>}
      OBVIOUS
    <3> HIDE DEF c2, took
    <3>6. /\ c2.output = c.output \o q /\ (q = <<"eof">> => c2.eof /\ c2.stdin = 0)
          /\ took + c.stdin = u.taken + c2.stdin
          /\ c.eof => c2.eof /\ q = << >> /\ c2.stdin = c.stdin
          /\ u.taken =< took /\ took =< u.typed
          /\ c2.eof => u.closed /\ took = u.typed
      BY <3>1, <3>2, <3>3, <3>4, <3>5
    <3>7. QED
      BY <3>5, <3>6
  <2>3. QED
    BY <2>1, <2>2
<1> HIDE DEF c2, took
<1>8. c3 \in ClientType(Allowed) /\ SameInput(c2, c3)
  <2>1. left \in [Streams -> Nat]
    BY <1>2, LeftoversOK DEF ClientType
  <2>2. QED
    BY <1>6, <2>1, ClientWriteOutOK, ClientWriteOutIn
<1> HIDE DEF c3
<1>9. c4 \in ClientType(Allowed) /\ c4.stdin = c3.stdin /\ c4.eof = c3.eof
  <2>1. Written(c3, c2s) \in ClientType(Allowed)
    BY <1>2, <1>8, ClientWrittenOK
  <2>2. Written(c3, c2s).stdin = c3.stdin /\ Written(c3, c2s).eof = c3.eof
    BY <1>8 DEF Written, ClientType
  <2>3. QED
    BY <1>8, <2>1, <2>2
<1>10. c4.output = IF writes THEN Written(c3, c2s).output ELSE c3.output
  OBVIOUS
<1> HIDE DEF c4, writes, lost
<1>11. c'.stdin = c2.stdin /\ c'.eof = c2.eof /\ c'.output = c4.output
  BY <1>5, <1>8, <1>9 DEF ClientType, SameInput
<1>12. /\ q \in Seq(ToServer) /\ Times(q, "stdin") = 0 /\ NoneAfter(q, "eof", {"stdin"})
       /\ In(q, "eof") => q = <<"eof">>
  BY <1>7, NoData
<1>13. ToServerLine' = ToServerLine \o q
  <2> DEFINE i == s.input
             a == i \o c2s
             o == c.output
  <2>1. i \in Seq(ToServer) /\ a \in Seq(ToServer) /\ o \in Seq(ToServer)
    BY <1>2, ConcatProperties DEF InTypes
  <2>2. (i \o c2s') \o c'.output = a \o c3.output
    <3>1. CASE writes
      <4>1. (i \o Delivered(c3, c2s)) \o Written(c3, c2s).output = (i \o c2s) \o c3.output
        BY <1>2, <1>8, <2>1, ClientWritingKeeps
      <4>2. QED
        BY <1>5, <1>10, <1>11, <3>1, <4>1
    <3>2. CASE ~writes
      BY <1>5, <1>10, <1>11, <3>2
    <3>3. QED
      BY <3>1, <3>2
  <2>3. c3.output = o \o q
    BY <1>7, <1>8 DEF SameInput
  <2>4. ToServerLine' = a \o (o \o q) /\ ToServerLine = a \o o
    BY <1>5, <2>2, <2>3 DEF ToServerLine
  <2> HIDE DEF i, a, o
  <2>5. (a \o o) \o q = a \o (o \o q)
    BY <1>12, <2>1, ConcatAssociative
  <2>6. QED
    BY <2>4, <2>5
<1>14. u'.taken + c.stdin = u.taken + c'.stdin + Times(q, "stdin")
  <2>1. c'.stdin \in Nat /\ u.taken \in Nat
    BY <1>2, InTypedNext DEF InTypes
  <2>2. QED
    BY <1>5, <1>7, <1>11, <1>12, <2>1
<1>15. TakenInOrder'
  BY <1>5, <1>7, <1>11 DEF TakenInOrder
<1>16. QED
  BY <1>5, <1>7, <1>11, <1>12, <1>13, <1>14, <1>15, InClient

LEMMA ClientFlushIn ==
  ASSUME IInv, IInv', InInv, ClientFlush
  PROVE  InInv'
<1>1. /\ UNCHANGED <<s, p, u, s2c>>
      /\ IF c.output = << >>
         THEN c' = [c EXCEPT !.pc = "leave", !.quit = TRUE] /\ UNCHANGED c2s
         ELSE /\ c' = IF s.pc = "gone" THEN [c EXCEPT !.pc = "gone", !.exit = "fatal"]
                      ELSE Written(c, c2s)
              /\ c2s' = Delivered(c, c2s)
  BY DEF ClientFlush
<1>2. /\ c \in ClientType(Allowed) /\ InTypes /\ Len(c2s) =< NetCap
  BY InTyped DEF IInv, Typed
<1>3. c'.stdin = c.stdin /\ c'.eof = c.eof
  BY <1>1, <1>2 DEF Written, ClientType
<1>4. Following' <=> Following
  BY <1>1 DEF Following, Looping, StdinRead, Linked, Kind
<1>5. CASE s.pc = "gone"
  <2>1. ~Following'
    BY <1>1, <1>5 DEF Following, Looping
  <2>2. QED
    BY <1>1, <1>3, <2>1, InOver
<1>6. CASE s.pc # "gone"
  <2>1. ToServerLine' = ToServerLine
    <3>1. CASE c.output = << >>
      <4>1. c'.output = c.output
        BY <1>1, <1>2, <3>1 DEF ClientType
      <4>2. QED
        BY <1>1, <3>1, <4>1 DEF ToServerLine
    <3>2. CASE c.output # << >>
      <4> DEFINE i == s.input
      <4>1. i \in Seq(ToServer) /\ c2s \in Seq(ToServer)
        BY <1>2 DEF InTypes
      <4>2. (i \o Delivered(c, c2s)) \o Written(c, c2s).output = (i \o c2s) \o c.output
        BY <1>2, <4>1, ClientWritingKeeps
      <4>3. QED
        BY <1>1, <1>6, <3>2, <4>2 DEF ToServerLine
    <3>3. QED
      BY <3>1, <3>2
  <2>2. QED
    BY <1>1, <1>3, <1>4, <2>1, InKept
<1>7. QED
  BY <1>5, <1>6

\* The other steps of the client and the user, with no input in them.
LEMMA ClientOthersIn ==
  ASSUME IInv, IInv', InInv, ClientLeave \/ ClientKilled \/ UserEndsForwarding
  PROVE  InInv'
<1>1. c \in ClientType(Allowed) /\ u \in UserType
  BY DEF IInv, Typed
<1>2. UNCHANGED <<s, p, c2s>>
  BY DEF ClientLeave, ClientKilled, UserEndsForwarding
<1>3. u'.typed = u.typed /\ u'.taken = u.taken /\ u'.closed = u.closed
      /\ u'.session = u.session
  BY <1>1 DEF ClientLeave, ClientKilled, UserEndsForwarding, UserType
<1>4. c'.stdin = c.stdin /\ c'.eof = c.eof /\ c'.output = c.output
  <2>1. CASE ClientLeave
    <3> DEFINE b == IF u.tty = "gone" THEN c.buf ELSE [st \in Streams |-> 0]
    <3>1. c' = [c EXCEPT !.pc = "gone", !.buf = b]
      BY <2>1 DEF ClientLeave
    <3> HIDE DEF b
    <3>2. QED
      BY <1>1, <3>1 DEF ClientType
  <2>2. CASE ClientKilled
    BY <1>1, <2>2 DEF ClientKilled, ClientType
  <2>3. CASE UserEndsForwarding
    BY <1>1, <2>3 DEF UserEndsForwarding, ClientType
  <2>4. QED
    BY <2>1, <2>2, <2>3
<1>5. ToServerLine' = ToServerLine /\ (Following' <=> Following)
  BY <1>2, <1>3, <1>4 DEF ToServerLine, Following, Looping, StdinRead, Linked, Kind
<1>6. QED
  BY <1>2, <1>3, <1>4, <1>5, InKept

-----------------------------------------------------------------------------
(* Input: the server's actions.                                            *)

\* The line without its head.
LEMMA LineTail ==
  ASSUME InTypes, s.input # << >>, NEW rest, rest = (Tail(s.input) \o c2s) \o c.output
  PROVE  /\ ToServerLine = <<Head(s.input)>> \o rest
         /\ rest \in Seq(ToServer) /\ Head(s.input) \in ToServer
         /\ <<Head(s.input)>> \in Seq(ToServer)
<1> DEFINE h == <<Head(s.input)>>
           t == Tail(s.input)
           b == c2s
           d == c.output
<1>1. /\ s.input \in Seq(ToServer) /\ b \in Seq(ToServer) /\ d \in Seq(ToServer)
      /\ Head(s.input) \in ToServer
  BY HeadTailProperties DEF InTypes
<1>2. h \in Seq(ToServer) /\ t \in Seq(ToServer) /\ s.input = h \o t
  BY <1>1, HeadAndTail
<1>3. ToServerLine = (s.input \o b) \o d /\ rest = (t \o b) \o d
  BY DEF ToServerLine
<1> HIDE DEF h, t, b, d
<1>4. t \o b \in Seq(ToServer) /\ (h \o t) \o b = h \o (t \o b)
  <2>1. t \o b \in Seq(ToServer)
    BY <1>1, <1>2, ConcatProperties
  <2>2. (h \o t) \o b = h \o (t \o b)
    BY SMTT(20), <1>1, <1>2, ConcatAssociative
  <2>3. QED
    BY <2>1, <2>2
<1> DEFINE f == t \o b
<1>5. f \o d \in Seq(ToServer) /\ (h \o f) \o d = h \o (f \o d)
  <2>1. f \in Seq(ToServer)
    BY <1>4
  <2> HIDE DEF f
  <2>2. QED
    BY <1>1, <1>2, <2>1, ConcatProperties, ConcatAssociative
<1>6. QED
  BY <1>1, <1>2, <1>3, <1>4, <1>5 DEF h

LEMMA ServerPacketIn ==
  ASSUME IInv, IInv', InInv, ServerPacket
  PROVE  InInv'
<1> DEFINE m == Head(s.input)
           rest == [s EXCEPT !.input = Tail(@)]
           line == (Tail(s.input) \o c2s) \o c.output
<1>1. /\ s.pc = "packets" /\ s.input # << >> /\ UNCHANGED <<c, p, u, c2s, s2c>>
      /\ s' = CASE m = "stdin" -> [rest EXCEPT !.stdin = IF s.fdin THEN @ + 1 ELSE @]
                [] m = "eof"   -> [rest EXCEPT !.stdin_eof = TRUE]
                [] m = "close" -> [rest EXCEPT !.forward = FALSE]
                [] OTHER -> [Send(rest, <<"disconnect">>)
                               EXCEPT !.pc = "flush", !.then = "gone", !.cause = "protocol error"]
  BY DEF ServerPacket
<1>2. s \in ServerType(Allowed) /\ InTypes
  BY InTyped DEF IInv, Typed
<1>3. /\ ToServerLine = <<m>> \o line /\ line \in Seq(ToServer) /\ m \in ToServer
      /\ <<m>> \in Seq(ToServer)
  BY <1>1, <1>2, LineTail
<1> HIDE DEF m, line
<1>4. \A x : /\ Times(ToServerLine, x) = Times(line, x) + (IF m = x THEN 1 ELSE 0)
             /\ Times(line, x) \in Nat
             /\ In(line, x) => In(ToServerLine, x)
  BY <1>3, HeadCounts
<1>5. TakenInOrder'
  BY <1>1 DEF InInv, TakenInOrder
<1>6. CASE m \notin {"stdin", "eof", "close"}
  <2>1. s' = [Send(rest, <<"disconnect">>)
                EXCEPT !.pc = "flush", !.then = "gone", !.cause = "protocol error"]
    BY <1>1, <1>6
  <2>2. s'.pc = "flush"
    BY <1>2, <2>1 DEF Send, ServerType
  <2>3. QED
    BY <1>5, <2>2 DEF InInv, Following, Looping
<1>7. CASE m \in {"stdin", "eof", "close"}
  <2> SUFFICES ASSUME Following' PROVE Accounted'
    BY <1>5 DEF InInv
  <2>1. /\ s'.input = Tail(s.input) /\ s'.fdin = s.fdin
        /\ s'.stdin = s.stdin + (IF m = "stdin" /\ s.fdin THEN 1 ELSE 0)
        /\ s'.stdin_eof <=> s.stdin_eof \/ m = "eof"
    <3>1. s.stdin \in Nat
      BY <1>2 DEF InTypes
    <3>2. CASE m = "stdin"
      <4>1. s' = [rest EXCEPT !.stdin = IF s.fdin THEN @ + 1 ELSE @]
        BY <1>1, <3>2
      <4>2. /\ s'.input = Tail(s.input) /\ s'.fdin = s.fdin
            /\ s'.stdin = (IF s.fdin THEN s.stdin + 1 ELSE s.stdin)
            /\ s'.stdin_eof = s.stdin_eof
        BY <1>2, <4>1 DEF ServerType
      <4>3. QED
        BY <3>1, <3>2, <4>2
    <3>3. CASE m = "eof"
      <4>1. s' = [rest EXCEPT !.stdin_eof = TRUE]
        BY <1>1, <3>3
      <4>2. /\ s'.input = Tail(s.input) /\ s'.fdin = s.fdin
            /\ s'.stdin = s.stdin /\ s'.stdin_eof
        BY <1>2, <4>1 DEF ServerType
      <4>3. QED
        BY <3>1, <3>3, <4>2
    <3>4. CASE m = "close"
      <4>1. s' = [rest EXCEPT !.forward = FALSE]
        BY <1>1, <3>4
      <4>2. /\ s'.input = Tail(s.input) /\ s'.fdin = s.fdin
            /\ s'.stdin = s.stdin /\ s'.stdin_eof = s.stdin_eof
        BY <1>2, <4>1 DEF ServerType
      <4>3. QED
        BY <3>1, <3>4, <4>2
    <3>5. QED
      BY <1>7, <3>2, <3>3, <3>4
  <2>2. Accounted
    BY <1>1 DEF InInv, Following, Looping, StdinRead, Linked, Kind
  <2>3. ToServerLine' = line
    BY <1>1, <2>1 DEF ToServerLine, line
  <2>4. /\ NoneAfter(line, "eof", {"stdin"})
        /\ m = "eof" => Times(line, "stdin") = 0
    <3>1. /\ NoneAfter(line, "eof", {"stdin"})
          /\ m = "eof" => \A i \in DOMAIN line : line[i] \notin {"stdin"}
      BY <1>3, <2>2, NoneAfterHead DEF Accounted
    <3>2. m = "eof" => ~In(line, "stdin")
      BY <3>1 DEF In
    <3>3. QED
      BY <1>3, <3>1, <3>2, TimesOK
  <2>5. m = "eof" => In(ToServerLine, "eof")
    <3>1. m = "eof" => Times(ToServerLine, "eof") # 0
      BY <1>4
    <3>2. ToServerLine \in Seq(ToServer)
      BY <1>2, LineOK
    <3>3. QED
      BY <3>1, <3>2, TimesOK
  <2>6. m = "stdin" => s.fdin /\ ~s.stdin_eof
    <3>1. m = "stdin" => Times(ToServerLine, "stdin") # 0
      BY <1>4
    <3>2. QED
      BY <2>2, <3>1 DEF Accounted
  <2>7. u.taken = c.stdin + Times(line, "stdin") + s'.stdin + p.stdin + p.read
    <3>1. PICK e \in {0, 1} : /\ Times(ToServerLine, "stdin") = Times(line, "stdin") + e
                              /\ s'.stdin = s.stdin + e
      BY <1>2, <1>4, <2>1, <2>6 DEF InTypes
    <3>2. PICK t \in Nat, a \in Nat, b \in Nat, g \in Nat, h \in Nat :
             /\ t = Times(line, "stdin") /\ a = c.stdin /\ b = s.stdin /\ g = p.stdin
             /\ h = p.read
      BY <1>2, <1>4 DEF InTypes
    <3>3. u.taken = a + (t + e) + b + g + h
      BY <2>2, <3>1, <3>2 DEF Accounted
    <3>4. u.taken = a + t + (b + e) + g + h
      BY <3>3
    <3>5. QED
      BY <3>1, <3>2, <3>4
  <2>8. s'.stdin_eof \/ In(line, "eof") => c.eof /\ c.stdin = 0
    BY <1>4, <2>1, <2>2, <2>5 DEF Accounted
  <2>9. s'.stdin_eof => Times(line, "stdin") = 0
    BY <1>4, <2>1, <2>2, <2>4, <2>6 DEF Accounted
  <2>10. ~s'.fdin => s'.stdin_eof /\ s'.stdin = 0
    <3>1. SUFFICES ASSUME ~s'.fdin PROVE s'.stdin_eof /\ s'.stdin = 0
      OBVIOUS
    <3>2. ~s.fdin /\ s.stdin_eof /\ s.stdin = 0
      BY <2>1, <2>2, <3>1 DEF Accounted
    <3>3. s'.stdin = 0 + 0
      BY <2>1, <3>2
    <3>4. QED
      BY <2>1, <3>2, <3>3
  <2>11. /\ Times(ToServerLine, "stdin")' = Times(line, "stdin")
         /\ NoneAfter(ToServerLine, "eof", {"stdin"})' <=> NoneAfter(line, "eof", {"stdin"})
         /\ In(ToServerLine, "eof")' <=> In(line, "eof")
    BY <2>3 DEF Times, NoneAfter, In
  <2>12. QED
    BY <1>1, <2>1, <2>2, <2>4, <2>7, <2>8, <2>9, <2>10, <2>11 DEF Accounted
<1>8. QED
  BY <1>6, <1>7

\* Making packets for the client takes nothing from the program.
SameProgramInput(x, y) ==
  y.input = x.input /\ y.stdin = x.stdin /\ y.stdin_eof = x.stdin_eof /\ y.fdin = x.fdin

LEMMA MakePacketsIn ==
  ASSUME NEW M, NEW x \in ServerType(M), NEW st
  PROVE  SameProgramInput(x, MakePackets(x, st))
<1> DEFINE k == Sendable(x, x.buf[st])
           q == Copies(st, k)
           y == Send(x, q)
           z == MakePackets(x, st)
<1>1. z = [y EXCEPT !.buf[st] = @ - k]
  BY DEF MakePackets
<1> HIDE DEF k, q, z
<1>2. SameProgramInput(x, z)
  BY <1>1 DEF Send, ServerType, SameProgramInput
<1>3. QED
  BY <1>2 DEF z

LEMMA MakeStdoutPacketsIn ==
  ASSUME NEW M, Says(M), NEW x \in ServerType(M)
  PROVE  SameProgramInput(x, MakeStdoutPackets(x))
<1> DEFINE y == MakePackets(x, "stdout")
           z == MakeStdoutPackets(x)
<1>1. y \in ServerType(M) /\ SameProgramInput(x, y)
  BY MakePacketsOK, MakePacketsIn DEF Streams
<1>2. \/ z = [x EXCEPT !.timeout = "17ms", !.previous = x.buf["stdout"]]
      \/ z = [y EXCEPT !.timeout = "none", !.previous = y.buf["stdout"]]
  BY DEF MakeStdoutPackets
<1> HIDE DEF y, z
<1>3. CASE z = [x EXCEPT !.timeout = "17ms", !.previous = x.buf["stdout"]]
  BY <1>3 DEF ServerType, SameProgramInput, z
<1>4. CASE z = [y EXCEPT !.timeout = "none", !.previous = y.buf["stdout"]]
  <2>1. SameProgramInput(y, z)
    BY <1>1, <1>4 DEF ServerType, SameProgramInput
  <2>2. QED
    BY <1>1, <2>1 DEF SameProgramInput, z
<1>5. QED
  BY <1>2, <1>3, <1>4

\* Sending the notice and setting the descriptors of a session aside, the same.
LEMMA NoticeIn ==
  ASSUME NEW M, NEW x \in ServerType(M)
  PROVE  SameProgramInput(x, Notice(x))
BY DEF Notice, ServerType, SameProgramInput

LEMMA ServerMakePacketsIn ==
  ASSUME IInv, IInv', InInv, ServerMakePackets
  PROVE  InInv'
<1> DEFINE a == CloseStdin(s)
           b == MakePackets(a, "stderr")
           x == MakeStdoutPackets(b)
           y == Notice(x)
<1>1. /\ s.pc = "packets" /\ UNCHANGED <<c, p, u, c2s, s2c>>
      /\ s' = IF Finished(x) /\ ~x.forward
              THEN [x EXCEPT !.pc = "flush", !.then = "ended"]
              ELSE [y EXCEPT !.pc = "sets", !.just = FALSE]
  BY DEF ServerMakePackets
<1>2. s \in ServerType(Allowed) /\ InTypes /\ Says(Allowed) /\ "stderr" \in Streams
  BY InTyped, AllowedPackets DEF IInv, Typed, Says, Streams
<1>3. /\ a \in ServerType(Allowed) /\ a.input = s.input /\ a.stdin = s.stdin
      /\ a.stdin_eof = s.stdin_eof
      /\ a.fdin = s.fdin \/ (s.stdin_eof /\ s.stdin = 0 /\ a.fdin = FALSE)
  <2>1. a \in ServerType(Allowed)
    BY <1>2, CloseStdinOK
  <2>2. a = s \/ (s.stdin_eof /\ s.stdin = 0 /\ a = [s EXCEPT !.fdin = FALSE])
    BY DEF CloseStdin
  <2> HIDE DEF a
  <2>3. QED
    BY <1>2, <2>1, <2>2 DEF ServerType
<1> HIDE DEF a
<1>4. b \in ServerType(Allowed) /\ SameProgramInput(a, b)
  BY <1>2, <1>3, MakePacketsOK, MakePacketsIn
<1> HIDE DEF b
<1>5. x \in ServerType(Allowed) /\ SameProgramInput(b, x)
  BY <1>2, <1>4, MakeStdoutPacketsOK, MakeStdoutPacketsIn
<1> HIDE DEF x
<1>6. y \in ServerType(Allowed) /\ SameProgramInput(x, y)
  BY <1>5, NoticeOK, NoticeIn
<1> HIDE DEF y
<1>7. SameProgramInput(a, s')
  <2>1. CASE s' = [x EXCEPT !.pc = "flush", !.then = "ended"]
    <3>1. SameProgramInput(x, s')
      BY <1>5, <2>1 DEF ServerType, SameProgramInput
    <3>2. QED
      BY <1>4, <1>5, <3>1 DEF SameProgramInput
  <2>2. CASE s' = [y EXCEPT !.pc = "sets", !.just = FALSE]
    <3>1. SameProgramInput(y, s')
      BY <1>6, <2>2 DEF ServerType, SameProgramInput
    <3>2. QED
      BY <1>4, <1>5, <1>6, <3>1 DEF SameProgramInput
  <2>3. QED
    BY <1>1, <2>1, <2>2
<1>8. ToServerLine' = ToServerLine
  BY <1>1, <1>3, <1>7 DEF ToServerLine, SameProgramInput
<1>9. Following' => Following
  BY <1>1 DEF Following, Looping, StdinRead, Linked, Kind
<1>10. /\ s'.stdin = s.stdin /\ s'.stdin_eof = s.stdin_eof
       /\ s'.fdin = s.fdin \/ (s.stdin_eof /\ s.stdin = 0 /\ s'.fdin = FALSE)
  BY <1>3, <1>7 DEF SameProgramInput
<1>11. QED
  BY <1>1, <1>8, <1>9, <1>10, InKept

LEMMA ServerSelectIn ==
  ASSUME IInv, IInv', InInv, ServerSelect
  PROVE  InInv'
<1> DEFINE ready  == ServerReady
           reads  == "connection in" \in ready
           writes == "connection out" \in ready
           s1     == IF reads THEN [s EXCEPT !.input = @ \o c2s] ELSE s
           r      == ReadProgram(s1, ready)
           s2     == WriteProgram(r, ready)
           fatal  == (reads /\ c2s = << >>) \/ (writes /\ c.pc = "gone")
           feeds  == "fdin" \in ready
<1>1. /\ s.pc = "select"
      /\ s' = IF fatal THEN [s EXCEPT !.pc = "gone", !.cause = "connection lost"]
              ELSE [(IF writes THEN Written(s2, s2c) ELSE s2) EXCEPT !.pc = "packets"]
      /\ p' = [p EXCEPT !.out = [st \in Streams |-> IF st \in ready THEN 0 ELSE @[st]],
                        !.stdin = IF feeds /\ StdinRead THEN @ + ToProgram ELSE @]
      /\ c2s' = IF reads THEN << >> ELSE c2s
      /\ UNCHANGED <<c, u>>
  BY DEF ServerSelect
<1>2. /\ s \in ServerType(Allowed) /\ InTypes /\ p \in ProgramType
      /\ c2s \in Seq(ToServer) /\ s2c \in Seq(Allowed) /\ Len(s2c) =< NetCap
  BY InTyped DEF IInv, Typed
<1>3. feeds => s.fdin
  BY DEF ServerReady, Streams
<1>4. /\ p'.open = p.open /\ p'.child = p.child /\ p'.sawEof = p.sawEof /\ p'.read = p.read
      /\ p'.stdin = IF feeds /\ StdinRead THEN p.stdin + ToProgram ELSE p.stdin
  BY <1>1, <1>2 DEF ProgramType
<1>5. /\ s1 \in ServerType(Allowed) /\ s1.stdin = s.stdin /\ s1.stdin_eof = s.stdin_eof
      /\ s1.fdin = s.fdin
      /\ s1.input = IF reads THEN s.input \o c2s ELSE s.input
  <2> DEFINE q == s.input \o c2s
             z == [s EXCEPT !.input = q]
  <2>1. q \in Seq(ToServer)
    BY <1>2, ConcatProperties DEF ServerType
  <2>2. IF reads THEN s1 = z ELSE s1 = s
    BY <1>2 DEF ServerType
  <2> HIDE DEF q, s1
  <2>3. /\ z \in ServerType(Allowed) /\ z.stdin = s.stdin /\ z.stdin_eof = s.stdin_eof
        /\ z.fdin = s.fdin /\ z.input = q
    BY ZenonT(40), <1>2, <2>1 DEF ServerType
  <2> HIDE DEF z
  <2>4. QED
    BY <1>2, <2>2, <2>3 DEF q
<1> HIDE DEF s1, ready
<1>6. r \in ServerType(Allowed) /\ SameProgramInput(s1, r)
  <2>1. r \in ServerType(Allowed)
    BY <1>2, <1>5, ReadProgramOK
  <2>2. r = [s1 EXCEPT
               !.buf = [st \in Streams |-> IF st \in ready THEN @[st] + p.out[st] ELSE @[st]],
               !.eof = [st \in Streams |-> @[st] \/ (st \in ready /\ p.out[st] = 0)]]
    BY DEF ReadProgram
  <2> HIDE DEF r
  <2>3. QED
    BY ZenonT(40), <1>5, <2>1, <2>2 DEF ServerType, SameProgramInput
<1> HIDE DEF r
<1>7. /\ s2 \in ServerType(Allowed) /\ ToProgram \in Nat
      /\ s2.input = r.input /\ s2.stdin_eof = r.stdin_eof
      /\ s2.stdin = IF feeds /\ StdinRead THEN s.stdin - ToProgram ELSE s.stdin
      /\ ~feeds \/ StdinRead => s2.fdin = s.fdin
  <2>1. s2 \in ServerType(Allowed) /\ ToProgram \in Nat
    BY <1>2, <1>5, <1>6, WriteProgramOK DEF SameProgramInput
  <2>2. CASE ~feeds
    <3>1. s2 = r
      BY <2>2 DEF WriteProgram
    <3>2. QED
      BY <1>5, <1>6, <2>1, <2>2, <3>1 DEF SameProgramInput
  <2>3. CASE feeds /\ StdinRead
    <3>1. s2 = [r EXCEPT !.stdin = @ - ToProgram]
      BY <2>3 DEF WriteProgram
    <3> HIDE DEF s2
    <3>2. s2.input = r.input /\ s2.stdin_eof = r.stdin_eof /\ s2.stdin = r.stdin - ToProgram
          /\ s2.fdin = r.fdin
      BY <1>6, <3>1 DEF ServerType
    <3>3. QED
      BY <1>5, <1>6, <2>1, <2>3, <3>2 DEF SameProgramInput
  <2>4. CASE feeds /\ ~StdinRead
    <3>1. s2 = [r EXCEPT !.fdin = FALSE]
      BY <2>4 DEF WriteProgram
    <3> HIDE DEF s2
    <3>2. s2.input = r.input /\ s2.stdin_eof = r.stdin_eof /\ s2.stdin = r.stdin
      BY <1>6, <3>1 DEF ServerType
    <3>3. QED
      BY <1>5, <1>6, <2>1, <2>4, <3>2 DEF SameProgramInput
  <2>5. QED
    BY <2>2, <2>3, <2>4
<1> HIDE DEF s2
<1>8. TakenInOrder'
  BY <1>1 DEF InInv, TakenInOrder
<1>9. CASE fatal
  <2>1. s'.pc = "gone"
    BY <1>1, <1>2, <1>9 DEF ServerType
  <2>2. QED
    BY <1>8, <2>1 DEF InInv, Following, Looping
<1>10. CASE ~fatal
  <2> SUFFICES ASSUME Following' PROVE Accounted'
    BY <1>8 DEF InInv
  <2>1. SameProgramInput(s2, s')
    <3> DEFINE w == IF writes THEN Written(s2, s2c) ELSE s2
    <3>1. w \in ServerType(Allowed) /\ SameProgramInput(s2, w)
      <4>1. Written(s2, s2c) \in ServerType(Allowed)
        BY <1>2, <1>7, ServerWrittenOK
      <4>2. SameProgramInput(s2, Written(s2, s2c)) /\ SameProgramInput(s2, s2)
        BY <1>7 DEF Written, ServerType, SameProgramInput
      <4>3. QED
        BY <1>7, <4>1, <4>2
    <3>2. s' = [w EXCEPT !.pc = "packets"]
      BY <1>1, <1>10
    <3> HIDE DEF w
    <3>3. SameProgramInput(w, s')
      BY <3>1, <3>2 DEF ServerType, SameProgramInput
    <3>4. QED
      BY <3>1, <3>3 DEF SameProgramInput
  <2>2. Accounted /\ (StdinRead \/ p.sawEof)
    BY <1>1, <1>4 DEF InInv, Following, Looping, StdinRead, Linked, Kind
  <2>3. feeds => StdinRead /\ ~p.sawEof
    BY <1>3, <2>2 DEF Accounted
  <2>4. /\ s'.stdin_eof = s.stdin_eof /\ s'.fdin = s.fdin
        /\ s'.stdin = IF feeds THEN s.stdin - ToProgram ELSE s.stdin
        /\ s'.input = IF reads THEN s.input \o c2s ELSE s.input
        /\ p'.stdin = IF feeds THEN p.stdin + ToProgram ELSE p.stdin
    BY <1>4, <1>5, <1>6, <1>7, <2>1, <2>3 DEF SameProgramInput
  <2>5. ToServerLine' = ToServerLine
    <3> DEFINE a == s.input \o c2s
    <3>1. s'.input \o c2s' = a
      <4>1. CASE reads
        <5>1. a \in Seq(ToServer)
          BY <1>2, ConcatProperties DEF InTypes
        <5> HIDE DEF a
        <5>2. a \o << >> = a
          BY <5>1, ConcatEmptySeq
        <5>3. s'.input = a /\ c2s' = << >>
          BY <1>1, <2>4, <4>1 DEF a
        <5>4. QED
          BY <5>2, <5>3
      <4>2. CASE ~reads
        BY <1>1, <2>4, <4>2
      <4>3. QED
        BY <4>1, <4>2
    <3>2. QED
      BY <1>1, <3>1 DEF ToServerLine
  <2>6. /\ Times(ToServerLine, "stdin")' = Times(ToServerLine, "stdin")
        /\ NoneAfter(ToServerLine, "eof", {"stdin"})' <=> NoneAfter(ToServerLine, "eof", {"stdin"})
        /\ In(ToServerLine, "eof")' <=> In(ToServerLine, "eof")
    BY <2>5 DEF Times, NoneAfter, In
  <2>7. u.taken = c.stdin + Times(ToServerLine, "stdin") + s'.stdin + p'.stdin + p.read
    <3>1. Times(ToServerLine, "stdin") \in Nat
      BY <1>2, LineOK, TimesOK
    <3>2. PICK t \in Nat, a \in Nat, b \in Nat, g \in Nat, h \in Nat, k \in Nat :
             /\ t = Times(ToServerLine, "stdin") /\ a = c.stdin /\ b = s.stdin /\ g = p.stdin
             /\ h = p.read /\ k = ToProgram
      BY <1>2, <1>7, <3>1 DEF InTypes
    <3>3. u.taken = a + t + b + g + h
      BY <2>2, <3>2 DEF Accounted
    <3>4. CASE feeds
      <4>1. u.taken = a + t + (b - k) + (g + k) + h
        BY <3>3
      <4>2. s'.stdin = b - k /\ p'.stdin = g + k
        BY <2>4, <3>2, <3>4
      <4>3. QED
        BY <3>2, <4>1, <4>2
    <3>5. CASE ~feeds
      BY <2>4, <3>2, <3>3, <3>5
    <3>6. QED
      BY <3>4, <3>5
  <2>8. ~s'.fdin => s'.stdin_eof /\ s'.stdin = 0
    BY <1>3, <2>2, <2>4 DEF Accounted
  <2>9. p.sawEof => ~s'.fdin /\ p'.stdin = 0
    BY <2>2, <2>3, <2>4 DEF Accounted
  <2>10. QED
    BY <1>1, <1>4, <2>2, <2>4, <2>6, <2>7, <2>8, <2>9 DEF Accounted
<1>11. QED
  BY <1>9, <1>10

\* The descriptors of the program are shut down only when it has ended.
LEMMA ServerNothingIn ==
  ASSUME IInv, IInv', InInv, ServerNothing
  PROVE  InInv'
<1> DEFINE y == ShutdownChild(s)
<1>1. UNCHANGED <<c, p, u, c2s, s2c>> /\ s.pc = "select"
      /\ s' = [y EXCEPT !.pc = "packets", !.interrupted = FALSE]
  BY DEF ServerNothing
<1>2. s \in ServerType(Allowed)
  BY DEF IInv, Typed
<1>3. CASE s.terminated
  <2>1. ~Following'
    BY <1>1, <1>3 DEF IInv, Reaping, Following
  <2>2. QED
    BY <1>1, <2>1, InOver
<1>4. CASE ~s.terminated
  <2>1. y = s
    BY <1>4 DEF ShutdownChild
  <2> HIDE DEF y
  <2>2. SameProgramInput(s, s')
    BY <1>1, <1>2, <2>1 DEF ServerType, SameProgramInput
  <2>3. ToServerLine' = ToServerLine
    BY <1>1, <2>2 DEF ToServerLine, SameProgramInput
  <2>4. Following' => Following
    BY <1>1 DEF Following, Looping, StdinRead, Linked, Kind
  <2>5. QED
    BY <1>1, <2>2, <2>3, <2>4, InKept DEF SameProgramInput
<1>5. QED
  BY <1>3, <1>4

\* The steps of the server that leave the input alone.
LEMMA ServerOthersIn ==
  ASSUME IInv, IInv', InInv, ServerStart \/ ServerSets \/ SigChld
  PROVE  InInv'
<1>1. s \in ServerType(Allowed) /\ p \in ProgramType
  BY DEF IInv, Typed
<1>2. UNCHANGED <<c, u, c2s>>
  BY DEF ServerStart, ServerSets, SigChld
<1>3. SameProgramInput(s, s') /\ (Looping' => Looping)
  <2>1. CASE ServerStart
    BY <1>1, <2>1 DEF ServerStart, ServerType, SameProgramInput, Looping
  <2>2. CASE ServerSets
    BY <1>1, <2>2 DEF ServerSets, ServerType, SameProgramInput, Looping
  <2>3. CASE SigChld
    BY <1>1, <2>3 DEF SigChld, ServerType, SameProgramInput, Looping
  <2>4. QED
    BY <2>1, <2>2, <2>3
<1>4. /\ p'.stdin = p.stdin /\ p'.read = p.read /\ p'.sawEof = p.sawEof
      /\ p'.open = p.open /\ p'.child = p.child
  BY <1>1 DEF ServerStart, ServerSets, SigChld, ProgramType
<1>5. ToServerLine' = ToServerLine
  BY <1>2, <1>3 DEF ToServerLine, SameProgramInput
<1>6. Following' => Following
  BY <1>2, <1>3, <1>4 DEF Following, StdinRead, Linked, Kind
<1>7. QED
  BY <1>2, <1>3, <1>4, <1>5, <1>6, InKept DEF SameProgramInput

\* After its loop the server does not come back to it.
LEMMA ServerAfterLoopIn ==
  ASSUME IInv, IInv', InInv,
         ServerFlush \/ ServerEnded \/ ServerStatus \/ ServerWait \/ ServerConfirm
  PROVE  InInv'
<1>1. s \in ServerType(Allowed)
  BY DEF IInv, Typed
<1>2. UNCHANGED <<c, u>>
  BY DEF ServerFlush, ServerEnded, ServerStatus, ServerWait, ServerConfirm
<1>3. Report(s).pc = "flush"
  BY <1>1 DEF Report, Send, ServerType
<1>4. ~Looping'
  <2>1. CASE ServerFlush
    <3>1. s.pc = "flush" /\ s.then \in {"ended", "confirm", "gone"}
      BY <1>1, <2>1 DEF ServerFlush, IInv, Flushing, ServerType
    <3>2. s' \in {[s EXCEPT !.pc = s.then], [s EXCEPT !.pc = "gone", !.cause = "connection lost"],
                  Written(s, s2c)}
      BY <2>1 DEF ServerFlush
    <3>3. s'.pc \in {"flush", "ended", "confirm", "gone"}
      BY <1>1, <3>1, <3>2 DEF Written, ServerType
    <3>4. QED
      BY <3>3 DEF Looping
  <2>2. CASE ServerEnded
    <3>1. s'.pc = "status"
      BY <1>1, <2>2 DEF ServerEnded, ServerType
    <3>2. QED
      BY <3>1 DEF Looping
  <2>3. CASE ServerStatus
    <3>1. s' \in {Report(s), [s EXCEPT !.pc = "wait"]}
      BY <2>3 DEF ServerStatus
    <3>2. s'.pc \in {"flush", "wait"}
      BY <1>1, <1>3, <3>1 DEF ServerType
    <3>3. QED
      BY <3>2 DEF Looping
  <2>4. CASE ServerWait
    <3>1. s' \in {Report(s), [Send(s, <<"disconnect">>) EXCEPT !.pc = "flush", !.then = "gone",
                                                              !.cause = "wait failed"]}
      BY <2>4 DEF ServerWait
    <3>2. s'.pc = "flush"
      BY <1>1, <1>3, <3>1 DEF Send, ServerType
    <3>3. QED
      BY <3>2 DEF Looping
  <2>5. CASE ServerConfirm
    <3>1. s'.pc \in {"confirm", "gone"}
      BY <1>1, <2>5 DEF ServerConfirm, ServerType
    <3>2. QED
      BY <3>1 DEF Looping
  <2>6. QED
    BY <2>1, <2>2, <2>3, <2>4, <2>5
<1>5. QED
  BY <1>2, <1>4, InOver DEF Following

-----------------------------------------------------------------------------
(* Input: the program and the user.                                        *)

LEMMA ProgramReadsIn ==
  ASSUME IInv, IInv', InInv, ProgramReads
  PROVE  InInv'
<1>1. /\ "stdin" \in p.open /\ UNCHANGED <<c, s, u, c2s, s2c>>
      /\ p.stdin > 0 \/ (InputEnded /\ ~p.sawEof)
      /\ p' = IF p.stdin > 0 THEN [p EXCEPT !.read = @ + p.stdin, !.stdin = 0]
              ELSE [p EXCEPT !.sawEof = TRUE]
  BY DEF ProgramReads
<1>2. p \in ProgramType /\ InTypes
  BY InTyped DEF IInv, Typed
<1>3. p'.open = p.open /\ p'.child = p.child
  BY <1>1, <1>2 DEF ProgramType
<1>4. ToServerLine' = ToServerLine
  BY <1>1 DEF ToServerLine
<1>5. Following' => Following
  BY <1>1, <1>3 DEF Following, Looping, StdinRead
<1>6. CASE p.stdin > 0
  <2>1. p' = [p EXCEPT !.read = @ + p.stdin, !.stdin = 0]
    BY <1>1, <1>6
  <2>2. p'.stdin = 0 /\ p'.read = p.read + p.stdin /\ p'.sawEof = p.sawEof
    BY <1>2, <2>1 DEF ProgramType
  <2>3. TakenInOrder'
    BY <1>1 DEF InInv, TakenInOrder
  <2> SUFFICES ASSUME Following' PROVE Accounted'
    BY <2>3 DEF InInv
  <2>4. Accounted
    BY <1>5 DEF InInv
  <2>5. /\ Times(ToServerLine, "stdin")' = Times(ToServerLine, "stdin")
        /\ NoneAfter(ToServerLine, "eof", {"stdin"})' <=> NoneAfter(ToServerLine, "eof", {"stdin"})
        /\ In(ToServerLine, "eof")' <=> In(ToServerLine, "eof")
    BY <1>4 DEF Times, NoneAfter, In
  <2>6. u.taken = c.stdin + Times(ToServerLine, "stdin") + s.stdin + p'.stdin + p'.read
    <3>1. Times(ToServerLine, "stdin") \in Nat
      BY <1>2, LineOK, TimesOK
    <3>2. PICK t \in Nat, a \in Nat, b \in Nat, g \in Nat, h \in Nat :
             /\ t = Times(ToServerLine, "stdin") /\ a = c.stdin /\ b = s.stdin /\ g = p.stdin
             /\ h = p.read
      BY <1>2, <3>1 DEF InTypes
    <3>3. u.taken = a + t + b + g + h
      BY <2>4, <3>2 DEF Accounted
    <3>4. u.taken = a + t + b + 0 + (h + g)
      BY <3>3
    <3>5. QED
      BY <2>2, <3>2, <3>4
  <2>7. QED
    BY <1>1, <2>2, <2>4, <2>5, <2>6 DEF Accounted
<1>7. CASE ~(p.stdin > 0)
  <2>1. p' = [p EXCEPT !.sawEof = TRUE] /\ ~s.fdin
    BY <1>1, <1>7 DEF InputEnded
  <2>2. p'.stdin = p.stdin /\ p'.read = p.read /\ p.stdin = 0
    BY <1>2, <1>7, <2>1 DEF ProgramType, InTypes
  <2>3. QED
    BY <1>1, <1>4, <1>5, <2>1, <2>2, InKept
<1>8. QED
  BY <1>6, <1>7

LEMMA ProgramOthersIn ==
  ASSUME IInv, IInv', InInv,
         \/ \E st \in Streams : ProgramWrites(st)
         \/ \E d \in Streams \cup {"stdin"} : ProgramCloses(d)
         \/ \E how \in {"exited", "killed"}, left \in SUBSET (Streams \cup {"stdin"}) :
              ChildEnds(how, left)
  PROVE  InInv'
<1>1. p \in ProgramType
  BY DEF IInv, Typed
<1>2. UNCHANGED <<c, s, u, c2s, s2c>>
  BY DEF ProgramWrites, ProgramCloses, ChildEnds
<1>3. ToServerLine' = ToServerLine
  BY <1>2 DEF ToServerLine
<1>4. CASE \E st \in Streams : ProgramWrites(st)
  <2>1. PICK st \in Streams : ProgramWrites(st)
    BY <1>4
  <2>2. p' = [p EXCEPT !.out[st] = @ + 1, !.wrote[st] = @ + 1]
    BY <2>1 DEF ProgramWrites
  <2>3. /\ p'.stdin = p.stdin /\ p'.read = p.read /\ p'.sawEof = p.sawEof
        /\ p'.open = p.open /\ p'.child = p.child
    BY <1>1, <2>2 DEF ProgramType
  <2>4. Following' => Following
    BY <1>2, <2>3 DEF Following, Looping, StdinRead, Linked, Kind
  <2>5. QED
    BY <1>2, <1>3, <2>3, <2>4, InKept
<1>5. CASE \E d \in Streams \cup {"stdin"} : ProgramCloses(d)
  <2>1. PICK d \in Streams \cup {"stdin"} : ProgramCloses(d)
    BY <1>5
  <2>2. p' = [p EXCEPT !.open = @ \ {d}]
    BY <2>1 DEF ProgramCloses
  <2>3. /\ p'.stdin = p.stdin /\ p'.read = p.read /\ p'.sawEof = p.sawEof
        /\ p'.open \subseteq p.open /\ p'.child = p.child
    BY <1>1, <2>2 DEF ProgramType
  <2>4. Following' => Following
    BY <1>2, <2>3 DEF Following, Looping, StdinRead, Linked, Kind
  <2>5. QED
    BY <1>2, <1>3, <2>3, <2>4, InKept
<1>6. CASE \E how \in {"exited", "killed"}, left \in SUBSET (Streams \cup {"stdin"}) :
             ChildEnds(how, left)
  <2>1. PICK how \in {"exited", "killed"}, left \in SUBSET (Streams \cup {"stdin"}) :
           ChildEnds(how, left)
    BY <1>6
  <2>2. p' = [p EXCEPT !.child = how, !.open = left, !.signal = s.handler]
    BY <2>1 DEF ChildEnds
  <2>3. p'.child = how /\ how # "running"
    BY <1>1, <2>2 DEF ProgramType
  <2>4. QED
    BY <1>2, <2>3, InOver DEF Following
<1>7. QED
  BY <1>4, <1>5, <1>6

LEMMA UserIn ==
  ASSUME IInv, IInv', InInv, UserTypes \/ UserEndsInput \/ UserHangsUp
  PROVE  InInv'
<1>1. u \in UserType /\ InTypes
  BY InTyped DEF IInv, Typed
<1>2. UNCHANGED <<c, s, p, c2s, s2c>>
  BY DEF UserTypes, UserEndsInput, UserHangsUp
<1>3. u'.taken = u.taken /\ u'.session = u.session
  BY <1>1 DEF UserTypes, UserEndsInput, UserHangsUp, UserType
<1>4. ToServerLine' = ToServerLine /\ (Following' <=> Following)
  BY <1>2, <1>3 DEF ToServerLine, Following, Looping, StdinRead, Linked, Kind
<1>5. CASE UserTypes
  <2>1. u' = [u EXCEPT !.typed = @ + 1] /\ ~u.closed
    BY <1>5 DEF UserTypes
  <2>2. u'.typed = u.typed + 1
    BY <1>1, <2>1 DEF UserType
  <2>3. ~c.eof
    BY <2>1 DEF InInv, TakenInOrder
  <2>4. TakenInOrder'
    <3>1. u.taken \in Nat /\ u.typed \in Nat /\ u.taken =< u.typed
      BY <1>1 DEF InTypes, InInv, TakenInOrder
    <3>2. u'.taken =< u'.typed
      BY <1>3, <2>2, <3>1
    <3>3. QED
      BY <1>2, <2>3, <3>2 DEF TakenInOrder
  <2>5. /\ Times(ToServerLine, "stdin")' = Times(ToServerLine, "stdin")
        /\ NoneAfter(ToServerLine, "eof", {"stdin"})' <=> NoneAfter(ToServerLine, "eof", {"stdin"})
        /\ In(ToServerLine, "eof")' <=> In(ToServerLine, "eof")
    BY <1>4 DEF Times, NoneAfter, In
  <2>6. Accounted => Accounted'
    BY <1>2, <1>3, <2>5 DEF Accounted
  <2>7. QED
    BY <1>4, <2>4, <2>6 DEF InInv
<1>6. CASE UserEndsInput \/ UserHangsUp
  <2>1. u'.typed = u.typed /\ (u.closed => u'.closed)
    BY <1>1, <1>6 DEF UserEndsInput, UserHangsUp, UserType
  <2>2. QED
    BY <1>2, <1>3, <1>4, <2>1, InKept
<1>7. QED
  BY <1>5, <1>6

-----------------------------------------------------------------------------
(* Input: the theorem.                                                     *)

LEMMA InitIn == Init => InInv
<1> SUFFICES ASSUME Init PROVE InInv
  OBVIOUS
<1>1. PICK session \in Sessions, nothing \in BOOLEAN :
        /\ u = [session |-> session, typed |-> 0, taken |-> 0, closed |-> nothing,
                shown |-> Both(0), tty |-> "ok"]
        /\ c = [pc |-> "packets", input |-> << >>, stdin |-> 0, eof |-> nothing,
                output |-> IF nothing THEN <<"eof">> ELSE << >>, buf |-> Both(0),
                quit |-> FALSE, exit |-> "none",
                forward |-> IF session.forward THEN "open" ELSE "none"]
  BY DEF Init
<1> DEFINE q == IF nothing THEN <<"eof">> ELSE << >>
<1>2. /\ u.typed = 0 /\ u.taken = 0 /\ u.closed = nothing
      /\ c.stdin = 0 /\ c.eof = nothing /\ c.output = q
  BY <1>1
<1>3. s.input = << >> /\ s.stdin = 0 /\ ~s.stdin_eof /\ s.fdin /\ c2s = << >>
  BY DEF Init
<1>4. p.stdin = 0 /\ p.read = 0 /\ ~p.sawEof
  BY DEF Init
<1>5. /\ q \in Seq(ToServer) /\ Times(q, "stdin") = 0 /\ NoneAfter(q, "eof", {"stdin"})
      /\ In(q, "eof") => nothing
  <2>1. q \in {<< >>, <<"eof">>, <<"close">>, <<"confirmation">>}
    OBVIOUS
  <2>2. q = <<"eof">> => nothing
    OBVIOUS
  <2> HIDE DEF q
  <2>3. QED
    BY <2>1, <2>2, NoData
<1> HIDE DEF q
<1>6. ToServerLine = q
  <2>1. << >> \o << >> = << >>
    OBVIOUS
  <2>2. << >> \o q = q
    BY <1>5, ConcatEmptySeq
  <2>3. QED
    BY <1>2, <1>3, <2>1, <2>2 DEF ToServerLine
<1>7. TakenInOrder /\ Accounted
  BY <1>2, <1>3, <1>4, <1>5, <1>6 DEF TakenInOrder, Accounted
<1>8. QED
  BY <1>7 DEF InInv

LEMMA NextIn ==
  ASSUME IInv, IInv', InInv, [Next]_vars
  PROVE  InInv'
<1>1. CASE ClientStep
  BY <1>1, ClientPacketIn, ClientMakePacketsIn, ClientSelectIn, ClientFlushIn,
     ClientOthersIn DEF ClientStep
<1>2. CASE ServerStep
  BY <1>2, ServerOthersIn, ServerPacketIn, ServerMakePacketsIn, ServerNothingIn,
     ServerSelectIn, ServerAfterLoopIn DEF ServerStep
<1>3. CASE SigChld
  BY <1>3, ServerOthersIn
<1>4. CASE ClientKilled
  BY <1>4, ClientOthersIn
<1>5. CASE Environment
  BY <1>5, ProgramReadsIn, ProgramOthersIn, UserIn, ClientOthersIn DEF Environment
<1>6. CASE UNCHANGED vars
  <2>1. UNCHANGED <<c, s, p, u, c2s, s2c>>
    BY <1>6 DEF vars
  <2>2. ToServerLine' = ToServerLine /\ (Following' <=> Following)
    BY <2>1 DEF ToServerLine, Following, Looping, StdinRead, Linked, Kind
  <2>3. QED
    BY <2>1, <2>2, InKept
<1>7. QED
  BY <1>1, <1>2, <1>3, <1>4, <1>5, <1>6 DEF Next

\* The program sees the end of its input only when it has read everything the
\* user typed: the eof of client_loop follows the last item, and server_loop
\* closes fdin only when what came before the eof has been written.
THEOREM EndOfInputIsLast == Spec => []EofAfterInput
<1>1. IInv /\ InInv => EofAfterInput
  <2> SUFFICES ASSUME IInv, InInv, p.sawEof, p.child = "running", Looping
               PROVE  u.closed /\ p.read = u.typed
    BY DEF EofAfterInput
  <2>1. Accounted /\ TakenInOrder
    BY DEF InInv, Following
  <2>2. /\ u.closed /\ u.typed = u.taken
        /\ c.stdin = 0 /\ Times(ToServerLine, "stdin") = 0 /\ s.stdin = 0 /\ p.stdin = 0
    BY <2>1 DEF Accounted, TakenInOrder
  <2>3. u.taken = c.stdin + Times(ToServerLine, "stdin") + s.stdin + p.stdin + p.read
        /\ p.read \in Nat
    BY <2>1, InTyped DEF Accounted, InTypes
  <2>4. QED
    BY <2>2, <2>3
<1>2. IInv /\ IInv' /\ InInv /\ [Next]_vars => InInv'
  BY NextIn
<1>3. QED
  BY <1>1, <1>2, InitIn, IInvAlways, PTL DEF Spec
=============================================================================
