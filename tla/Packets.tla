------------------------------ MODULE Packets -------------------------------
(***************************************************************************)
(* The packet layer of both ends of a connection (packet.c, with the       *)
(* buffers of buffer.c and the streams of compress.c), driven by its       *)
(* callers as they use it: the key exchange, the login and the request for *)
(* compression, in which an end blocks in packet_read and in               *)
(* packet_write_wait, and then the session, in which sending, polling,     *)
(* reading and writing happen in any order.  The data is cut in units: the *)
(* length of a packet, and each block of 8 bytes of the rest.              *)
(***************************************************************************)
EXTENDS Buffer, FiniteSets

CONSTANTS
  Setups,      \* the cipher agreed on, and whether the client wants compression
  PipeSize,    \* units the kernel holds for one direction
  MaxData      \* bound: data packets each end sends in the session

End == {"client", "server"}
Peer(e) == IF e = "client" THEN "server" ELSE "client"

ASSUME PacketsAssumption ==
  /\ Setups \subseteq [cipher : {"arcfour", "3des"}, compression : BOOLEAN]
  /\ PipeSize \in Nat \ {0} /\ MaxData \in [End -> Nat]

VARIABLES
  cfg,     \* the set-up
  end,     \* the two ends
  pipe,    \* units on their way from an end to the other
  posted,  \* history: the messages each end's callers sent
  got      \* history: the messages each end's callers were given

vars == <<cfg, end, pipe, posted, got>>

\* The packets, by type and, for data, number; and their sizes in blocks.
Message == [type : {"PUBLIC_KEY", "SESSION_KEY", "SUCCESS", "USER", "REQUEST_COMPRESSION",
                    "EXEC_CMD", "DEBUG", "DISCONNECT"}, n : {0}]
           \cup [type : {"DATA"}, n : 1 .. MaxData["client"] + MaxData["server"]]
Blocks(m) == IF m.type \in {"PUBLIC_KEY", "DATA"} THEN 2 ELSE 1

\* What the callers do before the session, in the functions named; the last step is the
\* session.
Op(do, what) == [do |-> do, what |-> what]
ssh_login ==
  <<Op("read", "PUBLIC_KEY"), Op("send", "SESSION_KEY"), Op("wait", "none"), Op("key", "none"),
    Op("read", "SUCCESS"), Op("send", "USER"), Op("wait", "none"), Op("read", "SUCCESS")>>
ssh_main ==
  (IF cfg.compression
   THEN <<Op("send", "REQUEST_COMPRESSION"), Op("wait", "none"), Op("read", "SUCCESS"),
          Op("compress", "none")>>
   ELSE << >>)
  \o <<Op("send", "EXEC_CMD"), Op("wait", "none"), Op("session", "none")>>
do_connection ==
  <<Op("send", "PUBLIC_KEY"), Op("wait", "none"), Op("read", "SESSION_KEY"), Op("key", "none"),
    Op("send", "SUCCESS"), Op("wait", "none"), Op("read", "USER")>>
do_authentication ==
  <<Op("debug", "none"), Op("wait", "none"), Op("send", "SUCCESS"), Op("wait", "none")>>
do_authenticated ==
  (IF cfg.compression
   THEN <<Op("read", "REQUEST_COMPRESSION"), Op("send", "SUCCESS"), Op("wait", "none"),
          Op("compress", "none")>>
   ELSE << >>)
  \o <<Op("read", "EXEC_CMD"), Op("session", "none")>>
Script(e) == IF e = "client" THEN ssh_login \o ssh_main
             ELSE do_connection \o do_authentication \o do_authenticated

\* A cipher context: which key, and how far its stream has come.
NoKey == [key |-> 0, at |-> 0]

Init ==
  /\ cfg \in Setups
  /\ end = [e \in End |->
              [pc |-> 1, mode |-> "open", why |-> "none", sent |-> 0,
               output |-> buffer_init, input |-> buffer_init,
               send_context |-> NoKey, receive_context |-> NoKey,
               deflate |-> 0, inflate |-> 0]]
  /\ pipe = [e \in End |-> << >>]
  /\ posted = [e \in End |-> << >>]
  /\ got = [e \in End |-> << >>]

Up(e)   == end[e].mode # "closed"
Does(e) == IF end[e].mode = "disconnecting" THEN Op("disconnect", "none") ELSE Script(e)[end[e].pc]

Prefixes(s) == {SubSeq(s, 1, n) : n \in 0 .. Len(s)}

-----------------------------------------------------------------------------
(* Sending.                                                                *)

\* A packet as it goes out: the length in clear, the rest compressed and then
\* encrypted.  deflate is 0 without compression, and counts the packets with it.
Wire(x, m) ==
  [i \in 1 .. Blocks(m) + 1 |->
     IF i = 1 THEN [len |-> Blocks(m), msg |-> m, k |-> 0, crypt |-> NoKey, flate |-> 0]
     ELSE [len |-> 0, msg |-> m, k |-> i - 1, flate |-> x.deflate,
           crypt |-> IF x.send_context.key = 0 THEN NoKey
                     ELSE [x.send_context EXCEPT !.at = @ + i - 2]]]

\* packet_start to packet_send; the packet is only in the output buffer.
packet_send(x, m) ==
  [x EXCEPT !.output = buffer_append(@, Wire(x, m)),
            !.send_context.at = IF x.send_context.key = 0 THEN 0 ELSE @ + Blocks(m),
            !.deflate = IF @ = 0 THEN 0 ELSE @ + 1]

\* packet_close: the buffers are freed and the socket is closed.  When the other
\* end sent something that was not read, the connection is reset, and what was on
\* its way out may not arrive.
Close(e, why) ==
  /\ end' = [end EXCEPT ![e].mode = "closed", ![e].why = why,
                        ![e].output = buffer_init, ![e].input = buffer_init]
  /\ \E kept \in IF pipe[Peer(e)] = << >> THEN {pipe[e]} ELSE Prefixes(pipe[e]) :
       pipe' = [pipe EXCEPT ![e] = kept, ![Peer(e)] = << >>]

\* packet_disconnect, up to its packet_write_wait.
Disconnected(x, why) ==
  [packet_send(x, [type |-> "DISCONNECT", n |-> 0]) EXCEPT !.mode = "disconnecting", !.why = why]

\* packet_write_poll: the kernel takes what it has room for.  To an end that has gone
\* it fails, or it is answered with a reset, and what that end had sent may be lost.
packet_write_poll(e) ==
  LET out == Contents(end[e].output) IN
  /\ Up(e) /\ out # << >>
  /\ \/ /\ Up(Peer(e))
        /\ LET room == PipeSize - Len(pipe[e])
               n == IF room < Len(out) THEN room ELSE Len(out)
           IN /\ n > 0
              /\ pipe' = [pipe EXCEPT ![e] = @ \o SubSeq(out, 1, n)]
              /\ end' = [end EXCEPT ![e].output = buffer_consume(@, n)]
     \/ /\ ~Up(Peer(e))
        /\ end' = [end EXCEPT ![e].output = buffer_consume(@, Len(out))]
        /\ \E kept \in Prefixes(pipe[Peer(e)]) : pipe' = [pipe EXCEPT ![Peer(e)] = kept]
     \/ /\ ~Up(Peer(e))
        /\ Close(e, "write failed")
  /\ UNCHANGED <<cfg, posted, got>>

-----------------------------------------------------------------------------
(* Receiving.                                                              *)

\* Mutant: what is still to be written does not hold up packet_read, nor is the end
\* of the connection looked for in the session.
ReadingOnlyData(e) ==
  Up(e) /\ (Does(e).do = "session" => pipe[Peer(e)] # << >>) /\ Does(e).do \in {"session", "read"}

\* packet_read and the loops of the session wait for input once nothing waits to
\* be written, or while it is being written.
Reading(e) ==
  \/ Up(e) /\ Does(e).do = "session"
  \/ Up(e) /\ Does(e).do = "read" /\ buffer_len(end[e].output) = 0

\* The next packet, when it is all there.
Length(e) == Contents(end[e].input)[1].len
Complete(e) ==
  /\ buffer_len(end[e].input) >= 2
  /\ buffer_len(end[e].input) >= 1 + Length(e)

\* It is what was sent when its length is one, its check bytes are right under
\* this key, and it is the next of the compressed stream.
Body(e) == SubSeq(Contents(end[e].input), 2, 1 + Length(e))
Readable(e) ==
  /\ Length(e) > 0
  /\ \A i \in 1 .. Length(e) :
       LET unit == Body(e)[i] IN
       /\ unit.msg = Body(e)[1].msg /\ unit.k = i /\ Length(e) = Blocks(unit.msg)
       /\ unit.crypt = IF end[e].receive_context.key = 0 THEN NoKey
                       ELSE [end[e].receive_context EXCEPT !.at = @ + i - 1]
       /\ unit.flate = end[e].inflate

Taken(x, n) ==
  [x EXCEPT !.input = buffer_consume(@, n + 1),
            !.receive_context.at = IF x.receive_context.key = 0 THEN 0 ELSE @ + n,
            !.inflate = IF @ = 0 THEN 0 ELSE @ + 1]

\* read, and packet_process_incoming; with nothing left, the end of the connection.
packet_process_incoming(e) ==
  LET from == pipe[Peer(e)] IN
  /\ Reading(e) /\ (Does(e).do = "read" => ~Complete(e))
  /\ \/ \E n \in 1 .. Len(from) :
          /\ end' = [end EXCEPT ![e].input = buffer_append(@, SubSeq(from, 1, n))]
          /\ pipe' = [pipe EXCEPT ![Peer(e)] = SubSeq(@, n + 1, Len(@))]
     \/ from = << >> /\ ~Up(Peer(e)) /\ Close(e, "connection closed")
  /\ UNCHANGED <<cfg, posted, got>>

\* Mutant: debug messages are given to the caller too.
Nothing(m) == FALSE

\* What the callers never see.
Skipped(m) == m.type = "DEBUG"

\* packet_read_poll: one packet.
packet_read_poll(e) ==
  /\ Reading(e) /\ Complete(e)
  /\ LET m == Body(e)[1].msg
         x == Taken(end[e], Length(e))
         Goes(y) == end' = [end EXCEPT ![e] = y] /\ UNCHANGED pipe
     IN IF ~Readable(e)
        THEN Goes(Disconnected(end[e], "garbled")) /\ UNCHANGED got
        ELSE IF m.type = "DISCONNECT"
        THEN Close(e, "told") /\ UNCHANGED got
        ELSE IF Skipped(m)
        THEN Goes(x) /\ UNCHANGED got
        ELSE /\ got' = [got EXCEPT ![e] = Append(@, m)]
             /\ IF Does(e).do = "session"
                THEN Goes(IF m.type = "DATA" THEN x ELSE Disconnected(x, "unexpected"))
                ELSE Goes(IF m.type = Does(e).what THEN [x EXCEPT !.pc = @ + 1]
                          ELSE Disconnected(x, "unexpected"))
  /\ UNCHANGED <<cfg, posted>>

-----------------------------------------------------------------------------
(* The callers.                                                            *)

\* Mutant: both ends receive with the first half.
SameHalves(x, e) ==
  [x EXCEPT !.receive_context = [key |-> 1, at |-> 0],
            !.send_context = [key |-> IF cfg.cipher = "arcfour" THEN 2 ELSE 1, at |-> 0]]

\* packet_set_encryption_key: the halves of the key serve one direction each with
\* arcfour; other ciphers use the whole key in both.
packet_set_encryption_key(x, e) ==
  LET Half(one) == [key |-> IF cfg.cipher = "arcfour" /\ ~one THEN 2 ELSE 1, at |-> 0] IN
  [x EXCEPT !.receive_context = Half(e = "client"), !.send_context = Half(e = "server")]

packet_start_compression(x) == [x EXCEPT !.deflate = 1, !.inflate = 1]

\* A step of the key exchange and the login that is not a packet_read.
Step(e) ==
  LET x == [end[e] EXCEPT !.pc = @ + 1]
      Goes(y) == end' = [end EXCEPT ![e] = y]
      m == [type |-> Does(e).what, n |-> 0]
  IN
  /\ Up(e)
  /\ \/ /\ Does(e).do = "send" /\ Goes(packet_send(x, m))
        /\ posted' = [posted EXCEPT ![e] = Append(@, m)]
     \/ /\ \/ Does(e).do = "wait" /\ buffer_len(x.output) = 0 /\ Goes(x)
           \/ /\ Does(e).do = "debug"
              /\ \E y \in {x, packet_send(x, [type |-> "DEBUG", n |-> 0])} : Goes(y)
           \/ Does(e).do = "key" /\ Goes(packet_set_encryption_key(x, e))
           \/ Does(e).do = "compress" /\ Goes(packet_start_compression(x))
        /\ UNCHANGED posted
  /\ UNCHANGED <<cfg, pipe, got>>

\* The session has something to send.
SendData(e) ==
  LET m == [type |-> "DATA", n |-> end[e].sent + 1] IN
  /\ Up(e) /\ Does(e).do = "session" /\ end[e].sent < MaxData[e]
  /\ end' = [end EXCEPT ![e] = [packet_send(end[e], m) EXCEPT !.sent = m.n]]
  /\ posted' = [posted EXCEPT ![e] = Append(@, m)]
  /\ UNCHANGED <<cfg, pipe, got>>

\* packet_disconnect for a reason of the caller.
Disconnect(e) ==
  /\ Up(e) /\ Does(e).do \in {"send", "session"}
  /\ end' = [end EXCEPT ![e] = Disconnected(@, "asked")]
  /\ UNCHANGED <<cfg, pipe, posted, got>>

\* The rest of packet_disconnect.
FinishDisconnect(e) ==
  /\ Does(e).do = "disconnect" /\ Up(e) /\ buffer_len(end[e].output) = 0
  /\ Close(e, end[e].why)
  /\ UNCHANGED <<cfg, posted, got>>

Next ==
  \E e \in End :
    \/ packet_write_poll(e) \/ packet_process_incoming(e) \/ packet_read_poll(e)
    \/ Step(e) \/ SendData(e) \/ Disconnect(e) \/ FinishDisconnect(e)

Spec == Init /\ [][Next]_vars

\* An end that runs goes on: its blocking calls and its loops keep trying.
FairSpec ==
  /\ Spec
  /\ \A e \in End :
       /\ WF_vars(packet_write_poll(e)) /\ WF_vars(packet_process_incoming(e))
       /\ WF_vars(packet_read_poll(e)) /\ WF_vars(Step(e)) /\ WF_vars(FinishDisconnect(e))
=============================================================================
