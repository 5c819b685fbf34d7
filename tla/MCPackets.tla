----------------------------- MODULE MCPackets ------------------------------
(***************************************************************************)
(* Packets for TLC: properties and the mapping to PacketPipe.              *)
(***************************************************************************)
EXTENDS Packets

\* Everything that changes how packets are read in one connection.
SplitKeyAndCompression == {[cipher |-> "arcfour", compression |-> TRUE]}

TwoFromServer == [e \in End |-> IF e = "server" THEN 2 ELSE 1]

\* Buffers stay inside what was allocated, everything has its type, and a
\* message is cut in the units it was put together from.
TypeOK ==
  /\ cfg \in Setups
  /\ \A e \in End :
       /\ WellFormed(end[e].output) /\ WellFormed(end[e].input)
       /\ end[e].pc \in DOMAIN Script(e)
       /\ end[e].mode \in {"open", "disconnecting", "closed"}
       /\ end[e].sent \in 0 .. MaxData[e]
       /\ Len(pipe[e]) <= PipeSize
       /\ \A i \in DOMAIN got[e] : got[e][i] \in Message

\* No end ever meets a packet it cannot decrypt, check, decompress or place: the
\* two ends change keys and start compressing at the same packet of each
\* direction, however the bytes arrive (packet_set_encryption_key and
\* packet_start_compression take effect on what is sent later and on what is
\* taken out of the input buffer later).
Understood == \A e \in End : end[e].why \notin {"garbled", "unexpected"}

Pipe == INSTANCE PacketPipe WITH Msg <- Message, open <- {e \in End : Up(e)}

\* The framing, the buffers, partial reads and writes and the changes of keys
\* together are the simple pipe of PacketPipe.
PipeSpec == Pipe!Spec

\* Nothing hangs.  While both ends are there, all that was posted arrives.  Who
\* disconnects gets to close its end, whatever the other does, unless that one
\* disconnects too and neither can write any more.  When one end is closed the
\* other one notices.  (packet_write_wait writes until all is written, and
\* packet_read and the loops of the session read until the end of the connection.)
BothStuck ==
  \A e \in End : /\ end[e].mode = "disconnecting" /\ buffer_len(end[e].output) > 0
                 /\ Len(pipe[e]) = PipeSize
NothingHangs ==
  \A e \in End :
    /\ []<>(got[Peer(e)] = posted[e] \/ \E f \in End : end[f].mode # "open")
    /\ end[e].mode = "disconnecting" ~> (~Up(e) \/ BothStuck)
    /\ ~Up(e) ~> ~Up(Peer(e))
=============================================================================
