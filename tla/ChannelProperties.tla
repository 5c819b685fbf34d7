-------------------------- MODULE ChannelProperties --------------------------
(***************************************************************************)
(* What Channels is for: the properties of the connections that pass       *)
(* through the two tables, stated over both ends and the packets between   *)
(* them.  MCChannels checks them on small instances; TunnelProofs proves   *)
(* the safety properties for every instance.                               *)
(***************************************************************************)
EXTENDS Channels, SequencesExt

-----------------------------------------------------------------------------
(* Vocabulary: the entry that serves connection c at end e.                *)

SlotsOf(e, c)  == {i \in DOMAIN tbl[e] : tbl[e][i].type \in LiveTypes
                                         /\ tbl[e][i].inst = c}
Serves(e, c)   == SlotsOf(e, c) # {}
ChannelOf(e, c) == tbl[e][CHOOSE i \in SlotsOf(e, c) : TRUE]
OnTheWay(e, c, kind) ==
  {k \in 1 .. Len(net[e]) : net[e][k].kind = kind /\ net[e][k].inst = c}
Freed(c) == \A e \in Ends : ~Serves(e, c)

\* What is still to be written at e of what was read at the other end.
Pending(e, c) ==
  ChannelOf(e, c).output
  \o FlattenSeq([k \in 1 .. Len(net[e]) |->
                   IF k \in OnTheWay(e, c, "DATA") THEN net[e][k].data ELSE << >>])
  \o (IF Serves(Peer(e), c) THEN ChannelOf(Peer(e), c).input ELSE << >>)

-----------------------------------------------------------------------------
(* Safety.                                                                 *)

\* Nothing is lost, duplicated or reordered inside the tunnel: until an end
\* shuts the socket for writing, what it has buffered, what is on its way and
\* what the other end has buffered are exactly the items read there and not
\* yet written here.
StreamIntegrity ==
  \A e \in Ends, c \in 1 .. opened :
    LET h == hist[c][e].wrote
        n == hist[c][Peer(e)].read
    IN  (Serves(e, c) /\ "OUTPUT_CLOSED" \notin ChannelOf(e, c).flags)
          => Pending(e, c) = [k \in 1 .. n - h |-> h + k]

\* A program that sees end-of-file because the far program closed its side has
\* been given everything the far program wrote.
EofMeansEverything ==
  \A e \in Ends, c \in 1 .. opened :
    hist[c][e].shut = "drained" => hist[c][e].wrote = hist[c][Peer(e)].read

\* The two ends agree on the closing handshake: an entry has received, or has
\* on its way exactly once, what the other end has sent, and if the other end
\* has freed its entry both closing packets are among these.
CloseAgreement ==
  \A e \in Ends, c \in 1 .. opened :
    (Serves(e, c) /\ ChannelOf(e, c).type # "OPENING") =>
      \A x \in {<<"INPUT_EOF", "EOF_RECEIVED", "EOF_SENT">>,
                <<"OUTPUT_CLOSED", "CLOSE_RECEIVED", "CLOSE_SENT">>} :
        LET got    == x[2] \in ChannelOf(e, c).flags
            coming == Cardinality(OnTheWay(e, c, x[1]))
            sent   == Serves(Peer(e), c) => x[3] \in ChannelOf(Peer(e), c).flags
        IN  /\ coming = (IF sent /\ ~got THEN 1 ELSE 0)
            /\ got => sent

-----------------------------------------------------------------------------
(* Refinement: the two ends together implement Forwarding.                 *)

PhaseOf(c) ==
  IF c > opened THEN "unused"
  ELSE IF Freed(c) THEN "over"
  ELSE IF \E e \in Ends : /\ Serves(e, c) /\ ChannelOf(e, c).type = "OPENING"
                          /\ ~Serves(Peer(e), c)
  THEN "asked" ELSE "carried"

\* An end whose entry is gone has shut its pipe, unless it never had one.
SideOf(c, e) ==
  [read |-> hist[c][e].read, wrote |-> hist[c][e].wrote,
   shut |-> hist[c][e].shut,
   stopped |-> IF Serves(e, c) THEN "INPUT_CLOSED" \in ChannelOf(e, c).flags
               ELSE hist[c][e].shut # "no"]

Promise == INSTANCE Forwarding WITH
  Connections <- Instances, Ends <- Ends, Causes <- Reasons, Peer <- Peer,
  phase <- [c \in Instances |-> PhaseOf(c)],
  side  <- [c \in Instances |-> [e \in Ends |-> SideOf(c, e)]]

\* Whatever the loops, the packets and the handshake do is a step of the pair
\* of pipes that Forwarding promises, or none at all.
FollowsForwarding == Promise!PSpec

-----------------------------------------------------------------------------
(* Liveness, under FairSpec.                                               *)

\* Every open request is answered.
OpenIsAnswered ==
  \A e \in Ends, c \in Instances :
    (Serves(e, c) /\ ChannelOf(e, c).type = "OPENING")
      ~> ~(Serves(e, c) /\ ChannelOf(e, c).type = "OPENING")

StopsReading(e, c) ==
  Serves(e, c) => "INPUT_CLOSED" \in ChannelOf(e, c).flags

\* Once neither program writes any more the connection is freed at both ends;
\* for X11 it is enough that one of them stops.
ClosingCompletes ==
  \A c \in Instances :
    (/\ ~Freed(c)
     /\ \/ \A e \in Ends : StopsReading(e, c)
        \/ \E e \in Ends : Serves(e, c) /\ StopsReading(e, c)
                           /\ ChannelOf(e, c).isx)
      ~> Freed(c)
=============================================================================
