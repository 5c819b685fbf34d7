----------------------------- MODULE Forwarding -----------------------------
(***************************************************************************)
(* What forwarding promises to the two programs it joins, with no tunnel,  *)
(* channel table, packets or flags: a connection is a pair of pipes.  What *)
(* one program wrote is written to the other, by count; a program sees a   *)
(* clean end-of-file ("drained") only after everything; nothing is written *)
(* once a pipe is shut; and a carried connection is over only when the     *)
(* programs at both ends are neither read from nor written to any more.    *)
(* Channels is shown to implement it (FollowsForwarding of ChannelProperties). *)
(***************************************************************************)
EXTENDS Integers

CONSTANTS Connections, Ends, Causes, Peer(_)

VARIABLES
  phase,  \* of each connection: "unused", "asked", "carried" or "over"
  side    \* of each connection and end: [read, wrote, stopped, shut]

pvars == <<phase, side>>

PInit ==
  /\ phase = [c \in Connections |-> "unused"]
  /\ side  = [c \in Connections |-> [e \in Ends |->
                [read |-> 0, wrote |-> 0, stopped |-> FALSE, shut |-> "no"]]]

\* A program at one end asks for a connection ...
Ask(c) ==
  /\ phase[c] = "unused"
  /\ phase' = [phase EXCEPT ![c] = "asked"]
  /\ UNCHANGED side

\* ... which the other end carries or refuses.
Answer(c) ==
  /\ phase[c] = "asked"
  /\ \E answer \in {"carried", "over"} : phase' = [phase EXCEPT ![c] = answer]
  /\ UNCHANGED side

\* One step of end e, s being what it leaves of its side.
MayRead(s, t)  == t.read = s.read \/ (t.read = s.read + 1 /\ ~s.stopped)
MayStop(s, t)  == s.stopped => t.stopped
MayWrite(s, t, far) ==
  t.wrote = s.wrote \/ (s.shut = "no" /\ s.wrote < t.wrote /\ t.wrote =< far.read)
MayShut(s, t, far) ==
  \/ t.shut = s.shut
  \/ /\ s.shut = "no"
     /\ t.shut = "drained" => far.stopped /\ t.wrote = far.read

Finished(s) == s.stopped /\ s.shut # "no"

Carry(c, e) ==
  /\ phase[c] = "carried"
  /\ \E r \in {0, 1}, w \in 0 .. side[c][Peer(e)].read,
        stopped \in BOOLEAN, shut \in Causes :
       LET s == side[c][e]
           t == [read |-> s.read + r, wrote |-> w, stopped |-> stopped,
                 shut |-> shut]
           far == side[c][Peer(e)]
       IN  /\ MayRead(s, t) /\ MayStop(s, t)
           /\ MayWrite(s, t, far) /\ MayShut(s, t, far)
           /\ side' = [side EXCEPT ![c][e] = t]
  /\ phase' \in {phase, [phase EXCEPT ![c] = "over"]}
  /\ phase'[c] = "over" => \A x \in Ends : Finished(side'[c][x])

PNext == \E c \in Connections :
           Ask(c) \/ Answer(c) \/ \E e \in Ends : Carry(c, e)

PSpec == PInit /\ [][PNext]_pvars
=============================================================================
