----------------------------- MODULE PacketPipe -----------------------------
(***************************************************************************)
(* What the packet layer promises its callers: each end posts messages,    *)
(* and the other end is given them, each once and in the order they were   *)
(* posted.  An end that has stopped posts nothing and is given nothing;    *)
(* what it had posted may still arrive, or not.                            *)
(***************************************************************************)
EXTENDS Naturals, Sequences

CONSTANTS
  End,         \* the two ends
  Peer(_),     \* the other end
  Msg          \* what may be sent

VARIABLES
  posted,      \* all that each end sent
  got,         \* all that each end was given
  open         \* the ends that are still there

pipe == <<posted, got, open>>

Init ==
  /\ posted = [e \in End |-> << >>]
  /\ got = [e \in End |-> << >>]
  /\ open = End

Post(e) ==
  /\ e \in open
  /\ \E m \in Msg : posted' = [posted EXCEPT ![e] = Append(@, m)]
  /\ UNCHANGED <<got, open>>

Deliver(e) ==
  LET next == Len(got[e]) + 1 IN
  /\ e \in open /\ next \in DOMAIN posted[Peer(e)]
  /\ got' = [got EXCEPT ![e] = Append(@, posted[Peer(e)][next])]
  /\ UNCHANGED <<posted, open>>

Stop(e) ==
  /\ e \in open
  /\ open' = open \ {e}
  /\ UNCHANGED <<posted, got>>

Next == \E e \in End : Post(e) \/ Deliver(e) \/ Stop(e)

Spec == Init /\ [][Next]_pipe
=============================================================================
