---------------------------- MODULE TunnelProofs ----------------------------
(***************************************************************************)
(* What the two channel tables and the connection between them keep: every *)
(* action of Channels is one of the steps of ChannelsProofs, so no packet  *)
(* is ever a fault, none reaches the wrong channel, and the two            *)
(* ends agree on what has been closed.  Every item read and not yet        *)
(* written has its place between the two sockets, and the two ends         *)
(* together implement Forwarding.                                          *)
(***************************************************************************)
EXTENDS ChannelsProofs, ChannelProperties

-----------------------------------------------------------------------------
(* The invariant of the protocol.                                          *)

HalfOf(e) ==
  Half(Entries(tbl[e]), Entries(tbl[Peer(e)]), net[e], net[Peer(e)], opened)
Agreement == \A e \in Ends : HalfOf(e) /\ fault[e] = "none"

\* There are two ends, each the peer of the other.
LEMMA OtherEnd ==
  ASSUME NEW e \in Ends
  PROVE  /\ Peer(e) \in Ends /\ Peer(e) # e /\ Peer(Peer(e)) = e
         /\ \A x \in Ends : x = e \/ x = Peer(e)
BY DEF Peer, Ends

\* What one end relies on and what its peer relies on are all there is to it.
LEMMA BothEnds ==
  ASSUME NEW e \in Ends, HalfOf(e)', HalfOf(Peer(e))',
         fault'[e] = "none", fault'[Peer(e)] = "none"
  PROVE  Agreement'
BY OtherEnd DEF Agreement

\* Taking the invariant apart.
LEMMA TwoHalves ==
  ASSUME Agreement, NEW e \in Ends
  PROVE  /\ Half(Entries(tbl[e]), Entries(tbl[Peer(e)]), net[e], net[Peer(e)], opened)
         /\ Half(Entries(tbl[Peer(e)]), Entries(tbl[e]), net[Peer(e)], net[e], opened)
         /\ \A x \in Ends : fault[x] = "none"
BY OtherEnd DEF Agreement, HalfOf

-----------------------------------------------------------------------------
(* Tables and queues.                                                      *)

\* The entries of a table in use for connections.
LEMMA EntriesOf ==
  ASSUME NEW t
  PROVE  /\ \A i : i \in DOMAIN Entries(t) <=>
                     i \in DOMAIN t /\ t[i].type \in LiveTypes
         /\ \A i \in DOMAIN Entries(t) : Entries(t)[i] = t[i]
BY DEF Entries

\* Two tables with the same entries, listeners aside.
LEMMA SameEntries ==
  ASSUME NEW t, NEW u,
         \A i : i \in DOMAIN t /\ t[i].type \in LiveTypes <=>
                i \in DOMAIN u /\ u[i].type \in LiveTypes,
         \A i \in DOMAIN t : t[i].type \in LiveTypes => u[i] = t[i]
  PROVE  Entries(u) = Entries(t)
<1> DEFINE S == {j \in DOMAIN t : t[j].type \in LiveTypes}
           R == {j \in DOMAIN u : u[j].type \in LiveTypes}
<1>1. S = R /\ \A i \in S : u[i] = t[i]
  OBVIOUS
<1>2. Entries(t) = [i \in S |-> t[i]] /\ Entries(u) = [i \in R |-> u[i]]
  BY DEF Entries
<1> HIDE DEF S, R
<1>3. QED
  BY <1>1, <1>2

\* An entry of a table is replaced.
LEMMA EntriesStored ==
  ASSUME NEW n \in Nat, NEW t \in [0 .. n - 1 -> Channel], NEW i \in DOMAIN t,
         t[i].type \in LiveTypes, NEW new, new.type \in LiveTypes \cup {"FREE"}
  PROVE  Stored(Entries(t), Entries([t EXCEPT ![i] = new]), i, new)
<1> DEFINE u == [t EXCEPT ![i] = new]
<1>1. /\ DOMAIN u = DOMAIN t /\ u[i] = new
      /\ \A j \in DOMAIN t : j # i => u[j] = t[j]
  OBVIOUS
<1> HIDE DEF u
<1>2. "FREE" \notin LiveTypes
  BY DEF LiveTypes
<1>3. DOMAIN Entries(u) = IF new.type = "FREE" THEN DOMAIN Entries(t) \ {i}
                          ELSE DOMAIN Entries(t)
  <2>1. \A j : j \in DOMAIN Entries(u) <=>
               j \in DOMAIN Entries(t) /\ (new.type = "FREE" => j # i)
    <3>1. \A j : j \in DOMAIN Entries(u) <=> j \in DOMAIN u /\ u[j].type \in LiveTypes
      BY EntriesOf
    <3>2. \A j : j \in DOMAIN Entries(t) <=> j \in DOMAIN t /\ t[j].type \in LiveTypes
      BY EntriesOf
    <3>3. QED
      BY <1>1, <1>2, <3>1, <3>2
  <2>2. QED
    BY <2>1
<1>4. \A j \in DOMAIN Entries(u) :
        Entries(u)[j] = IF j = i THEN new ELSE Entries(t)[j]
  BY <1>1, EntriesOf
<1>5. QED
  BY <1>3, <1>4 DEF Stored, u

\* The two queues as an end takes a packet or not, and sends some.
LEMMA QueueAdvances ==
  ASSUME NEW S, NEW q \in Seq(S)
  PROVE  /\ Advance(q, q, 0)
         /\ q # << >> => Advance(q, Tail(q), 1) /\ q[1] = Head(q)
         /\ \A k \in DOMAIN q : k \in Nat \ {0}
         /\ q # << >> => 1 \in DOMAIN q
<1>1. Len(q) \in Nat /\ DOMAIN q = 1 .. Len(q)
  BY LenProperties
<1>2. Advance(q, q, 0)
  BY <1>1 DEF Advance
<1>3. ASSUME q # << >>
      PROVE  Advance(q, Tail(q), 1) /\ q[1] = Head(q) /\ 1 \in DOMAIN q
  <2>1. /\ Tail(q) \in Seq(S) /\ Len(Tail(q)) = Len(q) - 1
        /\ \A k \in 1 .. Len(Tail(q)) : Tail(q)[k] = q[k + 1]
        /\ Len(q) # 0 /\ Head(q) = q[1]
    BY <1>3, HeadTailProperties, EmptySeq
  <2>2. DOMAIN Tail(q) = 1 .. Len(q) - 1
    BY <2>1, LenProperties
  <2>3. QED
    BY <1>1, <2>1, <2>2 DEF Advance
<1>4. QED
  BY <1>1, <1>2, <1>3

\* Sending is an extension of the queue.
LEMMA QueueExtends ==
  ASSUME NEW S, NEW q \in Seq(S), NEW out \in Seq(S)
  PROVE  Extend(q, q \o out, out)
<1>1. /\ Len(q) \in Nat /\ DOMAIN q = 1 .. Len(q)
      /\ Len(out) \in Nat /\ DOMAIN out = 1 .. Len(out)
  BY LenProperties
<1>2. /\ q \o out \in Seq(S) /\ Len(q \o out) = Len(q) + Len(out)
      /\ \A k \in 1 .. Len(q) + Len(out) :
           (q \o out)[k] = IF k =< Len(q) THEN q[k] ELSE out[k - Len(q)]
  BY ConcatProperties
<1>3. DOMAIN (q \o out) = 1 .. Len(q) + Len(out)
  BY <1>2, LenProperties
<1> DEFINE r == q \o out
<1>4. r = q \o out
  OBVIOUS
<1> HIDE DEF r
<1>5. \A k \in DOMAIN q : r[k] = q[k]
  BY <1>1, <1>2, <1>4
<1>6. \A k \in DOMAIN out : r[Len(q) + k] = out[k]
  BY <1>1, <1>2, <1>4
<1>7. QED
  BY <1>1, <1>3, <1>4, <1>5, <1>6 DEF Extend

-----------------------------------------------------------------------------
(* What a step does to the queues.                                         *)

\* The shape of the variables.
LEMMA Shapes ==
  ASSUME IInv, NEW e \in Ends
  PROVE  /\ alloc[e] \in Nat /\ tbl[e] \in [0 .. alloc[e] - 1 -> Channel]
         /\ DOMAIN tbl = Ends /\ DOMAIN net = Ends /\ DOMAIN fault = Ends
         /\ net[e] \in Seq(Message) /\ opened \in Nat
<1>1. /\ alloc[e] \in Nat /\ tbl[e] \in [0 .. alloc[e] - 1 -> Channel]
      /\ DOMAIN tbl = Ends /\ DOMAIN fault = Ends
  BY DEF IInv, TablesOK, TableInv
<1>2. DOMAIN net = Ends /\ net[e] \in Seq(Message)
  BY DEF IInv, NetOK
<1>3. opened \in Nat
  BY BoundsAssumption DEF IInv, HistoryOK
<1>4. QED
  BY <1>1, <1>2, <1>3

\* Nothing is taken.
LEMMA Emitted ==
  ASSUME IInv, NEW e \in Ends, NEW out \in Seq(Message), Emit(e, out)
  PROVE  /\ Advance(net[e], net'[e], 0)
         /\ Extend(net[Peer(e)], net'[Peer(e)], out)
<1>1. /\ DOMAIN net = Ends /\ Peer(e) \in Ends /\ Peer(e) # e
      /\ net[e] \in Seq(Message) /\ net[Peer(e)] \in Seq(Message)
  BY Shapes, OtherEnd
<1>2. net'[e] = net[e] /\ net'[Peer(e)] = net[Peer(e)] \o out
  BY <1>1 DEF Emit
<1>3. QED
  BY <1>1, <1>2, QueueAdvances, QueueExtends

\* The packet at the head is taken.
LEMMA TakenOne ==
  ASSUME IInv, NEW e \in Ends, NEW out \in Seq(Message), net[e] # << >>,
         Receive(e, out)
  PROVE  /\ Advance(net[e], net'[e], 1)
         /\ Extend(net[Peer(e)], net'[Peer(e)], out)
         /\ 1 \in DOMAIN net[e] /\ net[e][1] = Head(net[e])
         /\ \A k \in DOMAIN net[e] : k \in Nat \ {0}
<1>1. /\ DOMAIN net = Ends /\ Peer(e) \in Ends /\ Peer(e) # e
      /\ net[e] \in Seq(Message) /\ net[Peer(e)] \in Seq(Message)
  BY Shapes, OtherEnd
<1>2. net'[e] = Tail(net[e]) /\ net'[Peer(e)] = net[Peer(e)] \o out
  BY <1>1 DEF Receive
<1>3. QED
  BY <1>1, <1>2, QueueAdvances, QueueExtends

\* The queues stand still.
LEMMA NothingSent ==
  ASSUME IInv, NEW e \in Ends, net' = net
  PROVE  /\ Advance(net[e], net'[e], 0)
         /\ Extend(net[Peer(e)], net'[Peer(e)], << >>)
<1>1. /\ Peer(e) \in Ends /\ net[e] \in Seq(Message)
      /\ net[Peer(e)] \in Seq(Message) /\ << >> \in Seq(Message)
  BY Shapes, OtherEnd, EmptySeq
<1>2. net[Peer(e)] \o << >> = net[Peer(e)]
  BY <1>1, ConcatEmptySeq
<1>3. Extend(net[Peer(e)], net[Peer(e)] \o << >>, << >>)
  BY <1>1, QueueExtends
<1>4. Extend(net[Peer(e)], net[Peer(e)], << >>)
  BY <1>2, <1>3
<1>5. QED
  BY <1>1, <1>4, QueueAdvances

\* One packet more.
LEMMA OneSent ==
  ASSUME NEW Q, NEW Q2, NEW m, Extend(Q, Q2, <<m>>)
  PROVE  Sends(Q, Q2, m)
<1> DEFINE out == <<m>>
<1>1. Len(out) = 1 /\ DOMAIN out = 1 .. 1 /\ out[1] = m
  OBVIOUS
<1>2. Extend(Q, Q2, out)
  OBVIOUS
<1> HIDE DEF out
<1>3. Len(Q) \in Nat /\ DOMAIN Q = 1 .. Len(Q) /\ DOMAIN Q2 = 1 .. Len(Q) + 1
  BY <1>1, <1>2 DEF Extend
<1>4. (\A k \in DOMAIN Q : Q2[k] = Q[k]) /\ Q2[Len(Q) + 1] = m
  BY <1>1, <1>2 DEF Extend
<1>5. QED
  BY <1>3, <1>4 DEF Sends

-----------------------------------------------------------------------------
(* The items: what was read at one end and is still to be written at the   *)
(* other is buffered here, on its way, or buffered there.                  *)

Flows(e, c) ==
  Flow(Entries(tbl[e]), Entries(tbl[Peer(e)]), net[e], c,
       hist[c][e], hist[c][Peer(e)])
Unopened(e, c) == c > opened => hist[c][e].shut = "no"
Streams == \A e \in Ends, c \in Instances : Flows(e, c) /\ Unopened(e, c)

\* Taking it apart, for a connection and an end ...
LEMMA TwoStreams ==
  ASSUME Streams, NEW e \in Ends, NEW c \in Instances
  PROVE  /\ Flow(Entries(tbl[e]), Entries(tbl[Peer(e)]), net[e], c,
                 hist[c][e], hist[c][Peer(e)])
         /\ Flow(Entries(tbl[Peer(e)]), Entries(tbl[e]), net[Peer(e)], c,
                 hist[c][Peer(e)], hist[c][e])
         /\ c > opened => hist[c][e].shut = "no" /\ hist[c][Peer(e)].shut = "no"
BY OtherEnd DEF Streams, Flows, Unopened

\* ... and putting it together.
LEMMA BothStreams ==
  ASSUME NEW e \in Ends,
         \A c \in Instances : /\ Flows(e, c)' /\ Flows(Peer(e), c)'
                              /\ Unopened(e, c)' /\ Unopened(Peer(e), c)'
  PROVE  Streams'
BY OtherEnd DEF Streams

\* As long as the same connections are open and nothing is written off.
LEMMA StillUnopened ==
  ASSUME IInv, Streams, NEW e \in Ends, NEW c \in Instances,
         opened' = opened \/ opened' = opened + 1,
         hist'[c][e].shut = hist[c][e].shut \/ c =< opened
  PROVE  Unopened(e, c)'
<1>1. opened \in Nat /\ c \in Nat
  BY Shapes, BoundsAssumption DEF Instances
<1>2. c > opened' => c > opened
  BY <1>1
<1>3. QED
  BY <1>1, <1>2 DEF Streams, Unopened

-----------------------------------------------------------------------------
(* The kinds of steps.                                                     *)

\* Neither an entry of a connection nor a packet changes.
Idle ==
  /\ net' = net /\ fault' = fault /\ opened' = opened /\ hist' = hist
  /\ \A e \in Ends : Entries(tbl'[e]) = Entries(tbl[e])

LEMMA IdleKeeps ==
  ASSUME IInv, Agreement, Streams, Idle
  PROVE  Agreement' /\ Streams'
<1>1. \A e \in Ends : Peer(e) \in Ends
  BY OtherEnd
<1>2. Agreement'
  BY <1>1 DEF Agreement, HalfOf, Idle
<1>3. Streams'
  BY <1>1 DEF Streams, Flows, Unopened, Idle
<1>4. QED
  BY <1>2, <1>3

\* An established entry is served: what becomes of it and of the queues ...
Service(e, i, new, x, d, out) ==
  /\ i \in DOMAIN tbl[e] /\ tbl[e][i].type \in LiveTypes
  /\ Served(Entries(tbl[e]), Entries(tbl[Peer(e)]), i, new, x, out)
  /\ tbl' = [tbl EXCEPT ![e][i] = new]
  /\ Taken(net[e], net'[e], i, x, d)
  /\ Extend(net[Peer(e)], net'[Peer(e)], out)
  /\ opened' = opened /\ \A y \in Ends : fault'[y] = "none"

\* ... and of the items.
Account(e, i, new, x, out) ==
  LET c == tbl[e][i].inst
  IN  /\ \A k \in Instances : k # c => hist'[k] = hist[k]
      /\ hist'[c][Peer(e)] = hist[c][Peer(e)]
      /\ Delivers(tbl[e][i], new, hist[c][e], hist'[c][e], x, net[e][1].data)
      /\ Collects(tbl[e][i], new, hist[c][e], hist'[c][e], x, out)

Serving(e) ==
  \E i, new, x, d, out : Service(e, i, new, x, d, out) /\ Account(e, i, new, x, out)

\* The entries after a service.
LEMMA ServedEntries ==
  ASSUME IInv, NEW e \in Ends, NEW i, NEW new, NEW x, NEW d, NEW out,
         Service(e, i, new, x, d, out)
  PROVE  /\ Stored(Entries(tbl[e]), Entries(tbl'[e]), i, new)
         /\ Entries(tbl'[Peer(e)]) = Entries(tbl[Peer(e)])
         /\ i \in DOMAIN Entries(tbl[e]) /\ Entries(tbl[e])[i] = tbl[e][i]
<1>1. /\ i \in DOMAIN tbl[e] /\ tbl[e][i].type \in LiveTypes
      /\ Served(Entries(tbl[e]), Entries(tbl[Peer(e)]), i, new, x, out)
      /\ tbl' = [tbl EXCEPT ![e][i] = new]
  BY DEF Service
<1>2. Peer(e) \in Ends /\ Peer(e) # e
  BY OtherEnd
<1>3. new.type \in LiveTypes \cup {"FREE"}
  <2>1. new.type # "FREE" => EntryOK(new)
    BY <1>1 DEF Served
  <2>2. QED
    BY <2>1 DEF EntryOK
<1>4. /\ tbl'[e] = [tbl[e] EXCEPT ![i] = new] /\ tbl'[Peer(e)] = tbl[Peer(e)]
      /\ alloc[e] \in Nat /\ tbl[e] \in [0 .. alloc[e] - 1 -> Channel]
  BY <1>1, <1>2, Shapes
<1>5. QED
  BY <1>1, <1>3, <1>4, EntriesStored, EntriesOf

\* The ends still agree ...
LEMMA ServiceKeeps ==
  ASSUME IInv, Agreement, NEW e \in Ends, NEW i, NEW new, NEW x, NEW d, NEW out,
         Service(e, i, new, x, d, out)
  PROVE  Agreement'
<1> DEFINE A  == Entries(tbl[e])
           B  == Entries(tbl[Peer(e)])
           A2 == Entries(tbl'[e])
<1>1. /\ Half(A, B, net[e], net[Peer(e)], opened)
      /\ Half(B, A, net[Peer(e)], net[e], opened)
  BY TwoHalves
<1>2. /\ Peer(e) \in Ends /\ Peer(e) # e /\ Peer(Peer(e)) = e
  BY OtherEnd
<1>3. /\ Served(A, B, i, new, x, out)
      /\ Taken(net[e], net'[e], i, x, d)
      /\ Extend(net[Peer(e)], net'[Peer(e)], out)
      /\ opened' = opened /\ \A y \in Ends : fault'[y] = "none"
  BY DEF Service
<1>4. Stored(A, A2, i, new) /\ Entries(tbl'[Peer(e)]) = B
  BY ServedEntries
<1> HIDE DEF A, B, A2
<1>5. Half(A2, B, net'[e], net'[Peer(e)], opened)
  BY <1>1, <1>3, <1>4, ServedHere
<1>6. Half(B, A2, net'[Peer(e)], net'[e], opened)
  BY <1>1, <1>3, <1>4, ServedThere
<1>7. HalfOf(e)' /\ HalfOf(Peer(e))'
  BY <1>2, <1>3, <1>4, <1>5, <1>6 DEF HalfOf, A2
<1>8. QED
  BY <1>2, <1>3, <1>7, BothEnds

\* ... and every item has its place.
LEMMA ServiceFlows ==
  ASSUME IInv, Agreement, Streams, NEW e \in Ends, NEW i, NEW new, NEW x, NEW d,
         NEW out, Service(e, i, new, x, d, out), Account(e, i, new, x, out)
  PROVE  Streams'
<1> DEFINE A  == Entries(tbl[e])
           B  == Entries(tbl[Peer(e)])
           A2 == Entries(tbl'[e])
           P  == net[e]
           Q  == net[Peer(e)]
           P2 == net'[e]
           Q2 == net'[Peer(e)]
<1>1. Half(A, B, P, Q, opened) /\ Half(B, A, Q, P, opened)
  BY TwoHalves
<1>2. /\ Peer(e) \in Ends /\ Peer(e) # e /\ Peer(Peer(e)) = e
  BY OtherEnd
<1>3. /\ Served(A, B, i, new, x, out) /\ Taken(P, P2, i, x, d)
      /\ Extend(Q, Q2, out) /\ opened' = opened
  BY DEF Service
<1>4. /\ Stored(A, A2, i, new) /\ Entries(tbl'[Peer(e)]) = B
      /\ i \in DOMAIN A /\ A[i] = tbl[e][i]
  BY ServedEntries
<1>5. A[i].inst \in 1 .. opened /\ opened \in Nat /\ A[i].inst \in Instances
  <2>1. A[i].inst \in 1 .. opened
    BY <1>1, <1>4 DEF Half, EntriesOK
  <2>2. opened \in 0 .. MaxOpens /\ MaxOpens \in Nat
    BY BoundsAssumption DEF IInv, HistoryOK
  <2>3. QED
    BY <2>1, <2>2 DEF Instances
<1>6. LET c == A[i].inst
      IN  /\ \A k \in Instances : k # c => hist'[k] = hist[k]
          /\ hist'[c][Peer(e)] = hist[c][Peer(e)]
          /\ Delivers(A[i], new, hist[c][e], hist'[c][e], x, P[1].data)
          /\ Collects(A[i], new, hist[c][e], hist'[c][e], x, out)
  BY <1>4 DEF Account
<1> HIDE DEF A, B, A2, P, Q, P2, Q2
<1>7. ASSUME NEW c \in Instances
      PROVE  /\ Flow(A2, B, P2, c, hist'[c][e], hist'[c][Peer(e)])
             /\ Flow(B, A2, Q2, c, hist'[c][Peer(e)], hist'[c][e])
             /\ Unopened(e, c)' /\ Unopened(Peer(e), c)'
  <2>1. /\ Flow(A, B, P, c, hist[c][e], hist[c][Peer(e)])
        /\ Flow(B, A, Q, c, hist[c][Peer(e)], hist[c][e])
    BY TwoStreams DEF A, B, P, Q
  <2>2. CASE c = A[i].inst
    <3>1. Flow(A, B, P, A[i].inst, hist[c][e], hist[c][Peer(e)])
      BY <2>1, <2>2
    <3>2. Flow(B, A, Q, A[i].inst, hist[c][Peer(e)], hist[c][e])
      BY <2>1, <2>2
    <3>3. Delivers(A[i], new, hist[c][e], hist'[c][e], x, P[1].data)
      BY <1>6, <2>2
    <3>4. Collects(A[i], new, hist[c][e], hist'[c][e], x, out)
      BY <1>6, <2>2
    <3>5. Flow(A2, B, P2, A[i].inst, hist'[c][e], hist[c][Peer(e)])
      BY <1>1, <1>3, <1>4, <3>1, <3>3, FlowServedHere
    <3>6. Flow(B, A2, Q2, A[i].inst, hist[c][Peer(e)], hist'[c][e])
      BY <1>1, <1>3, <1>4, <3>2, <3>4, FlowServedThere
    <3>7. hist'[c][Peer(e)] = hist[c][Peer(e)]
      BY <1>6, <2>2
    <3>8. Unopened(e, c)' /\ Unopened(Peer(e), c)'
      BY <1>2, <1>3, <1>5, <2>2, StillUnopened
    <3>9. QED
      BY <2>2, <3>5, <3>6, <3>7, <3>8
  <2>3. CASE c # A[i].inst
    <3>1. hist'[c] = hist[c]
      BY <1>6, <2>3
    <3>2. /\ Flow(A2, B, P2, c, hist[c][e], hist[c][Peer(e)])
          /\ Flow(B, A2, Q2, c, hist[c][Peer(e)], hist[c][e])
      BY <1>1, <1>3, <1>4, <2>1, <2>3, FlowElsewhere
    <3>3. Unopened(e, c)' /\ Unopened(Peer(e), c)'
      BY <1>2, <1>3, <3>1, StillUnopened
    <3>4. QED
      BY <3>1, <3>2, <3>3
  <2>4. QED
    BY <2>2, <2>3
<1>8. \A c \in Instances : Flows(e, c)' /\ Flows(Peer(e), c)'
  BY <1>2, <1>4, <1>7 DEF Flows, A2, P2, Q2
<1>9. QED
  BY <1>7, <1>8, BothStreams

\* A connection is added: by a listener, ...
Accepting(e) ==
  /\ tbl'[Peer(e)] = tbl[Peer(e)] /\ net'[e] = net[e] /\ hist' = hist
  /\ opened' = opened + 1 /\ \A y \in Ends : fault'[y] = "none"
  /\ \E s, new, m : Accepts(Entries(tbl[e]), Entries(tbl'[e]), net[Peer(e)],
                            net'[Peer(e)], s, new, m, opened)

LEMMA AcceptKeeps ==
  ASSUME IInv, Agreement, Streams, NEW e \in Ends, Accepting(e)
  PROVE  Agreement' /\ Streams'
<1>1. Peer(e) \in Ends /\ Peer(Peer(e)) = e /\ opened \in Nat
  BY OtherEnd, Shapes
<1>2. PICK s, new, m : Accepts(Entries(tbl[e]), Entries(tbl'[e]), net[Peer(e)],
                               net'[Peer(e)], s, new, m, opened)
  BY DEF Accepting
<1>3. /\ tbl'[Peer(e)] = tbl[Peer(e)] /\ net'[e] = net[e] /\ hist' = hist
      /\ opened' = opened + 1 /\ \A y \in Ends : fault'[y] = "none"
  BY DEF Accepting
<1>4. HalfOf(e)' /\ HalfOf(Peer(e))'
  BY <1>2, <1>1, <1>3, TwoHalves, AcceptsHere, AcceptsThere DEF HalfOf
<1>5. ASSUME NEW c \in Instances
      PROVE  /\ Flows(e, c)' /\ Flows(Peer(e), c)'
             /\ Unopened(e, c)' /\ Unopened(Peer(e), c)'
  <2>1. Flows(e, c)' /\ Flows(Peer(e), c)'
    BY <1>2, <1>1, <1>3, TwoHalves, TwoStreams, FlowAccepts DEF Flows
  <2>2. QED
    BY <1>1, <1>3, <2>1, StillUnopened
<1>6. QED
  BY <1>1, <1>4, <1>5, <1>3, BothEnds, BothStreams

\* ... or by a request of the peer.
Granting(e) ==
  /\ tbl'[Peer(e)] = tbl[Peer(e)] /\ opened' = opened /\ hist' = hist
  /\ \A y \in Ends : fault'[y] = "none"
  /\ \E s, new, m : /\ Grants(Entries(tbl[e]), Entries(tbl'[e]), net[e], net'[e],
                              net[Peer(e)], net'[Peer(e)], s, new, m)
                    /\ Empty(new)

LEMMA GrantKeeps ==
  ASSUME IInv, Agreement, Streams, NEW e \in Ends, Granting(e)
  PROVE  Agreement' /\ Streams'
<1>1. Peer(e) \in Ends /\ Peer(Peer(e)) = e
  BY OtherEnd
<1>2. PICK s, new, m :
         /\ Grants(Entries(tbl[e]), Entries(tbl'[e]), net[e], net'[e],
                   net[Peer(e)], net'[Peer(e)], s, new, m)
         /\ Empty(new)
  BY DEF Granting
<1>3. /\ tbl'[Peer(e)] = tbl[Peer(e)] /\ opened' = opened /\ hist' = hist
      /\ \A y \in Ends : fault'[y] = "none"
  BY DEF Granting
<1>4. HalfOf(e)' /\ HalfOf(Peer(e))'
  BY <1>2, <1>1, <1>3, TwoHalves, GrantsHere, GrantsThere DEF HalfOf
<1>5. ASSUME NEW c \in Instances
      PROVE  /\ Flows(e, c)' /\ Flows(Peer(e), c)'
             /\ Unopened(e, c)' /\ Unopened(Peer(e), c)'
  <2>1. Flows(e, c)' /\ Flows(Peer(e), c)'
    BY <1>2, <1>1, <1>3, TwoHalves, TwoStreams, FlowGrants DEF Flows
  <2>2. QED
    BY <1>1, <1>3, <2>1, StillUnopened
<1>6. QED
  BY <1>1, <1>4, <1>5, <1>3, BothEnds, BothStreams

\* A request is refused.
Refusing(e) ==
  /\ tbl' = tbl /\ opened' = opened /\ fault' = fault /\ hist' = hist
  /\ \E m : Refuses(net[e], net'[e], net[Peer(e)], net'[Peer(e)], m)

LEMMA RefusalKeeps ==
  ASSUME IInv, Agreement, Streams, NEW e \in Ends, Refusing(e)
  PROVE  Agreement' /\ Streams'
<1>1. Peer(e) \in Ends /\ Peer(Peer(e)) = e
  BY OtherEnd
<1>2. PICK m : Refuses(net[e], net'[e], net[Peer(e)], net'[Peer(e)], m)
  BY DEF Refusing
<1>3. UNCHANGED <<tbl, opened, fault, hist>>
  BY DEF Refusing
<1>4. HalfOf(e)' /\ HalfOf(Peer(e))'
  BY <1>2, <1>1, <1>3, TwoHalves, RefusesHere, RefusesThere DEF HalfOf
<1>5. ASSUME NEW c \in Instances
      PROVE  /\ Flows(e, c)' /\ Flows(Peer(e), c)'
             /\ Unopened(e, c)' /\ Unopened(Peer(e), c)'
  <2>1. Flows(e, c)' /\ Flows(Peer(e), c)'
    BY <1>2, <1>1, <1>3, TwoStreams, FlowRefuses DEF Flows
  <2>2. QED
    BY <1>1, <1>3, <2>1, StillUnopened
<1>6. QED
  BY <1>1, <1>4, <1>5, <1>3, BothEnds, BothStreams, TwoHalves

\* The requester learns that its connection is carried, ...
Confirming(e) ==
  /\ tbl'[Peer(e)] = tbl[Peer(e)] /\ net'[Peer(e)] = net[Peer(e)]
  /\ opened' = opened /\ hist' = hist /\ \A y \in Ends : fault'[y] = "none"
  /\ \E i, new : /\ Confirms(Entries(tbl[e]), Entries(tbl'[e]), net[e], net'[e],
                             i, new)
                 /\ new.input = Entries(tbl[e])[i].input

LEMMA ConfirmKeeps ==
  ASSUME IInv, Agreement, Streams, NEW e \in Ends, Confirming(e)
  PROVE  Agreement' /\ Streams'
<1>1. Peer(e) \in Ends /\ Peer(Peer(e)) = e
  BY OtherEnd
<1>2. PICK i, new :
         /\ Confirms(Entries(tbl[e]), Entries(tbl'[e]), net[e], net'[e], i, new)
         /\ new.input = Entries(tbl[e])[i].input
  BY DEF Confirming
<1>3. /\ tbl'[Peer(e)] = tbl[Peer(e)] /\ net'[Peer(e)] = net[Peer(e)]
      /\ opened' = opened /\ hist' = hist /\ \A y \in Ends : fault'[y] = "none"
  BY DEF Confirming
<1>4. HalfOf(e)' /\ HalfOf(Peer(e))'
  BY <1>2, <1>1, <1>3, TwoHalves, ConfirmsHere, ConfirmsThere DEF HalfOf
<1>5. ASSUME NEW c \in Instances
      PROVE  /\ Flows(e, c)' /\ Flows(Peer(e), c)'
             /\ Unopened(e, c)' /\ Unopened(Peer(e), c)'
  <2>1. Flows(e, c)' /\ Flows(Peer(e), c)'
    BY <1>2, <1>1, <1>3, TwoHalves, TwoStreams, FlowConfirms DEF Flows
  <2>2. QED
    BY <1>1, <1>3, <2>1, StillUnopened
<1>6. QED
  BY <1>1, <1>4, <1>5, <1>3, BothEnds, BothStreams

\* ... or is not.
Failing(e) ==
  /\ tbl'[Peer(e)] = tbl[Peer(e)] /\ net'[Peer(e)] = net[Peer(e)]
  /\ opened' = opened /\ hist' = hist /\ \A y \in Ends : fault'[y] = "none"
  /\ \E i : Fails(Entries(tbl[e]), Entries(tbl'[e]), net[e], net'[e], i)

LEMMA FailureKeeps ==
  ASSUME IInv, Agreement, Streams, NEW e \in Ends, Failing(e)
  PROVE  Agreement' /\ Streams'
<1>1. Peer(e) \in Ends /\ Peer(Peer(e)) = e
  BY OtherEnd
<1>2. PICK i : Fails(Entries(tbl[e]), Entries(tbl'[e]), net[e], net'[e], i)
  BY DEF Failing
<1>3. /\ tbl'[Peer(e)] = tbl[Peer(e)] /\ net'[Peer(e)] = net[Peer(e)]
      /\ opened' = opened /\ hist' = hist /\ \A y \in Ends : fault'[y] = "none"
  BY DEF Failing
<1>4. HalfOf(e)' /\ HalfOf(Peer(e))'
  BY <1>2, <1>1, <1>3, TwoHalves, FailsHere, FailsThere DEF HalfOf
<1>5. ASSUME NEW c \in Instances
      PROVE  /\ Flows(e, c)' /\ Flows(Peer(e), c)'
             /\ Unopened(e, c)' /\ Unopened(Peer(e), c)'
  <2>1. Flows(e, c)' /\ Flows(Peer(e), c)'
    BY <1>2, <1>1, <1>3, TwoHalves, TwoStreams, FlowFails DEF Flows
  <2>2. QED
    BY <1>1, <1>3, <2>1, StillUnopened
<1>6. QED
  BY <1>1, <1>4, <1>5, <1>3, BothEnds, BothStreams

-----------------------------------------------------------------------------
(* Services that are runs of the flag functions.                           *)

\* An entry in use has a connection that has been opened.
LEMMA OfConnection ==
  ASSUME IInv, Agreement, NEW e \in Ends, NEW i \in DOMAIN tbl[e],
         tbl[e][i].type \in LiveTypes
  PROVE  /\ i \in DOMAIN Entries(tbl[e]) /\ Entries(tbl[e])[i] = tbl[e][i]
         /\ EntryOK(tbl[e][i]) /\ tbl[e][i] \in Channel
         /\ tbl[e][i].inst \in Instances
<1>1. i \in DOMAIN Entries(tbl[e]) /\ Entries(tbl[e])[i] = tbl[e][i]
  BY EntriesOf
<1>2. EntryOK(tbl[e][i]) /\ tbl[e][i].inst \in 1 .. opened
  BY <1>1, TwoHalves DEF Half, EntriesOK
<1>3. opened \in 0 .. MaxOpens /\ MaxOpens \in Nat
  BY BoundsAssumption DEF IInv, HistoryOK
<1>4. QED
  BY <1>1, <1>2, <1>3 DEF EntryOK, Instances

\* A note in the history of a connection.
NotesShut(c, e, why) == hist' = [hist EXCEPT ![c][e].shut = why]
LEMMA Noted ==
  ASSUME IInv, NEW e \in Ends, NEW c \in Instances, NEW why, NotesShut(c, e, why)
  PROVE  /\ \A k \in Instances : k # c => hist'[k] = hist[k]
         /\ hist'[c][Peer(e)] = hist[c][Peer(e)]
         /\ hist'[c][e].read = hist[c][e].read /\ hist'[c][e].wrote = hist[c][e].wrote
         /\ hist'[c][e].shut = why
<1>1. hist \in [Instances \cup {0} -> [Ends -> [read : Nat, wrote : Nat, shut : Reasons]]]
  BY DEF IInv, HistoryOK, Records
<1>2. Peer(e) \in Ends /\ Peer(e) # e
  BY OtherEnd
<1>3. hist'[c] = [hist[c] EXCEPT ![e].shut = why]
  BY <1>1 DEF NotesShut
<1>4. hist[c] \in [Ends -> [read : Nat, wrote : Nat, shut : Reasons]]
  BY <1>1
<1>5. hist'[c][e] = [hist[c][e] EXCEPT !.shut = why]
  BY <1>3, <1>4
<1>6. QED
  BY <1>1, <1>2, <1>3, <1>4, <1>5 DEF NotesShut

\* All of a buffer is left if none of it is taken.
LEMMA NothingWritten ==
  ASSUME NEW s \in Seq(Items)
  PROVE  0 \in 0 .. Len(s) /\ SubSeq(s, 0 + 1, Len(s)) = s
<1>1. Len(s) \in Nat /\ \A k \in 1 .. Len(s) : s[k] \in Items
  BY LenProperties, ElementOfSeq
<1> DEFINE t == SubSeq(s, 1, Len(s))
<1>2. /\ t \in Seq(Items) /\ Len(t) = IF 1 =< Len(s) THEN Len(s) - 1 + 1 ELSE 0
      /\ \A k \in 1 .. Len(s) - 1 + 1 : t[k] = s[1 + k - 1]
  BY <1>1, SubSeqProperties
<1> HIDE DEF t
<1>3. Len(t) = Len(s) /\ \A k \in 1 .. Len(s) : t[k] = s[k]
  BY <1>1, <1>2
<1>4. t = s
  BY <1>2, <1>3, SeqEqual
<1>5. QED
  BY <1>1, <1>4 DEF t

\* An entry that keeps its flags and output has written nothing.
LEMMA NothingChanges ==
  ASSUME NEW old, NEW new, NEW h, NEW x, NEW data, old.output \in Seq(Items),
         h.wrote \in Nat, x # "DATA", new.flags = old.flags, new.output = old.output
  PROVE  Delivers(old, new, h, h, x, data)
<1>1. CASE "OUTPUT_CLOSED" \in old.flags
  BY <1>1 DEF Delivers
<1>2. CASE "OUTPUT_CLOSED" \notin old.flags
  <2>1. /\ 0 \in 0 .. Len(old.output)
        /\ SubSeq(old.output, 0 + 1, Len(old.output)) = new.output
    BY NothingWritten
  <2>2. h.wrote + 0 = h.wrote
    OBVIOUS
  <2>3. \E n \in 0 .. Len(old.output) :
          /\ new.output = SubSeq(old.output, n + 1, Len(old.output))
          /\ h.wrote = h.wrote + n
    BY <2>1, <2>2
  <2>4. QED
    BY <1>2, <2>3 DEF Delivers
<1>3. QED
  BY <1>1, <1>2

\* What a stored run does to the items.
LEMMA StoreAccounts ==
  ASSUME IInv, NEW e \in Ends, NEW i, NEW r, NEW x, NEW why,
         tbl[e][i] \in Channel, tbl[e][i].inst \in Instances,
         r.c.inst = tbl[e][i].inst, tbl[e][i].flags \subseteq r.c.flags,
         x # "DATA", Handles(tbl[e][i], r, x, why), Store(e, i, r, why)
  PROVE  Account(e, i, r.c, x, r.out)
<1> DEFINE ch == tbl[e][i]
           c == ch.inst
           h == hist[c][e]
           h2 == hist'[c][e]
<1>1. CASE ShutNow(ch, r)
  <2>1. NotesShut(c, e, why)
    BY <1>1 DEF Store, NotesShut
  <2>2. "OUTPUT_CLOSED" \in r.c.flags \ ch.flags
    BY <1>1 DEF ShutNow
  <2>3. /\ \A k \in Instances : k # c => hist'[k] = hist[k]
        /\ hist'[c][Peer(e)] = hist[c][Peer(e)]
        /\ h2.read = h.read /\ h2.wrote = h.wrote /\ h2.shut = why
    <3>1. c \in Instances
      OBVIOUS
    <3> HIDE DEF ch, c, h, h2
    <3>2. QED
      BY <2>1, <3>1, Noted DEF h, h2
  <2> HIDE DEF h, h2
  <2>4. Delivers(ch, r.c, h, h2, x, net[e][1].data)
    BY <2>2, <2>3 DEF Delivers, Handles
  <2>5. Collects(ch, r.c, h, h2, x, r.out)
    BY <2>3 DEF Collects, Handles
  <2>6. QED
    BY <2>3, <2>4, <2>5 DEF Account, h, h2
<1>2. CASE ~ShutNow(ch, r)
  <2>1. hist' = hist
    BY <1>2 DEF Store
  <2>2. "OUTPUT_CLOSED" \in ch.flags \/ "OUTPUT_CLOSED" \notin r.c.flags
    BY <1>2 DEF ShutNow
  <2>3. h2 = h
    BY <2>1
  <2>4. ch.output \in Seq(Items)
    BY DEF Channel
  <2>5. /\ 0 \in 0 .. Len(ch.output)
        /\ SubSeq(ch.output, 0 + 1, Len(ch.output)) = ch.output
    BY <2>4, NothingWritten
  <2>6. h.wrote + 0 = h.wrote
    <3>1. hist \in [Instances \cup {0} -> [Ends -> [read : Nat, wrote : Nat, shut : Reasons]]]
      BY DEF IInv, HistoryOK, Records
    <3>2. QED
      BY <3>1
  <2> HIDE DEF h, h2
  <2>7. Delivers(ch, r.c, h, h2, x, net[e][1].data)
    <3>1. CASE "OUTPUT_CLOSED" \in ch.flags
      BY <2>3, <3>1 DEF Delivers
    <3>2. CASE "OUTPUT_CLOSED" \notin r.c.flags
      <4>1. r.c.output = ch.output
        BY <3>2 DEF Handles
      <4>2. \E n \in 0 .. Len(ch.output) :
              /\ r.c.output = SubSeq(ch.output, n + 1, Len(ch.output))
              /\ h2.wrote = h.wrote + n
        BY <2>3, <2>5, <2>6, <4>1
      <4>3. QED
        BY <2>3, <3>2, <4>2 DEF Delivers
    <3>3. QED
      BY <2>2, <3>1, <3>2
  <2>8. Collects(ch, r.c, h, h2, x, r.out)
    BY <2>3 DEF Collects, Handles
  <2>9. QED
    BY <2>1, <2>7, <2>8 DEF Account, h, h2
<1>3. QED
  BY <1>1, <1>2

\* A run of the flag functions serves the entry and is stored.
LEMMA RunServing ==
  ASSUME IInv, Agreement, NEW e \in Ends, NEW i \in DOMAIN tbl[e],
         tbl[e][i].type \in LiveTypes, NEW r, NEW x, NEW d, NEW why, x # "DATA",
         RunServes(Entries(tbl[e]), Entries(tbl[Peer(e)]), i, r, x),
         Handles(tbl[e][i], r, x, why), Store(e, i, r, why),
         Taken(net[e], net'[e], i, x, d),
         Extend(net[Peer(e)], net'[Peer(e)], r.out), opened' = opened
  PROVE  Serving(e)
<1>1. /\ Served(Entries(tbl[e]), Entries(tbl[Peer(e)]), i, r.c, x, r.out)
      /\ r.fault = "none"
  BY DEF RunServes
<1>2. \A y \in Ends : fault'[y] = "none"
  BY <1>1, TwoHalves, Shapes DEF Store
<1>3. Service(e, i, r.c, x, d, r.out)
  BY <1>1, <1>2 DEF Service, Store
<1>4. /\ Entries(tbl[e])[i] = tbl[e][i] /\ tbl[e][i] \in Channel
      /\ tbl[e][i].inst \in Instances
  BY OfConnection
<1>5. r.c.inst = tbl[e][i].inst /\ tbl[e][i].flags \subseteq r.c.flags
  BY <1>1, <1>4 DEF Served
<1>6. Account(e, i, r.c, x, r.out)
  BY <1>4, <1>5, StoreAccounts
<1>7. QED
  BY <1>3, <1>6 DEF Serving

\* A run of the loops does, and takes no packet.
LEMMA LoopRunServing ==
  ASSUME IInv, Agreement, NEW e \in Ends, NEW i \in DOMAIN tbl[e],
         tbl[e][i].type \in LiveTypes, NEW r, NEW why,
         RunServes(Entries(tbl[e]), Entries(tbl[Peer(e)]), i, r, "none"),
         Handles(tbl[e][i], r, "none", why), Store(e, i, r, why),
         r.out \in Seq(Message), Emit(e, r.out), opened' = opened
  PROVE  Serving(e)
<1>1. /\ Advance(net[e], net'[e], 0)
      /\ Extend(net[Peer(e)], net'[Peer(e)], r.out)
  BY Emitted
<1>2. Taken(net[e], net'[e], i, "none", 0)
  BY <1>1 DEF Taken
<1> DEFINE x == "none"
<1>3. x # "DATA" /\ x = "none"
  OBVIOUS
<1> HIDE DEF x
<1>4. QED
  BY <1>1, <1>2, <1>3, RunServing

-----------------------------------------------------------------------------
(* The packet handlers.                                                    *)

\* channel_allocate adds an entry to those of its end.
LEMMA EntriesAdded ==
  ASSUME IInv, Agreement, NEW e \in Ends, NEW ch \in Channel,
         ch.type \in LiveTypes, ch.flags = {}, ch.sock = NewSock(e),
         AllocateIn(e, ch)
  PROVE  /\ Added(Entries(tbl[e]), Entries(tbl'[e]), NewSlot(e), ch)
         /\ tbl'[Peer(e)] = tbl[Peer(e)]
         /\ \A y \in Ends : fault'[y] = "none"
<1> DEFINE s == NewSlot(e)
           g == Grown(e)
           t == tbl[e]
           u == [g EXCEPT ![s] = ch]
<1>1. ch.type # "FREE"
  BY DEF LiveTypes
<1>2. tbl' = [tbl EXCEPT ![e] = u]
  BY <1>1, AllocateOK DEF IInv
<1>3. /\ InUse(g) = InUse(t) /\ \A j \in InUse(t) : g[j] = t[j]
      /\ g[s].type = "FREE" /\ s \in 0 .. NewAlloc(e) - 1
      /\ DOMAIN g = 0 .. NewAlloc(e) - 1 /\ FreeSlots(e) # {}
  BY SlotFound DEF IInv, TableInv
<1>4. /\ Peer(e) \in Ends /\ Peer(e) # e /\ DOMAIN tbl = Ends
      /\ DOMAIN fault = Ends /\ \A y \in Ends : fault[y] = "none"
  BY OtherEnd, Shapes, TwoHalves
<1>5. tbl'[e] = u /\ tbl'[Peer(e)] = tbl[Peer(e)]
  BY <1>2, <1>4
<1>6. /\ DOMAIN u = DOMAIN g /\ u[s] = ch
      /\ \A j \in DOMAIN g : j # s => u[j] = g[j]
  BY <1>3
<1> HIDE DEF u, g, t, s
<1>7. \A j : j \in DOMAIN t /\ t[j].type \in LiveTypes <=>
             j \in DOMAIN g /\ g[j].type \in LiveTypes
  BY <1>3 DEF InUse, LiveTypes
<1>8. \A j \in DOMAIN t : t[j].type \in LiveTypes => g[j] = t[j]
  BY <1>3 DEF InUse, LiveTypes
<1>9. \A j : j \in DOMAIN Entries(t) <=> j \in DOMAIN g /\ g[j].type \in LiveTypes
  BY <1>7, EntriesOf
<1>10. \A j : j \in DOMAIN Entries(u) <=> j \in DOMAIN u /\ u[j].type \in LiveTypes
  BY EntriesOf
<1>11. s \notin DOMAIN Entries(t)
  BY <1>3, <1>9 DEF LiveTypes
<1>12. \A j : j \in DOMAIN Entries(u) <=> j \in DOMAIN Entries(t) \cup {s}
  BY <1>3, <1>6, <1>9, <1>10
<1>13. \A j \in DOMAIN Entries(u) :
         Entries(u)[j] = IF j = s THEN ch ELSE Entries(t)[j]
  <2> SUFFICES ASSUME NEW j \in DOMAIN Entries(u)
               PROVE  Entries(u)[j] = IF j = s THEN ch ELSE Entries(t)[j]
    OBVIOUS
  <2>1. Entries(u)[j] = u[j] /\ j \in DOMAIN g
    BY <1>6, <1>10, EntriesOf
  <2>2. CASE j = s
    BY <1>6, <2>1, <2>2
  <2>3. CASE j # s
    <3>1. j \in DOMAIN Entries(t)
      BY <1>12, <2>3
    <3>2. Entries(t)[j] = t[j] /\ g[j] = t[j]
      BY <1>8, <3>1, EntriesOf
    <3>3. QED
      BY <1>6, <2>1, <2>3, <3>2
  <2>4. QED
    BY <2>2, <2>3
<1>14. Added(Entries(t), Entries(u), s, ch)
  BY <1>11, <1>12, <1>13 DEF Added
<1>15. \A y \in Ends : fault'[y] = "none"
  BY <1>3, <1>4 DEF AllocateIn
<1>16. QED
  BY <1>5, <1>14, <1>15 DEF t, s

\* A new entry, with nothing read, written or closed.
NewEntry(type, sock, rid, isx, inst) ==
  [BlankChannel EXCEPT !.type = type, !.sock = sock, !.rid = rid,
                       !.isx = isx, !.inst = inst]

\* It is as the protocol wants it.
Fresh(ch, type, sock, rid, inst) ==
  /\ EntryOK(ch) /\ ch \in Channel /\ ch.type = type /\ ch.flags = {}
  /\ ch.sock = sock /\ ch.rid = rid /\ ch.inst = inst /\ Empty(ch)

\* The entry that channel_allocate fills in.
LEMMA NewEntryOK ==
  ASSUME NEW type \in LiveTypes, NEW sock \in Sockets, NEW rid \in Ids,
         NEW inst \in Instances \cup {0}
  PROVE  /\ Fresh(NewEntry(type, sock, rid, TRUE, inst), type, sock, rid, inst)
         /\ type # "X11_OPEN" =>
              Fresh(NewEntry(type, sock, rid, FALSE, inst), type, sock, rid, inst)
<1>1. ASSUME NEW isx, isx \in {TRUE, FALSE}, type = "X11_OPEN" => isx = TRUE
      PROVE  Fresh(NewEntry(type, sock, rid, isx, inst), type, sock, rid, inst)
  <2> DEFINE ch == NewEntry(type, sock, rid, isx, inst)
  <2>1. << >> \in Seq(Items)
    BY EmptySeq
  <2>2. /\ ch.type = type /\ ch.sock = sock /\ ch.rid = rid /\ ch.isx = isx
        /\ ch.inst = inst /\ ch.flags = {} /\ ch.input = << >> /\ ch.output = << >>
    BY DEF BlankChannel, NewEntry
  <2>3. ch \in Channel
    BY <1>1, <2>1 DEF BlankChannel, Channel, ChannelTypes, NewEntry
  <2> HIDE DEF ch
  <2>4. EntryOK(ch)
    <3>1. /\ Orderly(ch) /\ ch.flags # Flags
          /\ "EOF_SENT" \notin ch.flags /\ "OUTPUT_CLOSED" \notin ch.flags
      BY <2>2 DEF Orderly, Flags
    <3>2. QED
      BY <1>1, <2>2, <2>3, <3>1 DEF EntryOK
  <2>5. QED
    BY <2>2, <2>3, <2>4 DEF ch, Fresh, Empty
<1>2. QED
  BY <1>1

\* The packet a handler reads, as the protocol sees it.
LEMMA Reading ==
  ASSUME IInv, NEW e \in Ends, NEW kind, Arrived(e, kind)
  PROVE  /\ net[e] # << >> /\ Head(net[e]) \in Message
         /\ 1 \in DOMAIN net[e] /\ net[e][1] = Head(net[e])
         /\ net[e][1].kind = kind
         /\ \A k \in DOMAIN net[e] : k \in Nat \ {0}
<1>1. net[e] \in Seq(Message) /\ net[e] # << >>
  BY Shapes DEF Arrived
<1>2. QED
  BY <1>1, Received, QueueAdvances DEF Arrived

\* An open request is granted.
LEMMA AcceptOpenGrants ==
  ASSUME IInv, Agreement, NEW e \in Ends, NEW kind \in OpenKinds,
         AcceptOpen(e, kind)
  PROVE  Granting(e)
<1> DEFINE m    == Head(net[e])
           type == IF kind = "X11_OPEN" /\ Spoof THEN "X11_OPEN" ELSE "OPEN"
           x11  == (kind = "X11_OPEN")
           ch   == [BlankChannel EXCEPT
                      !.type = type, !.sock = NewSock(e), !.rid = m.chan,
                      !.isx = x11, !.inst = m.inst]
           p    == Packet("OPEN_CONFIRMATION", m.chan, NewSlot(e),
                          NoTarget, << >>, m.inst)
           out  == <<p>>
<1>1. Arrived(e, kind) /\ AllocateIn(e, ch) /\ Receive(e, out) /\ opened' = opened
      /\ hist' = hist
  BY DEF AcceptOpen
<1>2. /\ net[e] # << >> /\ m \in Message /\ net[e][1] = m /\ net[e][1].kind = kind
  BY <1>1, Reading
<1>3. m.chan \in Ids /\ m.inst \in Instances \cup {0}
  BY <1>2 DEF Message
<1>4. NewSock(e) \in Nat /\ NewSlot(e) \in Nat /\ NewSock(e) \in Sockets
  BY FreshSock, SlotFound DEF IInv, Sockets
<1>5. out \in Seq(Message)
  <2>1. << >> \in Seq(Items)
    BY EmptySeq
  <2>2. QED
    BY <1>3, <1>4, <2>1, OnePacket DEF Kinds, Ids
<1>6. /\ type \in LiveTypes /\ type \in {"OPEN", "X11_OPEN"}
      /\ type = "X11_OPEN" => x11 = TRUE
      /\ x11 \in BOOLEAN
  BY DEF LiveTypes
<1>7. /\ p.kind = "OPEN_CONFIRMATION" /\ p.chan = m.chan /\ p.from = NewSlot(e)
      /\ p.inst = m.inst
  BY DEF Packet
<1> HIDE DEF m, type, p, x11
<1>8. /\ EntryOK(ch) /\ ch \in Channel /\ ch.type = type /\ ch.flags = {}
      /\ ch.sock = NewSock(e) /\ ch.rid = m.chan /\ ch.inst = m.inst /\ Empty(ch)
  <2>1. ch = NewEntry(type, NewSock(e), m.chan, x11, m.inst)
    BY DEF NewEntry
  <2>2. x11 = TRUE \/ (x11 = FALSE /\ type # "X11_OPEN")
    BY <1>6
  <2> HIDE DEF ch
  <2>3. Fresh(ch, type, NewSock(e), m.chan, m.inst)
    <3>1. CASE x11 = TRUE
      BY <1>3, <1>4, <1>6, <2>1, <3>1, NewEntryOK
    <3>2. CASE x11 = FALSE /\ type # "X11_OPEN"
      BY <1>3, <1>4, <1>6, <2>1, <3>2, NewEntryOK
    <3>3. QED
      BY <2>2, <3>1, <3>2
  <2>4. QED
    BY <2>3 DEF Fresh
<1> HIDE DEF ch
<1>9. /\ Added(Entries(tbl[e]), Entries(tbl'[e]), NewSlot(e), ch)
      /\ tbl'[Peer(e)] = tbl[Peer(e)]
      /\ \A y \in Ends : fault'[y] = "none"
  BY <1>1, <1>6, <1>8, EntriesAdded
<1>10. /\ Advance(net[e], net'[e], 1)
       /\ Sends(net[Peer(e)], net'[Peer(e)], p)
  BY <1>1, <1>2, <1>5, TakenOne, OneSent
<1>11. Grants(Entries(tbl[e]), Entries(tbl'[e]), net[e], net'[e],
              net[Peer(e)], net'[Peer(e)], NewSlot(e), ch, p)
  BY <1>2, <1>6, <1>7, <1>8, <1>9, <1>10 DEF Grants
<1>12. QED
  BY <1>1, <1>8, <1>9, <1>11 DEF Granting

\* An open request is refused.
LEMMA RefuseOpenRefuses ==
  ASSUME IInv, Agreement, NEW e \in Ends, NEW kind \in OpenKinds,
         RefuseOpen(e, kind)
  PROVE  Refusing(e)
<1> DEFINE m   == Head(net[e])
           p   == Packet("OPEN_FAILURE", m.chan, NoId, NoTarget, << >>, m.inst)
           out == <<p>>
<1>1. Arrived(e, kind) /\ Receive(e, out) /\ UNCHANGED <<tbl, opened, fault, hist>>
  BY DEF RefuseOpen
<1>2. /\ net[e] # << >> /\ m \in Message /\ net[e][1] = m /\ net[e][1].kind = kind
  BY <1>1, Reading
<1>3. m.chan \in Ids /\ m.inst \in Instances \cup {0}
  BY <1>2 DEF Message
<1>4. out \in Seq(Message)
  <2>1. << >> \in Seq(Items)
    BY EmptySeq
  <2>2. QED
    BY <1>3, <2>1, OnePacket DEF Kinds, Ids
<1>5. p.kind = "OPEN_FAILURE" /\ p.chan = m.chan /\ p.inst = m.inst
  BY DEF Packet
<1> HIDE DEF m, p
<1>6. /\ Advance(net[e], net'[e], 1)
      /\ Sends(net[Peer(e)], net'[Peer(e)], p)
  BY <1>1, <1>2, <1>4, TakenOne, OneSent
<1>7. Refuses(net[e], net'[e], net[Peer(e)], net'[Peer(e)], p)
  BY <1>2, <1>5, <1>6 DEF Refuses
<1>8. QED
  BY <1>1, <1>7 DEF Refusing

\* channel_input_open_confirmation
LEMMA InputOpenConfirmationConfirms ==
  ASSUME IInv, Agreement, NEW e \in Ends, InputOpenConfirmation(e)
  PROVE  Confirming(e)
<1> DEFINE m   == Head(net[e])
           i   == m.chan
           A   == Entries(tbl[e])
           B   == Entries(tbl[Peer(e)])
           new == [tbl[e][i] EXCEPT !.rid = m.from, !.type = "OPEN"]
           out == << >>
<1>1. /\ m \in Message /\ net[e] # << >>
      /\ 1 \in DOMAIN net[e] /\ net[e][1] = m /\ m.kind = "OPEN_CONFIRMATION"
  BY Reading DEF InputOpenConfirmation
<1>2. /\ Half(A, B, net[e], net[Peer(e)], opened)
      /\ Half(B, A, net[Peer(e)], net[e], opened)
      /\ \A y \in Ends : fault[y] = "none"
  BY TwoHalves
<1>3. i \in DOMAIN A /\ A[i].type = "OPENING" /\ EntryOK(A[i])
  <2> HIDE DEF A, B, m
  <2>1. i \in DOMAIN A
    BY <1>1, <1>2 DEF Half, RoutesOK, OpenKinds
  <2>2. A[i].type = "OPENING"
    BY <1>1, <1>2 DEF Half, RepliesOK, ReplyKinds
  <2>3. QED
    BY <1>2, <2>1, <2>2 DEF Half, EntriesOK
<1>4. /\ i \in DOMAIN tbl[e] /\ tbl[e][i].type = "OPENING" /\ A[i] = tbl[e][i]
      /\ tbl[e][i] \in Channel
  <2>1. i \in DOMAIN tbl[e] /\ A[i] = tbl[e][i]
    BY <1>3, EntriesOf
  <2>2. QED
    BY <1>3, <2>1 DEF EntryOK
<1>5. /\ tbl' = [tbl EXCEPT ![e][i] = new] /\ fault' = fault
      /\ Receive(e, << >>) /\ opened' = opened /\ hist' = hist
  BY <1>4 DEF InputOpenConfirmation
<1>6. /\ new \in Channel /\ new.type = "OPEN" /\ new.rid = m.from
      /\ new.inst = A[i].inst /\ new.flags = A[i].flags /\ new.isx = A[i].isx
      /\ new.output = A[i].output /\ new.input = A[i].input
  BY <1>1, <1>4 DEF Channel, Message, ChannelTypes, LiveTypes
<1>7. /\ Peer(e) \in Ends /\ Peer(e) # e /\ DOMAIN tbl = Ends /\ DOMAIN net = Ends
      /\ alloc[e] \in Nat /\ tbl[e] \in [0 .. alloc[e] - 1 -> Channel]
      /\ net[Peer(e)] \in Seq(Message)
  BY OtherEnd, Shapes
<1>8. tbl'[e] = [tbl[e] EXCEPT ![i] = new] /\ tbl'[Peer(e)] = tbl[Peer(e)]
  BY <1>5, <1>7
<1>9. Advance(net[e], net'[e], 1) /\ net'[Peer(e)] = net[Peer(e)]
  <2>1. << >> \in Seq(Message)
    BY EmptySeq
  <2>2. net'[Peer(e)] = net[Peer(e)] \o << >>
    BY <1>5, <1>7 DEF Receive
  <2>3. QED
    BY <1>1, <1>5, <1>7, <2>1, <2>2, TakenOne, ConcatEmptySeq
<1> HIDE DEF new, i
<1>10. EntryOK(new)
  BY <1>3, <1>6 DEF EntryOK, Orderly, LiveTypes
<1>11. Stored(A, Entries(tbl'[e]), i, new)
  BY <1>4, <1>6, <1>7, <1>8, EntriesStored DEF LiveTypes
<1> HIDE DEF A, m
<1>12. Confirms(A, Entries(tbl'[e]), net[e], net'[e], i, new)
  BY <1>1, <1>6, <1>9, <1>10, <1>11 DEF Confirms, Stored, i
<1>13. QED
  BY <1>2, <1>5, <1>6, <1>8, <1>9, <1>12 DEF Confirming, A

\* channel_input_open_failure
LEMMA InputOpenFailureFails ==
  ASSUME IInv, Agreement, NEW e \in Ends, InputOpenFailure(e)
  PROVE  Failing(e)
<1> DEFINE m   == Head(net[e])
           i   == m.chan
           A   == Entries(tbl[e])
           B   == Entries(tbl[Peer(e)])
           r   == ChannelFree(Run(tbl[e][i]))
<1>1. /\ m \in Message /\ net[e] # << >>
      /\ 1 \in DOMAIN net[e] /\ net[e][1] = m /\ m.kind = "OPEN_FAILURE"
  BY Reading DEF InputOpenFailure
<1>2. /\ Half(A, B, net[e], net[Peer(e)], opened)
      /\ Half(B, A, net[Peer(e)], net[e], opened)
      /\ \A y \in Ends : fault[y] = "none"
  BY TwoHalves
<1>3. i \in DOMAIN A /\ A[i].type = "OPENING" /\ EntryOK(A[i])
  <2> HIDE DEF A, B, m
  <2>1. i \in DOMAIN A
    BY <1>1, <1>2 DEF Half, RoutesOK, OpenKinds
  <2>2. A[i].type = "OPENING"
    BY <1>1, <1>2 DEF Half, RepliesOK, ReplyKinds
  <2>3. QED
    BY <1>2, <2>1, <2>2 DEF Half, EntriesOK
<1>4. i \in DOMAIN tbl[e] /\ tbl[e][i].type = "OPENING" /\ A[i] = tbl[e][i]
  BY <1>3, EntriesOf
<1>5. /\ tbl' = [tbl EXCEPT ![e][i] = r.c] /\ fault' = [fault EXCEPT ![e] = r.fault]
      /\ Receive(e, << >>) /\ opened' = opened
  BY <1>4 DEF InputOpenFailure, Store
<1>6. /\ r.c.type = "FREE" /\ r.fault = "none"
      /\ hist' = hist
  <2>1. r.c.type = "FREE" /\ r.fault = "none" /\ r.c.flags = {}
    BY <1>3, <1>4 DEF ChannelFree, Run, EntryOK, Channel
  <2>2. ~ShutNow(tbl[e][i], r)
    BY <2>1 DEF ShutNow
  <2>3. Store(e, i, r, "no")
    BY <1>4 DEF InputOpenFailure
  <2>4. QED
    BY <2>1, <2>2, <2>3 DEF Store
<1>7. /\ Peer(e) \in Ends /\ Peer(e) # e /\ DOMAIN tbl = Ends /\ DOMAIN net = Ends
      /\ alloc[e] \in Nat /\ tbl[e] \in [0 .. alloc[e] - 1 -> Channel]
      /\ net[Peer(e)] \in Seq(Message) /\ DOMAIN fault = Ends
  BY OtherEnd, Shapes
<1> HIDE DEF r
<1>8. /\ tbl'[e] = [tbl[e] EXCEPT ![i] = r.c] /\ tbl'[Peer(e)] = tbl[Peer(e)]
      /\ \A y \in Ends : fault'[y] = "none"
  BY <1>2, <1>5, <1>6, <1>7
<1>9. Advance(net[e], net'[e], 1) /\ net'[Peer(e)] = net[Peer(e)]
  <2>1. << >> \in Seq(Message)
    BY EmptySeq
  <2>2. net'[Peer(e)] = net[Peer(e)] \o << >>
    BY <1>5, <1>7 DEF Receive
  <2>3. QED
    BY <1>1, <1>5, <1>7, <2>1, <2>2, TakenOne, ConcatEmptySeq
<1> HIDE DEF i
<1>10. Stored(A, Entries(tbl'[e]), i, r.c)
  BY <1>4, <1>6, <1>7, <1>8, EntriesStored DEF LiveTypes
<1> HIDE DEF A, m
<1>11. Fails(A, Entries(tbl'[e]), net[e], net'[e], i)
  BY <1>1, <1>6, <1>9, <1>10 DEF Fails, Stored, i
<1>12. QED
  BY <1>5, <1>6, <1>8, <1>9, <1>11 DEF Failing, A

\* A packet for an established entry finds it.
LEMMA Addressed ==
  ASSUME IInv, Agreement, NEW e \in Ends, NEW kind \in LaterKinds, Arrived(e, kind)
  PROVE  LET i == Head(net[e]).chan
         IN  /\ i \in DOMAIN Entries(tbl[e]) /\ Entries(tbl[e])[i].type # "OPENING"
             /\ i \in DOMAIN tbl[e] /\ Entries(tbl[e])[i] = tbl[e][i]
             /\ tbl[e][i].type \in {"OPEN", "X11_OPEN"} /\ Exists(e, i)
<1> DEFINE i == Head(net[e]).chan
           A == Entries(tbl[e])
<1>1. /\ 1 \in DOMAIN net[e] /\ net[e][1] = Head(net[e]) /\ net[e][1].kind = kind
      /\ \A k \in DOMAIN net[e] : k \in Nat \ {0}
  BY Reading
<1>2. i \in DOMAIN A /\ A[i].type # "OPENING"
  BY <1>1, TwoHalves, AtTheHead
<1>3. i \in DOMAIN tbl[e] /\ A[i] = tbl[e][i] /\ tbl[e][i].type \in LiveTypes
  BY <1>2, EntriesOf
<1> HIDE DEF A, i
<1>4. tbl[e][i].type \in {"OPEN", "X11_OPEN"} /\ tbl[e][i].type # "FREE"
  BY <1>2, <1>3 DEF LiveTypes
<1>5. Exists(e, i)
  BY <1>3, <1>4 DEF Exists
<1>6. QED
  BY <1>2, <1>3, <1>4, <1>5 DEF A, i

\* channel_input_data
LEMMA InputDataServes ==
  ASSUME IInv, Agreement, NEW e \in Ends, InputData(e)
  PROVE  Serving(e)
<1> DEFINE m   == Head(net[e])
           i   == m.chan
           A   == Entries(tbl[e])
           B   == Entries(tbl[Peer(e)])
           new == IF "OUTPUT_CLOSED" \notin A[i].flags
                  THEN [A[i] EXCEPT !.output = @ \o m.data] ELSE A[i]
<1>1. /\ m \in Message /\ net[e] # << >> /\ Arrived(e, "DATA")
      /\ 1 \in DOMAIN net[e] /\ net[e][1] = m /\ m.kind = "DATA"
      /\ \A k \in DOMAIN net[e] : k \in Nat \ {0}
  BY Reading DEF InputData
<1>2. /\ Half(A, B, net[e], net[Peer(e)], opened)
      /\ Half(B, A, net[Peer(e)], net[e], opened)
      /\ \A y \in Ends : fault[y] = "none"
  BY TwoHalves
<1>3. m.data \in Seq(Items)
  BY <1>1 DEF Message
<1>4. "EOF_RECEIVED" \notin A[i].flags /\ Served(A, B, i, new, "DATA", << >>)
  <2> HIDE DEF A, B, m
  <2>1. net[e][1].data \in Seq(Items) /\ net[e][1].kind = "DATA"
    BY <1>1, <1>3
  <2>2. QED
    BY <1>1, <1>2, <2>1, DataServes
<1>5. /\ i \in DOMAIN tbl[e] /\ A[i] = tbl[e][i] /\ Exists(e, i)
      /\ tbl[e][i].type \in {"OPEN", "X11_OPEN"}
  BY <1>1, Addressed DEF LaterKinds
<1>6. /\ tbl' = IF "OUTPUT_CLOSED" \notin tbl[e][i].flags
                THEN [tbl EXCEPT ![e][i].output = @ \o m.data] ELSE tbl
      /\ fault' = fault /\ Receive(e, << >>) /\ opened' = opened
      /\ hist' = hist
  BY <1>4, <1>5 DEF InputData
<1>7. /\ tbl = [y \in Ends |-> tbl[y]]
      /\ tbl[e] \in [0 .. alloc[e] - 1 -> Channel]
  BY Shapes DEF IInv, TablesOK
<1>8. tbl' = [tbl EXCEPT ![e][i] = new]
  <2>1. CASE "OUTPUT_CLOSED" \notin tbl[e][i].flags
    <3>1. new = [tbl[e][i] EXCEPT !.output = @ \o m.data]
      BY <1>5, <2>1
    <3>2. tbl' = [tbl EXCEPT ![e][i] = [tbl[e][i] EXCEPT !.output = @ \o m.data]]
      BY <1>5, <1>6, <1>7, <2>1
    <3>3. QED
      BY <3>1, <3>2
  <2>2. CASE "OUTPUT_CLOSED" \in tbl[e][i].flags
    <3>1. new = tbl[e][i] /\ tbl' = tbl
      BY <1>5, <1>6, <2>2
    <3>2. [tbl[e] EXCEPT ![i] = tbl[e][i]] = tbl[e]
      BY <1>7
    <3>3. [tbl EXCEPT ![e] = tbl[e]] = tbl
      BY <1>7
    <3>4. [tbl EXCEPT ![e][i] = tbl[e][i]] = [tbl EXCEPT ![e] = [tbl[e] EXCEPT ![i] = tbl[e][i]]]
      BY <1>7
    <3> HIDE DEF new
    <3>5. QED
      BY <3>1, <3>2, <3>3, <3>4
  <2>3. QED
    BY <2>1, <2>2
<1>9. /\ Advance(net[e], net'[e], 1)
      /\ Extend(net[Peer(e)], net'[Peer(e)], << >>)
  <2>1. << >> \in Seq(Message)
    BY EmptySeq
  <2>2. QED
    BY <1>1, <1>6, <2>1, TakenOne
<1>10. Taken(net[e], net'[e], i, "DATA", 1)
  BY <1>1, <1>9 DEF Taken
<1>11. tbl[e][i].type \in LiveTypes
  BY <1>5 DEF LiveTypes
<1>12. \A y \in Ends : fault'[y] = "none"
  BY <1>2, <1>6
<1>13. /\ tbl[e][i] \in Channel /\ tbl[e][i].inst \in Instances
       /\ tbl[e][i].output \in Seq(Items)
  BY <1>5, <1>11, OfConnection DEF Channel
<1>14. /\ "OUTPUT_CLOSED" \notin tbl[e][i].flags =>
            /\ "OUTPUT_CLOSED" \notin new.flags
            /\ new.output = tbl[e][i].output \o net[e][1].data
       /\ new.input = tbl[e][i].input
  BY <1>1, <1>5, <1>13 DEF Channel
<1> DEFINE out == << >>
<1>15. \A k \in DOMAIN out : out[k].kind # "DATA"
  OBVIOUS
<1>16. /\ Served(A, B, i, new, "DATA", out)
       /\ Extend(net[Peer(e)], net'[Peer(e)], out)
  BY <1>4, <1>9
<1> HIDE DEF new, i, m, out
<1>17. Service(e, i, new, "DATA", 1, out)
  BY <1>5, <1>6, <1>8, <1>10, <1>11, <1>12, <1>16 DEF Service
<1>18. Account(e, i, new, "DATA", out)
  <2> DEFINE h == hist[tbl[e][i].inst][e]
  <2> HIDE DEF h
  <2>1. Delivers(tbl[e][i], new, h, h, "DATA", net[e][1].data)
    BY <1>14 DEF Delivers
  <2>2. Collects(tbl[e][i], new, h, h, "DATA", out)
    BY <1>14, <1>15 DEF Collects
  <2>3. QED
    BY <1>6, <2>1, <2>2 DEF Account, h
<1>19. QED
  BY <1>17, <1>18 DEF Serving

\* channel_ieof
LEMMA InputEofServes ==
  ASSUME IInv, Agreement, NEW e \in Ends, InputEof(e)
  PROVE  Serving(e)
<1> DEFINE i == Head(net[e]).chan
           A == Entries(tbl[e])
           B == Entries(tbl[Peer(e)])
           r == ReceiveIeof(Run(tbl[e][i]))
<1>1. /\ net[e] # << >> /\ Arrived(e, "INPUT_EOF")
      /\ 1 \in DOMAIN net[e] /\ net[e][1].chan = i /\ net[e][1].kind = "INPUT_EOF"
      /\ \A k \in DOMAIN net[e] : k \in Nat \ {0}
  BY Reading DEF InputEof, InputClose
<1>2. /\ i \in DOMAIN tbl[e] /\ A[i] = tbl[e][i] /\ Exists(e, i)
      /\ tbl[e][i].type \in {"OPEN", "X11_OPEN"}
  BY <1>1, Addressed DEF LaterKinds, CloseKinds
<1>3. RunServes(A, B, i, r, "INPUT_EOF") /\ Handles(tbl[e][i], r, "INPUT_EOF", "early")
  <2> HIDE DEF A, B, i
  <2>1. /\ RunServes(A, B, i, ReceiveIeof(Run(A[i])), "INPUT_EOF")
        /\ Handles(A[i], ReceiveIeof(Run(A[i])), "INPUT_EOF", "early")
    BY <1>1, TwoHalves, EofServes DEF A, B
  <2>2. QED
    BY <1>2, <2>1
<1>4. /\ Store(e, i, r, "early") /\ Receive(e, r.out) /\ opened' = opened
  BY <1>2 DEF InputEof, InputClose, RunOfHead
<1>5. /\ Run(tbl[e][i]) \in Runs /\ Sound(Run(tbl[e][i]))
  BY <1>2, EntryInUse DEF IInv
<1>6. r.out \in Seq(Message)
  BY <1>5, ReceiveIeofSound DEF Step, Sound, Runs
<1> HIDE DEF r, i, A, B
<1>7. /\ Advance(net[e], net'[e], 1)
      /\ Extend(net[Peer(e)], net'[Peer(e)], r.out)
  BY <1>1, <1>4, <1>6, TakenOne
<1>8. Taken(net[e], net'[e], i, "INPUT_EOF", 1)
  BY <1>1, <1>7 DEF Taken
<1>9. tbl[e][i].type \in LiveTypes
  BY <1>2 DEF LiveTypes
<1> DEFINE x == "INPUT_EOF"
<1>10. x # "DATA" /\ x = "INPUT_EOF"
  OBVIOUS
<1> HIDE DEF x
<1>11. QED
  BY <1>2, <1>3, <1>4, <1>7, <1>8, <1>9, <1>10, RunServing DEF A, B

\* channel_oclosed
LEMMA OutputClosedServes ==
  ASSUME IInv, Agreement, NEW e \in Ends, OutputClosed(e)
  PROVE  Serving(e)
<1> DEFINE i == Head(net[e]).chan
           A == Entries(tbl[e])
           B == Entries(tbl[Peer(e)])
           r == ReceiveOclosed(Run(tbl[e][i]))
<1>1. /\ net[e] # << >> /\ Arrived(e, "OUTPUT_CLOSED")
      /\ 1 \in DOMAIN net[e] /\ net[e][1].chan = i
      /\ net[e][1].kind = "OUTPUT_CLOSED"
      /\ \A k \in DOMAIN net[e] : k \in Nat \ {0}
  BY Reading DEF OutputClosed, InputClose
<1>2. /\ i \in DOMAIN tbl[e] /\ A[i] = tbl[e][i] /\ Exists(e, i)
      /\ tbl[e][i].type \in {"OPEN", "X11_OPEN"}
  BY <1>1, Addressed DEF LaterKinds, CloseKinds
<1>3. RunServes(A, B, i, r, "OUTPUT_CLOSED") /\ Handles(tbl[e][i], r, "OUTPUT_CLOSED", "no")
  <2> HIDE DEF A, B, i
  <2>1. /\ RunServes(A, B, i, ReceiveOclosed(Run(A[i])), "OUTPUT_CLOSED")
        /\ Handles(A[i], ReceiveOclosed(Run(A[i])), "OUTPUT_CLOSED", "no")
    BY <1>1, TwoHalves, CloseServes DEF A, B
  <2>2. QED
    BY <1>2, <2>1
<1>4. /\ Store(e, i, r, "no") /\ Receive(e, r.out) /\ opened' = opened
  BY <1>2 DEF OutputClosed, InputClose, RunOfHead
<1>5. /\ Run(tbl[e][i]) \in Runs /\ Sound(Run(tbl[e][i]))
      /\ Run(tbl[e][i]).c.type # "FREE"
  BY <1>2, EntryInUse DEF IInv
<1>6. r.out \in Seq(Message)
  BY <1>5, ReceiveOclosedSound DEF Step, Sound, Runs
<1> HIDE DEF r, i, A, B
<1>7. /\ Advance(net[e], net'[e], 1)
      /\ Extend(net[Peer(e)], net'[Peer(e)], r.out)
  BY <1>1, <1>4, <1>6, TakenOne
<1>8. Taken(net[e], net'[e], i, "OUTPUT_CLOSED", 1)
  BY <1>1, <1>7 DEF Taken
<1>9. tbl[e][i].type \in LiveTypes
  BY <1>2 DEF LiveTypes
<1> DEFINE x == "OUTPUT_CLOSED"
<1>10. x # "DATA" /\ x = "OUTPUT_CLOSED"
  OBVIOUS
<1> HIDE DEF x
<1>11. QED
  BY <1>2, <1>3, <1>4, <1>7, <1>8, <1>9, <1>10, RunServing DEF A, B

-----------------------------------------------------------------------------
(* The loops over the table.                                               *)

\* An open entry the loops look at.
LEMMA LookedAt ==
  ASSUME IInv, Agreement, NEW e \in Ends, NEW i \in DOMAIN tbl[e],
         tbl[e][i].type \in {"OPEN", "X11_OPEN"}
  PROVE  /\ i \in DOMAIN Entries(tbl[e]) /\ Entries(tbl[e])[i] = tbl[e][i]
         /\ tbl[e][i].type \in LiveTypes /\ EntryOK(tbl[e][i])
         /\ tbl[e][i] \in Channel
         /\ Run(tbl[e][i]) \in Runs /\ Sound(Run(tbl[e][i]))
         /\ Tight(Run(tbl[e][i])) /\ Run(tbl[e][i]).c.type # "FREE"
<1>1. tbl[e][i].type \in LiveTypes
  BY DEF LiveTypes
<1>2. i \in DOMAIN Entries(tbl[e]) /\ Entries(tbl[e])[i] = tbl[e][i]
  BY <1>1, EntriesOf
<1>3. EntryOK(tbl[e][i])
  BY <1>2, TwoHalves DEF Half, EntriesOK
<1>4. /\ Run(tbl[e][i]) \in Runs /\ Sound(Run(tbl[e][i]))
      /\ Tight(Run(tbl[e][i])) /\ Run(tbl[e][i]).c = tbl[e][i]
  BY EntryInUse DEF IInv
<1>5. QED
  BY <1>1, <1>2, <1>3, <1>4 DEF EntryOK

\* channel_output_poll, a packet of data.
LEMMA PollDataServing ==
  ASSUME IInv, Agreement, NEW e \in Ends, NEW i \in DOMAIN tbl[e], PollData(e, i)
  PROVE  Serving(e)
<1> DEFINE c    == tbl[e][i]
           A    == Entries(tbl[e])
           B    == Entries(tbl[Peer(e)])
           len  == Min({Len(c.input), Chunk})
           rest == SubSeq(c.input, len + 1, Len(c.input))
           data == SubSeq(c.input, 1, len)
           new  == [c EXCEPT !.input = rest]
           p    == Packet("DATA", c.rid, NoId, NoTarget, data, c.inst)
           out  == <<p>>
<1>1. c.type = "OPEN" /\ c.input # << >>
  BY DEF PollData
<1>2. /\ i \in DOMAIN A /\ A[i] = c /\ c.type \in LiveTypes /\ c \in Channel
  BY <1>1, LookedAt
<1>3. c.input \in Seq(Items) /\ c.rid \in Ids /\ c.inst \in Instances \cup {0}
  BY <1>2 DEF Channel
<1>4. rest \in Seq(Items) /\ data \in Seq(Items) /\ len \in 0 .. Len(c.input)
  <2>1. Len(c.input) \in Nat /\ Chunk \in Nat
    BY <1>3, LenProperties, BoundsAssumption
  <2>2. len \in {Len(c.input), Chunk} /\ len =< Len(c.input)
    BY <2>1, MinOfNaturals
  <2>3. len \in 0 .. Len(c.input)
    BY <2>1, <2>2
  <2> HIDE DEF len, c
  <2>4. rest \in Seq(Items) /\ data \in Seq(Items)
    BY <1>3, <2>1, <2>3, SubSeqProperties
  <2>5. QED
    BY <2>3, <2>4
<1>5. out \in Seq(Message)
  BY <1>3, <1>4, OnePacket DEF Kinds, Ids
<1>6. /\ Emit(e, out) /\ tbl' = [tbl EXCEPT ![e][i] = new]
      /\ opened' = opened /\ fault' = fault /\ hist' = hist
  BY DEF PollData
<1> DEFINE item == out[1]
<1>7. /\ new.flags = c.flags /\ new.output = c.output
       /\ \E n \in 0 .. Len(c.input) :
            /\ item.data = SubSeq(c.input, 1, n)
            /\ new.input = SubSeq(c.input, n + 1, Len(c.input))
  <2>1. item.data = data /\ new.flags = c.flags /\ new.output = c.output
        /\ new.input = rest
    BY <1>2 DEF Packet, Channel
  <2>2. QED
    BY <1>4, <2>1
<1>8. Len(out) = 1 /\ IsDataOf(item, c.inst)
  BY DEF IsDataOf, Packet
<1> HIDE DEF len, rest, data
<1>9. Served(A, B, i, new, "none", out)
  <2>1. A[i].type = "OPEN" /\ A[i].input # << >>
    BY <1>1, <1>2
  <2> HIDE DEF c, A, B
  <2>2. Served(A, B, i, [A[i] EXCEPT !.input = rest], "none",
               <<Packet("DATA", A[i].rid, NoId, NoTarget, data, A[i].inst)>>)
    BY <1>2, <1>4, <2>1, TwoHalves, PollDataServes DEF A, B
  <2>3. QED
    BY <1>2, <2>2
<1> HIDE DEF new, p, out
<1>10. /\ Advance(net[e], net'[e], 0) /\ Extend(net[Peer(e)], net'[Peer(e)], out)
  BY <1>5, <1>6, Emitted
<1>11. Taken(net[e], net'[e], i, "none", 0)
  BY <1>10 DEF Taken
<1>12. Service(e, i, new, "none", 0, out)
  BY <1>2, <1>6, <1>9, <1>10, <1>11, TwoHalves DEF Service
<1>13. c.output \in Seq(Items) /\ c.inst \in Instances
  BY <1>2, OfConnection DEF Channel
<1>14. Account(e, i, new, "none", out)
  <2>1. hist[c.inst][e].wrote \in Nat
    BY <1>13, OtherEnd DEF IInv, HistoryOK, Records
  <2> DEFINE h == hist[c.inst][e]
  <2> HIDE DEF h
  <2>2. Delivers(c, new, h, h, "none", net[e][1].data)
    BY <1>7, <1>13, <2>1, NothingChanges DEF h
  <2>3. Collects(c, new, h, h, "none", out)
    BY <1>7, <1>8 DEF Collects, item
  <2>4. QED
    BY <1>6, <2>2, <2>3 DEF Account, h
<1>15. QED
  BY <1>12, <1>14 DEF Serving

\* channel_output_poll, the eof of a drained channel.
LEMMA PollEofServing ==
  ASSUME IInv, Agreement, NEW e \in Ends, NEW i \in DOMAIN tbl[e], PollEof(e, i)
  PROVE  Serving(e)
<1> DEFINE c == tbl[e][i]
           A == Entries(tbl[e])
           B == Entries(tbl[Peer(e)])
           r == SendIeof(Run(c))
<1>1. /\ c.type = "OPEN" /\ c.input = << >>
      /\ "INPUT_CLOSED" \in c.flags /\ "EOF_SENT" \notin c.flags
  BY DEF PollEof, EofDue
<1>2. /\ i \in DOMAIN A /\ A[i] = c /\ c.type \in LiveTypes
      /\ Run(c) \in Runs /\ Sound(Run(c))
  BY <1>1, LookedAt
<1>3. r.out \in Seq(Message)
  <2>1. "INPUT_CLOSED" \in Run(c).c.flags
    BY <1>1 DEF Run
  <2>2. QED
    BY <1>2, <2>1, SendIeofSound DEF Step, Sound, Runs
<1>4. RunServes(A, B, i, r, "none") /\ Handles(c, r, "none", "no")
  <2> HIDE DEF A, B, c
  <2>1. /\ RunServes(A, B, i, SendIeof(Run(A[i])), "none")
        /\ Handles(A[i], SendIeof(Run(A[i])), "none", "no")
    BY <1>1, <1>2, TwoHalves, PollEofServes DEF A, B
  <2>2. QED
    BY <1>2, <2>1
<1>5. Store(e, i, r, "no") /\ Emit(e, r.out) /\ opened' = opened
  BY DEF PollEof
<1> HIDE DEF r
<1>6. QED
  BY <1>2, <1>3, <1>4, <1>5, LoopRunServing

\* channel_prepare_select, an open channel: the output may be closed here.
LEMMA PrepareOpenServing ==
  ASSUME IInv, Agreement, NEW e \in Ends, NEW i \in DOMAIN tbl[e], PrepareOpen(e, i)
  PROVE  Serving(e)
<1> DEFINE c == tbl[e][i]
           A == Entries(tbl[e])
           B == Entries(tbl[Peer(e)])
           drained == /\ "OUTPUT_CLOSED" \notin c.flags /\ c.output = << >>
                      /\ "EOF_RECEIVED" \in c.flags
           r == IF drained THEN CloseOutput(Run(c)) ELSE Run(c)
<1>1. c.type = "OPEN"
  BY DEF PrepareOpen
<1>2. /\ i \in DOMAIN A /\ A[i] = c /\ c.type \in LiveTypes /\ c \in Channel
      /\ EntryOK(c) /\ Run(c) \in Runs /\ Sound(Run(c))
  BY <1>1, LookedAt
<1>3. r.out \in Seq(Message)
  BY <1>2, CloseOutputSound DEF Step, Sound, Runs
<1>4. "EOF_SENT" \in c.flags => c.input = << >>
  BY <1>2 DEF EntryOK
<1>5. RunServes(A, B, i, r, "none") /\ Handles(c, r, "none", "drained")
  <2> HIDE DEF c, A, B
  <2>1. CASE drained
    <3> DEFINE why == "drained"
    <3>0. why # "no" /\ why = "drained"
      OBVIOUS
    <3> HIDE DEF why
    <3>1. /\ RunServes(A, B, i, CloseOutput(Run(c)), "none")
          /\ Handles(c, CloseOutput(Run(c)), "none", why)
      BY <3>0, <1>1, <1>2, <1>4, <2>1, TwoHalves, CloseOutputServes DEF A, B
    <3>2. QED
      BY <2>1, <3>0, <3>1
  <2>2. CASE ~drained
    <3>1. RunServes(A, B, i, Run(c), "none")
      BY <1>1, <1>2, <1>4, TwoHalves, BuffersServe DEF A, B
    <3>2. Handles(c, Run(c), "none", "drained")
      <4> DEFINE none == << >>
      <4>1. Run(c).c = c /\ Run(c).out = none
        BY DEF Run
      <4>2. \A k \in DOMAIN none : none[k].kind # "DATA"
        OBVIOUS
      <4> HIDE DEF none
      <4>3. QED
        BY <4>1, <4>2 DEF Handles
    <3>3. QED
      BY <2>2, <3>1, <3>2
  <2>3. QED
    BY <2>1, <2>2
<1>6. Store(e, i, r, "drained") /\ Emit(e, r.out) /\ opened' = opened
  BY DEF PrepareOpen
<1> HIDE DEF r
<1>7. QED
  BY <1>2, <1>3, <1>5, <1>6, LoopRunServing

\* channel_prepare_select, good X11 credentials.
LEMMA PrepareX11GoodServing ==
  ASSUME IInv, Agreement, NEW e \in Ends, NEW i \in DOMAIN tbl[e],
         PrepareX11Good(e, i)
  PROVE  Serving(e)
<1> DEFINE c   == tbl[e][i]
           A   == Entries(tbl[e])
           B   == Entries(tbl[Peer(e)])
           new == [c EXCEPT !.type = "OPEN"]
<1>1. c.type = "X11_OPEN"
  BY DEF PrepareX11Good
<1>2. i \in DOMAIN A /\ A[i] = c /\ c.type \in LiveTypes
  BY <1>1, LookedAt
<1>3. Served(A, B, i, new, "none", << >>)
  <2>1. A[i].type = "X11_OPEN"
    BY <1>1, <1>2
  <2> HIDE DEF c, A, B
  <2>2. Served(A, B, i, [A[i] EXCEPT !.type = "OPEN"], "none", << >>)
    BY <1>2, <2>1, TwoHalves, X11GoodServes DEF A, B
  <2>3. QED
    BY <1>2, <2>2
<1>4. /\ tbl' = [tbl EXCEPT ![e][i] = new] /\ UNCHANGED <<net, opened, fault, hist>>
  BY DEF PrepareX11Good
<1>5. /\ Advance(net[e], net'[e], 0)
      /\ Extend(net[Peer(e)], net'[Peer(e)], << >>)
  BY <1>4, NothingSent
<1>6. Taken(net[e], net'[e], i, "none", 0)
  BY <1>5 DEF Taken
<1> DEFINE out == << >>
<1>7. /\ Served(A, B, i, new, "none", out) /\ \A k \in DOMAIN out : out[k].kind # "DATA"
      /\ Extend(net[Peer(e)], net'[Peer(e)], out)
  BY <1>3, <1>5
<1>8. /\ c \in Channel /\ c.output \in Seq(Items) /\ c.inst \in Instances
  BY <1>2, OfConnection DEF Channel
<1>9. new.flags = c.flags /\ new.input = c.input /\ new.output = c.output
  BY <1>8 DEF Channel
<1> HIDE DEF new, out
<1>10. Service(e, i, new, "none", 0, out)
  BY <1>2, <1>4, <1>6, <1>7, TwoHalves DEF Service
<1>11. Account(e, i, new, "none", out)
  <2>1. hist[c.inst][e].wrote \in Nat
    BY <1>8 DEF IInv, HistoryOK, Records
  <2> DEFINE h == hist[c.inst][e]
  <2> HIDE DEF h
  <2>2. Delivers(c, new, h, h, "none", net[e][1].data)
    BY <1>8, <1>9, <2>1, NothingChanges DEF h
  <2>3. Collects(c, new, h, h, "none", out)
    BY <1>7, <1>9 DEF Collects
  <2>4. QED
    BY <1>4, <2>2, <2>3 DEF Account, h
<1>12. QED
  BY <1>10, <1>11 DEF Serving

\* channel_prepare_select, bad X11 credentials.
LEMMA PrepareX11BadServing ==
  ASSUME IInv, Agreement, NEW e \in Ends, NEW i \in DOMAIN tbl[e],
         PrepareX11Bad(e, i)
  PROVE  Serving(e)
<1> DEFINE c == tbl[e][i]
           A == Entries(tbl[e])
           B == Entries(tbl[Peer(e)])
           r == RejectX11(Run(c))
<1>1. c.type = "X11_OPEN" /\ c.output # << >>
  BY DEF PrepareX11Bad
<1>2. /\ i \in DOMAIN A /\ A[i] = c /\ c.type \in LiveTypes
      /\ Run(c) \in Runs /\ Sound(Run(c)) /\ Tight(Run(c))
      /\ Run(c).c.type # "FREE"
  BY <1>1, LookedAt
<1>3. r.out \in Seq(Message)
  BY <1>2, RejectX11Sound DEF Sound, Runs
<1>4. RunServes(A, B, i, r, "none") /\ Handles(c, r, "none", "rejected")
  <2>1. A[i].type = "X11_OPEN" /\ A[i].output # << >>
    BY <1>1, <1>2
  <2> HIDE DEF c, A, B
  <2>2. /\ RunServes(A, B, i, RejectX11(Run(A[i])), "none")
        /\ Handles(A[i], RejectX11(Run(A[i])), "none", "rejected")
    BY <1>2, <2>1, TwoHalves, X11BadServes DEF A, B
  <2>3. QED
    BY <1>2, <2>2
<1>5. Store(e, i, r, "rejected") /\ Emit(e, r.out) /\ opened' = opened
  BY DEF PrepareX11Bad
<1> HIDE DEF r
<1>6. QED
  BY <1>2, <1>3, <1>4, <1>5, LoopRunServing

\* channel_after_select, end of file on a socket.
LEMMA ReadEofServing ==
  ASSUME IInv, Agreement, NEW e \in Ends, NEW i \in DOMAIN tbl[e], ReadEof(e, i)
  PROVE  Serving(e)
<1> DEFINE c == tbl[e][i]
           A == Entries(tbl[e])
           B == Entries(tbl[Peer(e)])
           r == CloseInput(Run(c))
<1>1. c.type = "OPEN"
  BY DEF ReadEof, CanRead
<1>2. /\ i \in DOMAIN A /\ A[i] = c /\ c.type \in LiveTypes
      /\ Run(c) \in Runs /\ Sound(Run(c))
  BY <1>1, LookedAt
<1>3. r.out \in Seq(Message)
  BY <1>2, CloseInputSound DEF Step, Sound, Runs
<1>4. RunServes(A, B, i, r, "none") /\ Handles(c, r, "none", "no")
  <2>1. A[i].type = "OPEN"
    BY <1>1, <1>2
  <2> HIDE DEF c, A, B
  <2>2. /\ RunServes(A, B, i, CloseInput(Run(A[i])), "none")
        /\ Handles(A[i], CloseInput(Run(A[i])), "none", "no")
    BY <1>2, <2>1, TwoHalves, CloseInputServes DEF A, B
  <2>3. QED
    BY <1>2, <2>2
<1>5. Store(e, i, r, "no") /\ Emit(e, r.out) /\ opened' = opened
  BY DEF ReadEof
<1> HIDE DEF r
<1>6. QED
  BY <1>2, <1>3, <1>4, <1>5, LoopRunServing

\* channel_after_select, a listener.
LEMMA AcceptConnectionAccepts ==
  ASSUME IInv, Agreement, NEW e \in Ends, NEW i \in DOMAIN tbl[e],
         AcceptConnection(e, i)
  PROVE  Accepting(e)
<1> DEFINE type == tbl[e][i].type
           x11  == (type = "X11_LISTENER")
           new  == [BlankChannel EXCEPT
                      !.type = "OPENING", !.sock = NewSock(e),
                      !.isx = (tbl[e][i].type = "X11_LISTENER"),
                      !.inst = opened + 1]
<1>1. /\ AllocateIn(e, new) /\ opened' = opened + 1 /\ hist' = hist /\ type \in ListenerTypes
      /\ opened < MaxOpens
  BY DEF AcceptConnection
<1>2. PICK target \in Targets \cup {NoTarget} :
        Emit(e, <<Packet(OpenKind(tbl[e][i].type), NewSlot(e), NoId, target, << >>,
                         opened + 1)>>)
  BY DEF AcceptConnection
<1> DEFINE p   == Packet(OpenKind(type), NewSlot(e), NoId, target, << >>, opened + 1)
           out == <<p>>
<1>3. opened \in Nat /\ opened + 1 \in Instances /\ opened + 1 \in Instances \cup {0}
  <2>1. opened \in 0 .. MaxOpens /\ MaxOpens \in Nat
    BY BoundsAssumption DEF IInv, HistoryOK
  <2>2. QED
    BY <1>1, <2>1 DEF Instances
<1>4. NewSock(e) \in Nat /\ NewSlot(e) \in Nat /\ NewSock(e) \in Sockets
  BY FreshSock, SlotFound DEF IInv, Sockets
<1>5. OpenKind(type) \in Kinds /\ OpenKind(type) \in OpenKinds
  BY <1>1 DEF OpenKind, ListenerTypes, Kinds, OpenKinds
<1>6. out \in Seq(Message) /\ NoId \in Ids
  <2>1. << >> \in Seq(Items)
    BY EmptySeq
  <2>2. QED
    BY <1>3, <1>4, <1>5, <2>1, OnePacket DEF Ids
<1>7. p.kind = OpenKind(type) /\ p.chan = NewSlot(e) /\ p.inst = opened + 1
  BY DEF Packet
<1>8. new = NewEntry("OPENING", NewSock(e), NoId, x11, opened + 1)
  <2>1. [BlankChannel EXCEPT !.rid = NoId] = BlankChannel
    <3>1. BlankChannel.rid = NoId
      BY DEF BlankChannel
    <3>2. BlankChannel = [x \in DOMAIN BlankChannel |-> BlankChannel[x]]
      BY DEF BlankChannel
    <3>3. QED
      BY <3>1, <3>2
  <2>2. NewEntry("OPENING", NewSock(e), NoId, x11, opened + 1)
          = [[BlankChannel EXCEPT !.rid = NoId] EXCEPT
                !.type = "OPENING", !.sock = NewSock(e), !.isx = x11,
                !.inst = opened + 1]
    BY DEF NewEntry, BlankChannel
  <2>3. QED
    BY <2>1, <2>2
<1>9. x11 = TRUE \/ x11 = FALSE
  OBVIOUS
<1>10. Emit(e, out)
  BY <1>2
<1> HIDE DEF new, p, x11, type
<1>11. Fresh(new, "OPENING", NewSock(e), NoId, opened + 1)
  <2>1. "OPENING" \in LiveTypes
    BY DEF LiveTypes
  <2>2. CASE x11 = TRUE
    BY <1>3, <1>4, <1>6, <1>8, <2>1, <2>2, NewEntryOK
  <2>3. CASE x11 = FALSE
    BY <1>3, <1>4, <1>6, <1>8, <2>1, <2>3, NewEntryOK
  <2>4. QED
    BY <1>9, <2>2, <2>3
<1>12. /\ EntryOK(new) /\ new \in Channel /\ new.type = "OPENING"
       /\ new.flags = {} /\ new.sock = NewSock(e) /\ new.inst = opened + 1
       /\ new.type \in LiveTypes
  BY <1>11 DEF Fresh, LiveTypes
<1>13. /\ Added(Entries(tbl[e]), Entries(tbl'[e]), NewSlot(e), new)
       /\ tbl'[Peer(e)] = tbl[Peer(e)]
       /\ \A y \in Ends : fault'[y] = "none"
  BY <1>1, <1>12, EntriesAdded
<1>14. Sends(net[Peer(e)], net'[Peer(e)], p)
  BY <1>6, <1>10, Emitted, OneSent
<1>15. net'[e] = net[e]
  BY <1>10, OtherEnd, Shapes DEF Emit
<1>16. Accepts(Entries(tbl[e]), Entries(tbl'[e]), net[Peer(e)],
               net'[Peer(e)], NewSlot(e), new, p, opened)
  BY <1>5, <1>7, <1>12, <1>13, <1>14 DEF Accepts
<1>17. QED
  BY <1>1, <1>13, <1>15, <1>16 DEF Accepting

\* Something was read, and something written ...
LEMMA NotedTransfer ==
  ASSUME IInv, NEW e \in Ends, NEW c \in Instances, NEW n, NEW k,
         hist' = [hist EXCEPT ![c][e].read = @ + n, ![c][e].wrote = @ + k]
  PROVE  /\ \A j \in Instances : j # c => hist'[j] = hist[j]
         /\ hist'[c][Peer(e)] = hist[c][Peer(e)]
         /\ hist'[c][e].read = hist[c][e].read + n
         /\ hist'[c][e].wrote = hist[c][e].wrote + k
         /\ hist'[c][e].shut = hist[c][e].shut
<1>1. hist \in [Instances \cup {0} -> [Ends -> [read : Nat, wrote : Nat, shut : Reasons]]]
  BY DEF IInv, HistoryOK, Records
<1>2. Peer(e) \in Ends /\ Peer(e) # e
  BY OtherEnd
<1> DEFINE one == [hist EXCEPT ![c][e].read = @ + n]
<1>3. one = [hist EXCEPT ![c] = [hist[c] EXCEPT ![e] = [hist[c][e] EXCEPT
               !.read = hist[c][e].read + n]]]
  BY <1>1
<1>4. /\ \A j \in Instances : j # c => one[j] = hist[j]
      /\ one[c][Peer(e)] = hist[c][Peer(e)] /\ DOMAIN one[c] = Ends
      /\ one[c][e] = [hist[c][e] EXCEPT !.read = hist[c][e].read + n]
      /\ DOMAIN one = Instances \cup {0}
  BY <1>1, <1>2, <1>3
<1>5. hist' = [one EXCEPT ![c] = [one[c] EXCEPT ![e] = [one[c][e] EXCEPT
                 !.wrote = one[c][e].wrote + k]]]
  BY <1>1
<1> HIDE DEF one
<1> DEFINE rec == [one[c][e] EXCEPT !.wrote = one[c][e].wrote + k]
<1>6. /\ \A j \in Instances : j # c => hist'[j] = one[j]
      /\ hist'[c][Peer(e)] = one[c][Peer(e)] /\ hist'[c][e] = rec
  <2> HIDE DEF rec
  <2> DEFINE two == [one[c] EXCEPT ![e] = rec]
  <2>1. two[Peer(e)] = one[c][Peer(e)] /\ two[e] = rec
    BY <1>2, <1>4
  <2>2. hist' = [one EXCEPT ![c] = two]
    BY <1>5 DEF rec
  <2> HIDE DEF two
  <2>3. /\ \A j \in Instances : j # c => hist'[j] = one[j]
        /\ hist'[c] = two
    BY <1>4, <2>2
  <2>4. QED
    BY <2>1, <2>3
<1>7. hist[c][e] \in [read : Nat, wrote : Nat, shut : Reasons]
  BY <1>1
<1> DEFINE in == hist[c][e].read + n
<1>8. /\ one[c][e].read = in /\ one[c][e].wrote = hist[c][e].wrote
      /\ one[c][e].shut = hist[c][e].shut
      /\ DOMAIN one[c][e] = {"read", "wrote", "shut"}
  BY <1>4, <1>7
<1> HIDE DEF in
<1>9. /\ rec.read = in /\ rec.wrote = hist[c][e].wrote + k
      /\ rec.shut = hist[c][e].shut
  BY <1>8
<1>10. QED
  BY <1>4, <1>6, <1>9 DEF in

\* ... or not written, and the socket is shut.
ShutAfter(e, c, n, why) ==
  hist' = [hist EXCEPT ![c][e].read = @ + n, ![c][e].shut = why]
LEMMA NotedError ==
  ASSUME IInv, NEW e \in Ends, NEW c \in Instances, NEW n, NEW why,
         ShutAfter(e, c, n, why)
  PROVE  /\ \A j \in Instances : j # c => hist'[j] = hist[j]
         /\ hist'[c][Peer(e)] = hist[c][Peer(e)]
         /\ hist'[c][e].read = hist[c][e].read + n
         /\ hist'[c][e].wrote = hist[c][e].wrote
         /\ hist'[c][e].shut = why
<1>1. hist \in [Instances \cup {0} -> [Ends -> [read : Nat, wrote : Nat, shut : Reasons]]]
  BY DEF IInv, HistoryOK, Records
<1>2. Peer(e) \in Ends /\ Peer(e) # e
  BY OtherEnd
<1> DEFINE one == [hist EXCEPT ![c][e].read = @ + n]
<1>3. one = [hist EXCEPT ![c] = [hist[c] EXCEPT ![e] = [hist[c][e] EXCEPT
               !.read = hist[c][e].read + n]]]
  BY <1>1
<1>4. /\ \A j \in Instances : j # c => one[j] = hist[j]
      /\ one[c][Peer(e)] = hist[c][Peer(e)] /\ DOMAIN one[c] = Ends
      /\ one[c][e] = [hist[c][e] EXCEPT !.read = hist[c][e].read + n]
      /\ DOMAIN one = Instances \cup {0}
  BY <1>1, <1>2, <1>3
<1>5. hist' = [one EXCEPT ![c] = [one[c] EXCEPT ![e] = [one[c][e] EXCEPT
                 !.shut = why]]]
  BY <1>1 DEF ShutAfter
<1> HIDE DEF one
<1> DEFINE rec == [one[c][e] EXCEPT !.shut = why]
<1>6. /\ \A j \in Instances : j # c => hist'[j] = one[j]
      /\ hist'[c][Peer(e)] = one[c][Peer(e)] /\ hist'[c][e] = rec
  <2> HIDE DEF rec
  <2> DEFINE two == [one[c] EXCEPT ![e] = rec]
  <2>1. two[Peer(e)] = one[c][Peer(e)] /\ two[e] = rec
    BY <1>2, <1>4
  <2>2. hist' = [one EXCEPT ![c] = two]
    BY <1>5 DEF rec
  <2> HIDE DEF two
  <2>3. /\ \A j \in Instances : j # c => hist'[j] = one[j]
        /\ hist'[c] = two
    BY <1>4, <2>2
  <2>4. QED
    BY <2>1, <2>3
<1>7. hist[c][e] \in [read : Nat, wrote : Nat, shut : Reasons]
  BY <1>1
<1> DEFINE in == hist[c][e].read + n
<1>8. /\ one[c][e].read = in /\ one[c][e].wrote = hist[c][e].wrote
      /\ DOMAIN one[c][e] = {"read", "wrote", "shut"}
  BY <1>4, <1>7
<1> HIDE DEF in
<1>9. rec.read = in /\ rec.wrote = hist[c][e].wrote /\ rec.shut = why
  BY <1>8
<1>10. QED
  BY <1>4, <1>6, <1>9 DEF in

\* A descriptor that is read from has not been closed for reading.
LEMMA ReadableInput ==
  ASSUME IInv, SelectSetsCurrent, NEW e \in Ends, NEW i \in DOMAIN tbl[e],
         CanRead(e, i)
  PROVE  "INPUT_CLOSED" \notin tbl[e][i].flags
<1>1. /\ at[e].phase = "after" /\ at[e].slot = i
      /\ tbl[e][i].type = "OPEN" /\ tbl[e][i].sock \in rset[e]
  BY DEF CanRead, AtSlot
<1>2. i \in Nat
  BY Shapes
<1>3. i >= at[e].slot
  BY <1>1, <1>2
<1>4. i \in InUse(tbl[e])
  BY <1>1 DEF InUse
<1>5. QED
  BY <1>1, <1>3, <1>4 DEF SelectSetsCurrent, ListenerTypes

\* The input after a round.
TakenIn(in, read, n) == IF n = 1 THEN Append(in, read + 1) ELSE in

\* channel_after_select, reading and writing.
LEMMA ReadAndWriteServing ==
  ASSUME IInv, Agreement, SelectSetsCurrent, NEW e \in Ends,
         NEW i \in DOMAIN tbl[e], ReadAndWrite(e, i)
  PROVE  Serving(e)
<1> DEFINE c == tbl[e][i]
           A == Entries(tbl[e])
           B == Entries(tbl[Peer(e)])
           h == hist[c.inst][e]
           h2 == hist'[c.inst][e]
<1>1. c.type = "OPEN"
  BY DEF ReadAndWrite
<1>2. /\ i \in DOMAIN A /\ A[i] = c /\ c.type \in LiveTypes /\ c \in Channel
      /\ EntryOK(c)
  BY <1>1, LookedAt
<1>3. PICK x \in Transfers(e, i) :
        /\ tbl' = [tbl EXCEPT
             ![e][i].input  = IF x[1] = 1 THEN Append(@, h.read + 1) ELSE @,
             ![e][i].output = SubSeq(@, x[2] + 1, Len(@))]
        /\ hist' = [hist EXCEPT ![c.inst][e].read  = @ + x[1],
                                ![c.inst][e].wrote = @ + x[2]]
  BY DEF ReadAndWrite
<1>4. x[1] \in {0, 1} /\ x[2] \in 0 .. Len(c.output) /\ (x[1] = 1 => CanRead(e, i))
  BY DEF Transfers
<1> DEFINE in  == TakenIn(c.input, h.read, x[1])
           out == SubSeq(c.output, x[2] + 1, Len(c.output))
           d   == [c EXCEPT !.input = in, !.output = out]
<1>5. in \in Seq(Items)
  <2>1. i \in InUse(tbl[e])
    BY <1>1 DEF InUse
  <2>2. QED
    BY <1>4, <2>1, TransferOK DEF IInv, TakenIn
<1>6. out \in Seq(Items) /\ (c.output = << >> => out = << >>)
  <2>1. c.output \in Seq(Items) /\ Len(c.output) \in Nat
    BY <1>2, LenProperties DEF Channel
  <2>2. x[2] \in Nat
    BY <1>4, <2>1
  <2>3. out \in Seq(Items) /\ (Len(c.output) = 0 => Len(out) = 0)
    <3> HIDE DEF c
    <3>1. QED
      BY <1>4, <2>1, <2>2, SubSeqProperties
  <2>4. QED
    BY <2>1, <2>3, EmptySeq
<1>7. "EOF_SENT" \in c.flags => in = << >>
  <2>1. "EOF_SENT" \in c.flags => c.input = << >> /\ "INPUT_CLOSED" \in c.flags
    BY <1>2 DEF EntryOK, Orderly
  <2>2. x[1] = 1 => "INPUT_CLOSED" \notin c.flags
    BY <1>4, ReadableInput
  <2>3. QED
    BY <1>4, <2>1, <2>2 DEF TakenIn
<1>8. tbl' = [tbl EXCEPT ![e][i] = d]
  BY <1>3, ZenonT(40) DEF TakenIn
<1>9. UNCHANGED <<net, fault, opened>>
  BY DEF ReadAndWrite
<1>10. /\ c.inst \in Instances /\ hist[c.inst][e].wrote \in Nat
       /\ hist[c.inst][e].read \in Nat
  <2>1. c.inst \in Instances
    BY <1>2, OfConnection
  <2>2. QED
    BY <2>1 DEF IInv, HistoryOK, Records
<1>11. /\ \A k \in Instances : k # c.inst => hist'[k] = hist[k]
       /\ hist'[c.inst][Peer(e)] = hist[c.inst][Peer(e)]
       /\ h2.read = h.read + x[1] /\ h2.wrote = h.wrote + x[2] /\ h2.shut = h.shut
  <2> DEFINE k == c.inst
             n == x[1]
             w == x[2]
  <2>1. hist' = [hist EXCEPT ![k][e].read = @ + n, ![k][e].wrote = @ + w]
    BY <1>3
  <2>2. k \in Instances
    BY <1>10
  <2> HIDE DEF k, n, w
  <2>3. /\ \A j \in Instances : j # k => hist'[j] = hist[j]
        /\ hist'[k][Peer(e)] = hist[k][Peer(e)]
        /\ hist'[k][e].read = hist[k][e].read + n
        /\ hist'[k][e].wrote = hist[k][e].wrote + w
        /\ hist'[k][e].shut = hist[k][e].shut
    BY <2>1, <2>2, NotedTransfer
  <2>4. QED
    BY <2>3 DEF k, n, w
<1> HIDE DEF in, out
<1>12. /\ d \in Channel /\ d.type = "OPEN" /\ d.flags = c.flags /\ d.inst = c.inst
       /\ d.rid = c.rid /\ d.input = in /\ d.output = out
  BY <1>1, <1>2, <1>5, <1>6 DEF Channel
<1> HIDE DEF d, c, A, B
<1>13. RunServes(A, B, i, Run(d), "none")
  BY <1>1, <1>2, <1>6, <1>7, <1>12, TwoHalves, BuffersServe DEF A, B
<1> DEFINE none == << >>
<1>14. /\ Served(A, B, i, d, "none", none)
       /\ \A k \in DOMAIN none : none[k].kind # "DATA"
  BY <1>13 DEF RunServes, Run
<1>15. /\ Advance(net[e], net'[e], 0)
       /\ Extend(net[Peer(e)], net'[Peer(e)], none)
  BY <1>9, NothingSent
<1> HIDE DEF none
<1>16. Taken(net[e], net'[e], i, "none", 0)
  BY <1>15 DEF Taken
<1>17. \A y \in Ends : fault'[y] = "none"
  BY <1>9, TwoHalves
<1>18. Service(e, i, d, "none", 0, none)
  BY <1>2, <1>8, <1>9, <1>14, <1>15, <1>16, <1>17 DEF Service, A, B, c
<1>19. Delivers(c, d, h, h2, "none", net[e][1].data)
  <2> HIDE DEF h, h2
  <2>1. CASE "OUTPUT_CLOSED" \in c.flags
    <3>1. c.output = << >>
      BY <1>2, <2>1 DEF EntryOK
    <3>2. x[2] = 0
      BY <1>4, <3>1
    <3>3. h2.wrote = h.wrote
      BY <1>10, <1>11, <3>2 DEF h, h2
    <3>4. QED
      BY <1>11, <2>1, <3>3 DEF Delivers
  <2>2. CASE "OUTPUT_CLOSED" \notin c.flags
    <3>1. \E n \in 0 .. Len(c.output) :
            /\ d.output = SubSeq(c.output, n + 1, Len(c.output))
            /\ h2.wrote = h.wrote + n
      BY <1>4, <1>11, <1>12 DEF out
    <3>2. QED
      BY <1>11, <1>12, <2>2, <3>1 DEF Delivers
  <2>3. QED
    BY <2>1, <2>2
<1>20. Collects(c, d, h, h2, "none", none)
  <2>1. CASE x[1] = 1
    <3>1. "INPUT_CLOSED" \notin c.flags
      BY <1>4, <2>1, ReadableInput DEF c
    <3>2. d.input = Append(c.input, h.read + 1) /\ h2.read = h.read + 1
      BY <1>11, <1>12, <2>1 DEF in, TakenIn
    <3> HIDE DEF h, h2
    <3>3. QED
      BY <1>14, <3>1, <3>2 DEF Collects
  <2>2. CASE x[1] = 0
    <3>1. d.input = c.input /\ h2.read = h.read
      BY <1>10, <1>11, <1>12, <2>2 DEF in, TakenIn
    <3> HIDE DEF h, h2
    <3>2. QED
      BY <1>14, <3>1 DEF Collects
  <2>3. QED
    BY <1>4, <2>1, <2>2
<1>21. Account(e, i, d, "none", none)
  BY <1>11, <1>19, <1>20 DEF Account, c
<1>22. QED
  BY <1>18, <1>21 DEF Serving

\* channel_after_select, a failed write.
LEMMA WriteErrorServing ==
  ASSUME IInv, Agreement, SelectSetsCurrent, NEW e \in Ends,
         NEW i \in DOMAIN tbl[e], WriteError(e, i)
  PROVE  Serving(e)
<1> DEFINE c == tbl[e][i]
           A == Entries(tbl[e])
           B == Entries(tbl[Peer(e)])
           h == hist[c.inst][e]
           h2 == hist'[c.inst][e]
           why == "error"
<1>0. why # "no" /\ why # "drained"
  OBVIOUS
<1>1. c.type = "OPEN" /\ c.output # << >>
  BY DEF WriteError, CanWrite
<1>2. /\ i \in DOMAIN A /\ A[i] = c /\ c.type \in LiveTypes /\ c \in Channel
      /\ EntryOK(c) /\ c.flags # Flags
  BY <1>1, LookedAt DEF EntryOK
<1>3. PICK n \in IF CanRead(e, i) /\ h.read < Writes[e] THEN {0, 1} ELSE {0} :
        LET r == CloseOutput(Run([c EXCEPT
                   !.input = IF n = 1 THEN Append(@, h.read + 1) ELSE @]))
        IN  /\ tbl'   = [tbl EXCEPT ![e][i] = r.c]
            /\ used'  = [used EXCEPT ![e] = @ - r.frees]
            /\ fault' = [fault EXCEPT ![e] = r.fault]
            /\ hist'  = [hist EXCEPT ![c.inst][e].read = @ + n,
                                     ![c.inst][e].shut = "error"]
            /\ Emit(e, r.out)
  BY DEF WriteError
<1> DEFINE in == TakenIn(c.input, h.read, n)
           d  == [c EXCEPT !.input = in]
           r  == CloseOutput(Run(d))
<1>4. n \in {0, 1} /\ (n = 1 => CanRead(e, i))
  <2>1. CASE CanRead(e, i)
    BY <2>1
  <2>2. CASE ~CanRead(e, i)
    BY <2>2
  <2>3. QED
    BY <2>1, <2>2
<1>5. in \in Seq(Items)
  <2>1. i \in InUse(tbl[e])
    BY <1>1 DEF InUse
  <2>2. QED
    BY <1>4, <2>1, TransferOK DEF IInv, TakenIn
<1>6. n = 1 => "INPUT_CLOSED" \notin c.flags
  BY <1>4, ReadableInput
<1>7. "EOF_SENT" \in c.flags => in = << >>
  <2>1. "EOF_SENT" \in c.flags => c.input = << >> /\ "INPUT_CLOSED" \in c.flags
    BY <1>2 DEF EntryOK, Orderly
  <2>2. QED
    BY <1>4, <1>6, <2>1 DEF TakenIn
<1>8. /\ tbl' = [tbl EXCEPT ![e][i] = r.c] /\ fault' = [fault EXCEPT ![e] = r.fault]
      /\ hist' = [hist EXCEPT ![c.inst][e].read = @ + n, ![c.inst][e].shut = why]
      /\ Emit(e, r.out)
  BY <1>3, ZenonT(40) DEF TakenIn
<1>9. opened' = opened
  BY DEF WriteError
<1>10. "OUTPUT_CLOSED" \notin c.flags
  BY <1>1, <1>2 DEF EntryOK
<1>11. c.inst \in Instances /\ hist[c.inst][e].read \in Nat
  <2>1. c.inst \in Instances
    BY <1>2, OfConnection
  <2>2. QED
    BY <2>1 DEF IInv, HistoryOK, Records
<1> HIDE DEF why
<1>12. /\ \A k \in Instances : k # c.inst => hist'[k] = hist[k]
       /\ hist'[c.inst][Peer(e)] = hist[c.inst][Peer(e)]
       /\ h2.read = h.read + n /\ h2.wrote = h.wrote /\ h2.shut = why
  <2> DEFINE k == c.inst
  <2>1. ShutAfter(e, k, n, why)
    BY <1>8 DEF ShutAfter
  <2>2. k \in Instances
    BY <1>11
  <2> HIDE DEF k
  <2>3. /\ \A j \in Instances : j # k => hist'[j] = hist[j]
        /\ hist'[k][Peer(e)] = hist[k][Peer(e)]
        /\ hist'[k][e].read = hist[k][e].read + n
        /\ hist'[k][e].wrote = hist[k][e].wrote
        /\ hist'[k][e].shut = why
    BY <2>1, <2>2, NotedError
  <2>4. QED
    BY <2>3 DEF k
<1> HIDE DEF in
<1>13. /\ d \in Channel /\ d.type = "OPEN" /\ d.flags = c.flags /\ d.inst = c.inst
       /\ d.rid = c.rid /\ d.input = in
  BY <1>1, <1>2, <1>5 DEF Channel
<1>14. Orderly(d)
  BY <1>2, <1>13 DEF Orderly, EntryOK
<1> HIDE DEF d, c, A, B
<1>15. /\ RunServes(A, B, i, r, "none") /\ Handles(d, r, "none", why)
       /\ "OUTPUT_CLOSED" \in r.c.flags
  BY <1>0, <1>1, <1>2, <1>7, <1>10, <1>13, TwoHalves, CloseOutputServes DEF A, B
<1>16. r.out \in Seq(Message)
  <2>1. Run(d) \in Runs /\ Sound(Run(d))
    BY <1>13, <1>14, RunSound
  <2>2. QED
    BY <2>1, CloseOutputSound DEF Step, Sound, Runs
<1> HIDE DEF r
<1>17. /\ Served(A, B, i, r.c, "none", r.out) /\ r.fault = "none"
       /\ r.c.input = in /\ \A k \in DOMAIN r.out : r.out[k].kind # "DATA"
  BY <1>13, <1>15 DEF RunServes, Handles
<1>18. \A y \in Ends : fault'[y] = "none"
  BY <1>8, <1>17, TwoHalves, Shapes
<1>19. /\ Advance(net[e], net'[e], 0)
       /\ Extend(net[Peer(e)], net'[Peer(e)], r.out)
  BY <1>8, <1>16, Emitted
<1>20. Taken(net[e], net'[e], i, "none", 0)
  BY <1>19 DEF Taken
<1> DEFINE new  == r.c
           sent == r.out
<1>21. Service(e, i, new, "none", 0, sent)
  BY <1>2, <1>8, <1>9, <1>17, <1>18, <1>19, <1>20 DEF Service, A, B, c
<1>22. /\ new.input = in /\ "OUTPUT_CLOSED" \in new.flags
       /\ \A k \in DOMAIN sent : sent[k].kind # "DATA"
  BY <1>15, <1>17
<1> HIDE DEF new, sent
<1>23. Delivers(c, new, h, h2, "none", net[e][1].data)
  <2> HIDE DEF h, h2
  <2>1. QED
    BY <1>0, <1>10, <1>12, <1>22 DEF Delivers
<1>24. Collects(c, new, h, h2, "none", sent)
  <2>1. CASE n = 1
    <3>1. new.input = Append(c.input, h.read + 1) /\ h2.read = h.read + 1
      BY <1>12, <1>22, <2>1 DEF in, TakenIn
    <3> HIDE DEF h, h2
    <3>2. QED
      BY <1>6, <1>22, <2>1, <3>1 DEF Collects
  <2>2. CASE n = 0
    <3>1. new.input = c.input /\ h2.read = h.read
      BY <1>11, <1>12, <1>22, <2>2 DEF in, TakenIn
    <3> HIDE DEF h, h2
    <3>2. QED
      BY <1>22, <3>1 DEF Collects
  <2>3. QED
    BY <1>4, <2>1, <2>2
<1>25. Account(e, i, new, "none", sent)
  BY <1>12, <1>23, <1>24 DEF Account, c
<1>26. QED
  BY <1>21, <1>25 DEF Serving

\* channel_stop_listening frees listeners only.
LEMMA StopListeningIdles ==
  ASSUME IInv, Agreement, NEW e \in Ends, StopListening(e)
  PROVE  Idle
<1> DEFINE t    == tbl[e]
           gone == {i \in DOMAIN t : t[i].type \in {"X11_LISTENER", "PORT_LISTENER"}}
           s    == [i \in DOMAIN t |->
                      IF i \in gone THEN ChannelFree(Run(t[i])).c ELSE t[i]]
<1>1. /\ DOMAIN tbl = Ends /\ alloc[e] \in Nat
      /\ t \in [0 .. alloc[e] - 1 -> Channel]
  BY Shapes
<1>2. tbl' = [tbl EXCEPT ![e] = s] /\ UNCHANGED <<net, fault, opened, hist>>
  BY DEF StopListening
<1>3. \A i \in gone : ChannelFree(Run(t[i])).c.type = "FREE"
  <2>1. TAKE i \in gone
  <2>2. i \in DOMAIN t /\ t[i].type # "FREE"
    OBVIOUS
  <2>3. /\ Run(t[i]) \in Runs /\ Run(t[i]).c = t[i] /\ Run(t[i]).frees = 0
    BY <2>2, EntryInUse DEF IInv, Run
  <2>4. QED
    BY <2>2, <2>3, ChannelFreeShape
<1>4. /\ DOMAIN s = DOMAIN t
      /\ \A i \in DOMAIN t : IF i \in gone THEN s[i].type = "FREE" ELSE s[i] = t[i]
  BY <1>3
<1>5. \A i \in gone : t[i].type \notin LiveTypes
  BY DEF LiveTypes
<1>6. "FREE" \notin LiveTypes
  BY DEF LiveTypes
<1> HIDE DEF s, gone, t
<1>7. Entries(s) = Entries(t)
  BY <1>4, <1>5, <1>6, SameEntries
<1>8. \A x \in Ends : Entries(tbl'[x]) = Entries(tbl[x])
  BY <1>1, <1>2, <1>7 DEF t
<1>9. QED
  BY <1>2, <1>8 DEF Idle

\* The steps that only move the loop on.
LEMMA StandStillIdles ==
  ASSUME IInv, Agreement, NEW e \in Ends,
         \/ PacketsDone(e) \/ PollBreak(e)
         \/ \E i \in DOMAIN tbl[e] :
              \/ PrepareListener(e, i) \/ PrepareX11Incomplete(e, i)
              \/ NoConnection(e, i)
  PROVE  Idle
<1>1. UNCHANGED <<tbl, net, fault, opened, hist>>
  BY DEF PacketsDone, PollBreak, PrepareListener, PrepareX11Incomplete, NoConnection
<1>2. QED
  BY <1>1 DEF Idle

\* The tables start with the listeners only.
LEMMA InitialEntries ==
  ASSUME Init, NEW e \in Ends
  PROVE  DOMAIN Entries(tbl[e]) = {}
<1>1. ASSUME NEW i \in DOMAIN InitialTable(e)
      PROVE  InitialTable(e)[i].type \notin LiveTypes
  <2>1. i \in Nat /\ InitialAlloc(e) \in Nat
    BY BoundsAssumption DEF InitialTable, InitialAlloc
  <2>2. CASE i < Len(Listeners[e])
    <3>1. Listeners[e] \in Seq([type : ListenerTypes, target : Targets \cup {NoTarget}])
      BY ListenersAssumption
    <3>2. Len(Listeners[e]) \in Nat /\ i + 1 \in 1 .. Len(Listeners[e])
      BY <2>1, <2>2, <3>1, LenProperties
    <3>3. Listeners[e][i + 1] \in [type : ListenerTypes, target : Targets \cup {NoTarget}]
      BY <3>1, <3>2, ElementOfSeq
    <3>4. Listeners[e][i + 1].type \in ListenerTypes
      BY <3>3
    <3>5. InitialTable(e)[i].type = Listeners[e][i + 1].type
      BY <2>2 DEF InitialTable, BlankChannel
    <3>6. QED
      BY <3>4, <3>5 DEF ListenerTypes, LiveTypes
  <2>3. CASE ~(i < Len(Listeners[e]))
    BY <2>3 DEF InitialTable, BlankChannel, LiveTypes
  <2>4. QED
    BY <2>2, <2>3
<1>2. QED
  BY <1>1, EntriesOf DEF Init

\* Before the loops run there is no connection and no packet.
LEMMA InitAgrees == Init => Agreement /\ Streams
<1> SUFFICES ASSUME Init PROVE Agreement /\ Streams
  OBVIOUS
<1>1. \A e \in Ends : /\ tbl[e] = InitialTable(e) /\ net[e] = << >>
                      /\ fault[e] = "none" /\ Peer(e) \in Ends
  BY OtherEnd DEF Init
<1>2. \A e \in Ends : DOMAIN Entries(tbl[e]) = {}
  BY InitialEntries
<1>3. ASSUME NEW A, NEW B, DOMAIN A = {}, DOMAIN B = {}
      PROVE  Half(A, B, << >>, << >>, opened)
  <2>1. DOMAIN << >> = {}
    OBVIOUS
  <2> DEFINE q == << >>
  <2>2. DOMAIN q = {}
    BY <2>1
  <2> HIDE DEF q
  <2>3. /\ RequestsOK(A, B, q, q, opened) /\ RoutesOK(A, q) /\ RepliesOK(A, q)
        /\ ConfirmationsOK(B, q) /\ FailuresOK(B, q) /\ LaterOK(A, q)
        /\ ClosingOK(A, B, q, "INPUT_EOF", "EOF_SENT", "EOF_RECEIVED")
        /\ ClosingOK(A, B, q, "OUTPUT_CLOSED", "CLOSE_SENT", "CLOSE_RECEIVED")
        /\ DataOK(A, q)
    BY <2>2 DEF RequestsOK, RoutesOK, RepliesOK, ConfirmationsOK, FailuresOK,
                LaterOK, ClosingOK, DataOK
  <2>4. /\ EntriesOK(A, opened)
        /\ AgreeOK(A, B, q, "INPUT_EOF", "EOF_SENT", "EOF_RECEIVED")
        /\ AgreeOK(A, B, q, "OUTPUT_CLOSED", "CLOSE_SENT", "CLOSE_RECEIVED")
        /\ LinksOK(A, B, q) /\ GoneOK(A, B, q) /\ X11OK(A, B, q)
    BY <1>3 DEF EntriesOK, AgreeOK, LinksOK, GoneOK, X11OK
  <2>5. QED
    BY <2>3, <2>4 DEF Half, q
<1>4. \A e \in Ends : HalfOf(e)
  BY <1>1, <1>2, <1>3 DEF HalfOf
<1>5. ASSUME NEW A, NEW B, NEW c, NEW h, DOMAIN A = {}, DOMAIN B = {},
             h = [read |-> 0, wrote |-> 0, shut |-> "no"]
      PROVE  Flow(A, B, << >>, c, h, h)
  <2> DEFINE q == << >>
  <2>1. DOMAIN q = {}
    OBVIOUS
  <2> HIDE DEF q
  <2>2. h.wrote = 0 /\ h.read = 0 /\ h.shut = "no"
    BY <1>5
  <2>3. Carried(q, c, 0, 0)
    BY <2>1, CarriedNothing
  <2>4. Outputs(A, c, 0, 0) /\ Inputs(B, c, 0, 0)
    BY <1>5 DEF Outputs, Inputs
  <2>5. Stream(A, B, q, c, 0, 0)
    BY <2>3, <2>4 DEF Stream
  <2>6. ShutAs(A, c, h) /\ LeftAs(A, B, c, h)
    BY <1>5 DEF ShutAs, LeftAs
  <2>7. QED
    BY <2>2, <2>5, <2>6 DEF Flow, q
<1>6. \A e \in Ends, c \in Instances :
         hist[c][e] = [read |-> 0, wrote |-> 0, shut |-> "no"]
  BY DEF Init
<1>7. Streams
  <2> SUFFICES ASSUME NEW e \in Ends, NEW c \in Instances
               PROVE  Flows(e, c) /\ Unopened(e, c)
    BY DEF Streams
  <2>1. hist[c][e] = hist[c][Peer(e)] /\ hist[c][e].shut = "no"
    BY <1>1, <1>6
  <2>2. Flow(Entries(tbl[e]), Entries(tbl[Peer(e)]), << >>, c, hist[c][e], hist[c][e])
    BY <1>1, <1>2, <1>5, <1>6
  <2>3. QED
    BY <1>1, <2>1, <2>2 DEF Flows, Unopened
<1>8. QED
  BY <1>1, <1>4, <1>7 DEF Agreement

\* A step that serves an entry keeps both.
LEMMA ServingKeeps ==
  ASSUME IInv, Agreement, Streams, NEW e \in Ends, Serving(e)
  PROVE  Agreement' /\ Streams'
<1>1. PICK i, new, x, d, out : Service(e, i, new, x, d, out) /\ Account(e, i, new, x, out)
  BY DEF Serving
<1>2. QED
  BY <1>1, ServiceKeeps, ServiceFlows

\* A step of the two processes is of one of these kinds.
Stepping(e) ==
  \/ Serving(e) \/ Accepting(e) \/ Granting(e) \/ Refusing(e)
  \/ Confirming(e) \/ Failing(e)

\* Every action is a step of one of these kinds.
LEMMA KindsOfSteps ==
  ASSUME IInv, Agreement, SelectSetsCurrent, [Next]_vars
  PROVE  Idle \/ \E e \in Ends : Stepping(e)
<1>1. CASE UNCHANGED vars
  BY <1>1 DEF vars, Idle
<1>2. CASE Next
  <2>1. PICK e \in Ends :
          \/ InputPacket(e) \/ PacketsDone(e)
          \/ OutputPoll(e) \/ PrepareSelect(e) \/ AfterSelect(e)
          \/ StopListening(e)
    BY <1>2 DEF Next
  <2>2. CASE InputPacket(e)
    <3>1. CASE InputData(e) \/ InputEof(e) \/ OutputClosed(e)
      BY <3>1, InputDataServes, InputEofServes, OutputClosedServes DEF Stepping
    <3>2. CASE InputOpenConfirmation(e) \/ InputOpenFailure(e)
      BY <3>2, InputOpenConfirmationConfirms, InputOpenFailureFails DEF Stepping
    <3>3. CASE \E kind \in OpenKinds : AcceptOpen(e, kind) \/ RefuseOpen(e, kind)
      BY <3>3, AcceptOpenGrants, RefuseOpenRefuses DEF Stepping
    <3>4. QED
      BY <2>2, <3>1, <3>2, <3>3 DEF InputPacket
  <2>3. CASE OutputPoll(e)
    <3>1. CASE \E i \in DOMAIN tbl[e] : PollData(e, i) \/ PollEof(e, i)
      BY <3>1, PollDataServing, PollEofServing DEF Stepping
    <3>2. QED
      BY <2>3, <3>1, StandStillIdles DEF OutputPoll
  <2>4. CASE PrepareSelect(e)
    <3>1. CASE \E i \in DOMAIN tbl[e] : \/ PrepareOpen(e, i) \/ PrepareX11Good(e, i)
                                        \/ PrepareX11Bad(e, i)
      BY <3>1, PrepareOpenServing, PrepareX11GoodServing, PrepareX11BadServing
         DEF Stepping
    <3>2. QED
      BY <2>4, <3>1, StandStillIdles DEF PrepareSelect
  <2>5. CASE AfterSelect(e)
    <3>1. CASE \E i \in DOMAIN tbl[e] : \/ ReadEof(e, i) \/ ReadAndWrite(e, i)
                                        \/ WriteError(e, i)
      BY <3>1, ReadEofServing, ReadAndWriteServing, WriteErrorServing DEF Stepping
    <3>2. CASE \E i \in DOMAIN tbl[e] : AcceptConnection(e, i)
      BY <3>2, AcceptConnectionAccepts DEF Stepping
    <3>3. QED
      BY <2>5, <3>1, <3>2, StandStillIdles DEF AfterSelect
  <2>6. QED
    BY <2>1, <2>2, <2>3, <2>4, <2>5, StandStillIdles, StopListeningIdles
<1>3. QED
  BY <1>1, <1>2

\* The invariant is inductive, given the bookkeeping and the select sets.
LEMMA NextAgrees ==
  ASSUME IInv, Agreement, Streams, SelectSetsCurrent, [Next]_vars
  PROVE  Agreement' /\ Streams'
BY KindsOfSteps, IdleKeeps, ServingKeeps, AcceptKeeps, GrantKeeps, RefusalKeeps,
   ConfirmKeeps, FailureKeeps DEF Stepping

-----------------------------------------------------------------------------
(* An end never writes more than its peer has read.                        *)

Ahead ==
  \A e \in Ends, c \in Instances : hist[c][e].wrote =< hist[c][Peer(e)].read

\* What the record of a connection is made of.
LEMMA RecordShape ==
  ASSUME NEW r \in Records, NEW c \in Instances, NEW e \in Ends
  PROVE  r[c][e].read \in Nat /\ r[c][e].wrote \in Nat /\ r[c][e].shut \in Reasons
BY DEF Records

\* The items not written off are still to come.
LEMMA StreamForward ==
  ASSUME NEW A, NEW B, NEW P, NEW c, NEW w \in Nat, NEW r \in Nat,
         Stream(A, B, P, c, w, r)
  PROVE  w =< r
<1>1. PICK x \in Nat, y \in Nat : w =< x /\ y =< r /\ Carried(P, c, x, y)
  BY DEF Stream
<1>2. x =< y
  BY <1>1, CarriedRange
<1>3. QED
  BY <1>1, <1>2

\* What an end writes is written to a socket that is open, and was read.
LEMMA WritesOfTheRead ==
  ASSUME NEW A, NEW B, NEW P, NEW A2, NEW B2, NEW P2, NEW i \in DOMAIN A, NEW new,
         NEW h, NEW h2, NEW g, NEW x, NEW data,
         Flow(A, B, P, A[i].inst, h, g), Flow(A2, B2, P2, A[i].inst, h2, g),
         Delivers(A[i], new, h, h2, x, data), A[i].flags \subseteq new.flags
  PROVE  \/ h2.wrote = h.wrote
         \/ /\ h.shut = "no" /\ h.wrote < h2.wrote /\ h2.wrote =< g.read
<1>1. h.wrote \in Nat /\ h2.wrote \in Nat /\ g.read \in Nat
  BY DEF Flow
<1>2. \/ h2.wrote = h.wrote
      \/ /\ "OUTPUT_CLOSED" \notin new.flags /\ h2.shut = h.shut
         /\ \E n \in Nat : h2.wrote = h.wrote + n
  <2>1. \A n \in 0 .. Len(A[i].output) : n \in Nat
    OBVIOUS
  <2>2. QED
    BY <2>1 DEF Delivers
<1>3. ASSUME h2.wrote # h.wrote
      PROVE  h.shut = "no" /\ h.wrote < h2.wrote /\ h2.wrote =< g.read
  <2>1. "OUTPUT_CLOSED" \notin A[i].flags /\ h2.shut = h.shut
    BY <1>2, <1>3
  <2>2. h.shut = "no" /\ h2.shut = "no"
    BY <2>1 DEF Flow, ShutAs
  <2>3. h.wrote < h2.wrote
    BY <1>1, <1>2, <1>3
  <2>4. Stream(A2, B2, P2, A[i].inst, h2.wrote, g.read)
    BY <2>2 DEF Flow
  <2>5. h2.wrote =< g.read
    BY <1>1, <2>4, StreamForward
  <2>6. QED
    BY <2>2, <2>3, <2>5
<1>4. QED
  BY <1>3

\* An end reads no item or one.
LEMMA ReadsOne ==
  ASSUME NEW old, NEW new, NEW h, NEW h2, NEW x, NEW out,
         Collects(old, new, h, h2, x, out), h.read \in Nat
  PROVE  \/ h2.read = h.read
         \/ h2.read = h.read + 1 /\ "INPUT_CLOSED" \notin old.flags
BY DEF Collects

\* Serving an entry keeps it so, and so does every other step.
LEMMA ServingAhead ==
  ASSUME IInv, IInv', Agreement, Streams, Streams', Ahead, NEW e \in Ends, Serving(e)
  PROVE  Ahead'
<1>1. PICK i, new, x, d, out : Service(e, i, new, x, d, out) /\ Account(e, i, new, x, out)
  BY DEF Serving
<1> DEFINE A == Entries(tbl[e])
           c == A[i].inst
           f == Peer(e)
<1>2. f \in Ends /\ f # e /\ Peer(f) = e /\ \A y \in Ends : y = e \/ y = f
  BY OtherEnd
<1>3. i \in DOMAIN A /\ A[i] = tbl[e][i] /\ Served(A, Entries(tbl[f]), i, new, x, out)
  BY <1>1, ServedEntries DEF Service
<1>4. /\ \A k \in Instances : k # c => hist'[k] = hist[k]
      /\ hist'[c][f] = hist[c][f]
      /\ Delivers(A[i], new, hist[c][e], hist'[c][e], x, net[e][1].data)
      /\ Collects(A[i], new, hist[c][e], hist'[c][e], x, out)
  BY <1>1, <1>3 DEF Account
<1>5. c \in Instances
  <2>1. c \in 1 .. opened
    BY <1>3, TwoHalves DEF Half, EntriesOK
  <2>2. QED
    BY <2>1, BoundsAssumption DEF IInv, HistoryOK, Instances
<1>6. /\ Flow(A, Entries(tbl[f]), net[e], c, hist[c][e], hist[c][f])
      /\ Flow(Entries(tbl'[e]), Entries(tbl'[f]), net'[e], c, hist'[c][e], hist'[c][f])
  BY <1>5 DEF Streams, Flows
<1>7. /\ hist[c][e].read \in Nat /\ hist[c][e].wrote \in Nat
      /\ hist[c][f].read \in Nat /\ hist[c][f].wrote \in Nat
      /\ hist'[c][e].read \in Nat /\ hist'[c][e].wrote \in Nat
  BY <1>2, <1>5, RecordShape DEF IInv, HistoryOK
<1>8. A[i].flags \subseteq new.flags
  BY <1>3 DEF Served
<1>9. hist[c][e].wrote =< hist[c][f].read /\ hist[c][f].wrote =< hist[c][e].read
  BY <1>2, <1>5 DEF Ahead
<1> HIDE DEF A, f
<1>10. hist'[c][e].wrote =< hist'[c][f].read
  <2>1. \/ hist'[c][e].wrote = hist[c][e].wrote
        \/ hist'[c][e].wrote =< hist[c][f].read
    <3> DEFINE h == hist[c][e]
               h2 == hist'[c][e]
               g == hist[c][f]
               B == Entries(tbl[f])
               P == net[e]
               data == P[1].data
               A2 == Entries(tbl'[e])
               B2 == Entries(tbl'[f])
               P2 == net'[e]
    <3>1. /\ Flow(A, B, P, A[i].inst, h, g) /\ Flow(A2, B2, P2, A[i].inst, h2, g)
          /\ Delivers(A[i], new, h, h2, x, data)
      BY <1>4, <1>6
    <3> HIDE DEF h, h2, g, B, P, A2, B2, P2, data
    <3>2. \/ h2.wrote = h.wrote
          \/ h.shut = "no" /\ h.wrote < h2.wrote /\ h2.wrote =< g.read
      BY <1>3, <1>8, <3>1, WritesOfTheRead
    <3>3. QED
      BY <3>2 DEF h, h2, g
  <2>2. QED
    BY <1>4, <1>9, <2>1
<1>11. hist'[c][f].wrote =< hist'[c][e].read
  <2>1. hist'[c][e].read = hist[c][e].read \/ hist'[c][e].read = hist[c][e].read + 1
    BY <1>4, <1>7, ReadsOne
  <2>2. QED
    BY <1>4, <1>7, <1>9, <2>1
<1>12. ASSUME NEW y \in Ends, NEW k \in Instances
       PROVE  hist'[k][y].wrote =< hist'[k][Peer(y)].read
  <2>1. CASE k = c
    BY <1>2, <1>10, <1>11, <2>1 DEF f
  <2>2. CASE k # c
    BY <1>4, <2>2 DEF Ahead
  <2>3. QED
    BY <2>1, <2>2
<1>13. QED
  BY <1>12 DEF Ahead

\* Every step keeps Ahead.
LEMMA NextAhead ==
  ASSUME IInv, IInv', Agreement, Streams, Streams', SelectSetsCurrent, Ahead,
         [Next]_vars
  PROVE  Ahead'
<1>1. CASE \E e \in Ends : Serving(e)
  BY <1>1, ServingAhead
<1>2. CASE hist' = hist
  BY <1>2 DEF Ahead
<1>3. QED
  BY <1>1, <1>2, KindsOfSteps
     DEF Stepping, Idle, Accepting, Granting, Refusing, Confirming, Failing

-----------------------------------------------------------------------------
(* The select sets.                                                        *)

\* A descriptor in the sets belongs to an entry that asked for it.
Asked(ch, rs, ws) ==
  /\ ch.sock \in rs => "INPUT_CLOSED" \notin ch.flags
  /\ ch.sock \in ws => ch.output # << >>

\* What the sets hold at a position of the loops: nothing outside the two
\* passes, nothing yet of the entries the first pass has still to look at, and
\* what was asked for of the entries the second pass has still to look at.
Sets(pos, t, rs, ws) ==
  /\ pos.phase \in {"packets", "poll"} => rs = {} /\ ws = {}
  /\ pos.phase = "prepare" =>
       \A j \in DOMAIN t :
         /\ j < pos.slot /\ t[j].type = "OPEN" => Asked(t[j], rs, ws)
         /\ j >= pos.slot /\ t[j].type \in {"OPEN", "X11_OPEN"} =>
              t[j].sock \notin rs \cup ws
  /\ pos.phase = "after" =>
       \A j \in DOMAIN t :
         j >= pos.slot /\ t[j].type = "OPEN" => Asked(t[j], rs, ws)

SetsOK == \A e \in Ends : Sets(at[e], tbl[e], rset[e], wset[e])

\* Empty sets are right anywhere.
LEMMA EmptySets ==
  ASSUME NEW pos, NEW t
  PROVE  Sets(pos, t, {}, {})
BY DEF Sets, Asked

\* The next iteration, and what is passed over on the way to it.
LEMMA NextLook ==
  ASSUME NEW n \in Nat, NEW t, DOMAIN t = 0 .. n - 1, NEW k \in Nat, NEW phase, NEW next
  PROVE  LET pos == From(phase, k, t, next)
         IN  \/ /\ pos.phase = phase /\ pos.slot \in DOMAIN t /\ pos.slot >= k
                /\ \A j \in DOMAIN t : j >= k /\ j < pos.slot => ~Looks(phase, t[j])
             \/ pos = next /\ \A j \in DOMAIN t : j >= k => ~Looks(phase, t[j])
<1> DEFINE todo == {j \in DOMAIN t : j >= k /\ Looks(phase, t[j])}
<1>1. From(phase, k, t, next) =
        IF todo = {} THEN next ELSE [phase |-> phase, slot |-> Min(todo)]
  BY DEF From
<1>2. CASE todo = {}
  BY <1>1, <1>2
<1>3. CASE todo # {}
  <2>1. todo \in SUBSET Nat
    OBVIOUS
  <2>2. Min(todo) \in todo /\ \A j \in todo : Min(todo) =< j
    BY <1>3, <2>1, MinOfNaturals
  <2>3. \A j \in DOMAIN t : j >= k /\ Looks(phase, t[j]) <=> j \in todo
    OBVIOUS
  <2>4. /\ Min(todo) \in DOMAIN t /\ Min(todo) >= k
    BY <2>2
  <2> HIDE DEF todo
  <2>5. ASSUME NEW j \in DOMAIN t, j >= k, j < Min(todo), Looks(phase, t[j])
        PROVE  FALSE
    <3>1. j \in todo
      BY <2>3, <2>5
    <3>2. Min(todo) =< j /\ Min(todo) \in Nat /\ j \in Nat
      BY <2>1, <2>2, <3>1
    <3>3. QED
      BY <2>5, <3>2
  <2>6. QED
    BY <1>1, <1>3, <2>4, <2>5
<1>4. QED
  BY <1>2, <1>3

\* Moving on in the second pass.
LEMMA AfterMovesOn ==
  ASSUME NEW n \in Nat, NEW u, DOMAIN u = 0 .. n - 1, NEW k \in Nat,
         NEW rs, NEW ws,
         \A j \in DOMAIN u : j >= k /\ u[j].type = "OPEN" => Asked(u[j], rs, ws)
  PROVE  AfterFrom(k, u) # Packets => Sets(AfterFrom(k, u), u, rs, ws)
<1>1. ASSUME AfterFrom(k, u) # Packets
      PROVE  AfterFrom(k, u).phase = "after" /\ AfterFrom(k, u).slot >= k
             /\ AfterFrom(k, u).slot \in DOMAIN u
  BY <1>1, NextLook DEF AfterFrom
<1> DEFINE pos == AfterFrom(k, u)
<1>2. ASSUME pos # Packets
      PROVE  \A j \in DOMAIN u : j >= pos.slot => j >= k
  BY <1>1, <1>2
<1>3. QED
  BY <1>1, <1>2 DEF Sets

\* Moving on in the first pass, or from it to the second.
LEMMA PrepareMovesOn ==
  ASSUME NEW n \in Nat, NEW u, DOMAIN u = 0 .. n - 1, NEW k \in Nat,
         NEW rs, NEW ws,
         \A j \in DOMAIN u : /\ j < k /\ u[j].type = "OPEN" => Asked(u[j], rs, ws)
                             /\ j >= k /\ u[j].type \in {"OPEN", "X11_OPEN"} =>
                                  u[j].sock \notin rs \cup ws
  PROVE  PrepareFrom(k, u) # Packets => Sets(PrepareFrom(k, u), u, rs, ws)
<1> DEFINE pos == PrepareFrom(k, u)
<1>1. \/ /\ pos.phase = "prepare" /\ pos.slot \in DOMAIN u /\ pos.slot >= k
         /\ \A j \in DOMAIN u : j >= k /\ j < pos.slot => ~Looks("prepare", u[j])
      \/ pos = AfterFrom(0, u) /\ \A j \in DOMAIN u : j >= k => ~Looks("prepare", u[j])
  BY NextLook DEF PrepareFrom
<1>2. \A j \in DOMAIN u : u[j].type \in {"OPEN", "X11_OPEN"} => Looks("prepare", u[j])
  BY DEF Looks
<1> HIDE DEF pos
<1>3. CASE /\ pos.phase = "prepare" /\ pos.slot \in DOMAIN u /\ pos.slot >= k
           /\ \A j \in DOMAIN u : j >= k /\ j < pos.slot => ~Looks("prepare", u[j])
  <2>1. ASSUME NEW j \in DOMAIN u, j < pos.slot, u[j].type = "OPEN"
        PROVE  Asked(u[j], rs, ws)
    <3>1. Looks("prepare", u[j])
      BY <1>2, <2>1
    <3>2. ~(j >= k)
      BY <1>3, <2>1, <3>1
    <3>3. QED
      BY <2>1, <3>2
  <2>2. ASSUME NEW j \in DOMAIN u, j >= pos.slot, u[j].type \in {"OPEN", "X11_OPEN"}
        PROVE  u[j].sock \notin rs \cup ws
    BY <1>3, <2>2
  <2>3. QED
    BY <1>3, <2>1, <2>2 DEF Sets, pos
<1>4. CASE /\ pos = AfterFrom(0, u)
           /\ \A j \in DOMAIN u : j >= k => ~Looks("prepare", u[j])
  <2>1. \A j \in DOMAIN u : j >= 0 /\ u[j].type = "OPEN" => Asked(u[j], rs, ws)
    BY <1>2, <1>4 DEF Asked
  <2>2. QED
    BY <1>4, <2>1, AfterMovesOn DEF pos
<1>5. QED
  BY <1>1, <1>3, <1>4 DEF pos

\* Only the sets of the end that takes the step are at stake.
LEMMA OneEndsSets ==
  ASSUME SetsOK, NEW e \in Ends, Sets(at'[e], tbl'[e], rset'[e], wset'[e]),
         \A x \in Ends \ {e} : /\ at'[x] = at[x] /\ tbl'[x] = tbl[x]
                               /\ rset'[x] = rset[x] /\ wset'[x] = wset[x]
  PROVE  SetsOK'
<1>1. ASSUME NEW x \in Ends
      PROVE  Sets(at'[x], tbl'[x], rset'[x], wset'[x])
  <2>1. CASE x = e
    BY <2>1
  <2>2. CASE x # e
    BY <2>2 DEF SetsOK
  <2>3. QED
    BY <2>1, <2>2
<1>2. QED
  BY <1>1 DEF SetsOK

\* While packets are handled and output is polled the sets are empty.
LEMMA SetsStayEmpty ==
  ASSUME IInv, SetsOK, NEW e \in Ends, at[e].phase \in {"packets", "poll"},
         UNCHANGED <<rset, wset>>,
         \A x \in Ends \ {e} : at'[x] = at[x] /\ tbl'[x] = tbl[x]
  PROVE  SetsOK'
<1>1. rset[e] = {} /\ wset[e] = {}
  BY DEF SetsOK, Sets
<1>2. Sets(at'[e], tbl'[e], rset'[e], wset'[e])
  BY <1>1, EmptySets
<1>3. QED
  BY <1>2, OneEndsSets

\* The variables of the loop as Move leaves them.
LEMMA Moved ==
  ASSUME IInv, NEW e \in Ends, NEW pos, NEW rs, NEW ws, Move(e, pos, rs, ws)
  PROVE  /\ at'[e] = pos
         /\ rset'[e] = IF pos = Packets THEN {} ELSE rs
         /\ wset'[e] = IF pos = Packets THEN {} ELSE ws
         /\ \A x \in Ends \ {e} : at'[x] = at[x] /\ rset'[x] = rset[x]
                                  /\ wset'[x] = wset[x]
BY DEF Move, IInv, LoopOK

\* An iteration of the first pass: the entry is put into the sets, or not.
LEMMA FirstPassKeeps ==
  ASSUME IInv, SetsOK, NEW e \in Ends, NEW i \in InUse(tbl[e]),
         at[e].phase = "prepare", at[e].slot = i,
         NEW new, tbl' = [tbl EXCEPT ![e][i] = new],
         NEW rs \in {rset[e], rset[e] \cup {tbl[e][i].sock}},
         NEW ws \in {wset[e], wset[e] \cup {tbl[e][i].sock}},
         new.type = "OPEN" => Asked(new, rs, ws),
         Move(e, PrepareFrom(i + 1, tbl'[e]), rs, ws)
  PROVE  SetsOK'
<1> DEFINE t == tbl[e]
           u == tbl'[e]
           pos == PrepareFrom(i + 1, u)
<1>1. /\ alloc[e] \in Nat /\ t \in [0 .. alloc[e] - 1 -> Channel]
      /\ DOMAIN tbl = Ends
  BY Shapes
<1>2. i \in DOMAIN t /\ i \in Nat /\ t[i].type # "FREE"
  BY <1>1 DEF InUse
<1>3. /\ DOMAIN u = 0 .. alloc[e] - 1 /\ u[i] = new
      /\ \A j \in DOMAIN u : j \in Nat /\ (j # i => u[j] = t[j])
      /\ \A x \in Ends \ {e} : tbl'[x] = tbl[x]
  BY <1>1, <1>2
<1>4. \A j \in InUse(t) : t[j].sock = t[i].sock => j = i
  BY <1>2 DEF IInv, TablesOK, TableInv
<1>5. Sets(at[e], t, rset[e], wset[e])
  BY DEF SetsOK
<1>6. \A j \in DOMAIN t :
        /\ j < i /\ t[j].type = "OPEN" => Asked(t[j], rset[e], wset[e])
        /\ j >= i /\ t[j].type \in {"OPEN", "X11_OPEN"} =>
             t[j].sock \notin rset[e] \cup wset[e]
  BY <1>5 DEF Sets
<1> DEFINE R == rset[e]
           W == wset[e]
           s == t[i].sock
<1>7. /\ \A x : x # s => (x \in rs <=> x \in R) /\ (x \in ws <=> x \in W)
  OBVIOUS
<1> HIDE DEF t, u, R, W, s
<1>8. ASSUME NEW j \in DOMAIN u, j < i + 1, u[j].type = "OPEN"
      PROVE  Asked(u[j], rs, ws)
  <2>1. CASE j = i
    BY <1>3, <1>8, <2>1
  <2>2. CASE j # i
    <3>1. j < i /\ u[j] = t[j] /\ j \in DOMAIN t
      BY <1>1, <1>2, <1>3, <1>8, <2>2 DEF t
    <3>2. Asked(t[j], R, W) /\ j \in InUse(t)
      BY <1>6, <1>8, <3>1 DEF R, W, InUse
    <3>3. t[j].sock # s
      BY <1>4, <2>2, <3>2 DEF s
    <3>4. QED
      BY <1>7, <3>1, <3>2, <3>3 DEF Asked
  <2>3. QED
    BY <2>1, <2>2
<1>9. ASSUME NEW j \in DOMAIN u, j >= i + 1, u[j].type \in {"OPEN", "X11_OPEN"}
      PROVE  u[j].sock \notin rs \cup ws
  <2>1. j # i /\ j >= i /\ u[j] = t[j] /\ j \in DOMAIN t
    BY <1>1, <1>2, <1>3, <1>9 DEF t
  <2>2. t[j].sock \notin R \cup W /\ j \in InUse(t)
    BY <1>6, <1>9, <2>1 DEF R, W, InUse
  <2>3. t[j].sock # s
    BY <1>4, <2>1, <2>2 DEF s
  <2>4. QED
    BY <1>7, <2>1, <2>2, <2>3
<1>10. i + 1 \in Nat
  BY <1>2
<1>11. pos # Packets => Sets(pos, u, rs, ws)
  BY <1>1, <1>3, <1>8, <1>9, <1>10, PrepareMovesOn
<1> HIDE DEF pos
<1>12. /\ at'[e] = pos
       /\ rset'[e] = IF pos = Packets THEN {} ELSE rs
       /\ wset'[e] = IF pos = Packets THEN {} ELSE ws
       /\ \A x \in Ends \ {e} : at'[x] = at[x] /\ rset'[x] = rset[x]
                                /\ wset'[x] = wset[x]
  BY Moved DEF pos, u
<1>13. Sets(at'[e], u, rset'[e], wset'[e])
  BY <1>11, <1>12, EmptySets
<1>14. QED
  BY <1>3, <1>12, <1>13, OneEndsSets DEF u

\* An iteration of the second pass: the open entries it has still to look at
\* are those it had.
LEMMA SecondPassKeeps ==
  ASSUME IInv, IInv', SetsOK, NEW e \in Ends, NEW i \in DOMAIN tbl[e],
         at[e].phase = "after", at[e].slot = i,
         \A j \in DOMAIN tbl'[e] : j # i /\ tbl'[e][j].type = "OPEN" =>
           j \in DOMAIN tbl[e] /\ tbl'[e][j] = tbl[e][j],
         \A x \in Ends \ {e} : tbl'[x] = tbl[x],
         Move(e, AfterFrom(i + 1, tbl'[e]), rset[e], wset[e])
  PROVE  SetsOK'
<1> DEFINE t == tbl[e]
           u == tbl'[e]
           pos == AfterFrom(i + 1, u)
<1>1. /\ alloc[e] \in Nat /\ t \in [0 .. alloc[e] - 1 -> Channel]
      /\ i \in Nat /\ i + 1 \in Nat
  BY Shapes
<1>2. alloc'[e] \in Nat /\ DOMAIN u = 0 .. alloc'[e] - 1
  BY DEF IInv, TablesOK, TableInv
<1>3. Sets(at[e], t, rset[e], wset[e])
  BY DEF SetsOK
<1>4. \A j \in DOMAIN t :
        j >= i /\ t[j].type = "OPEN" => Asked(t[j], rset[e], wset[e])
  BY <1>3 DEF Sets
<1>5. ASSUME NEW j \in DOMAIN u, j >= i + 1, u[j].type = "OPEN"
      PROVE  Asked(u[j], rset[e], wset[e])
  <2>1. j >= i /\ j # i
    BY <1>1, <1>2, <1>5
  <2>2. QED
    BY <1>4, <1>5, <2>1
<1> HIDE DEF t, u
<1>6. pos # Packets => Sets(pos, u, rset[e], wset[e])
  BY <1>1, <1>2, <1>5, AfterMovesOn
<1> HIDE DEF pos
<1>7. /\ at'[e] = pos
      /\ rset'[e] = IF pos = Packets THEN {} ELSE rset[e]
      /\ wset'[e] = IF pos = Packets THEN {} ELSE wset[e]
      /\ \A x \in Ends \ {e} : at'[x] = at[x] /\ rset'[x] = rset[x]
                               /\ wset'[x] = wset[x]
  BY Moved DEF pos, u
<1>8. Sets(at'[e], u, rset'[e], wset'[e])
  BY <1>6, <1>7, EmptySets
<1>9. QED
  BY <1>7, <1>8, OneEndsSets DEF u

\* The packet handlers, channel_stop_listening and channel_output_poll: the
\* loop is outside the two passes, and leaves the sets alone.
LEMMA OutsidePasses ==
  ASSUME IInv, NEW e \in Ends,
         InputPacket(e) \/ PacketsDone(e) \/ OutputPoll(e) \/ StopListening(e)
  PROVE  /\ at[e].phase \in {"packets", "poll"} /\ UNCHANGED <<rset, wset>>
         /\ \A x \in Ends \ {e} : at'[x] = at[x] /\ tbl'[x] = tbl[x]
<1>1. DOMAIN tbl = Ends /\ DOMAIN at = Ends
  BY Shapes DEF IInv, LoopOK
<1>2. CASE InputPacket(e)
  <2>1. at[e].phase = "packets" /\ UNCHANGED <<at, rset, wset>>
    BY <1>2, ZenonT(40) DEF InputPacket, AcceptOpen, RefuseOpen, InputOpenConfirmation,
       InputOpenFailure, InputData, InputEof, OutputClosed, InputClose, Arrived, Ready
  <2>2. \A x \in Ends \ {e} : tbl'[x] = tbl[x]
    BY <1>1, <1>2 DEF InputPacket, AcceptOpen, RefuseOpen, InputOpenConfirmation,
       InputOpenFailure, InputData, InputEof, OutputClosed, InputClose, AllocateIn,
       Store
  <2>3. QED
    BY <2>1, <2>2
<1>3. CASE PacketsDone(e) \/ PollBreak(e)
  BY <1>1, <1>3 DEF PacketsDone, PollBreak, Ready
<1>4. ASSUME NEW i \in DOMAIN tbl[e], PollData(e, i) \/ PollEof(e, i)
      PROVE  /\ at[e].phase = "poll" /\ UNCHANGED <<rset, wset>>
             /\ \A x \in Ends \ {e} : at'[x] = at[x] /\ tbl'[x] = tbl[x]
  BY <1>1, <1>4 DEF PollData, PollEof, AtSlot, Store
<1>5. CASE StopListening(e)
  BY <1>1, <1>5 DEF StopListening, Ready
<1>6. QED
  BY <1>2, <1>3, <1>4, <1>5 DEF OutputPoll

LEMMA PacketsLeaveSets ==
  ASSUME IInv, SetsOK, NEW e \in Ends,
         InputPacket(e) \/ PacketsDone(e) \/ OutputPoll(e) \/ StopListening(e)
  PROVE  SetsOK'
<1>1. /\ at[e].phase \in {"packets", "poll"} /\ UNCHANGED <<rset, wset>>
      /\ \A x \in Ends \ {e} : at'[x] = at[x] /\ tbl'[x] = tbl[x]
  BY OutsidePasses
<1>2. QED
  BY <1>1, SetsStayEmpty

\* What channel_close_output makes of an entry whose input is open.
LEMMA CloseOutputReads ==
  ASSUME NEW ch \in Channel, ch.type = "OPEN", Orderly(ch),
         "INPUT_CLOSED" \notin ch.flags
  PROVE  "INPUT_CLOSED" \notin CloseOutput(Run(ch)).c.flags
<1> DEFINE flags == ch.flags \cup {"OUTPUT_CLOSED", "CLOSE_SENT"}
<1>1. CASE "OUTPUT_CLOSED" \in ch.flags
  BY <1>1 DEF CloseOutput, HasFlag, Run
<1>2. CASE "OUTPUT_CLOSED" \notin ch.flags
  <2>1. {"OUTPUT_CLOSED", "CLOSE_SENT"} \cap ch.flags = {}
    BY <1>2 DEF Orderly
  <2>2. Run(ch) = Ran(With(ch, ch.flags, ch.input, ch.output), << >>, 0)
    BY RanFromStart
  <2>3. Leaves(CloseOutput(Ran(With(ch, ch.flags, ch.input, ch.output), << >>, 0)),
               ch, flags, ch.input, << >>,
               Append(<< >>, Closing(ch, "OUTPUT_CLOSED")))
    <3> DEFINE in == ch.input
               out == ch.output
               none == << >>
               old == ch.flags
    <3>1. ch.type # "FREE" /\ {"OUTPUT_CLOSED", "CLOSE_SENT"} \cap old = {}
      BY <2>1
    <3> HIDE DEF in, out, none, old
    <3>2. QED
      BY <3>1, CloseOutputLeaves DEF in, out, none, old
  <2>4. CloseOutput(Run(ch)).c = After(ch, flags, ch.input, << >>)
    BY <2>2, <2>3 DEF Leaves
  <2>5. "INPUT_CLOSED" \notin flags /\ "INPUT_CLOSED" \in Flags
    BY DEF Flags
  <2> HIDE DEF flags
  <2>6. CloseOutput(Run(ch)).c.flags = flags
    BY <2>5, <2>4, WithFields DEF After
  <2>7. QED
    BY <2>5, <2>6
<1>3. QED
  BY <1>1, <1>2

\* channel_prepare_select
LEMMA PrepareSelectKeepsSets ==
  ASSUME IInv, SetsOK, NEW e \in Ends, NEW i \in DOMAIN tbl[e],
         \/ PrepareListener(e, i) \/ PrepareOpen(e, i)
         \/ PrepareX11Incomplete(e, i) \/ PrepareX11Good(e, i)
         \/ PrepareX11Bad(e, i)
  PROVE  SetsOK'
<1> DEFINE c == tbl[e][i]
<1>1. /\ at[e].phase = "prepare" /\ at[e].slot = i /\ c.type # "FREE"
  BY DEF PrepareListener, PrepareOpen, PrepareX11Incomplete, PrepareX11Good,
         PrepareX11Bad, AtSlot, ListenerTypes
<1>2. /\ i \in InUse(tbl[e]) /\ c \in Channel /\ Orderly(c)
      /\ Run(c) \in Runs /\ Sound(Run(c)) /\ Tight(Run(c)) /\ Run(c).c = c
  BY <1>1, EntryInUse DEF IInv
<1>3. c.type \in {"OPEN", "X11_OPEN"} => c.sock \notin rset[e] /\ c.sock \notin wset[e]
  <2>1. Sets(at[e], tbl[e], rset[e], wset[e]) /\ i \in Nat
    BY Shapes DEF SetsOK
  <2>2. i >= at[e].slot
    BY <1>1, <2>1
  <2>3. QED
    BY <1>1, <2>1, <2>2 DEF Sets
<1>4. [tbl EXCEPT ![e][i] = c] = tbl
  BY Shapes DEF IInv, TablesOK
<1>5. CASE PrepareListener(e, i) \/ PrepareX11Incomplete(e, i)
  <2>1. tbl' = tbl /\ c.type # "OPEN"
    BY <1>5 DEF PrepareListener, PrepareX11Incomplete, ListenerTypes
  <2>2. PICK rs \in {rset[e], rset[e] \cup {c.sock}} :
          Move(e, PrepareFrom(i + 1, tbl'[e]), rs, wset[e])
    BY <1>5, <2>1 DEF PrepareListener, PrepareX11Incomplete
  <2> HIDE DEF c
  <2>3. tbl' = [tbl EXCEPT ![e][i] = c]
    BY <1>4, <2>1
  <2>4. c.type = "OPEN" => Asked(c, rs, wset[e])
    BY <2>1
  <2>5. rs \in {rset[e], rset[e] \cup {tbl[e][i].sock}}
    BY DEF c
  <2>6. QED
    BY <1>1, <1>2, <2>2, <2>3, <2>4, <2>5, FirstPassKeeps
<1>6. CASE PrepareOpen(e, i)
  <2> DEFINE reads    == Len(c.input) < HighWater /\ "INPUT_CLOSED" \notin c.flags
             writable == "OUTPUT_CLOSED" \notin c.flags
             writes   == writable /\ c.output # << >>
             drained  == writable /\ c.output = << >> /\ "EOF_RECEIVED" \in c.flags
             r        == IF drained THEN CloseOutput(Run(c)) ELSE Run(c)
             rs       == IF reads  THEN rset[e] \cup {c.sock} ELSE rset[e]
             ws       == IF writes THEN wset[e] \cup {c.sock} ELSE wset[e]
  <2>1. /\ c.type = "OPEN" /\ tbl' = [tbl EXCEPT ![e][i] = r.c]
        /\ Move(e, PrepareFrom(i + 1, tbl'[e]), rs, ws)
    BY <1>6 DEF PrepareOpen, Store
  <2>2. r.c.sock = c.sock
    BY <1>2, CloseOutputSound DEF Step
  <2>3. "INPUT_CLOSED" \notin c.flags => "INPUT_CLOSED" \notin r.c.flags
    BY <1>2, <2>1, CloseOutputReads
  <2>4. c.output # << >> => r.c = c
    BY <1>2
  <2>5. c.sock \in rs => "INPUT_CLOSED" \notin c.flags
    BY <1>3, <2>1
  <2>6. c.sock \in ws => c.output # << >>
    BY <1>3, <2>1
  <2>7. Asked(r.c, rs, ws)
    <3> HIDE DEF rs, ws, r, c
    <3>1. QED
      BY <2>2, <2>3, <2>4, <2>5, <2>6 DEF Asked
  <2>8. rs \in {rset[e], rset[e] \cup {c.sock}} /\ ws \in {wset[e], wset[e] \cup {c.sock}}
    OBVIOUS
  <2> HIDE DEF rs, ws, r
  <2>9. QED
    BY <1>1, <1>2, <2>1, <2>7, <2>8, FirstPassKeeps
<1>7. CASE PrepareX11Good(e, i)
  <2> DEFINE new == [c EXCEPT !.type = "OPEN"]
  <2>1. /\ c.type = "X11_OPEN" /\ tbl' = [tbl EXCEPT ![e][i] = new]
        /\ UNCHANGED <<at, rset, wset>>
    BY <1>7 DEF PrepareX11Good
  <2>2. new.sock = c.sock
    BY <1>2 DEF Channel
  <2> HIDE DEF new
  <2>3. /\ tbl'[e] = [tbl[e] EXCEPT ![i] = new] /\ \A x \in Ends \ {e} : tbl'[x] = tbl[x]
        /\ i \in Nat
    <3>1. DOMAIN tbl = Ends /\ alloc[e] \in Nat /\ DOMAIN tbl[e] = 0 .. alloc[e] - 1
      BY Shapes
    <3>2. QED
      BY <2>1, <3>1
  <2> DEFINE t == tbl[e]
             u == tbl'[e]
  <2>4. Sets(at[e], t, rset[e], wset[e])
    BY DEF SetsOK
  <2>5. /\ DOMAIN u = DOMAIN t /\ u[i] = new /\ \A j \in DOMAIN t : j # i => u[j] = t[j]
    BY <2>3
  <2> HIDE DEF u, t
  <2>6. Sets(at[e], u, rset[e], wset[e])
    BY <1>1, <1>3, <2>1, <2>2, <2>3, <2>4, <2>5 DEF Sets, t
  <2>7. QED
    BY <2>1, <2>3, <2>6, OneEndsSets DEF u
<1>8. CASE PrepareX11Bad(e, i)
  <2> DEFINE r == RejectX11(Run(c))
  <2>1. /\ c.type = "X11_OPEN" /\ tbl' = [tbl EXCEPT ![e][i] = r.c]
        /\ Move(e, PrepareFrom(i + 1, tbl'[e]), rset[e], wset[e])
    BY <1>8 DEF PrepareX11Bad, Store
  <2>2. r.c.sock = c.sock
    BY <1>1, <1>2, RejectX11Sound
  <2> HIDE DEF r
  <2>3. Asked(r.c, rset[e], wset[e])
    BY <1>3, <2>1, <2>2 DEF Asked
  <2>4. QED
    BY <1>1, <1>2, <2>1, <2>3, FirstPassKeeps
<1>9. QED
  BY <1>5, <1>6, <1>7, <1>8

\* channel_after_select
LEMMA AfterSelectKeepsSets ==
  ASSUME IInv, IInv', Agreement, SetsOK, NEW e \in Ends, NEW i \in DOMAIN tbl[e],
         \/ AcceptConnection(e, i) \/ NoConnection(e, i)
         \/ ReadEof(e, i) \/ ReadAndWrite(e, i) \/ WriteError(e, i)
  PROVE  SetsOK'
<1>1. at[e].phase = "after" /\ at[e].slot = i
  BY DEF AcceptConnection, NoConnection, ReadEof, ReadAndWrite, WriteError,
         CanRead, CanWrite, AtSlot
<1>2. DOMAIN tbl = Ends /\ alloc[e] \in Nat /\ DOMAIN tbl[e] = 0 .. alloc[e] - 1
  BY Shapes
<1>3. CASE AcceptConnection(e, i)
  <2> DEFINE new == [BlankChannel EXCEPT
                !.type = "OPENING", !.sock = NewSock(e),
                !.isx = (tbl[e][i].type = "X11_LISTENER"), !.inst = opened + 1]
             s == NewSlot(e)
             g == Grown(e)
             u == [g EXCEPT ![s] = new]
  <2>1. AllocateIn(e, new) /\ Move(e, AfterFrom(i + 1, tbl'[e]), rset[e], wset[e])
    BY <1>3 DEF AcceptConnection
  <2>2. new.type = "OPENING"
    BY DEF BlankChannel
  <2>3. /\ InUse(g) = InUse(tbl[e]) /\ \A j \in InUse(tbl[e]) : g[j] = tbl[e][j]
        /\ FreeSlots(e) # {} /\ s \in DOMAIN g
    BY SlotFound DEF IInv, TableInv
  <2>4. tbl' = [tbl EXCEPT ![e] = u]
    BY <2>1, <2>3 DEF AllocateIn, Allocated
  <2>5. tbl'[e] = u /\ \A x \in Ends \ {e} : tbl'[x] = tbl[x]
    BY <1>2, <2>4
  <2>6. DOMAIN u = DOMAIN g /\ u[s] = new /\ \A j \in DOMAIN g : j # s => u[j] = g[j]
    BY <2>3
  <2> HIDE DEF u, g, s, new
  <2>7. ASSUME NEW j \in DOMAIN u, u[j].type = "OPEN"
        PROVE  j \in DOMAIN tbl[e] /\ u[j] = tbl[e][j]
    <3>1. j # s /\ u[j] = g[j] /\ j \in InUse(g)
      BY <2>2, <2>6, <2>7 DEF InUse
    <3>2. QED
      BY <2>3, <3>1 DEF InUse
  <2>8. QED
    BY <1>1, <2>1, <2>5, <2>7, SecondPassKeeps
<1>4. CASE NoConnection(e, i)
  <2>1. tbl' = tbl /\ Move(e, AfterFrom(i + 1, tbl'[e]), rset[e], wset[e])
    BY <1>4 DEF NoConnection
  <2>2. QED
    BY <1>1, <2>1, SecondPassKeeps
<1>5. CASE ReadEof(e, i) \/ ReadAndWrite(e, i) \/ WriteError(e, i)
  <2>1. Move(e, AfterFrom(i + 1, tbl'[e]), rset[e], wset[e])
    BY <1>5 DEF ReadEof, ReadAndWrite, WriteError
  <2>2. \E new : tbl' = [tbl EXCEPT ![e][i] = new]
    <3>1. CASE ReadEof(e, i)
      BY <3>1 DEF ReadEof, Store
    <3>2. CASE ReadAndWrite(e, i)
      <4>1. PICK x \in Transfers(e, i) :
              tbl' = [tbl EXCEPT
                ![e][i].input  = IF x[1] = 1
                                 THEN Append(@, hist[tbl[e][i].inst][e].read + 1) ELSE @,
                ![e][i].output = SubSeq(@, x[2] + 1, Len(@))]
        BY <3>2 DEF ReadAndWrite
      <4> DEFINE c   == tbl[e][i]
                 in  == IF x[1] = 1 THEN Append(c.input, hist[c.inst][e].read + 1)
                        ELSE c.input
                 out == SubSeq(c.output, x[2] + 1, Len(c.output))
                 new == [c EXCEPT !.input = in, !.output = out]
      <4>2. tbl' = [tbl EXCEPT ![e][i] = new]
        BY <4>1
      <4> HIDE DEF new
      <4>3. QED
        BY <4>2
    <3>3. CASE WriteError(e, i)
      BY <3>3 DEF WriteError
    <3>4. QED
      BY <1>5, <3>1, <3>2, <3>3
  <2>3. PICK new : tbl' = [tbl EXCEPT ![e][i] = new]
    BY <2>2
  <2>4. /\ \A x \in Ends \ {e} : tbl'[x] = tbl[x]
        /\ \A j \in DOMAIN tbl'[e] : j # i => j \in DOMAIN tbl[e]
                                             /\ tbl'[e][j] = tbl[e][j]
    BY <1>2, <2>3
  <2>5. QED
    BY <1>1, <2>1, <2>4, SecondPassKeeps
<1>6. QED
  BY <1>3, <1>4, <1>5

\* What the sets hold is kept by every step.
LEMMA NextSets ==
  ASSUME IInv, IInv', Agreement, SetsOK, [Next]_vars
  PROVE  SetsOK'
<1>1. CASE UNCHANGED vars
  BY <1>1 DEF vars, SetsOK
<1>2. CASE Next
  <2>1. PICK e \in Ends :
          \/ InputPacket(e) \/ PacketsDone(e)
          \/ OutputPoll(e) \/ PrepareSelect(e) \/ AfterSelect(e)
          \/ StopListening(e)
    BY <1>2 DEF Next
  <2>2. CASE PrepareSelect(e)
    BY <2>2, PrepareSelectKeepsSets DEF PrepareSelect
  <2>3. CASE AfterSelect(e)
    BY <2>3, AfterSelectKeepsSets DEF AfterSelect
  <2>4. QED
    BY <2>1, <2>2, <2>3, PacketsLeaveSets
<1>3. QED
  BY <1>1, <1>2

-----------------------------------------------------------------------------
(* Whose descriptors the sets hold.  An entry freed in a pass leaves its   *)
(* number in the sets; what keeps channel_after_select from giving that    *)
(* number to a connection it accepts is that the listeners come first.     *)

\* Below a listener there are only listeners, and the client has only those
\* of forwarded ports, which channel_stop_listening frees all together.
Fronted(e, t) ==
  \A j \in DOMAIN t : t[j].type \in ListenerTypes =>
    /\ e = "client" => t[j].type = "PORT_LISTENER"
    /\ \A k \in DOMAIN t : k < j => t[k].type \in ListenerTypes
ListenersFirst == \A e \in Ends : Fronted(e, tbl[e])

\* An entry whose descriptor is in a set is of a kind that asks for it; and as
\* long as there may be listeners to look at, no number is left over from an
\* entry freed in the pass.
Asker(ch, rs, ws) ==
  /\ ch.sock \in rs => ch.type \in ListenerTypes \cup {"OPEN"}
  /\ ch.sock \in ws => ch.type = "OPEN"
Descriptors(t) == {t[j].sock : j \in InUse(t)}
Held(pos, t, rs, ws) ==
  /\ \A j \in InUse(t) : Asker(t[j], rs, ws)
  /\ \/ pos.phase = "prepare"
     \/ pos.phase = "after" /\ t[pos.slot].type \in ListenerTypes
     => rs \cup ws \subseteq Descriptors(t)
HeldOK == \A e \in Ends : Held(at[e], tbl[e], rset[e], wset[e])

\* What the invariant says of the select sets contains the property.
LEMMA SetsCurrent == SetsOK /\ HeldOK => SelectSetsCurrent
<1>1. SUFFICES ASSUME SetsOK, HeldOK, NEW e \in Ends, at[e].phase = "after",
                      NEW i \in InUse(tbl[e])
               PROVE  LET ch  == tbl[e][i]
                          due == i >= at[e].slot
                      IN  /\ ch.sock \in rset[e] =>
                               \/ ch.type \in ListenerTypes
                               \/ /\ ch.type = "OPEN"
                                  /\ due => "INPUT_CLOSED" \notin ch.flags
                          /\ ch.sock \in wset[e] =>
                               ch.type = "OPEN" /\ (due => ch.output # << >>)
  BY DEF SelectSetsCurrent
<1>2. Asker(tbl[e][i], rset[e], wset[e]) /\ i \in DOMAIN tbl[e]
  BY <1>1 DEF HeldOK, Held, InUse
<1>3. i >= at[e].slot /\ tbl[e][i].type = "OPEN" => Asked(tbl[e][i], rset[e], wset[e])
  BY <1>1, <1>2 DEF SetsOK, Sets
<1>4. QED
  BY <1>2, <1>3 DEF Asker, Asked

\* Two tables with the same listeners.
LEMMA SameListeners ==
  ASSUME NEW e, NEW n \in Nat, NEW m \in Nat, NEW t, NEW u, Fronted(e, t),
         DOMAIN t = 0 .. n - 1, DOMAIN u = 0 .. m - 1,
         \A j \in DOMAIN u : u[j].type \in ListenerTypes =>
           j \in DOMAIN t /\ t[j].type = u[j].type,
         \A j \in DOMAIN t : t[j].type \in ListenerTypes =>
           j \in DOMAIN u /\ u[j].type = t[j].type
  PROVE  Fronted(e, u)
<1>1. SUFFICES ASSUME NEW j \in DOMAIN u, u[j].type \in ListenerTypes
               PROVE  /\ e = "client" => u[j].type = "PORT_LISTENER"
                      /\ \A k \in DOMAIN u : k < j => u[k].type \in ListenerTypes
  BY DEF Fronted
<1>2. j \in DOMAIN t /\ t[j].type = u[j].type
  BY <1>1
<1>3. ASSUME NEW k \in DOMAIN u, k < j PROVE u[k].type \in ListenerTypes
  <2>1. k \in DOMAIN t
    BY <1>2, <1>3
  <2>2. t[k].type \in ListenerTypes
    BY <1>1, <1>2, <1>3, <2>1 DEF Fronted
  <2>3. QED
    BY <2>1, <2>2
<1>4. QED
  BY <1>1, <1>2, <1>3 DEF Fronted

\* What steps do to the tables: an entry of a connection changes, one is added
\* with a descriptor of its own, or the listeners go.
Stores(e) ==
  \E i \in DOMAIN tbl[e] : \E new :
    /\ tbl[e][i].type \in LiveTypes /\ new.type \in LiveTypes \cup {"FREE"}
    /\ tbl' = [tbl EXCEPT ![e][i] = new]
Adds(e) ==
  \E ch : /\ ch.type \in LiveTypes /\ ch.sock = NewSock(e)
          /\ tbl' = [tbl EXCEPT ![e] = [Grown(e) EXCEPT ![NewSlot(e)] = ch]]

LEMMA ServingStores ==
  ASSUME NEW e \in Ends, Serving(e)
  PROVE  Stores(e)
<1>1. PICK i, new, x, d, out : Service(e, i, new, x, d, out)
  BY DEF Serving
<1>2. /\ i \in DOMAIN tbl[e] /\ tbl[e][i].type \in LiveTypes
      /\ tbl' = [tbl EXCEPT ![e][i] = new]
      /\ new.type # "FREE" => EntryOK(new)
  BY <1>1 DEF Service, Served
<1>3. new.type \in LiveTypes \cup {"FREE"}
  BY <1>2 DEF EntryOK
<1>4. QED
  BY <1>2, <1>3 DEF Stores

\* The answers to an open request.
LEMMA AnswersStore ==
  ASSUME IInv, Agreement, NEW e \in Ends,
         InputOpenConfirmation(e) \/ InputOpenFailure(e)
  PROVE  tbl' = tbl \/ Stores(e)
<1> DEFINE i == Head(net[e]).chan
           c == tbl[e][i]
<1>1. CASE tbl' = tbl
  BY <1>1
<1>2. CASE InputOpenConfirmation(e) /\ tbl' # tbl
  <2> DEFINE new == [c EXCEPT !.rid = Head(net[e]).from, !.type = "OPEN"]
  <2>1. i \in DOMAIN tbl[e] /\ c.type = "OPENING"
    BY <1>2 DEF InputOpenConfirmation
  <2>2. tbl' = [tbl EXCEPT ![e][i].rid = Head(net[e]).from, ![e][i].type = "OPEN"]
    BY <1>2 DEF InputOpenConfirmation
  <2>3. DOMAIN tbl = Ends /\ tbl[e] \in [0 .. alloc[e] - 1 -> Channel] /\ c \in Channel
    BY <2>1, Shapes
  <2>4. tbl' = [tbl EXCEPT ![e][i] = new]
    BY <2>1, <2>2, <2>3
  <2>5. new.type = "OPEN"
    BY <2>3 DEF Channel
  <2> HIDE DEF new, c, i
  <2>6. QED
    BY <2>1, <2>4, <2>5 DEF Stores, LiveTypes, c
<1>3. CASE InputOpenFailure(e) /\ tbl' # tbl
  <2> DEFINE r == ChannelFree(Run(c))
  <2>1. i \in DOMAIN tbl[e] /\ c.type = "OPENING" /\ tbl' = [tbl EXCEPT ![e][i] = r.c]
    BY <1>3 DEF InputOpenFailure, Store
  <2>2. /\ Run(c) \in Runs /\ Run(c).c = c /\ Run(c).frees = 0
    BY <2>1, EntryInUse DEF IInv, Run
  <2>3. r.c.type = "FREE"
    BY <2>1, <2>2, ChannelFreeShape
  <2> HIDE DEF r, c, i
  <2>4. QED
    BY <2>1, <2>3 DEF Stores, LiveTypes, c
<1>4. QED
  BY <1>1, <1>2, <1>3

\* channel_allocate, for a connection asked for from either side.
LEMMA AllocationAdds ==
  ASSUME IInv, NEW e \in Ends, NEW ch, ch.type \in LiveTypes, ch.sock = NewSock(e),
         AllocateIn(e, ch)
  PROVE  Adds(e)
<1>1. FreeSlots(e) # {}
  BY SlotFound DEF IInv
<1>2. tbl' = [tbl EXCEPT ![e] = [Grown(e) EXCEPT ![NewSlot(e)] = ch]]
  BY <1>1 DEF AllocateIn, Allocated
<1>3. QED
  BY <1>2 DEF Adds

\* The two ways an entry is made.
LEMMA BlankEntries ==
  ASSUME NEW type, NEW sock, NEW rid, NEW x11, NEW inst
  PROVE  LET a == [BlankChannel EXCEPT !.type = type, !.sock = sock, !.rid = rid,
                                       !.isx = x11, !.inst = inst]
             o == [BlankChannel EXCEPT !.type = type, !.sock = sock,
                                       !.isx = x11, !.inst = inst]
         IN  /\ a.type = type /\ a.sock = sock
             /\ o.type = type /\ o.sock = sock
BY DEF BlankChannel

LEMMA AcceptingAdds ==
  ASSUME IInv, NEW e \in Ends, NEW i, AcceptConnection(e, i)
  PROVE  Adds(e)
<1> DEFINE x11  == (tbl[e][i].type = "X11_LISTENER")
           type == "OPENING"
           sock == NewSock(e)
           inst == opened + 1
           new  == [BlankChannel EXCEPT !.type = type, !.sock = sock, !.isx = x11,
                                        !.inst = inst]
<1>1. AllocateIn(e, new) /\ type \in LiveTypes /\ sock = NewSock(e)
  BY DEF AcceptConnection, LiveTypes
<1> HIDE DEF x11, type, sock, inst
<1>2. new.type = type /\ new.sock = sock
  BY BlankEntries
<1> HIDE DEF new
<1>3. QED
  BY <1>1, <1>2, AllocationAdds

LEMMA GrantingAdds ==
  ASSUME IInv, NEW e \in Ends, NEW kind, AcceptOpen(e, kind)
  PROVE  Adds(e)
<1> DEFINE type == IF kind = "X11_OPEN" /\ Spoof THEN "X11_OPEN" ELSE "OPEN"
           x11  == (kind = "X11_OPEN")
           sock == NewSock(e)
           rid  == Head(net[e]).chan
           inst == Head(net[e]).inst
           new  == [BlankChannel EXCEPT !.type = type, !.sock = sock, !.rid = rid,
                                        !.isx = x11, !.inst = inst]
<1>1. AllocateIn(e, new) /\ sock = NewSock(e)
  BY DEF AcceptOpen
<1>2. type \in LiveTypes
  BY DEF LiveTypes
<1> HIDE DEF type, x11, sock, rid, inst
<1>3. new.type = type /\ new.sock = sock
  BY BlankEntries
<1> HIDE DEF new
<1>4. QED
  BY <1>1, <1>2, <1>3, AllocationAdds

LEMMA TableSteps ==
  ASSUME IInv, Agreement, SelectSetsCurrent, [Next]_vars
  PROVE  \/ tbl' = tbl
         \/ \E e \in Ends : Stores(e) \/ Adds(e) \/ StopListening(e)
<1>1. CASE UNCHANGED vars
  BY <1>1 DEF vars
<1>2. CASE Next
  <2>1. PICK e \in Ends :
          \/ InputPacket(e) \/ PacketsDone(e)
          \/ OutputPoll(e) \/ PrepareSelect(e) \/ AfterSelect(e)
          \/ StopListening(e)
    BY <1>2 DEF Next
  <2>2. CASE InputPacket(e)
    <3>1. CASE InputData(e) \/ InputEof(e) \/ OutputClosed(e)
      BY <3>1, InputDataServes, InputEofServes, OutputClosedServes, ServingStores
    <3>2. CASE InputOpenConfirmation(e) \/ InputOpenFailure(e)
      BY <3>2, AnswersStore
    <3>3. CASE \E kind \in OpenKinds : AcceptOpen(e, kind) \/ RefuseOpen(e, kind)
      BY <3>3, GrantingAdds DEF RefuseOpen
    <3>4. QED
      BY <2>2, <3>1, <3>2, <3>3 DEF InputPacket
  <2>3. CASE PacketsDone(e) \/ PollBreak(e)
    BY <2>3 DEF PacketsDone, PollBreak
  <2>4. CASE \E i \in DOMAIN tbl[e] : PollData(e, i) \/ PollEof(e, i)
    BY <2>4, PollDataServing, PollEofServing, ServingStores
  <2>5. CASE PrepareSelect(e)
    <3>1. CASE \E i \in DOMAIN tbl[e] : \/ PrepareOpen(e, i) \/ PrepareX11Good(e, i)
                                        \/ PrepareX11Bad(e, i)
      BY <3>1, PrepareOpenServing, PrepareX11GoodServing, PrepareX11BadServing,
         ServingStores
    <3>2. CASE \E i \in DOMAIN tbl[e] : PrepareListener(e, i) \/ PrepareX11Incomplete(e, i)
      BY <3>2 DEF PrepareListener, PrepareX11Incomplete
    <3>3. QED
      BY <2>5, <3>1, <3>2 DEF PrepareSelect
  <2>6. CASE AfterSelect(e)
    <3>1. CASE \E i \in DOMAIN tbl[e] : \/ ReadEof(e, i) \/ ReadAndWrite(e, i)
                                        \/ WriteError(e, i)
      BY <3>1, ReadEofServing, ReadAndWriteServing, WriteErrorServing, ServingStores
    <3>2. CASE \E i \in DOMAIN tbl[e] : AcceptConnection(e, i) \/ NoConnection(e, i)
      BY <3>2, AcceptingAdds DEF NoConnection
    <3>3. QED
      BY <2>6, <3>1, <3>2 DEF AfterSelect
  <2>7. QED
    BY <2>1, <2>2, <2>3, <2>4, <2>5, <2>6 DEF OutputPoll
<1>3. QED
  BY <1>1, <1>2

\* Live entries are not listeners, and neither are free ones.
LEMMA NoListener ==
  /\ \A type \in LiveTypes \cup {"FREE"} : type \notin ListenerTypes
  /\ "client" \in Ends
BY DEF LiveTypes, ListenerTypes, Ends

\* The listeners stay below everything else.
LEMMA StoringFronted ==
  ASSUME IInv, NEW e \in Ends, Fronted(e, tbl[e]), Stores(e)
  PROVE  Fronted(e, tbl'[e])
<1> DEFINE t == tbl[e]
           u == tbl'[e]
<1>1. PICK i \in DOMAIN t : \E new :
        /\ t[i].type \in LiveTypes /\ new.type \in LiveTypes \cup {"FREE"}
        /\ tbl' = [tbl EXCEPT ![e][i] = new]
  BY DEF Stores
<1>2. alloc[e] \in Nat /\ DOMAIN tbl = Ends /\ DOMAIN t = 0 .. alloc[e] - 1
  BY Shapes
<1>3. /\ DOMAIN u = DOMAIN t /\ u[i].type \in LiveTypes \cup {"FREE"}
      /\ \A j \in DOMAIN t : j # i => u[j] = t[j]
  BY <1>1, <1>2
<1> HIDE DEF t, u
<1>4. t[i].type \notin ListenerTypes /\ u[i].type \notin ListenerTypes
  BY <1>1, <1>3, NoListener
<1>5. QED
  BY <1>2, <1>3, <1>4, SameListeners DEF t, u

LEMMA AddingFronted ==
  ASSUME IInv, NEW e \in Ends, Fronted(e, tbl[e]), Adds(e)
  PROVE  Fronted(e, tbl'[e])
<1> DEFINE t == tbl[e]
           u == tbl'[e]
           g == Grown(e)
           s == NewSlot(e)
<1>1. PICK ch : /\ ch.type \in LiveTypes
                /\ tbl' = [tbl EXCEPT ![e] = [g EXCEPT ![s] = ch]]
  BY DEF Adds
<1>2. alloc[e] \in Nat /\ DOMAIN tbl = Ends /\ DOMAIN t = 0 .. alloc[e] - 1
  BY Shapes
<1>3. /\ NewAlloc(e) \in Nat /\ DOMAIN g = 0 .. NewAlloc(e) - 1
      /\ InUse(g) = InUse(t) /\ \A j \in InUse(t) : g[j] = t[j]
      /\ s \in DOMAIN g /\ g[s].type = "FREE"
  BY SlotFound DEF IInv, TableInv
<1>4. DOMAIN u = DOMAIN g /\ u[s] = ch /\ \A j \in DOMAIN g : j # s => u[j] = g[j]
  BY <1>1, <1>2, <1>3
<1> HIDE DEF t, u, g, s
<1>5. u[s].type \notin ListenerTypes /\ "FREE" \notin ListenerTypes
  BY <1>1, <1>4, NoListener
<1>6. ASSUME NEW j \in DOMAIN u, u[j].type \in ListenerTypes
      PROVE  j \in DOMAIN t /\ t[j].type = u[j].type
  <2>1. j # s /\ u[j] = g[j] /\ j \in InUse(g)
    BY <1>4, <1>5, <1>6 DEF InUse
  <2>2. QED
    BY <1>3, <2>1 DEF InUse
<1>7. ASSUME NEW j \in DOMAIN t, t[j].type \in ListenerTypes
      PROVE  j \in DOMAIN u /\ u[j].type = t[j].type
  <2>1. j \in InUse(t) /\ g[j] = t[j] /\ j \in DOMAIN g
    BY <1>3, <1>5, <1>7 DEF InUse
  <2>2. j # s
    BY <1>3, <1>5, <1>7, <2>1
  <2>3. QED
    BY <1>4, <2>1, <2>2
<1>8. QED
  BY <1>2, <1>3, <1>4, <1>6, <1>7, SameListeners DEF t, u

LEMMA StoppingFronted ==
  ASSUME IInv, NEW e \in Ends, Fronted(e, tbl[e]), StopListening(e)
  PROVE  Fronted(e, tbl'[e])
<1> DEFINE t    == tbl[e]
           gone == {i \in DOMAIN t : t[i].type \in {"X11_LISTENER", "PORT_LISTENER"}}
           s    == [i \in DOMAIN t |->
                      IF i \in gone THEN ChannelFree(Run(t[i])).c ELSE t[i]]
<1>1. e = "client" /\ tbl' = [tbl EXCEPT ![e] = s] /\ DOMAIN tbl = Ends
  BY Shapes DEF StopListening
<1>2. ASSUME NEW j \in DOMAIN t PROVE s[j].type \notin ListenerTypes
  <2>1. CASE j \in gone
    <3>1. t[j].type # "FREE"
      BY <2>1
    <3>2. /\ Run(t[j]) \in Runs /\ Run(t[j]).c = t[j] /\ Run(t[j]).frees = 0
      BY <3>1, EntryInUse DEF IInv, Run
    <3>3. ChannelFree(Run(t[j])).c.type = "FREE"
      BY <3>1, <3>2, ChannelFreeShape
    <3>4. QED
      BY <2>1, <3>3, NoListener
  <2>2. CASE j \notin gone
    <3>1. t[j].type # "PORT_LISTENER"
      BY <2>2
    <3>2. QED
      BY <1>1, <2>2, <3>1 DEF Fronted
  <2>3. QED
    BY <2>1, <2>2
<1>3. tbl'[e] = s /\ DOMAIN s = DOMAIN t
  BY <1>1
<1> HIDE DEF s
<1>4. QED
  BY <1>2, <1>3 DEF Fronted

\* The listeners come first in every state.
LEMMA NextFronted ==
  ASSUME IInv, Agreement, SelectSetsCurrent, ListenersFirst, [Next]_vars
  PROVE  ListenersFirst'
<1>1. CASE tbl' = tbl
  BY <1>1 DEF ListenersFirst
<1>2. ASSUME NEW e \in Ends, Stores(e) \/ Adds(e) \/ StopListening(e)
      PROVE  ListenersFirst'
  <2>1. Fronted(e, tbl'[e])
    BY <1>2, StoringFronted, AddingFronted, StoppingFronted DEF ListenersFirst
  <2>2. \A x \in Ends \ {e} : tbl'[x] = tbl[x]
    BY <1>2, Shapes DEF Stores, Adds, StopListening
  <2>3. QED
    BY <2>1, <2>2 DEF ListenersFirst
<1>3. QED
  BY <1>1, <1>2, TableSteps

LEMMA InitFronted == Init => ListenersFirst
<1>1. SUFFICES ASSUME Init, NEW e \in Ends PROVE Fronted(e, tbl[e])
  BY DEF ListenersFirst
<1> DEFINE L == Listeners[e]
           n == InitialAlloc(e)
           t == InitialTable(e)
<1>2. /\ L \in Seq([type : ListenerTypes, target : Targets \cup {NoTarget}])
      /\ Len(L) \in Nat /\ InitAlloc \in Nat /\ DOMAIN L = 1 .. Len(L)
      /\ e = "client" => \A k \in DOMAIN L : L[k].type = "PORT_LISTENER"
  BY ListenersAssumption, BoundsAssumption, LenProperties
<1>3. n \in Nat /\ tbl[e] = t /\ DOMAIN t = 0 .. n - 1
  BY <1>1, <1>2 DEF InitialAlloc, InitialTable, Init
<1>4. ASSUME NEW i \in 0 .. n - 1
      PROVE  IF i < Len(L) THEN i + 1 \in DOMAIN L /\ t[i].type = L[i + 1].type
             ELSE t[i].type = "FREE"
  <2>1. t[i] = IF i < Len(L)
               THEN [BlankChannel EXCEPT !.type = L[i + 1].type, !.sock = i,
                                         !.target = L[i + 1].target]
               ELSE BlankChannel
    BY DEF InitialTable
  <2> HIDE DEF t, L
  <2>2. i < Len(L) => i + 1 \in DOMAIN L
    BY <1>2, <1>3, <1>4
  <2>3. QED
    BY <2>1, <2>2 DEF BlankChannel
<1>5. ASSUME NEW i \in 0 .. n - 1, i < Len(L) PROVE t[i].type \in ListenerTypes
  <2>1. i + 1 \in 1 .. Len(L) /\ t[i].type = L[i + 1].type
    BY <1>2, <1>4, <1>5
  <2>2. L[i + 1] \in [type : ListenerTypes, target : Targets \cup {NoTarget}]
    BY <1>2, <2>1, ElementOfSeq
  <2>3. QED
    BY <2>1, <2>2
<1> HIDE DEF t, n, L
<1>6. ASSUME NEW j \in DOMAIN t, t[j].type \in ListenerTypes
      PROVE  /\ e = "client" => t[j].type = "PORT_LISTENER"
             /\ \A k \in DOMAIN t : k < j => t[k].type \in ListenerTypes
  <2>1. j < Len(L) /\ j + 1 \in DOMAIN L /\ t[j].type = L[j + 1].type
    BY <1>3, <1>4, <1>6, NoListener
  <2>2. \A k \in DOMAIN t : k < j => k < Len(L)
    BY <1>2, <1>3, <2>1
  <2>3. QED
    BY <1>2, <1>3, <1>5, <2>1, <2>2
<1>7. QED
  BY <1>3, <1>6 DEF Fronted

\* Empty sets hold nothing that is stale.
LEMMA EmptyHeld ==
  ASSUME NEW pos, NEW t
  PROVE  Held(pos, t, {}, {})
BY DEF Held, Asker

\* Only the sets of the end that takes the step are at stake.
LEMMA OneEndHeld ==
  ASSUME HeldOK, NEW e \in Ends, Held(at'[e], tbl'[e], rset'[e], wset'[e]),
         \A x \in Ends \ {e} : /\ at'[x] = at[x] /\ tbl'[x] = tbl[x]
                               /\ rset'[x] = rset[x] /\ wset'[x] = wset[x]
  PROVE  HeldOK'
<1>1. ASSUME NEW x \in Ends
      PROVE  Held(at'[x], tbl'[x], rset'[x], wset'[x])
  <2>1. CASE x = e
    BY <2>1
  <2>2. CASE x # e
    BY <2>2 DEF HeldOK
  <2>3. QED
    BY <2>1, <2>2
<1>2. QED
  BY <1>1 DEF HeldOK

LEMMA MovedHeld ==
  ASSUME IInv, HeldOK, NEW e \in Ends, NEW pos, NEW rs, NEW ws, Move(e, pos, rs, ws),
         pos # Packets => Held(pos, tbl'[e], rs, ws),
         \A x \in Ends \ {e} : tbl'[x] = tbl[x]
  PROVE  HeldOK'
<1>1. /\ at'[e] = pos
      /\ rset'[e] = IF pos = Packets THEN {} ELSE rs
      /\ wset'[e] = IF pos = Packets THEN {} ELSE ws
      /\ \A x \in Ends \ {e} : at'[x] = at[x] /\ rset'[x] = rset[x]
                               /\ wset'[x] = wset[x]
  BY Moved
<1>2. Held(at'[e], tbl'[e], rset'[e], wset'[e])
  BY <1>1, EmptyHeld
<1>3. QED
  BY <1>1, <1>2, OneEndHeld

\* What the first pass does to an entry it looks at: the entry becomes new, and
\* its descriptor may be put into the sets.
Prepared(e, i, new, rs, ws) ==
  /\ tbl' = [tbl EXCEPT ![e][i] = new]
  /\ rs \in {rset[e], rset[e] \cup {tbl[e][i].sock}}
  /\ ws \in {wset[e], wset[e] \cup {tbl[e][i].sock}}
  /\ IF new.type = "FREE" THEN tbl[e][i].sock \notin rs \cup ws
     ELSE new.sock = tbl[e][i].sock /\ Asker(new, rs, ws)

\* Wherever the pass goes next, the sets are then held.
LEMMA FirstPassHeld ==
  ASSUME IInv, HeldOK, NEW e \in Ends, NEW i \in InUse(tbl[e]),
         at[e].phase = "prepare",
         NEW new, NEW rs, NEW ws, Prepared(e, i, new, rs, ws), NEW pos
  PROVE  Held(pos, tbl'[e], rs, ws)
<1> DEFINE t == tbl[e]
           u == tbl'[e]
           R == rset[e]
           W == wset[e]
           s == t[i].sock
<1>1. DOMAIN tbl = Ends /\ i \in DOMAIN t /\ i \in InUse(t)
  BY Shapes DEF InUse
<1>2. DOMAIN u = DOMAIN t /\ u[i] = new /\ \A j \in DOMAIN t : j # i => u[j] = t[j]
  BY <1>1 DEF Prepared
<1>3. \A j \in InUse(t) : t[j].sock = s => j = i
  BY <1>1 DEF IInv, TablesOK, TableInv
<1>4. /\ \A j \in InUse(t) : Asker(t[j], R, W)
      /\ R \cup W \subseteq Descriptors(t)
  BY DEF HeldOK, Held
<1>5. /\ \A x : x # s => (x \in rs <=> x \in R) /\ (x \in ws <=> x \in W)
      /\ IF new.type = "FREE" THEN s \notin rs \cup ws
         ELSE new.sock = s /\ Asker(new, rs, ws)
  BY DEF Prepared
<1> HIDE DEF t, u, R, W, s
<1>6. ASSUME NEW j \in InUse(u) PROVE Asker(u[j], rs, ws)
  <2>1. CASE j = i
    BY <1>2, <1>5, <1>6, <2>1 DEF InUse
  <2>2. CASE j # i
    <3>1. u[j] = t[j] /\ j \in InUse(t)
      BY <1>2, <1>6, <2>2 DEF InUse
    <3>2. t[j].sock # s /\ Asker(t[j], R, W)
      BY <1>3, <1>4, <2>2, <3>1
    <3>3. QED
      BY <1>5, <3>1, <3>2 DEF Asker
  <2>3. QED
    BY <2>1, <2>2
<1>7. ASSUME NEW x \in rs \cup ws PROVE x \in Descriptors(u)
  <2>1. CASE x = s
    <3>1. i \in InUse(u) /\ u[i].sock = x
      BY <1>1, <1>2, <1>5, <1>7, <2>1 DEF InUse
    <3>2. QED
      BY <3>1 DEF Descriptors
  <2>2. CASE x # s
    <3>1. x \in R \cup W
      BY <1>5, <1>7, <2>2
    <3>2. PICK j \in InUse(t) : t[j].sock = x
      BY <1>4, <3>1 DEF Descriptors
    <3>3. j # i
      BY <2>2, <3>2 DEF s
    <3>4. j \in InUse(u) /\ u[j].sock = x
      BY <1>2, <3>2, <3>3 DEF InUse
    <3>5. QED
      BY <3>4 DEF Descriptors
  <2>3. QED
    BY <2>1, <2>2
<1>8. QED
  BY <1>6, <1>7 DEF Held, u

\* The second pass goes from a connection to connections only.
LEMMA SecondPassHeld ==
  ASSUME IInv, HeldOK, ListenersFirst, NEW e \in Ends, NEW i \in DOMAIN tbl[e],
         tbl[e][i].type = "OPEN", NEW new, tbl' = [tbl EXCEPT ![e][i] = new],
         new.type = "FREE" \/ (new.type = "OPEN" /\ new.sock = tbl[e][i].sock)
  PROVE  LET pos == AfterFrom(i + 1, tbl'[e])
         IN  pos # Packets => Held(pos, tbl'[e], rset[e], wset[e])
<1> DEFINE t   == tbl[e]
           u   == tbl'[e]
           R   == rset[e]
           W   == wset[e]
           pos == AfterFrom(i + 1, u)
<1>1. /\ alloc[e] \in Nat /\ DOMAIN t = 0 .. alloc[e] - 1 /\ DOMAIN tbl = Ends
      /\ i \in Nat /\ i + 1 \in Nat
  BY Shapes
<1>2. DOMAIN u = DOMAIN t /\ u[i] = new /\ \A j \in DOMAIN t : j # i => u[j] = t[j]
  BY <1>1
<1>3. \A j \in InUse(t) : Asker(t[j], R, W)
  BY DEF HeldOK, Held
<1>4. Fronted(e, t)
  BY DEF ListenersFirst
<1> HIDE DEF t, u, R, W
<1>5. ASSUME NEW j \in InUse(u) PROVE Asker(u[j], R, W)
  <2>1. CASE j = i
    <3>1. u[j].type = "OPEN" /\ u[j].sock = t[i].sock /\ i \in InUse(t) /\ t[i].type = "OPEN"
      BY <1>2, <1>5, <2>1 DEF InUse, t
    <3>2. QED
      BY <1>3, <3>1 DEF Asker
  <2>2. CASE j # i
    <3>1. u[j] = t[j] /\ j \in InUse(t)
      BY <1>2, <1>5, <2>2 DEF InUse
    <3>2. QED
      BY <1>3, <3>1
  <2>3. QED
    BY <2>1, <2>2
<1>6. ASSUME pos # Packets
      PROVE  pos.phase = "after" /\ u[pos.slot].type \notin ListenerTypes
  <2>1. pos.phase = "after" /\ pos.slot \in DOMAIN u /\ pos.slot >= i + 1
    BY <1>1, <1>2, <1>6, NextLook DEF AfterFrom
  <2>2. pos.slot \in DOMAIN t /\ i < pos.slot /\ pos.slot # i
    BY <1>1, <1>2, <2>1
  <2> HIDE DEF pos
  <2>3. u[pos.slot] = t[pos.slot]
    BY <1>2, <2>2
  <2>4. t[i].type \notin ListenerTypes
    BY DEF t, ListenerTypes
  <2>5. i \in DOMAIN t
    BY DEF t
  <2>6. t[pos.slot].type \notin ListenerTypes
    BY <1>4, <2>2, <2>4, <2>5 DEF Fronted
  <2>7. QED
    BY <2>1, <2>3, <2>6
<1> HIDE DEF pos
<1>7. pos # Packets => Held(pos, u, R, W)
  BY <1>5, <1>6 DEF Held
<1>8. QED
  BY <1>7 DEF pos, u, R, W

\* The second pass, a listener: nothing is left over that the descriptor of the
\* new connection could be mistaken for.
LEMMA AcceptingHeld ==
  ASSUME IInv, HeldOK, NEW e \in Ends, NEW i \in DOMAIN tbl[e],
         at[e].phase = "after", at[e].slot = i, tbl[e][i].type \in ListenerTypes,
         tbl' = tbl \/ Adds(e), NEW pos
  PROVE  Held(pos, tbl'[e], rset[e], wset[e])
<1> DEFINE t == tbl[e]
           u == tbl'[e]
           R == rset[e]
           W == wset[e]
           g == Grown(e)
           s == NewSlot(e)
<1>1. /\ \A j \in InUse(t) : Asker(t[j], R, W)
      /\ R \cup W \subseteq Descriptors(t)
  BY DEF HeldOK, Held
<1>2. CASE tbl' = tbl
  BY <1>1, <1>2 DEF Held
<1>3. CASE Adds(e)
  <2>1. PICK ch : /\ ch.sock = NewSock(e) /\ ch.type \in LiveTypes
                  /\ tbl' = [tbl EXCEPT ![e] = [g EXCEPT ![s] = ch]]
    BY <1>3 DEF Adds
  <2>2. /\ DOMAIN tbl = Ends
        /\ DOMAIN g = 0 .. NewAlloc(e) - 1
        /\ InUse(g) = InUse(t) /\ \A j \in InUse(t) : g[j] = t[j]
        /\ s \in DOMAIN g /\ g[s].type = "FREE"
    BY Shapes, SlotFound DEF IInv, TableInv
  <2>3. DOMAIN u = DOMAIN g /\ u[s] = ch /\ \A j \in DOMAIN g : j # s => u[j] = g[j]
    BY <2>1, <2>2
  <2>4. ch.sock \notin Descriptors(t)
    BY <2>1, FreshSock DEF IInv, Descriptors
  <2> HIDE DEF t, u, R, W, g, s
  <2>5. s \notin InUse(t)
    BY <2>2 DEF InUse
  <2>6. ASSUME NEW j \in InUse(u) PROVE Asker(u[j], R, W)
    <3>1. CASE j = s
      BY <1>1, <2>3, <2>4, <3>1 DEF Asker
    <3>2. CASE j # s
      <4>1. j \in InUse(g) /\ u[j] = g[j]
        BY <2>3, <2>6, <3>2 DEF InUse
      <4>2. QED
        BY <1>1, <2>2, <4>1
    <3>3. QED
      BY <3>1, <3>2
  <2>7. ASSUME NEW x \in Descriptors(t) PROVE x \in Descriptors(u)
    <3>1. PICK j \in InUse(t) : t[j].sock = x
      BY <2>7 DEF Descriptors
    <3>2. j \in DOMAIN g /\ g[j].type # "FREE" /\ g[j].sock = x /\ j # s
      BY <2>2, <2>5, <3>1 DEF InUse
    <3>3. j \in InUse(u) /\ u[j].sock = x
      BY <2>3, <3>2 DEF InUse
    <3>4. QED
      BY <3>3 DEF Descriptors
  <2>8. QED
    BY <1>1, <2>6, <2>7 DEF Held, u, R, W
<1>4. QED
  BY <1>2, <1>3

\* channel_prepare_select
LEMMA PrepareSelectHeld ==
  ASSUME IInv, SetsOK, HeldOK, NEW e \in Ends, NEW i \in DOMAIN tbl[e],
         \/ PrepareListener(e, i) \/ PrepareOpen(e, i)
         \/ PrepareX11Incomplete(e, i) \/ PrepareX11Good(e, i)
         \/ PrepareX11Bad(e, i)
  PROVE  HeldOK'
<1> DEFINE c == tbl[e][i]
<1>1. /\ at[e].phase = "prepare" /\ at[e].slot = i /\ c.type # "FREE"
  BY DEF PrepareListener, PrepareOpen, PrepareX11Incomplete, PrepareX11Good,
         PrepareX11Bad, AtSlot, ListenerTypes
<1>2. /\ i \in InUse(tbl[e]) /\ c \in Channel
      /\ Run(c) \in Runs /\ Sound(Run(c)) /\ Tight(Run(c)) /\ Run(c).c = c
      /\ Orderly(c)
  BY <1>1, EntryInUse DEF IInv
<1>3. c.type \in {"OPEN", "X11_OPEN"} => c.sock \notin rset[e] \cup wset[e]
  <2>1. Sets(at[e], tbl[e], rset[e], wset[e]) /\ i \in Nat
    BY Shapes DEF SetsOK
  <2>2. i >= at[e].slot
    BY <1>1, <2>1
  <2>3. QED
    BY <1>1, <2>1, <2>2 DEF Sets
<1>4. [tbl EXCEPT ![e][i] = c] = tbl
  BY Shapes DEF IInv, TablesOK
<1>5. Asker(c, rset[e], wset[e])
  BY <1>2 DEF HeldOK, Held
<1>6. DOMAIN tbl = Ends
  BY Shapes
<1>7. CASE PrepareListener(e, i) \/ PrepareX11Incomplete(e, i)
  <2>1. tbl' = tbl
    BY <1>7 DEF PrepareListener, PrepareX11Incomplete
  <2>2. PICK rs \in {rset[e], rset[e] \cup {c.sock}} :
          /\ Move(e, PrepareFrom(i + 1, tbl'[e]), rs, wset[e])
          /\ rs = rset[e] \/ c.type \in ListenerTypes
    BY <1>7, <2>1 DEF PrepareListener, PrepareX11Incomplete
  <2>3. Asker(c, rs, wset[e])
    BY <1>5, <2>2 DEF Asker
  <2>4. tbl' = [tbl EXCEPT ![e][i] = c] /\ rs \in {rset[e], rset[e] \cup {tbl[e][i].sock}}
    BY <1>4, <2>1
  <2>5. IF c.type = "FREE" THEN tbl[e][i].sock \notin rs \cup wset[e]
        ELSE c.sock = tbl[e][i].sock /\ Asker(c, rs, wset[e])
    BY <1>1, <2>3
  <2>8. Prepared(e, i, c, rs, wset[e])
    BY <2>4, <2>5 DEF Prepared
  <2> HIDE DEF c
  <2>6. \A pos : Held(pos, tbl'[e], rs, wset[e])
    BY <1>1, <1>2, <2>8, FirstPassHeld
  <2>7. QED
    BY <2>1, <2>2, <2>6, MovedHeld
<1>8. CASE PrepareOpen(e, i)
  <2> DEFINE reads    == Len(c.input) < HighWater /\ "INPUT_CLOSED" \notin c.flags
             writable == "OUTPUT_CLOSED" \notin c.flags
             writes   == writable /\ c.output # << >>
             drained  == writable /\ c.output = << >> /\ "EOF_RECEIVED" \in c.flags
             r        == IF drained THEN CloseOutput(Run(c)) ELSE Run(c)
             rs       == IF reads  THEN rset[e] \cup {c.sock} ELSE rset[e]
             ws       == IF writes THEN wset[e] \cup {c.sock} ELSE wset[e]
  <2>1. /\ c.type = "OPEN" /\ tbl' = [tbl EXCEPT ![e][i] = r.c]
        /\ Move(e, PrepareFrom(i + 1, tbl'[e]), rs, ws)
    BY <1>8 DEF PrepareOpen, Store
  <2>2. r.c.sock = c.sock /\ r.c.type \in {"OPEN", "FREE"} /\ Sound(r)
    BY <1>2, <2>1, CloseOutputSound DEF Step
  <2>3. "INPUT_CLOSED" \notin c.flags => "INPUT_CLOSED" \notin r.c.flags
    BY <1>2, <2>1, CloseOutputReads
  <2>4. c.output # << >> => r.c = c
    BY <1>2
  <2>5. c.sock \in rs => "INPUT_CLOSED" \notin c.flags
    BY <1>3, <2>1
  <2>6. c.sock \in ws => c.output # << >>
    BY <1>3, <2>1
  <2>7. r.c.type = "FREE" => "INPUT_CLOSED" \in r.c.flags
    BY <2>2 DEF Sound, Flags
  <2>8. rs \in {rset[e], rset[e] \cup {c.sock}} /\ ws \in {wset[e], wset[e] \cup {c.sock}}
    OBVIOUS
  <2> HIDE DEF rs, ws, r
  <2>9. IF r.c.type = "FREE" THEN c.sock \notin rs \cup ws
        ELSE r.c.sock = c.sock /\ Asker(r.c, rs, ws)
    <3>1. r.c.type = "FREE" => c.sock \notin rs
      BY <2>3, <2>5, <2>7
    <3>2. r.c.type = "FREE" => c.sock \notin ws
      BY <2>1, <2>4, <2>6
    <3>3. QED
      BY <2>2, <3>1, <3>2 DEF Asker
  <2>10. \A pos : Held(pos, tbl'[e], rs, ws)
    <3>1. Prepared(e, i, r.c, rs, ws)
      BY <2>1, <2>8, <2>9 DEF Prepared
    <3>2. QED
      BY <1>1, <1>2, <3>1, FirstPassHeld
  <2>11. \A x \in Ends \ {e} : tbl'[x] = tbl[x]
    BY <1>6, <2>1
  <2>12. QED
    BY <2>1, <2>10, <2>11, MovedHeld
<1>9. CASE PrepareX11Good(e, i)
  <2> DEFINE new == [c EXCEPT !.type = "OPEN"]
  <2>1. /\ c.type = "X11_OPEN" /\ tbl' = [tbl EXCEPT ![e][i] = new]
        /\ UNCHANGED <<at, rset, wset>>
    BY <1>9 DEF PrepareX11Good
  <2>2. new.sock = c.sock /\ new.type = "OPEN"
    BY <1>2 DEF Channel
  <2> HIDE DEF new
  <2>3. IF new.type = "FREE" THEN c.sock \notin rset[e] \cup wset[e]
        ELSE new.sock = c.sock /\ Asker(new, rset[e], wset[e])
    BY <2>2 DEF Asker
  <2>7. Prepared(e, i, new, rset[e], wset[e])
    BY <2>1, <2>3 DEF Prepared
  <2>4. Held(at'[e], tbl'[e], rset[e], wset[e])
    BY <1>1, <1>2, <2>7, FirstPassHeld
  <2>5. \A x \in Ends \ {e} : tbl'[x] = tbl[x]
    BY <1>6, <2>1
  <2>6. QED
    BY <2>1, <2>4, <2>5, OneEndHeld
<1>10. CASE PrepareX11Bad(e, i)
  <2> DEFINE r == RejectX11(Run(c))
  <2>1. /\ c.type = "X11_OPEN" /\ tbl' = [tbl EXCEPT ![e][i] = r.c]
        /\ Move(e, PrepareFrom(i + 1, tbl'[e]), rset[e], wset[e])
    BY <1>10 DEF PrepareX11Bad, Store
  <2>2. r.c.sock = c.sock
    BY <1>1, <1>2, RejectX11Sound
  <2> HIDE DEF r
  <2>3. IF r.c.type = "FREE" THEN c.sock \notin rset[e] \cup wset[e]
        ELSE r.c.sock = c.sock /\ Asker(r.c, rset[e], wset[e])
    BY <1>3, <2>1, <2>2 DEF Asker
  <2>7. Prepared(e, i, r.c, rset[e], wset[e])
    BY <2>1, <2>3 DEF Prepared
  <2>4. \A pos : Held(pos, tbl'[e], rset[e], wset[e])
    BY <1>1, <1>2, <2>7, FirstPassHeld
  <2>5. \A x \in Ends \ {e} : tbl'[x] = tbl[x]
    BY <1>6, <2>1
  <2>6. QED
    BY <2>1, <2>4, <2>5, MovedHeld
<1>11. QED
  BY <1>7, <1>8, <1>9, <1>10

\* What reading and writing leave of an open entry.
LEMMA SecondPassStores ==
  ASSUME IInv, NEW e \in Ends, NEW i \in DOMAIN tbl[e],
         ReadEof(e, i) \/ ReadAndWrite(e, i) \/ WriteError(e, i)
  PROVE  \E new : /\ tbl' = [tbl EXCEPT ![e][i] = new]
                  /\ \/ new.type = "FREE"
                     \/ new.type = "OPEN" /\ new.sock = tbl[e][i].sock
<1> DEFINE c == tbl[e][i]
<1>1. c.type = "OPEN"
  BY DEF ReadEof, ReadAndWrite, WriteError, CanRead, CanWrite
<1>2. /\ i \in InUse(tbl[e]) /\ c \in Channel /\ Orderly(c)
      /\ Run(c) \in Runs /\ Sound(Run(c)) /\ Run(c).c = c
  BY <1>1, EntryInUse DEF IInv
<1>3. CASE ReadEof(e, i)
  <2> DEFINE r == CloseInput(Run(c))
  <2>1. tbl' = [tbl EXCEPT ![e][i] = r.c]
    BY <1>3 DEF ReadEof, Store
  <2>2. r.c.type \in {"OPEN", "FREE"} /\ r.c.sock = c.sock
    BY <1>1, <1>2, CloseInputSound DEF Step
  <2> HIDE DEF r
  <2>3. QED
    BY <2>1, <2>2
<1>4. CASE ReadAndWrite(e, i)
  <2>1. PICK x \in Transfers(e, i) :
          tbl' = [tbl EXCEPT
            ![e][i].input  = IF x[1] = 1
                             THEN Append(@, hist[tbl[e][i].inst][e].read + 1) ELSE @,
            ![e][i].output = SubSeq(@, x[2] + 1, Len(@))]
    BY <1>4 DEF ReadAndWrite
  <2> DEFINE in  == IF x[1] = 1 THEN Append(c.input, hist[c.inst][e].read + 1)
                    ELSE c.input
             out == SubSeq(c.output, x[2] + 1, Len(c.output))
             new == [c EXCEPT !.input = in, !.output = out]
  <2>2. tbl' = [tbl EXCEPT ![e][i] = new]
    BY <2>1
  <2> HIDE DEF in, out
  <2>3. new.type = c.type /\ new.sock = c.sock
    BY <1>2 DEF Channel
  <2> HIDE DEF new
  <2>4. QED
    BY <1>1, <2>2, <2>3
<1>5. CASE WriteError(e, i)
  <2>1. PICK n \in IF CanRead(e, i) /\ hist[c.inst][e].read < Writes[e]
                   THEN {0, 1} ELSE {0} :
          tbl' = [tbl EXCEPT ![e][i] =
                    CloseOutput(Run([c EXCEPT
                      !.input = IF n = 1 THEN Append(@, hist[c.inst][e].read + 1)
                                ELSE @])).c]
    BY <1>5 DEF WriteError
  <2> DEFINE in == TakenIn(c.input, hist[c.inst][e].read, n)
             d  == [c EXCEPT !.input = in]
             r  == CloseOutput(Run(d))
  <2>2. tbl' = [tbl EXCEPT ![e][i] = r.c]
    BY <2>1, ZenonT(40) DEF TakenIn
  <2>3. n \in {0, 1} /\ (n = 1 => CanRead(e, i))
    <3>1. CASE CanRead(e, i)
      BY <3>1
    <3>2. CASE ~CanRead(e, i)
      BY <3>2
    <3>3. QED
      BY <3>1, <3>2
  <2>4. in \in Seq(Items)
    BY <1>2, <2>3, TransferOK DEF IInv, TakenIn
  <2> HIDE DEF in
  <2>5. /\ d \in Channel /\ d.type = c.type /\ d.sock = c.sock /\ d.flags = c.flags
    BY <1>2, <2>4 DEF Channel
  <2> HIDE DEF d
  <2>6. Run(d) \in Runs /\ Sound(Run(d)) /\ Run(d).c = d
    BY <1>1, <1>2, <2>5, RunSound DEF Orderly
  <2>7. r.c.type \in {"OPEN", "FREE"} /\ r.c.sock = c.sock
    BY <1>1, <2>5, <2>6, CloseOutputSound DEF Step
  <2> HIDE DEF r
  <2>8. QED
    BY <2>2, <2>7
<1>6. QED
  BY <1>3, <1>4, <1>5

\* channel_after_select
LEMMA AfterSelectHeld ==
  ASSUME IInv, HeldOK, ListenersFirst, NEW e \in Ends, NEW i \in DOMAIN tbl[e],
         \/ AcceptConnection(e, i) \/ NoConnection(e, i)
         \/ ReadEof(e, i) \/ ReadAndWrite(e, i) \/ WriteError(e, i)
  PROVE  HeldOK'
<1> DEFINE pos == AfterFrom(i + 1, tbl'[e])
<1>1. /\ at[e].phase = "after" /\ at[e].slot = i
      /\ Move(e, pos, rset[e], wset[e])
  BY DEF AcceptConnection, NoConnection, ReadEof, ReadAndWrite, WriteError,
         CanRead, CanWrite, AtSlot
<1>2. DOMAIN tbl = Ends
  BY Shapes
<1>3. CASE AcceptConnection(e, i) \/ NoConnection(e, i)
  <2>1. tbl[e][i].type \in ListenerTypes /\ (tbl' = tbl \/ Adds(e))
    BY <1>3, AcceptingAdds DEF AcceptConnection, NoConnection
  <2>2. \A x \in Ends \ {e} : tbl'[x] = tbl[x]
    BY <1>2, <2>1 DEF Adds
  <2> HIDE DEF pos
  <2>3. Held(pos, tbl'[e], rset[e], wset[e])
    BY <1>1, <2>1, AcceptingHeld
  <2>4. QED
    BY <1>1, <2>2, <2>3, MovedHeld
<1>4. CASE ReadEof(e, i) \/ ReadAndWrite(e, i) \/ WriteError(e, i)
  <2>1. tbl[e][i].type = "OPEN"
    BY <1>4 DEF ReadEof, ReadAndWrite, WriteError, CanRead, CanWrite
  <2>2. PICK new : /\ tbl' = [tbl EXCEPT ![e][i] = new]
                   /\ \/ new.type = "FREE"
                      \/ new.type = "OPEN" /\ new.sock = tbl[e][i].sock
    BY <1>4, SecondPassStores
  <2>3. \A x \in Ends \ {e} : tbl'[x] = tbl[x]
    BY <1>2, <2>2
  <2>4. pos # Packets => Held(pos, tbl'[e], rset[e], wset[e])
    BY <2>1, <2>2, SecondPassHeld
  <2> HIDE DEF pos
  <2>5. QED
    BY <1>1, <2>3, <2>4, MovedHeld
<1>5. QED
  BY <1>3, <1>4

\* What the sets hold is current after every step.
LEMMA NextHeld ==
  ASSUME IInv, SetsOK, HeldOK, ListenersFirst, [Next]_vars
  PROVE  HeldOK'
<1>1. CASE UNCHANGED vars
  BY <1>1 DEF vars, HeldOK
<1>2. CASE Next
  <2>1. PICK e \in Ends :
          \/ InputPacket(e) \/ PacketsDone(e)
          \/ OutputPoll(e) \/ PrepareSelect(e) \/ AfterSelect(e)
          \/ StopListening(e)
    BY <1>2 DEF Next
  <2>2. CASE PrepareSelect(e)
    BY <2>2, PrepareSelectHeld DEF PrepareSelect
  <2>3. CASE AfterSelect(e)
    BY <2>3, AfterSelectHeld DEF AfterSelect
  <2>4. CASE InputPacket(e) \/ PacketsDone(e) \/ OutputPoll(e) \/ StopListening(e)
    <3>1. /\ rset[e] = {} /\ wset[e] = {}
          /\ UNCHANGED <<rset, wset>>
          /\ \A x \in Ends \ {e} : at'[x] = at[x] /\ tbl'[x] = tbl[x]
      BY <2>4, OutsidePasses DEF SetsOK, Sets
    <3>2. Held(at'[e], tbl'[e], rset'[e], wset'[e])
      BY <3>1, EmptyHeld
    <3>3. QED
      BY <3>1, <3>2, OneEndHeld
  <2>5. QED
    BY <2>1, <2>2, <2>3, <2>4
<1>3. QED
  BY <1>1, <1>2

-----------------------------------------------------------------------------
(* The theorems.                                                           *)

\* The inductive invariant: the bookkeeping of the tables, the protocol, the
\* account of the items, the select sets and the place of the listeners.
TunnelInv ==
  /\ IInv /\ Agreement /\ Streams /\ Ahead
  /\ SetsOK /\ ListenersFirst /\ HeldOK

\* The invariant across the two ends holds in every state.
LEMMA TunnelInvariance == Spec => []TunnelInv
<1>1. Init => TunnelInv
  <2>1. Init => SetsOK /\ HeldOK
    BY EmptySets, EmptyHeld DEF Init, SetsOK, HeldOK
  <2>2. Init => Ahead
    BY OtherEnd DEF Init, Ahead
  <2>3. QED
    BY <2>1, <2>2, InitOK, InitAgrees, InitFronted DEF TunnelInv
<1>2. TunnelInv /\ [Next]_vars => TunnelInv'
  <2>1. ASSUME TunnelInv, [Next]_vars PROVE TunnelInv'
    <3>1. /\ IInv /\ Agreement /\ Streams /\ Ahead /\ IInv' /\ SetsOK
          /\ ListenersFirst /\ HeldOK /\ SelectSetsCurrent
      BY <2>1, SetsCurrent, NextOK DEF TunnelInv
    <3>2. Agreement' /\ Streams' /\ SetsOK' /\ ListenersFirst' /\ HeldOK'
      BY <2>1, <3>1, NextAgrees, NextSets, NextFronted, NextHeld
    <3>3. Ahead'
      BY <2>1, <3>1, <3>2, NextAhead
    <3>4. QED
      BY <3>1, <3>2, <3>3 DEF TunnelInv
  <2>2. QED
    BY <2>1
<1>3. QED
  BY <1>1, <1>2, PTL DEF Spec

\* No packet makes its receiver disconnect, and no assertion fails: the checks
\* of the handlers in newchannels.c never find a peer running the same code at
\* fault, for any tables, listeners and amounts of data.
THEOREM NoProcessFaults == Spec => []NoFault
<1>1. TunnelInv => NoFault
  BY DEF TunnelInv, Agreement, NoFault
<1>2. QED
  BY <1>1, TunnelInvariance, PTL

\* Whatever slots are reused, a packet on its way finds the entry of the
\* connection it was sent for, and a reply finds it still opening.
THEOREM PacketsAreRouted == Spec => []PacketsFindTheirChannel
<1>1. ASSUME TunnelInv PROVE PacketsFindTheirChannel
  <2>1. SUFFICES ASSUME NEW e \in Ends, NEW k \in 1 .. Len(net[e]),
                        net[e][k].kind \notin OpenKinds
                 PROVE  LET m == net[e][k]
                        IN  /\ m.chan \in DOMAIN tbl[e]
                            /\ tbl[e][m.chan].inst = m.inst
                            /\ tbl[e][m.chan].type \in
                                 (IF m.kind \in {"OPEN_CONFIRMATION", "OPEN_FAILURE"}
                                  THEN {"OPENING"} ELSE LiveTypes)
    BY DEF PacketsFindTheirChannel
  <2> DEFINE A == Entries(tbl[e])
             m == net[e][k]
  <2>2. k \in DOMAIN net[e]
    BY <1>1, Shapes, LenProperties DEF TunnelInv
  <2>3. Half(A, Entries(tbl[Peer(e)]), net[e], net[Peer(e)], opened)
    BY <1>1, TwoHalves DEF TunnelInv
  <2> HIDE DEF A
  <2>4. /\ m.chan \in DOMAIN A /\ A[m.chan].inst = m.inst
        /\ m.kind \in ReplyKinds => A[m.chan].type = "OPENING"
    BY <2>1, <2>2, <2>3 DEF Half, RoutesOK, RepliesOK
  <2>5. m.chan \in DOMAIN tbl[e] /\ A[m.chan] = tbl[e][m.chan]
        /\ tbl[e][m.chan].type \in LiveTypes
    BY <2>4, EntriesOf DEF A
  <2>6. QED
    BY <2>4, <2>5 DEF ReplyKinds
<1>2. QED
  BY <1>1, TunnelInvariance, PTL

\* A descriptor found in readset or writeset belongs to a listener or to an
\* open channel that asked for it and has not been closed since; and no
\* connection accepted in a pass gets a number the sets still hold, though the
\* entries freed in the pass leave theirs behind.
THEOREM SelectSetsStayCurrent == Spec => []SelectSetsCurrent
<1>1. TunnelInv => SelectSetsCurrent
  BY SetsCurrent DEF TunnelInv
<1>2. QED
  BY <1>1, TunnelInvariance, PTL

\* A socket that is shut because its channel was drained has been given every
\* item that the program at the other end wrote: channel_prepare_select closes
\* the output only when nothing is buffered after the eof has come.
THEOREM EofIsTheWholeStory == Spec => []EofMeansEverything
<1>1. ASSUME TunnelInv PROVE EofMeansEverything
  <2>1. SUFFICES ASSUME NEW e \in Ends, NEW c \in 1 .. opened,
                        hist[c][e].shut = "drained"
                 PROVE  hist[c][e].wrote = hist[c][Peer(e)].read
    BY DEF EofMeansEverything
  <2>2. c \in Instances
    BY <1>1, BoundsAssumption DEF TunnelInv, IInv, HistoryOK, Instances
  <2>3. QED
    BY <1>1, <2>1, <2>2, TwoStreams DEF TunnelInv, Flow
<1>2. QED
  BY <1>1, TunnelInvariance, PTL

\* The slots that serve a connection, as the protocol sees them.
LEMMA SlotsServed ==
  ASSUME NEW e \in Ends, NEW c
  PROVE  /\ \A i : i \in SlotsOf(e, c) <=>
                     i \in DOMAIN Entries(tbl[e]) /\ Entries(tbl[e])[i].inst = c
         /\ Serves(e, c) =>
              \E i \in SlotsOf(e, c) : /\ ChannelOf(e, c) = tbl[e][i]
                                       /\ ChannelOf(e, c) = Entries(tbl[e])[i]
<1>1. \A i : i \in SlotsOf(e, c) <=>
               i \in DOMAIN Entries(tbl[e]) /\ Entries(tbl[e])[i].inst = c
  BY EntriesOf DEF SlotsOf
<1>2. ASSUME Serves(e, c)
      PROVE  \E i \in SlotsOf(e, c) : /\ ChannelOf(e, c) = tbl[e][i]
                                      /\ ChannelOf(e, c) = Entries(tbl[e])[i]
  <2> DEFINE i == CHOOSE j \in SlotsOf(e, c) : TRUE
  <2>1. i \in SlotsOf(e, c) /\ ChannelOf(e, c) = tbl[e][i]
    BY <1>2 DEF Serves, ChannelOf
  <2>2. Entries(tbl[e])[i] = tbl[e][i]
    BY <1>1, <2>1, EntriesOf
  <2>3. QED
    BY <2>1, <2>2
<1>3. QED
  BY <1>1, <1>2

\* FlattenSeq is what solves its recursion, if only one function does.
LEMMA Flattened ==
  ASSUME NEW s, Len(s) # 0, NEW g,
         g = [i \in 1 .. Len(s) |-> IF i = 1 THEN s[i] ELSE g[i - 1] \o s[i]],
         \A f : f = [i \in 1 .. Len(s) |-> IF i = 1 THEN s[i] ELSE f[i - 1] \o s[i]]
                  => f = g
  PROVE  FlattenSeq(s) = g[Len(s)]
<1> DEFINE F == CHOOSE f : f = [i \in 1 .. Len(s) |->
                                  IF i = 1 THEN s[i] ELSE f[i - 1] \o s[i]]
<1>1. FlattenSeq(s) = F[Len(s)]
  BY DEF FlattenSeq
<1>2. F = [i \in 1 .. Len(s) |-> IF i = 1 THEN s[i] ELSE F[i - 1] \o s[i]]
  BY Zenon
<1>3. QED
  BY <1>1, <1>2

\* Stretches one after the other, flattened, are one stretch.
LEMMA SpansFlattened ==
  ASSUME NEW n \in Nat, NEW b \in [Nat -> Nat], Rising(b),
         NEW s \in Seq(Seq(Items)), Len(s) = n,
         \A k \in 1 .. n : s[k] = Span(b[k - 1], b[k])
  PROVE  FlattenSeq(s) = Span(b[0], b[n])
<1>1. CASE n = 0
  <2>1. s = << >>
    BY <1>1, EmptySeq
  <2>2. FlattenSeq(s) = s
    BY <1>1 DEF FlattenSeq
  <2>3. Span(b[0], b[n]) = << >>
    BY <1>1, SpanEmpty
  <2>4. QED
    BY <2>1, <2>2, <2>3
<1>2. CASE n # 0
  <2> DEFINE g == [i \in 1 .. n |-> Span(b[0], b[i])]
  <2>1. ASSUME NEW i \in 1 .. n, i # 1
        PROVE  /\ i - 1 \in 1 .. n
               /\ Span(b[0], b[i - 1]) \o s[i] = Span(b[0], b[i])
    <3>1. i - 1 \in 1 .. n /\ i \in Nat /\ i - 1 \in Nat /\ 0 =< i - 1 /\ i - 1 =< i
      BY <2>1
    <3>2. b[0] \in Nat /\ b[i - 1] \in Nat /\ b[i] \in Nat
          /\ b[0] =< b[i - 1] /\ b[i - 1] =< b[i]
      BY <3>1 DEF Rising
    <3> DEFINE u == b[0]
               v == b[i - 1]
               w == b[i]
    <3>3. s[i] = Span(v, w) /\ u \in Nat /\ v \in Nat /\ w \in Nat /\ u =< v /\ v =< w
      BY <3>2
    <3> HIDE DEF u, v, w
    <3>4. Span(u, v) \o Span(v, w) = Span(u, w)
      BY <3>3, SpanJoin
    <3>5. QED
      BY <3>1, <3>3, <3>4 DEF u, v, w
  <2>2. ASSUME n >= 1 PROVE s[1] = Span(b[0], b[1])
    BY <2>2
  <2>3. g = [i \in 1 .. n |-> IF i = 1 THEN s[i] ELSE g[i - 1] \o s[i]]
    <3>1. \A i \in 1 .. n : g[i] = IF i = 1 THEN s[i] ELSE g[i - 1] \o s[i]
      <4>1. TAKE i \in 1 .. n
      <4>2. CASE i = 1
        BY <2>2, <4>2
      <4>3. CASE i # 1
        <5>1. /\ i - 1 \in 1 .. n
              /\ Span(b[0], b[i - 1]) \o s[i] = Span(b[0], b[i])
          BY <2>1, <4>3
        <5>2. QED
          BY <4>3, <5>1
      <4>4. QED
        BY <4>2, <4>3
    <3>2. QED
      BY <3>1
  <2>4. ASSUME NEW f,
               f = [i \in 1 .. n |-> IF i = 1 THEN s[i] ELSE f[i - 1] \o s[i]]
        PROVE  f = g
    <3> DEFINE bad == {i \in 1 .. n : f[i] # g[i]}
    <3>1. CASE bad # {}
      <4>1. bad \in SUBSET Nat
        OBVIOUS
      <4> DEFINE m == Min(bad)
      <4>2. m \in bad /\ \A y \in bad : m =< y
        <5> HIDE DEF bad
        <5>1. QED
          BY <3>1, <4>1, MinOfNaturals
      <4> HIDE DEF m
      <4>3. m \in 1 .. n /\ f[m] # g[m]
        BY <4>2
      <4>4. f[m] = IF m = 1 THEN s[m] ELSE f[m - 1] \o s[m]
        BY <2>4, <4>3
      <4>5. CASE m = 1
        BY <2>2, <4>3, <4>4, <4>5
      <4>6. CASE m # 1
        <5>1. /\ m - 1 \in 1 .. n
              /\ Span(b[0], b[m - 1]) \o s[m] = Span(b[0], b[m])
          BY <2>1, <4>3, <4>6
        <5>2. m - 1 \notin bad
          BY <4>2, <4>3
        <5>3. f[m - 1] = g[m - 1]
          BY <5>1, <5>2
        <5>4. f[m] = g[m]
          BY <4>3, <4>4, <4>6, <5>1, <5>3
        <5>5. QED
          BY <4>3, <5>4
      <4>7. QED
        BY <4>5, <4>6
    <3>2. CASE bad = {}
      <4>1. \A i \in 1 .. n : f[i] = g[i]
        BY <3>2
      <4>2. f = [i \in 1 .. n |-> f[i]]
        BY <2>4
      <4>3. g = [i \in 1 .. n |-> g[i]]
        OBVIOUS
      <4> HIDE DEF g
      <4>4. QED
        BY <4>1, <4>2, <4>3
    <3>3. QED
      BY <3>1, <3>2
  <2>5. n \in 1 .. n
    BY <1>2
  <2>6. g[n] = Span(b[0], b[n])
    BY <2>5
  <2> HIDE DEF g
  <2>7. FlattenSeq(s) = g[n]
    BY <1>2, <2>3, <2>4, Flattened
  <2>8. QED
    BY <2>6, <2>7
<1>3. QED
  BY <1>1, <1>2

\* The data packets of a connection on their way, as Pending sees them.
DataOf(q, c) ==
  [k \in 1 .. Len(q) |-> IF IsDataOf(q[k], c) THEN q[k].data ELSE << >>]
LEMMA CarriedFlattened ==
  ASSUME NEW q \in Seq(Message), NEW c, NEW x, NEW y, Carried(q, c, x, y)
  PROVE  FlattenSeq(DataOf(q, c)) = Span(x, y)
<1> DEFINE s == DataOf(q, c)
<1>1. PICK n \in Nat, b \in [Nat -> Nat] : CutBy(q, c, n, b) /\ b[0] = x /\ b[n] = y
  BY DEF Carried
<1>2. DOMAIN q = 1 .. n /\ Rising(b)
  BY <1>1 DEF CutBy
<1>3. Len(q) = n
  BY <1>2, LenProperties
<1>4. \A k \in 1 .. n : s[k] = Span(b[k - 1], b[k]) /\ s[k] \in Seq(Items)
  <2>1. TAKE k \in 1 .. n
  <2>2. /\ k - 1 \in Nat /\ k \in Nat
        /\ b[k - 1] \in Nat /\ b[k] \in Nat /\ b[k - 1] =< b[k]
    BY <1>2 DEF Rising
  <2>3. Piece(q[k], c, b[k - 1], b[k])
    BY <1>1 DEF CutBy
  <2>4. s[k] = IF IsDataOf(q[k], c) THEN q[k].data ELSE << >>
    BY <1>3 DEF DataOf
  <2> HIDE DEF s
  <2>5. s[k] = Span(b[k - 1], b[k])
    <3>1. CASE IsDataOf(q[k], c)
      BY <2>3, <2>4, <3>1 DEF Piece
    <3>2. CASE ~IsDataOf(q[k], c)
      <4>1. b[k - 1] = b[k] /\ s[k] = << >>
        BY <2>3, <2>4, <3>2 DEF Piece
      <4>2. QED
        BY <2>2, <4>1, SpanEmpty
    <3>3. QED
      BY <3>1, <3>2
  <2>6. Span(b[k - 1], b[k]) \in Seq(Items)
    BY <2>2, SpanSeq
  <2>7. QED
    BY <2>5, <2>6
<1>5. s \in Seq(Seq(Items)) /\ Len(s) = n
  <2>1. s \in [1 .. n -> Seq(Items)]
    BY <1>3, <1>4 DEF DataOf
  <2> HIDE DEF s
  <2>2. s \in Seq(Seq(Items))
    BY <2>1, SeqDef
  <2>3. Len(s) \in Nat /\ 1 .. Len(s) = 1 .. n
    BY <2>1, <2>2, LenProperties
  <2>4. QED
    BY <2>2, <2>3
<1> HIDE DEF s
<1>6. FlattenSeq(s) = Span(b[0], b[n])
  BY <1>2, <1>4, <1>5, SpansFlattened
<1>7. QED
  BY <1>1, <1>6 DEF s

\* Nothing is lost, duplicated or reordered between the two programs: until an
\* end shuts its socket, the items buffered there, on their way and buffered
\* at the other end are those read and not yet written, in order, whatever the
\* sizes of the packets and of the writes.
THEOREM NothingIsLost == Spec => []StreamIntegrity
<1>1. ASSUME TunnelInv PROVE StreamIntegrity
  <2>1. SUFFICES ASSUME NEW e \in Ends, NEW c \in 1 .. opened,
                        Serves(e, c), "OUTPUT_CLOSED" \notin ChannelOf(e, c).flags
                 PROVE  Pending(e, c) = Span(hist[c][e].wrote, hist[c][Peer(e)].read)
    BY DEF StreamIntegrity, Span
  <2> DEFINE A == Entries(tbl[e])
             B == Entries(tbl[Peer(e)])
             q == net[e]
             w == hist[c][e].wrote
             r == hist[c][Peer(e)].read
  <2>2. c \in Instances
    BY <1>1, BoundsAssumption DEF TunnelInv, IInv, HistoryOK, Instances
  <2>3. Flow(A, B, q, c, hist[c][e], hist[c][Peer(e)])
    BY <1>1, <2>2, TwoStreams DEF TunnelInv
  <2>4. PICK i \in SlotsOf(e, c) : ChannelOf(e, c) = A[i]
    BY <2>1, SlotsServed
  <2>5. i \in DOMAIN A /\ A[i].inst = c
    BY <2>4, SlotsServed
  <2>6. hist[c][e].shut = "no"
    BY <2>1, <2>3, <2>4, <2>5 DEF Flow, ShutAs
  <2>7. Stream(A, B, q, c, w, r) /\ w \in Nat /\ r \in Nat
    BY <2>3, <2>6 DEF Flow
  <2> HIDE DEF A, B, w, r
  <2>8. PICK x \in Nat, y \in Nat : /\ w =< x /\ y =< r
                                    /\ Outputs(A, c, w, x)
                                    /\ Carried(q, c, x, y)
                                    /\ Inputs(B, c, y, r)
    BY <2>7 DEF Stream
  <2>9. x =< y
    BY <2>8, CarriedRange
  <2>10. ChannelOf(e, c).output = Span(w, x)
    BY <2>4, <2>5, <2>8 DEF Outputs
  <2>11. FlattenSeq([k \in 1 .. Len(net[e]) |->
           IF k \in OnTheWay(e, c, "DATA") THEN net[e][k].data ELSE << >>]) = Span(x, y)
    <3>1. q \in Seq(Message)
      BY <1>1, Shapes DEF TunnelInv
    <3>2. \A k \in 1 .. Len(net[e]) : k \in OnTheWay(e, c, "DATA") <=> IsDataOf(q[k], c)
      BY DEF OnTheWay, IsDataOf
    <3>3. [k \in 1 .. Len(net[e]) |->
             IF k \in OnTheWay(e, c, "DATA") THEN net[e][k].data ELSE << >>] = DataOf(q, c)
      BY <3>2 DEF DataOf
    <3> HIDE DEF q
    <3>4. FlattenSeq(DataOf(q, c)) = Span(x, y)
      BY <2>8, <3>1, CarriedFlattened
    <3>5. QED
      BY <3>3, <3>4
  <2>12. (IF Serves(Peer(e), c) THEN ChannelOf(Peer(e), c).input ELSE << >>) = Span(y, r)
    <3>1. Peer(e) \in Ends
      BY OtherEnd
    <3>2. CASE Serves(Peer(e), c)
      <4>1. PICK j \in SlotsOf(Peer(e), c) : ChannelOf(Peer(e), c) = B[j]
        BY <3>1, <3>2, SlotsServed DEF B
      <4>2. j \in DOMAIN B /\ B[j].inst = c
        BY <3>1, <4>1, SlotsServed DEF B
      <4>3. QED
        BY <2>8, <3>2, <4>1, <4>2 DEF Inputs
    <3>3. CASE ~Serves(Peer(e), c)
      <4>1. \A j \in DOMAIN B : B[j].inst # c
        BY <3>1, <3>3, SlotsServed DEF B, Serves
      <4>2. y = r
        BY <2>8, <4>1 DEF Inputs
      <4>3. Span(y, r) = << >>
        BY <2>7, <4>2, SpanEmpty
      <4>4. QED
        BY <3>3, <4>3
    <3>4. QED
      BY <3>2, <3>3
  <2>13. Pending(e, c) = Span(w, x) \o Span(x, y) \o Span(y, r)
    BY <2>10, <2>11, <2>12 DEF Pending
  <2>14. Span(w, x) \o Span(x, y) = Span(w, y)
    BY <2>7, <2>8, <2>9, SpanJoin
  <2>15. Span(w, y) \o Span(y, r) = Span(w, r)
    <3>1. w =< y /\ y =< r
      BY <2>7, <2>8, <2>9
    <3>2. QED
      BY <2>7, <3>1, SpanJoin
  <2>16. QED
    BY <2>13, <2>14, <2>15 DEF w, r
<1>2. QED
  BY <1>1, TunnelInvariance, PTL

\* One closing packet of an established entry i: it has come, it is on its
\* way, or it has not been sent, and a peer that has gone has sent it.
LEMMA OneClosingPacket ==
  ASSUME NEW A, NEW B, NEW P, NEW Q, NEW n,
         Half(A, B, P, Q, n), NEW i \in DOMAIN A, A[i].type # "OPENING",
         NEW kind, NEW received, NEW sent,
         <<kind, received, sent>> \in
           {<<"INPUT_EOF", "EOF_RECEIVED", "EOF_SENT">>,
            <<"OUTPUT_CLOSED", "CLOSE_RECEIVED", "CLOSE_SENT">>}
  PROVE  /\ \A k, l \in DOMAIN P :
              P[k].kind = kind /\ P[k].inst = A[i].inst
              /\ P[l].kind = kind /\ P[l].inst = A[i].inst => k = l
         /\ OnItsWay(P, A[i].inst, kind) =>
              /\ received \notin A[i].flags
              /\ \A j \in DOMAIN B : B[j].inst = A[i].inst => sent \in B[j].flags
         /\ (\A j \in DOMAIN B : B[j].inst = A[i].inst => sent \in B[j].flags) =>
              received \in A[i].flags \/ OnItsWay(P, A[i].inst, kind)
         /\ received \in A[i].flags =>
              \A j \in DOMAIN B : B[j].inst = A[i].inst => sent \in B[j].flags
<1>1. /\ ClosingOK(A, B, P, kind, sent, received)
      /\ AgreeOK(A, B, P, kind, sent, received)
      /\ kind \notin OpenKinds
  BY DEF Half, OpenKinds
<1>2. (\A j \in DOMAIN B : B[j].inst # A[i].inst) =>
        received \in A[i].flags \/ OnItsWay(P, A[i].inst, kind)
  BY DEF Half, GoneOK
<1>3. \A k \in DOMAIN P : P[k].kind = kind /\ P[k].inst = A[i].inst => P[k].chan = i
  BY <1>1 DEF Half, RoutesOK, EntriesOK
<1>4. QED
  BY <1>1, <1>2, <1>3 DEF ClosingOK, AgreeOK, OnItsWay

\* Between an end that serves a connection and its peer, the flags and the
\* packets on their way account for each closing packet exactly once.
THEOREM EndsAgreeOnClosing == Spec => []CloseAgreement
<1>1. ASSUME TunnelInv PROVE CloseAgreement
  <2>1. SUFFICES ASSUME NEW e \in Ends, NEW c \in 1 .. opened,
                        Serves(e, c), ChannelOf(e, c).type # "OPENING",
                        NEW x \in {<<"INPUT_EOF", "EOF_RECEIVED", "EOF_SENT">>,
                                   <<"OUTPUT_CLOSED", "CLOSE_RECEIVED", "CLOSE_SENT">>}
                 PROVE  LET got    == x[2] \in ChannelOf(e, c).flags
                            coming == Cardinality(OnTheWay(e, c, x[1]))
                            sent   == Serves(Peer(e), c) => x[3] \in ChannelOf(Peer(e), c).flags
                        IN  /\ coming = (IF sent /\ ~got THEN 1 ELSE 0)
                            /\ got => sent
    BY DEF CloseAgreement
  <2> DEFINE A    == Entries(tbl[e])
             B    == Entries(tbl[Peer(e)])
             P    == net[e]
             way  == OnTheWay(e, c, x[1])
             sent == \A j \in DOMAIN B : B[j].inst = c => x[3] \in B[j].flags
             got  == x[2] \in ChannelOf(e, c).flags
  <2>2. PICK i \in DOMAIN A : A[i].inst = c /\ ChannelOf(e, c) = A[i]
    BY <2>1, SlotsServed
  <2>3. /\ Half(A, B, P, net[Peer(e)], opened)
        /\ Half(B, A, net[Peer(e)], P, opened)
        /\ Peer(e) \in Ends
    BY <1>1, TwoHalves, OtherEnd DEF TunnelInv
  <2>4. (Serves(Peer(e), c) => x[3] \in ChannelOf(Peer(e), c).flags) <=> sent
    <3>1. \A j, k \in DOMAIN B : B[j].inst = c /\ B[k].inst = c => j = k
      BY <2>3 DEF Half, EntriesOK
    <3>2. Serves(Peer(e), c) <=> \E j \in DOMAIN B : B[j].inst = c
      BY <2>3, SlotsServed DEF Serves
    <3>3. Serves(Peer(e), c) => \E j \in DOMAIN B : /\ B[j].inst = c
                                                    /\ ChannelOf(Peer(e), c) = B[j]
      BY <2>3, SlotsServed
    <3> HIDE DEF B
    <3>4. QED
      BY <3>1, <3>2, <3>3
  <2>5. way = {k \in DOMAIN P : P[k].kind = x[1] /\ P[k].inst = c}
    <3>1. DOMAIN net[e] = 1 .. Len(net[e])
      BY <1>1, Shapes, LenProperties DEF TunnelInv
    <3>2. QED
      BY <3>1 DEF OnTheWay
  <2>6. <<x[1], x[2], x[3]>> \in
           {<<"INPUT_EOF", "EOF_RECEIVED", "EOF_SENT">>,
            <<"OUTPUT_CLOSED", "CLOSE_RECEIVED", "CLOSE_SENT">>}
    OBVIOUS
  <2> DEFINE kind == x[1]
             received == x[2]
             flag == x[3]
  <2>7. /\ \A k, l \in DOMAIN P :
             P[k].kind = kind /\ P[k].inst = A[i].inst
             /\ P[l].kind = kind /\ P[l].inst = A[i].inst => k = l
        /\ OnItsWay(P, A[i].inst, kind) =>
             /\ received \notin A[i].flags
             /\ \A j \in DOMAIN B : B[j].inst = A[i].inst => flag \in B[j].flags
        /\ (\A j \in DOMAIN B : B[j].inst = A[i].inst => flag \in B[j].flags) =>
             received \in A[i].flags \/ OnItsWay(P, A[i].inst, kind)
        /\ received \in A[i].flags =>
             \A j \in DOMAIN B : B[j].inst = A[i].inst => flag \in B[j].flags
    <3>1. A[i].type # "OPENING" /\ <<kind, received, flag>> \in
           {<<"INPUT_EOF", "EOF_RECEIVED", "EOF_SENT">>,
            <<"OUTPUT_CLOSED", "CLOSE_RECEIVED", "CLOSE_SENT">>}
      BY <2>1, <2>2, <2>6
    <3> HIDE DEF A, B, P, kind, received, flag
    <3>2. QED
      BY <2>3, <3>1, OneClosingPacket
  <2>8. OnItsWay(P, c, kind) <=> way # {}
    BY <2>5 DEF OnItsWay
  <2> HIDE DEF A, B, P, way
  <2>9. /\ way # {} <=> sent /\ ~got
        /\ got => sent
    BY <2>2, <2>7, <2>8
  <2>10. CASE way = {}
    <3>1. Cardinality(way) = 0
      BY <2>10, FS_EmptySet
    <3>2. QED
      BY <2>4, <2>9, <2>10, <3>1 DEF way
  <2>11. CASE way # {}
    <3>1. PICK k : k \in way
      BY <2>11
    <3>2. way = {k}
      BY <2>2, <2>5, <2>7, <3>1
    <3>3. Cardinality(way) = 1
      BY <3>2, FS_Singleton
    <3>4. QED
      BY <2>4, <2>9, <2>11, <3>3 DEF way
  <2>12. QED
    BY <2>10, <2>11
<1>2. QED
  BY <1>1, TunnelInvariance, PTL

-----------------------------------------------------------------------------
(* What Forwarding sees of a connection, from the entries of the two ends. *)

Holds(E, c)   == \E i \in DOMAIN E : E[i].inst = c
Opening(E, c) == \E i \in DOMAIN E : E[i].inst = c /\ E[i].type = "OPENING"
Quiet(E, c, h) == Stopped(E, c) /\ (Holds(E, c) \/ h.shut # "no")
SideSeen(E, c, h) ==
  [read |-> h.read, wrote |-> h.wrote, shut |-> h.shut, stopped |-> Quiet(E, c, h)]
Awaits(A, B, c) == Opening(A, c) /\ ~Holds(B, c)
PhaseSeen(A, B, c, n) ==
  IF c > n THEN "unused"
  ELSE IF ~Holds(A, c) /\ ~Holds(B, c) THEN "over"
  ELSE IF Awaits(A, B, c) \/ Awaits(B, A, c) THEN "asked" ELSE "carried"

\* The slots of a table that serve a connection.
SlotsIn(t, c) == {i \in DOMAIN t : t[i].type \in LiveTypes /\ t[i].inst = c}
ChannelIn(t, c) == t[CHOOSE i \in SlotsIn(t, c) : TRUE]

LEMMA TableSeen ==
  ASSUME NEW t, NEW c, NEW n, EntriesOK(Entries(t), n)
  PROVE  /\ SlotsIn(t, c) # {} <=> Holds(Entries(t), c)
         /\ SlotsIn(t, c) # {} =>
              /\ "INPUT_CLOSED" \in ChannelIn(t, c).flags <=> Stopped(Entries(t), c)
              /\ ChannelIn(t, c).type = "OPENING" <=> Opening(Entries(t), c)
<1> DEFINE E == Entries(t)
           S == SlotsIn(t, c)
           i == CHOOSE j \in S : TRUE
<1>1. \A j : j \in S <=> j \in DOMAIN E /\ E[j].inst = c
  BY EntriesOf DEF SlotsIn
<1>2. S # {} => i \in S /\ ChannelIn(t, c) = t[i] /\ E[i] = t[i]
  BY <1>1, EntriesOf DEF ChannelIn
<1>3. \A j, k \in DOMAIN E : E[j].inst = c /\ E[k].inst = c => j = k
  BY DEF EntriesOK
<1> HIDE DEF E, i
<1>4. S # {} <=> Holds(E, c)
  BY <1>1 DEF Holds
<1>5. S # {} => \A j \in DOMAIN E : E[j].inst = c => j = i
  BY <1>1, <1>2, <1>3
<1>6. S # {} => /\ "INPUT_CLOSED" \in ChannelIn(t, c).flags <=> Stopped(E, c)
                /\ ChannelIn(t, c).type = "OPENING" <=> Opening(E, c)
  BY <1>1, <1>2, <1>5 DEF Stopped, Opening
<1>7. QED
  BY <1>4, <1>6 DEF E

\* The mapping of ChannelProperties sees the same.
SeenOn(e, c) ==
  /\ PhaseOf(c) = PhaseSeen(Entries(tbl[e]), Entries(tbl[Peer(e)]), c, opened)
  /\ SideOf(c, e) = SideSeen(Entries(tbl[e]), c, hist[c][e])
Seen == Agreement => \A e \in Ends, c \in Instances : SeenOn(e, c)

\* The abstract connection is seen in the entries alone.
LEMMA MappingSees == Seen
<1> SUFFICES ASSUME Agreement, NEW e \in Ends, NEW c \in Instances
             PROVE  SeenOn(e, c)
  BY DEF Seen
<1> DEFINE f == Peer(e)
<1>1. f \in Ends /\ Peer(f) = e /\ \A x \in Ends : x = e \/ x = f
  BY OtherEnd
<1>2. EntriesOK(Entries(tbl[e]), opened) /\ EntriesOK(Entries(tbl[f]), opened)
  BY TwoHalves DEF Half
<1>3. \A x \in Ends : SlotsOf(x, c) = SlotsIn(tbl[x], c)
                      /\ ChannelOf(x, c) = ChannelIn(tbl[x], c)
  BY DEF SlotsOf, SlotsIn, ChannelOf, ChannelIn
<1> HIDE DEF f
<1>4. ASSUME NEW x \in {e, f}
      PROVE  /\ Serves(x, c) <=> Holds(Entries(tbl[x]), c)
             /\ Serves(x, c) =>
                  /\ "INPUT_CLOSED" \in ChannelOf(x, c).flags <=> Stopped(Entries(tbl[x]), c)
                  /\ ChannelOf(x, c).type = "OPENING" <=> Opening(Entries(tbl[x]), c)
  <2> DEFINE t == tbl[x]
  <2>1. EntriesOK(Entries(t), opened)
    BY <1>2
  <2> HIDE DEF t
  <2>2. /\ SlotsIn(t, c) # {} <=> Holds(Entries(t), c)
        /\ SlotsIn(t, c) # {} =>
              /\ "INPUT_CLOSED" \in ChannelIn(t, c).flags <=> Stopped(Entries(t), c)
              /\ ChannelIn(t, c).type = "OPENING" <=> Opening(Entries(t), c)
    BY <2>1, TableSeen
  <2>3. QED
    BY <1>1, <1>3, <2>2 DEF Serves, t
<1>5. PhaseOf(c) = PhaseSeen(Entries(tbl[e]), Entries(tbl[f]), c, opened)
  <2>1. (\E x \in Ends : /\ Serves(x, c) /\ ChannelOf(x, c).type = "OPENING"
                         /\ ~Serves(Peer(x), c))
        <=> Awaits(Entries(tbl[e]), Entries(tbl[f]), c)
            \/ Awaits(Entries(tbl[f]), Entries(tbl[e]), c)
    <3>1. \A E : Opening(E, c) => Holds(E, c)
      BY DEF Opening, Holds
    <3>2. Peer(e) = f
      BY DEF f
    <3>3. QED
      BY <1>1, <1>4, <3>1, <3>2 DEF Awaits
  <2>2. Freed(c) <=> ~Holds(Entries(tbl[e]), c) /\ ~Holds(Entries(tbl[f]), c)
    BY <1>1, <1>4 DEF Freed
  <2>3. QED
    BY <2>1, <2>2 DEF PhaseOf, PhaseSeen
<1>6. SideOf(c, e) = SideSeen(Entries(tbl[e]), c, hist[c][e])
  <2> DEFINE s == IF Serves(e, c) THEN "INPUT_CLOSED" \in ChannelOf(e, c).flags
                  ELSE hist[c][e].shut # "no"
             t == Quiet(Entries(tbl[e]), c, hist[c][e])
  <2>1. s <=> t
    <3>1. /\ Serves(e, c) <=> Holds(Entries(tbl[e]), c)
          /\ Serves(e, c) =>
               ("INPUT_CLOSED" \in ChannelOf(e, c).flags <=> Stopped(Entries(tbl[e]), c))
      BY <1>4
    <3>2. CASE Serves(e, c)
      BY <3>1, <3>2 DEF Quiet
    <3>3. CASE ~Serves(e, c)
      BY <3>1, <3>3 DEF Quiet, Holds, Stopped
    <3> HIDE DEF s, t
    <3>4. QED
      BY <3>2, <3>3
  <2>2. s \in BOOLEAN /\ t \in BOOLEAN
    <3>1. CASE Serves(e, c)
      BY <3>1 DEF Quiet
    <3>2. CASE ~Serves(e, c)
      BY <3>2 DEF Quiet
    <3>3. QED
      BY <3>1, <3>2
  <2>3. SideOf(c, e) = [read |-> hist[c][e].read, wrote |-> hist[c][e].wrote,
                        shut |-> hist[c][e].shut, stopped |-> s]
    BY DEF SideOf
  <2>4. SideSeen(Entries(tbl[e]), c, hist[c][e]) =
          [read |-> hist[c][e].read, wrote |-> hist[c][e].wrote,
           shut |-> hist[c][e].shut, stopped |-> t]
    BY DEF SideSeen
  <2> HIDE DEF s, t
  <2>5. s = t
    BY <2>1, <2>2
  <2>6. QED
    BY <2>3, <2>4, <2>5
<1>7. QED
  BY <1>5, <1>6 DEF SeenOn, f

\* The same after a step.
LEMMA MappingSeesNext == Seen'
BY MappingSees, PTL

-----------------------------------------------------------------------------
(* Steps of Forwarding.                                                    *)

Follows == [Promise!PNext]_(Promise!pvars)
Still(c) == /\ PhaseOf(c)' = PhaseOf(c)
            /\ \A e \in Ends : SideOf(c, e)' = SideOf(c, e)

\* Nothing is seen to change, ...
LEMMA FollowsByStutter ==
  ASSUME \A c \in Instances : Still(c)
  PROVE  Follows
<1>1. [c \in Instances |-> PhaseOf(c)'] = [c \in Instances |-> PhaseOf(c)]
  BY DEF Still
<1>2. [c \in Instances |-> [e \in Ends |-> SideOf(c, e)']]
      = [c \in Instances |-> [e \in Ends |-> SideOf(c, e)]]
  BY DEF Still
<1>3. QED
  BY <1>1, <1>2 DEF Follows, Promise!pvars

\* ... a connection is asked for or answered, ...
LEMMA FollowsByPhase ==
  ASSUME NEW c \in Instances, \A d \in Instances : d # c => Still(d),
         \A e \in Ends : SideOf(c, e)' = SideOf(c, e),
         \/ PhaseOf(c) = "unused" /\ PhaseOf(c)' = "asked"
         \/ PhaseOf(c) = "asked" /\ PhaseOf(c)' \in {"carried", "over"}
  PROVE  Follows
<1> DEFINE phase == [d \in Instances |-> PhaseOf(d)]
<1>1. [d \in Instances |-> [e \in Ends |-> SideOf(d, e)']]
      = [d \in Instances |-> [e \in Ends |-> SideOf(d, e)]]
  BY DEF Still
<1>2. [d \in Instances |-> PhaseOf(d)'] = [phase EXCEPT ![c] = PhaseOf(c)']
  BY DEF Still
<1>3. CASE PhaseOf(c) = "unused" /\ PhaseOf(c)' = "asked"
  <2>1. Promise!Ask(c)
    BY <1>1, <1>2, <1>3 DEF Promise!Ask
  <2>2. QED
    BY <2>1 DEF Follows, Promise!PNext
<1>4. CASE PhaseOf(c) = "asked" /\ PhaseOf(c)' \in {"carried", "over"}
  <2>1. Promise!Answer(c)
    BY <1>1, <1>2, <1>4 DEF Promise!Answer
  <2>2. QED
    BY <2>1 DEF Follows, Promise!PNext
<1>5. QED
  BY <1>3, <1>4

\* ... or one end of it moves.
Moves(s, t, far) ==
  /\ Promise!MayRead(s, t) /\ Promise!MayStop(s, t)
  /\ Promise!MayWrite(s, t, far) /\ Promise!MayShut(s, t, far)
  /\ s.read \in Nat /\ t.wrote \in 0 .. far.read
  /\ t.stopped \in BOOLEAN /\ t.shut \in Reasons
  /\ t = [read |-> t.read, wrote |-> t.wrote, stopped |-> t.stopped, shut |-> t.shut]

LEMMA FollowsByCarrying ==
  ASSUME NEW c \in Instances, NEW e \in Ends,
         \A d \in Instances : d # c => Still(d),
         SideOf(c, Peer(e))' = SideOf(c, Peer(e)),
         Moves(SideOf(c, e), SideOf(c, e)', SideOf(c, Peer(e))),
         PhaseOf(c) = "carried", PhaseOf(c)' \in {"carried", "over"},
         PhaseOf(c)' = "over" =>
           Promise!Finished(SideOf(c, e)') /\ Promise!Finished(SideOf(c, Peer(e))')
  PROVE  Follows
<1> DEFINE phase == [d \in Instances |-> PhaseOf(d)]
           side  == [d \in Instances |-> [x \in Ends |-> SideOf(d, x)]]
           phase2 == [d \in Instances |-> PhaseOf(d)']
           side2  == [d \in Instances |-> [x \in Ends |-> SideOf(d, x)']]
           s   == SideOf(c, e)
           t   == SideOf(c, e)'
           far == SideOf(c, Peer(e))
<1>1. Peer(e) \in Ends /\ \A x \in Ends : x = e \/ x = Peer(e)
  BY OtherEnd
<1>2. phase2 \in {phase, [phase EXCEPT ![c] = "over"]}
  BY DEF Still
<1>3. side2 = [side EXCEPT ![c][e] = t]
  BY <1>1 DEF Still
<1>4. phase2[c] = "over" => \A x \in Ends : Promise!Finished(side2[c][x])
  BY <1>1
<1>5. side[c][e] = s /\ side[c][Peer(e)] = far /\ phase[c] = "carried"
  BY <1>1
<1> HIDE DEF s, t, far
<1>6. t.read = s.read \/ t.read = s.read + 1
  BY DEF Moves, Promise!MayRead, s, t
<1>7. PICK r \in {0, 1} : t.read = s.read + r
  <2>1. s.read \in Nat
    BY DEF Moves, s
  <2>2. QED
    BY <1>6, <2>1
<1>8. /\ Promise!MayRead(s, t) /\ Promise!MayStop(s, t)
      /\ Promise!MayWrite(s, t, far) /\ Promise!MayShut(s, t, far)
      /\ t.wrote \in 0 .. far.read /\ t.stopped \in BOOLEAN /\ t.shut \in Reasons
      /\ t = [read |-> t.read, wrote |-> t.wrote, stopped |-> t.stopped, shut |-> t.shut]
  BY DEF Moves, s, t, far
<1>9. t = [read |-> s.read + r, wrote |-> t.wrote, stopped |-> t.stopped,
           shut |-> t.shut]
  BY <1>7, <1>8
<1> HIDE DEF side, phase, side2, phase2
<1>10. \E q \in {0, 1}, w \in 0 .. side[c][Peer(e)].read,
          stopped \in BOOLEAN, shut \in Reasons :
         LET u == side[c][e]
             v == [read |-> u.read + q, wrote |-> w, stopped |-> stopped,
                   shut |-> shut]
             g == side[c][Peer(e)]
         IN  /\ Promise!MayRead(u, v) /\ Promise!MayStop(u, v)
             /\ Promise!MayWrite(u, v, g) /\ Promise!MayShut(u, v, g)
             /\ side2 = [side EXCEPT ![c][e] = v]
  <2> WITNESS r \in {0, 1}
  <2> t.wrote \in 0 .. side[c][Peer(e)].read
    BY <1>5, <1>8
  <2> t.stopped \in BOOLEAN /\ t.shut \in Reasons
    BY <1>8
  <2> WITNESS t.wrote \in 0 .. side[c][Peer(e)].read
  <2> WITNESS t.stopped \in BOOLEAN
  <2> WITNESS t.shut \in Reasons
  <2>1. QED
    BY <1>3, <1>5, <1>8, <1>9
<1>11. Promise!Carry(c, e)
  BY <1>2, <1>4, <1>5, <1>10 DEF Promise!Carry, side, phase, side2, phase2
<1>12. QED
  BY <1>11 DEF Follows, Promise!PNext

-----------------------------------------------------------------------------
(* Every kind of step is one of them.                                      *)

\* A connection as it is seen from end e, before and after a step.
LEMMA SeenBeforeAndAfter ==
  ASSUME Agreement, Agreement', NEW e \in Ends, NEW c \in Instances
  PROVE  /\ PhaseOf(c) = PhaseSeen(Entries(tbl[e]), Entries(tbl[Peer(e)]), c, opened)
         /\ PhaseOf(c)' = PhaseSeen(Entries(tbl'[e]), Entries(tbl'[Peer(e)]), c, opened')
         /\ SideOf(c, e) = SideSeen(Entries(tbl[e]), c, hist[c][e])
         /\ SideOf(c, e)' = SideSeen(Entries(tbl'[e]), c, hist'[c][e])
         /\ SideOf(c, Peer(e)) = SideSeen(Entries(tbl[Peer(e)]), c, hist[c][Peer(e)])
         /\ SideOf(c, Peer(e))' = SideSeen(Entries(tbl'[Peer(e)]), c, hist'[c][Peer(e)])
<1>1. Peer(e) \in Ends
  BY OtherEnd
<1>2. /\ SeenOn(e, c) /\ SeenOn(Peer(e), c)
  BY <1>1, MappingSees DEF Seen
<1>3. /\ SeenOn(e, c)' /\ SeenOn(Peer(e), c)'
  BY <1>1, MappingSeesNext DEF Seen
<1>4. QED
  BY <1>2, <1>3 DEF SeenOn

\* Where the entries of a connection stay, it stays as it is seen.
LEMMA StillSeen ==
  ASSUME Agreement, Agreement', NEW e \in Ends, NEW c \in Instances,
         SameOn(Entries(tbl[e]), Entries(tbl'[e]), c),
         SameOn(Entries(tbl[Peer(e)]), Entries(tbl'[Peer(e)]), c),
         c > opened <=> c > opened', hist'[c] = hist[c]
  PROVE  Still(c)
<1> DEFINE A  == Entries(tbl[e])
           A2 == Entries(tbl'[e])
           B  == Entries(tbl[Peer(e)])
           B2 == Entries(tbl'[Peer(e)])
<1>1. ASSUME NEW E, NEW F, SameOn(E, F, c)
      PROVE  /\ Holds(E, c) <=> Holds(F, c)
             /\ Opening(E, c) <=> Opening(F, c)
             /\ Stopped(E, c) <=> Stopped(F, c)
  BY <1>1 DEF SameOn, Holds, Opening, Stopped
<1>2. ASSUME NEW E, NEW F, SameOn(E, F, c), NEW h
      PROVE  SideSeen(E, c, h) = SideSeen(F, c, h)
  <2>1. Quiet(E, c, h) <=> Quiet(F, c, h)
    BY <1>1, <1>2 DEF Quiet
  <2>2. Quiet(E, c, h) = Quiet(F, c, h)
    BY <2>1 DEF Quiet
  <2>3. QED
    BY <2>2 DEF SideSeen
<1> HIDE DEF A, A2, B, B2
<1>3. PhaseSeen(A2, B2, c, opened') = PhaseSeen(A, B, c, opened)
  <2>1. /\ Holds(A, c) <=> Holds(A2, c)
        /\ Holds(B, c) <=> Holds(B2, c)
        /\ Opening(A, c) <=> Opening(A2, c)
        /\ Opening(B, c) <=> Opening(B2, c)
    BY <1>1 DEF A, A2, B, B2
  <2>2. QED
    BY <2>1 DEF PhaseSeen, Awaits
<1>4. /\ SideSeen(A2, c, hist'[c][e]) = SideSeen(A, c, hist[c][e])
      /\ SideSeen(B2, c, hist'[c][Peer(e)]) = SideSeen(B, c, hist[c][Peer(e)])
  BY <1>2 DEF A, A2, B, B2
<1>5. /\ PhaseOf(c)' = PhaseOf(c)
      /\ SideOf(c, e)' = SideOf(c, e) /\ SideOf(c, Peer(e))' = SideOf(c, Peer(e))
  BY <1>3, <1>4, SeenBeforeAndAfter DEF A, A2, B, B2
<1>6. QED
  BY <1>5, OtherEnd DEF Still

\* An entry added, changed or removed is of one connection.
LEMMA OthersSame ==
  ASSUME NEW A, NEW A2, NEW c
  PROVE  /\ SameOn(A, A, c)
         /\ \A s, new : Added(A, A2, s, new) /\ new.inst # c => SameOn(A, A2, c)
<1>1. ASSUME NEW s, NEW new, Added(A, A2, s, new), new.inst # c
      PROVE  SameOn(A, A2, c)
  BY <1>1 DEF Added, SameOn
<1>2. QED
  BY <1>1 DEF SameOn

\* A side that has neither been read from nor written off.
LEMMA FreshSide ==
  ASSUME NEW E, NEW E2, NEW c, NEW h, h.shut = "no",
         \A i \in DOMAIN E : E[i].inst = c => E[i].flags = {},
         \A i \in DOMAIN E2 : E2[i].inst = c => E2[i].flags = {}
  PROVE  SideSeen(E2, c, h) = SideSeen(E, c, h)
<1>1. ~Quiet(E, c, h) /\ ~Quiet(E2, c, h)
  BY DEF Quiet, Stopped, Holds
<1>2. Quiet(E, c, h) = FALSE /\ Quiet(E2, c, h) = FALSE
  BY <1>1 DEF Quiet
<1>3. QED
  BY <1>2 DEF SideSeen

\* Nothing is seen of a step that changes no entry, ...
LEMMA IdleFollows ==
  ASSUME Agreement, Agreement', Idle PROVE Follows
<1>1. ASSUME NEW c \in Instances PROVE Still(c)
  <2>1. PICK e \in Ends : TRUE
    BY DEF Ends
  <2>2. Peer(e) \in Ends
    BY OtherEnd
  <2>3. QED
    BY <2>2, StillSeen, OthersSame DEF Idle
<1>2. QED
  BY <1>1, FollowsByStutter

\* ... nor of a refusal on its way, ...
LEMMA RefusingFollows ==
  ASSUME Agreement, Agreement', NEW e \in Ends, Refusing(e) PROVE Follows
<1>1. \A c \in Instances : Still(c)
  BY StillSeen, OthersSame DEF Refusing
<1>2. QED
  BY <1>1, FollowsByStutter

\* ... nor of the confirmation of a connection that is carried.
LEMMA ConfirmingFollows ==
  ASSUME Agreement, Agreement', NEW e \in Ends, Confirming(e) PROVE Follows
<1> DEFINE A  == Entries(tbl[e])
           A2 == Entries(tbl'[e])
           B  == Entries(tbl[Peer(e)])
           P  == net[e]
           P2 == net'[e]
<1>1. PICK i, new : Confirms(A, A2, P, P2, i, new)
  BY DEF Confirming
<1>2. tbl'[Peer(e)] = tbl[Peer(e)] /\ opened' = opened /\ hist' = hist
  BY DEF Confirming
<1>3. Half(A, B, P, net[Peer(e)], opened) /\ Half(B, A, net[Peer(e)], P, opened)
  BY TwoHalves
<1> HIDE DEF A, A2, B, P, P2
<1>4. /\ i \in DOMAIN A /\ P[1].from \in DOMAIN B /\ B[P[1].from].inst = A[i].inst
      /\ B[P[1].from].type # "OPENING"
      /\ \A j \in DOMAIN A : A[j].inst = A[i].inst => j = i
      /\ \A j \in DOMAIN B : B[j].inst = A[i].inst => j = P[1].from
  BY <1>1, <1>3, OfTheConfirmation
<1>5. /\ DOMAIN A2 = DOMAIN A
      /\ \A j \in DOMAIN A : j # i => A2[j] = A[j]
      /\ A2[i].inst = A[i].inst /\ A2[i].flags = A[i].flags
      /\ A2[i].type = "OPEN"
  BY <1>1, <1>4 DEF Confirms
<1>6. ASSUME NEW c \in Instances PROVE Still(c)
  <2>1. CASE c # A[i].inst
    <3>1. SameOn(A, A2, c)
      BY <1>4, <1>5, <2>1 DEF SameOn
    <3>2. QED
      BY <1>2, <3>1, StillSeen, OthersSame DEF A, A2, B
  <2>2. CASE c = A[i].inst
    <3>1. Holds(A, c) /\ Holds(A2, c) /\ Holds(B, c)
      BY <1>4, <1>5, <2>2 DEF Holds
    <3>2. PhaseSeen(A2, B, c, opened) = PhaseSeen(A, B, c, opened)
      BY <3>1 DEF PhaseSeen, Awaits
    <3>3. Stopped(A2, c) <=> Stopped(A, c)
      BY <1>4, <1>5, <2>2 DEF Stopped
    <3>4. \A h : SideSeen(A2, c, h) = SideSeen(A, c, h)
      <4>1. ASSUME NEW h PROVE Quiet(A2, c, h) = Quiet(A, c, h)
        BY <3>1, <3>3 DEF Quiet
      <4>2. QED
        BY <4>1 DEF SideSeen
    <3>5. /\ PhaseOf(c)' = PhaseOf(c)
          /\ SideOf(c, e)' = SideOf(c, e)
          /\ SideOf(c, Peer(e))' = SideOf(c, Peer(e))
      BY <1>2, <3>2, <3>4, SeenBeforeAndAfter DEF A, A2, B
    <3>6. QED
      BY <3>5, OtherEnd DEF Still
  <2>3. QED
    BY <2>1, <2>2
<1>7. QED
  BY <1>6, FollowsByStutter

\* A listener that accepts asks for a connection.
LEMMA AcceptingFollows ==
  ASSUME IInv, IInv', Agreement, Agreement', Streams, NEW e \in Ends, Accepting(e)
  PROVE  Follows
<1> DEFINE A  == Entries(tbl[e])
           A2 == Entries(tbl'[e])
           B  == Entries(tbl[Peer(e)])
<1>1. PICK s, new, m : Accepts(A, A2, net[Peer(e)], net'[Peer(e)], s, new, m, opened)
  BY DEF Accepting
<1>2. tbl'[Peer(e)] = tbl[Peer(e)] /\ opened' = opened + 1 /\ hist' = hist
  BY DEF Accepting
<1>3. Half(A, B, net[e], net[Peer(e)], opened) /\ Half(B, A, net[Peer(e)], net[e], opened)
  BY TwoHalves
<1>4. PICK c \in Instances : c = opened + 1
  BY <1>2, BoundsAssumption DEF IInv, HistoryOK, Instances
<1>5. opened \in Nat /\ c \in Nat /\ c > opened /\ ~(c > opened')
  BY <1>2, <1>4, BoundsAssumption DEF IInv, HistoryOK, Instances
<1>6. ASSUME NEW d \in Instances, d # c PROVE d > opened <=> d > opened'
  BY <1>2, <1>4, <1>5, <1>6, BoundsAssumption DEF Instances
<1>7. Peer(e) \in Ends /\ \A x \in Ends : x = e \/ x = Peer(e)
  BY OtherEnd
<1>8. hist[c][e].shut = "no" /\ hist[c][Peer(e)].shut = "no"
  BY <1>4, <1>5, TwoStreams
<1>9. ~(\E i \in DOMAIN A : A[i].inst = c) /\ ~(\E i \in DOMAIN B : B[i].inst = c)
  BY <1>3, <1>5, InstancesKnown
<1> HIDE DEF A, A2, B
<1>10. /\ Added(A, A2, s, new) /\ new.inst = c /\ new.type = "OPENING"
      /\ new.flags = {}
  BY <1>1, <1>4 DEF Accepts, EntryOK
<1>11. ASSUME NEW d \in Instances, d # c PROVE Still(d)
  <2>1. SameOn(A, A2, d)
    BY <1>10, <1>11, OthersSame
  <2>2. QED
    BY <1>2, <1>6, <1>11, <2>1, StillSeen, OthersSame DEF A, A2, B
<1>12. PhaseOf(c) = "unused"
  BY <1>5, SeenBeforeAndAfter DEF PhaseSeen
<1>13. PhaseOf(c)' = "asked"
  <2>1. Holds(A2, c) /\ Opening(A2, c) /\ ~Holds(B, c)
    BY <1>9, <1>10 DEF Added, Holds, Opening
  <2>2. PhaseSeen(A2, B, c, opened') = "asked"
    BY <1>5, <2>1 DEF PhaseSeen, Awaits
  <2>3. QED
    BY <1>2, <1>4, <2>2, SeenBeforeAndAfter DEF A2, B
<1>14. SideOf(c, e)' = SideOf(c, e)
  <2>1. /\ \A i \in DOMAIN A : A[i].inst = c => A[i].flags = {}
        /\ \A i \in DOMAIN A2 : A2[i].inst = c => A2[i].flags = {}
    BY <1>9, <1>10 DEF Added
  <2>2. SideSeen(A2, c, hist[c][e]) = SideSeen(A, c, hist[c][e])
    BY <1>8, <2>1, FreshSide
  <2>3. QED
    BY <1>2, <1>4, <2>2, SeenBeforeAndAfter DEF A, A2
<1>15. SideOf(c, Peer(e))' = SideOf(c, Peer(e))
  BY <1>2, <1>4, SeenBeforeAndAfter
<1>16. QED
  BY <1>4, <1>7, <1>11, <1>12, <1>13, <1>14, <1>15, FollowsByPhase

\* The request that is granted is answered.
LEMMA GrantingFollows ==
  ASSUME IInv, Agreement, Agreement', Streams, NEW e \in Ends, Granting(e)
  PROVE  Follows
<1> DEFINE A  == Entries(tbl[e])
           A2 == Entries(tbl'[e])
           B  == Entries(tbl[Peer(e)])
           P  == net[e]
           P2 == net'[e]
           Q  == net[Peer(e)]
           Q2 == net'[Peer(e)]
<1>1. PICK s, new, m : Grants(A, A2, P, P2, Q, Q2, s, new, m)
  BY DEF Granting
<1>2. tbl'[Peer(e)] = tbl[Peer(e)] /\ opened' = opened /\ hist' = hist
  BY DEF Granting
<1>3. Half(A, B, P, Q, opened) /\ Half(B, A, Q, P, opened)
  BY TwoHalves
<1>4. Peer(e) \in Ends /\ \A x \in Ends : x = e \/ x = Peer(e)
  BY OtherEnd
<1> HIDE DEF A, A2, B, P, P2, Q, Q2
<1>5. PICK c : c = P[1].inst
  OBVIOUS
<1>6. /\ c \in 1 .. opened /\ \A i \in DOMAIN A : A[i].inst # c
      /\ P[1].chan \in DOMAIN B /\ B[P[1].chan].type = "OPENING"
      /\ B[P[1].chan].inst = c
  BY <1>1, <1>3, <1>5, OfTheRequest DEF Grants
<1>7. c \in Instances /\ ~(c > opened)
  BY <1>6, BoundsAssumption DEF IInv, HistoryOK, Instances
<1>8. /\ Added(A, A2, s, new) /\ new.inst = c /\ new.type # "OPENING"
      /\ new.flags = {}
  BY <1>1, <1>5 DEF Grants
<1>9. hist[c][e].shut = "no"
  <2>1. Flow(A, B, P, c, hist[c][e], hist[c][Peer(e)])
    BY <1>7, TwoStreams DEF A, B, P
  <2>2. QED
    BY <1>6, <2>1 DEF Flow, LeftAs
<1>10. ASSUME NEW d \in Instances, d # c PROVE Still(d)
  <2>1. SameOn(A, A2, d)
    BY <1>8, <1>10, OthersSame
  <2>2. QED
    BY <1>2, <2>1, StillSeen, OthersSame DEF A, A2, B
<1>11. PhaseOf(c) = "asked"
  <2>1. ~Holds(A, c) /\ Holds(B, c) /\ Opening(B, c)
    BY <1>6 DEF Holds, Opening
  <2>2. PhaseSeen(A, B, c, opened) = "asked"
    BY <1>7, <2>1 DEF PhaseSeen, Awaits
  <2>3. QED
    BY <1>7, <2>2, SeenBeforeAndAfter DEF A, B
<1>12. PhaseOf(c)' = "carried"
  <2>1. Holds(A2, c) /\ Holds(B, c)
    BY <1>6, <1>8 DEF Added, Holds
  <2>2. PhaseSeen(A2, B, c, opened) = "carried"
    BY <1>7, <2>1 DEF PhaseSeen, Awaits
  <2>3. QED
    BY <1>2, <1>7, <2>2, SeenBeforeAndAfter DEF A2, B
<1>13. SideOf(c, e)' = SideOf(c, e)
  <2>1. /\ \A i \in DOMAIN A : A[i].inst = c => A[i].flags = {}
        /\ \A i \in DOMAIN A2 : A2[i].inst = c => A2[i].flags = {}
    BY <1>6, <1>8 DEF Added
  <2>2. SideSeen(A2, c, hist[c][e]) = SideSeen(A, c, hist[c][e])
    BY <1>9, <2>1, FreshSide
  <2>3. QED
    BY <1>2, <1>7, <2>2, SeenBeforeAndAfter DEF A, A2
<1>14. SideOf(c, Peer(e))' = SideOf(c, Peer(e))
  BY <1>2, <1>7, SeenBeforeAndAfter
<1>15. QED
  BY <1>4, <1>7, <1>10, <1>11, <1>12, <1>13, <1>14, FollowsByPhase

\* And so is the one that was refused, once the refusal has come.
LEMMA FailingFollows ==
  ASSUME IInv, Agreement, Agreement', Streams, NEW e \in Ends, Failing(e)
  PROVE  Follows
<1> DEFINE A  == Entries(tbl[e])
           A2 == Entries(tbl'[e])
           B  == Entries(tbl[Peer(e)])
           P  == net[e]
           P2 == net'[e]
<1>1. PICK i : Fails(A, A2, P, P2, i)
  BY DEF Failing
<1>2. tbl'[Peer(e)] = tbl[Peer(e)] /\ opened' = opened /\ hist' = hist
  BY DEF Failing
<1>3. Half(A, B, P, net[Peer(e)], opened) /\ Half(B, A, net[Peer(e)], P, opened)
  BY TwoHalves
<1>4. Peer(e) \in Ends /\ \A x \in Ends : x = e \/ x = Peer(e)
  BY OtherEnd
<1> HIDE DEF A, A2, B, P, P2
<1>5. PICK c : c = A[i].inst
  OBVIOUS
<1>6. /\ i \in DOMAIN A /\ A[i].type = "OPENING"
      /\ \A j \in DOMAIN B : B[j].inst # c
      /\ \A j \in DOMAIN A2 : j \in DOMAIN A /\ j # i /\ A2[j] = A[j]
      /\ \A j \in DOMAIN A : j # i => j \in DOMAIN A2
  BY <1>1, <1>3, <1>5, OfTheRefusal
<1>7. /\ c \in 1 .. opened /\ A[i].flags = {}
      /\ \A j \in DOMAIN A : A[j].inst = c => j = i
  BY <1>3, <1>5, <1>6 DEF Half, EntriesOK, EntryOK
<1>8. c \in Instances /\ ~(c > opened)
  BY <1>7, BoundsAssumption DEF IInv, HistoryOK, Instances
<1>9. hist[c][e].shut = "no"
  <2>1. Flow(A, B, P, c, hist[c][e], hist[c][Peer(e)])
    BY <1>8, TwoStreams DEF A, B, P
  <2>2. QED
    BY <1>5, <1>6, <1>7, <2>1 DEF Flow, ShutAs
<1>10. ASSUME NEW d \in Instances, d # c PROVE Still(d)
  <2>1. SameOn(A, A2, d)
    BY <1>5, <1>6, <1>10 DEF SameOn
  <2>2. QED
    BY <1>2, <2>1, StillSeen, OthersSame DEF A, A2, B
<1>11. PhaseOf(c) = "asked"
  <2>1. Holds(A, c) /\ Opening(A, c) /\ ~Holds(B, c)
    BY <1>5, <1>6 DEF Holds, Opening
  <2>2. PhaseSeen(A, B, c, opened) = "asked"
    BY <1>8, <2>1 DEF PhaseSeen, Awaits
  <2>3. QED
    BY <1>8, <2>2, SeenBeforeAndAfter DEF A, B
<1>12. PhaseOf(c)' = "over"
  <2>1. ~Holds(A2, c) /\ ~Holds(B, c)
    BY <1>6, <1>7 DEF Holds
  <2>2. PhaseSeen(A2, B, c, opened) = "over"
    BY <1>8, <2>1 DEF PhaseSeen
  <2>3. QED
    BY <1>2, <1>8, <2>2, SeenBeforeAndAfter DEF A2, B
<1>13. SideOf(c, e)' = SideOf(c, e)
  <2>1. /\ \A j \in DOMAIN A : A[j].inst = c => A[j].flags = {}
        /\ \A j \in DOMAIN A2 : A2[j].inst = c => A2[j].flags = {}
    BY <1>6, <1>7
  <2>2. SideSeen(A2, c, hist[c][e]) = SideSeen(A, c, hist[c][e])
    BY <1>9, <2>1, FreshSide
  <2>3. QED
    BY <1>2, <1>8, <2>2, SeenBeforeAndAfter DEF A, A2
<1>14. SideOf(c, Peer(e))' = SideOf(c, Peer(e))
  BY <1>2, <1>8, SeenBeforeAndAfter
<1>15. QED
  BY <1>4, <1>8, <1>10, <1>11, <1>12, <1>13, <1>14, FollowsByPhase

\* The fields of a side.
LEMMA FieldsSeen ==
  ASSUME NEW E, NEW c, NEW h
  PROVE  LET s == SideSeen(E, c, h)
         IN  /\ s.read = h.read /\ s.wrote = h.wrote /\ s.shut = h.shut
             /\ s.stopped <=> Quiet(E, c, h)
             /\ s.stopped \in BOOLEAN
             /\ s = [read |-> s.read, wrote |-> s.wrote, stopped |-> s.stopped,
                     shut |-> s.shut]
<1>1. Quiet(E, c, h) \in BOOLEAN
  BY DEF Quiet
<1>2. QED
  BY <1>1 DEF SideSeen

\* What becomes of the entry that is served, and of its flags.
LEMMA QuietServed ==
  ASSUME NEW A, NEW B, NEW P, NEW Q, NEW n,
         Half(A, B, P, Q, n), Half(B, A, Q, P, n),
         NEW A2, NEW P2, NEW i, NEW new, NEW x, NEW d, NEW out,
         Served(A, B, i, new, x, out), Stored(A, A2, i, new), Taken(P, P2, i, x, d),
         NEW h, NEW h2, NEW g, NEW data,
         Flow(A, B, P, A[i].inst, h, g), Flow(B, A, Q, A[i].inst, g, h),
         Delivers(A[i], new, h, h2, x, data)
  PROVE  /\ Quiet(A, A[i].inst, h) <=> "INPUT_CLOSED" \in A[i].flags
         /\ "INPUT_CLOSED" \in A[i].flags => Quiet(A2, A[i].inst, h2)
         /\ new.type = "FREE" => h2.shut # "no"
         /\ ~Holds(A2, A[i].inst) <=> new.type = "FREE"
         /\ ~Opening(A2, A[i].inst) /\ Holds(A, A[i].inst) /\ ~Opening(A, A[i].inst)
         /\ ~Holds(B, A[i].inst) => g.shut # "no"
         /\ new.type = "FREE" => ~Opening(B, A[i].inst)
<1> DEFINE c == A[i].inst
<1>1. /\ i \in DOMAIN A /\ A[i].type # "OPENING" /\ new.inst = c
      /\ A[i].flags \subseteq new.flags
      /\ new.type \in {A[i].type, "OPEN", "FREE"}
      /\ new.type = "FREE" => new.flags = Flags
  BY DEF Served
<1>2. \A j, k \in DOMAIN A : A[j].inst = A[k].inst => j = k
  BY DEF Half, EntriesOK
<1>3. \A j \in DOMAIN A : A[j].inst = c <=> j = i
  BY <1>1, <1>2
<1>4. /\ \A j \in DOMAIN A2 : A2[j].inst = c <=> j = i
      /\ i \in DOMAIN A2 <=> new.type # "FREE"
      /\ i \in DOMAIN A2 => A2[i] = new
  <2>1. /\ \A j \in DOMAIN A2 : j \in DOMAIN A /\ A2[j].inst = A[j].inst
        /\ i \in DOMAIN A2 <=> new.type # "FREE"
        /\ i \in DOMAIN A2 => A2[i] = new
    BY StoredFacts
  <2>2. QED
    BY <1>3, <2>1
<1> HIDE DEF c
<1>5. Holds(A, c) /\ ~Opening(A, c) /\ (Stopped(A, c) <=> "INPUT_CLOSED" \in A[i].flags)
  BY <1>1, <1>3 DEF Holds, Opening, Stopped
<1>6. Quiet(A, c, h) <=> "INPUT_CLOSED" \in A[i].flags
  BY <1>5 DEF Quiet
<1>7. (~Holds(A2, c) <=> new.type = "FREE") /\ ~Opening(A2, c)
  BY <1>1, <1>4 DEF Holds, Opening
<1>8. new.type = "FREE" => h2.shut # "no"
  <2>1. "OUTPUT_CLOSED" \in A[i].flags => h.shut # "no"
    BY <1>1 DEF Flow, ShutAs
  <2>2. new.type = "FREE" => "OUTPUT_CLOSED" \in new.flags
    BY <1>1 DEF Flags
  <2>3. QED
    BY <2>1, <2>2 DEF Delivers
<1>9. "INPUT_CLOSED" \in A[i].flags => Quiet(A2, c, h2)
  <2>1. "INPUT_CLOSED" \in A[i].flags => Stopped(A2, c)
    BY <1>1, <1>4 DEF Stopped
  <2>2. QED
    BY <1>7, <1>8, <2>1 DEF Quiet
<1>10. ~Holds(B, c) => g.shut # "no"
  <2>1. LeftAs(B, A, c, g)
    BY DEF Flow, c
  <2>2. QED
    BY <1>1, <1>3, <2>1 DEF LeftAs, Holds
<1>11. new.type = "FREE" => ~Opening(B, c)
  BY FreedAfterPeer DEF Opening, c
<1>12. QED
  BY <1>5, <1>6, <1>7, <1>8, <1>9, <1>10, <1>11 DEF c

\* The end that serves it moves as Forwarding allows ...
LEMMA ServedMoves ==
  ASSUME NEW A, NEW B, NEW P, NEW Q, NEW n,
         Half(A, B, P, Q, n), Half(B, A, Q, P, n),
         NEW A2, NEW P2, NEW i, NEW new, NEW x, NEW d, NEW out,
         Served(A, B, i, new, x, out), Stored(A, A2, i, new), Taken(P, P2, i, x, d),
         NEW h, NEW h2, NEW g, NEW data,
         Flow(A, B, P, A[i].inst, h, g), Flow(B, A, Q, A[i].inst, g, h),
         Flow(A2, B, P2, A[i].inst, h2, g),
         Delivers(A[i], new, h, h2, x, data), Collects(A[i], new, h, h2, x, out),
         h.read \in Nat, h2.wrote =< g.read, h2.shut \in Reasons
  PROVE  Moves(SideSeen(A, A[i].inst, h), SideSeen(A2, A[i].inst, h2),
               SideSeen(B, A[i].inst, g))
<1> DEFINE c   == A[i].inst
           s   == SideSeen(A, c, h)
           t   == SideSeen(A2, c, h2)
           far == SideSeen(B, c, g)
<1>1. /\ s.read = h.read /\ s.wrote = h.wrote /\ s.shut = h.shut
      /\ s.stopped <=> Quiet(A, c, h)
  BY FieldsSeen
<1>2. /\ t.read = h2.read /\ t.wrote = h2.wrote /\ t.shut = h2.shut
      /\ t.stopped <=> Quiet(A2, c, h2)
      /\ t.stopped \in BOOLEAN
      /\ t = [read |-> t.read, wrote |-> t.wrote, stopped |-> t.stopped,
              shut |-> t.shut]
  BY FieldsSeen
<1>3. /\ far.read = g.read /\ far.shut = g.shut
      /\ far.stopped <=> Quiet(B, c, g)
  BY FieldsSeen
<1>4. /\ Quiet(A, c, h) <=> "INPUT_CLOSED" \in A[i].flags
      /\ "INPUT_CLOSED" \in A[i].flags => Quiet(A2, c, h2)
      /\ ~Holds(B, c) => g.shut # "no"
  BY QuietServed
<1>5. i \in DOMAIN A /\ A[i].flags \subseteq new.flags
  BY DEF Served
<1>6. /\ h.shut # "no" <=> "OUTPUT_CLOSED" \in A[i].flags
      /\ h2.shut = "drained" => h2.wrote = g.read /\ Stopped(B, c)
      /\ h2.wrote \in Nat /\ g.read \in Nat
  BY <1>5 DEF Flow, ShutAs
<1>7. \/ h2.wrote = h.wrote
      \/ h.shut = "no" /\ h.wrote < h2.wrote /\ h2.wrote =< g.read
  BY <1>5, WritesOfTheRead
<1>8. \/ h2.read = h.read
      \/ h2.read = h.read + 1 /\ "INPUT_CLOSED" \notin A[i].flags
  BY ReadsOne
<1>9. h2.shut = h.shut \/ h.shut = "no"
  BY <1>6 DEF Delivers
<1> HIDE DEF c, s, t, far
<1>10. Promise!MayRead(s, t)
  BY <1>1, <1>2, <1>4, <1>8 DEF Promise!MayRead
<1>11. Promise!MayStop(s, t)
  BY <1>1, <1>2, <1>4 DEF Promise!MayStop
<1>12. Promise!MayWrite(s, t, far)
  BY <1>1, <1>2, <1>3, <1>7 DEF Promise!MayWrite
<1>13. Promise!MayShut(s, t, far)
  <2>1. h2.shut = "drained" => Quiet(B, c, g)
    BY <1>4, <1>6 DEF Quiet
  <2>2. t.shut = "drained" => far.stopped /\ t.wrote = far.read
    BY <1>2, <1>3, <1>6, <2>1
  <2>3. QED
    BY <1>1, <1>2, <1>9, <2>2 DEF Promise!MayShut
<1>14. t.wrote \in 0 .. far.read
  BY <1>2, <1>3, <1>6
<1>15. QED
  BY <1>1, <1>2, <1>10, <1>11, <1>12, <1>13, <1>14 DEF Moves, c, s, t, far

\* ... and frees the connection last when both programs are done with it.
LEMMA ServedPhases ==
  ASSUME NEW A, NEW B, NEW P, NEW Q, NEW n \in Nat,
         Half(A, B, P, Q, n), Half(B, A, Q, P, n),
         NEW A2, NEW P2, NEW i, NEW new, NEW x, NEW d, NEW out,
         Served(A, B, i, new, x, out), Stored(A, A2, i, new), Taken(P, P2, i, x, d),
         NEW h, NEW h2, NEW g, NEW data,
         Flow(A, B, P, A[i].inst, h, g), Flow(B, A, Q, A[i].inst, g, h),
         Delivers(A[i], new, h, h2, x, data)
  PROVE  /\ PhaseSeen(A, B, A[i].inst, n) = "carried"
         /\ PhaseSeen(A2, B, A[i].inst, n) \in {"carried", "over"}
         /\ PhaseSeen(A2, B, A[i].inst, n) = "over" =>
              /\ Promise!Finished(SideSeen(A2, A[i].inst, h2))
              /\ Promise!Finished(SideSeen(B, A[i].inst, g))
<1> DEFINE c == A[i].inst
<1>1. /\ new.type = "FREE" => h2.shut # "no"
      /\ ~Holds(A2, c) <=> new.type = "FREE"
      /\ ~Opening(A2, c) /\ Holds(A, c) /\ ~Opening(A, c)
      /\ ~Holds(B, c) => g.shut # "no"
      /\ new.type = "FREE" => ~Opening(B, c)
  BY QuietServed
<1>2. c \in 1 .. n
  BY DEF Served, Half, EntriesOK
<1>3. ~(c > n)
  BY <1>2
<1> HIDE DEF c
<1>4. PhaseSeen(A, B, c, n) = "carried"
  BY <1>1, <1>3 DEF PhaseSeen, Awaits
<1>5. PhaseSeen(A2, B, c, n) =
        IF ~Holds(A2, c) /\ ~Holds(B, c) THEN "over" ELSE "carried"
  BY <1>1, <1>3 DEF PhaseSeen, Awaits
<1>6. ASSUME ~Holds(A2, c), ~Holds(B, c)
      PROVE  /\ Promise!Finished(SideSeen(A2, c, h2))
             /\ Promise!Finished(SideSeen(B, c, g))
  <2>1. Quiet(A2, c, h2) /\ Quiet(B, c, g)
    BY <1>1, <1>6 DEF Quiet, Stopped, Holds
  <2>2. h2.shut # "no" /\ g.shut # "no"
    BY <1>1, <1>6
  <2>3. /\ SideSeen(A2, c, h2).stopped /\ SideSeen(A2, c, h2).shut = h2.shut
        /\ SideSeen(B, c, g).stopped /\ SideSeen(B, c, g).shut = g.shut
    BY <2>1, FieldsSeen
  <2>4. QED
    BY <2>2, <2>3 DEF Promise!Finished
<1>7. QED
  BY <1>4, <1>5, <1>6 DEF c

\* A step that serves an entry is a step of Forwarding, or none.
LEMMA ServingFollows ==
  ASSUME IInv, IInv', Agreement, Agreement', Streams, Streams', Ahead',
         NEW e \in Ends, Serving(e)
  PROVE  Follows
<1> DEFINE A  == Entries(tbl[e])
           A2 == Entries(tbl'[e])
           B  == Entries(tbl[Peer(e)])
           P  == net[e]
           P2 == net'[e]
           Q  == net[Peer(e)]
<1>1. PICK i, new, x, d, out : Service(e, i, new, x, d, out) /\ Account(e, i, new, x, out)
  BY DEF Serving
<1>2. /\ Served(A, B, i, new, x, out) /\ Taken(P, P2, i, x, d) /\ opened' = opened
  BY <1>1 DEF Service
<1>3. /\ Stored(A, A2, i, new) /\ Entries(tbl'[Peer(e)]) = B
      /\ i \in DOMAIN A /\ A[i] = tbl[e][i]
  BY <1>1, ServedEntries
<1>4. Half(A, B, P, Q, opened) /\ Half(B, A, Q, P, opened)
  BY TwoHalves
<1>5. A[i].inst \in 1 .. opened /\ opened \in Nat /\ A[i].inst \in Instances
  <2>1. A[i].inst \in 1 .. opened
    BY <1>3, <1>4 DEF Half, EntriesOK
  <2>2. QED
    BY <2>1, BoundsAssumption DEF IInv, HistoryOK, Instances
<1>6. PICK c \in Instances : c = A[i].inst
  BY <1>5
<1>7. /\ \A k \in Instances : k # c => hist'[k] = hist[k]
      /\ hist'[c][Peer(e)] = hist[c][Peer(e)]
      /\ Delivers(A[i], new, hist[c][e], hist'[c][e], x, P[1].data)
      /\ Collects(A[i], new, hist[c][e], hist'[c][e], x, out)
  BY <1>1, <1>3, <1>6 DEF Account
<1>8. /\ Flow(A, B, P, c, hist[c][e], hist[c][Peer(e)])
      /\ Flow(B, A, Q, c, hist[c][Peer(e)], hist[c][e])
  BY TwoStreams
<1>9. Flow(A2, B, P2, c, hist'[c][e], hist[c][Peer(e)])
  <2>1. Flow(A2, Entries(tbl'[Peer(e)]), P2, c, hist'[c][e], hist'[c][Peer(e)])
    BY DEF Streams, Flows
  <2>2. QED
    BY <1>3, <1>7, <2>1
<1>10. /\ hist[c][e].read \in Nat /\ hist'[c][e].shut \in Reasons
       /\ hist'[c][e].wrote =< hist[c][Peer(e)].read
  <2>1. hist[c][e].read \in Nat /\ hist'[c][e].shut \in Reasons
    BY RecordShape DEF IInv, HistoryOK
  <2>2. hist'[c][e].wrote =< hist'[c][Peer(e)].read
    BY DEF Ahead
  <2>3. QED
    BY <1>7, <2>1, <2>2
<1>11. Peer(e) \in Ends
  BY OtherEnd
<1> DEFINE h == hist[c][e]
           h2 == hist'[c][e]
           g == hist[c][Peer(e)]
           data == P[1].data
<1>12. /\ Flow(A, B, P, A[i].inst, h, g) /\ Flow(B, A, Q, A[i].inst, g, h)
       /\ Flow(A2, B, P2, A[i].inst, h2, g)
       /\ Delivers(A[i], new, h, h2, x, data) /\ Collects(A[i], new, h, h2, x, out)
       /\ h.read \in Nat /\ h2.wrote =< g.read /\ h2.shut \in Reasons
  BY <1>6, <1>7, <1>8, <1>9, <1>10
<1> HIDE DEF A, A2, B, P, P2, Q, h, h2, g, data
<1>13. Moves(SideSeen(A, c, h), SideSeen(A2, c, h2), SideSeen(B, c, g))
  BY <1>2, <1>3, <1>4, <1>6, <1>12, ServedMoves
<1>14. /\ PhaseSeen(A, B, c, opened) = "carried"
       /\ PhaseSeen(A2, B, c, opened) \in {"carried", "over"}
       /\ PhaseSeen(A2, B, c, opened) = "over" =>
            /\ Promise!Finished(SideSeen(A2, c, h2))
            /\ Promise!Finished(SideSeen(B, c, g))
  BY <1>2, <1>3, <1>4, <1>5, <1>6, <1>12, ServedPhases
<1>15. /\ PhaseOf(c) = PhaseSeen(A, B, c, opened)
       /\ PhaseOf(c)' = PhaseSeen(A2, B, c, opened)
       /\ SideOf(c, e) = SideSeen(A, c, h) /\ SideOf(c, e)' = SideSeen(A2, c, h2)
       /\ SideOf(c, Peer(e)) = SideSeen(B, c, g)
       /\ SideOf(c, Peer(e))' = SideSeen(B, c, g)
  BY <1>2, <1>3, <1>7, SeenBeforeAndAfter DEF A, A2, B, h, h2, g
<1>16. ASSUME NEW k \in Instances, k # c PROVE Still(k)
  <2>1. SameOn(A, A2, k)
    <3>1. /\ \A j \in DOMAIN A2 : /\ j \in DOMAIN A /\ A2[j].inst = A[j].inst
                                  /\ j # i => A2[j] = A[j]
          /\ \A j \in DOMAIN A : j # i => j \in DOMAIN A2
      BY <1>2, <1>3, StoredFacts
    <3>2. QED
      BY <1>6, <1>16, <3>1 DEF SameOn
  <2>2. QED
    BY <1>2, <1>3, <1>7, <1>16, <2>1, StillSeen, OthersSame DEF A, A2, B
<1>17. QED
  BY <1>13, <1>14, <1>15, <1>16, FollowsByCarrying

\* Every step is a step of Forwarding, or none.
LEMMA NextFollows ==
  ASSUME IInv, IInv', Agreement, Agreement', Streams, Streams', SelectSetsCurrent,
         Ahead', [Next]_vars
  PROVE  Follows
BY KindsOfSteps, IdleFollows, ServingFollows, AcceptingFollows, GrantingFollows,
   RefusingFollows, ConfirmingFollows, FailingFollows DEF Stepping

\* Before the loops run no connection is used.
LEMMA InitFollows == Init => Promise!PInit
<1> SUFFICES ASSUME Init PROVE Promise!PInit
  OBVIOUS
<1>1. ASSUME NEW e \in Ends, NEW c \in Instances PROVE ~Serves(e, c)
  BY <1>1, InitialEntries, SlotsServed DEF Serves
<1>2. \A c \in Instances : PhaseOf(c) = "unused"
  BY BoundsAssumption DEF Init, PhaseOf, Instances
<1>3. ASSUME NEW c \in Instances, NEW e \in Ends
      PROVE  SideOf(c, e) = [read |-> 0, wrote |-> 0, stopped |-> FALSE, shut |-> "no"]
  <2>1. hist[c][e] = [read |-> 0, wrote |-> 0, shut |-> "no"]
    BY DEF Init
  <2>2. SideOf(c, e) = [read |-> 0, wrote |-> 0, stopped |-> hist[c][e].shut # "no",
                        shut |-> "no"]
    BY <1>1, <2>1 DEF SideOf
  <2>3. (hist[c][e].shut # "no") = FALSE
    BY <2>1
  <2>4. QED
    BY <2>2, <2>3
<1>4. QED
  BY <1>2, <1>3 DEF Promise!PInit

\* The two tables, the loops and the packets between them do for the programs
\* at the two ends what a pair of pipes does: what is written was read, a
\* clean end comes after everything, nothing is written to a socket that was
\* shut, and a connection is freed last when both programs are done with it.
THEOREM TunnelIsAPairOfPipes == Spec => FollowsForwarding
<1>1. TunnelInv /\ TunnelInv' /\ [Next]_vars => [Promise!PNext]_(Promise!pvars)
  BY SetsCurrent, NextFollows DEF TunnelInv, Follows
<1>2. QED
  BY <1>1, InitFollows, TunnelInvariance, PTL
     DEF Spec, FollowsForwarding, Promise!PSpec
=============================================================================
