---------------------------- MODULE PacketsProofs ----------------------------
(***************************************************************************)
(* Theorems about Buffer and Packets.  Every buffer of buffer.c is a queue *)
(* of bytes, whatever its users append and consume.  For both ciphers,     *)
(* with and without compression, any size of pipe and buffers and any      *)
(* amount of data: the types of the packet layer, that no packet is ever   *)
(* misread, and that the layer is the pipe of PacketPipe.                  *)
(***************************************************************************)
EXTENDS MCPackets, SequenceTheorems, TLAPS

-----------------------------------------------------------------------------
(* The buffers: a lemma for each function, and the theorem for a buffer    *)
(* that is used in any way the callers can use it.                         *)

\* A buffer that holds elements of Unit in what it has allocated.
IsBuffer(Unit, b) ==
  /\ b \in [mem : {b.mem}, offset : Nat, end : Nat, alloc : Nat]
  /\ b.offset <= b.end /\ b.end <= b.alloc
  /\ b.mem \in [b.offset .. b.end - 1 -> Unit]

LEMMA BuffersAreWellFormed == ASSUME NEW Unit, NEW b, IsBuffer(Unit, b) PROVE WellFormed(b)
BY DEF IsBuffer, WellFormed

\* An empty buffer (buffer_init, buffer_clear) is one and has no contents.
LEMMA InitIsBuffer ==
  ASSUME NEW Unit
  PROVE  IsBuffer(Unit, buffer_init) /\ Contents(buffer_init) = << >>
<1>1. << >> \in [0 .. 0 - 1 -> Unit]
  OBVIOUS
<1>2. IsBuffer(Unit, buffer_init)
  BY <1>1, BufferAssumption DEF IsBuffer, buffer_init
<1>3. Contents(buffer_init) = << >>
  BY DEF Contents, buffer_len, buffer_init
<1> QED BY <1>2, <1>3

\* What a buffer contains is a sequence of units.
LEMMA ContentsAreUnits ==
  ASSUME NEW Unit, NEW b, IsBuffer(Unit, b)
  PROVE  Contents(b) \in Seq(Unit) /\ Len(Contents(b)) = b.end - b.offset
<1>1. b.end - b.offset \in Nat
  BY DEF IsBuffer
<1>2. \A i \in 1 .. b.end - b.offset : b.mem[b.offset + i - 1] \in Unit
  BY <1>1 DEF IsBuffer
<1>3. Contents(b) \in [1 .. b.end - b.offset -> Unit]
  BY <1>1, <1>2 DEF Contents, buffer_len
<1> QED BY <1>1, <1>3

\* buffer_append_space changes no contents while it makes room.
LEMMA RestartKeeps ==
  ASSUME NEW Unit, NEW b, IsBuffer(Unit, b)
  PROVE  IsBuffer(Unit, Restarted(b)) /\ Contents(Restarted(b)) = Contents(b)
<1>1. CASE b.offset = b.end
  <2>1. Restarted(b) = [mem |-> << >>, offset |-> 0, end |-> 0, alloc |-> b.alloc]
    BY <1>1 DEF Restarted, buffer_clear, IsBuffer
  <2>2. << >> \in [0 .. 0 - 1 -> Unit]
    OBVIOUS
  <2>3. IsBuffer(Unit, Restarted(b))
    BY <2>1, <2>2 DEF IsBuffer
  <2>4. Contents(Restarted(b)) = << >> /\ Contents(b) = << >>
    BY <1>1, <2>1 DEF Contents, buffer_len, IsBuffer
  <2> QED BY <2>3, <2>4
<1>2. CASE b.offset # b.end
  BY <1>2 DEF Restarted
<1> QED BY <1>1, <1>2

LEMMA SequenceIsItsElements ==
  ASSUME NEW Unit, NEW s \in Seq(Unit) PROVE s = [i \in 1 .. Len(s) |-> s[i]]
OBVIOUS

LEMMA MoveKeeps ==
  ASSUME NEW Unit, NEW b, IsBuffer(Unit, b)
  PROVE  IsBuffer(Unit, Moved(b)) /\ Contents(Moved(b)) = Contents(b)
<1> DEFINE n == b.end - b.offset
           mem == [i \in 0 .. n - 1 |-> b.mem[b.offset + i]]
<1>1. Moved(b) = [mem |-> mem, offset |-> 0, end |-> n, alloc |-> b.alloc]
  BY DEF Moved, buffer_len
<1>2. n \in Nat /\ n <= b.alloc /\ b.alloc \in Nat /\ b.offset \in Nat /\ b.end \in Nat
  BY DEF IsBuffer
<1>3. \A i \in 0 .. n - 1 : mem[i] \in Unit
  BY <1>2 DEF IsBuffer
<1>4. mem \in [0 .. n - 1 -> Unit]
  BY <1>3
<1>5. IsBuffer(Unit, Moved(b))
  BY <1>1, <1>2, <1>3, <1>4 DEF IsBuffer
<1>6. Contents(Moved(b)) = Contents(b)
  <2>1. \A i \in 1 .. n : mem[0 + i - 1] = b.mem[b.offset + i - 1]
    BY <1>2
  <2> QED BY <1>1, <1>2, <2>1 DEF Contents, buffer_len
<1> QED BY <1>5, <1>6

LEMMA EnlargeKeeps ==
  ASSUME NEW Unit, NEW b, IsBuffer(Unit, b), NEW len \in Nat
  PROVE  /\ IsBuffer(Unit, Enlarged(b, len)) /\ Contents(Enlarged(b, len)) = Contents(b)
         /\ Fits(Enlarged(b, len), len)
<1>1. CASE Fits(b, len)
  BY <1>1 DEF Enlarged
<1>2. CASE ~Fits(b, len)
  <2> DEFINE c == [mem |-> b.mem, offset |-> b.offset, end |-> b.end,
                   alloc |-> b.alloc + len + Increment]
  <2>1. Enlarged(b, len) = c
    BY <1>2 DEF Enlarged, IsBuffer
  <2>2. IsBuffer(Unit, c)
    BY BufferAssumption DEF IsBuffer
  <2>3. Contents(c) = Contents(b)
    BY DEF Contents, buffer_len
  <2>4. Fits(c, len)
    BY BufferAssumption DEF Fits, IsBuffer
  <2> QED BY <2>1, <2>2, <2>3, <2>4
<1> QED BY <1>1, <1>2

\* After buffer_append_space has looked for room there is some, within what is
\* allocated, and the contents are what they were.
LEMMA RoomIsMade ==
  ASSUME NEW Unit, NEW b, IsBuffer(Unit, b), NEW len \in Nat
  PROVE  /\ IsBuffer(Unit, WithRoom(b, len)) /\ Contents(WithRoom(b, len)) = Contents(b)
         /\ Fits(WithRoom(b, len), len)
<1> DEFINE c == Restarted(b)
<1>1. IsBuffer(Unit, c) /\ Contents(c) = Contents(b)
  BY RestartKeeps
<1>2. IsBuffer(Unit, Compacted(c, len)) /\ Contents(Compacted(c, len)) = Contents(b)
  <2>1. CASE ~Fits(c, len) /\ c.offset > c.alloc \div 2
    <3>1. Compacted(c, len) = Moved(c)
      BY <2>1 DEF Compacted
    <3>2. IsBuffer(Unit, Moved(c)) /\ Contents(Moved(c)) = Contents(c)
      BY <1>1, MoveKeeps
    <3> QED BY <1>1, <3>1, <3>2
  <2>2. CASE ~(~Fits(c, len) /\ c.offset > c.alloc \div 2)
    <3>1. Compacted(c, len) = c
      BY <2>2 DEF Compacted
    <3> QED BY <1>1, <3>1
  <2> QED BY <2>1, <2>2
<1> QED BY <1>2, EnlargeKeeps DEF WithRoom

\* buffer_append adds exactly its data at the end, inside what is allocated.
LEMMA AppendAppends ==
  ASSUME NEW Unit, NEW b, IsBuffer(Unit, b), NEW data \in Seq(Unit)
  PROVE  /\ IsBuffer(Unit, buffer_append(b, data))
         /\ Contents(buffer_append(b, data)) = Contents(b) \o data
<1> DEFINE len == Len(data)
           c == WithRoom(b, len)
           mem == [i \in c.offset .. c.end + len - 1 |->
                     IF i < c.end THEN c.mem[i] ELSE data[i - c.end + 1]]
           d == [mem |-> mem, offset |-> c.offset, end |-> c.end + len, alloc |-> c.alloc]
<1>1. len \in Nat /\ \A i \in 1 .. len : data[i] \in Unit
  OBVIOUS
<1>2. IsBuffer(Unit, c) /\ Contents(c) = Contents(b) /\ Fits(c, len)
  BY <1>1, RoomIsMade
<1>3. c.offset \in Nat /\ c.end \in Nat /\ c.alloc \in Nat /\ c.offset <= c.end
      /\ c.end + len <= c.alloc
  BY <1>1, <1>2 DEF IsBuffer, Fits
<1>4. buffer_append(b, data) = d
  BY DEF buffer_append, Extended
<1>5. \A i \in c.offset .. c.end + len - 1 : mem[i] \in Unit
  <2> SUFFICES ASSUME NEW i \in c.offset .. c.end + len - 1 PROVE mem[i] \in Unit
    OBVIOUS
  <2>1. CASE i < c.end
    BY <2>1, <1>2, <1>3 DEF IsBuffer
  <2>2. CASE ~(i < c.end)
    <3>1. i - c.end + 1 \in 1 .. len
      BY <2>2, <1>1, <1>3
    <3> QED BY <2>2, <3>1, <1>1
  <2> QED BY <2>1, <2>2
<1>6. mem \in [c.offset .. c.end + len - 1 -> Unit]
  BY <1>5
<1>8. IsBuffer(Unit, d)
  BY <1>1, <1>3, <1>6 DEF IsBuffer
<1>7. Contents(d) = Contents(c) \o data
  <2> DEFINE n == c.end - c.offset
  <2>1. n \in Nat /\ (c.end + len) - c.offset = n + len
    BY <1>1, <1>3
  <2>2. Contents(d) = [i \in 1 .. n + len |-> mem[c.offset + i - 1]]
    BY <2>1 DEF Contents, buffer_len
  <2>3. Contents(c) \in Seq(Unit) /\ Len(Contents(c)) = n
    BY <1>2, ContentsAreUnits
  <2>4. ASSUME NEW i \in 1 .. n + len
        PROVE  mem[c.offset + i - 1] = (Contents(c) \o data)[i]
    <3>1. CASE i <= n
      <4>1. c.offset + i - 1 \in c.offset .. c.end + len - 1 /\ c.offset + i - 1 < c.end
        BY <3>1, <2>1, <1>1, <1>3
      <4>2. mem[c.offset + i - 1] = c.mem[c.offset + i - 1]
        BY <4>1
      <4>3. Contents(c)[i] = c.mem[c.offset + i - 1]
        BY <3>1, <2>1 DEF Contents, buffer_len
      <4>4. (Contents(c) \o data)[i] = Contents(c)[i]
        BY <3>1, <2>1, <2>3, <1>1
      <4> QED BY <4>2, <4>3, <4>4
    <3>2. CASE ~(i <= n)
      <4>1. c.offset + i - 1 \in c.offset .. c.end + len - 1 /\ ~(c.offset + i - 1 < c.end)
        BY <3>2, <2>1, <1>1, <1>3
      <4>2. mem[c.offset + i - 1] = data[i - n]
        <5>1. (c.offset + i - 1) - c.end + 1 = i - n
          BY <2>1, <1>1, <1>3
        <5> QED BY <4>1, <5>1
      <4>3. (Contents(c) \o data)[i] = data[i - n]
        BY <3>2, <2>1, <2>3, <1>1
      <4> QED BY <4>2, <4>3
    <3> QED BY <3>1, <3>2
  <2>5. Contents(c) \o data \in Seq(Unit) /\ Len(Contents(c) \o data) = n + len
    BY <2>3, <1>1, <2>1
  <2>6. Contents(c) \o data = [i \in 1 .. n + len |-> (Contents(c) \o data)[i]]
    BY <2>5, SequenceIsItsElements
  <2> QED BY <2>2, <2>4, <2>6
<1> QED BY <1>2, <1>4, <1>7, <1>8

\* buffer_consume takes away the first bytes, as buffer_get does.
LEMMA ConsumeTakes ==
  ASSUME NEW Unit, NEW b, IsBuffer(Unit, b), NEW n \in 0 .. buffer_len(b)
  PROVE  /\ IsBuffer(Unit, buffer_consume(b, n))
         /\ Contents(buffer_consume(b, n)) = SubSeq(Contents(b), n + 1, Len(Contents(b)))
<1> DEFINE mem == [i \in b.offset + n .. b.end - 1 |-> b.mem[i]]
           d == [mem |-> mem, offset |-> b.offset + n, end |-> b.end, alloc |-> b.alloc]
           len == b.end - b.offset
<1>1. b.offset \in Nat /\ b.end \in Nat /\ b.alloc \in Nat /\ b.offset + n <= b.end
      /\ len \in Nat /\ n \in 0 .. len
  BY DEF IsBuffer, buffer_len
<1>2. buffer_consume(b, n) = d
  BY DEF buffer_consume
<1>3. mem \in [b.offset + n .. b.end - 1 -> Unit]
  BY <1>1 DEF IsBuffer
<1>4. IsBuffer(Unit, d)
  BY <1>1, <1>3 DEF IsBuffer
<1>5. Contents(d) = [i \in 1 .. len - n |-> b.mem[b.offset + n + i - 1]]
  <2>1. Contents(d) = [i \in 1 .. b.end - (b.offset + n) |-> mem[(b.offset + n) + i - 1]]
    BY DEF Contents, buffer_len
  <2>2. b.end - (b.offset + n) = len - n
    BY <1>1
  <2>3. \A i \in 1 .. len - n : mem[(b.offset + n) + i - 1] = b.mem[b.offset + n + i - 1]
    BY <1>1
  <2> QED BY <2>1, <2>2, <2>3
<1>6. Contents(b) \in Seq(Unit) /\ Len(Contents(b)) = len
  BY ContentsAreUnits
<1>7. SubSeq(Contents(b), n + 1, len) = [i \in 1 .. len - n |-> Contents(b)[i + n]]
  <2> DEFINE s == Contents(b)
  <2>1. s \in Seq(Unit) /\ Len(s) = len
    BY <1>6
  <2> HIDE DEF s
  <2> QED BY <1>1, <2>1
<1>8. \A i \in 1 .. len - n : Contents(b)[i + n] = b.mem[b.offset + n + i - 1]
  BY <1>1 DEF Contents, buffer_len
<1> QED BY <1>2, <1>4, <1>5, <1>6, <1>7, <1>8

\* buffer_consume_end takes away the last bytes.
LEMMA ConsumeEndTakes ==
  ASSUME NEW Unit, NEW b, IsBuffer(Unit, b), NEW n \in 0 .. buffer_len(b)
  PROVE  /\ IsBuffer(Unit, buffer_consume_end(b, n))
         /\ Contents(buffer_consume_end(b, n)) = SubSeq(Contents(b), 1, Len(Contents(b)) - n)
<1> DEFINE mem == [i \in b.offset .. b.end - n - 1 |-> b.mem[i]]
           d == [mem |-> mem, offset |-> b.offset, end |-> b.end - n, alloc |-> b.alloc]
           len == b.end - b.offset
<1>1. b.offset \in Nat /\ b.end \in Nat /\ b.alloc \in Nat /\ b.offset + n <= b.end
      /\ b.end <= b.alloc /\ len \in Nat /\ n \in 0 .. len
  BY DEF IsBuffer, buffer_len
<1>2. buffer_consume_end(b, n) = d
  BY DEF buffer_consume_end
<1>3. mem \in [b.offset .. b.end - n - 1 -> Unit]
  BY <1>1 DEF IsBuffer
<1>4. IsBuffer(Unit, d)
  BY <1>1, <1>3 DEF IsBuffer
<1>5. Contents(d) = [i \in 1 .. len - n |-> b.mem[b.offset + i - 1]]
  <2>1. Contents(d) = [i \in 1 .. (b.end - n) - b.offset |-> mem[b.offset + i - 1]]
    BY DEF Contents, buffer_len
  <2>2. (b.end - n) - b.offset = len - n
    BY <1>1
  <2>3. \A i \in 1 .. len - n : mem[b.offset + i - 1] = b.mem[b.offset + i - 1]
    BY <1>1
  <2> QED BY <2>1, <2>2, <2>3
<1>6. Contents(b) \in Seq(Unit) /\ Len(Contents(b)) = len
  BY ContentsAreUnits
<1>7. SubSeq(Contents(b), 1, len - n) = [i \in 1 .. len - n |-> Contents(b)[i]]
  <2> DEFINE s == Contents(b)
  <2>1. s \in Seq(Unit) /\ Len(s) = len
    BY <1>6
  <2> HIDE DEF s
  <2> QED BY <1>1, <2>1
<1>8. \A i \in 1 .. len - n : Contents(b)[i] = b.mem[b.offset + i - 1]
  BY <1>1 DEF Contents, buffer_len
<1> QED BY <1>2, <1>4, <1>5, <1>6, <1>7, <1>8

-----------------------------------------------------------------------------
(* A buffer and any use of it that keeps to what there is: the callers     *)
(* that ask for more end in fatal.                                         *)

CONSTANT Bytes    \* what the buffer holds

VARIABLE buf

BufferInit == buf = buffer_init

BufferNext ==
  \/ \E data \in Seq(Bytes) : buf' = buffer_append(buf, data)
  \/ \E n \in 0 .. buffer_len(buf) : buf' = buffer_consume(buf, n)
  \/ \E n \in 0 .. buffer_len(buf) : buf' = buffer_consume_end(buf, n)
  \/ buf' = buffer_clear(buf)

BufferSpec == BufferInit /\ [][BufferNext]_buf

Queue == INSTANCE ByteQueue WITH content <- Contents(buf), Unit <- Bytes

LEMMA ClearEmpties ==
  ASSUME NEW Unit, NEW b, IsBuffer(Unit, b)
  PROVE  IsBuffer(Unit, buffer_clear(b)) /\ Contents(buffer_clear(b)) = << >>
<1>1. buffer_clear(b) = [mem |-> << >>, offset |-> 0, end |-> 0, alloc |-> b.alloc]
  BY DEF buffer_clear, IsBuffer
<1>2. << >> \in [0 .. 0 - 1 -> Unit]
  OBVIOUS
<1> QED BY <1>1, <1>2 DEF IsBuffer, Contents, buffer_len

\* Every step keeps the buffer inside what is allocated, and is a step of the queue.
LEMMA StepIsAQueueStep ==
  ASSUME IsBuffer(Bytes, buf), BufferNext
  PROVE  IsBuffer(Bytes, buf') /\ (Queue!Add \/ Queue!TakeFirst \/ Queue!TakeLast \/ Queue!Clear)
<1>1. CASE \E data \in Seq(Bytes) : buf' = buffer_append(buf, data)
  <2>1. PICK data \in Seq(Bytes) : buf' = buffer_append(buf, data)
    BY <1>1
  <2>2. IsBuffer(Bytes, buf') /\ Contents(buf)' = Contents(buf) \o data
    BY <2>1, AppendAppends
  <2> QED BY <2>2 DEF Queue!Add
<1>2. CASE \E n \in 0 .. buffer_len(buf) : buf' = buffer_consume(buf, n)
  <2>1. PICK n \in 0 .. buffer_len(buf) : buf' = buffer_consume(buf, n)
    BY <1>2
  <2>2. IsBuffer(Bytes, buf') /\ Contents(buf)' = SubSeq(Contents(buf), n + 1, Len(Contents(buf)))
    BY <2>1, ConsumeTakes
  <2>3. n \in 0 .. Len(Contents(buf))
    BY ContentsAreUnits DEF buffer_len
  <2> QED BY <2>2, <2>3 DEF Queue!TakeFirst
<1>3. CASE \E n \in 0 .. buffer_len(buf) : buf' = buffer_consume_end(buf, n)
  <2>1. PICK n \in 0 .. buffer_len(buf) : buf' = buffer_consume_end(buf, n)
    BY <1>3
  <2>2. IsBuffer(Bytes, buf') /\ Contents(buf)' = SubSeq(Contents(buf), 1, Len(Contents(buf)) - n)
    BY <2>1, ConsumeEndTakes
  <2>3. n \in 0 .. Len(Contents(buf))
    BY ContentsAreUnits DEF buffer_len
  <2> QED BY <2>2, <2>3 DEF Queue!TakeLast
<1>4. CASE buf' = buffer_clear(buf)
  BY <1>4, ClearEmpties DEF Queue!Clear
<1> QED BY <1>1, <1>2, <1>3, <1>4 DEF BufferNext

\* A buffer stays inside what was allocated for it (buffer_append_space), for every
\* initial allocation and increment and any use.
THEOREM BuffersStayInside == BufferSpec => []WellFormed(buf)
<1>1. BufferInit => IsBuffer(Bytes, buf)
  BY InitIsBuffer DEF BufferInit
<1>2. IsBuffer(Bytes, buf) /\ [BufferNext]_buf => IsBuffer(Bytes, buf)'
  BY StepIsAQueueStep DEF IsBuffer
<1>3. IsBuffer(Bytes, buf) => WellFormed(buf)
  BY BuffersAreWellFormed
<1> QED BY <1>1, <1>2, <1>3, PTL DEF BufferSpec

\* A buffer is a queue of bytes: compacting and enlarging it (buffer_append_space)
\* neither loses, nor repeats, nor reorders what it holds.
THEOREM BufferIsAQueue == BufferSpec => Queue!Spec
<1>1. BufferInit => Queue!Init /\ IsBuffer(Bytes, buf)
  BY InitIsBuffer DEF BufferInit, Queue!Init
<1>2. IsBuffer(Bytes, buf) /\ [BufferNext]_buf
      => IsBuffer(Bytes, buf)' /\ [Queue!Add \/ Queue!TakeFirst \/ Queue!TakeLast \/ Queue!Clear]_(Contents(buf))
  <2> SUFFICES ASSUME IsBuffer(Bytes, buf), [BufferNext]_buf
               PROVE  IsBuffer(Bytes, buf)' /\ [Queue!Add \/ Queue!TakeFirst \/ Queue!TakeLast
                                         \/ Queue!Clear]_(Contents(buf))
    OBVIOUS
  <2>1. CASE BufferNext
    BY <2>1, StepIsAQueueStep
  <2>2. CASE UNCHANGED buf
    BY <2>2 DEF IsBuffer, Contents, buffer_len
  <2> QED BY <2>1, <2>2
<1> QED BY <1>1, <1>2, PTL DEF BufferSpec, Queue!Spec

-----------------------------------------------------------------------------
(* What the callers do, as tables.                                         *)

One(b) == IF b THEN 1 ELSE 0

\* How many messages of its script an end has sent, and read, before a step.
Sends(g, e, pc) ==
  IF e = "client"
  THEN One(pc > 2) + One(pc > 6) + One(pc > 9) + One(g.compression /\ pc > 13)
  ELSE One(pc > 1) + One(pc > 5) + One(pc > 10) + One(g.compression /\ pc > 13)
Reads(g, e, pc) ==
  IF e = "client"
  THEN One(pc > 1) + One(pc > 5) + One(pc > 8) + One(g.compression /\ pc > 11)
  ELSE One(pc > 3) + One(pc > 7) + One(pc > 12) + One(g.compression /\ pc > 16)

\* How many there are before the session, and which they are.
Total(g) == IF g.compression THEN 4 ELSE 3
Said(g, e, k) ==
  CASE k = 1 -> IF e = "client" THEN "SESSION_KEY" ELSE "PUBLIC_KEY"
    [] k = 2 -> IF e = "client" THEN "USER" ELSE "SUCCESS"
    [] k > 2 -> IF e = "server" THEN "SUCCESS"
                ELSE IF g.compression /\ k = 3 THEN "REQUEST_COMPRESSION" ELSE "EXEC_CMD"

\* The last step, and the one at which compression starts.
Last(g, e) == IF e = "client" THEN IF g.compression THEN 15 ELSE 11
              ELSE IF g.compression THEN 17 ELSE 13
Packing(e) == IF e = "client" THEN 12 ELSE 15

\* The messages of an end that are compressed: those after so many others.
Packs(e, k) == k >= (IF e = "client" THEN 3 ELSE 4)

-----------------------------------------------------------------------------
(* The scripts, step by step.                                              *)

LEMMA ClientPacks ==
  ASSUME cfg.compression
  PROVE  /\ DOMAIN Script("client") = 1 .. 15
         /\ Script("client")[1] = Op("read", "PUBLIC_KEY")
         /\ Script("client")[2] = Op("send", "SESSION_KEY")
         /\ Script("client")[3] = Op("wait", "none")
         /\ Script("client")[4] = Op("key", "none")
         /\ Script("client")[5] = Op("read", "SUCCESS")
         /\ Script("client")[6] = Op("send", "USER")
         /\ Script("client")[7] = Op("wait", "none")
         /\ Script("client")[8] = Op("read", "SUCCESS")
         /\ Script("client")[9] = Op("send", "REQUEST_COMPRESSION")
         /\ Script("client")[10] = Op("wait", "none")
         /\ Script("client")[11] = Op("read", "SUCCESS")
         /\ Script("client")[12] = Op("compress", "none")
         /\ Script("client")[13] = Op("send", "EXEC_CMD")
         /\ Script("client")[14] = Op("wait", "none")
         /\ Script("client")[15] = Op("session", "none")
BY DEF Script, ssh_login, ssh_main, Op

LEMMA ClientDoesNotPack ==
  ASSUME ~cfg.compression
  PROVE  /\ DOMAIN Script("client") = 1 .. 11
         /\ Script("client")[1] = Op("read", "PUBLIC_KEY")
         /\ Script("client")[2] = Op("send", "SESSION_KEY")
         /\ Script("client")[3] = Op("wait", "none")
         /\ Script("client")[4] = Op("key", "none")
         /\ Script("client")[5] = Op("read", "SUCCESS")
         /\ Script("client")[6] = Op("send", "USER")
         /\ Script("client")[7] = Op("wait", "none")
         /\ Script("client")[8] = Op("read", "SUCCESS")
         /\ Script("client")[9] = Op("send", "EXEC_CMD")
         /\ Script("client")[10] = Op("wait", "none")
         /\ Script("client")[11] = Op("session", "none")
BY DEF Script, ssh_login, ssh_main, Op

LEMMA ServerPacks ==
  ASSUME cfg.compression
  PROVE  /\ DOMAIN Script("server") = 1 .. 17
         /\ Script("server")[1] = Op("send", "PUBLIC_KEY")
         /\ Script("server")[2] = Op("wait", "none")
         /\ Script("server")[3] = Op("read", "SESSION_KEY")
         /\ Script("server")[4] = Op("key", "none")
         /\ Script("server")[5] = Op("send", "SUCCESS")
         /\ Script("server")[6] = Op("wait", "none")
         /\ Script("server")[7] = Op("read", "USER")
         /\ Script("server")[8] = Op("debug", "none")
         /\ Script("server")[9] = Op("wait", "none")
         /\ Script("server")[10] = Op("send", "SUCCESS")
         /\ Script("server")[11] = Op("wait", "none")
         /\ Script("server")[12] = Op("read", "REQUEST_COMPRESSION")
         /\ Script("server")[13] = Op("send", "SUCCESS")
         /\ Script("server")[14] = Op("wait", "none")
         /\ Script("server")[15] = Op("compress", "none")
         /\ Script("server")[16] = Op("read", "EXEC_CMD")
         /\ Script("server")[17] = Op("session", "none")
BY DEF Script, do_connection, do_authentication, do_authenticated, Op

LEMMA ServerDoesNotPack ==
  ASSUME ~cfg.compression
  PROVE  /\ DOMAIN Script("server") = 1 .. 13
         /\ Script("server")[1] = Op("send", "PUBLIC_KEY")
         /\ Script("server")[2] = Op("wait", "none")
         /\ Script("server")[3] = Op("read", "SESSION_KEY")
         /\ Script("server")[4] = Op("key", "none")
         /\ Script("server")[5] = Op("send", "SUCCESS")
         /\ Script("server")[6] = Op("wait", "none")
         /\ Script("server")[7] = Op("read", "USER")
         /\ Script("server")[8] = Op("debug", "none")
         /\ Script("server")[9] = Op("wait", "none")
         /\ Script("server")[10] = Op("send", "SUCCESS")
         /\ Script("server")[11] = Op("wait", "none")
         /\ Script("server")[12] = Op("read", "EXEC_CMD")
         /\ Script("server")[13] = Op("session", "none")
BY DEF Script, do_connection, do_authentication, do_authenticated, Op

\* What each step has to do with the messages sent and read so far: what is
\* sent or read is the next one, keys are there from the first message on, and
\* compression from the last step that may not be compressed.
LEMMA ScriptTable ==
  ASSUME NEW e \in End, cfg.compression \in BOOLEAN, NEW pc \in 1 .. Last(cfg, e)
  PROVE  LET do == Script(e)[pc].do
             what == Script(e)[pc].what
             sends == Sends(cfg, e, pc)
             reads == Reads(cfg, e, pc)
             reading == do \in {"read", "session"}
             sending == do \in {"send", "debug", "session"}
         IN /\ DOMAIN Script(e) = 1 .. Last(cfg, e)
            /\ do \in {"send", "read", "wait", "key", "debug", "compress", "session"}
            /\ sends \in 0 .. Total(cfg) /\ reads \in 0 .. Total(cfg)
            /\ do # "session" => pc + 1 \in 1 .. Last(cfg, e)
            /\ do = "send" => /\ what = Said(cfg, e, sends + 1) /\ sends < Total(cfg)
                              /\ Sends(cfg, e, pc + 1) = sends + 1
            /\ do \notin {"send", "session"} => Sends(cfg, e, pc + 1) = sends
            /\ do = "read" => /\ what = Said(cfg, Peer(e), reads + 1) /\ reads < Total(cfg)
                              /\ Reads(cfg, e, pc + 1) = reads + 1
            /\ do \notin {"read", "session"} => Reads(cfg, e, pc + 1) = reads
            /\ do = "session" => sends = Total(cfg) /\ reads = Total(cfg)
            /\ do = "key" <=> pc = 4
            /\ do = "compress" <=> (cfg.compression /\ pc = Packing(e))
            /\ reading => /\ reads >= 1 <=> pc > 4
                          /\ cfg.compression => (Packs(Peer(e), reads) <=> pc > Packing(e))
            /\ sending => /\ sends >= 1 <=> pc > 4
                          /\ cfg.compression => (Packs(e, sends) <=> pc > Packing(e))
<1>1. CASE e = "client" /\ cfg.compression
  BY <1>1, ClientPacks DEF End, Peer, Last, Sends, Reads, One, Total, Said, Packs, Packing, Op
<1>2. CASE e = "client" /\ ~cfg.compression
  BY <1>2, ClientDoesNotPack DEF End, Peer, Last, Sends, Reads, One, Total, Said, Packs, Packing, Op
<1>3. CASE e = "server" /\ cfg.compression
  BY <1>3, ServerPacks DEF End, Peer, Last, Sends, Reads, One, Total, Said, Packs, Packing, Op
<1>4. CASE e = "server" /\ ~cfg.compression
  BY <1>4, ServerDoesNotPack DEF End, Peer, Last, Sends, Reads, One, Total, Said, Packs, Packing, Op
<1> QED
  BY <1>1, <1>2, <1>3, <1>4 DEF End

-----------------------------------------------------------------------------
(* Units between two ends.                                                 *)

Units == [len : Nat, msg : Message, k : Nat, crypt : [key : Nat, at : Nat], flate : Nat]

\* How far an end is with what it sends, or with what it receives: the messages
\* of the script, the blocks encrypted, the packets compressed, and the messages
\* the callers know of.
Places == [rank : Nat, crypt : Nat, flate : Nat, vis : Nat]

Scripted(m) == m.type \notin {"DEBUG", "DISCONNECT", "DATA"}
Visible(m)  == m.type \notin {"DEBUG", "DISCONNECT"}

\* The place after a message of end s, with set-up g.
After(g, s, p, m) ==
  [rank  |-> IF Scripted(m) THEN p.rank + 1 ELSE p.rank,
   crypt |-> IF p.rank >= 1 THEN p.crypt + Blocks(m) ELSE p.crypt,
   flate |-> IF g.compression /\ Packs(s, p.rank) THEN p.flate + 1 ELSE p.flate,
   vis   |-> IF Visible(m) THEN p.vis + 1 ELSE p.vis]

\* The key of a direction, and the k-th unit of a message sent at a place.
KeyOf(g, s) == IF g.cipher = "arcfour" /\ s # "server" THEN 2 ELSE 1
UnitOf(g, s, p, m, k) ==
  IF k = 1 THEN [len |-> Blocks(m), msg |-> m, k |-> 0, crypt |-> NoKey, flate |-> 0]
  ELSE [len |-> 0, msg |-> m, k |-> k - 1,
        crypt |-> IF p.rank = 0 THEN NoKey
                  ELSE [key |-> KeyOf(g, s), at |-> p.crypt + k - 2],
        flate |-> IF g.compression /\ Packs(s, p.rank) THEN p.flate + 1 ELSE 0]

\* A message that may be sent at a place.
Due(g, s, p, m, post) ==
  /\ Scripted(m) => p.rank < Total(g) /\ m.type = Said(g, s, p.rank + 1)
  /\ m.type = "DATA" => p.rank = Total(g)
  /\ Visible(m) => p.vis + 1 \in 1 .. Len(post) /\ post[p.vis + 1] = m

\* n messages q of s, one after the other: at lists what comes before each in
\* units, place where the ends are then.
Route(g, s, n, q, at, place, post) ==
  /\ n \in Nat /\ q \in [1 .. n -> Message]
  /\ at \in [1 .. n + 1 -> Nat] /\ place \in [1 .. n + 1 -> Places]
  /\ at[1] = 0 /\ \A i, j \in 1 .. n + 1 : i <= j => at[i] <= at[j]
  /\ \A i \in 1 .. n : /\ Due(g, s, place[i], q[i], post)
                       /\ at[i + 1] = at[i] + Blocks(q[i]) + 1
                       /\ place[i + 1] = After(g, s, place[i], q[i])

\* The units U are those messages, of which the last may not be there.
Carries(g, s, n, q, at, place, U) ==
  /\ Len(U) <= at[n + 1]
  /\ \A i \in 1 .. n : \A k \in 1 .. Blocks(q[i]) + 1 :
       at[i] + k <= Len(U) => U[at[i] + k] = UnitOf(g, s, place[i], q[i], k)

\* What is between a receiver at R and a sender at S who is still there (live).
Flow(g, s, U, R, S, live, post) ==
  \E n \in Nat : \E q \in [1 .. n -> Message], at \in [1 .. n + 1 -> Nat],
                    place \in [1 .. n + 1 -> Places] :
    /\ Route(g, s, n, q, at, place, post) /\ Carries(g, s, n, q, at, place, U)
    /\ place[1] = R
    /\ live => Len(U) = at[n + 1] /\ place[n + 1] = S

LEMMA BlocksAre == ASSUME NEW m \in Message PROVE Blocks(m) \in 1 .. 2
BY DEF Blocks

\* An end that has more to say has a place for it.
LEMMA AfterIsAPlace ==
  ASSUME NEW g, NEW s, NEW p \in Places, NEW m \in Message
  PROVE  After(g, s, p, m) \in Places
BY BlocksAre DEF After, Places

LEMMA FlowBegins ==
  ASSUME NEW g, NEW s, NEW Z \in Places, NEW post
  PROVE  Flow(g, s, << >>, Z, Z, TRUE, post)
<1> DEFINE at == [i \in 1 .. 0 + 1 |-> 0]
           place == [i \in 1 .. 0 + 1 |-> Z]
           q == [i \in 1 .. 0 |-> CHOOSE m \in Message : TRUE]
<1>1. /\ q \in [1 .. 0 -> Message] /\ at \in [1 .. 0 + 1 -> Nat]
      /\ place \in [1 .. 0 + 1 -> Places]
  OBVIOUS
<1>2. at[1] = 0 /\ at[0 + 1] = 0 /\ place[1] = Z /\ place[0 + 1] = Z
  OBVIOUS
<1> HIDE DEF at, place, q
<1>3. Route(g, s, 0, q, at, place, post)
  BY <1>1, <1>2 DEF Route
<1>4. Carries(g, s, 0, q, at, place, << >>)
  BY <1>2 DEF Carries
<1> QED
  BY <1>1, <1>2, <1>3, <1>4 DEF Flow

\* What was lost at the end, and what more was posted, does not matter.
LEMMA FlowWeakens ==
  ASSUME NEW g, NEW s, NEW U \in Seq(Units), NEW V \in Seq(Units), NEW R, NEW S, NEW T,
         NEW live \in BOOLEAN, NEW live2 \in BOOLEAN, NEW post \in Seq(Message), NEW post2 \in Seq(Message),
         Flow(g, s, U, R, S, live, post),
         Len(V) <= Len(U), \A i \in 1 .. Len(V) : V[i] = U[i],
         live2 => live /\ V = U /\ T = S,
         Len(post) <= Len(post2), \A i \in 1 .. Len(post) : post2[i] = post[i]
  PROVE  Flow(g, s, V, R, T, live2, post2)
<1>1. PICK n \in Nat : \E q \in [1 .. n -> Message], at \in [1 .. n + 1 -> Nat],
                          place \in [1 .. n + 1 -> Places] :
        /\ Route(g, s, n, q, at, place, post) /\ Carries(g, s, n, q, at, place, U)
        /\ place[1] = R
        /\ live => Len(U) = at[n + 1] /\ place[n + 1] = S
  BY DEF Flow
<1>2. PICK q \in [1 .. n -> Message], at \in [1 .. n + 1 -> Nat], place \in [1 .. n + 1 -> Places] :
        /\ Route(g, s, n, q, at, place, post) /\ Carries(g, s, n, q, at, place, U)
        /\ place[1] = R
        /\ live => Len(U) = at[n + 1] /\ place[n + 1] = S
  BY <1>1
<1>3. ASSUME NEW i \in 1 .. n, Due(g, s, place[i], q[i], post) PROVE Due(g, s, place[i], q[i], post2)
  BY <1>3 DEF Due
<1>4. Route(g, s, n, q, at, place, post2)
  BY <1>2, <1>3 DEF Route
<1>5. Carries(g, s, n, q, at, place, V)
  <2>1. Len(V) <= at[n + 1]
    BY <1>2 DEF Carries
  <2>2. ASSUME NEW i \in 1 .. n, NEW k \in 1 .. Blocks(q[i]) + 1, at[i] + k <= Len(V)
        PROVE  V[at[i] + k] = UnitOf(g, s, place[i], q[i], k)
    <3>1. at[i] \in Nat /\ k \in Nat \ {0}
      BY BlocksAre
    <3>2. U[at[i] + k] = UnitOf(g, s, place[i], q[i], k)
      BY <1>2, <2>2, <3>1 DEF Carries
    <3> QED
      BY <2>2, <3>1, <3>2
  <2> QED
    BY <2>1, <2>2 DEF Carries
<1>6. live2 => Len(V) = at[n + 1] /\ place[n + 1] = T
  BY <1>2
<1> QED
  BY <1>2, <1>4, <1>5, <1>6 DEF Flow

\* post2 goes on where post ends.
Extends(post, post2) ==
  /\ post \in Seq(Message) /\ post2 \in Seq(Message) /\ Len(post) <= Len(post2)
  /\ \A i \in 1 .. Len(post) : post2[i] = post[i]

LEMMA FlowGrows ==
  ASSUME NEW g, NEW s, NEW U \in Seq(Units), NEW R, NEW S, NEW live \in BOOLEAN, NEW post, NEW post2,
         Flow(g, s, U, R, S, live, post), Extends(post, post2)
  PROVE  Flow(g, s, U, R, S, live, post2)
BY FlowWeakens DEF Extends

\* The units W are m, sent at place p.
IsCut(g, s, p, m, W) ==
  /\ W \in Seq(Units) /\ Len(W) = Blocks(m) + 1
  /\ \A k \in 1 .. Len(W) : W[k] = UnitOf(g, s, p, m, k)

\* The sender adds a message.
LEMMA FlowIsSent ==
  ASSUME NEW g, NEW s, NEW U \in Seq(Units), NEW W \in Seq(Units), NEW R, NEW S \in Places,
         NEW post, NEW m \in Message,
         Flow(g, s, U, R, S, TRUE, post), Due(g, s, S, m, post), IsCut(g, s, S, m, W)
  PROVE  Flow(g, s, U \o W, R, After(g, s, S, m), TRUE, post)
<1>0. Len(W) = Blocks(m) + 1 /\ \A k \in 1 .. Len(W) : W[k] = UnitOf(g, s, S, m, k)
  BY DEF IsCut
<1>1. PICK n \in Nat : \E q \in [1 .. n -> Message], at \in [1 .. n + 1 -> Nat],
                          place \in [1 .. n + 1 -> Places] :
        /\ Route(g, s, n, q, at, place, post) /\ Carries(g, s, n, q, at, place, U)
        /\ place[1] = R
        /\ Len(U) = at[n + 1] /\ place[n + 1] = S
  BY DEF Flow
<1>2. PICK q \in [1 .. n -> Message], at \in [1 .. n + 1 -> Nat], place \in [1 .. n + 1 -> Places] :
        /\ Route(g, s, n, q, at, place, post) /\ Carries(g, s, n, q, at, place, U)
        /\ place[1] = R
        /\ Len(U) = at[n + 1] /\ place[n + 1] = S
  BY <1>1
<1> DEFINE N == n + 1
           T == After(g, s, S, m)
           end2 == Len(U) + Blocks(m) + 1
           q2 == [i \in 1 .. N |-> IF i = N THEN m ELSE q[i]]
           at2 == [i \in 1 .. N + 1 |-> IF i = N + 1 THEN end2 ELSE at[i]]
           place2 == [i \in 1 .. N + 1 |-> IF i = N + 1 THEN T ELSE place[i]]
<1>3. N \in Nat /\ T \in Places /\ Len(U) \in Nat /\ Blocks(m) \in 1 .. 2 /\ end2 \in Nat
  BY AfterIsAPlace, BlocksAre
<1>4. q2 \in [1 .. N -> Message] /\ at2 \in [1 .. N + 1 -> Nat] /\ place2 \in [1 .. N + 1 -> Places]
  <2> HIDE DEF T, end2
  <2> QED
    BY <1>3
<1>5. \A i \in 1 .. n : q2[i] = q[i]
  OBVIOUS
<1>6. \A i \in 1 .. N : at2[i] = at[i] /\ place2[i] = place[i]
  <2> HIDE DEF T, end2
  <2> QED
    OBVIOUS
<1>7. q2[N] = m /\ at2[N + 1] = end2 /\ place2[N + 1] = T
  <2> HIDE DEF T, end2
  <2> QED
    OBVIOUS
<1>8. at2[N] = Len(U) /\ place2[N] = S
  BY <1>2, <1>6
<1> HIDE DEF q2, at2, place2
<1>9. Route(g, s, N, q2, at2, place2, post)
  <2>1. at2[1] = 0
    BY <1>2, <1>6 DEF Route
  <2>2. ASSUME NEW i \in 1 .. N
        PROVE  /\ Due(g, s, place2[i], q2[i], post)
               /\ at2[i + 1] = at2[i] + Blocks(q2[i]) + 1
               /\ place2[i + 1] = After(g, s, place2[i], q2[i])
    <3>1. CASE i = N
      BY <3>1, <1>3, <1>7, <1>8
    <3>2. CASE i # N
      <4>1. i \in 1 .. n /\ i + 1 \in 1 .. N
        BY <3>2
      <4> HIDE DEF N
      <4> QED
        BY <4>1, <1>2, <1>5, <1>6 DEF Route
    <3> QED
      BY <3>1, <3>2
  <2>3. ASSUME NEW i \in 1 .. N + 1, NEW j \in 1 .. N + 1, i <= j
        PROVE  at2[i] <= at2[j]
    <3>1. \A a \in 1 .. N : at2[a] = at[a] /\ at[a] \in Nat
      BY <1>6
    <3>2. \A a, b \in 1 .. N : a <= b => at[a] <= at[b]
      BY <1>2 DEF Route
    <3>3. \A a \in 1 .. N : at[a] <= end2
      BY <3>1, <3>2, <1>2, <1>3
    <3>4. end2 <= end2 /\ at2[N + 1] = end2
      BY <1>3, <1>7
    <3> HIDE DEF end2
    <3> QED
      BY <3>1, <3>2, <3>3, <3>4, <2>3, <1>3
  <2> HIDE DEF N
  <2> QED
    BY <2>1, <2>2, <2>3, <1>3, <1>4 DEF Route
<1>10. U \o W \in Seq(Units) /\ Len(U \o W) = end2
       /\ (\A i \in 1 .. Len(U) : (U \o W)[i] = U[i])
       /\ (\A i \in 1 .. Len(W) : (U \o W)[Len(U) + i] = W[i])
  BY <1>0, <1>3
<1> DEFINE V == U \o W
<1>11. Carries(g, s, N, q2, at2, place2, V)
  <2> HIDE DEF V
  <2>1. Len(V) <= at2[N + 1]
    BY <1>3, <1>7, <1>10 DEF V
  <2>2. ASSUME NEW i \in 1 .. N, NEW k \in 1 .. Blocks(q2[i]) + 1, at2[i] + k <= Len(V)
        PROVE  V[at2[i] + k] = UnitOf(g, s, place2[i], q2[i], k)
    <3>1. CASE i = N
      <4>1. k \in 1 .. Len(W)
        BY <3>1, <1>0, <1>7
      <4>2. V[Len(U) + k] = W[k]
        BY <4>1, <1>10 DEF V
      <4> QED
        BY <3>1, <4>1, <4>2, <1>0, <1>7, <1>8
    <3>2. CASE i # N
      <4>1. i \in 1 .. n /\ i + 1 \in 1 .. N /\ q2[i] = q[i] /\ at2[i] = at[i] /\ place2[i] = place[i]
        BY <3>2, <1>5, <1>6
      <4>2. Blocks(q[i]) \in 1 .. 2 /\ at[i] \in Nat
        BY <4>1, BlocksAre
      <4>3. at[i] + k <= Len(U)
        <5>1. at[i + 1] = at[i] + Blocks(q[i]) + 1 /\ at[i + 1] <= at[N] /\ at[N] = Len(U)
          BY <4>1, <1>2 DEF Route
        <5> QED
          BY <4>1, <4>2, <5>1, <1>3, SMTT(60)
      <4>4. U[at[i] + k] = UnitOf(g, s, place[i], q[i], k)
        BY <4>1, <4>2, <4>3, <1>2 DEF Carries
      <4>5. at[i] + k \in 1 .. Len(U)
        BY <4>2, <4>3, <1>3
      <4>6. V[at[i] + k] = U[at[i] + k]
        BY <4>5, <1>10 DEF V
      <4> QED
        BY <4>1, <4>4, <4>6
    <3> QED
      BY <3>1, <3>2
  <2> HIDE DEF N
  <2> QED
    BY <2>1, <2>2 DEF Carries
<1>12. place2[1] = R /\ Len(V) = at2[N + 1] /\ place2[N + 1] = T
  BY <1>2, <1>6, <1>7, <1>10
<1> HIDE DEF N, T, V
<1>13. Flow(g, s, V, R, T, TRUE, post)
  BY <1>3, <1>4, <1>9, <1>11, <1>12 DEF Flow
<1> QED
  BY <1>13 DEF V, T

LEMMA OffsetsShift ==
  ASSUME NEW x \in Nat, NEW y \in Nat, NEW B \in Nat
  PROVE  /\ x <= y => x - B <= y - B
         /\ \A b \in Nat : y = x + b + 1 => y - B = (x - B) + b + 1
OBVIOUS

\* The receiver finds, if anything, the beginning of a message it may be sent at
\* its place; if all of it is there, it can take it and be at the next place.
LEMMA FlowIsTaken ==
  ASSUME NEW g, NEW s, NEW U \in Seq(Units), NEW R \in Places, NEW S, NEW live \in BOOLEAN, NEW post,
         Flow(g, s, U, R, S, live, post), Len(U) >= 1
  PROVE  \E m \in Message :
           /\ Due(g, s, R, m, post)
           /\ \A k \in 1 .. Blocks(m) + 1 : k <= Len(U) => U[k] = UnitOf(g, s, R, m, k)
           /\ Blocks(m) + 1 <= Len(U)
              => Flow(g, s, SubSeq(U, Blocks(m) + 2, Len(U)), After(g, s, R, m), S, live, post)
<1>1. PICK n \in Nat : \E q \in [1 .. n -> Message], at \in [1 .. n + 1 -> Nat],
                          place \in [1 .. n + 1 -> Places] :
        /\ Route(g, s, n, q, at, place, post) /\ Carries(g, s, n, q, at, place, U)
        /\ place[1] = R
        /\ live => Len(U) = at[n + 1] /\ place[n + 1] = S
  BY DEF Flow
<1>2. PICK q \in [1 .. n -> Message], at \in [1 .. n + 1 -> Nat], place \in [1 .. n + 1 -> Places] :
        /\ Route(g, s, n, q, at, place, post) /\ Carries(g, s, n, q, at, place, U)
        /\ place[1] = R
        /\ live => Len(U) = at[n + 1] /\ place[n + 1] = S
  BY <1>1
<1>3. n # 0
  <2>1. at[1] = 0 /\ Len(U) <= at[n + 1] /\ Len(U) \in Nat
    BY <1>2 DEF Route, Carries
  <2> QED
    BY <2>1
<1> DEFINE m == q[1]
           B == Blocks(m) + 1
           V == SubSeq(U, Blocks(m) + 2, Len(U))
           N == n - 1
           q2 == [i \in 1 .. N |-> q[i + 1]]
           at2 == [i \in 1 .. N + 1 |-> at[i + 1] - B]
           place2 == [i \in 1 .. N + 1 |-> place[i + 1]]
<1>4. 1 \in 1 .. n /\ N \in Nat /\ m \in Message /\ Blocks(m) \in 1 .. 2 /\ B \in 2 .. 3
  BY <1>3, BlocksAre
<1>5. /\ Due(g, s, R, m, post) /\ at[1] = 0 /\ at[2] = B
      /\ place[2] = After(g, s, R, m)
  <2>1. at[1] = 0 /\ at[1 + 1] = at[1] + Blocks(m) + 1
        /\ Due(g, s, place[1], m, post) /\ place[1 + 1] = After(g, s, place[1], m)
    BY <1>2, <1>4 DEF Route
  <2> QED
    BY <2>1, <1>2, <1>4
<1>6. \A k \in 1 .. B : k <= Len(U) => U[k] = UnitOf(g, s, R, m, k)
  <2> SUFFICES ASSUME NEW k \in 1 .. B, k <= Len(U) PROVE U[k] = UnitOf(g, s, R, m, k)
    OBVIOUS
  <2>1. at[1] + k = k
    BY <1>5
  <2>2. at[1] + k <= Len(U) => U[at[1] + k] = UnitOf(g, s, place[1], m, k)
    BY <1>2, <1>4 DEF Carries
  <2> QED
    BY <2>1, <2>2, <1>2
<1>7. ASSUME B <= Len(U)
      PROVE  Flow(g, s, V, After(g, s, R, m), S, live, post)
  <2>1. ASSUME NEW i \in 1 .. n PROVE at[i + 1] - B \in Nat
    <3>1. 2 \in 1 .. n + 1 /\ i + 1 \in 1 .. n + 1 /\ 2 <= i + 1
      OBVIOUS
    <3>2. at[2] <= at[i + 1] /\ at[i + 1] \in Nat
      BY <3>1, <1>2 DEF Route
    <3> QED
      BY <3>2, <1>4, <1>5
  <2>2. q2 \in [1 .. N -> Message] /\ at2 \in [1 .. N + 1 -> Nat] /\ place2 \in [1 .. N + 1 -> Places]
    <3> HIDE DEF B, m
    <3>1. \A i \in 1 .. N + 1 : i \in 1 .. n /\ i + 1 \in 1 .. n + 1
      BY <1>4
    <3>2. \A i \in 1 .. N : i + 1 \in 1 .. n
      BY <1>4
    <3> HIDE DEF N
    <3> QED
      BY <3>1, <3>2, <2>1
  <2>3. \A i \in 1 .. N : q2[i] = q[i + 1]
    OBVIOUS
  <2>4. \A i \in 1 .. N + 1 : at2[i] = at[i + 1] - B /\ place2[i] = place[i + 1]
    <3> HIDE DEF B
    <3> QED
      OBVIOUS
  <2> HIDE DEF q2, at2, place2
  <2>5. \A i \in 1 .. N : i \in 1 .. N + 1 /\ i + 1 \in 1 .. N + 1 /\ i + 1 \in 1 .. n
    BY <1>4
  <2>6. N + 1 \in 1 .. N + 1 /\ 1 \in 1 .. N + 1 /\ N + 1 = n
    BY <1>4
  <2>7. at2[N + 1] = at[n + 1] - B /\ at2[1] = 0 /\ place2[1] = After(g, s, R, m)
        /\ place2[N + 1] = place[n + 1]
    BY <2>4, <2>6, <1>4, <1>5
  <2>8. Route(g, s, N, q2, at2, place2, post)
    <3>1. ASSUME NEW i \in 1 .. N
          PROVE  /\ Due(g, s, place2[i], q2[i], post)
                 /\ at2[i + 1] = at2[i] + Blocks(q2[i]) + 1
                 /\ place2[i + 1] = After(g, s, place2[i], q2[i])
      <4>1. i + 1 \in 1 .. n /\ i \in 1 .. N + 1 /\ i + 1 \in 1 .. N + 1
        BY <2>5
      <4>2. /\ Due(g, s, place[i + 1], q[i + 1], post)
            /\ at[i + 1 + 1] = at[i + 1] + Blocks(q[i + 1]) + 1
            /\ place[i + 1 + 1] = After(g, s, place[i + 1], q[i + 1])
        BY <4>1, <1>2 DEF Route
      <4>3. /\ q2[i] = q[i + 1] /\ place2[i] = place[i + 1] /\ place2[i + 1] = place[i + 1 + 1]
            /\ at2[i] = at[i + 1] - B /\ at2[i + 1] = at[i + 1 + 1] - B
        BY <4>1, <2>3, <2>4
      <4>4. at[i + 1] \in Nat /\ at[i + 1 + 1] \in Nat /\ at[n + 1] \in Nat /\ Blocks(q[i + 1]) \in 1 .. 2
        BY <4>1, BlocksAre
      <4>5. PICK x \in Nat, y \in Nat, b \in 1 .. 2 :
              x = at[i + 1] /\ y = at[i + 1 + 1] /\ b = Blocks(q[i + 1])
        BY <4>4
      <4>6. y = x + b + 1 /\ at2[i] = x - B /\ at2[i + 1] = y - B
        BY <4>2, <4>3, <4>5
      <4>7. at2[i + 1] = at2[i] + b + 1
        BY <4>6, <1>4, OffsetsShift, SMTT(60)
      <4> QED
        BY <4>2, <4>3, <4>5, <4>7
    <3>2. ASSUME NEW i \in 1 .. N + 1, NEW j \in 1 .. N + 1, i <= j
          PROVE  at2[i] <= at2[j]
      <4>1. i + 1 \in 1 .. n + 1 /\ j + 1 \in 1 .. n + 1 /\ i + 1 <= j + 1
        BY <3>2, <1>4
      <4>2. at[i + 1] <= at[j + 1] /\ at[i + 1] \in Nat /\ at[j + 1] \in Nat
        BY <4>1, <1>2 DEF Route
      <4>3. at2[i] = at[i + 1] - B /\ at2[j] = at[j + 1] - B
        BY <2>4
      <4> QED
        BY <4>2, <4>3, <1>4, OffsetsShift, SMTT(60)
    <3>3. \A i, j \in 1 .. N + 1 : i <= j => at2[i] <= at2[j]
      BY <3>2
    <3>4. at2[1] = 0
      BY <2>7
    <3>5. N \in Nat
      BY <1>4
    <3> HIDE DEF N, B, m
    <3> QED
      BY <3>1, <3>3, <3>4, <3>5, <2>2, ZenonT(40) DEF Route
  <2>9. V \in Seq(Units) /\ Len(V) = Len(U) - B
        /\ \A j \in 1 .. Len(V) : V[j] = U[B + j]
    <3>1. B \in 1 .. Len(U)
      <4> HIDE DEF B
      <4> QED
        BY <1>4, <1>7
    <3>2. Blocks(m) + 2 = B + 1
      <4>1. PICK b \in Nat : b = Blocks(m)
        BY <1>4
      <4> QED
        BY <4>1
    <3>3. V = SubSeq(U, B + 1, Len(U))
      BY <3>2
    <3> HIDE DEF B, V
    <3> QED
      BY <3>1, <3>3
  <2>10. Carries(g, s, N, q2, at2, place2, V)
    <3>1. Len(V) <= at2[N + 1]
      BY <1>2, <1>4, <2>7, <2>9 DEF Carries
    <3>2. ASSUME NEW i \in 1 .. N, NEW k \in 1 .. Blocks(q2[i]) + 1, at2[i] + k <= Len(V)
          PROVE  V[at2[i] + k] = UnitOf(g, s, place2[i], q2[i], k)
      <4>1. i + 1 \in 1 .. n /\ i \in 1 .. N + 1
        BY <2>5
      <4>2. q2[i] = q[i + 1] /\ place2[i] = place[i + 1] /\ at2[i] = at[i + 1] - B
        BY <4>1, <2>3, <2>4
      <4>3. Blocks(q[i + 1]) \in 1 .. 2 /\ at[i + 1] \in Nat /\ at2[i] \in Nat /\ k \in Nat \ {0}
        BY <4>1, <4>2, <2>2, BlocksAre, SMTT(60)
      <4>4. /\ at[i + 1] + k <= Len(U)
            /\ at2[i] + k \in 1 .. Len(V) /\ B + (at2[i] + k) = at[i + 1] + k
        <5>1. PICK x \in Nat, u \in Nat : x = at[i + 1] /\ u = Len(U)
          BY <4>3
        <5>2. at2[i] = x - B /\ Len(V) = u - B
          BY <4>2, <2>9, <5>1
        <5>4. PICK y \in Nat : y = at2[i]
          BY <4>3
        <5>5. y + k <= u - B /\ y = x - B
          <6> HIDE DEF V, B, N
          <6> QED
            BY <3>2, <5>2, <5>4
        <5>3. x + k <= u /\ x - B + k \in 1 .. u - B /\ B + (x - B + k) = x + k
          <6> HIDE DEF V, B, N
          <6> QED
            BY <5>5, <4>3, <1>4
        <5> QED
          BY <5>1, <5>2, <5>3
      <4>5. U[at[i + 1] + k] = UnitOf(g, s, place[i + 1], q[i + 1], k)
        BY <4>1, <4>2, <4>4, <1>2 DEF Carries
      <4>7. V[at2[i] + k] = U[at[i + 1] + k]
        <5> HIDE DEF B, V
        <5> QED
          BY <4>4, <2>9
      <4> QED
        BY <4>2, <4>5, <4>7
    <3> HIDE DEF V, N
    <3> QED
      BY <3>1, <3>2 DEF Carries
  <2>11. live => Len(V) = at2[N + 1] /\ place2[N + 1] = S
    BY <1>2, <2>7, <2>9
  <2> HIDE DEF V, N, B
  <2> QED
    BY <1>4, <2>2, <2>7, <2>8, <2>10, <2>11 DEF Flow
<1> QED
  BY <1>4, <1>5, <1>6, <1>7

-----------------------------------------------------------------------------
(* The ends.                                                               *)

Contexts == [key : Nat, at : Nat]

\* An end of set-up g: keys and compression are what its place in the script says
\* (packet_set_encryption_key, packet_start_compression), and no packet was refused.
IsEnd(g, e, x) ==
  /\ x \in [pc : 1 .. Last(g, e), mode : {"open", "disconnecting", "closed"}, why : {x.why},
            sent : 0 .. MaxData[e], output : {x.output}, input : {x.input},
            send_context : Contexts, receive_context : Contexts, deflate : Nat, inflate : Nat]
  /\ IsBuffer(Units, x.output) /\ IsBuffer(Units, x.input)
  /\ x.why \notin {"garbled", "unexpected"}
  /\ x.mode = "closed" => Contents(x.output) = << >>
  /\ x.pc > 4 => x.send_context.key = KeyOf(g, e) /\ x.receive_context.key = KeyOf(g, Peer(e))
  /\ x.pc <= 4 => x.send_context = NoKey /\ x.receive_context = NoKey
  /\ x.deflate > 0 <=> (g.compression /\ x.pc > Packing(e))
  /\ x.inflate > 0 <=> (g.compression /\ x.pc > Packing(e))

\* Where an end is with what it sends and with what it receives.
Ahead(n) == IF n = 0 THEN 0 ELSE n - 1
SendPlace(g, e, x, post) ==
  [rank |-> Sends(g, e, x.pc), crypt |-> x.send_context.at, flate |-> Ahead(x.deflate),
   vis |-> Len(post)]
ReadPlace(g, e, x, given) ==
  [rank |-> Reads(g, e, x.pc), crypt |-> x.receive_context.at, flate |-> Ahead(x.inflate),
   vis |-> Len(given)]

\* The steps at which an end sends, and reads, know the keys and the compression
\* for what they send and read.
Tuned(g, e, x, s, rank) ==
  /\ rank \in Nat /\ (rank >= 1 <=> x.pc > 4)
  /\ g.compression => (Packs(s, rank) <=> x.pc > Packing(e))

\* An end that may send, and one that may take, a message at place p.
SendsAt(g, e, x, p) ==
  /\ g.compression \in BOOLEAN /\ IsEnd(g, e, x) /\ x.mode # "closed" /\ p \in Places
  /\ Tuned(g, e, x, e, p.rank) /\ p.crypt = x.send_context.at /\ p.flate = Ahead(x.deflate)
ReadsAt(g, e, x, p) ==
  /\ g.compression \in BOOLEAN /\ IsEnd(g, e, x) /\ x.mode # "closed" /\ p \in Places
  /\ Tuned(g, e, x, Peer(e), p.rank) /\ p.crypt = x.receive_context.at /\ p.flate = Ahead(x.inflate)

LEMMA WireIsUnits ==
  ASSUME NEW g, NEW e \in End, NEW x, NEW p, SendsAt(g, e, x, p), NEW m \in Message
  PROVE  IsCut(g, e, p, m, Wire(x, m))
<1> USE DEF SendsAt
<1> DEFINE n == Blocks(m) + 1
<1>1. n \in 2 .. 3 /\ Blocks(m) \in 1 .. 2
  BY BlocksAre
<1>2. /\ x.send_context \in [key : Nat, at : Nat] /\ x.deflate \in Nat /\ x.pc \in Nat
      /\ x.pc > 4 => x.send_context.key = KeyOf(g, e)
      /\ x.pc <= 4 => x.send_context = NoKey
      /\ x.deflate > 0 <=> (g.compression /\ x.pc > Packing(e))
  BY DEF IsEnd, Contexts
<1>3. KeyOf(g, e) \in 1 .. 2 /\ NoKey.key = 0 /\ NoKey \in [key : Nat, at : Nat]
  BY DEF KeyOf, NoKey
<1>4. ASSUME NEW k \in 1 .. n PROVE Wire(x, m)[k] \in Units /\ Wire(x, m)[k] = UnitOf(g, e, p, m, k)
  <2>1. CASE k = 1
    BY <2>1, <1>1, <1>3 DEF Wire, UnitOf, Units
  <2>2. CASE k # 1
    <3>1. k - 1 \in Nat /\ k - 2 \in Nat
      BY <2>2, <1>1
    <3>2. Wire(x, m)[k] = [len |-> 0, msg |-> m, k |-> k - 1, flate |-> x.deflate,
                           crypt |-> IF x.send_context.key = 0 THEN NoKey
                                     ELSE [x.send_context EXCEPT !.at = @ + k - 2]]
      BY <2>2 DEF Wire
    <3>3. x.send_context.key = 0 <=> p.rank = 0
      BY <1>2, <1>3 DEF Tuned
    <3>4. x.send_context.key # 0
          => [x.send_context EXCEPT !.at = @ + k - 2] = [key |-> KeyOf(g, e), at |-> p.crypt + k - 2]
      BY <1>2, <1>3
    <3>5. x.deflate = IF g.compression /\ Packs(e, p.rank) THEN p.flate + 1 ELSE 0
      BY <1>2 DEF Tuned, Ahead
    <3>6. p.crypt + k - 2 \in Nat
      BY <3>1 DEF Places
    <3>7. Wire(x, m)[k] = UnitOf(g, e, p, m, k)
      BY <2>2, <3>2, <3>3, <3>4, <3>5, Zenon DEF UnitOf
    <3>8. Wire(x, m)[k] \in Units
      BY <3>1, <3>2, <3>4, <3>6, <1>2, <1>3 DEF Units
    <3> QED
      BY <3>7, <3>8
  <2> QED
    BY <2>1, <2>2
<1>5. Wire(x, m) = [k \in 1 .. n |-> Wire(x, m)[k]]
  BY DEF Wire
<1> HIDE DEF n
<1>6. Wire(x, m) \in Seq(Units) /\ Len(Wire(x, m)) = n
  BY <1>1, <1>4, <1>5
<1> QED
  BY <1>4, <1>6 DEF n, IsCut

\* What is expected of sending and of taking m at place p.
SentFrom(g, e, x, p, m, y) ==
  /\ IsEnd(g, e, y) /\ y.pc = x.pc /\ y.mode = x.mode /\ y.why = x.why /\ y.sent = x.sent
  /\ y.input = x.input /\ y.receive_context = x.receive_context /\ y.inflate = x.inflate
  /\ Contents(y.output) = Contents(x.output) \o Wire(x, m)
  /\ y.send_context.at = After(g, e, p, m).crypt
  /\ Ahead(y.deflate) = After(g, e, p, m).flate
TakenFrom(g, e, x, p, m, y) ==
  /\ IsEnd(g, e, y) /\ y.pc = x.pc /\ y.mode = x.mode /\ y.why = x.why /\ y.sent = x.sent
  /\ y.output = x.output /\ y.send_context = x.send_context /\ y.deflate = x.deflate
  /\ Contents(y.input) = SubSeq(Contents(x.input), Blocks(m) + 2, Len(Contents(x.input)))
  /\ y.receive_context.at = After(g, Peer(e), p, m).crypt
  /\ Ahead(y.inflate) = After(g, Peer(e), p, m).flate

\* packet_send, at a step that is in tune: the packet is in the output buffer, and
\* the end is at the place after it.
LEMMA SendSends ==
  ASSUME NEW g, NEW e \in End, NEW x, NEW p, SendsAt(g, e, x, p), NEW m \in Message
  PROVE  SentFrom(g, e, x, p, m, packet_send(x, m))
<1> DEFINE out == buffer_append(x.output, Wire(x, m))
           context == [x.send_context EXCEPT !.at = IF x.send_context.key = 0 THEN 0 ELSE @ + Blocks(m)]
           packed == IF x.deflate = 0 THEN 0 ELSE x.deflate + 1
           y == packet_send(x, m)
<1>0. /\ g.compression \in BOOLEAN /\ IsEnd(g, e, x) /\ x.mode # "closed" /\ p \in Places
      /\ Tuned(g, e, x, e, p.rank) /\ p.crypt = x.send_context.at /\ p.flate = Ahead(x.deflate)
  BY DEF SendsAt
<1>1. /\ x \in [pc : 1 .. Last(g, e), mode : {"open", "disconnecting", "closed"}, why : {x.why},
            sent : 0 .. MaxData[e], output : {x.output}, input : {x.input},
            send_context : Contexts, receive_context : Contexts, deflate : Nat, inflate : Nat]
      /\ IsBuffer(Units, x.output) /\ IsBuffer(Units, x.input)
  BY <1>0 DEF IsEnd
<1>2. IsBuffer(Units, out) /\ Contents(out) = Contents(x.output) \o Wire(x, m)
  <2>1. Wire(x, m) \in Seq(Units)
    <3>1. IsCut(g, e, p, m, Wire(x, m))
      BY WireIsUnits, Zenon
    <3> QED
      BY <3>1 DEF IsCut
  <2> QED
    BY <2>1, <1>1, AppendAppends
<1>3. Blocks(m) \in 1 .. 2 /\ x.pc \in Nat
  BY <1>1, BlocksAre
<1>4. context \in Contexts /\ context.key = x.send_context.key
      /\ context.at = (IF x.send_context.key = 0 THEN 0 ELSE x.send_context.at + Blocks(m))
  BY <1>1, <1>3 DEF Contexts
<1>5. packed \in Nat /\ (packed > 0 <=> x.deflate > 0)
  BY <1>1
<1>6. y = [x EXCEPT !.output = out, !.send_context = context, !.deflate = packed]
  <2> HIDE DEF out
  <2> QED
    BY <1>1 DEF packet_send, out, Contexts
<1> HIDE DEF out, context, packed, y
<1>7. /\ y \in [pc : 1 .. Last(g, e), mode : {"open", "disconnecting", "closed"}, why : {x.why},
                sent : 0 .. MaxData[e], output : {out}, input : {x.input},
                send_context : Contexts, receive_context : Contexts, deflate : Nat, inflate : Nat]
      /\ y.pc = x.pc /\ y.mode = x.mode /\ y.why = x.why /\ y.sent = x.sent
      /\ y.input = x.input /\ y.receive_context = x.receive_context /\ y.inflate = x.inflate
      /\ y.output = out /\ y.send_context = context /\ y.deflate = packed
  BY <1>1, <1>4, <1>5, <1>6
<1>8. x.pc <= 4 => context = NoKey
  BY <1>0, <1>1, <1>4 DEF IsEnd, NoKey, Contexts
<1>9. IsEnd(g, e, y)
  BY <1>0, <1>1, <1>2, <1>4, <1>5, <1>7, <1>8 DEF IsEnd
<1>10. context.at = After(g, e, p, m).crypt
  <2>1. x.send_context.key = 0 <=> ~(p.rank >= 1)
    BY <1>0, <1>3 DEF IsEnd, KeyOf, NoKey, Tuned
  <2>2. x.send_context.key = 0 => x.send_context.at = 0
    BY <2>1, <1>0, <1>3 DEF IsEnd, NoKey, Tuned
  <2> QED
    BY <2>1, <2>2, <1>0, <1>4 DEF After
<1>11. Ahead(packed) = After(g, e, p, m).flate
  <2>1. x.deflate > 0 <=> (g.compression /\ Packs(e, p.rank))
    BY <1>0 DEF IsEnd, Tuned
  <2> QED
    BY <2>1, <1>0, <1>1 DEF After, Ahead, packed
<1> QED
  BY <1>2, <1>7, <1>9, <1>10, <1>11 DEF y, SentFrom

\* packet_read_poll of a packet that can be read.
LEMMA TakenTakes ==
  ASSUME NEW g, NEW e \in End, NEW x, NEW p, ReadsAt(g, e, x, p), NEW m \in Message,
         Blocks(m) + 1 <= buffer_len(x.input)
  PROVE  TakenFrom(g, e, x, p, m, Taken(x, Blocks(m)))
<1> DEFINE n == Blocks(m) + 1
           in == buffer_consume(x.input, n)
           context == [x.receive_context EXCEPT
                         !.at = IF x.receive_context.key = 0 THEN 0 ELSE @ + Blocks(m)]
           packed == IF x.inflate = 0 THEN 0 ELSE x.inflate + 1
           y == Taken(x, Blocks(m))
<1>0. /\ g.compression \in BOOLEAN /\ IsEnd(g, e, x) /\ x.mode # "closed" /\ p \in Places
      /\ Tuned(g, e, x, Peer(e), p.rank) /\ p.crypt = x.receive_context.at
      /\ p.flate = Ahead(x.inflate)
  BY DEF ReadsAt
<1>1. /\ x \in [pc : 1 .. Last(g, e), mode : {"open", "disconnecting", "closed"}, why : {x.why},
            sent : 0 .. MaxData[e], output : {x.output}, input : {x.input},
            send_context : Contexts, receive_context : Contexts, deflate : Nat, inflate : Nat]
      /\ IsBuffer(Units, x.output) /\ IsBuffer(Units, x.input)
  BY <1>0 DEF IsEnd
<1>2. Blocks(m) \in 1 .. 2 /\ x.pc \in Nat /\ n \in 0 .. buffer_len(x.input) /\ n + 1 = Blocks(m) + 2
  <2>1. buffer_len(x.input) \in Nat
    BY <1>1 DEF IsBuffer, buffer_len
  <2> QED
    BY <2>1, <1>1, BlocksAre
<1>3. IsBuffer(Units, in) /\ Contents(in) = SubSeq(Contents(x.input), n + 1, Len(Contents(x.input)))
  <2> HIDE DEF n
  <2> QED
    BY <1>1, <1>2, ConsumeTakes
<1>4. context \in Contexts /\ context.key = x.receive_context.key
      /\ context.at = (IF x.receive_context.key = 0 THEN 0 ELSE x.receive_context.at + Blocks(m))
  BY <1>1, <1>2 DEF Contexts
<1>5. packed \in Nat /\ (packed > 0 <=> x.inflate > 0)
  BY <1>1
<1>6. y = [x EXCEPT !.input = in, !.receive_context = context, !.inflate = packed]
  <2> HIDE DEF in
  <2> QED
    BY <1>1 DEF Taken, in, Contexts
<1> HIDE DEF in, context, packed, y
<1>7. /\ y \in [pc : 1 .. Last(g, e), mode : {"open", "disconnecting", "closed"}, why : {x.why},
                sent : 0 .. MaxData[e], output : {x.output}, input : {in},
                send_context : Contexts, receive_context : Contexts, deflate : Nat, inflate : Nat]
      /\ y.pc = x.pc /\ y.mode = x.mode /\ y.why = x.why /\ y.sent = x.sent
      /\ y.output = x.output /\ y.send_context = x.send_context /\ y.deflate = x.deflate
      /\ y.input = in /\ y.receive_context = context /\ y.inflate = packed
  BY <1>1, <1>4, <1>5, <1>6
<1>8. x.pc <= 4 => context = NoKey
  BY <1>0, <1>1, <1>4 DEF IsEnd, NoKey, Contexts
<1>9. IsEnd(g, e, y)
  BY <1>0, <1>1, <1>3, <1>4, <1>5, <1>7, <1>8 DEF IsEnd
<1>10. context.at = After(g, Peer(e), p, m).crypt
  <2>1. x.receive_context.key = 0 <=> ~(p.rank >= 1)
    BY <1>0, <1>2 DEF IsEnd, KeyOf, NoKey, Tuned
  <2>2. x.receive_context.key = 0 => x.receive_context.at = 0
    BY <2>1, <1>0, <1>2 DEF IsEnd, NoKey, Tuned
  <2> QED
    BY <2>1, <2>2, <1>0, <1>4 DEF After
<1>11. Ahead(packed) = After(g, Peer(e), p, m).flate
  <2>1. x.inflate > 0 <=> (g.compression /\ Packs(Peer(e), p.rank))
    BY <1>0 DEF IsEnd, Tuned
  <2> QED
    BY <2>1, <1>0, <1>1 DEF After, Ahead, packed
<1> QED
  BY <1>2, <1>3, <1>7, <1>9, <1>10, <1>11 DEF y, n, TakenFrom

-----------------------------------------------------------------------------
(* The line: what one end's input buffer, the pipe and the other end's     *)
(* output buffer hold of one direction.                                    *)

Line(in, between, out) == (in \o between) \o out

LEMMA Associative ==
  ASSUME NEW a \in Seq(Units), NEW b \in Seq(Units), NEW c \in Seq(Units)
  PROVE  (a \o b) \o c = a \o (b \o c)
BY ConcatAssociative

LEMMA LineIs ==
  ASSUME NEW in \in Seq(Units), NEW p \in Seq(Units), NEW out \in Seq(Units)
  PROVE  /\ Line(in, p, out) \in Seq(Units)
         /\ Len(Line(in, p, out)) = Len(in) + Len(p) + Len(out)
         /\ \A i \in 1 .. Len(in) : Line(in, p, out)[i] = in[i]
         /\ \A i \in 1 .. Len(p) : Line(in, p, out)[Len(in) + i] = p[i]
         /\ \A i \in 1 .. Len(out) : Line(in, p, out)[Len(in) + Len(p) + i] = out[i]
<1>1. /\ in \o p \in Seq(Units) /\ Len(in \o p) = Len(in) + Len(p)
      /\ \A i \in 1 .. Len(in) : (in \o p)[i] = in[i]
      /\ \A i \in 1 .. Len(p) : (in \o p)[Len(in) + i] = p[i]
  OBVIOUS
<1> DEFINE d == in \o p
<1>2. d \in Seq(Units)
  BY <1>1
<1>3. /\ d \o out \in Seq(Units) /\ Len(d \o out) = Len(d) + Len(out)
      /\ \A i \in 1 .. Len(d) : (d \o out)[i] = d[i]
      /\ \A i \in 1 .. Len(out) : (d \o out)[Len(d) + i] = out[i]
  <2> HIDE DEF d
  <2> QED
    BY <1>2
<1> QED
  BY <1>1, <1>3 DEF Line

LEMMA HalvesMakeAWhole ==
  ASSUME NEW s \in Seq(Units), NEW n \in 0 .. Len(s)
  PROVE  /\ SubSeq(s, 1, n) \in Seq(Units) /\ SubSeq(s, n + 1, Len(s)) \in Seq(Units)
         /\ Len(SubSeq(s, 1, n)) = n
         /\ SubSeq(s, 1, n) \o SubSeq(s, n + 1, Len(s)) = s
<1> DEFINE a == SubSeq(s, 1, n)
           b == SubSeq(s, n + 1, Len(s))
<1>1. /\ a \in Seq(Units) /\ b \in Seq(Units) /\ Len(a) = n /\ Len(b) = Len(s) - n
      /\ \A i \in 1 .. n : a[i] = s[i]
      /\ \A i \in 1 .. Len(s) - n : b[i] = s[n + i]
  OBVIOUS
<1> HIDE DEF a, b
<1>2. /\ a \o b \in Seq(Units) /\ Len(a \o b) = Len(s)
      /\ \A i \in 1 .. Len(a) : (a \o b)[i] = a[i]
      /\ \A i \in 1 .. Len(b) : (a \o b)[Len(a) + i] = b[i]
  BY <1>1
<1>3. \A i \in 1 .. Len(s) : (a \o b)[i] = s[i]
  <2> SUFFICES ASSUME NEW i \in 1 .. Len(s) PROVE (a \o b)[i] = s[i]
    OBVIOUS
  <2>1. CASE i <= n
    BY <2>1, <1>1, <1>2
  <2>2. CASE ~(i <= n)
    <3>1. i - n \in 1 .. Len(b) /\ n + (i - n) = i /\ Len(a) = n
      BY <2>2, <1>1
    <3> QED
      BY <3>1, <1>1, <1>2, ZenonT(60)
  <2> QED
    BY <2>1, <2>2
<1>4. a \o b = s
  BY <1>2, <1>3, SeqEqual
<1> QED
  BY <1>1, <1>4 DEF a, b

\* Reading and writing move units along the line.
LEMMA LineMoves ==
  ASSUME NEW in \in Seq(Units), NEW p \in Seq(Units), NEW out \in Seq(Units)
  PROVE  /\ \A n \in 0 .. Len(p) :
              Line(in \o SubSeq(p, 1, n), SubSeq(p, n + 1, Len(p)), out) = Line(in, p, out)
         /\ \A n \in 0 .. Len(out) :
              Line(in, p \o SubSeq(out, 1, n), SubSeq(out, n + 1, Len(out))) = Line(in, p, out)
<1>1. ASSUME NEW n \in 0 .. Len(p)
      PROVE  Line(in \o SubSeq(p, 1, n), SubSeq(p, n + 1, Len(p)), out) = Line(in, p, out)
  <2> DEFINE a == SubSeq(p, 1, n)
             b == SubSeq(p, n + 1, Len(p))
  <2>1. a \in Seq(Units) /\ b \in Seq(Units) /\ a \o b = p
    BY HalvesMakeAWhole
  <2> HIDE DEF a, b
  <2>2. (in \o a) \o b = in \o (a \o b)
    BY <2>1, Associative, ZenonT(60)
  <2>3. Line(in \o a, b, out) = Line(in, p, out)
    BY <2>1, <2>2 DEF Line
  <2> QED
    BY <2>3 DEF a, b
<1>2. ASSUME NEW n \in 0 .. Len(out)
      PROVE  Line(in, p \o SubSeq(out, 1, n), SubSeq(out, n + 1, Len(out))) = Line(in, p, out)
  <2> DEFINE a == SubSeq(out, 1, n)
             b == SubSeq(out, n + 1, Len(out))
             c == in \o p
  <2>1. a \in Seq(Units) /\ b \in Seq(Units) /\ a \o b = out
    BY HalvesMakeAWhole
  <2> HIDE DEF a, b
  <2>2. c \in Seq(Units)
    OBVIOUS
  <2>3. c \o a = in \o (p \o a)
    <3>1. a \in Seq(Units)
      BY <2>1
    <3> QED
      BY <3>1, Associative, Zenon
  <2> HIDE DEF c
  <2>4. (c \o a) \o b = c \o (a \o b)
    BY <2>1, <2>2, Associative, Zenon
  <2>5. Line(in, p \o a, b) = c \o out
    BY <2>1, <2>3, <2>4 DEF Line
  <2> QED
    BY <2>5 DEF a, b, c, Line
<1> QED
  BY <1>1, <1>2

LEMMA LineGrows ==
  ASSUME NEW in \in Seq(Units), NEW p \in Seq(Units), NEW out \in Seq(Units), NEW W \in Seq(Units)
  PROVE  Line(in, p, out \o W) = Line(in, p, out) \o W
<1> DEFINE c == in \o p
<1>1. c \in Seq(Units)
  OBVIOUS
<1> HIDE DEF c
<1>2. (c \o out) \o W = c \o (out \o W)
  BY <1>1, Associative, Zenon
<1> QED
  BY <1>2 DEF Line, c

\* A reader takes the first units of its input.
LEMMA LineIsTaken ==
  ASSUME NEW in \in Seq(Units), NEW p \in Seq(Units), NEW out \in Seq(Units), NEW n \in 1 .. Len(in)
  PROVE  SubSeq(Line(in, p, out), n + 1, Len(Line(in, p, out)))
           = Line(SubSeq(in, n + 1, Len(in)), p, out)
<1> DEFINE a == SubSeq(in, 1, n)
           b == SubSeq(in, n + 1, Len(in))
           rest == Line(b, p, out)
           all == Line(in, p, out)
<1>1. a \in Seq(Units) /\ b \in Seq(Units) /\ Len(a) = n /\ a \o b = in
  BY HalvesMakeAWhole
<1> HIDE DEF a, b
<1>2. rest \in Seq(Units)
  BY <1>1, LineIs
<1>3. all = a \o rest
  <2>0. a \in Seq(Units) /\ b \in Seq(Units)
    BY <1>1
  <2>4. (a \o b) \o p = a \o (b \o p)
    BY <2>0, Associative, ZenonT(60)
  <2>1. (a \o b) \o p = a \o (b \o p) /\ b \o p \in Seq(Units)
    BY <2>0, <2>4
  <2> DEFINE c == b \o p
  <2> HIDE DEF c
  <2>2. c \in Seq(Units) /\ (a \o b) \o p = a \o c
    BY <2>1 DEF c
  <2>3. (a \o c) \o out = a \o (c \o out)
    BY <2>0, <2>2, Associative, ZenonT(60)
  <2> QED
    BY <2>2, <2>3, <1>1 DEF Line, c
<1> HIDE DEF rest, all
<1>4. SubSeq(a \o rest, n + 1, Len(a \o rest)) = rest
  <2>1. /\ a \o rest \in Seq(Units) /\ Len(a \o rest) = n + Len(rest)
        /\ \A i \in 1 .. Len(rest) : (a \o rest)[n + i] = rest[i]
    BY <1>1, <1>2
  <2> DEFINE w == a \o rest
  <2> HIDE DEF w
  <2>0. Len(w) \in Nat /\ Len(rest) \in Nat /\ Len(w) = n + Len(rest) /\ w \in Seq(Units)
    BY <2>1, <1>2 DEF w
  <2> DEFINE len == Len(w)
             left == Len(rest)
  <2>4. len \in Nat /\ left \in Nat /\ len = n + left /\ w \in Seq(Units)
    BY <2>0
  <2>6. \A i \in n + 1 .. len : w[i] \in Units
    <3>1. \A i \in 1 .. Len(w) : w[i] \in Units
      BY <2>0
    <3>2. \A i \in n + 1 .. len : i \in 1 .. Len(w)
      BY <2>0
    <3> QED BY <3>1, <3>2, Zenon
  <2> HIDE DEF len, left
  <2>5. n + 1 \in Int /\ len \in Int
    BY <2>4
  <2>7. /\ SubSeq(w, n + 1, len) \in Seq(Units)
        /\ Len(SubSeq(w, n + 1, len)) = IF n + 1 <= len THEN len - (n + 1) + 1 ELSE 0
        /\ \A i \in 1 .. len - (n + 1) + 1 : SubSeq(w, n + 1, len)[i] = w[n + 1 + i - 1]
    <3> DEFINE from == n + 1
    <3>1. from \in Int /\ len \in Int /\ \A i \in from .. len : w[i] \in Units
      BY <2>5, <2>6
    <3> HIDE DEF from
    <3>2. /\ SubSeq(w, from, len) \in Seq(Units)
          /\ Len(SubSeq(w, from, len)) = IF from <= len THEN len - from + 1 ELSE 0
          /\ \A i \in 1 .. len - from + 1 : SubSeq(w, from, len)[i] = w[from + i - 1]
      BY <3>1, SubSeqProperties
    <3> QED BY <3>2 DEF from
  <2>8. Len(SubSeq(w, n + 1, len)) = left /\ len - (n + 1) + 1 = left
    BY <2>4, <2>7
  <2>9. \A i \in 1 .. left : n + 1 + i - 1 = n + i
    OBVIOUS
  <2>2. /\ SubSeq(w, n + 1, Len(w)) \in Seq(Units) /\ Len(SubSeq(w, n + 1, Len(w))) = Len(rest)
        /\ \A i \in 1 .. Len(rest) : SubSeq(w, n + 1, Len(w))[i] = w[n + i]
    <3>1. Len(SubSeq(w, n + 1, len)) = left
      BY <2>8
    <3>2. SubSeq(w, n + 1, len) \in Seq(Units)
      BY <2>7
    <3>3. \A i \in 1 .. left : SubSeq(w, n + 1, len)[i] = w[n + i]
      BY <2>7, <2>8, <2>9
    <3> QED BY <3>1, <3>2, <3>3, Zenon DEF len, left
  <2>3. SubSeq(w, n + 1, Len(w)) = rest
    BY <2>1, <2>2, <1>2, SeqEqual DEF w
  <2> QED
    BY <2>3 DEF w
<1> QED
  BY <1>3, <1>4 DEF rest, all, b

\* What is left of the line of an end that is gone.
LEMMA LineIsCut ==
  ASSUME NEW in \in Seq(Units), NEW p \in Seq(Units), NEW out \in Seq(Units), NEW kept \in Prefixes(p)
  PROVE  /\ kept \in Seq(Units) /\ Len(kept) <= Len(p)
         /\ Len(Line(in, kept, << >>)) <= Len(Line(in, p, out))
         /\ \A i \in 1 .. Len(Line(in, kept, << >>)) : Line(in, kept, << >>)[i] = Line(in, p, out)[i]
<1>1. PICK n \in 0 .. Len(p) : kept = SubSeq(p, 1, n)
  BY DEF Prefixes
<1>2. kept \in Seq(Units) /\ Len(kept) = n /\ (\A i \in 1 .. n : kept[i] = p[i]) /\ << >> \in Seq(Units)
  BY <1>1
<1> DEFINE short == Line(in, kept, << >>)
           long == Line(in, p, out)
<1>7. kept \in Seq(Units) /\ << >> \in Seq(Units)
  BY <1>2
<1>5. /\ Len(short) = Len(in) + Len(kept) + Len(<< >>)
      /\ \A i \in 1 .. Len(in) : short[i] = in[i]
      /\ \A i \in 1 .. Len(kept) : short[Len(in) + i] = kept[i]
  BY <1>7, LineIs, ZenonT(60)
<1>6. /\ Len(long) = Len(in) + Len(p) + Len(out)
      /\ \A i \in 1 .. Len(in) : long[i] = in[i]
      /\ \A i \in 1 .. Len(p) : long[Len(in) + i] = p[i]
  BY LineIs, ZenonT(60)
<1> HIDE DEF short, long
<1>3. \A i \in 1 .. Len(in) + n : short[i] = long[i]
  <2> SUFFICES ASSUME NEW i \in 1 .. Len(in) + n
               PROVE  short[i] = long[i]
    OBVIOUS
  <2>1. CASE i <= Len(in)
    BY <2>1, <1>5, <1>6
  <2>2. CASE i > Len(in)
    <3>1. i - Len(in) \in 1 .. n /\ i - Len(in) \in 1 .. Len(p) /\ Len(in) + (i - Len(in)) = i
      BY <2>2
    <3>2. short[i] = kept[i - Len(in)] /\ long[i] = p[i - Len(in)]
      BY <3>1, <1>2, <1>5, <1>6
    <3> QED
      BY <3>1, <3>2, <1>2
  <2> QED
    BY <2>1, <2>2
<1>4. Len(short) = Len(in) + n /\ Len(long) = Len(in) + Len(p) + Len(out)
  BY <1>2, <1>5, <1>6
<1> QED
  BY <1>2, <1>3, <1>4 DEF short, long

-----------------------------------------------------------------------------
(* The invariant.                                                          *)

Typed ==
  /\ cfg \in Setups /\ cfg.compression \in BOOLEAN
  /\ end = [e \in End |-> end[e]] /\ pipe \in [End -> Seq(Units)]
  /\ posted \in [End -> Seq(Message)] /\ got \in [End -> Seq(Message)]
  /\ \A e \in End : IsEnd(cfg, e, end[e]) /\ Len(pipe[e]) <= PipeSize

\* Whoever is still there finds on its line what its peer sent for its place.
Stream(s) ==
  Up(Peer(s))
  => Flow(cfg, s,
          Line(Contents(end[Peer(s)].input), pipe[s], Contents(end[s].output)),
          ReadPlace(cfg, Peer(s), end[Peer(s)], got[Peer(s)]), SendPlace(cfg, s, end[s], posted[s]),
          Up(s), posted[s])

InTune == Typed /\ \A s \in End : Stream(s)

LEMMA Ends == ASSUME NEW e \in End PROVE /\ Peer(e) \in End /\ Peer(Peer(e)) = e /\ Peer(e) # e
                                         /\ \A f \in End : f = e \/ f = Peer(e)
BY DEF End, Peer

LEMMA PlacesAre ==
  ASSUME Typed, NEW e \in End
  PROVE  /\ SendPlace(cfg, e, end[e], posted[e]) \in Places
         /\ ReadPlace(cfg, e, end[e], got[e]) \in Places
<1>1. IsEnd(cfg, e, end[e]) /\ cfg.compression \in BOOLEAN
      /\ Len(posted[e]) \in Nat /\ Len(got[e]) \in Nat
  BY DEF Typed
<1>2. Sends(cfg, e, end[e].pc) \in Nat /\ Reads(cfg, e, end[e].pc) \in Nat
  BY DEF Sends, Reads, One
<1>3. /\ end[e].send_context.at \in Nat /\ end[e].receive_context.at \in Nat
      /\ Ahead(end[e].deflate) \in Nat /\ Ahead(end[e].inflate) \in Nat
  BY <1>1 DEF IsEnd, Contexts, Ahead
<1> QED
  BY <1>1, <1>2, <1>3 DEF SendPlace, ReadPlace, Places

LEMMA ContentsAre ==
  ASSUME Typed, NEW e \in End
  PROVE  /\ Contents(end[e].input) \in Seq(Units) /\ Contents(end[e].output) \in Seq(Units)
         /\ Len(Contents(end[e].input)) = buffer_len(end[e].input)
         /\ Len(Contents(end[e].output)) = buffer_len(end[e].output)
         /\ pipe[e] \in Seq(Units) /\ posted[e] \in Seq(Message) /\ got[e] \in Seq(Message)
<1>1. IsBuffer(Units, end[e].input) /\ IsBuffer(Units, end[e].output)
  BY DEF Typed, IsEnd
<1>2. Contents(end[e].input) \in Seq(Units) /\ Len(Contents(end[e].input)) = buffer_len(end[e].input)
  BY <1>1, ContentsAreUnits DEF buffer_len
<1>3. Contents(end[e].output) \in Seq(Units) /\ Len(Contents(end[e].output)) = buffer_len(end[e].output)
  BY <1>1, ContentsAreUnits DEF buffer_len
<1> QED
  BY <1>2, <1>3 DEF Typed

\* A step of one end changes its own record and what it is at either side of.
LEMMA OneEndMoves ==
  ASSUME InTune, NEW e \in End, NEW y, end' = [end EXCEPT ![e] = y], cfg' = cfg,
         IsEnd(cfg, e, y), pipe' \in [End -> Seq(Units)],
         \A f \in End : Len(pipe'[f]) <= PipeSize,
         posted' \in [End -> Seq(Message)], got' \in [End -> Seq(Message)],
         Up(Peer(e)) =>
           Flow(cfg, e, Line(Contents(end[Peer(e)].input), pipe'[e], Contents(y.output)),
                ReadPlace(cfg, Peer(e), end[Peer(e)], got'[Peer(e)]),
                SendPlace(cfg, e, y, posted'[e]), y.mode # "closed", posted'[e]),
         y.mode # "closed" =>
           Flow(cfg, Peer(e),
                Line(Contents(y.input), pipe'[Peer(e)], Contents(end[Peer(e)].output)),
                ReadPlace(cfg, e, y, got'[e]),
                SendPlace(cfg, Peer(e), end[Peer(e)], posted'[Peer(e)]), Up(Peer(e)), posted'[Peer(e)])
  PROVE  InTune'
<1> DEFINE f == Peer(e)
<1>1. f \in End /\ Peer(f) = e /\ f # e /\ \A h \in End : h = e \/ h = f
  BY Ends
<1>2. end'[e] = y /\ end'[f] = end[f] /\ end' = [h \in End |-> end'[h]]
  BY <1>1 DEF InTune, Typed
<1>3. IsEnd(cfg, f, end[f])
  BY <1>1 DEF InTune, Typed
<1>4. Typed'
  BY <1>1, <1>2, <1>3 DEF InTune, Typed
<1>5. Stream(e)'
  BY <1>1, <1>2 DEF Stream, Up
<1>6. Stream(f)'
  BY <1>1, <1>2 DEF Stream, Up
<1> QED
  BY <1>1, <1>4, <1>5, <1>6 DEF InTune

LEMMA InitiallyInTune ==
  ASSUME Init
  PROVE  InTune
<1> DEFINE x == [pc |-> 1, mode |-> "open", why |-> "none", sent |-> 0,
                 output |-> buffer_init, input |-> buffer_init,
                 send_context |-> NoKey, receive_context |-> NoKey, deflate |-> 0, inflate |-> 0]
           Z == [rank |-> 0, crypt |-> 0, flate |-> 0, vis |-> 0]
<1>1. \A e \in End : end[e] = x
  BY DEF Init
<1>2. cfg \in Setups /\ cfg.compression \in BOOLEAN
  BY PacketsAssumption DEF Init
<1>3. IsBuffer(Units, buffer_init) /\ Contents(buffer_init) = << >>
  BY InitIsBuffer
<1>4. ASSUME NEW e \in End PROVE IsEnd(cfg, e, x)
  <2>1. 1 \in 1 .. Last(cfg, e) /\ 0 \in 0 .. MaxData[e] /\ NoKey \in Contexts
    BY PacketsAssumption DEF Last, NoKey, Contexts
  <2>2. ~(1 > Packing(e)) /\ 1 <= 4
    BY DEF Packing
  <2>3. x \in [pc : 1 .. Last(cfg, e), mode : {"open", "disconnecting", "closed"}, why : {x.why},
               sent : 0 .. MaxData[e], output : {x.output}, input : {x.input},
               send_context : Contexts, receive_context : Contexts, deflate : Nat, inflate : Nat]
    BY <2>1
  <2> QED
    BY <1>3, <2>2, <2>3 DEF IsEnd
<1>5. Typed
  BY <1>1, <1>2, <1>4, PacketsAssumption DEF Typed, Init
<1>6. ASSUME NEW s \in End PROVE Stream(s)
  <2>1. Peer(s) \in End
    BY Ends
  <2>2. Line(<< >>, << >>, << >>) = << >>
    BY DEF Line
  <2>3. Sends(cfg, s, 1) = 0 /\ Reads(cfg, Peer(s), 1) = 0
    BY DEF Sends, Reads, One
  <2>4. SendPlace(cfg, s, x, << >>) = Z /\ ReadPlace(cfg, Peer(s), x, << >>) = Z
    BY <2>3 DEF SendPlace, ReadPlace, Ahead, NoKey
  <2>5. Z \in Places
    BY DEF Places
  <2>6. Flow(cfg, s, << >>, Z, Z, TRUE, << >>)
    <3> HIDE DEF Z
    <3> QED
      BY <2>5, FlowBegins
  <2>7. pipe[s] = << >> /\ posted[s] = << >> /\ got[Peer(s)] = << >> /\ end[s] = x /\ end[Peer(s)] = x
    BY <2>1, <1>1 DEF Init
  <2>8. Contents(end[s].output) = << >> /\ Contents(end[Peer(s)].input) = << >> /\ Up(s)
    BY <2>7, <1>3 DEF Up
  <2> HIDE DEF x, Z
  <2> QED
    BY <2>2, <2>4, <2>6, <2>7, <2>8 DEF Stream
<1> QED
  BY <1>5, <1>6 DEF InTune

-----------------------------------------------------------------------------
(* The steps keep it: what moves units, or closes an end.                  *)

\* A record of an end, and the one it becomes by packet_close.
Closed(x, why) ==
  [x EXCEPT !.mode = "closed", !.why = why, !.output = buffer_init, !.input = buffer_init]

LEMMA CloseMakesAnEnd ==
  ASSUME NEW g, NEW e \in End, NEW x, IsEnd(g, e, x), NEW why, why \notin {"garbled", "unexpected"}
  PROVE  IsEnd(g, e, Closed(x, why)) /\ Closed(x, why).mode = "closed"
         /\ Contents(Closed(x, why).output) = << >>
<1>1. IsBuffer(Units, buffer_init) /\ Contents(buffer_init) = << >>
  BY InitIsBuffer
<1>2. /\ Closed(x, why).mode = "closed" /\ Closed(x, why).why = why
      /\ Closed(x, why).output = buffer_init /\ Closed(x, why).input = buffer_init
      /\ Closed(x, why).pc = x.pc /\ Closed(x, why).send_context = x.send_context
      /\ Closed(x, why).receive_context = x.receive_context
      /\ Closed(x, why).deflate = x.deflate /\ Closed(x, why).inflate = x.inflate
      /\ Closed(x, why) \in [pc : 1 .. Last(g, e), mode : {"open", "disconnecting", "closed"},
            why : {why}, sent : 0 .. MaxData[e], output : {buffer_init}, input : {buffer_init},
            send_context : Contexts, receive_context : Contexts, deflate : Nat, inflate : Nat]
  BY DEF Closed, IsEnd
<1> QED
  BY <1>1, <1>2 DEF IsEnd

LEMMA CloseKeeps ==
  ASSUME InTune, NEW e \in End, NEW why, why \notin {"garbled", "unexpected"}, Close(e, why),
         UNCHANGED <<cfg, posted, got>>
  PROVE  InTune'
<1> DEFINE f == Peer(e)
           y == Closed(end[e], why)
<1>1. f \in End /\ Peer(f) = e /\ f # e /\ \A h \in End : h = e \/ h = f
  BY Ends
<1>2. IsEnd(cfg, e, end[e]) /\ end = [h \in End |-> end[h]] /\ pipe \in [End -> Seq(Units)]
      /\ posted \in [End -> Seq(Message)] /\ got \in [End -> Seq(Message)]
      /\ \A h \in End : Len(pipe[h]) <= PipeSize
  BY DEF InTune, Typed
<1>3. IsEnd(cfg, e, y) /\ y.mode = "closed" /\ Contents(y.output) = << >>
  <2>1. IsEnd(cfg, e, end[e])
    BY <1>2
  <2> HIDE DEF y
  <2>2. y = Closed(end[e], why)
    BY DEF y
  <2> QED
    BY <2>1, <2>2, CloseMakesAnEnd, Zenon
<1>4. end' = [end EXCEPT ![e] = y]
  <2>1. end[e] \in [pc : 1 .. Last(cfg, e), mode : {"open", "disconnecting", "closed"},
            why : {end[e].why}, sent : 0 .. MaxData[e], output : {end[e].output},
            input : {end[e].input}, send_context : Contexts, receive_context : Contexts,
            deflate : Nat, inflate : Nat]
    BY <1>2 DEF IsEnd
  <2>2. /\ DOMAIN end = End
        /\ end' = [end EXCEPT ![e].mode = "closed", ![e].why = why,
                             ![e].output = buffer_init, ![e].input = buffer_init]
    BY <1>2, Zenon DEF Close
  <2> QED
    BY <2>1, <2>2 DEF Closed
<1>5. PICK kept \in Prefixes(pipe[e]) : pipe' = [pipe EXCEPT ![e] = kept, ![f] = << >>]
  <2>1. pipe[e] \in Prefixes(pipe[e])
    <3>1. pipe[e] = SubSeq(pipe[e], 1, Len(pipe[e])) /\ Len(pipe[e]) \in 0 .. Len(pipe[e])
      BY <1>2
    <3> QED
      BY <3>1 DEF Prefixes
  <2> QED
    BY <2>1 DEF Close
<1> HIDE DEF y
<1> DEFINE in == Contents(end[f].input)
           out == Contents(end[e].output)
<1>6. in \in Seq(Units) /\ out \in Seq(Units) /\ pipe[e] \in Seq(Units) /\ << >> \in Seq(Units)
  <2>1. Typed
    BY DEF InTune
  <2>2. in \in Seq(Units)
    BY <2>1, <1>1, ContentsAre
  <2>3. out \in Seq(Units) /\ pipe[e] \in Seq(Units)
    BY <2>1, ContentsAre
  <2> QED
    BY <2>2, <2>3
<1> DEFINE U == Line(in, pipe[e], out)
           V == Line(in, kept, << >>)
<1> HIDE DEF in, out
<1>7. /\ kept \in Seq(Units) /\ Len(kept) <= Len(pipe[e]) /\ Len(V) <= Len(U)
      /\ \A i \in 1 .. Len(V) : V[i] = U[i]
  BY <1>6, LineIsCut
<1>8. U \in Seq(Units) /\ V \in Seq(Units)
  <2>1. kept \in Seq(Units)
    BY <1>7
  <2> QED
    BY <2>1, <1>6, LineIs
<1>9. pipe' \in [End -> Seq(Units)] /\ (\A h \in End : Len(pipe'[h]) <= PipeSize) /\ pipe'[e] = kept
  <2>1. Len(kept) \in Nat /\ Len(pipe[e]) \in Nat /\ PipeSize \in Nat /\ Len(<< >>) = 0
    BY <1>6, <1>7, PacketsAssumption
  <2> QED
    BY <2>1, <1>1, <1>2, <1>5, <1>6, <1>7
<1>10. ASSUME Up(f)
       PROVE  Flow(cfg, e, V, ReadPlace(cfg, f, end[f], got[f]), SendPlace(cfg, e, y, posted[e]),
                   FALSE, posted[e])
  <2> DEFINE R == ReadPlace(cfg, f, end[f], got[f])
             S == SendPlace(cfg, e, end[e], posted[e])
             T == SendPlace(cfg, e, y, posted[e])
             post == posted[e]
             live == Up(e)
             dead == FALSE
  <2>1. Flow(cfg, e, U, R, S, live, post)
    BY <1>10, <1>1 DEF InTune, Stream, in, out
  <2>2. post \in Seq(Message) /\ live \in BOOLEAN /\ dead \in BOOLEAN /\ ~dead
    BY <1>2 DEF Up
  <2> HIDE DEF R, S, T, post, live, dead, U, V, f
  <2>3. Len(post) <= Len(post)
    BY <2>2
  <2>4. Flow(cfg, e, V, R, T, dead, post)
    BY <2>1, <2>2, <2>3, <1>7, <1>8, FlowWeakens
  <2> QED
    BY <2>4 DEF R, T, post, dead
<1>11. posted' = posted /\ got' = got /\ cfg' = cfg
  OBVIOUS
<1>12. Up(f) => Flow(cfg, e, Line(in, pipe'[e], Contents(y.output)),
                     ReadPlace(cfg, f, end[f], got'[f]), SendPlace(cfg, e, y, posted'[e]),
                     y.mode # "closed", posted'[e])
  BY <1>3, <1>9, <1>10, <1>11
<1> QED
  BY <1>2, <1>3, <1>4, <1>9, <1>11, <1>12, OneEndMoves DEF in

\* A step that leaves all units on their lines, in order, and the places alone.
LEMMA QuietStepKeeps ==
  ASSUME InTune, NEW e \in End, NEW y, end' = [end EXCEPT ![e] = y], UNCHANGED <<cfg, posted, got>>,
         IsEnd(cfg, e, y), y.mode = end[e].mode,
         pipe' \in [End -> Seq(Units)], \A h \in End : Len(pipe'[h]) <= PipeSize,
         SendPlace(cfg, e, y, posted[e]) = SendPlace(cfg, e, end[e], posted[e]),
         ReadPlace(cfg, e, y, got[e]) = ReadPlace(cfg, e, end[e], got[e]),
         Up(Peer(e)) =>
           Line(Contents(end[Peer(e)].input), pipe'[e], Contents(y.output))
             = Line(Contents(end[Peer(e)].input), pipe[e], Contents(end[e].output)),
         Line(Contents(y.input), pipe'[Peer(e)], Contents(end[Peer(e)].output))
           = Line(Contents(end[e].input), pipe[Peer(e)], Contents(end[Peer(e)].output))
  PROVE  InTune'
<1>1. Peer(e) \in End /\ Peer(Peer(e)) = e
  BY Ends
<1>2. Stream(e) /\ Stream(Peer(e))
  BY <1>1 DEF InTune
<1>3. posted' \in [End -> Seq(Message)] /\ got' \in [End -> Seq(Message)]
      /\ posted' = posted /\ got' = got /\ cfg' = cfg
  BY DEF InTune, Typed
<1>4. Up(Peer(e)) =>
        Flow(cfg, e, Line(Contents(end[Peer(e)].input), pipe'[e], Contents(y.output)),
             ReadPlace(cfg, Peer(e), end[Peer(e)], got'[Peer(e)]),
             SendPlace(cfg, e, y, posted'[e]), y.mode # "closed", posted'[e])
  BY <1>2, <1>3, Zenon DEF Stream, Up
<1>5. y.mode # "closed" =>
        Flow(cfg, Peer(e),
             Line(Contents(y.input), pipe'[Peer(e)], Contents(end[Peer(e)].output)),
             ReadPlace(cfg, e, y, got'[e]),
             SendPlace(cfg, Peer(e), end[Peer(e)], posted'[Peer(e)]), Up(Peer(e)), posted'[Peer(e)])
  BY <1>1, <1>2, <1>3 DEF Stream, Up
<1> QED
  BY <1>3, <1>4, <1>5, OneEndMoves

\* Of an end, another output buffer; and another input buffer.
WithOutput(x, b) == [x EXCEPT !.output = b]
WithInput(x, b)  == [x EXCEPT !.input = b]

OnlyOutputChanges(g, e, x, b, y) ==
  /\ IsEnd(g, e, y) /\ y.output = b /\ y.input = x.input /\ y.mode = x.mode
  /\ \A post : SendPlace(g, e, y, post) = SendPlace(g, e, x, post)
  /\ \A given : ReadPlace(g, e, y, given) = ReadPlace(g, e, x, given)
OnlyInputChanges(g, e, x, b, y) ==
  /\ IsEnd(g, e, y) /\ y.input = b /\ y.output = x.output /\ y.mode = x.mode
  /\ \A post : SendPlace(g, e, y, post) = SendPlace(g, e, x, post)
  /\ \A given : ReadPlace(g, e, y, given) = ReadPlace(g, e, x, given)

LEMMA OtherOutput ==
  ASSUME NEW g, NEW e \in End, NEW x, IsEnd(g, e, x), x.mode # "closed", NEW b, IsBuffer(Units, b)
  PROVE  OnlyOutputChanges(g, e, x, b, WithOutput(x, b))
<1> DEFINE y == WithOutput(x, b)
<1>1. x \in [pc : 1 .. Last(g, e), mode : {"open", "disconnecting", "closed"}, why : {x.why},
             sent : 0 .. MaxData[e], output : {x.output}, input : {x.input},
             send_context : Contexts, receive_context : Contexts, deflate : Nat, inflate : Nat]
  BY DEF IsEnd
<1>2. /\ y \in [pc : 1 .. Last(g, e), mode : {"open", "disconnecting", "closed"}, why : {x.why},
                sent : 0 .. MaxData[e], output : {b}, input : {x.input},
                send_context : Contexts, receive_context : Contexts, deflate : Nat, inflate : Nat]
      /\ y.pc = x.pc /\ y.mode = x.mode /\ y.why = x.why /\ y.output = b /\ y.input = x.input
      /\ y.send_context = x.send_context /\ y.receive_context = x.receive_context
      /\ y.deflate = x.deflate /\ y.inflate = x.inflate
  BY <1>1 DEF WithOutput
<1> HIDE DEF y
<1>3. IsEnd(g, e, y)
  BY <1>2 DEF IsEnd
<1>4. /\ \A post : SendPlace(g, e, y, post) = SendPlace(g, e, x, post)
      /\ \A given : ReadPlace(g, e, y, given) = ReadPlace(g, e, x, given)
  BY <1>2 DEF SendPlace, ReadPlace
<1> QED
  BY <1>2, <1>3, <1>4 DEF y, OnlyOutputChanges

LEMMA OtherInput ==
  ASSUME NEW g, NEW e \in End, NEW x, IsEnd(g, e, x), x.mode # "closed", NEW b, IsBuffer(Units, b)
  PROVE  OnlyInputChanges(g, e, x, b, WithInput(x, b))
<1> DEFINE y == WithInput(x, b)
<1>1. x \in [pc : 1 .. Last(g, e), mode : {"open", "disconnecting", "closed"}, why : {x.why},
             sent : 0 .. MaxData[e], output : {x.output}, input : {x.input},
             send_context : Contexts, receive_context : Contexts, deflate : Nat, inflate : Nat]
  BY DEF IsEnd
<1>2. /\ y \in [pc : 1 .. Last(g, e), mode : {"open", "disconnecting", "closed"}, why : {x.why},
                sent : 0 .. MaxData[e], input : {b}, output : {x.output},
                send_context : Contexts, receive_context : Contexts, deflate : Nat, inflate : Nat]
      /\ y.pc = x.pc /\ y.mode = x.mode /\ y.why = x.why /\ y.input = b /\ y.output = x.output
      /\ y.send_context = x.send_context /\ y.receive_context = x.receive_context
      /\ y.deflate = x.deflate /\ y.inflate = x.inflate
  BY <1>1 DEF WithInput
<1> HIDE DEF y
<1>3. IsEnd(g, e, y)
  BY <1>2 DEF IsEnd
<1>4. /\ \A post : SendPlace(g, e, y, post) = SendPlace(g, e, x, post)
      /\ \A given : ReadPlace(g, e, y, given) = ReadPlace(g, e, x, given)
  BY <1>2 DEF SendPlace, ReadPlace
<1> QED
  BY <1>2, <1>3, <1>4 DEF y, OnlyInputChanges

\* What the kernel takes from the output buffer.
LEMMA WriteKeeps ==
  ASSUME InTune, NEW e \in End, NEW n \in 0 .. Len(Contents(end[e].output)), Up(e),
         Len(pipe[e]) + n <= PipeSize,
         pipe' = [pipe EXCEPT ![e] = @ \o SubSeq(Contents(end[e].output), 1, n)],
         end' = [end EXCEPT ![e].output = buffer_consume(@, n)],
         UNCHANGED <<cfg, posted, got>>
  PROVE  InTune'
<1> DEFINE f == Peer(e)
           b == buffer_consume(end[e].output, n)
           y == WithOutput(end[e], b)
           out == Contents(end[e].output)
           in == Contents(end[f].input)
           q == pipe[e] \o SubSeq(out, 1, n)
<1>1. f \in End /\ Peer(f) = e /\ f # e /\ \A h \in End : h = e \/ h = f
  BY Ends
<1>2. IsEnd(cfg, e, end[e]) /\ IsBuffer(Units, end[e].output) /\ pipe \in [End -> Seq(Units)]
      /\ (\A h \in End : Len(pipe[h]) <= PipeSize) /\ DOMAIN end = End /\ PipeSize \in Nat
  BY PacketsAssumption DEF InTune, Typed, IsEnd
<1>3. Typed
  BY DEF InTune
<1>4. out \in Seq(Units) /\ Len(out) = buffer_len(end[e].output) /\ pipe[e] \in Seq(Units)
  BY <1>3, ContentsAre
<1>5. in \in Seq(Units)
  BY <1>1, <1>3, ContentsAre
<1>6. IsBuffer(Units, b) /\ Contents(b) = SubSeq(out, n + 1, Len(out))
  <2>1. n \in 0 .. buffer_len(end[e].output)
    BY <1>4
  <2> QED
    BY <2>1, <1>2, ConsumeTakes
<1>7. /\ IsEnd(cfg, e, y) /\ y.output = b /\ y.input = end[e].input /\ y.mode = end[e].mode
      /\ SendPlace(cfg, e, y, posted[e]) = SendPlace(cfg, e, end[e], posted[e])
      /\ ReadPlace(cfg, e, y, got[e]) = ReadPlace(cfg, e, end[e], got[e])
  <2>1. end[e].mode # "closed" /\ IsEnd(cfg, e, end[e]) /\ IsBuffer(Units, b)
    BY <1>2, <1>6 DEF Up
  <2> HIDE DEF b
  <2>2. OnlyOutputChanges(cfg, e, end[e], b, y)
    BY <2>1, OtherOutput, Zenon
  <2> HIDE DEF y
  <2> QED
    BY <2>2 DEF OnlyOutputChanges
<1>8. end' = [end EXCEPT ![e] = y]
  BY <1>2 DEF WithOutput
<1>9. q \in Seq(Units) /\ Len(q) <= PipeSize
  <2>1. SubSeq(out, 1, n) \in Seq(Units) /\ Len(SubSeq(out, 1, n)) = n
    <3>1. out \in Seq(Units) /\ n \in 0 .. Len(out)
      BY <1>4
    <3> HIDE DEF out
    <3> QED
      BY <3>1, HalvesMakeAWhole, Zenon
  <2> HIDE DEF out
  <2> QED
    BY <2>1, <1>2, <1>4
<1> HIDE DEF y, b
<1>10. pipe' \in [End -> Seq(Units)] /\ (\A h \in End : Len(pipe'[h]) <= PipeSize)
       /\ pipe'[e] = q /\ pipe'[f] = pipe[f]
  <2> HIDE DEF out, f
  <2>1. pipe' = [pipe EXCEPT ![e] = q]
    BY DEF out
  <2> HIDE DEF q
  <2> QED
    BY <2>1, <1>1, <1>2, <1>9
<1>11. Line(in, q, SubSeq(out, n + 1, Len(out))) = Line(in, pipe[e], out)
  <2> HIDE DEF in, out
  <2>1. n \in 0 .. Len(out)
    BY DEF out
  <2>2. << >> \in Seq(Units)
    OBVIOUS
  <2> QED
    BY <2>1, <2>2, <1>4, <1>5, LineMoves
<1>12. Line(in, pipe'[e], Contents(y.output)) = Line(in, pipe[e], out)
  BY <1>6, <1>7, <1>10, <1>11
<1>13. Line(Contents(y.input), pipe'[f], Contents(end[f].output))
         = Line(Contents(end[e].input), pipe[f], Contents(end[f].output))
  BY <1>7, <1>10
<1> QED
  BY <1>7, <1>8, <1>10, <1>12, <1>13, QuietStepKeeps DEF f, in, out

LEMMA WritePollKeeps ==
  ASSUME InTune, NEW e \in End, packet_write_poll(e)
  PROVE  InTune'
<1> DEFINE f == Peer(e)
           out == Contents(end[e].output)
<1>1. f \in End /\ Peer(f) = e /\ f # e /\ \A h \in End : h = e \/ h = f
  BY Ends
<1>2. IsEnd(cfg, e, end[e]) /\ IsEnd(cfg, f, end[f]) /\ pipe \in [End -> Seq(Units)]
      /\ (\A h \in End : Len(pipe[h]) <= PipeSize) /\ DOMAIN end = End /\ PipeSize \in Nat \ {0}
      /\ posted \in [End -> Seq(Message)] /\ got \in [End -> Seq(Message)] /\ Typed
  BY <1>1, PacketsAssumption DEF InTune, Typed
<1>3. out \in Seq(Units) /\ Len(out) \in Nat /\ Len(out) = buffer_len(end[e].output)
      /\ pipe[e] \in Seq(Units) /\ Len(pipe[e]) \in Nat
  BY <1>2, ContentsAre
<1>4. Up(e) /\ UNCHANGED <<cfg, posted, got>>
  BY DEF packet_write_poll
<1> DEFINE room == PipeSize - Len(pipe[e])
           n == IF room < Len(out) THEN room ELSE Len(out)
<1>5. CASE /\ n > 0
           /\ pipe' = [pipe EXCEPT ![e] = @ \o SubSeq(out, 1, n)]
           /\ end' = [end EXCEPT ![e].output = buffer_consume(@, n)]
  <2>1. room \in Nat /\ Len(pipe[e]) + room = PipeSize
    BY <1>2, <1>3
  <2>2. n \in 0 .. Len(out) /\ Len(pipe[e]) + n <= PipeSize
    <3> HIDE DEF room, out
    <3> QED
      BY <2>1, <1>3
  <2> HIDE DEF n
  <2> QED
    BY <1>4, <1>5, <2>2, WriteKeeps
<1>6. CASE /\ ~Up(f)
           /\ end' = [end EXCEPT ![e].output = buffer_consume(@, Len(out))]
           /\ \E kept \in Prefixes(pipe[f]) : pipe' = [pipe EXCEPT ![f] = kept]
  <2> DEFINE b == buffer_consume(end[e].output, Len(out))
             y == WithOutput(end[e], b)
  <2>1. PICK kept \in Prefixes(pipe[f]) : pipe' = [pipe EXCEPT ![f] = kept]
    BY <1>6
  <2>2. IsBuffer(Units, b)
    <3>1. Len(out) \in 0 .. buffer_len(end[e].output) /\ IsBuffer(Units, end[e].output)
      BY <1>2, <1>3 DEF IsEnd
    <3> QED
      BY <3>1, ConsumeTakes
  <2>3. /\ IsEnd(cfg, e, y) /\ y.input = end[e].input /\ y.mode = end[e].mode
        /\ ReadPlace(cfg, e, y, got[e]) = ReadPlace(cfg, e, end[e], got[e])
    <3>1. end[e].mode # "closed" /\ IsEnd(cfg, e, end[e]) /\ IsBuffer(Units, b)
      BY <1>2, <1>4, <2>2 DEF Up
    <3> HIDE DEF b
    <3>2. OnlyOutputChanges(cfg, e, end[e], b, y)
      BY <3>1, OtherOutput, Zenon
    <3> HIDE DEF y
    <3> QED
      BY <3>2 DEF OnlyOutputChanges
  <2>4. end' = [end EXCEPT ![e] = y]
    BY <1>2, <1>6 DEF WithOutput
  <2>5. Contents(end[e].input) \in Seq(Units)
    BY <1>2, ContentsAre
  <2>6. pipe[f] \in Seq(Units) /\ Contents(end[f].output) = << >> /\ << >> \in Seq(Units)
    BY <1>1, <1>2, <1>6 DEF IsEnd, Up
  <2> DEFINE in == Contents(end[e].input)
             U == Line(in, pipe[f], << >>)
             V == Line(in, kept, << >>)
  <2> HIDE DEF y, b, in
  <2>7. /\ kept \in Seq(Units) /\ Len(kept) <= Len(pipe[f]) /\ Len(V) <= Len(U)
        /\ \A i \in 1 .. Len(V) : V[i] = U[i]
    BY <2>1, <2>5, <2>6, LineIsCut DEF in
  <2>8. U \in Seq(Units) /\ V \in Seq(Units)
    <3>1. kept \in Seq(Units)
      BY <2>7
    <3> QED
      BY <3>1, <2>5, <2>6, LineIs DEF in
  <2>9. pipe' \in [End -> Seq(Units)] /\ (\A h \in End : Len(pipe'[h]) <= PipeSize) /\ pipe'[f] = kept
    <3>1. Len(kept) \in Nat /\ Len(pipe[f]) \in Nat /\ PipeSize \in Nat
      BY <2>6, <2>7, <1>2
    <3> QED
      BY <3>1, <1>1, <1>2, <2>1, <2>7
  <2> DEFINE R == ReadPlace(cfg, e, end[e], got[e])
             S == SendPlace(cfg, f, end[f], posted[f])
             post == posted[f]
             dead == Up(f)
  <2>10. Flow(cfg, f, U, R, S, dead, post)
    <3>1. Stream(f)
      BY <1>1 DEF InTune
    <3> QED
      BY <3>1, <1>1, <1>4, <2>6 DEF Stream, in
  <2>11. Flow(cfg, f, V, R, S, dead, post)
    <3>1. post \in Seq(Message) /\ dead \in BOOLEAN /\ ~dead
      BY <1>1, <1>2, <1>6 DEF Up
    <3> HIDE DEF R, S, post, dead, U, V, f
    <3>2. Len(post) <= Len(post)
      BY <3>1
    <3> QED
      BY <2>7, <2>8, <2>10, <3>1, <3>2, FlowWeakens
  <2>12. posted' = posted /\ got' = got /\ cfg' = cfg
    BY <1>4
  <2>13. Flow(cfg, f, Line(Contents(y.input), pipe'[f], Contents(end[f].output)),
              ReadPlace(cfg, e, y, got'[e]), SendPlace(cfg, f, end[f], posted'[f]), Up(f), posted'[f])
    BY <2>3, <2>6, <2>9, <2>11, <2>12 DEF in
  <2> QED
    BY <1>2, <1>6, <2>3, <2>4, <2>9, <2>12, <2>13, OneEndMoves
<1>7. CASE ~Up(f) /\ Close(e, "write failed")
  BY <1>4, <1>7, CloseKeeps
<1> QED
  BY <1>5, <1>6, <1>7 DEF packet_write_poll

\* What an end reads from the connection.
LEMMA ProcessIncomingKeeps ==
  ASSUME InTune, NEW e \in End, packet_process_incoming(e)
  PROVE  InTune'
<1> DEFINE f == Peer(e)
           from == pipe[f]
           in == Contents(end[e].input)
           out == Contents(end[f].output)
<1>1. f \in End /\ Peer(f) = e /\ f # e /\ \A h \in End : h = e \/ h = f
  BY Ends
<1>2. IsEnd(cfg, e, end[e]) /\ IsBuffer(Units, end[e].input) /\ pipe \in [End -> Seq(Units)]
      /\ (\A h \in End : Len(pipe[h]) <= PipeSize) /\ DOMAIN end = End /\ PipeSize \in Nat /\ Typed
  BY PacketsAssumption DEF InTune, Typed, IsEnd
<1>3. in \in Seq(Units) /\ out \in Seq(Units) /\ from \in Seq(Units) /\ Len(from) \in Nat
  <2>1. in \in Seq(Units)
    BY <1>2, ContentsAre
  <2>2. out \in Seq(Units) /\ from \in Seq(Units)
    BY <1>1, <1>2, ContentsAre
  <2> QED
    BY <2>1, <2>2
<1>4. Up(e) /\ UNCHANGED <<cfg, posted, got>>
  BY DEF packet_process_incoming, Reading
<1>5. ASSUME NEW n \in 1 .. Len(from),
             end' = [end EXCEPT ![e].input = buffer_append(@, SubSeq(from, 1, n))],
             pipe' = [pipe EXCEPT ![f] = SubSeq(@, n + 1, Len(@))]
      PROVE  InTune'
  <2> DEFINE data == SubSeq(from, 1, n)
             rest == SubSeq(from, n + 1, Len(from))
             b == buffer_append(end[e].input, data)
             y == WithInput(end[e], b)
  <2>1. data \in Seq(Units) /\ rest \in Seq(Units) /\ Len(rest) <= Len(from) /\ Len(rest) \in Nat
    <3> HIDE DEF from
    <3> QED
      BY <1>3
  <2> HIDE DEF data, rest
  <2>2. IsBuffer(Units, b) /\ Contents(b) = in \o data
    BY <1>2, <2>1, AppendAppends
  <2>3. /\ IsEnd(cfg, e, y) /\ y.input = b /\ y.output = end[e].output /\ y.mode = end[e].mode
        /\ SendPlace(cfg, e, y, posted[e]) = SendPlace(cfg, e, end[e], posted[e])
        /\ ReadPlace(cfg, e, y, got[e]) = ReadPlace(cfg, e, end[e], got[e])
    <3>1. end[e].mode # "closed" /\ IsEnd(cfg, e, end[e]) /\ IsBuffer(Units, b)
      BY <1>2, <1>4, <2>2 DEF Up
    <3> HIDE DEF b
    <3>2. OnlyInputChanges(cfg, e, end[e], b, y)
      BY <3>1, OtherInput, Zenon
    <3> HIDE DEF y
    <3> QED
      BY <3>2 DEF OnlyInputChanges
  <2>4. end' = [end EXCEPT ![e] = y]
    BY <1>2, <1>5 DEF data, WithInput
  <2>5. pipe' = [pipe EXCEPT ![f] = rest]
    BY <1>5 DEF rest
  <2>6. pipe' \in [End -> Seq(Units)] /\ (\A h \in End : Len(pipe'[h]) <= PipeSize)
        /\ pipe'[f] = rest /\ pipe'[e] = pipe[e]
    <3>1. \A h \in End : Len(pipe[h]) \in Nat
      BY <1>2
    <3> QED
      BY <3>1, <1>1, <1>2, <2>1, <2>5
  <2> HIDE DEF y, b
  <2>7. Line(in \o data, rest, out) = Line(in, from, out)
    <3>1. n \in 0 .. Len(from)
      BY <1>3
    <3>2. << >> \in Seq(Units)
      OBVIOUS
    <3> HIDE DEF in, from, out
    <3> QED
      BY <3>1, <3>2, <1>3, LineMoves DEF data, rest
  <2>8. Line(Contents(y.input), pipe'[f], out) = Line(in, from, out)
    BY <2>2, <2>3, <2>6, <2>7
  <2>9. Line(Contents(end[f].input), pipe'[e], Contents(y.output))
          = Line(Contents(end[f].input), pipe[e], Contents(end[e].output))
    BY <2>3, <2>6
  <2> QED
    BY <1>4, <2>3, <2>4, <2>6, <2>8, <2>9, QuietStepKeeps
<1>6. CASE Close(e, "connection closed")
  BY <1>4, <1>6, CloseKeeps
<1> QED
  BY <1>5, <1>6 DEF packet_process_incoming

-----------------------------------------------------------------------------
(* The steps keep it: what sends, and what only goes on.                   *)

\* An end that went on to x and may send m, so that post is what it posted.
Ready(e, x, m, post) ==
  /\ x.mode # "closed" /\ IsEnd(cfg, e, x)
  /\ x.output = end[e].output /\ x.input = end[e].input
  /\ x.send_context = end[e].send_context /\ x.receive_context = end[e].receive_context
  /\ x.deflate = end[e].deflate /\ x.inflate = end[e].inflate
  /\ Reads(cfg, e, x.pc) = Reads(cfg, e, end[e].pc)
  /\ LET S == SendPlace(cfg, e, end[e], posted[e]) IN
     /\ Tuned(cfg, e, x, e, S.rank) /\ Due(cfg, e, S, m, post)
     /\ Sends(cfg, e, x.pc) = After(cfg, e, S, m).rank
     /\ Len(post) = After(cfg, e, S, m).vis
  /\ Extends(posted[e], post)

\* y has sent m.
Sending(e, x, m, post, y) ==
  /\ Ready(e, x, m, post) /\ IsEnd(cfg, e, y) /\ y.mode # "closed"
  /\ y.pc = x.pc /\ y.output = packet_send(x, m).output /\ y.input = x.input
  /\ y.send_context = packet_send(x, m).send_context /\ y.receive_context = x.receive_context
  /\ y.deflate = packet_send(x, m).deflate /\ y.inflate = x.inflate

LEMMA SendKeeps ==
  ASSUME InTune, NEW e \in End, Up(e), NEW x, NEW m \in Message, NEW post, NEW y,
         Sending(e, x, m, post, y),
         end' = [end EXCEPT ![e] = y], posted' = [posted EXCEPT ![e] = post],
         UNCHANGED <<cfg, pipe, got>>
  PROVE  InTune'
<1> DEFINE f == Peer(e)
           S == SendPlace(cfg, e, end[e], posted[e])
           T == After(cfg, e, S, m)
           R == ReadPlace(cfg, f, end[f], got[f])
           in == Contents(end[f].input)
           out == Contents(end[e].output)
           U == Line(in, pipe[e], out)
           W == Wire(x, m)
           old == posted[e]
           z == packet_send(x, m)
<1>1. f \in End /\ Peer(f) = e /\ f # e /\ \A h \in End : h = e \/ h = f
  BY Ends
<1>2. /\ pipe \in [End -> Seq(Units)] /\ posted \in [End -> Seq(Message)] /\ got \in [End -> Seq(Message)]
      /\ (\A h \in End : Len(pipe[h]) <= PipeSize) /\ Typed /\ cfg.compression \in BOOLEAN
  BY DEF InTune, Typed
<1>3. S \in Places
  BY <1>2, PlacesAre
<1>4. /\ IsEnd(cfg, e, x) /\ x.mode # "closed" /\ Tuned(cfg, e, x, e, S.rank)
      /\ S.crypt = x.send_context.at /\ S.flate = Ahead(x.deflate)
  BY DEF Sending, Ready, SendPlace
<1>5. SendsAt(cfg, e, x, S)
  BY <1>2, <1>3, <1>4 DEF SendsAt
<1>6. /\ Contents(z.output) = out \o W
      /\ z.send_context.at = T.crypt /\ Ahead(z.deflate) = T.flate
  <2>1. /\ Contents(z.output) = Contents(x.output) \o W
        /\ z.send_context.at = T.crypt /\ Ahead(z.deflate) = T.flate
    <3>1. SentFrom(cfg, e, x, S, m, z)
      <4> HIDE DEF S
      <4> QED
        BY <1>5, SendSends, Zenon
    <3> HIDE DEF z, S
    <3> QED
      BY <3>1 DEF SentFrom
  <2>2. x.output = end[e].output
    BY DEF Sending, Ready
  <2> QED
    BY <2>1, <2>2
<1>17. IsCut(cfg, e, S, m, W)
  <2> HIDE DEF S
  <2> QED
    BY <1>5, WireIsUnits, Zenon
<1>7. SendPlace(cfg, e, y, post) = T
  <2>1. /\ y.pc = x.pc /\ y.send_context = z.send_context /\ y.deflate = z.deflate
        /\ Sends(cfg, e, x.pc) = T.rank /\ Len(post) = T.vis
    BY DEF Sending, Ready
  <2>2. T = [rank |-> T.rank, crypt |-> T.crypt, flate |-> T.flate, vis |-> T.vis]
    BY DEF After
  <2> HIDE DEF T, z
  <2> QED
    BY <2>1, <2>2, <1>6 DEF SendPlace
<1>8. in \in Seq(Units) /\ out \in Seq(Units) /\ pipe[e] \in Seq(Units)
  <2>1. in \in Seq(Units)
    BY <1>1, <1>2, ContentsAre
  <2>2. out \in Seq(Units) /\ pipe[e] \in Seq(Units)
    BY <1>2, ContentsAre
  <2> QED
    BY <2>1, <2>2
<1>9. Extends(old, post) /\ Due(cfg, e, S, m, post)
  BY DEF Sending, Ready
<1> HIDE DEF in, out, W, S, R, old, z
<1>10. U \in Seq(Units) /\ W \in Seq(Units) /\ Line(in, pipe[e], out \o W) = U \o W
  <2>1. U \in Seq(Units)
    BY <1>8, LineIs
  <2>2. W \in Seq(Units)
    BY <1>17 DEF IsCut
  <2>3. Line(in, pipe[e], out \o W) = Line(in, pipe[e], out) \o W
    BY <2>2, <1>8, LineGrows, ZenonT(60)
  <2> QED
    BY <2>1, <2>2, <2>3
<1> HIDE DEF U
<1>11. ASSUME Up(f)
       PROVE  Flow(cfg, e, U \o W, R, T, TRUE, post)
  <2> DEFINE up == TRUE
  <2>1. Flow(cfg, e, U, R, S, up, old)
    BY <1>1, <1>11 DEF InTune, Stream, U, in, out, R, S, old
  <2>2. up \in BOOLEAN /\ U \in Seq(Units)
    BY <1>10
  <2> HIDE DEF up
  <2>4. Flow(cfg, e, U, R, S, up, post)
    BY <2>1, <2>2, <1>9, FlowGrows, Zenon
  <2>5. Flow(cfg, e, U, R, S, TRUE, post)
    BY <2>4 DEF up
  <2> QED
    BY <2>5, <1>3, <1>9, <1>10, <1>17, FlowIsSent, Zenon
<1>12. Contents(y.output) = out \o W /\ y.input = end[e].input /\ y.mode # "closed" /\ IsEnd(cfg, e, y)
  BY <1>6 DEF Sending, Ready, z
<1>13. ReadPlace(cfg, e, y, got[e]) = ReadPlace(cfg, e, end[e], got[e])
  BY DEF Sending, Ready, ReadPlace
<1>14. posted' \in [End -> Seq(Message)] /\ posted'[e] = post /\ posted'[f] = posted[f]
       /\ pipe' = pipe /\ got' = got /\ cfg' = cfg
  <2>1. post \in Seq(Message)
    BY <1>9 DEF Extends
  <2> QED
    BY <2>1, <1>1, <1>2
<1>15. Up(f) =>
         Flow(cfg, e, Line(Contents(end[f].input), pipe'[e], Contents(y.output)),
              ReadPlace(cfg, f, end[f], got'[f]), SendPlace(cfg, e, y, posted'[e]),
              y.mode # "closed", posted'[e])
  <2> SUFFICES ASSUME Up(f)
               PROVE  Flow(cfg, e, Line(Contents(end[f].input), pipe'[e], Contents(y.output)),
                           ReadPlace(cfg, f, end[f], got'[f]), SendPlace(cfg, e, y, posted'[e]),
                           y.mode # "closed", posted'[e])
    OBVIOUS
  <2>1. Flow(cfg, e, U \o W, R, T, TRUE, post)
    BY <1>11
  <2>2. (y.mode # "closed") = TRUE
    BY <1>12
  <2> HIDE DEF T
  <2> QED
    BY <2>1, <2>2, <1>7, <1>10, <1>12, <1>14 DEF in, R
<1>16. Flow(cfg, f, Line(Contents(y.input), pipe'[f], Contents(end[f].output)),
            ReadPlace(cfg, e, y, got'[e]), SendPlace(cfg, f, end[f], posted'[f]), Up(f), posted'[f])
  <2>1. Stream(f)
    BY <1>1 DEF InTune
  <2> QED
    BY <2>1, <1>1, <1>12, <1>13, <1>14 DEF Stream
<1> QED
  BY <1>2, <1>12, <1>14, <1>15, <1>16, OneEndMoves

LEMMA DoesIs ==
  ASSUME InTune, NEW e \in End, Up(e), Does(e).do # "disconnect"
  PROVE  /\ end[e].mode = "open" /\ Does(e) = Script(e)[end[e].pc]
         /\ end[e].pc \in 1 .. Last(cfg, e) /\ end[e].pc \in Nat /\ cfg.compression \in BOOLEAN
         /\ IsEnd(cfg, e, end[e])
<1>1. IsEnd(cfg, e, end[e]) /\ cfg.compression \in BOOLEAN
  BY DEF InTune, Typed
<1>2. end[e].mode \in {"open", "disconnecting", "closed"} /\ end[e].pc \in 1 .. Last(cfg, e)
      /\ Last(cfg, e) \in Nat
  BY <1>1 DEF IsEnd, Last
<1>3. end[e].mode # "disconnecting"
  BY DEF Does, Op
<1> QED
  BY <1>1, <1>2, <1>3 DEF Does, Up

LEMMA SaidIs ==
  ASSUME NEW g, NEW e \in End, NEW k \in Nat \ {0}
  PROVE  [type |-> Said(g, e, k), n |-> 0] \in Message /\ Scripted([type |-> Said(g, e, k), n |-> 0])
BY DEF Said, Message, Scripted

\* An end at the next step of its script.
LEMMA GoesOn ==
  ASSUME InTune, NEW e \in End, Up(e), Does(e).do \notin {"disconnect", "session", "key", "compress"}
  PROVE  LET x == [end[e] EXCEPT !.pc = @ + 1] IN
         /\ IsEnd(cfg, e, x) /\ x.pc = end[e].pc + 1 /\ x.mode = end[e].mode
         /\ x.output = end[e].output /\ x.input = end[e].input
         /\ x.send_context = end[e].send_context /\ x.receive_context = end[e].receive_context
         /\ x.deflate = end[e].deflate /\ x.inflate = end[e].inflate
         /\ x.pc > 4 <=> end[e].pc > 4
         /\ cfg.compression => (x.pc > Packing(e) <=> end[e].pc > Packing(e))
<1> DEFINE z == end[e]
           pc == z.pc
           x == [z EXCEPT !.pc = @ + 1]
<1>1. /\ Does(e) = Script(e)[pc] /\ pc \in 1 .. Last(cfg, e) /\ pc \in Nat
      /\ cfg.compression \in BOOLEAN /\ IsEnd(cfg, e, z)
  BY DoesIs
<1>2. /\ pc + 1 \in 1 .. Last(cfg, e) /\ pc # 4 /\ ~(cfg.compression /\ pc = Packing(e))
  BY <1>1, ScriptTable
<1>3. Packing(e) \in Nat
  BY DEF Packing
<1> HIDE DEF z
<1>4. z \in [pc : 1 .. Last(cfg, e), mode : {"open", "disconnecting", "closed"}, why : {z.why},
             sent : 0 .. MaxData[e], output : {z.output}, input : {z.input},
             send_context : Contexts, receive_context : Contexts, deflate : Nat, inflate : Nat]
  BY <1>1 DEF IsEnd
<1>5. /\ x \in [pc : 1 .. Last(cfg, e), mode : {"open", "disconnecting", "closed"}, why : {z.why},
                sent : 0 .. MaxData[e], output : {z.output}, input : {z.input},
                send_context : Contexts, receive_context : Contexts, deflate : Nat, inflate : Nat]
      /\ x.pc = pc + 1 /\ x.mode = z.mode /\ x.why = z.why /\ x.output = z.output /\ x.input = z.input
      /\ x.send_context = z.send_context /\ x.receive_context = z.receive_context
      /\ x.deflate = z.deflate /\ x.inflate = z.inflate
  BY <1>2, <1>4
<1>6. (pc + 1 > 4 <=> pc > 4) /\ (pc + 1 <= 4 <=> pc <= 4)
      /\ (cfg.compression => (pc + 1 > Packing(e) <=> pc > Packing(e)))
  BY <1>1, <1>2, <1>3
<1> HIDE DEF x
<1>7. IsEnd(cfg, e, x)
  BY <1>1, <1>5, <1>6 DEF IsEnd
<1> QED
  BY <1>5, <1>6, <1>7 DEF x, z

\* What sending makes of an end that is ready is an end.
LEMMA ReadySends ==
  ASSUME InTune, NEW e \in End, Up(e), NEW x, NEW m \in Message, NEW post, Ready(e, x, m, post)
  PROVE  /\ IsEnd(cfg, e, packet_send(x, m))
         /\ packet_send(x, m).pc = x.pc /\ packet_send(x, m).mode = x.mode
         /\ packet_send(x, m).input = x.input /\ packet_send(x, m).sent = x.sent
         /\ packet_send(x, m).receive_context = x.receive_context
         /\ packet_send(x, m).inflate = x.inflate
<1> DEFINE S == SendPlace(cfg, e, end[e], posted[e])
<1>1. Typed /\ cfg.compression \in BOOLEAN
  BY DEF InTune, Typed
<1>2. S \in Places
  BY <1>1, PlacesAre
<1>3. SendsAt(cfg, e, x, S)
  BY <1>1, <1>2 DEF Ready, SendsAt, SendPlace
<1>4. SentFrom(cfg, e, x, S, m, packet_send(x, m))
  <2> HIDE DEF S
  <2> QED
    BY <1>3, SendSends, Zenon
<1> HIDE DEF S
<1> DEFINE z == packet_send(x, m)
<1>5. SentFrom(cfg, e, x, S, m, z)
  BY <1>4
<1> HIDE DEF z
<1>6. IsEnd(cfg, e, z) /\ z.pc = x.pc /\ z.mode = x.mode /\ z.input = x.input /\ z.sent = x.sent
      /\ z.receive_context = x.receive_context /\ z.inflate = x.inflate
  BY <1>5 DEF SentFrom
<1> QED
  BY <1>6 DEF z

LEMMA TunedToSend ==
  ASSUME InTune, NEW e \in End, Up(e), Does(e).do \in {"send", "debug", "session"}
  PROVE  LET S == SendPlace(cfg, e, end[e], posted[e]) IN
         /\ Tuned(cfg, e, end[e], e, S.rank) /\ S.rank = Sends(cfg, e, end[e].pc)
         /\ S.vis = Len(posted[e]) /\ S.rank \in 0 .. Total(cfg)
<1>1. /\ Does(e) = Script(e)[end[e].pc] /\ end[e].pc \in 1 .. Last(cfg, e)
      /\ cfg.compression \in BOOLEAN
  BY DoesIs
<1> DEFINE pc == end[e].pc
           sends == Sends(cfg, e, pc)
<1>2. /\ sends \in 0 .. Total(cfg) /\ (sends >= 1 <=> pc > 4)
      /\ cfg.compression => (Packs(e, sends) <=> pc > Packing(e))
  BY <1>1, ScriptTable
<1>3. Total(cfg) \in Nat
  BY DEF Total
<1> HIDE DEF sends
<1>4. SendPlace(cfg, e, end[e], posted[e]).rank = sends
      /\ SendPlace(cfg, e, end[e], posted[e]).vis = Len(posted[e])
  BY DEF SendPlace, sends
<1> HIDE DEF pc
<1>5. sends \in Nat
  BY <1>2, <1>3
<1> QED
  BY <1>2, <1>4, <1>5 DEF Tuned, pc, sends

\* The next message of the script.
LEMMA ScriptSendKeeps ==
  ASSUME InTune, NEW e \in End, Up(e), Does(e).do = "send",
         end' = [end EXCEPT ![e] = packet_send([end[e] EXCEPT !.pc = @ + 1],
                                               [type |-> Does(e).what, n |-> 0])],
         posted' = [posted EXCEPT ![e] = Append(@, [type |-> Does(e).what, n |-> 0])],
         UNCHANGED <<cfg, pipe, got>>
  PROVE  InTune'
<1> DEFINE x == [end[e] EXCEPT !.pc = @ + 1]
           pc == end[e].pc
           m == [type |-> Does(e).what, n |-> 0]
           old == posted[e]
           post == Append(old, m)
           S == SendPlace(cfg, e, end[e], old)
<1>1. /\ Does(e) = Script(e)[pc] /\ pc \in 1 .. Last(cfg, e) /\ pc \in Nat
      /\ cfg.compression \in BOOLEAN
  BY DoesIs
<1>2. /\ Does(e).what = Said(cfg, e, Sends(cfg, e, pc) + 1) /\ Sends(cfg, e, pc) < Total(cfg)
      /\ Sends(cfg, e, pc + 1) = Sends(cfg, e, pc) + 1
      /\ Reads(cfg, e, pc + 1) = Reads(cfg, e, pc)
      /\ Sends(cfg, e, pc) \in 0 .. Total(cfg)
  BY <1>1, ScriptTable
<1>3. /\ Tuned(cfg, e, end[e], e, S.rank) /\ S.rank = Sends(cfg, e, pc)
      /\ S.vis = Len(old)
  BY TunedToSend
<1>4. /\ IsEnd(cfg, e, x) /\ x.pc = pc + 1 /\ x.mode = end[e].mode
      /\ x.output = end[e].output /\ x.input = end[e].input
      /\ x.send_context = end[e].send_context /\ x.receive_context = end[e].receive_context
      /\ x.deflate = end[e].deflate /\ x.inflate = end[e].inflate
      /\ x.pc > 4 <=> end[e].pc > 4
      /\ cfg.compression => (x.pc > Packing(e) <=> end[e].pc > Packing(e))
  BY GoesOn
<1>5. m \in Message /\ Scripted(m) /\ m.type = Does(e).what
  <2>1. Sends(cfg, e, pc) + 1 \in Nat \ {0}
    BY <1>2 DEF Total
  <2> QED
    BY <2>1, <1>2, SaidIs
<1>6. old \in Seq(Message) /\ DOMAIN posted = End
  BY DEF InTune, Typed
<1> HIDE DEF x, m
<1>7. /\ post \in Seq(Message) /\ Len(post) = Len(old) + 1 /\ Len(old) \in Nat
      /\ (\A i \in 1 .. Len(old) : post[i] = old[i]) /\ post[Len(old) + 1] = m
  BY <1>5, <1>6
<1>8. Extends(old, post)
  BY <1>6, <1>7 DEF Extends
<1> HIDE DEF S, old, post
<1>9. Tuned(cfg, e, x, e, S.rank)
  BY <1>3, <1>4 DEF Tuned
<1>10. Visible(m) /\ m.type # "DATA"
  BY <1>5 DEF Visible, Scripted
<1>11. Due(cfg, e, S, m, post)
  BY <1>2, <1>3, <1>5, <1>7, <1>10 DEF Due
<1>12. After(cfg, e, S, m).rank = S.rank + 1 /\ After(cfg, e, S, m).vis = S.vis + 1
  BY <1>5, <1>10 DEF After
<1>13. Ready(e, x, m, post)
  <2>1. Reads(cfg, e, x.pc) = Reads(cfg, e, pc) /\ Sends(cfg, e, x.pc) = S.rank + 1
    BY <1>2, <1>3, <1>4
  <2>2. x.mode # "closed"
    BY <1>4 DEF Up
  <2> QED
    BY <2>1, <2>2, <1>3, <1>4, <1>7, <1>8, <1>9, <1>11, <1>12 DEF Ready, S, old
<1> DEFINE y == packet_send(x, m)
<1>14. /\ IsEnd(cfg, e, y) /\ y.pc = x.pc /\ y.mode = x.mode /\ y.input = x.input
       /\ y.receive_context = x.receive_context /\ y.inflate = x.inflate
  BY <1>5, <1>13, ReadySends
<1>15. Sending(e, x, m, post, y)
  <2>1. y.output = packet_send(x, m).output /\ y.send_context = packet_send(x, m).send_context
        /\ y.deflate = packet_send(x, m).deflate
    OBVIOUS
  <2> HIDE DEF y
  <2> QED
    BY <2>1, <1>4, <1>13, <1>14 DEF Sending, Up
<1>16. end' = [end EXCEPT ![e] = y] /\ posted' = [posted EXCEPT ![e] = post]
  BY <1>6 DEF x, m, post, old
<1> QED
  BY <1>5, <1>15, <1>16, SendKeeps

\* A message that the other end's callers do not see can be sent at any step that sends.
LEMMA ReadyForAside ==
  ASSUME InTune, NEW e \in End, Up(e), Does(e).do \in {"send", "debug", "session"},
         NEW x, IsEnd(cfg, e, x), x.mode = end[e].mode,
         x.output = end[e].output, x.input = end[e].input,
         x.send_context = end[e].send_context, x.receive_context = end[e].receive_context,
         x.deflate = end[e].deflate, x.inflate = end[e].inflate,
         x.pc > 4 <=> end[e].pc > 4,
         cfg.compression => (x.pc > Packing(e) <=> end[e].pc > Packing(e)),
         Sends(cfg, e, x.pc) = Sends(cfg, e, end[e].pc),
         Reads(cfg, e, x.pc) = Reads(cfg, e, end[e].pc),
         NEW m \in Message, ~Visible(m)
  PROVE  Ready(e, x, m, posted[e])
<1> DEFINE old == posted[e]
           S == SendPlace(cfg, e, end[e], old)
<1>1. /\ Tuned(cfg, e, end[e], e, S.rank) /\ S.rank = Sends(cfg, e, end[e].pc)
      /\ S.vis = Len(old)
  BY TunedToSend
<1>2. old \in Seq(Message)
  BY DEF InTune, Typed
<1> HIDE DEF S, old
<1>3. Tuned(cfg, e, x, e, S.rank)
  BY <1>1 DEF Tuned
<1>4. ~Scripted(m) /\ m.type # "DATA"
  BY DEF Visible, Scripted
<1>5. Due(cfg, e, S, m, old)
  BY <1>4 DEF Due
<1>6. After(cfg, e, S, m).rank = S.rank /\ After(cfg, e, S, m).vis = S.vis
  BY <1>4 DEF After
<1>7. Extends(old, old)
  BY <1>2 DEF Extends
<1>8. x.mode # "closed"
  BY DEF Up
<1> QED
  BY <1>1, <1>3, <1>5, <1>6, <1>7, <1>8 DEF Ready, S, old

LEMMA DebugSendKeeps ==
  ASSUME InTune, NEW e \in End, Up(e), Does(e).do = "debug",
         end' = [end EXCEPT ![e] = packet_send([end[e] EXCEPT !.pc = @ + 1],
                                               [type |-> "DEBUG", n |-> 0])],
         UNCHANGED <<cfg, pipe, posted, got>>
  PROVE  InTune'
<1> DEFINE x == [end[e] EXCEPT !.pc = @ + 1]
           pc == end[e].pc
           m == [type |-> "DEBUG", n |-> 0]
           y == packet_send(x, m)
<1>1. /\ Does(e) = Script(e)[pc] /\ pc \in 1 .. Last(cfg, e) /\ cfg.compression \in BOOLEAN
  BY DoesIs
<1>2. Sends(cfg, e, pc + 1) = Sends(cfg, e, pc) /\ Reads(cfg, e, pc + 1) = Reads(cfg, e, pc)
  BY <1>1, ScriptTable
<1>3. /\ IsEnd(cfg, e, x) /\ x.pc = pc + 1 /\ x.mode = end[e].mode
      /\ x.output = end[e].output /\ x.input = end[e].input
      /\ x.send_context = end[e].send_context /\ x.receive_context = end[e].receive_context
      /\ x.deflate = end[e].deflate /\ x.inflate = end[e].inflate
      /\ x.pc > 4 <=> end[e].pc > 4
      /\ cfg.compression => (x.pc > Packing(e) <=> end[e].pc > Packing(e))
  BY GoesOn
<1>4. m \in Message /\ ~Visible(m)
  BY DEF Message, Visible
<1>5. posted \in [End -> Seq(Message)]
  BY DEF InTune, Typed
<1> HIDE DEF x, m
<1>6. Ready(e, x, m, posted[e])
  BY <1>2, <1>3, <1>4, ReadyForAside
<1>7. /\ IsEnd(cfg, e, y) /\ y.pc = x.pc /\ y.mode = x.mode /\ y.input = x.input
      /\ y.receive_context = x.receive_context /\ y.inflate = x.inflate
  BY <1>4, <1>6, ReadySends
<1>8. Sending(e, x, m, posted[e], y)
  <2>1. y.output = packet_send(x, m).output /\ y.send_context = packet_send(x, m).send_context
        /\ y.deflate = packet_send(x, m).deflate
    OBVIOUS
  <2> HIDE DEF y
  <2> QED
    BY <2>1, <1>3, <1>6, <1>7 DEF Sending, Up
<1>9. end' = [end EXCEPT ![e] = y] /\ posted' = [posted EXCEPT ![e] = posted[e]]
  BY <1>5 DEF x, m
<1> QED
  BY <1>4, <1>8, <1>9, SendKeeps

\* packet_disconnect.
LEMMA DisconnectedKeeps ==
  ASSUME InTune, NEW e \in End, Up(e), Does(e).do \in {"send", "debug", "session"},
         NEW why, why \notin {"garbled", "unexpected"},
         end' = [end EXCEPT ![e] = Disconnected(end[e], why)],
         UNCHANGED <<cfg, pipe, posted, got>>
  PROVE  InTune'
<1> DEFINE x == end[e]
           m == [type |-> "DISCONNECT", n |-> 0]
           z == packet_send(x, m)
           y == Disconnected(x, why)
<1>1. IsEnd(cfg, e, x)
  BY DoesIs
<1>2. m \in Message /\ ~Visible(m)
  BY DEF Message, Visible
<1>3. posted \in [End -> Seq(Message)]
  BY DEF InTune, Typed
<1> HIDE DEF m
<1>4. Ready(e, x, m, posted[e])
  BY <1>1, <1>2, ReadyForAside
<1>5. /\ IsEnd(cfg, e, z) /\ z.pc = x.pc /\ z.mode = x.mode /\ z.input = x.input
      /\ z.receive_context = x.receive_context /\ z.inflate = x.inflate
  BY <1>2, <1>4, ReadySends
<1>6. y = [z EXCEPT !.mode = "disconnecting", !.why = why]
  BY DEF Disconnected, m
<1> HIDE DEF z, y, x
<1>7. z \in [pc : 1 .. Last(cfg, e), mode : {"open", "disconnecting", "closed"}, why : {z.why},
             sent : 0 .. MaxData[e], output : {z.output}, input : {z.input},
             send_context : Contexts, receive_context : Contexts, deflate : Nat, inflate : Nat]
  BY <1>5 DEF IsEnd
<1>8. /\ y \in [pc : 1 .. Last(cfg, e), mode : {"open", "disconnecting", "closed"}, why : {why},
             sent : 0 .. MaxData[e], output : {z.output}, input : {z.input},
             send_context : Contexts, receive_context : Contexts, deflate : Nat, inflate : Nat]
      /\ y.why = why /\ y.mode = "disconnecting" /\ y.pc = z.pc /\ y.output = z.output
      /\ y.input = z.input /\ y.send_context = z.send_context
      /\ y.receive_context = z.receive_context /\ y.deflate = z.deflate /\ y.inflate = z.inflate
  BY <1>6, <1>7
<1>9. IsEnd(cfg, e, y)
  BY <1>5, <1>8 DEF IsEnd
<1>10. Sending(e, x, m, posted[e], y)
  BY <1>4, <1>5, <1>8, <1>9 DEF Sending, z
<1>11. end' = [end EXCEPT ![e] = y]
  BY DEF x, y
<1>12. posted' = [posted EXCEPT ![e] = posted[e]] /\ UNCHANGED <<cfg, pipe, got>>
  BY <1>3
<1>13. m \in Message
  BY <1>2
<1> DEFINE post == posted[e]
<1>14. Sending(e, x, m, post, y) /\ posted' = [posted EXCEPT ![e] = post]
  BY <1>10, <1>12
<1> HIDE DEF post
<1> QED
  BY <1>11, <1>12, <1>13, <1>14, SendKeeps

LEMMA SendDataKeeps ==
  ASSUME InTune, NEW e \in End, SendData(e)
  PROVE  InTune'
<1> DEFINE x == end[e]
           m == [type |-> "DATA", n |-> x.sent + 1]
           z == packet_send(x, m)
           y == [z EXCEPT !.sent = m.n]
           old == posted[e]
           post == Append(old, m)
           S == SendPlace(cfg, e, x, old)
<1>1. Up(e) /\ Does(e).do = "session" /\ x.sent < MaxData[e]
      /\ end' = [end EXCEPT ![e] = y] /\ posted' = [posted EXCEPT ![e] = post]
      /\ UNCHANGED <<cfg, pipe, got>>
  <2>1. DOMAIN end = End /\ DOMAIN posted = End
    BY DEF InTune, Typed
  <2>2. end' = [end EXCEPT ![e] = y]
    BY DEF SendData
  <2> HIDE DEF y, z
  <2> QED
    BY <2>1, <2>2 DEF SendData
<1>2. /\ Does(e) = Script(e)[x.pc] /\ x.pc \in 1 .. Last(cfg, e) /\ cfg.compression \in BOOLEAN
      /\ IsEnd(cfg, e, x)
  BY <1>1, DoesIs
<1>3. Sends(cfg, e, x.pc) = Total(cfg)
  BY <1>1, <1>2, ScriptTable
<1>4. /\ Tuned(cfg, e, x, e, S.rank) /\ S.rank = Sends(cfg, e, x.pc) /\ S.vis = Len(old)
  BY <1>1, TunedToSend
<1>5. old \in Seq(Message)
  BY DEF InTune, Typed
<1>6. x.sent \in Nat /\ x.sent + 1 \in 0 .. MaxData[e] /\ x.sent + 1 \in 1 .. MaxData[e]
  <2>1. x.sent \in 0 .. MaxData[e] /\ MaxData[e] \in Nat
    BY <1>2, PacketsAssumption DEF IsEnd
  <2> QED
    BY <2>1, <1>1
<1>7. m \in Message
  <2>1. x.sent + 1 \in 1 .. MaxData["client"] + MaxData["server"]
    <3>1. MaxData["client"] \in Nat /\ MaxData["server"] \in Nat /\ (e = "client" \/ e = "server")
      BY PacketsAssumption DEF End
    <3>2. CASE e = "client"
      BY <1>6, <3>1, <3>2
    <3>3. CASE e = "server"
      BY <1>6, <3>1, <3>3
    <3> QED
      BY <3>1, <3>2, <3>3
  <2> HIDE DEF x
  <2> QED
    BY <2>1 DEF Message
<1>8. m.type = "DATA" /\ m.n = x.sent + 1
  OBVIOUS
<1> HIDE DEF m
<1>9. /\ post \in Seq(Message) /\ Len(post) = Len(old) + 1 /\ Len(old) \in Nat
      /\ (\A i \in 1 .. Len(old) : post[i] = old[i]) /\ post[Len(old) + 1] = m
  BY <1>5, <1>7
<1>10. Extends(old, post)
  BY <1>5, <1>9 DEF Extends
<1>11. Visible(m) /\ ~Scripted(m)
  BY <1>8 DEF Visible, Scripted
<1> HIDE DEF S, old, post
<1>12. Due(cfg, e, S, m, post)
  BY <1>3, <1>4, <1>9, <1>11 DEF Due
<1>13. After(cfg, e, S, m).rank = S.rank /\ After(cfg, e, S, m).vis = S.vis + 1
  BY <1>11 DEF After
<1>14. x.mode # "closed"
  BY <1>1 DEF Up
<1>15. Ready(e, x, m, post)
  BY <1>2, <1>4, <1>9, <1>10, <1>12, <1>13, <1>14 DEF Ready, S, old
<1>16. /\ IsEnd(cfg, e, z) /\ z.pc = x.pc /\ z.mode = x.mode /\ z.input = x.input
       /\ z.receive_context = x.receive_context /\ z.inflate = x.inflate /\ z.sent = x.sent
  BY <1>1, <1>7, <1>15, ReadySends
<1> HIDE DEF z, x
<1>17. z \in [pc : 1 .. Last(cfg, e), mode : {"open", "disconnecting", "closed"}, why : {z.why},
              sent : 0 .. MaxData[e], output : {z.output}, input : {z.input},
              send_context : Contexts, receive_context : Contexts, deflate : Nat, inflate : Nat]
  BY <1>16 DEF IsEnd
<1>18. /\ y \in [pc : 1 .. Last(cfg, e), mode : {"open", "disconnecting", "closed"}, why : {z.why},
              sent : 0 .. MaxData[e], output : {z.output}, input : {z.input},
              send_context : Contexts, receive_context : Contexts, deflate : Nat, inflate : Nat]
       /\ y.why = z.why /\ y.mode = z.mode /\ y.pc = z.pc /\ y.output = z.output
       /\ y.input = z.input /\ y.send_context = z.send_context
       /\ y.receive_context = z.receive_context /\ y.deflate = z.deflate /\ y.inflate = z.inflate
  <2>1. m.n \in 0 .. MaxData[e]
    BY <1>6, <1>8
  <2> QED
    BY <2>1, <1>17
<1>19. end' = [end EXCEPT ![e] = y] /\ posted' = [posted EXCEPT ![e] = post]
       /\ UNCHANGED <<cfg, pipe, got>>
  BY <1>1
<1> HIDE DEF y
<1>20. IsEnd(cfg, e, y)
  BY <1>16, <1>18 DEF IsEnd
<1>21. Sending(e, x, m, post, y)
  BY <1>14, <1>15, <1>16, <1>18, <1>20 DEF Sending, z
<1> QED
  BY <1>1, <1>7, <1>19, <1>21, SendKeeps

\* A step of one end that touches no unit.
OnlyGoesOn(g, e, z, y) ==
  /\ IsEnd(g, e, y) /\ y.mode = z.mode /\ y.output = z.output /\ y.input = z.input
  /\ Sends(g, e, y.pc) = Sends(g, e, z.pc) /\ Reads(g, e, y.pc) = Reads(g, e, z.pc)
  /\ y.send_context.at = z.send_context.at /\ y.receive_context.at = z.receive_context.at
  /\ Ahead(y.deflate) = Ahead(z.deflate) /\ Ahead(y.inflate) = Ahead(z.inflate)

LEMMA GoingOnKeeps ==
  ASSUME InTune, NEW e \in End, NEW y, OnlyGoesOn(cfg, e, end[e], y),
         end' = [end EXCEPT ![e] = y], UNCHANGED <<cfg, pipe, posted, got>>
  PROVE  InTune'
<1>1. /\ IsEnd(cfg, e, y) /\ y.mode = end[e].mode
      /\ y.output = end[e].output /\ y.input = end[e].input
      /\ SendPlace(cfg, e, y, posted[e]) = SendPlace(cfg, e, end[e], posted[e])
      /\ ReadPlace(cfg, e, y, got[e]) = ReadPlace(cfg, e, end[e], got[e])
  BY DEF OnlyGoesOn, SendPlace, ReadPlace
<1>2. pipe' = pipe /\ pipe' \in [End -> Seq(Units)] /\ \A h \in End : Len(pipe'[h]) <= PipeSize
  BY DEF InTune, Typed
<1>3. /\ Line(Contents(end[Peer(e)].input), pipe'[e], Contents(y.output))
           = Line(Contents(end[Peer(e)].input), pipe[e], Contents(end[e].output))
      /\ Line(Contents(y.input), pipe'[Peer(e)], Contents(end[Peer(e)].output))
           = Line(Contents(end[e].input), pipe[Peer(e)], Contents(end[Peer(e)].output))
  BY <1>1, <1>2
<1> QED
  BY <1>1, <1>2, <1>3, QuietStepKeeps

\* packet_set_encryption_key: each end's stream of the other starts at its beginning.
LEMMA KeyKeeps ==
  ASSUME InTune, NEW e \in End, Up(e), Does(e).do = "key",
         end' = [end EXCEPT ![e] = packet_set_encryption_key([end[e] EXCEPT !.pc = @ + 1], e)],
         UNCHANGED <<cfg, pipe, posted, got>>
  PROVE  InTune'
<1> DEFINE z == end[e]
           y == packet_set_encryption_key([end[e] EXCEPT !.pc = @ + 1], e)
           sending == [key |-> KeyOf(cfg, e), at |-> 0]
           receiving == [key |-> KeyOf(cfg, Peer(e)), at |-> 0]
<1>1. /\ Does(e) = Script(e)[z.pc] /\ z.pc \in 1 .. Last(cfg, e) /\ z.pc \in Nat
      /\ cfg.compression \in BOOLEAN /\ IsEnd(cfg, e, z)
  BY DoesIs
<1>2. /\ z.pc + 1 \in 1 .. Last(cfg, e) /\ z.pc = 4
      /\ Sends(cfg, e, z.pc + 1) = Sends(cfg, e, z.pc) /\ Reads(cfg, e, z.pc + 1) = Reads(cfg, e, z.pc)
  BY <1>1, ScriptTable
<1>3. Packing(e) > 5 /\ Packing(e) \in Nat
  BY DEF Packing
<1>4. z \in [pc : 1 .. Last(cfg, e), mode : {"open", "disconnecting", "closed"}, why : {z.why},
             sent : 0 .. MaxData[e], output : {z.output}, input : {z.input},
             send_context : Contexts, receive_context : Contexts, deflate : Nat, inflate : Nat]
      /\ z.send_context = NoKey /\ z.receive_context = NoKey
  BY <1>1, <1>2 DEF IsEnd
<1>5. sending \in Contexts /\ receiving \in Contexts
  BY DEF KeyOf, Contexts
<1>6. y = [z EXCEPT !.pc = @ + 1, !.send_context = sending, !.receive_context = receiving]
  <2>1. KeyOf(cfg, e) = (IF cfg.cipher = "arcfour" /\ ~(e = "server") THEN 2 ELSE 1)
        /\ KeyOf(cfg, Peer(e)) = (IF cfg.cipher = "arcfour" /\ ~(e = "client") THEN 2 ELSE 1)
    BY DEF KeyOf, Peer, End
  <2> HIDE DEF z
  <2> QED
    BY <2>1, <1>4 DEF packet_set_encryption_key, z
<1> HIDE DEF z, y, sending, receiving
<1>7. /\ y \in [pc : 1 .. Last(cfg, e), mode : {"open", "disconnecting", "closed"}, why : {z.why},
                sent : 0 .. MaxData[e], output : {z.output}, input : {z.input},
                send_context : Contexts, receive_context : Contexts, deflate : Nat, inflate : Nat]
      /\ y.pc = z.pc + 1 /\ y.mode = z.mode /\ y.why = z.why /\ y.output = z.output
      /\ y.input = z.input /\ y.send_context = sending /\ y.receive_context = receiving
      /\ y.deflate = z.deflate /\ y.inflate = z.inflate
  BY <1>2, <1>4, <1>5, <1>6
<1>8. sending.key = KeyOf(cfg, e) /\ receiving.key = KeyOf(cfg, Peer(e))
      /\ sending.at = NoKey.at /\ receiving.at = NoKey.at
  BY DEF sending, receiving, NoKey
<1>9. y.pc > 4 /\ ~(y.pc <= 4) /\ ~(y.pc > Packing(e)) /\ ~(z.pc > Packing(e))
  BY <1>2, <1>3, <1>7
<1>10. IsEnd(cfg, e, y)
  BY <1>1, <1>7, <1>8, <1>9 DEF IsEnd
<1>11. OnlyGoesOn(cfg, e, end[e], y)
  BY <1>2, <1>4, <1>7, <1>8, <1>10 DEF OnlyGoesOn, z
<1>12. end' = [end EXCEPT ![e] = y]
  BY DEF y
<1> QED
  BY <1>11, <1>12, GoingOnKeeps

\* packet_start_compression: the next packet of each direction is the first compressed.
LEMMA CompressionKeeps ==
  ASSUME InTune, NEW e \in End, Up(e), Does(e).do = "compress",
         end' = [end EXCEPT ![e] = packet_start_compression([end[e] EXCEPT !.pc = @ + 1])],
         UNCHANGED <<cfg, pipe, posted, got>>
  PROVE  InTune'
<1> DEFINE z == end[e]
           y == packet_start_compression([end[e] EXCEPT !.pc = @ + 1])
<1>1. /\ Does(e) = Script(e)[z.pc] /\ z.pc \in 1 .. Last(cfg, e) /\ z.pc \in Nat
      /\ cfg.compression \in BOOLEAN /\ IsEnd(cfg, e, z)
  BY DoesIs
<1>2. /\ z.pc + 1 \in 1 .. Last(cfg, e) /\ cfg.compression /\ z.pc = Packing(e)
      /\ Sends(cfg, e, z.pc + 1) = Sends(cfg, e, z.pc) /\ Reads(cfg, e, z.pc + 1) = Reads(cfg, e, z.pc)
  BY <1>1, ScriptTable
<1>3. Packing(e) > 5 /\ Packing(e) \in Nat
  BY DEF Packing
<1>4. z \in [pc : 1 .. Last(cfg, e), mode : {"open", "disconnecting", "closed"}, why : {z.why},
             sent : 0 .. MaxData[e], output : {z.output}, input : {z.input},
             send_context : Contexts, receive_context : Contexts, deflate : Nat, inflate : Nat]
      /\ z.deflate = 0 /\ z.inflate = 0
  BY <1>1, <1>2 DEF IsEnd
<1>5. y = [z EXCEPT !.pc = @ + 1, !.deflate = 1, !.inflate = 1]
  BY <1>4 DEF packet_start_compression
<1> HIDE DEF z, y
<1>6. /\ y \in [pc : 1 .. Last(cfg, e), mode : {"open", "disconnecting", "closed"}, why : {z.why},
                sent : 0 .. MaxData[e], output : {z.output}, input : {z.input},
                send_context : Contexts, receive_context : Contexts, deflate : Nat, inflate : Nat]
      /\ y.pc = z.pc + 1 /\ y.mode = z.mode /\ y.why = z.why /\ y.output = z.output
      /\ y.input = z.input /\ y.send_context = z.send_context
      /\ y.receive_context = z.receive_context /\ y.deflate = 1 /\ y.inflate = 1
  BY <1>2, <1>4, <1>5
<1>7. y.pc > Packing(e) /\ y.pc > 4 /\ ~(y.pc <= 4) /\ z.pc > 4
  BY <1>2, <1>3, <1>6
<1>8. IsEnd(cfg, e, y)
  BY <1>1, <1>2, <1>6, <1>7 DEF IsEnd
<1>9. Ahead(1) = Ahead(0)
  BY DEF Ahead
<1>10. OnlyGoesOn(cfg, e, end[e], y)
  BY <1>2, <1>4, <1>6, <1>8, <1>9 DEF OnlyGoesOn, z
<1>11. end' = [end EXCEPT ![e] = y]
  BY DEF y
<1> QED
  BY <1>10, <1>11, GoingOnKeeps

LEMMA StepKeeps ==
  ASSUME InTune, NEW e \in End, Step(e)
  PROVE  InTune'
<1> DEFINE x == [end[e] EXCEPT !.pc = @ + 1]
<1>1. Up(e) /\ UNCHANGED <<cfg, pipe, got>>
  BY DEF Step
<1>2. CASE /\ Does(e).do = "send"
           /\ end' = [end EXCEPT ![e] = packet_send(x, [type |-> Does(e).what, n |-> 0])]
           /\ posted' = [posted EXCEPT ![e] = Append(@, [type |-> Does(e).what, n |-> 0])]
  BY <1>1, <1>2, ScriptSendKeeps
<1>3. CASE Does(e).do \in {"wait", "debug"} /\ end' = [end EXCEPT ![e] = x] /\ UNCHANGED posted
  <2>1. /\ IsEnd(cfg, e, x) /\ x.pc = end[e].pc + 1 /\ x.mode = end[e].mode
        /\ x.output = end[e].output /\ x.input = end[e].input
        /\ x.send_context = end[e].send_context /\ x.receive_context = end[e].receive_context
        /\ x.deflate = end[e].deflate /\ x.inflate = end[e].inflate
    BY <1>1, <1>3, GoesOn
  <2>2. /\ Does(e) = Script(e)[end[e].pc] /\ end[e].pc \in 1 .. Last(cfg, e)
        /\ cfg.compression \in BOOLEAN
    BY <1>1, <1>3, DoesIs
  <2>3. /\ Sends(cfg, e, end[e].pc + 1) = Sends(cfg, e, end[e].pc)
        /\ Reads(cfg, e, end[e].pc + 1) = Reads(cfg, e, end[e].pc)
    BY <1>3, <2>2, ScriptTable
  <2> HIDE DEF x
  <2>4. OnlyGoesOn(cfg, e, end[e], x)
    BY <2>1, <2>3 DEF OnlyGoesOn
  <2> QED
    BY <1>1, <1>3, <2>4, GoingOnKeeps
<1>4. CASE /\ Does(e).do = "debug" /\ UNCHANGED posted
           /\ end' = [end EXCEPT ![e] = packet_send(x, [type |-> "DEBUG", n |-> 0])]
  BY <1>1, <1>4, DebugSendKeeps
<1>5. CASE /\ Does(e).do = "key" /\ UNCHANGED posted
           /\ end' = [end EXCEPT ![e] = packet_set_encryption_key(x, e)]
  BY <1>1, <1>5, KeyKeeps
<1>6. CASE /\ Does(e).do = "compress" /\ UNCHANGED posted
           /\ end' = [end EXCEPT ![e] = packet_start_compression(x)]
  BY <1>1, <1>6, CompressionKeeps
<1> HIDE DEF x
<1> QED
  BY <1>2, <1>3, <1>4, <1>5, <1>6 DEF Step, x

LEMMA DisconnectKeeps ==
  ASSUME InTune, NEW e \in End, Disconnect(e)
  PROVE  InTune'
<1>1. Up(e) /\ Does(e).do \in {"send", "session"} /\ UNCHANGED <<cfg, pipe, posted, got>>
      /\ end' = [end EXCEPT ![e] = Disconnected(end[e], "asked")]
  BY DEF Disconnect, InTune, Typed
<1>2. Does(e).do \in {"send", "debug", "session"} /\ "asked" \notin {"garbled", "unexpected"}
  BY <1>1
<1> QED
  BY <1>1, <1>2, DisconnectedKeeps

LEMMA FinishDisconnectKeeps ==
  ASSUME InTune, NEW e \in End, FinishDisconnect(e)
  PROVE  InTune'
<1>1. Close(e, end[e].why) /\ UNCHANGED <<cfg, posted, got>>
  BY DEF FinishDisconnect
<1>2. end[e].why \notin {"garbled", "unexpected"}
  BY DEF InTune, Typed, IsEnd
<1> QED
  BY <1>1, <1>2, CloseKeeps

-----------------------------------------------------------------------------
(* The steps keep it: packet_read_poll.                                    *)

\* What the places of a reader say of the step it is at.
LEMMA TunedToRead ==
  ASSUME InTune, NEW e \in End, Reading(e)
  PROVE  LET R == ReadPlace(cfg, e, end[e], got[e]) IN
         /\ Up(e) /\ Does(e).do \in {"read", "session"} /\ end[e].mode = "open"
         /\ ReadsAt(cfg, e, end[e], R) /\ R.vis = Len(got[e])
         /\ Does(e).do = "session" => R.rank = Total(cfg)
         /\ Does(e).do = "read" => /\ Does(e).what = Said(cfg, Peer(e), R.rank + 1)
                                   /\ R.rank < Total(cfg)
                                   /\ Reads(cfg, e, end[e].pc + 1) = R.rank + 1
                                   /\ Sends(cfg, e, end[e].pc + 1) = Sends(cfg, e, end[e].pc)
<1> DEFINE R == ReadPlace(cfg, e, end[e], got[e])
           pc == end[e].pc
<1>1. Up(e) /\ Does(e).do \in {"read", "session"}
  BY DEF Reading
<1>2. /\ end[e].mode = "open" /\ Does(e) = Script(e)[pc] /\ pc \in 1 .. Last(cfg, e)
      /\ cfg.compression \in BOOLEAN /\ IsEnd(cfg, e, end[e])
  BY <1>1, DoesIs
<1>3. /\ Reads(cfg, e, pc) >= 1 <=> pc > 4
      /\ cfg.compression => (Packs(Peer(e), Reads(cfg, e, pc)) <=> pc > Packing(e))
      /\ Reads(cfg, e, pc) \in 0 .. Total(cfg)
      /\ Does(e).do = "session" => Reads(cfg, e, pc) = Total(cfg)
      /\ Does(e).do = "read" => /\ Does(e).what = Said(cfg, Peer(e), Reads(cfg, e, pc) + 1)
                                /\ Reads(cfg, e, pc) < Total(cfg)
                                /\ Reads(cfg, e, pc + 1) = Reads(cfg, e, pc) + 1
                                /\ Sends(cfg, e, pc + 1) = Sends(cfg, e, pc)
  BY <1>1, <1>2, ScriptTable
<1>4. R \in Places
  <2>1. Typed
    BY DEF InTune
  <2> QED
    BY <2>1, PlacesAre
<1>5. R.rank = Reads(cfg, e, pc) /\ R.crypt = end[e].receive_context.at
      /\ R.flate = Ahead(end[e].inflate) /\ R.vis = Len(got[e])
  BY DEF ReadPlace
<1> HIDE DEF R
<1>6. R.rank \in Nat
  BY <1>4 DEF Places
<1>7. Tuned(cfg, e, end[e], Peer(e), R.rank)
  BY <1>3, <1>5, <1>6 DEF Tuned
<1>8. ReadsAt(cfg, e, end[e], R)
  BY <1>2, <1>4, <1>5, <1>7 DEF ReadsAt
<1> QED
  BY <1>1, <1>2, <1>3, <1>5, <1>8 DEF R

\* The packet at the beginning of e's input buffer is m, all of it, sent for e's place.
NextIs(e, m) ==
  LET f == Peer(e)
      R == ReadPlace(cfg, e, end[e], got[e])
      U == Line(Contents(end[e].input), pipe[f], Contents(end[f].output))
  IN /\ Due(cfg, f, R, m, posted[f])
     /\ \A k \in 1 .. Blocks(m) + 1 : Contents(end[e].input)[k] = UnitOf(cfg, f, R, m, k)
     /\ Blocks(m) + 1 <= buffer_len(end[e].input)
     /\ Flow(cfg, f, SubSeq(U, Blocks(m) + 2, Len(U)), After(cfg, f, R, m),
             SendPlace(cfg, f, end[f], posted[f]), Up(f), posted[f])

LEMMA CompleteIsNext ==
  ASSUME InTune, NEW e \in End, Up(e), Complete(e)
  PROVE  \E m \in Message : NextIs(e, m)
<1> DEFINE f == Peer(e)
           R == ReadPlace(cfg, e, end[e], got[e])
           S == SendPlace(cfg, f, end[f], posted[f])
           in == Contents(end[e].input)
           out == Contents(end[f].output)
           U == Line(in, pipe[f], out)
           post == posted[f]
           live == Up(f)
<1>1. f \in End /\ Peer(f) = e
  BY Ends
<1>2. Typed /\ Stream(f)
  BY <1>1 DEF InTune
<1>3. R \in Places
  BY <1>2, PlacesAre
<1>4. in \in Seq(Units) /\ Len(in) = buffer_len(end[e].input)
  BY <1>2, ContentsAre
<1>5. out \in Seq(Units) /\ pipe[f] \in Seq(Units)
  BY <1>1, <1>2, ContentsAre
<1>6. Flow(cfg, f, U, R, S, live, post)
  BY <1>1, <1>2 DEF Stream
<1>7. live \in BOOLEAN
  BY DEF Up
<1>8. buffer_len(end[e].input) >= 2 /\ buffer_len(end[e].input) >= 1 + in[1].len
  BY DEF Complete, Length
<1> HIDE DEF in, out, R, S, live, post
<1>9. U \in Seq(Units) /\ Len(U) = Len(in) + Len(pipe[f]) + Len(out)
      /\ \A i \in 1 .. Len(in) : U[i] = in[i]
  <2> DEFINE p == pipe[f]
  <2>1. in \in Seq(Units) /\ p \in Seq(Units) /\ out \in Seq(Units)
    BY <1>4, <1>5
  <2> HIDE DEF p
  <2>2. /\ Line(in, p, out) \in Seq(Units)
        /\ Len(Line(in, p, out)) = Len(in) + Len(p) + Len(out)
        /\ \A i \in 1 .. Len(in) : Line(in, p, out)[i] = in[i]
    BY <2>1, LineIs
  <2> QED
    BY <2>2 DEF p
<1> HIDE DEF U
<1>10. Len(U) >= Len(in) /\ Len(in) >= 2 /\ Len(in) \in Nat /\ Len(U) \in Nat
  BY <1>4, <1>5, <1>8, <1>9
<1>11. PICK m \in Message :
         /\ Due(cfg, f, R, m, post)
         /\ \A k \in 1 .. Blocks(m) + 1 : k <= Len(U) => U[k] = UnitOf(cfg, f, R, m, k)
         /\ Blocks(m) + 1 <= Len(U)
            => Flow(cfg, f, SubSeq(U, Blocks(m) + 2, Len(U)), After(cfg, f, R, m), S, live, post)
  <2>1. U \in Seq(Units)
    BY <1>9
  <2>2. Len(U) >= 1
    BY <1>10
  <2> HIDE DEF f
  <2> QED
    BY <1>3, <1>6, <1>7, <2>1, <2>2, FlowIsTaken, ZenonT(40)
<1>12. Blocks(m) \in 1 .. 2
  BY BlocksAre
<1>13. in[1].len = Blocks(m)
  <2>1. U[1] = UnitOf(cfg, f, R, m, 1) /\ U[1] = in[1]
    BY <1>9, <1>10, <1>11, <1>12
  <2> QED
    BY <2>1 DEF UnitOf
<1>14. Blocks(m) + 1 <= Len(in)
  BY <1>4, <1>8, <1>12, <1>13
<1>15. ASSUME NEW k \in 1 .. Blocks(m) + 1 PROVE in[k] = UnitOf(cfg, f, R, m, k)
  BY <1>9, <1>10, <1>11, <1>12, <1>14
<1>16. Flow(cfg, f, SubSeq(U, Blocks(m) + 2, Len(U)), After(cfg, f, R, m), S, live, post)
  BY <1>10, <1>11, <1>12, <1>14
<1> QED
  BY <1>4, <1>11, <1>14, <1>15, <1>16 DEF NextIs, in, out, R, S, U, live, post

\* It can be decrypted, checked and decompressed, and it is m.
LEMMA NextIsReadable ==
  ASSUME InTune, NEW e \in End, Reading(e), NEW m \in Message, NextIs(e, m)
  PROVE  Readable(e) /\ Length(e) = Blocks(m) /\ Body(e)[1].msg = m
<1> DEFINE f == Peer(e)
           x == end[e]
           R == ReadPlace(cfg, e, x, got[e])
           in == Contents(x.input)
<1>1. ReadsAt(cfg, e, x, R)
  BY TunedToRead
<1>2. Typed
  BY DEF InTune
<1>3. in \in Seq(Units) /\ Len(in) = buffer_len(x.input)
  BY <1>2, ContentsAre
<1>4. Blocks(m) \in 1 .. 2
  BY BlocksAre
<1>5. /\ \A k \in 1 .. Blocks(m) + 1 : in[k] = UnitOf(cfg, f, R, m, k)
      /\ Blocks(m) + 1 <= Len(in)
  BY <1>3 DEF NextIs
<1> HIDE DEF in, R, x
<1>6. in[1].len = Blocks(m)
  <2>1. in[1] = UnitOf(cfg, f, R, m, 1)
    BY <1>4, <1>5
  <2> QED
    BY <2>1 DEF UnitOf
<1>7. Length(e) = Blocks(m)
  BY <1>6 DEF Length, in, x
<1>8. Body(e) = SubSeq(in, 2, 1 + Blocks(m))
  BY <1>7 DEF Body, in, x
<1>9. ASSUME NEW i \in 1 .. Blocks(m)
      PROVE  Body(e)[i] = UnitOf(cfg, f, R, m, i + 1)
  <2>1. i + 1 \in 1 .. Blocks(m) + 1
    BY <1>4
  <2>2. SubSeq(in, 2, 1 + Blocks(m))[i] = in[i + 1]
    <3>1. PICK b \in 1 .. 2 : b = Blocks(m)
      BY <1>4
    <3>2. i \in 1 .. b /\ 1 + b <= Len(in)
      BY <1>5, <3>1, <1>3
    <3>3. SubSeq(in, 2, 1 + b)[i] = in[i + 1]
      BY <3>2, <1>3
    <3> QED
      BY <3>1, <3>3
  <2> QED
    BY <1>5, <1>8, <2>1, <2>2
<1>10. /\ x.receive_context \in [key : Nat, at : Nat] /\ x.inflate \in Nat /\ x.pc \in Nat
       /\ R.rank \in Nat /\ (R.rank >= 1 <=> x.pc > 4) /\ R.crypt = x.receive_context.at
       /\ R.flate = Ahead(x.inflate)
       /\ cfg.compression => (Packs(f, R.rank) <=> x.pc > Packing(e))
       /\ x.pc > 4 => x.receive_context.key = KeyOf(cfg, f)
       /\ x.pc <= 4 => x.receive_context = NoKey
       /\ x.inflate > 0 <=> (cfg.compression /\ x.pc > Packing(e))
  BY <1>1 DEF ReadsAt, IsEnd, Contexts, Tuned, Places
<1>11. KeyOf(cfg, f) \in 1 .. 2 /\ NoKey.key = 0
  BY DEF KeyOf, NoKey
<1> DEFINE c == x.receive_context
<1>12. ASSUME NEW i \in 1 .. Blocks(m)
       PROVE  LET unit == Body(e)[i] IN
              /\ unit.msg = m /\ unit.k = i /\ unit.flate = x.inflate
              /\ unit.crypt = IF c.key = 0 THEN NoKey ELSE [c EXCEPT !.at = @ + i - 1]
  <2>1. i + 1 # 1 /\ i + 1 - 1 = i /\ i \in Nat /\ R.crypt + (i + 1) - 2 = R.crypt + i - 1
    BY <1>4, <1>10
  <2>2. c.key = 0 <=> R.rank = 0
    BY <1>10, <1>11
  <2>3. c.key # 0 => [c EXCEPT !.at = @ + i - 1] = [key |-> KeyOf(cfg, f), at |-> R.crypt + i - 1]
    BY <1>10, <1>11
  <2>4. x.inflate = IF cfg.compression /\ Packs(f, R.rank) THEN R.flate + 1 ELSE 0
    BY <1>10 DEF Ahead
  <2>5. UnitOf(cfg, f, R, m, i + 1)
          = [len |-> 0, msg |-> m, k |-> i,
             crypt |-> IF c.key = 0 THEN NoKey ELSE [c EXCEPT !.at = @ + i - 1],
             flate |-> x.inflate]
    BY <2>1, <2>2, <2>3, <2>4 DEF UnitOf
  <2>6. Body(e)[i] = UnitOf(cfg, f, R, m, i + 1)
    BY <1>9
  <2> QED
    BY <2>5, <2>6
<1>13. 1 \in 1 .. Blocks(m) /\ Blocks(m) > 0
  BY <1>4
<1>14. Body(e)[1].msg = m
  BY <1>12, <1>13
<1>15. Readable(e)
  BY <1>7, <1>12, <1>13, <1>14, Zenon DEF Readable, x
<1> QED
  BY <1>7, <1>14, <1>15

\* An end that took m, and whose caller was given all of given.
Taking(e, m, given, y) ==
  LET R == ReadPlace(cfg, e, end[e], got[e])
      z == Taken(end[e], Blocks(m))
      next == After(cfg, Peer(e), R, m)
  IN /\ IsEnd(cfg, e, y) /\ y.mode = end[e].mode /\ y.output = z.output /\ y.input = z.input
     /\ y.send_context = z.send_context /\ y.receive_context = z.receive_context
     /\ y.deflate = z.deflate /\ y.inflate = z.inflate
     /\ Sends(cfg, e, y.pc) = Sends(cfg, e, end[e].pc) /\ Reads(cfg, e, y.pc) = next.rank
     /\ given \in Seq(Message) /\ Len(given) = next.vis

LEMMA NextIsTaken ==
  ASSUME InTune, NEW e \in End, Reading(e), NEW m \in Message, NextIs(e, m)
  PROVE  TakenFrom(cfg, e, end[e], ReadPlace(cfg, e, end[e], got[e]), m, Taken(end[e], Blocks(m)))
<1> DEFINE R == ReadPlace(cfg, e, end[e], got[e])
<1>1. ReadsAt(cfg, e, end[e], R)
  BY TunedToRead
<1>2. Blocks(m) + 1 <= buffer_len(end[e].input)
  BY DEF NextIs
<1> HIDE DEF R
<1>3. TakenFrom(cfg, e, end[e], R, m, Taken(end[e], Blocks(m)))
  BY <1>1, <1>2, TakenTakes, Zenon
<1> QED
  BY <1>3 DEF R

LEMMA TakingKeeps ==
  ASSUME InTune, NEW e \in End, Reading(e), NEW m \in Message, NextIs(e, m),
         NEW given, NEW y, Taking(e, m, given, y),
         end' = [end EXCEPT ![e] = y], got' = [got EXCEPT ![e] = given],
         UNCHANGED <<cfg, pipe, posted>>
  PROVE  InTune'
<1> DEFINE f == Peer(e)
           x == end[e]
           R == ReadPlace(cfg, e, x, got[e])
           z == Taken(x, Blocks(m))
           next == After(cfg, f, R, m)
           in == Contents(x.input)
           out == Contents(end[f].output)
           U == Line(in, pipe[f], out)
<1>1. f \in End /\ Peer(f) = e /\ f # e /\ \A h \in End : h = e \/ h = f
  BY Ends
<1>2. /\ Typed /\ pipe \in [End -> Seq(Units)] /\ got \in [End -> Seq(Message)]
      /\ posted \in [End -> Seq(Message)] /\ \A h \in End : Len(pipe[h]) <= PipeSize
  BY DEF InTune, Typed
<1>3. in \in Seq(Units) /\ Len(in) = buffer_len(x.input)
  BY <1>2, ContentsAre
<1>4. out \in Seq(Units) /\ pipe[f] \in Seq(Units)
  BY <1>1, <1>2, ContentsAre
<1>5. TakenFrom(cfg, e, x, R, m, z)
  BY NextIsTaken
<1>6. Blocks(m) \in 1 .. 2
  BY BlocksAre
<1>7. Blocks(m) + 1 <= Len(in)
  BY <1>3 DEF NextIs
<1>8. Flow(cfg, f, SubSeq(U, Blocks(m) + 2, Len(U)), next, SendPlace(cfg, f, end[f], posted[f]),
           Up(f), posted[f])
  BY DEF NextIs
<1>9. /\ IsEnd(cfg, e, y) /\ y.mode = x.mode /\ y.output = z.output /\ y.input = z.input
      /\ y.send_context = z.send_context /\ y.receive_context = z.receive_context
      /\ y.deflate = z.deflate /\ y.inflate = z.inflate
      /\ Sends(cfg, e, y.pc) = Sends(cfg, e, x.pc) /\ Reads(cfg, e, y.pc) = next.rank
      /\ given \in Seq(Message) /\ Len(given) = next.vis
  BY DEF Taking
<1> HIDE DEF z
<1>10. /\ y.output = x.output /\ y.send_context = x.send_context /\ y.deflate = x.deflate
       /\ Contents(y.input) = SubSeq(in, Blocks(m) + 2, Len(in))
       /\ y.receive_context.at = next.crypt /\ Ahead(y.inflate) = next.flate
  <2> HIDE DEF R, x
  <2> QED
    BY <1>5, <1>9 DEF TakenFrom
<1>11. ReadPlace(cfg, e, y, given) = next
  <2>1. next = [rank |-> next.rank, crypt |-> next.crypt, flate |-> next.flate, vis |-> next.vis]
    BY DEF After
  <2> HIDE DEF next
  <2> QED
    BY <2>1, <1>9, <1>10 DEF ReadPlace
<1>12. SendPlace(cfg, e, y, posted[e]) = SendPlace(cfg, e, x, posted[e])
  BY <1>9, <1>10 DEF SendPlace
<1>13. Line(SubSeq(in, Blocks(m) + 2, Len(in)), pipe[f], out) = SubSeq(U, Blocks(m) + 2, Len(U))
  <2> DEFINE p == pipe[f]
             n == Blocks(m) + 1
  <2>1. n + 1 = Blocks(m) + 2 /\ n \in 1 .. Len(in) /\ p \in Seq(Units)
    BY <1>3, <1>4, <1>6, <1>7
  <2> HIDE DEF in, out, p, n
  <2>2. SubSeq(Line(in, p, out), n + 1, Len(Line(in, p, out))) = Line(SubSeq(in, n + 1, Len(in)), p, out)
    BY <2>1, <1>3, <1>4, LineIsTaken, ZenonT(60)
  <2> QED
    BY <2>1, <2>2 DEF p
<1> HIDE DEF next, R, U
<1>14. /\ got' \in [End -> Seq(Message)] /\ got'[e] = given /\ got'[f] = got[f]
       /\ posted' = posted /\ pipe' = pipe /\ cfg' = cfg
       /\ posted' \in [End -> Seq(Message)] /\ pipe' \in [End -> Seq(Units)]
  BY <1>1, <1>2, <1>9
<1>15. Flow(cfg, f, Line(Contents(y.input), pipe'[f], Contents(end[f].output)),
            ReadPlace(cfg, e, y, got'[e]), SendPlace(cfg, f, end[f], posted'[f]), Up(f), posted'[f])
  BY <1>8, <1>10, <1>11, <1>13, <1>14
<1>16. Up(f) =>
         Flow(cfg, e, Line(Contents(end[f].input), pipe'[e], Contents(y.output)),
              ReadPlace(cfg, f, end[f], got'[f]), SendPlace(cfg, e, y, posted'[e]),
              y.mode # "closed", posted'[e])
  <2>1. Stream(e) /\ Up(e) = (y.mode # "closed")
    BY <1>9 DEF InTune, Up
  <2> QED
    BY <2>1, <1>10, <1>12, <1>14 DEF Stream
<1> QED
  BY <1>2, <1>9, <1>14, <1>15, <1>16, OneEndMoves

\* What packet_read_poll gives the caller when the packet is m.
Given(e, m) == IF Visible(m) THEN Append(got[e], m) ELSE got[e]

\* Of m, the packet at the beginning, packet_read_poll does what its callers expect.
LEMMA ReadPollTakes ==
  ASSUME InTune, NEW e \in End, packet_read_poll(e), NEW m \in Message, NextIs(e, m)
  PROVE  /\ Reading(e) /\ Up(e) /\ UNCHANGED <<cfg, posted>>
         /\ \/ Close(e, "told") /\ UNCHANGED got
            \/ /\ \E y : Taking(e, m, Given(e, m), y) /\ end' = [end EXCEPT ![e] = y]
               /\ got' = [got EXCEPT ![e] = Given(e, m)] /\ UNCHANGED pipe
<1> DEFINE f == Peer(e)
           x == end[e]
           R == ReadPlace(cfg, e, x, got[e])
           z == Taken(x, Blocks(m))
           next == After(cfg, f, R, m)
           given == Given(e, m)
<1>1. Reading(e) /\ Complete(e) /\ UNCHANGED <<cfg, posted>>
  BY DEF packet_read_poll
<1>2. Readable(e) /\ Length(e) = Blocks(m) /\ Body(e)[1].msg = m
  BY <1>1, NextIsReadable
<1>3. /\ Up(e) /\ Does(e).do \in {"read", "session"} /\ x.mode = "open"
      /\ ReadsAt(cfg, e, x, R) /\ R.vis = Len(got[e])
      /\ Does(e).do = "session" => R.rank = Total(cfg)
      /\ Does(e).do = "read" => /\ Does(e).what = Said(cfg, f, R.rank + 1)
                                /\ R.rank < Total(cfg)
                                /\ Reads(cfg, e, x.pc + 1) = R.rank + 1
                                /\ Sends(cfg, e, x.pc + 1) = Sends(cfg, e, x.pc)
  BY <1>1, TunedToRead
<1>4. TakenFrom(cfg, e, x, R, m, z)
  BY <1>1, NextIsTaken
<1>5. Due(cfg, f, R, m, posted[f])
  BY DEF NextIs
<1>6. got \in [End -> Seq(Message)] /\ got[e] \in Seq(Message) /\ DOMAIN got = End /\ DOMAIN end = End
  BY DEF InTune, Typed
<1>7. given \in Seq(Message) /\ Len(given) = next.vis
  <2>1. Len(Append(got[e], m)) = Len(got[e]) + 1 /\ Append(got[e], m) \in Seq(Message)
    BY <1>6
  <2> QED
    BY <2>1, <1>3, <1>6 DEF Given, After
<1>8. R.rank = Reads(cfg, e, x.pc)
  BY DEF ReadPlace
<1> HIDE DEF z, R
<1>9. /\ IsEnd(cfg, e, z) /\ z.pc = x.pc /\ z.mode = x.mode /\ z.why = x.why
      /\ z.send_context = x.send_context /\ z.deflate = x.deflate
  BY <1>4 DEF TakenFrom
<1>10. Total(cfg) \in Nat /\ R.rank \in Nat
  BY <1>3 DEF Total, ReadsAt, Tuned
<1>11. m.type = "DISCONNECT" => Close(e, "told") /\ UNCHANGED got
  BY <1>2 DEF packet_read_poll
<1>12. m.type = "DEBUG" => end' = [end EXCEPT ![e] = z] /\ UNCHANGED <<got, pipe>>
  BY <1>2 DEF packet_read_poll, Skipped, z
<1>13. Visible(m) /\ Does(e).do = "session"
       => /\ end' = [end EXCEPT ![e] = IF m.type = "DATA" THEN z ELSE Disconnected(z, "unexpected")]
          /\ got' = [got EXCEPT ![e] = Append(@, m)] /\ UNCHANGED pipe
  BY <1>2 DEF packet_read_poll, Skipped, Visible, z
<1>14. Visible(m) /\ Does(e).do = "read"
       => /\ end' = [end EXCEPT ![e] = IF m.type = Does(e).what THEN [z EXCEPT !.pc = @ + 1]
                                       ELSE Disconnected(z, "unexpected")]
          /\ got' = [got EXCEPT ![e] = Append(@, m)] /\ UNCHANGED pipe
  BY <1>2 DEF packet_read_poll, Skipped, Visible, z
<1>15. CASE m.type = "DISCONNECT"
  BY <1>1, <1>3, <1>11, <1>15
<1>16. ASSUME ~Scripted(m)
       PROVE  Taking(e, m, given, z)
  <2>1. Reads(cfg, e, z.pc) = next.rank /\ Sends(cfg, e, z.pc) = Sends(cfg, e, x.pc)
    BY <1>8, <1>9, <1>16 DEF After
  <2> QED
    BY <2>1, <1>7, <1>9 DEF Taking, z, R
<1>17. CASE m.type = "DEBUG"
  <2>1. ~Visible(m) /\ ~Scripted(m)
    BY <1>17 DEF Visible, Scripted
  <2>2. given = got[e]
    BY <2>1 DEF Given
  <2> HIDE DEF given
  <2>3. got' = [got EXCEPT ![e] = given]
    BY <2>2, <1>6, <1>12, <1>17
  <2>4. Taking(e, m, given, z) /\ end' = [end EXCEPT ![e] = z] /\ UNCHANGED pipe
    BY <2>1, <1>12, <1>16, <1>17
  <2> QED
    BY <2>3, <2>4, <1>1, <1>3, Zenon DEF given
<1>18. CASE m.type \notin {"DISCONNECT", "DEBUG"} /\ Does(e).do = "session"
  <2>1. Visible(m)
    BY <1>18 DEF Visible
  <2>2. ~Scripted(m)
    BY <1>3, <1>5, <1>10, <1>18 DEF Due
  <2>3. m.type = "DATA"
    BY <2>2, <1>18 DEF Scripted
  <2>4. given = Append(got[e], m)
    BY <2>1 DEF Given
  <2> HIDE DEF given
  <2>5. end' = [end EXCEPT ![e] = z] /\ got' = [got EXCEPT ![e] = given] /\ UNCHANGED pipe
    BY <2>1, <2>3, <2>4, <1>6, <1>13, <1>18
  <2>6. Taking(e, m, given, z)
    BY <2>2, <1>16
  <2> QED
    BY <2>5, <2>6, <1>1, <1>3, Zenon DEF given
<1>19. CASE m.type \notin {"DISCONNECT", "DEBUG"} /\ Does(e).do = "read"
  <2> DEFINE y == [z EXCEPT !.pc = @ + 1]
  <2>1. Visible(m) /\ m.type # "DATA"
    BY <1>3, <1>5, <1>10, <1>19 DEF Visible, Due
  <2>2. Scripted(m) /\ m.type = Does(e).what
    BY <2>1, <1>3, <1>5, <1>19 DEF Due, Scripted
  <2>3. given = Append(got[e], m)
    BY <2>1 DEF Given
  <2> HIDE DEF given
  <2>4. end' = [end EXCEPT ![e] = y] /\ got' = [got EXCEPT ![e] = given] /\ UNCHANGED pipe
    BY <2>1, <2>2, <2>3, <1>6, <1>14, <1>19
  <2>5. LET w == [x EXCEPT !.pc = @ + 1] IN
        IsEnd(cfg, e, w) /\ w.pc = x.pc + 1
        /\ (w.pc > 4 <=> x.pc > 4) /\ (cfg.compression => (w.pc > Packing(e) <=> x.pc > Packing(e)))
    <3>1. Up(e) /\ Does(e).do \notin {"disconnect", "session", "key", "compress"}
      BY <1>3, <1>19
    <3> QED
      BY <3>1, GoesOn
  <2>6. /\ x.pc + 1 \in 1 .. Last(cfg, e) /\ x.pc \in Nat /\ (x.pc + 1 > 4 <=> x.pc > 4)
        /\ (cfg.compression => (x.pc + 1 > Packing(e) <=> x.pc > Packing(e)))
    <3>1. x.pc \in Nat
      BY <1>3 DEF ReadsAt, IsEnd
    <3> DEFINE w == [x EXCEPT !.pc = @ + 1]
    <3>2. w.pc = x.pc + 1 /\ IsEnd(cfg, e, w)
          /\ (w.pc > 4 <=> x.pc > 4) /\ (cfg.compression => (w.pc > Packing(e) <=> x.pc > Packing(e)))
      BY <2>5
    <3> HIDE DEF w
    <3>3. w.pc \in 1 .. Last(cfg, e)
      BY <3>2 DEF IsEnd
    <3> QED
      BY <3>1, <3>2, <3>3
  <2>7. z \in [pc : 1 .. Last(cfg, e), mode : {"open", "disconnecting", "closed"}, why : {z.why},
               sent : 0 .. MaxData[e], output : {z.output}, input : {z.input},
               send_context : Contexts, receive_context : Contexts, deflate : Nat, inflate : Nat]
    BY <1>9 DEF IsEnd
  <2>8. /\ y \in [pc : 1 .. Last(cfg, e), mode : {"open", "disconnecting", "closed"}, why : {z.why},
                  sent : 0 .. MaxData[e], output : {z.output}, input : {z.input},
                  send_context : Contexts, receive_context : Contexts, deflate : Nat, inflate : Nat]
        /\ y.pc = x.pc + 1 /\ y.mode = z.mode /\ y.why = z.why /\ y.output = z.output
        /\ y.input = z.input /\ y.send_context = z.send_context
        /\ y.receive_context = z.receive_context /\ y.deflate = z.deflate /\ y.inflate = z.inflate
    BY <2>6, <2>7, <1>9
  <2> HIDE DEF y
  <2>9. IsEnd(cfg, e, y)
    <3>1. Packing(e) \in Nat
      BY DEF Packing
    <3>2. x.pc + 1 <= 4 => x.pc <= 4
      BY <2>6
    <3> QED
      BY <3>1, <3>2, <2>6, <2>8, <1>9 DEF IsEnd
  <2>10. Reads(cfg, e, y.pc) = next.rank /\ Sends(cfg, e, y.pc) = Sends(cfg, e, x.pc)
    BY <2>2, <2>8, <1>3, <1>19 DEF After
  <2>11. Taking(e, m, given, y)
    BY <2>8, <2>9, <2>10, <1>7, <1>9 DEF Taking, z, R, given
  <2> QED
    BY <2>4, <2>11, <1>1, <1>3, Zenon DEF given
<1> QED
  BY <1>3, <1>15, <1>17, <1>18, <1>19

LEMMA ReadPollKeeps ==
  ASSUME InTune, NEW e \in End, packet_read_poll(e)
  PROVE  InTune'
<1>1. Reading(e) /\ Complete(e)
  BY DEF packet_read_poll
<1>2. Up(e)
  BY <1>1 DEF Reading
<1>3. PICK m \in Message : NextIs(e, m)
  BY <1>1, <1>2, CompleteIsNext
<1> DEFINE given == Given(e, m)
<1>4. /\ UNCHANGED <<cfg, posted>>
      /\ \/ Close(e, "told") /\ UNCHANGED got
         \/ /\ \E y : Taking(e, m, given, y) /\ end' = [end EXCEPT ![e] = y]
            /\ got' = [got EXCEPT ![e] = given] /\ UNCHANGED pipe
  BY <1>3, ReadPollTakes
<1> HIDE DEF given
<1>5. CASE Close(e, "told") /\ UNCHANGED got
  <2>1. "told" \notin {"garbled", "unexpected"}
    OBVIOUS
  <2> QED
    BY <2>1, <1>4, <1>5, CloseKeeps
<1>6. CASE /\ \E y : Taking(e, m, given, y) /\ end' = [end EXCEPT ![e] = y]
           /\ got' = [got EXCEPT ![e] = given] /\ UNCHANGED pipe
  <2>1. PICK y : Taking(e, m, given, y) /\ end' = [end EXCEPT ![e] = y]
    BY <1>6
  <2> QED
    BY <2>1, <1>1, <1>3, <1>4, <1>6, TakingKeeps
<1> QED
  BY <1>4, <1>5, <1>6

LEMMA NextKeeps == InTune /\ [Next]_vars => InTune'
<1> SUFFICES ASSUME InTune, [Next]_vars PROVE InTune'
  OBVIOUS
<1>1. ASSUME NEW e \in End, packet_write_poll(e) PROVE InTune'
  BY <1>1, WritePollKeeps
<1>2. ASSUME NEW e \in End, packet_process_incoming(e) PROVE InTune'
  BY <1>2, ProcessIncomingKeeps
<1>3. ASSUME NEW e \in End, packet_read_poll(e) PROVE InTune'
  BY <1>3, ReadPollKeeps
<1>4. ASSUME NEW e \in End, Step(e) PROVE InTune'
  BY <1>4, StepKeeps
<1>5. ASSUME NEW e \in End, SendData(e) PROVE InTune'
  BY <1>5, SendDataKeeps
<1>6. ASSUME NEW e \in End, Disconnect(e) PROVE InTune'
  BY <1>6, DisconnectKeeps
<1>7. ASSUME NEW e \in End, FinishDisconnect(e) PROVE InTune'
  BY <1>7, FinishDisconnectKeeps
<1>8. ASSUME UNCHANGED vars PROVE InTune'
  BY <1>8 DEF vars, InTune, Typed, Stream, Up
<1> QED
  BY <1>1, <1>2, <1>3, <1>4, <1>5, <1>6, <1>7, <1>8 DEF Next

-----------------------------------------------------------------------------
(* What follows.                                                           *)

LEMMA AlwaysInTune == Spec => []InTune
<1>1. Init => InTune
  BY InitiallyInTune
<1> QED
  BY <1>1, NextKeeps, PTL DEF Spec

\* Everything has its type, the buffers stay inside what was allocated and the
\* pipe in what the kernel holds, for every set-up, size and amount of data
\* (packet.c, buffer.c).
THEOREM TypesKept == Spec => []TypeOK
<1>1. InTune => TypeOK
  <2> SUFFICES ASSUME InTune, NEW e \in End
               PROVE  /\ cfg \in Setups
                      /\ WellFormed(end[e].output) /\ WellFormed(end[e].input)
                      /\ end[e].pc \in DOMAIN Script(e)
                      /\ end[e].mode \in {"open", "disconnecting", "closed"}
                      /\ end[e].sent \in 0 .. MaxData[e]
                      /\ Len(pipe[e]) <= PipeSize
                      /\ \A i \in DOMAIN got[e] : got[e][i] \in Message
    BY DEF TypeOK, InTune, Typed
  <2>1. /\ cfg \in Setups /\ cfg.compression \in BOOLEAN /\ IsEnd(cfg, e, end[e])
        /\ Len(pipe[e]) <= PipeSize /\ got[e] \in Seq(Message)
    BY DEF InTune, Typed
  <2>2. /\ IsBuffer(Units, end[e].output) /\ IsBuffer(Units, end[e].input)
        /\ end[e].pc \in 1 .. Last(cfg, e) /\ end[e].mode \in {"open", "disconnecting", "closed"}
        /\ end[e].sent \in 0 .. MaxData[e]
    BY <2>1 DEF IsEnd
  <2>3. WellFormed(end[e].output) /\ WellFormed(end[e].input)
    BY <2>2, BuffersAreWellFormed
  <2>4. DOMAIN Script(e) = 1 .. Last(cfg, e)
    BY <2>1, <2>2, ScriptTable
  <2> QED
    BY <2>1, <2>2, <2>3, <2>4
<1> QED
  BY <1>1, AlwaysInTune, PTL

\* No end ever meets a packet that it cannot decrypt, check or decompress, or that
\* its caller does not expect there: with either cipher, with and without
\* compression, however the bytes arrive (packet_set_encryption_key,
\* packet_start_compression, packet_read_poll, packet_read_expect).
THEOREM NothingIsMisread == Spec => []Understood
<1>1. InTune => Understood
  BY DEF InTune, Typed, IsEnd, Understood
<1> QED
  BY <1>1, AlwaysInTune, PTL

-----------------------------------------------------------------------------
(* The pipe of PacketPipe.                                                 *)

LEMMA CloseStops ==
  ASSUME InTune, NEW e \in End, NEW why, Up(e), Close(e, why), UNCHANGED <<posted, got>>
  PROVE  Pipe!Stop(e)
<1>1. end = [h \in End |-> end[h]]
      /\ end[e] \in [pc : 1 .. Last(cfg, e), mode : {"open", "disconnecting", "closed"},
            why : {end[e].why}, sent : 0 .. MaxData[e], output : {end[e].output},
            input : {end[e].input}, send_context : Contexts, receive_context : Contexts,
            deflate : Nat, inflate : Nat]
  BY DEF InTune, Typed, IsEnd
<1>2. /\ DOMAIN end = End
      /\ end' = [end EXCEPT ![e].mode = "closed", ![e].why = why,
                           ![e].output = buffer_init, ![e].input = buffer_init]
  BY <1>1, Zenon DEF Close
<1>3. end'[e].mode = "closed" /\ \A h \in End \ {e} : end'[h] = end[h]
  BY <1>1, <1>2
<1>4. {h \in End : Up(h)}' = {h \in End : Up(h)} \ {e}
  BY <1>3 DEF Up
<1>5. e \in {h \in End : Up(h)}
  OBVIOUS
<1> QED
  BY <1>4, <1>5 DEF Pipe!Stop

LEMMA EndStays ==
  ASSUME InTune, NEW e \in End, Up(e), NEW y, y.mode # "closed", end' = [end EXCEPT ![e] = y]
  PROVE  {h \in End : Up(h)}' = {h \in End : Up(h)}
<1>1. end'[e] = y /\ \A h \in End \ {e} : end'[h] = end[h]
  BY DEF InTune, Typed
<1> QED
  BY <1>1 DEF Up

LEMMA EndIsARecord ==
  ASSUME InTune, NEW e \in End
  PROVE  /\ DOMAIN end = End
         /\ end[e] \in [pc : 1 .. Last(cfg, e), mode : {"open", "disconnecting", "closed"},
               why : {end[e].why}, sent : 0 .. MaxData[e], output : {end[e].output},
               input : {end[e].input}, send_context : Contexts, receive_context : Contexts,
               deflate : Nat, inflate : Nat]
BY DEF InTune, Typed, IsEnd

LEMMA PollsAreStops ==
  ASSUME InTune, NEW e \in End, packet_write_poll(e) \/ packet_process_incoming(e)
  PROVE  Pipe!Stop(e) \/ UNCHANGED Pipe!pipe
<1>1. Up(e) /\ UNCHANGED <<posted, got>>
  BY DEF packet_write_poll, packet_process_incoming, Reading
<1>2. CASE \E why : Close(e, why)
  BY <1>1, <1>2, CloseStops
<1>3. CASE \E b : end' = [end EXCEPT ![e].output = b] \/ end' = [end EXCEPT ![e].input = b]
  <2>1. PICK b : end' = [end EXCEPT ![e].output = b] \/ end' = [end EXCEPT ![e].input = b]
    BY <1>3
  <2> DEFINE y == IF end' = [end EXCEPT ![e].output = b] THEN [end[e] EXCEPT !.output = b]
                  ELSE [end[e] EXCEPT !.input = b]
  <2>2. DOMAIN end = End /\ y.mode = end[e].mode
    BY EndIsARecord
  <2>3. end' = [end EXCEPT ![e] = y]
    BY <2>1, <2>2
  <2>4. y.mode # "closed"
    BY <1>1, <2>2 DEF Up
  <2> HIDE DEF y
  <2>5. {h \in End : Up(h)}' = {h \in End : Up(h)}
    BY <1>1, <2>3, <2>4, EndStays
  <2> QED
    BY <1>1, <2>5 DEF Pipe!pipe
<1>4. \/ \E why : Close(e, why)
      \/ \E b : end' = [end EXCEPT ![e].output = b] \/ end' = [end EXCEPT ![e].input = b]
  <2>1. DOMAIN end = End
    BY DEF InTune, Typed
  <2>2. CASE packet_write_poll(e)
    BY <2>1, <2>2 DEF packet_write_poll
  <2>3. CASE packet_process_incoming(e)
    BY <2>1, <2>3 DEF packet_process_incoming
  <2> QED
    BY <2>2, <2>3
<1> QED
  BY <1>2, <1>3, <1>4

LEMMA ReadPollDelivers ==
  ASSUME InTune, NEW e \in End, packet_read_poll(e)
  PROVE  Pipe!Deliver(e) \/ Pipe!Stop(e) \/ UNCHANGED Pipe!pipe
<1>1. Reading(e) /\ Complete(e) /\ Up(e)
  BY DEF packet_read_poll, Reading
<1>2. PICK m \in Message : NextIs(e, m)
  BY <1>1, CompleteIsNext
<1> DEFINE given == Given(e, m)
<1>3. /\ UNCHANGED <<cfg, posted>>
      /\ \/ Close(e, "told") /\ UNCHANGED got
         \/ /\ \E y : Taking(e, m, given, y) /\ end' = [end EXCEPT ![e] = y]
            /\ got' = [got EXCEPT ![e] = given] /\ UNCHANGED pipe
  BY <1>2, ReadPollTakes
<1>4. got \in [End -> Seq(Message)]
  BY DEF InTune, Typed
<1> HIDE DEF given
<1>5. CASE Close(e, "told") /\ UNCHANGED got
  BY <1>1, <1>3, <1>5, CloseStops
<1>6. CASE /\ \E y : Taking(e, m, given, y) /\ end' = [end EXCEPT ![e] = y]
           /\ got' = [got EXCEPT ![e] = given]
  <2>1. PICK y : Taking(e, m, given, y) /\ end' = [end EXCEPT ![e] = y]
    BY <1>6
  <2>2. y.mode # "closed"
    BY <2>1, <1>1 DEF Taking, Up
  <2>3. {h \in End : Up(h)}' = {h \in End : Up(h)}
    BY <1>1, <2>1, <2>2, EndStays
  <2>4. CASE ~Visible(m)
    <3>1. got' = got
      BY <2>4, <1>4, <1>6 DEF given, Given
    <3> QED
      BY <3>1, <2>3, <1>3 DEF Pipe!pipe
  <2>5. CASE Visible(m)
    <3>1. /\ Len(got[e]) + 1 \in 1 .. Len(posted[Peer(e)])
          /\ posted[Peer(e)][Len(got[e]) + 1] = m
      BY <2>5, <1>2 DEF NextIs, Due, ReadPlace
    <3>2. posted[Peer(e)] \in Seq(Message)
      BY Ends DEF InTune, Typed
    <3>3. Len(got[e]) + 1 \in DOMAIN posted[Peer(e)]
      BY <3>1, <3>2
    <3>4. got' = [got EXCEPT ![e] = Append(@, posted[Peer(e)][Len(got[e]) + 1])]
      BY <3>1, <2>5, <1>4, <1>6 DEF given, Given
    <3>5. e \in {h \in End : Up(h)}
      BY <1>1
    <3> QED
      BY <3>3, <3>4, <3>5, <2>3, <1>3 DEF Pipe!Deliver
  <2> QED
    BY <2>4, <2>5
<1> QED
  BY <1>3, <1>5, <1>6

LEMMA StepPosts ==
  ASSUME InTune, NEW e \in End, Step(e)
  PROVE  Pipe!Post(e) \/ UNCHANGED Pipe!pipe
<1> DEFINE x == [end[e] EXCEPT !.pc = @ + 1]
           m == [type |-> Does(e).what, n |-> 0]
<1>1. Up(e) /\ UNCHANGED got
  BY DEF Step
<1>2. x.mode # "closed" /\ \A n : packet_send(x, n).mode # "closed"
  BY <1>1, EndIsARecord DEF Up, packet_send
<1>3. packet_set_encryption_key(x, e).mode # "closed" /\ packet_start_compression(x).mode # "closed"
  BY <1>1, EndIsARecord DEF Up, packet_set_encryption_key, packet_start_compression
<1>4. \E y : y.mode # "closed" /\ end' = [end EXCEPT ![e] = y]
  <2> HIDE DEF x
  <2> QED
    BY <1>2, <1>3 DEF Step, x
<1>5. {h \in End : Up(h)}' = {h \in End : Up(h)}
  BY <1>1, <1>4, EndStays
<1>6. CASE UNCHANGED posted
  BY <1>1, <1>5, <1>6 DEF Pipe!pipe
<1>7. CASE Does(e).do = "send" /\ posted' = [posted EXCEPT ![e] = Append(@, m)]
  <2>1. /\ Does(e) = Script(e)[end[e].pc] /\ end[e].pc \in 1 .. Last(cfg, e)
        /\ cfg.compression \in BOOLEAN
    BY <1>1, <1>7, DoesIs
  <2>2. /\ Does(e).what = Said(cfg, e, Sends(cfg, e, end[e].pc) + 1)
        /\ Sends(cfg, e, end[e].pc) \in 0 .. Total(cfg)
    BY <1>7, <2>1, ScriptTable
  <2>3. m \in Message
    <3>1. Sends(cfg, e, end[e].pc) + 1 \in Nat \ {0}
      BY <2>2 DEF Total
    <3> QED
      BY <3>1, <2>2, SaidIs
  <2>4. e \in {h \in End : Up(h)}
    BY <1>1
  <2> QED
    BY <1>1, <1>5, <1>7, <2>3, <2>4 DEF Pipe!Post
<1> QED
  BY <1>6, <1>7 DEF Step

LEMMA SendDataPosts ==
  ASSUME InTune, NEW e \in End, SendData(e)
  PROVE  Pipe!Post(e)
<1> DEFINE m == [type |-> "DATA", n |-> end[e].sent + 1]
           y == [packet_send(end[e], m) EXCEPT !.sent = m.n]
<1>1. Up(e) /\ UNCHANGED got /\ end[e].sent < MaxData[e] /\ end' = [end EXCEPT ![e] = y]
      /\ posted' = [posted EXCEPT ![e] = Append(@, m)]
  BY DEF SendData
<1>2. y.mode # "closed"
  BY <1>1, EndIsARecord DEF Up, packet_send
<1> HIDE DEF y
<1>3. {h \in End : Up(h)}' = {h \in End : Up(h)}
  BY <1>1, <1>2, EndStays
<1>4. m \in Message
  <2>1. end[e].sent \in 0 .. MaxData[e]
    BY EndIsARecord
  <2>2. MaxData["client"] \in Nat /\ MaxData["server"] \in Nat /\ (e = "client" \/ e = "server")
    BY PacketsAssumption DEF End
  <2>3. end[e].sent + 1 \in 1 .. MaxData["client"] + MaxData["server"]
    <3>1. CASE e = "client"
      BY <3>1, <1>1, <2>1, <2>2
    <3>2. CASE e = "server"
      BY <3>2, <1>1, <2>1, <2>2
    <3> QED
      BY <3>1, <3>2, <2>2
  <2> QED
    BY <2>3 DEF Message
<1>5. e \in {h \in End : Up(h)}
  BY <1>1
<1> HIDE DEF m
<1> QED
  BY <1>1, <1>3, <1>4, <1>5 DEF Pipe!Post

LEMMA DisconnectsAreStops ==
  ASSUME InTune, NEW e \in End, Disconnect(e) \/ FinishDisconnect(e)
  PROVE  Pipe!Stop(e) \/ UNCHANGED Pipe!pipe
<1>1. CASE FinishDisconnect(e)
  <2>1. Up(e) /\ Close(e, end[e].why) /\ UNCHANGED <<posted, got>>
    BY <1>1 DEF FinishDisconnect
  <2> QED
    BY <2>1, CloseStops
<1>2. CASE Disconnect(e)
  <2> DEFINE y == Disconnected(end[e], "asked")
  <2>1. Up(e) /\ end' = [end EXCEPT ![e] = y] /\ UNCHANGED <<posted, got>>
    BY <1>2 DEF Disconnect, InTune, Typed
  <2>2. y.mode # "closed"
    BY EndIsARecord DEF Disconnected, packet_send
  <2> HIDE DEF y
  <2>3. {h \in End : Up(h)}' = {h \in End : Up(h)}
    BY <2>1, <2>2, EndStays
  <2> QED
    BY <2>1, <2>3 DEF Pipe!pipe
<1> QED
  BY <1>1, <1>2

\* The packet layer of the two ends is the simple pipe of PacketPipe: what an end
\* posts the other is given once and in order, whatever the framing, the buffers,
\* partial reads and writes, the ciphers and the compression are.
THEOREM PacketsAreAPipe == Spec => PipeSpec
<1>1. Init => Pipe!Init
  BY DEF Init, Pipe!Init, Up
<1>2. InTune /\ [Next]_vars => [Pipe!Next]_(Pipe!pipe)
  <2> SUFFICES ASSUME InTune, [Next]_vars PROVE Pipe!Next \/ UNCHANGED Pipe!pipe
    OBVIOUS
  <2>1. ASSUME NEW e \in End, packet_write_poll(e) \/ packet_process_incoming(e)
        PROVE  Pipe!Next \/ UNCHANGED Pipe!pipe
    BY <2>1, PollsAreStops DEF Pipe!Next
  <2>2. ASSUME NEW e \in End, packet_read_poll(e) PROVE Pipe!Next \/ UNCHANGED Pipe!pipe
    BY <2>2, ReadPollDelivers DEF Pipe!Next
  <2>3. ASSUME NEW e \in End, Step(e) PROVE Pipe!Next \/ UNCHANGED Pipe!pipe
    BY <2>3, StepPosts DEF Pipe!Next
  <2>4. ASSUME NEW e \in End, SendData(e) PROVE Pipe!Next \/ UNCHANGED Pipe!pipe
    BY <2>4, SendDataPosts DEF Pipe!Next
  <2>5. ASSUME NEW e \in End, Disconnect(e) \/ FinishDisconnect(e)
        PROVE  Pipe!Next \/ UNCHANGED Pipe!pipe
    BY <2>5, DisconnectsAreStops DEF Pipe!Next
  <2>6. CASE UNCHANGED vars
    BY <2>6 DEF vars, Pipe!pipe, Up
  <2> QED
    BY <2>1, <2>2, <2>3, <2>4, <2>5, <2>6 DEF Next
<1> QED
  BY <1>1, <1>2, AlwaysInTune, PTL DEF Spec, PipeSpec, Pipe!Spec
=============================================================================
