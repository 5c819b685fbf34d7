--------------------------- MODULE ChannelsProofs ---------------------------
(***************************************************************************)
(* Theorems about Channels, for every table size, set of listeners, number *)
(* of connections and amount of data: the types, and the consistency of    *)
(* the channel tables.  First what every run of the flag functions of      *)
(* newchannels.c preserves, for any channel entry: its shape, the two      *)
(* facts that tie the "sent" flags to the "closed" flags, and that an      *)
(* entry is freed exactly when all six flags are set.  Then what one step  *)
(* of either end leaves of the agreement between the two tables.           *)
(***************************************************************************)
EXTENDS Channels, SequenceTheorems, FiniteSetTheorems, TLAPS

Runs ==
  [c : Channel, out : Seq(Message), frees : {0, 1},
   fault : Faults \ {"table corrupt"}]

\* An eof is sent only after the socket is closed for reading, and the closing
\* of the output is announced at once.
Orderly(ch) ==
  /\ "EOF_SENT" \in ch.flags => "INPUT_CLOSED" \in ch.flags
  /\ "CLOSE_SENT" \in ch.flags <=> "OUTPUT_CLOSED" \in ch.flags

\* A run that has freed its entry at most once, and then with all flags set.
Sound(r) ==
  /\ r \in Runs /\ Orderly(r.c)
  /\ r.frees = 1 <=> r.c.type = "FREE"
  /\ r.c.type = "FREE" => r.c.flags = Flags

\* An entry with all six flags has been freed.
Tight(r) == r.c.flags = Flags => r.c.type = "FREE"

\* s is what a flag function makes of run r.
Step(r, s) ==
  /\ Sound(s)
  /\ s.c.type \in {r.c.type, "FREE"}
  /\ s.c.sock = r.c.sock /\ s.c.inst = r.c.inst
  /\ r.c.flags \subseteq s.c.flags

\* channel_send_ieof and channel_send_oclosed append one packet and touch nothing else.
LEMMA SendCloseShape ==
  ASSUME NEW r \in Runs, NEW kind \in Kinds
  PROVE  /\ SendClose(r, kind) \in Runs
         /\ SendClose(r, kind).c = r.c
         /\ SendClose(r, kind).frees = r.frees
         /\ SendClose(r, kind).fault = r.fault
<1> DEFINE m == Packet(kind, r.c.rid, NoId, NoTarget, << >>, r.c.inst)
<1>1. r.c \in Channel /\ r.out \in Seq(Message)
  BY DEF Runs
<1>2. r.c.rid \in Ids /\ r.c.inst \in Instances \cup {0}
  BY <1>1 DEF Channel
<1>3. << >> \in Seq(Items)
  BY EmptySeq
<1>4. m \in Message
  BY <1>2, <1>3 DEF Packet, Message, Ids
<1>5. Append(r.out, m) \in Seq(Message)
  BY <1>1, <1>4, AppendProperties
<1>6. SendClose(r, kind) = [r EXCEPT !.out = Append(r.out, m)]
  BY DEF SendClose, Runs
<1> HIDE DEF m
<1>7. QED
  BY <1>5, <1>6 DEF Runs

\* Setting a status flag changes nothing else of the entry or the run.
LEMMA SetFlagShape ==
  ASSUME NEW r \in Runs, NEW f \in Flags
  PROVE  /\ SetFlag(r, f) \in Runs
         /\ SetFlag(r, f).c = [r.c EXCEPT !.flags = r.c.flags \cup {f}]
         /\ SetFlag(r, f).frees = r.frees
         /\ SetFlag(r, f).fault = r.fault
<1>1. r.c \in Channel /\ r.c.flags \in SUBSET Flags
  BY DEF Runs, Channel
<1>2. [r.c EXCEPT !.flags = r.c.flags \cup {f}] \in Channel
  BY <1>1 DEF Channel
<1>3. SetFlag(r, f) = [r EXCEPT !.c = [r.c EXCEPT !.flags = r.c.flags \cup {f}]]
  BY DEF SetFlag, Runs
<1>4. QED
  BY <1>2, <1>3 DEF Runs

\* channel_free leaves flags, socket and instance behind; on a live entry it frees once
\* and does not fail its assertion.
LEMMA ChannelFreeShape ==
  ASSUME NEW r \in Runs, r.frees = 1 <=> r.c.type = "FREE"
  PROVE  /\ ChannelFree(r) \in Runs
         /\ ChannelFree(r).c.type = "FREE"
         /\ ChannelFree(r).c.flags = r.c.flags
         /\ ChannelFree(r).c.sock = r.c.sock
         /\ ChannelFree(r).c.inst = r.c.inst
         /\ ChannelFree(r).frees = 1
<1>1. << >> \in Seq(Items)
  BY EmptySeq
<1>2. r.c \in Channel
  BY DEF Runs
<1>3. CASE r.c.type = "FREE"
  BY <1>3 DEF ChannelFree, Runs, Faults
<1>4. CASE r.c.type # "FREE"
  <2> DEFINE ch == [r.c EXCEPT !.type = "FREE", !.input = << >>, !.output = << >>]
  <2>1. ch \in Channel /\ ch.type = "FREE" /\ ch.flags = r.c.flags
        /\ ch.sock = r.c.sock /\ ch.inst = r.c.inst
    BY <1>1, <1>2 DEF Channel, ChannelTypes
  <2>2. r.frees = 0
    BY <1>4 DEF Runs
  <2>3. r.frees + 1 = 1
    BY <2>2
  <2>4. ChannelFree(r) = [r EXCEPT !.c = ch, !.frees = r.frees + 1]
    BY <1>4 DEF ChannelFree
  <2> HIDE DEF ch
  <2>5. QED
    BY <2>1, <2>3, <2>4 DEF Runs
<1>5. QED
  BY <1>3, <1>4

\* channel_check_termination frees exactly the entries with all six flags.
LEMMA CheckTerminationSound ==
  ASSUME NEW r \in Runs, Orderly(r.c), r.frees = 1 <=> r.c.type = "FREE",
         r.c.type = "FREE" => r.c.flags = Flags
  PROVE  /\ Sound(CheckTermination(r))
         /\ CheckTermination(r).c.flags = r.c.flags
         /\ CheckTermination(r).c.flags # Flags
              => CheckTermination(r) = r
         /\ CheckTermination(r).c.flags = Flags
              => CheckTermination(r).c.type = "FREE"
         /\ CheckTermination(r).c.type \in {r.c.type, "FREE"}
         /\ CheckTermination(r).c.sock = r.c.sock
         /\ CheckTermination(r).c.inst = r.c.inst
BY ChannelFreeShape DEF CheckTermination, Sound, Orderly

\* channel_send_ieof, on an entry whose socket is closed for reading.
LEMMA SendIeofSound ==
  ASSUME NEW r \in Runs, Sound(r), "INPUT_CLOSED" \in r.c.flags
  PROVE  /\ Step(r, SendIeof(r))
         /\ Tight(r) => Tight(SendIeof(r))
<1> DEFINE s == SetFlag(r, "EOF_SENT")
           t == SendClose(s, "INPUT_EOF")
<1>1. CASE HasFlag(r, "EOF_SENT")
  BY <1>1 DEF SendIeof, Step
<1>2. CASE ~HasFlag(r, "EOF_SENT")
  <2>1. /\ s \in Runs /\ s.frees = r.frees
        /\ s.c = [r.c EXCEPT !.flags = r.c.flags \cup {"EOF_SENT"}]
    BY SetFlagShape DEF Flags
  <2>2. /\ s.c.flags = r.c.flags \cup {"EOF_SENT"} /\ s.c.type = r.c.type
        /\ s.c.sock = r.c.sock /\ s.c.inst = r.c.inst
    BY <2>1 DEF Runs, Channel
  <2>3. t \in Runs /\ t.c = s.c /\ t.frees = s.frees
    BY <2>1, SendCloseShape DEF Kinds, CloseKinds
  <2>4. r.c.type # "FREE"
    BY <1>2 DEF Sound, HasFlag, Flags
  <2> HIDE DEF s, t
  <2>5. Orderly(t.c) /\ (t.frees = 1 <=> t.c.type = "FREE")
        /\ (t.c.type = "FREE" => t.c.flags = Flags)
    BY <2>1, <2>2, <2>3, <2>4 DEF Sound, Orderly
  <2>6. SendIeof(r) = CheckTermination(t)
    BY <1>2 DEF SendIeof, s, t
  <2>7. QED
    BY <2>2, <2>3, <2>5, <2>6, CheckTerminationSound DEF Step, Tight
<1>3. QED
  BY <1>1, <1>2

\* SendOclosed is called between the setting of two flags.
LEMMA SendOclosedSound ==
  ASSUME NEW r \in Runs, "OUTPUT_CLOSED" \in r.c.flags,
         "CLOSE_SENT" \notin r.c.flags,
         "EOF_SENT" \in r.c.flags => "INPUT_CLOSED" \in r.c.flags,
         r.frees = 1 <=> r.c.type = "FREE", r.c.type # "FREE"
  PROVE  /\ Step(r, SendOclosed(r))
         /\ Tight(SendOclosed(r))
<1> DEFINE s == SetFlag(r, "CLOSE_SENT")
           t == SendClose(s, "OUTPUT_CLOSED")
<1>1. /\ s \in Runs /\ s.frees = r.frees
      /\ s.c = [r.c EXCEPT !.flags = r.c.flags \cup {"CLOSE_SENT"}]
  BY SetFlagShape DEF Flags
<1>2. /\ s.c.flags = r.c.flags \cup {"CLOSE_SENT"} /\ s.c.type = r.c.type
      /\ s.c.sock = r.c.sock /\ s.c.inst = r.c.inst
  BY <1>1 DEF Runs, Channel
<1>3. t \in Runs /\ t.c = s.c /\ t.frees = s.frees
  BY <1>1, SendCloseShape DEF Kinds, CloseKinds
<1> HIDE DEF s, t
<1>4. Orderly(t.c) /\ (t.frees = 1 <=> t.c.type = "FREE")
      /\ (t.c.type = "FREE" => t.c.flags = Flags)
  BY <1>1, <1>2, <1>3 DEF Orderly
<1>5. SendOclosed(r) = CheckTermination(t)
  BY DEF SendOclosed, HasFlag, s, t
<1>6. QED
  BY <1>2, <1>3, <1>4, <1>5, CheckTerminationSound DEF Step, Tight

\* channel_close_input keeps an entry sound, and leaves it closed for reading.
LEMMA CloseInputSound ==
  ASSUME NEW r \in Runs, Sound(r)
  PROVE  /\ Step(r, CloseInput(r))
         /\ Tight(r) => Tight(CloseInput(r))
         /\ "INPUT_CLOSED" \in CloseInput(r).c.flags
<1> DEFINE s == SetFlag(r, "INPUT_CLOSED")
<1>1. CASE HasFlag(r, "INPUT_CLOSED")
  BY <1>1 DEF CloseInput, Step, HasFlag
<1>2. CASE ~HasFlag(r, "INPUT_CLOSED")
  <2>1. /\ s \in Runs /\ s.frees = r.frees
        /\ s.c = [r.c EXCEPT !.flags = r.c.flags \cup {"INPUT_CLOSED"}]
    BY SetFlagShape DEF Flags
  <2>2. /\ s.c.flags = r.c.flags \cup {"INPUT_CLOSED"} /\ s.c.type = r.c.type
        /\ s.c.sock = r.c.sock /\ s.c.inst = r.c.inst
    BY <2>1 DEF Runs, Channel
  <2>3. r.c.type # "FREE" /\ "EOF_SENT" \notin r.c.flags
    BY <1>2 DEF Sound, HasFlag, Flags, Orderly
  <2>4. "EOF_SENT" \notin s.c.flags /\ s.c.flags # Flags
    BY <2>2, <2>3 DEF Flags
  <2>5. CloseInput(r) = IF s.c.type = "OPEN" THEN s ELSE SendIeof(s)
    BY <1>2 DEF CloseInput
  <2> HIDE DEF s
  <2>6. Sound(s) /\ Tight(s)
    BY <2>1, <2>2, <2>3, <2>4 DEF Sound, Orderly, Tight
  <2>7. QED
    BY <2>1, <2>2, <2>5, <2>6, SendIeofSound DEF Step
<1>3. QED
  BY <1>1, <1>2

\* channel_close_output keeps an entry sound: the flag and the packet that announces
\* it go together.
LEMMA CloseOutputSound ==
  ASSUME NEW r \in Runs, Sound(r)
  PROVE  /\ Step(r, CloseOutput(r))
         /\ Tight(r) => Tight(CloseOutput(r))
<1> DEFINE s == SetFlag(r, "OUTPUT_CLOSED")
           t == [s EXCEPT !.c.output = << >>]
<1>1. CASE HasFlag(r, "OUTPUT_CLOSED")
  BY <1>1 DEF CloseOutput, Step
<1>2. CASE ~HasFlag(r, "OUTPUT_CLOSED")
  <2>1. /\ s \in Runs /\ s.frees = r.frees
        /\ s.c = [r.c EXCEPT !.flags = r.c.flags \cup {"OUTPUT_CLOSED"}]
    BY SetFlagShape DEF Flags
  <2>2. << >> \in Seq(Items)
    BY EmptySeq
  <2>3. s.c \in Channel
    BY <2>1 DEF Runs
  <2>4. [s.c EXCEPT !.output = << >>] \in Channel
    BY <2>2, <2>3 DEF Channel
  <2>5. t = [s EXCEPT !.c = [s.c EXCEPT !.output = << >>]]
    BY <2>1 DEF Runs
  <2>6. CloseOutput(r) = SendOclosed(t)
    BY <1>2 DEF CloseOutput
  <2>7. r.c.type # "FREE" /\ "CLOSE_SENT" \notin r.c.flags
    BY <1>2 DEF Sound, HasFlag, Flags, Orderly
  <2> HIDE DEF s, t
  <2>8. t \in Runs /\ t.frees = s.frees /\ t.c = [s.c EXCEPT !.output = << >>]
    BY <2>1, <2>4, <2>5 DEF Runs
  <2>9. /\ t.c.flags = r.c.flags \cup {"OUTPUT_CLOSED"} /\ t.c.type = r.c.type
        /\ t.c.sock = r.c.sock /\ t.c.inst = r.c.inst
    BY <2>1, <2>8 DEF Runs, Channel
  <2>10. Step(t, SendOclosed(t)) /\ Tight(SendOclosed(t))
    BY <2>1, <2>7, <2>8, <2>9, SendOclosedSound DEF Sound, Orderly
  <2>11. QED
    BY <2>6, <2>9, <2>10 DEF Step
<1>3. QED
  BY <1>1, <1>2

\* After channel_check_termination no live entry has all six flags.
LEMMA CheckTerminationTight ==
  ASSUME NEW r \in Runs, Sound(r)
  PROVE  Step(r, CheckTermination(r)) /\ Tight(CheckTermination(r))
BY CheckTerminationSound DEF Sound, Step, Tight

\* A flag with no bearing on Orderly.
LEMMA SetReceivedSound ==
  ASSUME NEW r \in Runs, Sound(r), NEW f \in {"EOF_RECEIVED", "CLOSE_RECEIVED"}
  PROVE  /\ Step(r, SetFlag(r, f)) /\ SetFlag(r, f) \in Runs
         /\ SetFlag(r, f).c.type = r.c.type
<1> DEFINE s == SetFlag(r, f)
<1>1. /\ s \in Runs /\ s.frees = r.frees
      /\ s.c = [r.c EXCEPT !.flags = r.c.flags \cup {f}]
  BY SetFlagShape DEF Flags
<1>2. /\ s.c.flags = r.c.flags \cup {f} /\ s.c.type = r.c.type
      /\ s.c.sock = r.c.sock /\ s.c.inst = r.c.inst
  BY <1>1 DEF Runs, Channel
<1>3. f \in Flags
  BY DEF Flags
<1>4. r.c.type = "FREE" => s.c.flags = Flags
  BY <1>2, <1>3 DEF Sound
<1>5. Orderly(s.c)
  BY <1>2 DEF Sound, Orderly
<1> HIDE DEF s
<1>6. Step(r, s)
  BY <1>1, <1>2, <1>4, <1>5 DEF Step, Sound
<1>7. QED
  BY <1>1, <1>2, <1>6 DEF s

\* packet_disconnect leaves the entry as it was.
LEMMA FaultSound ==
  ASSUME NEW r \in Runs, Sound(r), NEW why \in Faults \ {"table corrupt"}
  PROVE  /\ Step(r, [r EXCEPT !.fault = why])
         /\ [r EXCEPT !.fault = why].c = r.c
<1> DEFINE s == [r EXCEPT !.fault = why]
<1>1. s \in Runs /\ s.c = r.c /\ s.frees = r.frees
  BY DEF Runs
<1> HIDE DEF s
<1>2. Step(r, s) /\ s.c = r.c
  BY <1>1 DEF Step, Sound
<1>3. QED
  BY <1>2 DEF s

\* channel_receive_ieof, for every type of entry.
LEMMA ReceiveIeofSound ==
  ASSUME NEW r \in Runs, Sound(r)
  PROVE  Step(r, ReceiveIeof(r)) /\ (Tight(r) => Tight(ReceiveIeof(r)))
<1> DEFINE marked == SetFlag(r, "EOF_RECEIVED")
           xfixed == IF marked.c.isx THEN CloseInput(marked) ELSE marked
           closed == IF xfixed.c.type = "OPEN" THEN xfixed ELSE CloseOutput(xfixed)
<1>1. CASE HasFlag(r, "EOF_RECEIVED")
  BY <1>1, FaultSound DEF ReceiveIeof, Faults, Tight
<1>2. CASE ~HasFlag(r, "EOF_RECEIVED")
  <2>1. Step(r, marked) /\ marked \in Runs
    BY SetReceivedSound
  <2>2. ReceiveIeof(r) = CheckTermination(closed)
    BY <1>2 DEF ReceiveIeof
  <2> HIDE DEF marked
  <2>3. Step(marked, xfixed) /\ xfixed \in Runs
    BY <2>1, CloseInputSound DEF Step, Sound
  <2> HIDE DEF xfixed
  <2>4. Step(xfixed, closed) /\ closed \in Runs
    BY <2>3, CloseOutputSound DEF Step, Sound
  <2> HIDE DEF closed
  <2>5. Step(closed, CheckTermination(closed)) /\ Tight(CheckTermination(closed))
    BY <2>4, CheckTerminationTight DEF Step
  <2>6. QED
    BY <2>1, <2>2, <2>3, <2>4, <2>5 DEF Step
<1>3. QED
  BY <1>1, <1>2

\* Clearing a buffer, or leaving X11_OPEN, changes nothing else.
LEMMA ReplacedSound ==
  ASSUME NEW r \in Runs, Sound(r), r.c.type # "FREE", NEW ch \in Channel,
         ch.type # "FREE", ch.flags = r.c.flags
  PROVE  LET s == [r EXCEPT !.c = ch]
         IN  s \in Runs /\ Sound(s) /\ s.c = ch
<1> DEFINE s == [r EXCEPT !.c = ch]
<1>1. s \in Runs /\ s.c = ch /\ s.frees = r.frees
  BY DEF Runs
<1> HIDE DEF s
<1>2. Sound(s)
  BY <1>1 DEF Sound, Orderly
<1>3. QED
  BY <1>1, <1>2 DEF s

\* channel_receive_oclosed, for every entry in use.
LEMMA ReceiveOclosedSound ==
  ASSUME NEW r \in Runs, Sound(r), r.c.type # "FREE"
  PROVE  Step(r, ReceiveOclosed(r)) /\ (Tight(r) => Tight(ReceiveOclosed(r)))
<1> DEFINE marked  == SetFlag(r, "CLOSE_RECEIVED")
           cleared == [marked EXCEPT !.c.input = << >>]
<1>1. CASE HasFlag(r, "CLOSE_RECEIVED")
  BY <1>1, FaultSound DEF ReceiveOclosed, Faults, Tight
<1>2. CASE ~HasFlag(r, "CLOSE_RECEIVED")
  <2>1. Step(r, marked) /\ marked \in Runs
    BY SetReceivedSound
  <2>2. marked.c.type # "FREE"
    BY SetReceivedSound
  <2>3. ReceiveOclosed(r) = CheckTermination(CloseInput(cleared))
    BY <1>2 DEF ReceiveOclosed
  <2>4. << >> \in Seq(Items) /\ marked.c \in Channel
    BY <2>1, EmptySeq DEF Runs
  <2> DEFINE ch == [marked.c EXCEPT !.input = << >>]
  <2>5. /\ ch \in Channel /\ ch.type = marked.c.type /\ ch.flags = marked.c.flags
        /\ ch.sock = marked.c.sock /\ ch.inst = marked.c.inst
    BY <2>4 DEF Channel
  <2>6. cleared = [marked EXCEPT !.c = ch]
    BY <2>1 DEF Runs
  <2> HIDE DEF marked, cleared, ch
  <2>7. cleared \in Runs /\ Sound(cleared) /\ cleared.c = ch
    BY <2>1, <2>2, <2>5, <2>6, ReplacedSound DEF Step
  <2> DEFINE shut == CloseInput(cleared)
  <2>8. Step(cleared, shut) /\ shut \in Runs
    BY <2>7, CloseInputSound DEF Step, Sound
  <2> HIDE DEF shut
  <2>9. Step(shut, CheckTermination(shut)) /\ Tight(CheckTermination(shut))
    BY <2>8, CheckTerminationTight DEF Step
  <2>10. ReceiveOclosed(r) = CheckTermination(shut)
    BY <2>3 DEF shut
  <2>11. QED
    BY <2>1, <2>5, <2>7, <2>8, <2>9, <2>10 DEF Step
<1>3. QED
  BY <1>1, <1>2

\* The refusal of an X11 connection keeps the entry sound, and leaves it open or free.
LEMMA RejectX11Sound ==
  ASSUME NEW r \in Runs, Sound(r), Tight(r), r.c.type # "FREE"
  PROVE  LET s == RejectX11(r)
         IN  /\ Sound(s) /\ Tight(s)
             /\ s.c.type \in {"OPEN", "FREE"}
             /\ s.c.sock = r.c.sock /\ s.c.inst = r.c.inst
<1> DEFINE ch == [r.c EXCEPT !.type = "OPEN", !.input = << >>, !.output = << >>]
           s  == [r EXCEPT !.c = ch]
           t  == CloseInput(s)
           u  == CloseOutput(t)
<1>1. << >> \in Seq(Items) /\ r.c \in Channel
  BY EmptySeq DEF Runs
<1>2. /\ ch \in Channel /\ ch.type = "OPEN" /\ ch.flags = r.c.flags
      /\ ch.sock = r.c.sock /\ ch.inst = r.c.inst
  BY <1>1 DEF Channel, ChannelTypes, LiveTypes
<1>3. RejectX11(r) = u
  BY DEF RejectX11
<1> HIDE DEF ch
<1>4. s \in Runs /\ Sound(s) /\ s.c = ch
  BY <1>2, ReplacedSound
<1>5. Tight(s)
  BY <1>2, <1>4 DEF Tight
<1> HIDE DEF s
<1>6. Step(s, t) /\ Tight(t) /\ t \in Runs
  BY <1>4, <1>5, CloseInputSound DEF Step, Sound
<1> HIDE DEF t
<1>7. Step(t, u) /\ Tight(u)
  BY <1>6, CloseOutputSound DEF Step
<1> HIDE DEF u
<1>8. QED
  BY <1>2, <1>3, <1>4, <1>6, <1>7 DEF Step

\* Where every run starts.
LEMMA RunSound ==
  ASSUME NEW ch \in Channel, ch.type # "FREE", Orderly(ch)
  PROVE  Run(ch) \in Runs /\ Sound(Run(ch)) /\ Run(ch).c = ch
         /\ Run(ch).out = << >> /\ Run(ch).frees = 0 /\ Run(ch).fault = "none"
<1>1. << >> \in Seq(Message)
  BY EmptySeq
<1>2. QED
  BY <1>1 DEF Run, Runs, Sound, Faults

-----------------------------------------------------------------------------
(* The channel table as a data structure: what storing, allocating and     *)
(* freeing entries does to the count of the entries in use and to their    *)
(* descriptors, for a table of any size.                                   *)

\* A table t of n entries of which u are counted as used.
TableInv(t, n, u) ==
  /\ n \in Nat /\ t \in [0 .. n - 1 -> Channel]
  /\ u = Cardinality(InUse(t))
  /\ \A i, j \in InUse(t) : t[i].sock = t[j].sock => i = j
  /\ \A i \in InUse(t) : Orderly(t[i]) /\ t[i].flags # Flags

\* A non-empty set of numbers has its minimum: Min is a CHOOSE.
LEMMA MinOfNaturals ==
  ASSUME NEW S \in SUBSET Nat, S # {}
  PROVE  Min(S) \in S /\ \A y \in S : Min(S) =< y
<1> DEFINE R == OpToRel(<, Nat)
<1>1. IsWellFoundedOn(R, Nat)
  BY NatLessThanWellFounded
<1>2. \A x, y \in Nat : <<y, x>> \notin R => x =< y
  <2>1. \A x, y \in Nat : y < x => <<y, x>> \in R
    BY DEF OpToRel
  <2> HIDE DEF R
  <2>2. QED
    BY <2>1, SMT
<1> HIDE DEF R
<1>3. PICK x \in S : \A y \in S : ~ (<<y, x>> \in R)
  BY <1>1, WFMin
<1>4. \A y \in S : x =< y
  <2>1. x \in Nat /\ S \subseteq Nat
    OBVIOUS
  <2>2. QED
    BY <1>2, <1>3, <2>1, Zenon
<1>5. QED
  BY <1>4 DEF Min

\* The entries in use are finitely many, and no more than the table holds.
LEMMA TableFinite ==
  ASSUME NEW t, NEW n, NEW u, TableInv(t, n, u)
  PROVE  /\ IsFiniteSet(InUse(t)) /\ InUse(t) \subseteq 0 .. n - 1
         /\ u \in Nat /\ u =< n
<1>1. InUse(t) \in SUBSET (0 .. n - 1)
  BY DEF TableInv, InUse
<1>2. IsFiniteSet(0 .. n - 1) /\ Cardinality(0 .. n - 1) = n
  BY FS_Interval DEF TableInv
<1>3. IsFiniteSet(InUse(t)) /\ Cardinality(InUse(t)) =< n
  BY <1>1, <1>2, FS_Subset
<1>4. Cardinality(InUse(t)) \in Nat
  BY <1>3, FS_CardinalityType
<1>5. QED
  BY <1>1, <1>3, <1>4 DEF TableInv

\* A flag function has left entry i as ch, freeing it or not.
LEMMA StoreInTable ==
  ASSUME NEW t, NEW n, NEW u, TableInv(t, n, u), NEW i \in InUse(t),
         NEW ch \in Channel, ch.sock = t[i].sock, Orderly(ch),
         NEW frees \in {0, 1}, frees = 1 <=> ch.type = "FREE",
         ch.flags = Flags => ch.type = "FREE"
  PROVE  TableInv([t EXCEPT ![i] = ch], n, u - frees)
<1> DEFINE s == [t EXCEPT ![i] = ch]
<1>1. n \in Nat /\ t \in [0 .. n - 1 -> Channel] /\ i \in 0 .. n - 1
  BY DEF TableInv, InUse
<1>2. /\ s \in [0 .. n - 1 -> Channel] /\ s[i] = ch
      /\ \A j \in 0 .. n - 1 : j # i => s[j] = t[j]
  BY <1>1
<1> HIDE DEF s
<1>3. InUse(s) = IF frees = 1 THEN InUse(t) \ {i} ELSE InUse(t)
  BY <1>1, <1>2 DEF InUse
<1>4. /\ IsFiniteSet(InUse(t)) /\ u \in Nat
      /\ u = Cardinality(InUse(t))
  BY TableFinite DEF TableInv
<1>5. Cardinality(InUse(t) \ {i}) = u - 1
  BY <1>4, FS_RemoveElement
<1>6. u - frees = Cardinality(InUse(s))
  BY <1>3, <1>4, <1>5
<1>7. \A j \in InUse(s) : j \in InUse(t) /\ s[j].sock = t[j].sock
  BY <1>1, <1>2, <1>3 DEF InUse
<1>8. \A j, k \in InUse(s) : s[j].sock = s[k].sock => j = k
  BY <1>7 DEF TableInv
<1>9. \A j \in InUse(s) : Orderly(s[j]) /\ s[j].flags # Flags
  BY <1>1, <1>2, <1>7 DEF TableInv, InUse
<1>10. QED
  BY <1>1, <1>2, <1>6, <1>8, <1>9 DEF TableInv, s

\* A new entry is put into a free slot, with a descriptor nobody has.
LEMMA AddToTable ==
  ASSUME NEW t, NEW n, NEW u, TableInv(t, n, u), NEW i \in 0 .. n - 1,
         t[i].type = "FREE", NEW ch \in Channel, ch.type # "FREE",
         ch.flags = {}, \A j \in InUse(t) : t[j].sock # ch.sock
  PROVE  TableInv([t EXCEPT ![i] = ch], n, u + 1)
<1> DEFINE s == [t EXCEPT ![i] = ch]
<1>1. n \in Nat /\ t \in [0 .. n - 1 -> Channel] /\ i \notin InUse(t)
  BY DEF TableInv, InUse
<1>2. /\ s \in [0 .. n - 1 -> Channel] /\ s[i] = ch
      /\ \A j \in 0 .. n - 1 : j # i => s[j] = t[j]
  BY <1>1
<1> HIDE DEF s
<1>3. InUse(s) = InUse(t) \cup {i}
  BY <1>1, <1>2 DEF InUse
<1>4. /\ IsFiniteSet(InUse(t)) /\ u = Cardinality(InUse(t))
  BY TableFinite DEF TableInv
<1>5. Cardinality(InUse(s)) = u + 1
  BY <1>1, <1>3, <1>4, FS_AddElement
<1>6. \A j \in InUse(s) : j # i => j \in InUse(t) /\ s[j] = t[j]
  BY <1>2, <1>3 DEF InUse
<1>7. \A j, k \in InUse(s) : s[j].sock = s[k].sock => j = k
  BY <1>2, <1>6 DEF TableInv
<1>8. Orderly(ch) /\ ch.flags # Flags
  BY DEF Orderly, Flags
<1>9. \A j \in InUse(s) : Orderly(s[j]) /\ s[j].flags # Flags
  BY <1>2, <1>6, <1>8 DEF TableInv
<1>10. QED
  BY <1>1, <1>2, <1>5, <1>7, <1>9 DEF TableInv, s

\* Some entries are freed at once; the others stay as they are.
LEMMA FreeFromTable ==
  ASSUME NEW t, NEW n, NEW u, TableInv(t, n, u), NEW gone \in SUBSET InUse(t),
         NEW s \in [0 .. n - 1 -> Channel],
         \A i \in 0 .. n - 1 : IF i \in gone THEN s[i].type = "FREE"
                               ELSE s[i] = t[i]
  PROVE  TableInv(s, n, u - Cardinality(gone)) /\ u - Cardinality(gone) \in Nat
<1>1. n \in Nat /\ t \in [0 .. n - 1 -> Channel]
  BY DEF TableInv
<1>2. InUse(s) = InUse(t) \ gone
  BY <1>1 DEF InUse
<1>3. IsFiniteSet(InUse(t)) /\ u = Cardinality(InUse(t))
  BY TableFinite DEF TableInv
<1>4. InUse(t) \cap gone = gone
  OBVIOUS
<1>5. Cardinality(InUse(s)) = u - Cardinality(gone)
  BY <1>2, <1>3, <1>4, FS_Difference
<1>6. IsFiniteSet(InUse(s))
  BY <1>2, <1>3, FS_Difference
<1>7. Cardinality(InUse(s)) \in Nat
  BY <1>6, FS_CardinalityType
<1>8. \A j \in InUse(s) : j \in InUse(t) /\ s[j] = t[j]
  BY <1>1, <1>2 DEF InUse
<1>9. QED
  BY <1>1, <1>5, <1>7, <1>8 DEF TableInv

\* Entries are appended that have never been used.
LEMMA GrowTable ==
  ASSUME NEW t, NEW n, NEW u, TableInv(t, n, u), NEW m \in Nat, n =< m,
         NEW s \in [0 .. m - 1 -> Channel],
         \A i \in 0 .. m - 1 : IF i < n THEN s[i] = t[i] ELSE s[i].type = "FREE"
  PROVE  TableInv(s, m, u) /\ InUse(s) = InUse(t)
<1>1. n \in Nat /\ t \in [0 .. n - 1 -> Channel]
  BY DEF TableInv
<1>2. InUse(s) = InUse(t)
  BY <1>1 DEF InUse
<1>3. \A j \in InUse(s) : s[j] = t[j]
  BY <1>1, <1>2 DEF InUse
<1>4. QED
  BY <1>2, <1>3 DEF TableInv

\* If not every entry is in use there is a free one.
LEMMA SlotLeft ==
  ASSUME NEW t, NEW n, NEW u, TableInv(t, n, u), u # n
  PROVE  \E i \in 0 .. n - 1 : t[i].type = "FREE"
<1>1. SUFFICES ASSUME \A i \in 0 .. n - 1 : t[i].type # "FREE"
               PROVE  FALSE
  OBVIOUS
<1>2. n \in Nat /\ InUse(t) = 0 .. n - 1
  BY <1>1 DEF InUse, TableInv
<1>3. Cardinality(0 .. n - 1) = n
  BY <1>2, FS_Interval
<1>4. QED
  BY <1>2, <1>3 DEF TableInv

-----------------------------------------------------------------------------
(* The tables of both ends.                                                *)

\* The inductive invariant, in parts that the actions disturb separately.
TablesOK ==
  /\ tbl = [e \in Ends |-> tbl[e]]
  /\ alloc \in [Ends -> Nat]
  /\ used  \in [Ends -> Nat]
  /\ fault \in [Ends -> Faults \ {"table corrupt"}]
  /\ \A e \in Ends : TableInv(tbl[e], alloc[e], used[e])

LoopOK ==
  /\ at   \in [Ends -> Positions]
  /\ rset \in [Ends -> SUBSET Sockets]
  /\ wset \in [Ends -> SUBSET Sockets]

NetOK == net \in [Ends -> Seq(Message)]

Records ==
  [Instances \cup {0} ->
     [Ends -> [read : Nat, wrote : Nat, shut : Reasons]]]
HistoryOK == opened \in 0 .. MaxOpens /\ hist \in Records

IInv == TablesOK /\ LoopOK /\ NetOK /\ HistoryOK

-----------------------------------------------------------------------------
(* Pieces of the actions.                                                  *)

\* There are two ends.
LEMMA PeerIsEnd ==
  ASSUME NEW e \in Ends
  PROVE  Peer(e) \in Ends /\ Peer(e) # e
BY DEF Peer, Ends

\* Sending packets keeps the connection well typed.
LEMMA EmitOK ==
  ASSUME NetOK, NEW e \in Ends, NEW out \in Seq(Message), Emit(e, out)
  PROVE  NetOK'
<1>1. net[Peer(e)] \o out \in Seq(Message)
  BY PeerIsEnd, ConcatProperties DEF NetOK
<1>2. QED
  BY <1>1, PeerIsEnd DEF NetOK, Emit

\* Receiving a packet, and answering it, keeps the connection well typed.
LEMMA ReceiveOK ==
  ASSUME NetOK, NEW e \in Ends, NEW out \in Seq(Message), net[e] # << >>,
         Receive(e, out)
  PROVE  NetOK' /\ Head(net[e]) \in Message
<1>1. net[e] \in Seq(Message) /\ net[Peer(e)] \in Seq(Message)
  BY PeerIsEnd DEF NetOK
<1>2. Tail(net[e]) \in Seq(Message) /\ Head(net[e]) \in Message
  BY <1>1, HeadTailProperties
<1>3. net[Peer(e)] \o out \in Seq(Message)
  BY <1>1, ConcatProperties
<1>4. net' = [net EXCEPT ![e] = Tail(net[e]), ![Peer(e)] = net[Peer(e)] \o out]
  BY PeerIsEnd DEF Receive, NetOK
<1>5. QED
  BY <1>2, <1>3, <1>4, PeerIsEnd DEF NetOK

\* The loops over the table stand at a slot or go on to the next loop.
LEMMA FromPosition ==
  ASSUME NEW n \in Nat, NEW t \in [0 .. n - 1 -> Channel], NEW k,
         NEW phase \in {"poll", "prepare", "after"}, NEW next \in Positions
  PROVE  From(phase, k, t, next) \in Positions
<1> DEFINE todo == {i \in DOMAIN t : i >= k /\ Looks(phase, t[i])}
<1>1. todo \in SUBSET Nat
  OBVIOUS
<1>2. From(phase, k, t, next) =
        IF todo = {} THEN next ELSE [phase |-> phase, slot |-> Min(todo)]
  BY DEF From
<1> HIDE DEF todo
<1>3. todo # {} => Min(todo) \in Nat
  BY <1>1, MinOfNaturals
<1>4. QED
  BY <1>2, <1>3 DEF Positions

\* Wherever the loops go next is a position.
LEMMA NextPositions ==
  ASSUME NEW n \in Nat, NEW t \in [0 .. n - 1 -> Channel], NEW k
  PROVE  /\ Packets \in Positions
         /\ AfterFrom(k, t) \in Positions
         /\ PrepareFrom(k, t) \in Positions
         /\ PollFrom(k, t) \in Positions
<1>1. Packets \in Positions
  BY DEF Packets, Positions
<1>2. \A j : AfterFrom(j, t) \in Positions
  BY <1>1, FromPosition DEF AfterFrom
<1>3. \A j : PrepareFrom(j, t) \in Positions
  BY <1>2, FromPosition DEF PrepareFrom
<1>4. QED
  BY <1>1, <1>2, <1>3, FromPosition DEF PollFrom

\* Moving on in a pass keeps the loop's variables well typed.
LEMMA MoveOK ==
  ASSUME LoopOK, NEW e \in Ends, NEW pos \in Positions,
         NEW rs \in SUBSET Sockets, NEW ws \in SUBSET Sockets,
         Move(e, pos, rs, ws)
  PROVE  LoopOK'
BY DEF LoopOK, Move

\* The descriptor the kernel gives is not one of an entry in use.
LEMMA FreshSock ==
  ASSUME TablesOK, NEW e \in Ends
  PROVE  /\ NewSock(e) \in Nat
         /\ \A j \in InUse(tbl[e]) : tbl[e][j].sock # NewSock(e)
<1> DEFINE T == InUse(tbl[e])
           S == 0 .. alloc[e]
           taken == {tbl[e][i].sock : i \in T}
           f == [x \in S |-> CHOOSE i \in T : tbl[e][i].sock = x]
<1>1. /\ IsFiniteSet(T) /\ Cardinality(T) =< alloc[e] /\ alloc[e] \in Nat
      /\ Cardinality(T) \in Nat
  BY TableFinite DEF TablesOK, TableInv
<1>2. IsFiniteSet(S) /\ Cardinality(S) = alloc[e] + 1
  BY <1>1, FS_Interval
<1>3. S \ taken # {}
  <2>1. SUFFICES ASSUME S \subseteq taken PROVE FALSE
    OBVIOUS
  <2>2. \A x \in S : f[x] \in T /\ tbl[e][f[x]].sock = x
    BY <2>1
  <2>3. f \in [S -> T]
    BY <2>2
  <2>4. Cardinality(T) < Cardinality(S)
    BY <1>1, <1>2
  <2> HIDE DEF S, T, f
  <2>5. \E x, y \in S : x # y /\ f[x] = f[y]
    BY <1>1, <1>2, <2>3, <2>4, FS_PigeonHole
  <2>6. QED
    BY <2>2, <2>5
<1>4. S \ taken \in SUBSET Nat
  BY <1>1
<1>5. NewSock(e) = Min(S \ taken)
  BY DEF NewSock
<1> HIDE DEF S, taken
<1>6. NewSock(e) \in S \ taken /\ NewSock(e) \in Nat
  BY <1>3, <1>4, <1>5, MinOfNaturals
<1>7. QED
  BY <1>6 DEF taken

\* channel_allocate finds a slot: the table grows when it is full.
LEMMA SlotFound ==
  ASSUME TablesOK, NEW e \in Ends
  PROVE  /\ NewAlloc(e) \in Nat
         /\ TableInv(Grown(e), NewAlloc(e), used[e])
         /\ InUse(Grown(e)) = InUse(tbl[e])
         /\ \A j \in InUse(tbl[e]) : Grown(e)[j] = tbl[e][j]
         /\ FreeSlots(e) # {}
         /\ NewSlot(e) \in 0 .. NewAlloc(e) - 1
         /\ Grown(e)[NewSlot(e)].type = "FREE"
<1> DEFINE n == alloc[e]
           m == NewAlloc(e)
<1>1. n \in Nat /\ tbl[e] \in [0 .. n - 1 -> Channel]
      /\ TableInv(tbl[e], n, used[e]) /\ used[e] \in Nat /\ used[e] =< n
  BY TableFinite DEF TablesOK, TableInv
<1>2. /\ m \in Nat /\ n =< m
      /\ Full(e) => n < m
  BY <1>1, BoundsAssumption DEF NewAlloc, Full
<1>3. BlankChannel \in Channel /\ BlankChannel.type = "FREE"
  <2>1. << >> \in Seq(Items)
    BY EmptySeq
  <2>2. QED
    BY <2>1 DEF BlankChannel, Channel, ChannelTypes, Sockets, Ids
<1>4. /\ Grown(e) \in [0 .. m - 1 -> Channel]
      /\ \A i \in 0 .. m - 1 : IF i < n THEN Grown(e)[i] = tbl[e][i]
                               ELSE Grown(e)[i].type = "FREE"
  BY <1>1, <1>2, <1>3 DEF Grown
<1> HIDE DEF n, m
<1>5. TableInv(Grown(e), m, used[e]) /\ InUse(Grown(e)) = InUse(tbl[e])
  BY SMTT(60), <1>1, <1>2, <1>4, GrowTable
<1>6. \A j \in InUse(tbl[e]) : Grown(e)[j] = tbl[e][j]
  BY <1>1, <1>2, <1>4 DEF InUse
<1>7. FreeSlots(e) \in SUBSET Nat /\ FreeSlots(e) \subseteq 0 .. m - 1
      /\ \A i \in FreeSlots(e) : Grown(e)[i].type = "FREE"
  BY <1>2 DEF FreeSlots, m
<1>8. FreeSlots(e) # {}
  <2>1. CASE Full(e)
    <3>1. used[e] = n
      BY <2>1 DEF Full, n
    <3>2. n \in 0 .. m - 1 /\ Grown(e)[n].type = "FREE"
      BY <1>1, <1>2, <1>4, <2>1
    <3>3. n \in FreeSlots(e)
      BY <1>1, <3>1, <3>2 DEF FreeSlots, m, n
    <3>4. QED
      BY <3>3
  <2>2. CASE ~Full(e)
    <3>1. used[e] # n
      BY <2>2 DEF Full, n
    <3>2. PICK i \in 0 .. n - 1 : tbl[e][i].type = "FREE"
      BY <1>1, <3>1, SlotLeft
    <3>3. i \in 0 .. m - 1 /\ Grown(e)[i].type = "FREE"
      BY <1>1, <1>2, <1>4, <3>2
    <3>4. i \in FreeSlots(e)
      BY <2>2, <3>3 DEF FreeSlots, m
    <3>5. QED
      BY <3>4
  <2>3. QED
    BY <2>1, <2>2
<1>9. NewSlot(e) \in FreeSlots(e)
  BY <1>7, <1>8, MinOfNaturals DEF NewSlot
<1>10. QED
  BY <1>2, <1>5, <1>6, <1>7, <1>8, <1>9 DEF m

\* Only the entries of end e, their count and e's fault have changed, and well.
LEMMA TablesChanged ==
  ASSUME TablesOK, NEW e \in Ends, NEW t, NEW n \in Nat, NEW u \in Nat,
         NEW why \in Faults \ {"table corrupt"}, TableInv(t, n, u),
         tbl' = [tbl EXCEPT ![e] = t], alloc' = [alloc EXCEPT ![e] = n],
         used' = [used EXCEPT ![e] = u], fault' = [fault EXCEPT ![e] = why]
  PROVE  TablesOK'
BY DEF TablesOK

\* channel_allocate keeps the tables consistent, grown or not, and stores the
\* new entry in the slot it found.
LEMMA AllocateOK ==
  ASSUME TablesOK, NEW e \in Ends, NEW ch \in Channel, ch.type # "FREE",
         ch.flags = {}, ch.sock = NewSock(e), AllocateIn(e, ch)
  PROVE  /\ TablesOK'
         /\ tbl' = [tbl EXCEPT ![e] = [Grown(e) EXCEPT ![NewSlot(e)] = ch]]
<1> DEFINE t == [Grown(e) EXCEPT ![NewSlot(e)] = ch]
<1>1. Allocated(e, ch) = t /\ FreeSlots(e) # {}
  BY SlotFound DEF Allocated
<1>2. \A j \in InUse(Grown(e)) : Grown(e)[j].sock # ch.sock
  BY SlotFound, FreshSock
<1>3. TableInv(t, NewAlloc(e), used[e] + 1)
  BY <1>2, SlotFound, AddToTable
<1>4. used[e] + 1 \in Nat /\ NewAlloc(e) \in Nat
  <2>1. used[e] \in Nat
    BY DEF TablesOK
  <2>2. NewAlloc(e) \in Nat
    BY SlotFound
  <2>3. QED
    BY <2>1, <2>2
<1>5. /\ tbl'   = [tbl EXCEPT ![e] = t]
      /\ alloc' = [alloc EXCEPT ![e] = NewAlloc(e)]
      /\ used'  = [used EXCEPT ![e] = used[e] + 1]
      /\ fault' = [fault EXCEPT ![e] = "none"]
  BY <1>1 DEF AllocateIn, TablesOK
<1>6. "none" \in Faults \ {"table corrupt"}
  BY DEF Faults
<1> HIDE DEF t
<1>7. QED
  BY <1>3, <1>4, <1>5, <1>6, TablesChanged DEF t

\* The update of one entry, as Store and WriteError write it.
LEMMA EntryStored ==
  ASSUME TablesOK, NEW e \in Ends, NEW i \in InUse(tbl[e]), NEW r,
         r \in Runs, Orderly(r.c), r.frees = 1 <=> r.c.type = "FREE", Tight(r),
         r.c.sock = tbl[e][i].sock,
         alloc' = alloc, tbl' = [tbl EXCEPT ![e][i] = r.c],
         used' = [used EXCEPT ![e] = @ - r.frees],
         fault' = [fault EXCEPT ![e] = r.fault]
  PROVE  TablesOK'
<1> DEFINE t == [tbl[e] EXCEPT ![i] = r.c]
           u == used[e] - r.frees
<1>1. r.c \in Channel /\ r.frees \in {0, 1} /\ Orderly(r.c)
      /\ r.fault \in Faults \ {"table corrupt"}
      /\ (r.frees = 1 <=> r.c.type = "FREE")
      /\ (r.c.flags = Flags => r.c.type = "FREE")
  BY DEF Runs, Tight
<1>2. TableInv(tbl[e], alloc[e], used[e])
  BY DEF TablesOK
<1>3. TableInv(t, alloc[e], u)
  BY <1>1, <1>2, StoreInTable
<1>4. u \in Nat /\ alloc[e] \in Nat
  BY <1>3, TableFinite DEF TablesOK
<1>5. /\ tbl' = [tbl EXCEPT ![e] = t]
      /\ used' = [used EXCEPT ![e] = u]
      /\ alloc' = [alloc EXCEPT ![e] = alloc[e]]
  BY DEF TablesOK
<1> HIDE DEF t, u
<1>6. QED
  BY <1>1, <1>3, <1>4, <1>5, TablesChanged

\* The history of a connection stays well typed.
LEMMA NoteOK ==
  ASSUME NEW h \in Records, NEW i, NEW e \in Ends, NEW why \in Reasons
  PROVE  [h EXCEPT ![i][e].shut = why] \in Records
<1>1. CASE i \in Instances \cup {0}
  <2>1. [h[i][e] EXCEPT !.shut = why]
          \in [read : Nat, wrote : Nat, shut : Reasons]
    BY <1>1 DEF Records
  <2>2. [h[i] EXCEPT ![e] = [h[i][e] EXCEPT !.shut = why]]
          \in [Ends -> [read : Nat, wrote : Nat, shut : Reasons]]
    BY <1>1, <2>1 DEF Records
  <2>3. QED
    BY <1>1, <2>2 DEF Records
<1>2. CASE i \notin Instances \cup {0}
  BY <1>2 DEF Records
<1>3. QED
  BY <1>1, <1>2

\* Storing what a run of the flag functions made of an entry keeps the tables consistent.
LEMMA StoreOK ==
  ASSUME TablesOK, HistoryOK, NEW e \in Ends, NEW i \in InUse(tbl[e]), NEW r,
         Sound(r), Tight(r), r.c.sock = tbl[e][i].sock,
         NEW why \in Reasons, Store(e, i, r, why), alloc' = alloc,
         opened' = opened
  PROVE  TablesOK' /\ HistoryOK'
<1>1. TablesOK'
  BY EntryStored DEF Store, Sound
<1>2. hist \in Records
  BY DEF HistoryOK
<1>3. hist' \in Records
  <2>1. [hist EXCEPT ![r.c.inst][e].shut = why] \in Records
    BY <1>2, NoteOK
  <2>2. QED
    BY <1>2, <2>1 DEF Store
<1>4. QED
  BY <1>1, <1>3 DEF HistoryOK

\* Entries change that stay in use, keeping their descriptor and flags.
LEMMA EntryChanged ==
  ASSUME TablesOK, NEW e \in Ends, NEW i \in InUse(tbl[e]), NEW ch \in Channel,
         ch.type # "FREE", ch.sock = tbl[e][i].sock, ch.flags = tbl[e][i].flags,
         UNCHANGED <<alloc, used, fault>>, tbl' = [tbl EXCEPT ![e][i] = ch]
  PROVE  TablesOK'
<1> DEFINE t == [tbl[e] EXCEPT ![i] = ch]
<1>1. TableInv(tbl[e], alloc[e], used[e])
  BY DEF TablesOK
<1>2. Orderly(ch) /\ ch.flags # Flags
  BY <1>1 DEF TableInv, Orderly
<1>3. TableInv(t, alloc[e], used[e] - 0)
  BY <1>1, <1>2, StoreInTable
<1>4. used[e] - 0 = used[e]
  <2>1. used[e] \in Nat
    BY DEF TablesOK
  <2>2. QED
    BY <2>1
<1>5. tbl' = [tbl EXCEPT ![e] = t]
  BY DEF TablesOK
<1> HIDE DEF t
<1>6. QED
  BY <1>3, <1>4, <1>5 DEF TablesOK

\* The process died; its table is as it was.
LEMMA DieOK ==
  ASSUME TablesOK, NEW e \in Ends, NEW why \in Faults \ {"table corrupt"},
         Die(e, why), UNCHANGED <<tbl, alloc, used>>
  PROVE  TablesOK'
BY DEF TablesOK, Die

\* What a run can start from.
LEMMA EntryInUse ==
  ASSUME TablesOK, NEW e \in Ends, NEW i \in DOMAIN tbl[e],
         tbl[e][i].type # "FREE"
  PROVE  /\ i \in InUse(tbl[e]) /\ tbl[e][i] \in Channel
         /\ Orderly(tbl[e][i]) /\ tbl[e][i].flags # Flags
         /\ Run(tbl[e][i]) \in Runs /\ Sound(Run(tbl[e][i]))
         /\ Tight(Run(tbl[e][i])) /\ Run(tbl[e][i]).c = tbl[e][i]
         /\ Run(tbl[e][i]).out = << >>
<1>1. TableInv(tbl[e], alloc[e], used[e])
  BY DEF TablesOK
<1>2. i \in InUse(tbl[e]) /\ tbl[e][i] \in Channel
      /\ Orderly(tbl[e][i]) /\ tbl[e][i].flags # Flags
  BY <1>1 DEF TableInv, InUse
<1>3. QED
  BY <1>2, RunSound DEF Tight

\* What the flag functions make of an entry in use can be stored.
LEMMA RunStored ==
  ASSUME TablesOK, HistoryOK, NEW e \in Ends, NEW i \in InUse(tbl[e]), NEW r,
         Step(Run(tbl[e][i]), r), Tight(r), NEW why \in Reasons,
         Store(e, i, r, why), UNCHANGED <<alloc, opened>>
  PROVE  TablesOK' /\ HistoryOK' /\ r.out \in Seq(Message)
<1>1. Run(tbl[e][i]).c = tbl[e][i]
  BY DEF Run
<1>2. Sound(r) /\ r.c.sock = tbl[e][i].sock
  BY <1>1 DEF Step
<1>3. r.out \in Seq(Message)
  BY <1>2 DEF Sound, Runs
<1>4. QED
  BY <1>2, <1>3, StoreOK

\* A sequence of one packet.
LEMMA OnePacket ==
  ASSUME NEW kind \in Kinds, NEW chan \in Ids, NEW from \in Ids,
         NEW target \in Targets \cup {NoTarget}, NEW data \in Seq(Items),
         NEW inst \in Instances \cup {0}
  PROVE  <<Packet(kind, chan, from, target, data, inst)>> \in Seq(Message)
<1>1. Packet(kind, chan, from, target, data, inst) \in Message
  BY DEF Packet, Message
<1>2. QED
  BY <1>1

\* The positions reached from the table as it is ...
LEMMA TablePositions ==
  ASSUME TablesOK, NEW e \in Ends, NEW k
  PROVE  /\ AfterFrom(k, tbl[e]) \in Positions
         /\ PrepareFrom(k, tbl[e]) \in Positions
         /\ PollFrom(k, tbl[e]) \in Positions
<1>1. alloc[e] \in Nat /\ tbl[e] \in [0 .. alloc[e] - 1 -> Channel]
  BY DEF TablesOK, TableInv
<1>2. QED
  BY <1>1, NextPositions

\* ... and as it is after the step.
LEMMA TablePositionsNext ==
  ASSUME TablesOK', NEW e \in Ends, NEW k
  PROVE  /\ AfterFrom(k, tbl'[e]) \in Positions
         /\ PrepareFrom(k, tbl'[e]) \in Positions
         /\ PollFrom(k, tbl'[e]) \in Positions
<1>1. alloc'[e] \in Nat /\ tbl'[e] \in [0 .. alloc'[e] - 1 -> Channel]
  BY DEF TablesOK, TableInv
<1>2. QED
  BY <1>1, NextPositions

\* A refused channel goes whatever its flags: the entry is not checked for
\* all six, unlike those the flag functions end.
LEMMA OpeningFreed ==
  ASSUME TablesOK, NEW e \in Ends, NEW i \in InUse(tbl[e]),
         alloc' = alloc,
         tbl' = [tbl EXCEPT ![e][i] = ChannelFree(Run(tbl[e][i])).c],
         used' = [used EXCEPT ![e] = @ - ChannelFree(Run(tbl[e][i])).frees],
         fault' = [fault EXCEPT ![e] = ChannelFree(Run(tbl[e][i])).fault]
  PROVE  TablesOK'
<1> DEFINE r == ChannelFree(Run(tbl[e][i]))
<1>1. i \in DOMAIN tbl[e] /\ tbl[e][i].type # "FREE"
  BY DEF InUse
<1>2. /\ tbl[e][i] \in Channel /\ Orderly(tbl[e][i])
      /\ Run(tbl[e][i]) \in Runs /\ Run(tbl[e][i]).c = tbl[e][i]
  BY <1>1, EntryInUse
<1>3. Run(tbl[e][i]).frees = 0 /\ Run(tbl[e][i]).fault = "none"
  BY DEF Run
<1>4. /\ r \in Runs /\ r.c.type = "FREE" /\ r.c.flags = tbl[e][i].flags
      /\ r.c.sock = tbl[e][i].sock /\ r.frees = 1
  BY <1>1, <1>2, <1>3, ChannelFreeShape
<1>5. Orderly(r.c) /\ Tight(r)
  BY <1>2, <1>4 DEF Orderly, Tight
<1> HIDE DEF r
<1>6. QED
  BY <1>4, <1>5, EntryStored DEF r

-----------------------------------------------------------------------------
(* The packet handlers.                                                    *)

\* An accepted open request (channel_input_port_open and its kin).
LEMMA AcceptOpenOK ==
  ASSUME IInv, NEW e \in Ends, NEW kind \in OpenKinds, AcceptOpen(e, kind)
  PROVE  IInv'
<1> DEFINE m  == Head(net[e])
           ch == [BlankChannel EXCEPT
               !.type  = IF kind = "X11_OPEN" /\ Spoof THEN "X11_OPEN" ELSE "OPEN",
               !.sock  = NewSock(e), !.rid = m.chan,
               !.isx   = (kind = "X11_OPEN"), !.inst = m.inst]
           out == <<Packet("OPEN_CONFIRMATION", m.chan, NewSlot(e),
                           NoTarget, << >>, m.inst)>>
<1>1. net[e] # << >> /\ AllocateIn(e, ch) /\ Receive(e, out)
  BY DEF AcceptOpen, Arrived
<1>2. m \in Message
  <2>1. net[e] \in Seq(Message)
    BY DEF IInv, NetOK
  <2>2. QED
    BY <1>1, <2>1, HeadTailProperties
<1>3. m.chan \in Ids /\ m.inst \in Instances \cup {0}
  BY <1>2 DEF Message
<1>4. << >> \in Seq(Items)
  BY EmptySeq
<1>5. NewSock(e) \in Nat /\ NewSlot(e) \in Nat
  BY FreshSock, SlotFound DEF IInv
<1> HIDE DEF m
<1>6. /\ ch \in Channel /\ ch.type # "FREE" /\ ch.flags = {}
      /\ ch.sock = NewSock(e)
  BY <1>3, <1>4, <1>5 DEF Channel, BlankChannel, ChannelTypes, LiveTypes, Sockets
<1>7. out \in Seq(Message)
  BY <1>3, <1>4, <1>5, OnePacket DEF Kinds, Ids
<1> HIDE DEF ch, out
<1>8. TablesOK'
  BY <1>1, <1>6, AllocateOK DEF IInv
<1>9. NetOK'
  BY <1>1, <1>7, ReceiveOK DEF IInv
<1>10. LoopOK' /\ HistoryOK'
  BY DEF IInv, LoopOK, HistoryOK, AcceptOpen
<1>11. QED
  BY <1>8, <1>9, <1>10 DEF IInv

\* A refused one.
LEMMA RefuseOpenOK ==
  ASSUME IInv, NEW e \in Ends, NEW kind \in OpenKinds, RefuseOpen(e, kind)
  PROVE  IInv'
<1> DEFINE m   == Head(net[e])
           out == <<Packet("OPEN_FAILURE", m.chan, NoId, NoTarget, << >>,
                           m.inst)>>
<1>1. net[e] # << >> /\ Receive(e, out)
  BY DEF RefuseOpen, Arrived
<1>2. m \in Message
  <2>1. net[e] \in Seq(Message)
    BY DEF IInv, NetOK
  <2>2. QED
    BY <1>1, <2>1, HeadTailProperties
<1>3. m.chan \in Ids /\ m.inst \in Instances \cup {0}
  BY <1>2 DEF Message
<1>4. << >> \in Seq(Items)
  BY EmptySeq
<1> HIDE DEF m
<1>5. out \in Seq(Message)
  BY <1>3, <1>4, OnePacket DEF Kinds, Ids
<1> HIDE DEF out
<1>6. NetOK'
  BY <1>1, <1>5, ReceiveOK DEF IInv
<1>7. TablesOK' /\ LoopOK' /\ HistoryOK'
  BY DEF IInv, TablesOK, LoopOK, HistoryOK, RefuseOpen
<1>8. QED
  BY <1>6, <1>7 DEF IInv

\* The message a handler reads, and what it costs to have read it.
LEMMA Received ==
  ASSUME IInv, NEW e \in Ends, NEW kind, Arrived(e, kind)
  PROVE  /\ net[e] # << >> /\ Head(net[e]) \in Message
         /\ Receive(e, << >>) => NetOK'
<1>1. net[e] # << >> /\ net[e] \in Seq(Message)
  BY DEF Arrived, IInv, NetOK
<1>2. << >> \in Seq(Message)
  BY EmptySeq
<1>3. QED
  BY <1>1, <1>2, HeadTailProperties, ReceiveOK DEF IInv

\* channel_input_open_confirmation.
LEMMA InputOpenConfirmationOK ==
  ASSUME IInv, NEW e \in Ends, InputOpenConfirmation(e)
  PROVE  IInv'
<1> DEFINE m  == Head(net[e])
           i  == m.chan
           ok == m.chan \in DOMAIN tbl[e] /\ tbl[e][m.chan].type = "OPENING"
           ch == [tbl[e][i] EXCEPT !.rid = m.from, !.type = "OPEN"]
<1>1. m \in Message /\ NetOK'
  BY Received DEF InputOpenConfirmation
<1>2. LoopOK' /\ HistoryOK'
  BY DEF IInv, LoopOK, HistoryOK, InputOpenConfirmation
<1>3. CASE ok
  <2>1. i \in InUse(tbl[e]) /\ tbl[e][i] \in Channel
    BY <1>3, EntryInUse DEF IInv
  <2>2. /\ ch \in Channel /\ ch.type # "FREE" /\ ch.sock = tbl[e][i].sock
        /\ ch.flags = tbl[e][i].flags
    BY <1>1, <2>1 DEF Channel, Message, ChannelTypes, LiveTypes
  <2>3. tbl' = [tbl EXCEPT ![e][i] = ch] /\ UNCHANGED <<alloc, used, fault>>
    BY <1>3 DEF InputOpenConfirmation
  <2> HIDE DEF ch, i
  <2>4. TablesOK'
    BY <2>1, <2>2, <2>3, EntryChanged DEF IInv
  <2>5. QED
    BY <1>1, <1>2, <2>4 DEF IInv
<1>4. CASE ~ok
  <2>1. Die(e, "not opening") /\ UNCHANGED <<tbl, alloc, used>>
    BY <1>4 DEF InputOpenConfirmation
  <2>2. TablesOK'
    BY <2>1, DieOK DEF IInv, Faults
  <2>3. QED
    BY <1>1, <1>2, <2>2 DEF IInv
<1>5. QED
  BY <1>3, <1>4

\* channel_input_open_failure.
LEMMA InputOpenFailureOK ==
  ASSUME IInv, NEW e \in Ends, InputOpenFailure(e)
  PROVE  IInv'
<1> DEFINE m  == Head(net[e])
           i  == m.chan
           ok == m.chan \in DOMAIN tbl[e] /\ tbl[e][m.chan].type = "OPENING"
           r  == ChannelFree(Run(tbl[e][i]))
<1>1. m \in Message /\ NetOK'
  BY Received DEF InputOpenFailure
<1>2. LoopOK' /\ opened' = opened /\ alloc' = alloc
  BY DEF IInv, LoopOK, InputOpenFailure
<1>3. CASE ok
  <2>1. i \in InUse(tbl[e]) /\ tbl[e][i] \in Channel /\ Store(e, i, r, "no")
    BY <1>3, EntryInUse DEF IInv, InputOpenFailure
  <2> HIDE DEF i
  <2>2. TablesOK'
    BY <1>2, <2>1, OpeningFreed DEF IInv, Store
  <2>3. HistoryOK'
    <3>1. hist' \in Records
      <4>1. [hist EXCEPT ![r.c.inst][e].shut = "no"] \in Records
        BY NoteOK DEF IInv, HistoryOK, Reasons
      <4>2. QED
        BY <2>1, <4>1 DEF IInv, HistoryOK, Store
    <3>2. QED
      BY <1>2, <3>1 DEF IInv, HistoryOK
  <2>4. QED
    BY <1>1, <1>2, <2>2, <2>3 DEF IInv
<1>4. CASE ~ok
  <2>1. Die(e, "not opening") /\ UNCHANGED <<tbl, alloc, used, hist>>
    BY <1>4 DEF InputOpenFailure
  <2>2. TablesOK'
    BY <2>1, DieOK DEF IInv, Faults
  <2>3. HistoryOK'
    BY <1>2, <2>1 DEF IInv, HistoryOK
  <2>4. QED
    BY <1>1, <1>2, <2>2, <2>3 DEF IInv
<1>5. QED
  BY <1>3, <1>4

\* channel_input_data.
LEMMA InputDataOK ==
  ASSUME IInv, NEW e \in Ends, InputData(e)
  PROVE  IInv'
<1> DEFINE m  == Head(net[e])
           i  == m.chan
           live == tbl[e][i].type \in {"OPEN", "X11_OPEN"}
           ch == [tbl[e][i] EXCEPT !.output = @ \o m.data]
<1>1. m \in Message /\ NetOK'
  BY Received DEF InputData
<1>2. LoopOK' /\ HistoryOK' /\ UNCHANGED <<alloc, used>>
  BY DEF IInv, LoopOK, HistoryOK, InputData
<1>3. CASE UNCHANGED <<tbl, fault>>
  BY <1>1, <1>2, <1>3 DEF IInv, TablesOK
<1>4. CASE UNCHANGED tbl /\ \E why \in Faults \ {"table corrupt"} : Die(e, why)
  BY <1>1, <1>2, <1>4, DieOK DEF IInv
<1>5. CASE /\ Exists(e, i) /\ live /\ UNCHANGED fault
           /\ tbl' = [tbl EXCEPT ![e][i].output = @ \o m.data]
  <2>1. i \in InUse(tbl[e]) /\ tbl[e][i] \in Channel
    BY <1>5, EntryInUse DEF IInv, Exists
  <2>2. tbl[e][i].output \o m.data \in Seq(Items)
    BY <1>1, <2>1, ConcatProperties DEF Channel, Message
  <2>3. /\ ch \in Channel /\ ch.type # "FREE" /\ ch.sock = tbl[e][i].sock
        /\ ch.flags = tbl[e][i].flags
    BY <1>5, <2>1, <2>2 DEF Channel
  <2>4. tbl' = [tbl EXCEPT ![e][i] = ch]
    BY <1>5
  <2>5. TablesOK /\ UNCHANGED <<alloc, used, fault>>
    BY <1>2, <1>5 DEF IInv
  <2> HIDE DEF ch, i
  <2>6. TablesOK'
    BY <2>1, <2>3, <2>4, <2>5, EntryChanged
  <2>7. QED
    BY <1>1, <1>2, <2>6 DEF IInv
<1>6. QED
  <2>1. "nonexistent channel" \in Faults \ {"table corrupt"}
        /\ "data after eof" \in Faults \ {"table corrupt"}
    BY DEF Faults
  <2>2. QED
    BY <1>3, <1>4, <1>5, <2>1 DEF InputData

\* channel_ieof and channel_oclosed.
LEMMA InputCloseOK ==
  ASSUME IInv, NEW e \in Ends, InputEof(e) \/ OutputClosed(e)
  PROVE  IInv'
<1> DEFINE m == Head(net[e])
           i == m.chan
           r == IF InputEof(e) THEN ReceiveIeof(Run(tbl[e][i]))
                ELSE ReceiveOclosed(Run(tbl[e][i]))
<1>1. m \in Message /\ net[e] # << >> /\ (Receive(e, << >>) => NetOK')
  BY Received DEF InputEof, OutputClosed, InputClose, RunOfHead
<1>2. LoopOK' /\ opened' = opened /\ alloc' = alloc
  BY DEF IInv, LoopOK, InputEof, OutputClosed, InputClose
<1>3. CASE Exists(e, i)
  <2>1. /\ i \in InUse(tbl[e]) /\ tbl[e][i].type # "FREE"
        /\ Run(tbl[e][i]) \in Runs /\ Sound(Run(tbl[e][i]))
        /\ Tight(Run(tbl[e][i])) /\ Run(tbl[e][i]).c = tbl[e][i]
    BY <1>3, EntryInUse DEF IInv, Exists
  <2>2. Step(Run(tbl[e][i]), r) /\ Tight(r)
    BY <2>1, ReceiveIeofSound, ReceiveOclosedSound
  <2>3. Receive(e, r.out) /\ \E why \in Reasons : Store(e, i, r, why)
    BY <1>3 DEF InputEof, OutputClosed, InputClose, RunOfHead, Reasons
  <2> HIDE DEF r, i
  <2>4. TablesOK' /\ HistoryOK' /\ r.out \in Seq(Message)
    BY <1>2, <2>1, <2>2, <2>3, RunStored DEF IInv
  <2>5. NetOK'
    BY <1>1, <2>3, <2>4, ReceiveOK DEF IInv
  <2>6. QED
    BY <1>2, <2>4, <2>5 DEF IInv
<1>4. CASE ~Exists(e, i)
  <2>1. /\ Die(e, "nonexistent channel") /\ Receive(e, << >>)
        /\ UNCHANGED <<tbl, used, hist>>
    BY <1>4 DEF InputEof, OutputClosed, InputClose
  <2>2. TablesOK'
    BY <1>2, <2>1, DieOK DEF IInv, Faults
  <2>3. QED
    BY <1>1, <1>2, <2>1, <2>2 DEF IInv, HistoryOK
<1>5. QED
  BY <1>3, <1>4

-----------------------------------------------------------------------------
(* The loops over the table.                                               *)

\* Steps that only move on in the loop.
LEMMA PassedOver ==
  ASSUME IInv, NEW e \in Ends, UNCHANGED <<alloc, tbl, used, net, fault, opened, hist>>,
         NEW pos \in Positions,
         \/ at' = [at EXCEPT ![e] = pos] /\ UNCHANGED <<rset, wset>>
         \/ \E rs, ws \in SUBSET Sockets : Move(e, pos, rs, ws)
  PROVE  IInv'
<1>1. TablesOK' /\ NetOK' /\ HistoryOK'
  BY DEF IInv, TablesOK, NetOK, HistoryOK
<1>2. LoopOK'
  BY MoveOK DEF IInv, LoopOK
<1>3. QED
  BY <1>1, <1>2 DEF IInv

\* The select sets with one more descriptor.
LEMMA SelectSets ==
  ASSUME LoopOK, TablesOK, NEW e \in Ends, NEW i \in DOMAIN tbl[e]
  PROVE  /\ rset[e] \in SUBSET Sockets /\ wset[e] \in SUBSET Sockets
         /\ rset[e] \cup {tbl[e][i].sock} \in SUBSET Sockets
         /\ wset[e] \cup {tbl[e][i].sock} \in SUBSET Sockets
<1>1. TableInv(tbl[e], alloc[e], used[e])
  BY DEF TablesOK
<1>2. tbl[e][i].sock \in Sockets
  BY <1>1 DEF TableInv, Channel
<1>3. QED
  BY <1>2 DEF LoopOK

\* The steps that only move the loop on.
LEMMA StandStillOK ==
  ASSUME IInv, NEW e \in Ends,
         \/ PacketsDone(e) \/ PollBreak(e)
         \/ \E i \in DOMAIN tbl[e] :
              \/ PrepareListener(e, i) \/ PrepareX11Incomplete(e, i)
              \/ NoConnection(e, i)
  PROVE  IInv'
<1>1. CASE PacketsDone(e)
  BY <1>1, PassedOver, TablePositions DEF PacketsDone, IInv
<1>2. CASE PollBreak(e)
  BY <1>2, PassedOver, TablePositions DEF PollBreak, IInv
<1>3. ASSUME NEW i \in DOMAIN tbl[e],
             PrepareListener(e, i) \/ PrepareX11Incomplete(e, i)
               \/ NoConnection(e, i)
      PROVE  IInv'
  <2>1. UNCHANGED <<alloc, tbl, used, net, fault, opened, hist>>
    BY <1>3 DEF PrepareListener, PrepareX11Incomplete, NoConnection
  <2>2. /\ PrepareFrom(i + 1, tbl[e]) \in Positions
        /\ AfterFrom(i + 1, tbl[e]) \in Positions
    BY TablePositions DEF IInv
  <2>3. /\ rset[e] \in SUBSET Sockets /\ wset[e] \in SUBSET Sockets
        /\ rset[e] \cup {tbl[e][i].sock} \in SUBSET Sockets
    BY SelectSets DEF IInv
  <2>4. CASE PrepareListener(e, i)
    BY <2>1, <2>2, <2>3, <2>4, PassedOver DEF PrepareListener
  <2>5. CASE PrepareX11Incomplete(e, i)
    BY <2>1, <2>2, <2>3, <2>5, PassedOver DEF PrepareX11Incomplete
  <2>6. CASE NoConnection(e, i)
    BY <2>1, <2>2, <2>3, <2>6, PassedOver DEF NoConnection
  <2>7. QED
    BY <1>3, <2>4, <2>5, <2>6
<1>4. QED
  BY <1>1, <1>2, <1>3

\* Steps that run the flag functions on the entry they look at and move on.
LEMMA RunsAndMoves ==
  ASSUME IInv, NEW e \in Ends, NEW i \in InUse(tbl[e]), NEW r, Sound(r), Tight(r),
         r.c.sock = tbl[e][i].sock, NEW why \in Reasons, Store(e, i, r, why),
         Emit(e, r.out), UNCHANGED <<alloc, opened>>
  PROVE  TablesOK' /\ NetOK' /\ HistoryOK'
<1>1. r.out \in Seq(Message)
  BY DEF Sound, Runs
<1>2. TablesOK' /\ HistoryOK'
  BY StoreOK DEF IInv
<1>3. NetOK'
  BY <1>1, EmitOK DEF IInv
<1>4. QED
  BY <1>2, <1>3

\* channel_output_poll, a packet of data.
LEMMA PollDataOK ==
  ASSUME IInv, NEW e \in Ends, NEW i \in DOMAIN tbl[e], PollData(e, i)
  PROVE  IInv'
<1> DEFINE c   == tbl[e][i]
           len == Min({Len(c.input), Chunk})
           ch  == [c EXCEPT !.input = SubSeq(c.input, len + 1, Len(c.input))]
           out == <<Packet("DATA", c.rid, NoId, NoTarget,
                           SubSeq(c.input, 1, len), c.inst)>>
<1>1. i \in InUse(tbl[e]) /\ c \in Channel /\ c.type # "FREE"
  BY EntryInUse DEF IInv, PollData
<1>2. c.input \in Seq(Items) /\ c.rid \in Ids /\ c.inst \in Instances \cup {0}
  BY <1>1 DEF Channel
<1>3. len \in 0 .. Len(c.input)
  <2>1. Len(c.input) \in Nat /\ Chunk \in Nat
    BY <1>2, LenProperties, BoundsAssumption
  <2>2. len \in {Len(c.input), Chunk} /\ len =< Len(c.input)
    BY <2>1, MinOfNaturals
  <2>3. QED
    BY <2>1, <2>2
<1>4. /\ SubSeq(c.input, 1, len) \in Seq(Items)
      /\ SubSeq(c.input, len + 1, Len(c.input)) \in Seq(Items)
  <2>1. Len(c.input) \in Nat
    BY <1>2, LenProperties
  <2> HIDE DEF len, c
  <2>2. QED
    BY <1>2, <1>3, <2>1, SubSeqProperties
<1>5. out \in Seq(Message)
  BY <1>2, <1>4, OnePacket DEF Kinds, Ids
<1>6. /\ ch \in Channel /\ ch.type # "FREE" /\ ch.sock = c.sock
      /\ ch.flags = c.flags
  BY <1>1, <1>4 DEF Channel
<1>7. /\ Emit(e, out) /\ tbl' = [tbl EXCEPT ![e][i] = ch]
      /\ UNCHANGED <<alloc, used, rset, wset, fault, opened, hist>>
      /\ at' = [at EXCEPT ![e] = PollFrom(i + 1, tbl[e])]
  BY DEF PollData
<1> HIDE DEF ch, out
<1>8. TablesOK'
  BY <1>1, <1>6, <1>7, EntryChanged DEF IInv
<1>9. NetOK'
  BY <1>5, <1>7, EmitOK DEF IInv
<1>10. LoopOK'
  BY <1>7, TablePositions DEF IInv, LoopOK
<1>11. QED
  BY <1>7, <1>8, <1>9, <1>10 DEF IInv, HistoryOK

\* channel_output_poll, the eof of a drained channel.
LEMMA PollEofOK ==
  ASSUME IInv, NEW e \in Ends, NEW i \in DOMAIN tbl[e], PollEof(e, i)
  PROVE  IInv'
<1> DEFINE r == SendIeof(Run(tbl[e][i]))
<1>1. /\ i \in InUse(tbl[e]) /\ Run(tbl[e][i]) \in Runs
      /\ Sound(Run(tbl[e][i])) /\ Tight(Run(tbl[e][i]))
      /\ Run(tbl[e][i]).c = tbl[e][i]
  BY EntryInUse DEF IInv, PollEof
<1>2. "INPUT_CLOSED" \in tbl[e][i].flags
  BY DEF PollEof, EofDue
<1>3. Step(Run(tbl[e][i]), r) /\ Tight(r)
  BY <1>1, <1>2, SendIeofSound
<1>4. Sound(r) /\ r.c.sock = tbl[e][i].sock
  BY <1>1, <1>3 DEF Step
<1>5. /\ Store(e, i, r, "no") /\ Emit(e, r.out)
      /\ UNCHANGED <<alloc, rset, wset, opened>>
      /\ at' = [at EXCEPT ![e] = PollFrom(i + 1, tbl'[e])]
  BY DEF PollEof
<1> HIDE DEF r
<1>6. TablesOK' /\ NetOK' /\ HistoryOK'
  BY <1>1, <1>3, <1>4, <1>5, RunsAndMoves DEF Reasons
<1>7. LoopOK'
  BY <1>5, <1>6, TablePositionsNext DEF IInv, LoopOK
<1>8. QED
  BY <1>6, <1>7 DEF IInv

\* channel_prepare_select, an open channel: its output may be closed here.
LEMMA PrepareOpenOK ==
  ASSUME IInv, NEW e \in Ends, NEW i \in DOMAIN tbl[e], PrepareOpen(e, i)
  PROVE  IInv'
<1> DEFINE ch       == tbl[e][i]
           reads    == Len(ch.input) < HighWater /\ "INPUT_CLOSED" \notin ch.flags
           writable == "OUTPUT_CLOSED" \notin ch.flags
           writes   == writable /\ ch.output # << >>
           drained  == writable /\ ch.output = << >> /\ "EOF_RECEIVED" \in ch.flags
           r        == IF drained THEN CloseOutput(Run(ch)) ELSE Run(ch)
           pos      == PrepareFrom(i + 1, tbl'[e])
           rs       == IF reads  THEN rset[e] \cup {ch.sock} ELSE rset[e]
           ws       == IF writes THEN wset[e] \cup {ch.sock} ELSE wset[e]
<1>1. /\ i \in InUse(tbl[e]) /\ Run(ch) \in Runs
      /\ Sound(Run(ch)) /\ Tight(Run(ch)) /\ Run(ch).c = ch
  BY EntryInUse DEF IInv, PrepareOpen
<1>2. Sound(r) /\ Tight(r) /\ r.c.sock = ch.sock
  <2>1. Step(Run(ch), CloseOutput(Run(ch))) /\ Tight(CloseOutput(Run(ch)))
    BY <1>1, CloseOutputSound
  <2>2. QED
    BY <1>1, <2>1 DEF Step
<1>3. rs \in SUBSET Sockets /\ ws \in SUBSET Sockets
  BY SelectSets DEF IInv
<1>4. /\ Store(e, i, r, "drained") /\ Emit(e, r.out)
      /\ Move(e, pos, rs, ws) /\ UNCHANGED <<alloc, opened>>
  BY DEF PrepareOpen
<1> HIDE DEF r, rs, ws
<1>5. TablesOK' /\ NetOK' /\ HistoryOK'
  BY <1>1, <1>2, <1>4, RunsAndMoves DEF Reasons
<1>6. pos \in Positions
  BY <1>5, TablePositionsNext
<1> HIDE DEF pos
<1>7. LoopOK'
  BY <1>3, <1>4, <1>6, MoveOK DEF IInv
<1>8. QED
  BY <1>5, <1>7 DEF IInv

\* channel_prepare_select, good X11 credentials.
LEMMA PrepareX11GoodOK ==
  ASSUME IInv, NEW e \in Ends, NEW i \in DOMAIN tbl[e], PrepareX11Good(e, i)
  PROVE  IInv'
<1> DEFINE ch == [tbl[e][i] EXCEPT !.type = "OPEN"]
<1>1. i \in InUse(tbl[e]) /\ tbl[e][i] \in Channel
  BY EntryInUse DEF IInv, PrepareX11Good
<1>2. /\ ch \in Channel /\ ch.type # "FREE" /\ ch.sock = tbl[e][i].sock
      /\ ch.flags = tbl[e][i].flags
  BY <1>1 DEF Channel, ChannelTypes, LiveTypes
<1>3. /\ tbl' = [tbl EXCEPT ![e][i] = ch]
      /\ UNCHANGED <<alloc, used, at, rset, wset, net, fault, opened, hist>>
  BY DEF PrepareX11Good
<1> HIDE DEF ch
<1>4. TablesOK'
  BY <1>1, <1>2, <1>3, EntryChanged DEF IInv
<1>5. QED
  BY <1>3, <1>4 DEF IInv, LoopOK, NetOK, HistoryOK

\* channel_prepare_select, bad X11 credentials.
LEMMA PrepareX11BadOK ==
  ASSUME IInv, NEW e \in Ends, NEW i \in DOMAIN tbl[e], PrepareX11Bad(e, i)
  PROVE  IInv'
<1> DEFINE r   == RejectX11(Run(tbl[e][i]))
           pos == PrepareFrom(i + 1, tbl'[e])
<1>1. /\ i \in InUse(tbl[e]) /\ tbl[e][i].type # "FREE"
      /\ Run(tbl[e][i]) \in Runs /\ Sound(Run(tbl[e][i]))
      /\ Tight(Run(tbl[e][i])) /\ Run(tbl[e][i]).c = tbl[e][i]
  BY EntryInUse DEF IInv, PrepareX11Bad
<1>2. Sound(r) /\ Tight(r) /\ r.c.sock = tbl[e][i].sock
  BY <1>1, RejectX11Sound
<1>3. rset[e] \in SUBSET Sockets /\ wset[e] \in SUBSET Sockets
  BY SelectSets DEF IInv
<1>4. /\ Store(e, i, r, "rejected") /\ Emit(e, r.out)
      /\ Move(e, pos, rset[e], wset[e]) /\ UNCHANGED <<alloc, opened>>
  BY DEF PrepareX11Bad
<1> HIDE DEF r
<1>5. TablesOK' /\ NetOK' /\ HistoryOK'
  BY <1>1, <1>2, <1>4, RunsAndMoves DEF Reasons
<1>6. pos \in Positions
  BY <1>5, TablePositionsNext
<1> HIDE DEF pos
<1>7. LoopOK'
  BY <1>3, <1>4, <1>6, MoveOK DEF IInv
<1>8. QED
  BY <1>5, <1>7 DEF IInv

\* channel_after_select, a listener.
LEMMA AcceptConnectionOK ==
  ASSUME IInv, NEW e \in Ends, NEW i \in DOMAIN tbl[e], AcceptConnection(e, i)
  PROVE  IInv'
<1> DEFINE ch  == tbl[e][i]
           new == [BlankChannel EXCEPT
                !.type = "OPENING", !.sock = NewSock(e),
                !.isx = (ch.type = "X11_LISTENER"), !.inst = opened + 1]
           pos == AfterFrom(i + 1, tbl'[e])
<1>1. opened + 1 \in Instances /\ opened' = opened + 1 /\ opened' \in 0 .. MaxOpens
  <2>1. opened \in 0 .. MaxOpens /\ MaxOpens \in Nat /\ opened < MaxOpens
    BY BoundsAssumption DEF IInv, HistoryOK, AcceptConnection
  <2>2. opened' = opened + 1
    BY DEF AcceptConnection
  <2>3. QED
    BY <2>1, <2>2 DEF Instances
<1>2. << >> \in Seq(Items)
  BY EmptySeq
<1>3. NewSock(e) \in Nat /\ NewSlot(e) \in Nat
  BY FreshSock, SlotFound DEF IInv
<1>4. /\ new \in Channel /\ new.type # "FREE" /\ new.flags = {}
      /\ new.sock = NewSock(e)
  BY <1>1, <1>2, <1>3 DEF Channel, BlankChannel, ChannelTypes, LiveTypes,
                          Sockets, Ids
<1>5. AllocateIn(e, new) /\ Move(e, pos, rset[e], wset[e]) /\ hist' = hist
  BY DEF AcceptConnection
<1>6. PICK target \in Targets \cup {NoTarget} :
        Emit(e, <<Packet(OpenKind(ch.type), NewSlot(e), NoId, target, << >>,
                         opened + 1)>>)
  BY DEF AcceptConnection
<1>7. OpenKind(ch.type) \in Kinds
  BY DEF AcceptConnection, OpenKind, ListenerTypes, Kinds, OpenKinds
<1>8. <<Packet(OpenKind(ch.type), NewSlot(e), NoId, target, << >>,
               opened + 1)>> \in Seq(Message)
  BY <1>1, <1>2, <1>3, <1>7, OnePacket DEF Ids
<1>9. NetOK'
  BY <1>6, <1>8, EmitOK DEF IInv
<1> HIDE DEF new
<1>10. TablesOK'
  BY <1>4, <1>5, AllocateOK DEF IInv
<1>11. pos \in Positions
  BY <1>10, TablePositionsNext
<1>12. rset[e] \in SUBSET Sockets /\ wset[e] \in SUBSET Sockets
  BY SelectSets DEF IInv
<1> HIDE DEF pos
<1>13. LoopOK'
  BY <1>5, <1>11, <1>12, MoveOK DEF IInv
<1>14. QED
  BY <1>1, <1>5, <1>9, <1>10, <1>13 DEF IInv, HistoryOK

\* channel_after_select, end of file on a socket.
LEMMA ReadEofOK ==
  ASSUME IInv, NEW e \in Ends, NEW i \in DOMAIN tbl[e], ReadEof(e, i)
  PROVE  IInv'
<1> DEFINE r   == CloseInput(Run(tbl[e][i]))
           pos == AfterFrom(i + 1, tbl'[e])
<1>1. /\ i \in InUse(tbl[e]) /\ Run(tbl[e][i]) \in Runs
      /\ Sound(Run(tbl[e][i])) /\ Tight(Run(tbl[e][i]))
      /\ Run(tbl[e][i]).c = tbl[e][i]
  BY EntryInUse DEF IInv, ReadEof, CanRead
<1>2. Sound(r) /\ Tight(r) /\ r.c.sock = tbl[e][i].sock
  BY <1>1, CloseInputSound DEF Step
<1>3. rset[e] \in SUBSET Sockets /\ wset[e] \in SUBSET Sockets
  BY SelectSets DEF IInv
<1>4. /\ Store(e, i, r, "no") /\ Emit(e, r.out)
      /\ Move(e, pos, rset[e], wset[e]) /\ UNCHANGED <<alloc, opened>>
  BY DEF ReadEof
<1> HIDE DEF r
<1>5. TablesOK' /\ NetOK' /\ HistoryOK'
  BY <1>1, <1>2, <1>4, RunsAndMoves DEF Reasons
<1>6. pos \in Positions
  BY <1>5, TablePositionsNext
<1> HIDE DEF pos
<1>7. LoopOK'
  BY <1>3, <1>4, <1>6, MoveOK DEF IInv
<1>8. QED
  BY <1>5, <1>7 DEF IInv

\* One read and one write of an OPEN channel's socket, in the tables.
LEMMA CountOK ==
  ASSUME NEW h \in Records, NEW i \in Instances \cup {0}, NEW e \in Ends,
         NEW new \in [read : Nat, wrote : Nat, shut : Reasons]
  PROVE  [h EXCEPT ![i][e] = new] \in Records
<1>1. [h[i] EXCEPT ![e] = new] \in [Ends -> [read : Nat, wrote : Nat, shut : Reasons]]
  BY DEF Records
<1>2. QED
  BY <1>1 DEF Records

\* What read and write leave of an entry keeps its shape.
LEMMA TransferOK ==
  ASSUME TablesOK, HistoryOK, NEW e \in Ends, NEW i \in InUse(tbl[e]),
         NEW n \in {0, 1}
  PROVE  LET c == tbl[e][i]
             h == hist[c.inst][e]
         IN  /\ c \in Channel /\ c.inst \in Instances \cup {0}
             /\ h \in [read : Nat, wrote : Nat, shut : Reasons]
             /\ (IF n = 1 THEN Append(c.input, h.read + 1) ELSE c.input) \in Seq(Items)
<1> DEFINE c == tbl[e][i]
           h == hist[c.inst][e]
<1>1. c \in Channel
  BY EntryInUse DEF InUse
<1>2. c.inst \in Instances \cup {0} /\ c.input \in Seq(Items)
  BY <1>1 DEF Channel
<1>3. h \in [read : Nat, wrote : Nat, shut : Reasons]
  BY <1>2 DEF HistoryOK, Records
<1>4. h.read + 1 \in Items
  BY <1>3 DEF Items
<1> HIDE DEF c, h
<1>5. Append(c.input, h.read + 1) \in Seq(Items)
  BY <1>2, <1>4, AppendProperties
<1>6. QED
  BY <1>1, <1>2, <1>3, <1>5 DEF c, h

\* channel_after_select, reading and writing.
LEMMA ReadAndWriteOK ==
  ASSUME IInv, NEW e \in Ends, NEW i \in DOMAIN tbl[e], ReadAndWrite(e, i)
  PROVE  IInv'
<1> DEFINE c   == tbl[e][i]
           h   == hist[c.inst][e]
           pos == AfterFrom(i + 1, tbl'[e])
<1>1. i \in InUse(tbl[e]) /\ c \in Channel /\ c.type # "FREE"
  BY EntryInUse DEF IInv, ReadAndWrite
<1>2. PICK x \in Transfers(e, i) :
        /\ tbl' = [tbl EXCEPT
             ![e][i].input  = IF x[1] = 1 THEN Append(@, h.read + 1) ELSE @,
             ![e][i].output = SubSeq(@, x[2] + 1, Len(@))]
        /\ hist' = [hist EXCEPT ![c.inst][e].read  = @ + x[1],
                                ![c.inst][e].wrote = @ + x[2]]
  BY DEF ReadAndWrite
<1>3. x[1] \in {0, 1} /\ x[2] \in 0 .. Len(c.output)
  BY DEF Transfers
<1> DEFINE in  == IF x[1] = 1 THEN Append(c.input, h.read + 1) ELSE c.input
           out == SubSeq(c.output, x[2] + 1, Len(c.output))
           ch  == [c EXCEPT !.input = in, !.output = out]
           g   == [h EXCEPT !.read = @ + x[1], !.wrote = @ + x[2]]
<1>4. /\ c.inst \in Instances \cup {0} /\ in \in Seq(Items)
      /\ h \in [read : Nat, wrote : Nat, shut : Reasons]
  BY <1>1, <1>3, TransferOK DEF IInv
<1>5. out \in Seq(Items) /\ x[2] \in Nat
  <2>1. c.output \in Seq(Items) /\ Len(c.output) \in Nat
    BY <1>1, LenProperties DEF Channel
  <2> HIDE DEF c
  <2>2. QED
    BY <1>3, <2>1, SubSeqProperties
<1>6. g \in [read : Nat, wrote : Nat, shut : Reasons]
  <2>1. h.read + x[1] \in Nat /\ h.wrote + x[2] \in Nat
    BY SMTT(60), <1>3, <1>4, <1>5
  <2> HIDE DEF h
  <2>2. QED
    BY <1>4, <2>1
<1>7. tbl' = [tbl EXCEPT ![e][i] = ch]
  BY <1>2
<1>8. hist' = [hist EXCEPT ![c.inst][e] = g]
  BY <1>2
<1>9. /\ Move(e, pos, rset[e], wset[e])
      /\ UNCHANGED <<alloc, used, net, fault, opened>>
  BY DEF ReadAndWrite
<1> HIDE DEF in, out
<1>10. /\ ch \in Channel /\ ch.type # "FREE" /\ ch.sock = c.sock
       /\ ch.flags = c.flags
  BY <1>1, <1>4, <1>5 DEF Channel
<1> HIDE DEF ch, g
<1>11. TablesOK'
  BY <1>1, <1>7, <1>9, <1>10, EntryChanged DEF IInv
<1>12. hist' \in Records
  <2>1. hist \in Records
    BY DEF IInv, HistoryOK
  <2>2. QED
    BY <1>4, <1>6, <1>8, <2>1, CountOK
<1>13. pos \in Positions
  BY <1>11, TablePositionsNext
<1>14. rset[e] \in SUBSET Sockets /\ wset[e] \in SUBSET Sockets
  BY SelectSets DEF IInv
<1> HIDE DEF pos
<1>15. LoopOK'
  BY <1>9, <1>13, <1>14, MoveOK DEF IInv
<1>16. QED
  BY <1>9, <1>11, <1>12, <1>15 DEF IInv, HistoryOK, NetOK

\* channel_after_select, a failed write.
LEMMA WriteErrorOK ==
  ASSUME IInv, NEW e \in Ends, NEW i \in DOMAIN tbl[e], WriteError(e, i)
  PROVE  IInv'
<1> DEFINE c   == tbl[e][i]
           h   == hist[c.inst][e]
           pos == AfterFrom(i + 1, tbl'[e])
           ch(n) == [c EXCEPT !.input = IF n = 1 THEN Append(@, h.read + 1) ELSE @]
<1>1. i \in InUse(tbl[e]) /\ c \in Channel /\ c.type # "FREE"
      /\ Orderly(c) /\ c.flags # Flags
  BY EntryInUse DEF IInv, WriteError, CanWrite
<1>2. PICK n \in {0, 1} :
           LET r == CloseOutput(Run(ch(n)))
           IN  /\ tbl'   = [tbl EXCEPT ![e][i] = r.c]
               /\ used'  = [used EXCEPT ![e] = @ - r.frees]
               /\ fault' = [fault EXCEPT ![e] = r.fault]
               /\ hist'  = [hist EXCEPT ![c.inst][e].read = @ + n,
                                        ![c.inst][e].shut = "error"]
               /\ Emit(e, r.out)
  BY DEF WriteError
<1> DEFINE d == ch(n)
           r == CloseOutput(Run(d))
           g == [h EXCEPT !.read = @ + n, !.shut = "error"]
<1>3. /\ c.inst \in Instances \cup {0}
      /\ (IF n = 1 THEN Append(c.input, h.read + 1) ELSE c.input) \in Seq(Items)
      /\ h \in [read : Nat, wrote : Nat, shut : Reasons]
  BY <1>1, TransferOK DEF IInv
<1>4. /\ d \in Channel /\ d.type # "FREE" /\ d.sock = c.sock /\ d.flags = c.flags
      /\ Orderly(d)
  BY <1>1, <1>3 DEF Channel, Orderly
<1>5. g \in [read : Nat, wrote : Nat, shut : Reasons]
  <2>1. h.read + n \in Nat
    BY <1>3
  <2> HIDE DEF h
  <2>2. QED
    BY <1>3, <2>1 DEF Reasons
<1>6. /\ tbl'   = [tbl EXCEPT ![e][i] = r.c]
      /\ used'  = [used EXCEPT ![e] = @ - r.frees]
      /\ fault' = [fault EXCEPT ![e] = r.fault]
      /\ hist'  = [hist EXCEPT ![c.inst][e] = g]
      /\ Emit(e, r.out)
  BY <1>2
<1>7. Move(e, pos, rset[e], wset[e]) /\ UNCHANGED <<alloc, opened>>
  BY DEF WriteError
<1> HIDE DEF d, g
<1>8. Run(d) \in Runs /\ Sound(Run(d)) /\ Run(d).c = d /\ Tight(Run(d))
  BY <1>1, <1>4, RunSound DEF Tight
<1>9. Sound(r) /\ Tight(r) /\ r.c.sock = c.sock
  BY <1>4, <1>8, CloseOutputSound DEF Step
<1>10. r \in Runs /\ Orderly(r.c) /\ (r.frees = 1 <=> r.c.type = "FREE")
       /\ r.out \in Seq(Message)
  BY <1>9 DEF Sound, Runs
<1> HIDE DEF r
<1>11. TablesOK'
  BY <1>1, <1>6, <1>7, <1>9, <1>10, EntryStored DEF IInv
<1>12. hist' \in Records
  <2>1. hist \in Records
    BY DEF IInv, HistoryOK
  <2>2. QED
    BY <1>3, <1>5, <1>6, <2>1, CountOK
<1>13. NetOK'
  BY <1>6, <1>10, EmitOK DEF IInv
<1>14. pos \in Positions
  BY <1>11, TablePositionsNext
<1>15. rset[e] \in SUBSET Sockets /\ wset[e] \in SUBSET Sockets
  BY SelectSets DEF IInv
<1> HIDE DEF pos
<1>16. LoopOK'
  BY <1>7, <1>14, <1>15, MoveOK DEF IInv
<1>17. QED
  BY <1>7, <1>11, <1>12, <1>13, <1>16 DEF IInv, HistoryOK

\* channel_stop_listening: every entry it frees is counted off.
LEMMA StopListeningOK ==
  ASSUME IInv, NEW e \in Ends, StopListening(e)
  PROVE  IInv'
<1> DEFINE t    == tbl[e]
           gone == {i \in DOMAIN t : t[i].type \in {"X11_LISTENER", "PORT_LISTENER"}}
           s    == [i \in DOMAIN t |->
                      IF i \in gone THEN ChannelFree(Run(t[i])).c ELSE t[i]]
<1>1. /\ TableInv(t, alloc[e], used[e]) /\ alloc[e] \in Nat
      /\ t \in [0 .. alloc[e] - 1 -> Channel]
  BY DEF IInv, TablesOK, TableInv
<1>2. gone \in SUBSET InUse(t)
  BY DEF InUse
<1>3. \A i \in gone : /\ ChannelFree(Run(t[i])).c \in Channel
                      /\ ChannelFree(Run(t[i])).c.type = "FREE"
  <2>1. TAKE i \in gone
  <2>2. i \in DOMAIN t /\ t[i].type # "FREE"
    OBVIOUS
  <2>3. /\ Run(t[i]) \in Runs /\ Run(t[i]).c = t[i]
    BY <2>2, EntryInUse DEF IInv
  <2>4. Run(t[i]).frees = 0
    BY DEF Run
  <2>5. ChannelFree(Run(t[i])) \in Runs /\ ChannelFree(Run(t[i])).c.type = "FREE"
    BY <2>2, <2>3, <2>4, ChannelFreeShape
  <2>6. QED
    BY <2>5 DEF Runs
<1>4. /\ tbl' = [tbl EXCEPT ![e] = s]
      /\ used' = [used EXCEPT ![e] = used[e] - Cardinality(gone)]
      /\ UNCHANGED <<alloc, at, rset, wset, net, fault, opened, hist>>
  BY DEF StopListening
<1>5. s \in [0 .. alloc[e] - 1 -> Channel]
      /\ \A i \in 0 .. alloc[e] - 1 : IF i \in gone THEN s[i].type = "FREE"
                                      ELSE s[i] = t[i]
  BY <1>1, <1>3
<1> HIDE DEF s, gone, t
<1>6. /\ TableInv(s, alloc[e], used[e] - Cardinality(gone))
      /\ used[e] - Cardinality(gone) \in Nat
  BY <1>1, <1>2, <1>5, FreeFromTable
<1>7. TablesOK'
  BY <1>4, <1>6 DEF IInv, TablesOK
<1>8. QED
  BY <1>4, <1>7 DEF IInv, LoopOK, NetOK, HistoryOK

-----------------------------------------------------------------------------
(* The theorems.                                                           *)

\* The tables the preparation phase leaves are consistent.
LEMMA InitialTableOK ==
  ASSUME NEW e \in Ends
  PROVE  TableInv(InitialTable(e), InitialAlloc(e), Len(Listeners[e]))
<1> DEFINE L == Listeners[e]
           n == InitialAlloc(e)
           t == InitialTable(e)
<1>1. /\ L \in Seq([type : ListenerTypes, target : Targets \cup {NoTarget}])
      /\ Len(L) \in Nat /\ Len(L) =< InitAlloc /\ InitAlloc \in Nat
  BY ListenersAssumption, BoundsAssumption, LenProperties
<1>2. n \in Nat /\ Len(L) =< n
  BY <1>1, EmptySeq DEF InitialAlloc
<1>3. BlankChannel \in Channel
  <2>1. << >> \in Seq(Items)
    BY EmptySeq
  <2>2. QED
    BY <2>1 DEF BlankChannel, Channel, ChannelTypes, Sockets, Ids
<1>4. \A i \in 0 .. n - 1 :
        IF i < Len(L)
        THEN /\ t[i] \in Channel /\ t[i].type # "FREE" /\ t[i].sock = i
             /\ t[i].flags = {}
        ELSE t[i] \in Channel /\ t[i].type = "FREE"
  <2>1. TAKE i \in 0 .. n - 1
  <2>2. CASE i < Len(L)
    <3>1. i + 1 \in 1 .. Len(L)
      BY <1>2, <2>2
    <3>2. /\ L[i + 1].type \in ListenerTypes
          /\ L[i + 1].target \in Targets \cup {NoTarget}
      <4>1. L[i + 1] \in [type : ListenerTypes, target : Targets \cup {NoTarget}]
        BY <1>1, <3>1, ElementOfSeq
      <4>2. QED
        BY <4>1
    <3>3. t[i] = [BlankChannel EXCEPT !.type = L[i + 1].type, !.sock = i,
                                      !.target = L[i + 1].target]
      BY <2>2 DEF InitialTable
    <3> HIDE DEF t, L
    <3>4. i \in Nat /\ BlankChannel.flags = {}
      BY <1>2 DEF BlankChannel
    <3>5. QED
      BY <1>3, <2>2, <3>2, <3>3, <3>4 DEF Channel, ChannelTypes, ListenerTypes, Sockets
  <2>3. CASE ~(i < Len(L))
    <3>1. t[i] = BlankChannel
      BY <2>3 DEF InitialTable
    <3>2. BlankChannel.type = "FREE"
      BY DEF BlankChannel
    <3>3. QED
      BY <1>3, <2>3, <3>1, <3>2
  <2>4. QED
    BY <2>2, <2>3
<1>5. t = [i \in 0 .. n - 1 |-> t[i]]
  BY DEF InitialTable
<1> HIDE DEF t, n
<1>6. t \in [0 .. n - 1 -> Channel]
  BY <1>4, <1>5
<1>7. InUse(t) = 0 .. Len(L) - 1
  BY <1>1, <1>2, <1>4, <1>6 DEF InUse
<1>8. Cardinality(0 .. Len(L) - 1) = Len(L)
  BY <1>1, FS_Interval
<1>9. \A i \in InUse(t) : t[i].sock = i /\ t[i].flags = {}
  BY <1>1, <1>2, <1>4, <1>7
<1>10. QED
  BY <1>2, <1>6, <1>7, <1>8, <1>9 DEF TableInv, Orderly, Flags, t, n

\* The invariant holds when the loops start,
LEMMA InitOK == Init => IInv
<1> SUFFICES ASSUME Init PROVE IInv
  OBVIOUS
<1>1. \A e \in Ends : /\ TableInv(InitialTable(e), InitialAlloc(e), Len(Listeners[e]))
                      /\ InitialAlloc(e) \in Nat /\ Len(Listeners[e]) \in Nat
  <2>1. TAKE e \in Ends
  <2>2. Len(Listeners[e]) \in Nat
    BY ListenersAssumption, LenProperties
  <2>3. QED
    BY <2>2, InitialTableOK, BoundsAssumption DEF InitialAlloc
<1>2. TablesOK
  BY <1>1 DEF Init, TablesOK, Faults
<1>3. LoopOK
  BY DEF Init, LoopOK, Packets, Positions
<1>4. NetOK
  <2>1. << >> \in Seq(Message)
    BY EmptySeq
  <2>2. QED
    BY <2>1 DEF Init, NetOK
<1>5. HistoryOK
  BY BoundsAssumption DEF Init, HistoryOK, Records, Reasons
<1>6. QED
  BY <1>2, <1>3, <1>4, <1>5 DEF IInv

\* every step keeps it,
LEMMA NextOK == IInv /\ [Next]_vars => IInv'
<1> SUFFICES ASSUME IInv, [Next]_vars PROVE IInv'
  OBVIOUS
<1>1. CASE UNCHANGED vars
  BY <1>1 DEF vars, IInv, TablesOK, LoopOK, NetOK, HistoryOK
<1>2. ASSUME NEW e \in Ends, InputPacket(e)
      PROVE  IInv'
  BY <1>2, AcceptOpenOK, RefuseOpenOK, InputOpenConfirmationOK,
     InputOpenFailureOK, InputDataOK, InputCloseOK DEF InputPacket
<1>3. ASSUME NEW e \in Ends, OutputPoll(e)
      PROVE  IInv'
  BY <1>3, StandStillOK, PollDataOK, PollEofOK DEF OutputPoll
<1>4. ASSUME NEW e \in Ends, PrepareSelect(e)
      PROVE  IInv'
  BY <1>4, StandStillOK, PrepareOpenOK, PrepareX11GoodOK, PrepareX11BadOK
     DEF PrepareSelect
<1>5. ASSUME NEW e \in Ends, AfterSelect(e)
      PROVE  IInv'
  BY <1>5, StandStillOK, AcceptConnectionOK, ReadEofOK, ReadAndWriteOK,
     WriteErrorOK DEF AfterSelect
<1>6. ASSUME NEW e \in Ends, PacketsDone(e) \/ StopListening(e)
      PROVE  IInv'
  BY <1>6, StandStillOK, StopListeningOK
<1>7. QED
  BY <1>1, <1>2, <1>3, <1>4, <1>5, <1>6 DEF Next

\* and so it always holds.
LEMMA Invariance == Spec => []IInv
BY InitOK, NextOK, PTL DEF Spec

\* Every variable keeps its type: no handler stores a channel of another shape
\* in the table or puts a malformed packet on the connection.
THEOREM TypeCorrect == Spec => []TypeOK
<1>1. IInv => TypeOK
  <2> SUFFICES ASSUME IInv PROVE TypeOK
    OBVIOUS
  <2>1. DOMAIN tbl = Ends /\ \A e \in Ends : tbl[e] \in [0 .. alloc[e] - 1 -> Channel]
    BY DEF IInv, TablesOK, TableInv
  <2>2. QED
    BY <2>1 DEF IInv, TablesOK, LoopOK, NetOK, HistoryOK, Records, TypeOK
<1>2. QED
  BY <1>1, Invariance, PTL

\* For every set of listeners, table size and number of connections:
\* channels_used counts the entries in use, channel_allocate never fails to
\* find a slot, no two entries share a descriptor, and an entry is freed at
\* the call that sets the last of its six flags.
THEOREM TablesStayConsistent == Spec => []TableConsistent
<1>1. IInv => TableConsistent
  BY DEF IInv, TablesOK, TableInv, TableConsistent
<1>2. QED
  BY <1>1, Invariance, PTL

-----------------------------------------------------------------------------
(* The protocol between the two channel tables, for any number of          *)
(* connections.  The invariant is stated as what one end may rely on: A is *)
(* its entries in use for connections, B those of its peer, P the packets  *)
(* on their way to it, Q those on their way to the peer, and n connections *)
(* have been opened.  It holds with the two ends exchanged as well.        *)

ReplyKinds == {"OPEN_CONFIRMATION", "OPEN_FAILURE"}
LaterKinds == CloseKinds \cup {"DATA"}

\* The entries of a table that serve a connection.
Entries(t) == [i \in {j \in DOMAIN t : t[j].type \in LiveTypes} |-> t[i]]

\* What one entry looks like by itself.
EntryOK(ch) ==
  /\ ch \in Channel /\ ch.type \in LiveTypes
  /\ Orderly(ch) /\ ch.flags # Flags
  /\ ch.type = "OPENING" =>
       ch.flags = {} /\ ch.input = << >> /\ ch.output = << >>
  /\ "EOF_SENT" \in ch.flags => ch.input = << >>
  /\ "OUTPUT_CLOSED" \in ch.flags => ch.output = << >>
  /\ ch.type = "X11_OPEN" =>
       /\ ch.isx /\ ch.input = << >>
       /\ ch.flags \in {{}, Flags \ {"CLOSE_RECEIVED"}}

EntriesOK(A, n) ==
  /\ \A i \in DOMAIN A : EntryOK(A[i]) /\ A[i].inst \in 1 .. n
  /\ \A i, j \in DOMAIN A : A[i].inst = A[j].inst => i = j

\* An open request: the only packet of its connection, which has one entry,
\* at the sender.
RequestsOK(A, B, P, Q, n) ==
  \A k \in DOMAIN P : P[k].kind \in OpenKinds =>
    /\ P[k].inst \in 1 .. n
    /\ \A i \in DOMAIN A : A[i].inst # P[k].inst
    /\ P[k].chan \in DOMAIN B
    /\ B[P[k].chan].type = "OPENING" /\ B[P[k].chan].inst = P[k].inst
    /\ \A l \in DOMAIN P : P[l].inst = P[k].inst => l = k
    /\ \A l \in DOMAIN Q : Q[l].inst # P[k].inst

\* Every other packet finds the entry of its connection.
RoutesOK(A, P) ==
  \A k \in DOMAIN P :
    /\ P[k].kind \in Kinds
    /\ P[k].kind \notin OpenKinds =>
         P[k].chan \in DOMAIN A /\ A[P[k].chan].inst = P[k].inst

\* A reply comes first, to an entry that is opening, and there is one.
RepliesOK(A, P) ==
  \A k \in DOMAIN P : P[k].kind \in ReplyKinds =>
    /\ A[P[k].chan].type = "OPENING"
    /\ \A l \in DOMAIN P : P[l].inst = P[k].inst /\ l # k =>
         k < l /\ P[l].kind \notin ReplyKinds

ConfirmationsOK(B, P) ==
  \A k \in DOMAIN P : P[k].kind = "OPEN_CONFIRMATION" =>
    /\ P[k].from \in DOMAIN B /\ B[P[k].from].type # "OPENING"
    /\ B[P[k].from].inst = P[k].inst /\ B[P[k].from].rid = P[k].chan

FailuresOK(B, P) ==
  \A k \in DOMAIN P : P[k].kind = "OPEN_FAILURE" =>
    /\ \A j \in DOMAIN B : B[j].inst # P[k].inst
    /\ \A l \in DOMAIN P : P[l].inst = P[k].inst => l = k

\* Whatever else reaches an entry that is opening does so behind its
\* confirmation.
Confirmed(P, c, k) ==
  \E l \in DOMAIN P : /\ P[l].kind = "OPEN_CONFIRMATION" /\ P[l].inst = c
                      /\ l < k
LaterOK(A, P) ==
  \A k \in DOMAIN P :
    P[k].kind \in LaterKinds /\ A[P[k].chan].type = "OPENING" =>
      Confirmed(P, P[k].inst, k)

\* A closing packet comes once, and only if the peer has sent it.
OnItsWay(P, c, kind) ==
  \E k \in DOMAIN P : P[k].kind = kind /\ P[k].inst = c
ClosingOK(A, B, P, kind, sent, received) ==
  \A k \in DOMAIN P : P[k].kind = kind =>
    /\ received \notin A[P[k].chan].flags
    /\ \A l \in DOMAIN P : P[l].inst = P[k].inst /\ P[l].kind = kind => l = k
    /\ \A j \in DOMAIN B : B[j].inst = P[k].inst => sent \in B[j].flags
AgreeOK(A, B, P, kind, sent, received) ==
  \A i \in DOMAIN A, j \in DOMAIN B : A[i].inst = B[j].inst =>
    /\ received \in A[i].flags => sent \in B[j].flags
    /\ sent \in B[j].flags =>
         received \in A[i].flags \/ OnItsWay(P, A[i].inst, kind)

\* No data comes after the eof.
DataOK(A, P) ==
  \A k \in DOMAIN P : P[k].kind = "DATA" =>
    /\ "EOF_RECEIVED" \notin A[P[k].chan].flags
    /\ \A l \in DOMAIN P :
         P[l].kind = "INPUT_EOF" /\ P[l].inst = P[k].inst => k < l

\* The two entries of a connection name each other.
LinksOK(A, B, Q) ==
  \A i \in DOMAIN A, j \in DOMAIN B : A[i].inst = B[j].inst =>
    IF A[i].type = "OPENING" THEN B[j].type # "OPENING"
    ELSE /\ A[i].rid = j
         /\ B[j].type = "OPENING" => OnItsWay(Q, A[i].inst, "OPEN_CONFIRMATION")

\* The peer's entry has gone: both closing packets have been sent, and both
\* have come or will.
GoneOK(A, B, P) ==
  \A i \in DOMAIN A :
    A[i].type # "OPENING" /\ (\A j \in DOMAIN B : B[j].inst # A[i].inst) =>
      /\ {"EOF_SENT", "CLOSE_SENT"} \subseteq A[i].flags
      /\ "EOF_RECEIVED" \in A[i].flags \/ OnItsWay(P, A[i].inst, "INPUT_EOF")
      /\ "CLOSE_RECEIVED" \in A[i].flags \/ OnItsWay(P, A[i].inst, "OUTPUT_CLOSED")

\* Nothing is sent for an X11 channel before its first packet has been
\* checked, so the peer has nothing to write and does not close first.
X11OK(A, B, Q) ==
  \A i \in DOMAIN A : A[i].type = "X11_OPEN" =>
    /\ \A j \in DOMAIN B : B[j].inst = A[i].inst => B[j].type # "X11_OPEN"
    /\ "EOF_SENT" \notin A[i].flags =>
         /\ \A j \in DOMAIN B : B[j].inst = A[i].inst =>
              "OUTPUT_CLOSED" \notin B[j].flags /\ B[j].output = << >>
         /\ \A l \in DOMAIN Q : Q[l].inst = A[i].inst => Q[l].kind # "DATA"

Half(A, B, P, Q, n) ==
  /\ EntriesOK(A, n)
  /\ RequestsOK(A, B, P, Q, n)
  /\ RoutesOK(A, P)
  /\ RepliesOK(A, P)
  /\ ConfirmationsOK(B, P)
  /\ FailuresOK(B, P)
  /\ LaterOK(A, P)
  /\ ClosingOK(A, B, P, "INPUT_EOF", "EOF_SENT", "EOF_RECEIVED")
  /\ ClosingOK(A, B, P, "OUTPUT_CLOSED", "CLOSE_SENT", "CLOSE_RECEIVED")
  /\ AgreeOK(A, B, P, "INPUT_EOF", "EOF_SENT", "EOF_RECEIVED")
  /\ AgreeOK(A, B, P, "OUTPUT_CLOSED", "CLOSE_SENT", "CLOSE_RECEIVED")
  /\ DataOK(A, P)
  /\ LinksOK(A, B, Q)
  /\ GoneOK(A, B, P)
  /\ X11OK(A, B, Q)

-----------------------------------------------------------------------------
(* The queues.  The first packet of P is taken, or none (d = 0); the       *)
(* packets out are sent behind those of Q.                                 *)

Advance(P, R, d) ==
  /\ Len(P) \in Nat /\ d \in {0, 1} /\ d =< Len(P)
  /\ DOMAIN P = 1 .. Len(P) /\ DOMAIN R = 1 .. Len(P) - d
  /\ \A k \in DOMAIN R : R[k] = P[k + d]

Extend(Q, R, out) ==
  /\ Len(Q) \in Nat /\ Len(out) \in Nat
  /\ DOMAIN Q = 1 .. Len(Q) /\ DOMAIN out = 1 .. Len(out)
  /\ DOMAIN R = 1 .. Len(Q) + Len(out)
  /\ \A k \in DOMAIN Q : R[k] = Q[k]
  /\ \A k \in DOMAIN out : R[Len(Q) + k] = out[k]

\* What is left of a queue was there before, in the same order.
LEMMA AdvanceFacts ==
  ASSUME NEW P, NEW R, NEW d, Advance(P, R, d)
  PROVE  /\ \A k \in DOMAIN R : k \in Nat /\ k + d \in DOMAIN P /\ R[k] = P[k + d]
         /\ \A k \in DOMAIN P : k \in Nat /\ ((k = 1 /\ d = 1) \/ k - d \in DOMAIN R)
         /\ \A k \in DOMAIN P : k - d \in DOMAIN R => R[k - d] = P[k]
BY DEF Advance

\* What is in a queue was there before or is new, and then comes later.
LEMMA ExtendFacts ==
  ASSUME NEW Q, NEW R, NEW out, Extend(Q, R, out)
  PROVE  /\ \A k \in DOMAIN Q : k \in Nat /\ k \in DOMAIN R /\ R[k] = Q[k]
         /\ \A k \in DOMAIN out : /\ k \in Nat /\ Len(Q) + k \in DOMAIN R
                                 /\ R[Len(Q) + k] = out[k]
                                 /\ \A l \in DOMAIN Q : l < Len(Q) + k
         /\ \A k \in DOMAIN R : k \notin DOMAIN Q =>
              /\ k - Len(Q) \in DOMAIN out /\ R[k] = out[k - Len(Q)]
              /\ \A l \in DOMAIN Q : l < k
         /\ Len(Q) \in Nat
BY DEF Extend

\* A packet looked for is still there unless it was the one taken.
LEMMA StillOnItsWay ==
  ASSUME NEW P, NEW R, NEW d, Advance(P, R, d), NEW c, NEW kind
  PROVE  /\ OnItsWay(P, c, kind) =>
              \/ OnItsWay(R, c, kind)
              \/ d = 1 /\ 1 \in DOMAIN P /\ P[1].kind = kind /\ P[1].inst = c
         /\ OnItsWay(R, c, kind) => OnItsWay(P, c, kind)
BY AdvanceFacts DEF OnItsWay

\* What is on its way after a queue was extended was there, or was sent.
LEMMA OnItsWayNow ==
  ASSUME NEW Q, NEW R, NEW out, Extend(Q, R, out), NEW c, NEW kind
  PROVE  OnItsWay(R, c, kind) <=> OnItsWay(Q, c, kind) \/ OnItsWay(out, c, kind)
BY ExtendFacts DEF OnItsWay

-----------------------------------------------------------------------------
(* An established entry i of A is served: it becomes new, or is freed; x   *)
(* is the kind of the packet taken for it, or "none"; out is sent.         *)

Served(A, B, i, new, x, out) ==
  /\ i \in DOMAIN A /\ A[i].type # "OPENING"
  /\ new.inst = A[i].inst /\ new.rid = A[i].rid /\ A[i].flags \subseteq new.flags
  /\ new.type \in {A[i].type, "OPEN", "FREE"}
  /\ IF new.type = "FREE" THEN new.flags = Flags ELSE EntryOK(new)
  /\ x \in LaterKinds \cup {"none"}
  /\ "EOF_RECEIVED" \in new.flags <=>
       "EOF_RECEIVED" \in A[i].flags \/ x = "INPUT_EOF"
  /\ "CLOSE_RECEIVED" \in new.flags <=>
       "CLOSE_RECEIVED" \in A[i].flags \/ x = "OUTPUT_CLOSED"
  /\ \A k \in DOMAIN out : /\ out[k].kind \in LaterKinds
                          /\ out[k].chan = A[i].rid /\ out[k].inst = A[i].inst
  /\ \A k, l \in DOMAIN out : out[k].kind = out[l].kind => k = l
  /\ "EOF_SENT" \in new.flags \ A[i].flags <=>
       \E k \in DOMAIN out : out[k].kind = "INPUT_EOF"
  /\ "CLOSE_SENT" \in new.flags \ A[i].flags <=>
       \E k \in DOMAIN out : out[k].kind = "OUTPUT_CLOSED"
  /\ \A k \in DOMAIN out : out[k].kind = "DATA" =>
       "EOF_SENT" \notin new.flags /\ new.type = "OPEN"
  /\ \A j \in DOMAIN B :
       /\ B[j].inst = A[i].inst /\ B[j].type = "X11_OPEN"
       /\ "EOF_SENT" \notin B[j].flags
       => "OUTPUT_CLOSED" \notin new.flags /\ new.output = << >>

\* Entry i of A becomes new, or is freed.
Stored(A, A2, i, new) ==
  /\ DOMAIN A2 = IF new.type = "FREE" THEN DOMAIN A \ {i} ELSE DOMAIN A
  /\ \A j \in DOMAIN A2 : A2[j] = IF j = i THEN new ELSE A[j]

Taken(P, P2, i, x, d) ==
  /\ Advance(P, P2, d)
  /\ d = 0 <=> x = "none"
  /\ d = 1 => P[1].kind = x /\ P[1].chan = i

\* What is on its way to or from an entry that is established.
LEMMA OfTheServed ==
  ASSUME NEW A, NEW B, NEW P, NEW Q, NEW n,
         Half(A, B, P, Q, n), Half(B, A, Q, P, n),
         NEW i \in DOMAIN A, A[i].type # "OPENING"
  PROVE  /\ \A k \in DOMAIN P : P[k].inst = A[i].inst =>
              P[k].kind \in LaterKinds /\ P[k].chan = i
         /\ \A k \in DOMAIN P : P[k].kind \in LaterKinds /\ P[k].chan = i =>
              P[k].inst = A[i].inst
         /\ \A k \in DOMAIN Q : Q[k].inst = A[i].inst => Q[k].kind \notin OpenKinds
         /\ \A k \in DOMAIN Q : Q[k].kind \in OpenKinds => Q[k].chan # i
<1>1. \A k \in DOMAIN P : P[k].inst = A[i].inst => P[k].kind \notin OpenKinds
  BY DEF Half, RequestsOK
<1>2. \A k \in DOMAIN P : P[k].inst = A[i].inst => P[k].chan = i
  BY <1>1 DEF Half, RoutesOK, EntriesOK
<1>3. \A k \in DOMAIN P : P[k].chan = i => P[k].kind \notin ReplyKinds
  BY DEF Half, RepliesOK
<1>4. \A k \in DOMAIN P : P[k].inst = A[i].inst => P[k].kind \in LaterKinds
  BY <1>1, <1>2, <1>3 DEF Half, RoutesOK, Kinds, ReplyKinds, LaterKinds
<1>5. \A k \in DOMAIN P : P[k].kind \in LaterKinds /\ P[k].chan = i =>
        P[k].inst = A[i].inst
  BY DEF Half, RoutesOK, LaterKinds, CloseKinds, OpenKinds
<1>6. \A k \in DOMAIN Q : Q[k].kind \in OpenKinds =>
         Q[k].inst # A[i].inst /\ Q[k].chan # i
  BY DEF Half, RequestsOK, EntriesOK
<1>7. QED
  BY <1>2, <1>4, <1>5, <1>6

\* When an entry is freed, nothing more is on its way to it.
LEMMA NothingLeft ==
  ASSUME NEW A, NEW B, NEW P, NEW Q, NEW n,
         Half(A, B, P, Q, n), Half(B, A, Q, P, n),
         NEW P2, NEW i, NEW new, NEW x, NEW d, NEW out,
         Served(A, B, i, new, x, out), Taken(P, P2, i, x, d), new.type = "FREE"
  PROVE  \A k \in DOMAIN P2 : P2[k].inst # A[i].inst
<1> SUFFICES ASSUME NEW k \in DOMAIN P2, P2[k].inst = A[i].inst PROVE FALSE
  OBVIOUS
<1>1. /\ Advance(P, P2, d)
      /\ d = 1 => P[1].kind = x /\ P[1].chan = i
      /\ d = 0 => x = "none"
  BY DEF Taken
<1> DEFINE l == k + d
<1>2. l \in DOMAIN P /\ l \in Nat /\ P2[k] = P[l] /\ (d = 1 => 1 \in DOMAIN P /\ 1 < l)
  BY <1>1 DEF Advance
<1> HIDE DEF l
<1>3. i \in DOMAIN A /\ A[i].type # "OPENING" /\ new.flags = Flags
  BY DEF Served
<1>4. P[l].kind \in LaterKinds /\ P[l].chan = i /\ P[l].inst = A[i].inst
  BY <1>2, <1>3, OfTheServed
<1>5. x # "none" => P[1].kind = x /\ P[1].inst = A[i].inst /\ 1 \in DOMAIN P /\ 1 < l
  BY <1>1, <1>2, <1>3, OfTheServed DEF Served, Advance
<1>6. CASE P[l].kind = "OUTPUT_CLOSED"
  <2>1. "CLOSE_RECEIVED" \notin A[i].flags
    BY <1>2, <1>4, <1>6 DEF Half, ClosingOK
  <2>2. x = "OUTPUT_CLOSED"
    BY <2>1, <1>3 DEF Served, Flags
  <2>3. QED
    BY <2>2, <1>2, <1>4, <1>5, <1>6 DEF Half, ClosingOK
<1>7. CASE P[l].kind # "OUTPUT_CLOSED"
  <2>1. "EOF_RECEIVED" \notin A[i].flags
    BY <1>2, <1>4, <1>7 DEF Half, ClosingOK, DataOK, LaterKinds, CloseKinds
  <2>2. x = "INPUT_EOF"
    BY <2>1, <1>3 DEF Served, Flags
  <2>3. QED
    BY <2>2, <1>2, <1>4, <1>5, <1>7 DEF Half, ClosingOK, DataOK, LaterKinds, CloseKinds
<1>8. QED
  BY <1>6, <1>7

\* What the entries of an end are after one of them was served.
LEMMA StoredFacts ==
  ASSUME NEW A, NEW B, NEW A2, NEW i, NEW new, NEW x, NEW out,
         Served(A, B, i, new, x, out), Stored(A, A2, i, new)
  PROVE  /\ \A j \in DOMAIN A2 :
              /\ j \in DOMAIN A /\ A2[j].inst = A[j].inst /\ A2[j].rid = A[j].rid
              /\ A2[j].type = "OPENING" <=> A[j].type = "OPENING"
              /\ A[j].flags \subseteq A2[j].flags
              /\ j # i => A2[j] = A[j]
         /\ \A j \in DOMAIN A : j # i => j \in DOMAIN A2
         /\ i \in DOMAIN A2 <=> new.type # "FREE"
         /\ i \in DOMAIN A2 => A2[i] = new /\ EntryOK(new)
         /\ i \in DOMAIN A /\ A[i].type # "OPENING"
BY DEF Served, Stored

\* Serving an entry keeps what its end relies on ...
LEMMA ServedHere ==
  ASSUME NEW A, NEW B, NEW P, NEW Q, NEW n,
         Half(A, B, P, Q, n), Half(B, A, Q, P, n),
         NEW A2, NEW P2, NEW Q2, NEW i, NEW new, NEW x, NEW d, NEW out,
         Served(A, B, i, new, x, out), Stored(A, A2, i, new),
         Taken(P, P2, i, x, d), Extend(Q, Q2, out)
  PROVE  Half(A2, B, P2, Q2, n)
<1>1. /\ \A j \in DOMAIN A2 :
           /\ j \in DOMAIN A /\ A2[j].inst = A[j].inst /\ A2[j].rid = A[j].rid
           /\ A2[j].type = "OPENING" <=> A[j].type = "OPENING"
           /\ A[j].flags \subseteq A2[j].flags
           /\ j # i => A2[j] = A[j]
      /\ \A j \in DOMAIN A : j # i => j \in DOMAIN A2
      /\ i \in DOMAIN A2 <=> new.type # "FREE"
      /\ i \in DOMAIN A2 => A2[i] = new /\ EntryOK(new)
      /\ i \in DOMAIN A /\ A[i].type # "OPENING"
  BY StoredFacts
<1>2. /\ Advance(P, P2, d) /\ d \in {0, 1}
      /\ \A k \in DOMAIN P2 : k \in Nat /\ k + d \in DOMAIN P /\ P2[k] = P[k + d]
      /\ \A k \in DOMAIN P : k \in Nat /\ ((k = 1 /\ d = 1) \/ k - d \in DOMAIN P2)
      /\ \A k \in DOMAIN P : k - d \in DOMAIN P2 => P2[k - d] = P[k]
  <2>1. Advance(P, P2, d)
    BY DEF Taken
  <2>2. d \in {0, 1}
    BY <2>1 DEF Advance
  <2>3. QED
    BY <2>1, <2>2, AdvanceFacts
<1>3. d = 1 => /\ 1 \in DOMAIN P /\ P[1].kind = x /\ P[1].chan = i
               /\ P[1].inst = A[i].inst /\ x \in LaterKinds
               /\ \A k \in DOMAIN P2 : k + d > 1
  <2>1. d = 1 => 1 \in DOMAIN P /\ \A k \in DOMAIN P2 : k + d > 1
    BY DEF Taken, Advance
  <2>2. d = 1 => P[1].kind = x /\ P[1].chan = i /\ x \in LaterKinds
    BY DEF Taken, Served
  <2>3. QED
    BY <2>1, <2>2, <1>1, OfTheServed
<1>4. /\ \A k \in DOMAIN Q2 : \/ k \in DOMAIN Q /\ Q2[k] = Q[k]
                             \/ \E l \in DOMAIN out : Q2[k] = out[l]
      /\ \A l \in DOMAIN out : out[l].kind \in LaterKinds /\ out[l].inst = A[i].inst
  BY ExtendFacts DEF Served
<1>5. \A k \in DOMAIN P2 : P2[k].kind \notin OpenKinds =>
        P2[k].chan \in DOMAIN A2 /\ A2[P2[k].chan].inst = P2[k].inst
  <2> SUFFICES ASSUME NEW k \in DOMAIN P2, P2[k].kind \notin OpenKinds
               PROVE  P2[k].chan \in DOMAIN A2 /\ A2[P2[k].chan].inst = P2[k].inst
    OBVIOUS
  <2>1. P2[k].chan \in DOMAIN A /\ A[P2[k].chan].inst = P2[k].inst
    BY <1>2 DEF Half, RoutesOK
  <2>2. new.type = "FREE" => P2[k].inst # A[i].inst
    BY NothingLeft
  <2>3. QED
    BY <2>1, <2>2, <1>1
<1>6. EntriesOK(A2, n)
  BY <1>1 DEF Half, EntriesOK
<1>7. RequestsOK(A2, B, P2, Q2, n)
  BY <1>1, <1>2, <1>4 DEF Half, RequestsOK
<1>8. RoutesOK(A2, P2)
  BY <1>2, <1>5 DEF Half, RoutesOK
<1>9. RepliesOK(A2, P2)
  BY <1>1, <1>2, <1>5 DEF Half, RepliesOK, ReplyKinds, OpenKinds
<1>10. ConfirmationsOK(B, P2) /\ FailuresOK(B, P2)
  BY <1>2 DEF Half, ConfirmationsOK, FailuresOK
<1>11. LaterOK(A2, P2)
  <2> SUFFICES ASSUME NEW k \in DOMAIN P2, P2[k].kind \in LaterKinds,
                      A2[P2[k].chan].type = "OPENING"
               PROVE  Confirmed(P2, P2[k].inst, k)
    BY DEF LaterOK
  <2>1. A[P2[k].chan].type = "OPENING"
    BY <1>1, <1>5 DEF LaterKinds, CloseKinds, OpenKinds
  <2>2. PICK l \in DOMAIN P : /\ P[l].kind = "OPEN_CONFIRMATION"
                             /\ P[l].inst = P2[k].inst /\ l < k + d
    BY <2>1, <1>2 DEF Half, LaterOK, Confirmed
  <2>3. l - d \in DOMAIN P2 /\ P2[l - d] = P[l] /\ l - d < k
    BY <2>2, <1>2, <1>3 DEF LaterKinds, CloseKinds
  <2>4. QED
    BY <2>2, <2>3 DEF Confirmed
<1>12. ASSUME NEW kind \in CloseKinds, NEW sent, NEW received,
              ClosingOK(A, B, P, kind, sent, received),
              AgreeOK(A, B, P, kind, sent, received),
              received \in new.flags <=> received \in A[i].flags \/ x = kind
       PROVE  /\ ClosingOK(A2, B, P2, kind, sent, received)
              /\ AgreeOK(A2, B, P2, kind, sent, received)
  <2>1. ASSUME NEW k \in DOMAIN P2, P2[k].kind = kind
        PROVE  /\ received \notin A2[P2[k].chan].flags
               /\ \A l \in DOMAIN P2 :
                    P2[l].inst = P2[k].inst /\ P2[l].kind = kind => l = k
               /\ \A j \in DOMAIN B : B[j].inst = P2[k].inst => sent \in B[j].flags
    <3>1. /\ k + d \in DOMAIN P /\ P[k + d] = P2[k] /\ k \in Nat
          /\ P2[k].chan \in DOMAIN A2 /\ A2[P2[k].chan].inst = P2[k].inst
      BY <1>2, <1>5, <2>1 DEF CloseKinds, OpenKinds
    <3>2. /\ received \notin A[P2[k].chan].flags
          /\ \A l \in DOMAIN P :
               P[l].inst = P2[k].inst /\ P[l].kind = kind => l = k + d
          /\ \A j \in DOMAIN B : B[j].inst = P2[k].inst => sent \in B[j].flags
      BY <1>12, <2>1, <3>1 DEF ClosingOK
    <3>3. \A l \in DOMAIN P2 :
            P2[l].inst = P2[k].inst /\ P2[l].kind = kind => l = k
      BY <1>2, <3>1, <3>2
    <3>4. CASE P2[k].chan = i /\ x = kind
      <4>1. d = 1
        BY <3>4 DEF Taken, CloseKinds, Advance
      <4>2. QED
        BY <4>1, <3>1, <3>2, <3>4, <1>1, <1>3
    <3>5. QED
      BY <1>1, <1>12, <3>1, <3>2, <3>3, <3>4
  <2>2. ASSUME NEW a \in DOMAIN A2, NEW j \in DOMAIN B, A2[a].inst = B[j].inst
        PROVE  /\ received \in A2[a].flags => sent \in B[j].flags
               /\ sent \in B[j].flags =>
                    received \in A2[a].flags \/ OnItsWay(P2, A2[a].inst, kind)
    <3>1. /\ a \in DOMAIN A /\ A[a].inst = B[j].inst
          /\ received \in A[a].flags => sent \in B[j].flags
          /\ sent \in B[j].flags =>
               received \in A[a].flags \/ OnItsWay(P, A[a].inst, kind)
      BY <1>1, <1>12, <2>2 DEF AgreeOK
    <3>2. CASE a # i
      <4>1. OnItsWay(P, A[a].inst, kind) => OnItsWay(P2, A[a].inst, kind)
        BY <1>1, <1>2, <1>3, <3>1, <3>2, StillOnItsWay DEF Half, EntriesOK
      <4>2. QED
        BY <4>1, <3>1, <3>2, <1>1
    <3>3. CASE a = i
      <4>1. A2[a].flags = new.flags /\ A2[a].inst = A[a].inst
        BY <1>1, <3>3
      <4>2. x = kind => sent \in B[j].flags
        <5>1. x = kind => d = 1
          BY DEF Taken, CloseKinds, Advance
        <5>2. QED
          BY <5>1, <1>3, <1>12, <3>1, <3>3 DEF ClosingOK
      <4>3. OnItsWay(P, A[a].inst, kind) =>
              OnItsWay(P2, A[a].inst, kind) \/ x = kind
        BY <1>2, <1>3, StillOnItsWay
      <4>4. QED
        BY <4>1, <4>2, <4>3, <1>12, <3>1, <3>3
    <3>4. QED
      BY <3>2, <3>3
  <2>3. QED
    BY <2>1, <2>2 DEF ClosingOK, AgreeOK
<1>13. /\ ClosingOK(A2, B, P2, "INPUT_EOF", "EOF_SENT", "EOF_RECEIVED")
       /\ AgreeOK(A2, B, P2, "INPUT_EOF", "EOF_SENT", "EOF_RECEIVED")
  BY <1>12 DEF Half, Served, CloseKinds
<1>14. /\ ClosingOK(A2, B, P2, "OUTPUT_CLOSED", "CLOSE_SENT", "CLOSE_RECEIVED")
       /\ AgreeOK(A2, B, P2, "OUTPUT_CLOSED", "CLOSE_SENT", "CLOSE_RECEIVED")
  BY <1>12 DEF Half, Served, CloseKinds
<1>16. DataOK(A2, P2)
  <2> SUFFICES ASSUME NEW k \in DOMAIN P2, P2[k].kind = "DATA"
               PROVE  /\ "EOF_RECEIVED" \notin A2[P2[k].chan].flags
                      /\ \A l \in DOMAIN P2 :
                           P2[l].kind = "INPUT_EOF" /\ P2[l].inst = P2[k].inst => k < l
    BY DEF DataOK
  <2>1. /\ k + d \in DOMAIN P /\ P[k + d] = P2[k] /\ k \in Nat
        /\ P2[k].chan \in DOMAIN A2 /\ A2[P2[k].chan].inst = P2[k].inst
    BY <1>2, <1>5 DEF OpenKinds
  <2>2. /\ "EOF_RECEIVED" \notin A[P2[k].chan].flags
        /\ \A l \in DOMAIN P :
             P[l].kind = "INPUT_EOF" /\ P[l].inst = P2[k].inst => k + d < l
    BY <2>1 DEF Half, DataOK
  <2>3. \A l \in DOMAIN P2 :
          P2[l].kind = "INPUT_EOF" /\ P2[l].inst = P2[k].inst => k < l
    BY <1>2, <2>1, <2>2
  <2>4. P2[k].chan = i => x # "INPUT_EOF"
    <3>1. x = "INPUT_EOF" => d = 1
      BY DEF Taken, Advance
    <3>2. QED
      BY <3>1, <1>1, <1>2, <1>3, <2>1, <2>2
  <2>5. QED
    BY <1>1, <2>1, <2>2, <2>3, <2>4 DEF Served
<1>17. LinksOK(A2, B, Q2)
  BY <1>1, OnItsWayNow DEF Half, LinksOK
<1>18. GoneOK(A2, B, P2)
  <2> SUFFICES ASSUME NEW a \in DOMAIN A2, A2[a].type # "OPENING",
                      \A j \in DOMAIN B : B[j].inst # A2[a].inst
               PROVE  /\ {"EOF_SENT", "CLOSE_SENT"} \subseteq A2[a].flags
                      /\ \/ "EOF_RECEIVED" \in A2[a].flags
                         \/ OnItsWay(P2, A2[a].inst, "INPUT_EOF")
                      /\ \/ "CLOSE_RECEIVED" \in A2[a].flags
                         \/ OnItsWay(P2, A2[a].inst, "OUTPUT_CLOSED")
    BY DEF GoneOK
  <2>1. /\ a \in DOMAIN A /\ A2[a].inst = A[a].inst /\ A[a].flags \subseteq A2[a].flags
        /\ {"EOF_SENT", "CLOSE_SENT"} \subseteq A[a].flags
        /\ "EOF_RECEIVED" \in A[a].flags \/ OnItsWay(P, A[a].inst, "INPUT_EOF")
        /\ "CLOSE_RECEIVED" \in A[a].flags \/ OnItsWay(P, A[a].inst, "OUTPUT_CLOSED")
    BY <1>1 DEF Half, GoneOK
  <2>2. \A kind : OnItsWay(P, A[a].inst, kind) =>
          OnItsWay(P2, A[a].inst, kind) \/ (x = kind /\ a = i)
    BY <1>1, <1>2, <1>3, <2>1, StillOnItsWay DEF Half, EntriesOK
  <2>3. QED
    BY <1>1, <2>1, <2>2 DEF Served
<1>19. X11OK(A2, B, Q2)
  BY <1>1, <1>4 DEF Half, X11OK, Served, EntriesOK
<1>20. QED
  BY <1>6, <1>7, <1>8, <1>9, <1>10, <1>11, <1>13, <1>14, <1>16,
     <1>17, <1>18, <1>19 DEF Half

\* Something is sent for an entry only while the peer's entry is there.
LEMMA SentToPeer ==
  ASSUME NEW A, NEW B, NEW P, NEW Q, NEW n,
         Half(A, B, P, Q, n), Half(B, A, Q, P, n),
         NEW i, NEW new, NEW x, NEW out, Served(A, B, i, new, x, out),
         NEW k \in DOMAIN out
  PROVE  /\ out[k].chan \in DOMAIN B /\ B[out[k].chan].inst = A[i].inst
         /\ out[k].kind = "DATA" \/ out[k].kind = "INPUT_EOF" =>
              "EOF_SENT" \notin A[i].flags
         /\ out[k].kind = "OUTPUT_CLOSED" => "CLOSE_SENT" \notin A[i].flags
<1>1. /\ out[k].kind = "DATA" \/ out[k].kind = "INPUT_EOF" =>
           "EOF_SENT" \notin A[i].flags
      /\ out[k].kind = "OUTPUT_CLOSED" => "CLOSE_SENT" \notin A[i].flags
      /\ out[k].kind \in LaterKinds /\ out[k].chan = A[i].rid
      /\ i \in DOMAIN A /\ A[i].type # "OPENING"
  BY DEF Served
<1>2. \E j \in DOMAIN B : B[j].inst = A[i].inst
  BY <1>1 DEF Half, GoneOK, LaterKinds, CloseKinds
<1>3. QED
  BY <1>1, <1>2 DEF Half, LinksOK

\* An entry is freed after the peer has sent both closing packets.
LEMMA FreedAfterPeer ==
  ASSUME NEW A, NEW B, NEW P, NEW Q, NEW n,
         Half(A, B, P, Q, n), Half(B, A, Q, P, n),
         NEW P2, NEW i, NEW new, NEW x, NEW d, NEW out,
         Served(A, B, i, new, x, out), Taken(P, P2, i, x, d), new.type = "FREE",
         NEW j \in DOMAIN B, B[j].inst = A[i].inst
  PROVE  {"EOF_SENT", "CLOSE_SENT"} \subseteq B[j].flags /\ B[j].type # "OPENING"
<1>1. i \in DOMAIN A /\ A[i].type # "OPENING" /\ new.flags = Flags
  BY DEF Served
<1>2. x # "none" => 1 \in DOMAIN P /\ P[1].kind = x /\ P[1].chan = i
  BY DEF Taken, Advance, Served, LaterKinds, CloseKinds
<1>3. x # "none" => P[1].inst = A[i].inst
  BY <1>1, <1>2, OfTheServed DEF Served
<1>4. "EOF_SENT" \in B[j].flags
  <2>1. CASE "EOF_RECEIVED" \in A[i].flags
    BY <1>1, <2>1 DEF Half, AgreeOK
  <2>2. CASE "EOF_RECEIVED" \notin A[i].flags
    <3>1. x = "INPUT_EOF"
      BY <1>1, <2>2 DEF Served, Flags
    <3>2. QED
      BY <3>1, <1>2, <1>3 DEF Half, ClosingOK
  <2>3. QED
    BY <2>1, <2>2
<1>5. "CLOSE_SENT" \in B[j].flags
  <2>1. CASE "CLOSE_RECEIVED" \in A[i].flags
    BY <1>1, <2>1 DEF Half, AgreeOK
  <2>2. CASE "CLOSE_RECEIVED" \notin A[i].flags
    <3>1. x = "OUTPUT_CLOSED"
      BY <1>1, <2>2 DEF Served, Flags
    <3>2. QED
      BY <3>1, <1>2, <1>3 DEF Half, ClosingOK
  <2>3. QED
    BY <2>1, <2>2
<1>6. B[j].type # "OPENING"
  BY <1>4 DEF Half, EntriesOK, EntryOK
<1>7. QED
  BY <1>4, <1>5, <1>6

\* ... and what its peer relies on.
LEMMA ServedThere ==
  ASSUME NEW A, NEW B, NEW P, NEW Q, NEW n,
         Half(A, B, P, Q, n), Half(B, A, Q, P, n),
         NEW A2, NEW P2, NEW Q2, NEW i, NEW new, NEW x, NEW d, NEW out,
         Served(A, B, i, new, x, out), Stored(A, A2, i, new),
         Taken(P, P2, i, x, d), Extend(Q, Q2, out)
  PROVE  Half(B, A2, Q2, P2, n)
<1>1. /\ \A j \in DOMAIN A2 :
           /\ j \in DOMAIN A /\ A2[j].inst = A[j].inst /\ A2[j].rid = A[j].rid
           /\ A2[j].type = "OPENING" <=> A[j].type = "OPENING"
           /\ A[j].flags \subseteq A2[j].flags
           /\ j # i => A2[j] = A[j]
      /\ \A j \in DOMAIN A : j # i => j \in DOMAIN A2
      /\ i \in DOMAIN A2 <=> new.type # "FREE"
      /\ i \in DOMAIN A2 => A2[i] = new /\ EntryOK(new)
      /\ i \in DOMAIN A /\ A[i].type # "OPENING"
  BY StoredFacts
<1>2. /\ Advance(P, P2, d)
      /\ \A k \in DOMAIN P2 : k + d \in DOMAIN P /\ P2[k] = P[k + d]
  <2>1. Advance(P, P2, d)
    BY DEF Taken
  <2>2. QED
    BY <2>1, AdvanceFacts
<1>3. d = 1 => P[1].kind \in LaterKinds
  BY DEF Taken, Served, LaterKinds, CloseKinds
<1>4. /\ \A k \in DOMAIN Q : k \in Nat /\ k \in DOMAIN Q2 /\ Q2[k] = Q[k]
      /\ \A k \in DOMAIN Q2 : k \notin DOMAIN Q =>
           /\ k - Len(Q) \in DOMAIN out /\ Q2[k] = out[k - Len(Q)]
           /\ \A l \in DOMAIN Q : l < k
      /\ Len(Q) \in Nat
      /\ \A k \in DOMAIN Q2 : k \in Nat
  <2>1. \A k \in DOMAIN Q2 : k \in Nat
    BY DEF Extend
  <2>2. QED
    BY <2>1, ExtendFacts
<1>5. \A k \in DOMAIN Q2 : k \notin DOMAIN Q =>
        /\ Q2[k].kind \in LaterKinds /\ Q2[k].inst = A[i].inst
        /\ Q2[k].chan \in DOMAIN B /\ B[Q2[k].chan].inst = A[i].inst
        /\ Q2[k].kind = "DATA" \/ Q2[k].kind = "INPUT_EOF" =>
             "EOF_SENT" \notin A[i].flags
        /\ Q2[k].kind = "OUTPUT_CLOSED" => "CLOSE_SENT" \notin A[i].flags
  <2>1. \A k \in DOMAIN out : out[k].kind \in LaterKinds /\ out[k].inst = A[i].inst
    BY DEF Served
  <2>2. QED
    BY <1>4, <2>1, SentToPeer
<1>6. new.type = "FREE" => \A j \in DOMAIN B : B[j].inst = A[i].inst =>
        {"EOF_SENT", "CLOSE_SENT"} \subseteq B[j].flags /\ B[j].type # "OPENING"
  BY FreedAfterPeer
<1>7. EntriesOK(B, n)
  BY DEF Half
<1>8. RequestsOK(B, A2, Q2, P2, n)
  <2> SUFFICES ASSUME NEW k \in DOMAIN Q2, Q2[k].kind \in OpenKinds
               PROVE  /\ Q2[k].inst \in 1 .. n
                      /\ \A j \in DOMAIN B : B[j].inst # Q2[k].inst
                      /\ Q2[k].chan \in DOMAIN A2
                      /\ A2[Q2[k].chan].type = "OPENING"
                      /\ A2[Q2[k].chan].inst = Q2[k].inst
                      /\ \A l \in DOMAIN Q2 : Q2[l].inst = Q2[k].inst => l = k
                      /\ \A l \in DOMAIN P2 : P2[l].inst # Q2[k].inst
    BY DEF RequestsOK
  <2>1. k \in DOMAIN Q /\ Q2[k] = Q[k]
    BY <1>4, <1>5 DEF LaterKinds, CloseKinds, OpenKinds
  <2>2. /\ Q[k].inst \in 1 .. n
        /\ \A j \in DOMAIN B : B[j].inst # Q[k].inst
        /\ Q[k].chan \in DOMAIN A
        /\ A[Q[k].chan].type = "OPENING" /\ A[Q[k].chan].inst = Q[k].inst
        /\ \A l \in DOMAIN Q : Q[l].inst = Q[k].inst => l = k
        /\ \A l \in DOMAIN P : P[l].inst # Q[k].inst
    BY <2>1 DEF Half, RequestsOK
  <2>3. Q[k].chan # i /\ Q[k].inst # A[i].inst
    BY <2>2, <1>1 DEF Half, EntriesOK
  <2>4. QED
    BY <1>1, <1>2, <1>4, <1>5, <2>1, <2>2, <2>3
<1>9. RoutesOK(B, Q2)
  BY <1>4, <1>5 DEF Half, RoutesOK, Kinds, LaterKinds
<1>10. RepliesOK(B, Q2)
  BY <1>4, <1>5 DEF Half, RepliesOK, ReplyKinds, LaterKinds, CloseKinds
<1>11. ConfirmationsOK(A2, Q2)
  <2> SUFFICES ASSUME NEW k \in DOMAIN Q2, Q2[k].kind = "OPEN_CONFIRMATION"
               PROVE  /\ Q2[k].from \in DOMAIN A2
                      /\ A2[Q2[k].from].type # "OPENING"
                      /\ A2[Q2[k].from].inst = Q2[k].inst
                      /\ A2[Q2[k].from].rid = Q2[k].chan
    BY DEF ConfirmationsOK
  <2>1. k \in DOMAIN Q /\ Q2[k] = Q[k]
    BY <1>4, <1>5 DEF LaterKinds, CloseKinds
  <2>2. /\ Q[k].from \in DOMAIN A /\ A[Q[k].from].type # "OPENING"
        /\ A[Q[k].from].inst = Q[k].inst /\ A[Q[k].from].rid = Q[k].chan
    BY <2>1 DEF Half, ConfirmationsOK
  <2>3. /\ Q[k].chan \in DOMAIN B /\ B[Q[k].chan].inst = Q[k].inst
        /\ B[Q[k].chan].type = "OPENING"
    BY <2>1 DEF Half, RoutesOK, RepliesOK, ReplyKinds, OpenKinds
  <2>4. Q[k].from \in DOMAIN A2
    BY <1>1, <1>6, <2>2, <2>3
  <2>5. QED
    BY <1>1, <2>1, <2>2, <2>4
<1>12. FailuresOK(A2, Q2)
  BY <1>1, <1>4, <1>5 DEF Half, FailuresOK, LaterKinds, CloseKinds
<1>13. LaterOK(B, Q2)
  <2> SUFFICES ASSUME NEW k \in DOMAIN Q2, Q2[k].kind \in LaterKinds,
                      B[Q2[k].chan].type = "OPENING"
               PROVE  Confirmed(Q2, Q2[k].inst, k)
    BY DEF LaterOK
  <2>1. CASE k \in DOMAIN Q
    BY <2>1, <1>4 DEF Half, LaterOK, Confirmed
  <2>2. CASE k \notin DOMAIN Q
    <3>1. OnItsWay(Q, A[i].inst, "OPEN_CONFIRMATION")
      BY <1>1, <1>5, <2>2 DEF Half, LinksOK
    <3>2. QED
      BY <3>1, <1>4, <1>5, <2>2 DEF OnItsWay, Confirmed
  <2>3. QED
    BY <2>1, <2>2
<1>14. ASSUME NEW kind \in CloseKinds, NEW sent, NEW received,
              ClosingOK(B, A, Q, kind, sent, received),
              AgreeOK(B, A, Q, kind, sent, received),
              sent \in new.flags \ A[i].flags <=>
                \E k \in DOMAIN out : out[k].kind = kind
       PROVE  /\ ClosingOK(B, A2, Q2, kind, sent, received)
              /\ AgreeOK(B, A2, Q2, kind, sent, received)
  <2>1. ASSUME NEW k \in DOMAIN Q2, Q2[k].kind = kind
        PROVE  /\ received \notin B[Q2[k].chan].flags
               /\ \A l \in DOMAIN Q2 :
                    Q2[l].inst = Q2[k].inst /\ Q2[l].kind = kind => l = k
               /\ \A j \in DOMAIN A2 : A2[j].inst = Q2[k].inst => sent \in A2[j].flags
    <3>1. \A l \in DOMAIN Q2 : l \notin DOMAIN Q /\ Q2[l].kind = kind =>
            /\ sent \in new.flags /\ sent \notin A[i].flags
            /\ Q2[l].inst = A[i].inst /\ Q2[l].chan \in DOMAIN B
            /\ B[Q2[l].chan].inst = A[i].inst
      BY <1>4, <1>5, <1>14
    <3>2. \A l \in DOMAIN Q : Q[l].kind = kind =>
            /\ received \notin B[Q[l].chan].flags
            /\ \A y \in DOMAIN Q : Q[y].inst = Q[l].inst /\ Q[y].kind = kind => y = l
            /\ \A j \in DOMAIN A : A[j].inst = Q[l].inst => sent \in A[j].flags
      BY <1>14 DEF ClosingOK
    <3>3. CASE k \in DOMAIN Q
      BY <1>1, <1>4, <2>1, <3>1, <3>2, <3>3
    <3>4. CASE k \notin DOMAIN Q
      <4>1. received \notin B[Q2[k].chan].flags
        BY <1>1, <1>14, <2>1, <3>1, <3>4 DEF AgreeOK
      <4>2. ASSUME NEW l \in DOMAIN Q2, Q2[l].inst = Q2[k].inst, Q2[l].kind = kind
            PROVE  l = k
        <5>1. l \notin DOMAIN Q
          BY <1>1, <1>4, <2>1, <3>1, <3>2, <3>4, <4>2
        <5>2. /\ k - Len(Q) \in DOMAIN out /\ Q2[k] = out[k - Len(Q)]
              /\ l - Len(Q) \in DOMAIN out /\ Q2[l] = out[l - Len(Q)]
          BY <1>4, <3>4, <5>1
        <5>3. k - Len(Q) = l - Len(Q)
          BY <2>1, <4>2, <5>2 DEF Served
        <5>4. QED
          BY <1>4, <5>3
      <4>3. \A j \in DOMAIN A2 : A2[j].inst = Q2[k].inst => sent \in A2[j].flags
        BY <1>1, <2>1, <3>1, <3>4 DEF Half, EntriesOK
      <4>4. QED
        BY <4>1, <4>2, <4>3
    <3>5. QED
      BY <3>3, <3>4
  <2>2. ASSUME NEW j \in DOMAIN B, NEW a \in DOMAIN A2, B[j].inst = A2[a].inst
        PROVE  /\ received \in B[j].flags => sent \in A2[a].flags
               /\ sent \in A2[a].flags =>
                    received \in B[j].flags \/ OnItsWay(Q2, B[j].inst, kind)
    <3>1. /\ received \in B[j].flags => sent \in A[a].flags
          /\ sent \in A[a].flags =>
               received \in B[j].flags \/ OnItsWay(Q, B[j].inst, kind)
      BY <1>1, <1>14, <2>2 DEF AgreeOK
    <3>2. sent \in A2[a].flags /\ sent \notin A[a].flags =>
            OnItsWay(out, B[j].inst, kind)
      BY <1>1, <1>14, <2>2 DEF OnItsWay, Served
    <3>3. QED
      BY <1>1, <3>1, <3>2, OnItsWayNow
  <2>3. QED
    BY <2>1, <2>2 DEF ClosingOK, AgreeOK
<1>15. /\ ClosingOK(B, A2, Q2, "INPUT_EOF", "EOF_SENT", "EOF_RECEIVED")
       /\ AgreeOK(B, A2, Q2, "INPUT_EOF", "EOF_SENT", "EOF_RECEIVED")
  BY <1>14 DEF Half, Served, CloseKinds
<1>16. /\ ClosingOK(B, A2, Q2, "OUTPUT_CLOSED", "CLOSE_SENT", "CLOSE_RECEIVED")
       /\ AgreeOK(B, A2, Q2, "OUTPUT_CLOSED", "CLOSE_SENT", "CLOSE_RECEIVED")
  BY <1>14 DEF Half, Served, CloseKinds
<1>17. DataOK(B, Q2)
  <2> SUFFICES ASSUME NEW k \in DOMAIN Q2, Q2[k].kind = "DATA"
               PROVE  /\ "EOF_RECEIVED" \notin B[Q2[k].chan].flags
                      /\ \A l \in DOMAIN Q2 :
                           Q2[l].kind = "INPUT_EOF" /\ Q2[l].inst = Q2[k].inst => k < l
    BY DEF DataOK
  <2>1. CASE k \in DOMAIN Q
    BY <2>1, <1>4 DEF Half, DataOK
  <2>2. CASE k \notin DOMAIN Q
    <3>1. "EOF_SENT" \notin A[i].flags
      BY <1>5, <2>2
    <3>2. "EOF_RECEIVED" \notin B[Q2[k].chan].flags
      BY <1>1, <1>5, <2>2, <3>1 DEF Half, AgreeOK
    <3>3. \A l \in DOMAIN Q : ~(Q[l].kind = "INPUT_EOF" /\ Q[l].inst = A[i].inst)
      BY <1>1, <3>1 DEF Half, ClosingOK
    <3>4. \A l \in DOMAIN out : out[l].kind # "INPUT_EOF"
      BY <1>4, <2>2, <3>1 DEF Served
    <3>5. QED
      BY <1>4, <1>5, <2>2, <3>2, <3>3, <3>4
  <2>3. QED
    BY <2>1, <2>2
<1>18. LinksOK(B, A2, P2)
  <2>1. \A c : OnItsWay(P, c, "OPEN_CONFIRMATION") =>
               OnItsWay(P2, c, "OPEN_CONFIRMATION")
    BY <1>2, <1>3, StillOnItsWay DEF LaterKinds, CloseKinds
  <2>2. QED
    BY <1>1, <2>1 DEF Half, LinksOK
<1>19. GoneOK(B, A2, Q2)
  <2> SUFFICES ASSUME NEW j \in DOMAIN B, B[j].type # "OPENING",
                      \A a \in DOMAIN A2 : A2[a].inst # B[j].inst
               PROVE  /\ {"EOF_SENT", "CLOSE_SENT"} \subseteq B[j].flags
                      /\ \/ "EOF_RECEIVED" \in B[j].flags
                         \/ OnItsWay(Q2, B[j].inst, "INPUT_EOF")
                      /\ \/ "CLOSE_RECEIVED" \in B[j].flags
                         \/ OnItsWay(Q2, B[j].inst, "OUTPUT_CLOSED")
    BY DEF GoneOK
  <2>1. CASE \A a \in DOMAIN A : A[a].inst # B[j].inst
    BY <2>1, OnItsWayNow DEF Half, GoneOK
  <2>2. CASE \E a \in DOMAIN A : A[a].inst = B[j].inst
    <3>1. A[i].inst = B[j].inst /\ new.type = "FREE"
      BY <1>1, <2>2
    <3>2. new.flags = Flags /\ {"EOF_SENT", "CLOSE_SENT"} \subseteq B[j].flags
      BY <1>6, <3>1 DEF Served
    <3>3. \/ "EOF_RECEIVED" \in B[j].flags \/ OnItsWay(Q, B[j].inst, "INPUT_EOF")
          \/ OnItsWay(out, B[j].inst, "INPUT_EOF")
      BY <1>1, <3>1, <3>2 DEF Half, AgreeOK, Served, Flags, OnItsWay
    <3>4. \/ "CLOSE_RECEIVED" \in B[j].flags \/ OnItsWay(Q, B[j].inst, "OUTPUT_CLOSED")
          \/ OnItsWay(out, B[j].inst, "OUTPUT_CLOSED")
      BY <1>1, <3>1, <3>2 DEF Half, AgreeOK, Served, Flags, OnItsWay
    <3>5. QED
      BY <3>2, <3>3, <3>4, OnItsWayNow
  <2>3. QED
    BY <2>1, <2>2
<1>20. X11OK(B, A2, P2)
  BY <1>1, <1>2 DEF Half, X11OK, Served
<1>21. QED
  BY <1>7, <1>8, <1>9, <1>10, <1>11, <1>12, <1>13, <1>15, <1>16, <1>17, <1>18,
     <1>19, <1>20 DEF Half

-----------------------------------------------------------------------------
(* A connection is opened: the steps that add an entry, or answer for one. *)

\* Entry new is added in slot s.
Added(A, A2, s, new) ==
  /\ s \notin DOMAIN A /\ DOMAIN A2 = DOMAIN A \cup {s}
  /\ \A j \in DOMAIN A2 : A2[j] = IF j = s THEN new ELSE A[j]

\* One packet is sent.
Sends(Q, Q2, m) ==
  /\ Len(Q) \in Nat /\ DOMAIN Q = 1 .. Len(Q) /\ DOMAIN Q2 = 1 .. Len(Q) + 1
  /\ \A k \in DOMAIN Q : Q2[k] = Q[k]
  /\ Q2[Len(Q) + 1] = m

\* What is in the queue was there before, or is the one sent, which is last.
LEMMA SendsFacts ==
  ASSUME NEW Q, NEW Q2, NEW m, Sends(Q, Q2, m)
  PROVE  /\ \A k \in DOMAIN Q : k \in DOMAIN Q2 /\ Q2[k] = Q[k] /\ k < Len(Q) + 1
         /\ \A k \in DOMAIN Q2 : k \in DOMAIN Q \/ k = Len(Q) + 1
         /\ Len(Q) + 1 \in DOMAIN Q2 \ DOMAIN Q /\ Q2[Len(Q) + 1] = m
         /\ \A c, kind : OnItsWay(Q2, c, kind) <=>
              OnItsWay(Q, c, kind) \/ (m.kind = kind /\ m.inst = c)
<1>1. /\ \A k \in DOMAIN Q : k \in DOMAIN Q2 /\ Q2[k] = Q[k] /\ k < Len(Q) + 1
      /\ \A k \in DOMAIN Q2 : k \in DOMAIN Q \/ k = Len(Q) + 1
      /\ Len(Q) + 1 \in DOMAIN Q2 \ DOMAIN Q /\ Q2[Len(Q) + 1] = m
  BY DEF Sends
<1>2. QED
  BY <1>1 DEF OnItsWay

\* Every packet is of a connection that has been opened.
LEMMA InstancesKnown ==
  ASSUME NEW A, NEW B, NEW P, NEW Q, NEW n, Half(A, B, P, Q, n)
  PROVE  /\ \A k \in DOMAIN P : P[k].inst \in 1 .. n
         /\ \A i \in DOMAIN A : A[i].inst \in 1 .. n
BY DEF Half, RequestsOK, RoutesOK, EntriesOK

\* A listener accepts: the entry is OPENING and the open request goes out.
Accepts(A, A2, Q, Q2, s, new, m, n) ==
  /\ Added(A, A2, s, new) /\ Sends(Q, Q2, m)
  /\ EntryOK(new) /\ new.type = "OPENING" /\ new.inst = n + 1
  /\ m.kind \in OpenKinds /\ m.chan = s /\ m.inst = n + 1

\* The end that accepts a connection and asks for it to be opened: its own view.
LEMMA AcceptsHere ==
  ASSUME NEW A, NEW B, NEW P, NEW Q, NEW n \in Nat,
         Half(A, B, P, Q, n), Half(B, A, Q, P, n),
         NEW A2, NEW Q2, NEW s, NEW new, NEW m, Accepts(A, A2, Q, Q2, s, new, m, n)
  PROVE  Half(A2, B, P, Q2, n + 1)
<1>1. /\ s \notin DOMAIN A /\ DOMAIN A2 = DOMAIN A \cup {s} /\ A2[s] = new
      /\ \A j \in DOMAIN A : j # s /\ A2[j] = A[j]
      /\ EntryOK(new) /\ new.type = "OPENING" /\ new.inst = n + 1
      /\ m.kind \in OpenKinds /\ m.inst = n + 1
  BY DEF Accepts, Added
<1>2. /\ \A k \in DOMAIN P : P[k].inst \in 1 .. n
      /\ \A i \in DOMAIN A : A[i].inst \in 1 .. n
      /\ \A i \in DOMAIN B : B[i].inst \in 1 .. n
      /\ \A c \in 1 .. n : c # n + 1 /\ c \in 1 .. n + 1
      /\ n + 1 \in 1 .. n + 1
  BY InstancesKnown
<1>3. \A k \in DOMAIN P : P[k].kind \notin OpenKinds =>
        /\ P[k].chan \in DOMAIN A /\ P[k].chan \in DOMAIN A2
        /\ A2[P[k].chan] = A[P[k].chan]
  BY <1>1 DEF Half, RoutesOK
<1>4. Sends(Q, Q2, m)
  BY DEF Accepts
<1>5. /\ \A k \in DOMAIN Q2 : Q2[k] = m \/ (k \in DOMAIN Q /\ Q2[k] = Q[k])
      /\ \A c, kind : OnItsWay(Q, c, kind) => OnItsWay(Q2, c, kind)
  BY <1>4, SendsFacts
<1>6. EntriesOK(A2, n + 1)
  BY <1>1, <1>2 DEF Half, EntriesOK
<1>7. RequestsOK(A2, B, P, Q2, n + 1)
  BY <1>1, <1>2, <1>5 DEF Half, RequestsOK
<1>8. RoutesOK(A2, P) /\ RepliesOK(A2, P) /\ LaterOK(A2, P) /\ DataOK(A2, P)
  BY <1>1, <1>3 DEF Half, RoutesOK, RepliesOK, LaterOK, DataOK, ReplyKinds, OpenKinds,
     LaterKinds, CloseKinds
<1>9. ConfirmationsOK(B, P) /\ FailuresOK(B, P)
  BY DEF Half
<1>10. ASSUME NEW kind \in CloseKinds, NEW sent, NEW received,
              ClosingOK(A, B, P, kind, sent, received),
              AgreeOK(A, B, P, kind, sent, received)
       PROVE  /\ ClosingOK(A2, B, P, kind, sent, received)
              /\ AgreeOK(A2, B, P, kind, sent, received)
  BY <1>1, <1>2, <1>3, <1>10 DEF ClosingOK, AgreeOK, CloseKinds, OpenKinds
<1>11. /\ ClosingOK(A2, B, P, "INPUT_EOF", "EOF_SENT", "EOF_RECEIVED")
       /\ AgreeOK(A2, B, P, "INPUT_EOF", "EOF_SENT", "EOF_RECEIVED")
       /\ ClosingOK(A2, B, P, "OUTPUT_CLOSED", "CLOSE_SENT", "CLOSE_RECEIVED")
       /\ AgreeOK(A2, B, P, "OUTPUT_CLOSED", "CLOSE_SENT", "CLOSE_RECEIVED")
  BY <1>10 DEF Half, CloseKinds
<1>12. LinksOK(A2, B, Q2) /\ GoneOK(A2, B, P)
  BY <1>1, <1>2, <1>5 DEF Half, LinksOK, GoneOK
<1>13. X11OK(A2, B, Q2)
  BY <1>1, <1>2, <1>5 DEF Half, X11OK, OpenKinds
<1>14. QED
  BY <1>6, <1>7, <1>8, <1>9, <1>11, <1>12, <1>13 DEF Half

\* The same step as the peer sees it: one more opening packet to come.
LEMMA AcceptsThere ==
  ASSUME NEW A, NEW B, NEW P, NEW Q, NEW n \in Nat,
         Half(A, B, P, Q, n), Half(B, A, Q, P, n),
         NEW A2, NEW Q2, NEW s, NEW new, NEW m, Accepts(A, A2, Q, Q2, s, new, m, n)
  PROVE  Half(B, A2, Q2, P, n + 1)
<1>1. /\ s \notin DOMAIN A /\ DOMAIN A2 = DOMAIN A \cup {s} /\ A2[s] = new
      /\ \A j \in DOMAIN A : j # s /\ A2[j] = A[j]
      /\ EntryOK(new) /\ new.type = "OPENING" /\ new.inst = n + 1
      /\ m.kind \in OpenKinds /\ m.inst = n + 1 /\ m.chan = s
  BY DEF Accepts, Added
<1>2. /\ \A k \in DOMAIN P : P[k].inst \in 1 .. n
      /\ \A k \in DOMAIN Q : Q[k].inst \in 1 .. n
      /\ \A i \in DOMAIN A : A[i].inst \in 1 .. n
      /\ \A i \in DOMAIN B : B[i].inst \in 1 .. n
      /\ \A c \in 1 .. n : c # n + 1 /\ c \in 1 .. n + 1
      /\ n + 1 \in 1 .. n + 1
  BY InstancesKnown
<1>3. Sends(Q, Q2, m)
  BY DEF Accepts
<1> DEFINE last == Len(Q) + 1
<1>4. /\ \A k \in DOMAIN Q : k \in DOMAIN Q2 /\ Q2[k] = Q[k]
      /\ \A k \in DOMAIN Q2 : k \in DOMAIN Q \/ k = last
      /\ last \in DOMAIN Q2 \ DOMAIN Q /\ Q2[last] = m
      /\ \A c, kind : OnItsWay(Q, c, kind) => OnItsWay(Q2, c, kind)
  BY <1>3, SendsFacts
<1> HIDE DEF last
<1>5. EntriesOK(B, n + 1)
  BY <1>2 DEF Half, EntriesOK
<1>6. RequestsOK(B, A2, Q2, P, n + 1)
  BY <1>1, <1>2, <1>4 DEF Half, RequestsOK
<1>7. RoutesOK(B, Q2) /\ RepliesOK(B, Q2)
  BY <1>1, <1>2, <1>4 DEF Half, RoutesOK, RepliesOK, Kinds, ReplyKinds, OpenKinds
<1>8. ConfirmationsOK(A2, Q2) /\ FailuresOK(A2, Q2)
  BY <1>1, <1>2, <1>4 DEF Half, ConfirmationsOK, FailuresOK, OpenKinds
<1>9. LaterOK(B, Q2) /\ DataOK(B, Q2)
  BY <1>1, <1>4 DEF Half, LaterOK, DataOK, Confirmed, LaterKinds, CloseKinds, OpenKinds
<1>10. ASSUME NEW kind \in CloseKinds, NEW sent, NEW received,
              ClosingOK(B, A, Q, kind, sent, received),
              AgreeOK(B, A, Q, kind, sent, received)
       PROVE  /\ ClosingOK(B, A2, Q2, kind, sent, received)
              /\ AgreeOK(B, A2, Q2, kind, sent, received)
  BY <1>1, <1>2, <1>4, <1>10 DEF ClosingOK, AgreeOK, CloseKinds, OpenKinds
<1>11. /\ ClosingOK(B, A2, Q2, "INPUT_EOF", "EOF_SENT", "EOF_RECEIVED")
       /\ AgreeOK(B, A2, Q2, "INPUT_EOF", "EOF_SENT", "EOF_RECEIVED")
       /\ ClosingOK(B, A2, Q2, "OUTPUT_CLOSED", "CLOSE_SENT", "CLOSE_RECEIVED")
       /\ AgreeOK(B, A2, Q2, "OUTPUT_CLOSED", "CLOSE_SENT", "CLOSE_RECEIVED")
  BY <1>10 DEF Half, CloseKinds
<1>12. LinksOK(B, A2, P) /\ GoneOK(B, A2, Q2) /\ X11OK(B, A2, P)
  BY <1>1, <1>2, <1>4 DEF Half, LinksOK, GoneOK, X11OK
<1>13. QED
  BY <1>5, <1>6, <1>7, <1>8, <1>9, <1>11, <1>12 DEF Half

\* When a packet that opens a connection or answers for one is taken, the rest
\* of the queue still finds entries with the same flags.
LEMMA TakenKeeps ==
  ASSUME NEW A, NEW B, NEW P, NEW Q, NEW n, Half(A, B, P, Q, n),
         NEW A2, NEW P2, Advance(P, P2, 1), P[1].kind \in OpenKinds \cup ReplyKinds,
         \A k \in DOMAIN P2 : P2[k].kind \notin OpenKinds =>
           /\ P2[k].chan \in DOMAIN A2
           /\ A2[P2[k].chan].inst = A[P2[k].chan].inst
           /\ A2[P2[k].chan].flags = A[P2[k].chan].flags
           /\ P2[k].kind \in ReplyKinds => A2[P2[k].chan].type = "OPENING"
           /\ A2[P2[k].chan].type = "OPENING" =>
                /\ A[P2[k].chan].type = "OPENING"
                /\ P[1].kind = "OPEN_CONFIRMATION" => P[1].inst # P2[k].inst
  PROVE  /\ RoutesOK(A2, P2) /\ RepliesOK(A2, P2) /\ LaterOK(A2, P2)
         /\ ConfirmationsOK(B, P2) /\ FailuresOK(B, P2) /\ DataOK(A2, P2)
         /\ ClosingOK(A2, B, P2, "INPUT_EOF", "EOF_SENT", "EOF_RECEIVED")
         /\ ClosingOK(A2, B, P2, "OUTPUT_CLOSED", "CLOSE_SENT", "CLOSE_RECEIVED")
         /\ \A c, kind : kind \in CloseKinds =>
              (OnItsWay(P2, c, kind) <=> OnItsWay(P, c, kind))
<1>1. /\ \A k \in DOMAIN P2 : k + 1 \in DOMAIN P /\ P2[k] = P[k + 1] /\ k \in Nat
      /\ \A k \in DOMAIN P : k \in Nat /\ (k = 1 \/ k - 1 \in DOMAIN P2)
      /\ \A k \in DOMAIN P : k - 1 \in DOMAIN P2 => P2[k - 1] = P[k]
  BY AdvanceFacts
<1>2. \A k \in DOMAIN P2 : P2[k].kind \notin OpenKinds =>
        /\ P2[k].chan \in DOMAIN A /\ P2[k].chan \in DOMAIN A2
        /\ A2[P2[k].chan].inst = P2[k].inst
        /\ A2[P2[k].chan].flags = A[P2[k].chan].flags
        /\ P2[k].kind \in ReplyKinds => A2[P2[k].chan].type = "OPENING"
        /\ A2[P2[k].chan].type = "OPENING" =>
             /\ A[P2[k].chan].type = "OPENING"
             /\ P[1].kind = "OPEN_CONFIRMATION" => P[1].inst # P2[k].inst
  BY <1>1 DEF Half, RoutesOK
<1>3. RoutesOK(A2, P2)
  BY <1>1, <1>2 DEF Half, RoutesOK
<1>4. RepliesOK(A2, P2)
  <2> SUFFICES ASSUME NEW k \in DOMAIN P2, P2[k].kind \in ReplyKinds
               PROVE  \A l \in DOMAIN P2 : P2[l].inst = P2[k].inst /\ l # k =>
                        k < l /\ P2[l].kind \notin ReplyKinds
    BY <1>2 DEF RepliesOK, ReplyKinds, OpenKinds
  <2>1. k + 1 \in DOMAIN P /\ P2[k] = P[k + 1] /\ k \in Nat
    BY <1>1
  <2>2. \A l \in DOMAIN P : P[l].inst = P2[k].inst /\ l # k + 1 =>
          k + 1 < l /\ P[l].kind \notin ReplyKinds
    BY <2>1 DEF Half, RepliesOK
  <2>3. QED
    BY <1>1, <2>1, <2>2
<1>5. LaterOK(A2, P2)
  <2> SUFFICES ASSUME NEW k \in DOMAIN P2, P2[k].kind \in LaterKinds,
                      A2[P2[k].chan].type = "OPENING"
               PROVE  Confirmed(P2, P2[k].inst, k)
    BY DEF LaterOK
  <2>1. /\ A[P2[k].chan].type = "OPENING"
        /\ P[1].kind = "OPEN_CONFIRMATION" => P[1].inst # P2[k].inst
    BY <1>2 DEF LaterKinds, CloseKinds, OpenKinds
  <2>2. PICK l \in DOMAIN P : /\ P[l].kind = "OPEN_CONFIRMATION"
                             /\ P[l].inst = P2[k].inst /\ l < k + 1
    BY <1>1, <2>1 DEF Half, LaterOK, Confirmed
  <2>3. l - 1 \in DOMAIN P2 /\ P2[l - 1] = P[l] /\ l - 1 < k
    BY <1>1, <2>1, <2>2
  <2>4. QED
    BY <2>2, <2>3 DEF Confirmed
<1>6. ConfirmationsOK(B, P2) /\ FailuresOK(B, P2)
  BY <1>1 DEF Half, ConfirmationsOK, FailuresOK
<1>7. DataOK(A2, P2)
  <2> SUFFICES ASSUME NEW k \in DOMAIN P2, P2[k].kind = "DATA"
               PROVE  /\ "EOF_RECEIVED" \notin A2[P2[k].chan].flags
                      /\ \A l \in DOMAIN P2 :
                           P2[l].kind = "INPUT_EOF" /\ P2[l].inst = P2[k].inst => k < l
    BY DEF DataOK
  <2>1. k + 1 \in DOMAIN P /\ P2[k] = P[k + 1] /\ k \in Nat
    BY <1>1
  <2>2. /\ "EOF_RECEIVED" \notin A[P2[k].chan].flags
        /\ \A l \in DOMAIN P :
             P[l].kind = "INPUT_EOF" /\ P[l].inst = P2[k].inst => k + 1 < l
    BY <2>1 DEF Half, DataOK
  <2>3. \A l \in DOMAIN P2 :
          P2[l].kind = "INPUT_EOF" /\ P2[l].inst = P2[k].inst => k < l
    BY <1>1, <2>1, <2>2
  <2>4. QED
    BY <1>2, <2>2, <2>3 DEF OpenKinds
<1>8. ASSUME NEW kind \in CloseKinds, NEW sent, NEW received,
             ClosingOK(A, B, P, kind, sent, received)
      PROVE  ClosingOK(A2, B, P2, kind, sent, received)
  BY <1>1, <1>2, <1>8 DEF ClosingOK, CloseKinds, OpenKinds
<1>9. \A c, kind : kind \in CloseKinds =>
        (OnItsWay(P2, c, kind) <=> OnItsWay(P, c, kind))
  BY StillOnItsWay DEF CloseKinds, OpenKinds, ReplyKinds
<1>10. QED
  BY <1>3, <1>4, <1>5, <1>6, <1>7, <1>8, <1>9 DEF Half, CloseKinds

\* What an open request at the head of the queue says of its connection.
LEMMA OfTheRequest ==
  ASSUME NEW A, NEW B, NEW P, NEW P2, NEW Q, NEW n,
         Half(A, B, P, Q, n), Half(B, A, Q, P, n),
         Advance(P, P2, 1), P[1].kind \in OpenKinds
  PROVE  /\ P[1].inst \in 1 .. n
         /\ \A i \in DOMAIN A : A[i].inst # P[1].inst
         /\ P[1].chan \in DOMAIN B /\ B[P[1].chan].type = "OPENING"
         /\ B[P[1].chan].inst = P[1].inst /\ B[P[1].chan].flags = {}
         /\ B[P[1].chan].output = << >>
         /\ \A j \in DOMAIN B : B[j].inst = P[1].inst => j = P[1].chan
         /\ \A k \in DOMAIN P2 : P2[k].inst # P[1].inst
         /\ \A k \in DOMAIN Q : Q[k].inst # P[1].inst
         /\ \A k \in DOMAIN P2 : k + 1 \in DOMAIN P /\ P2[k] = P[k + 1] /\ k \in Nat
         /\ \A k \in DOMAIN P : k \in Nat /\ (k = 1 \/ k - 1 \in DOMAIN P2)
         /\ \A k \in DOMAIN P : k - 1 \in DOMAIN P2 => P2[k - 1] = P[k]
         /\ \A c, kind : kind \notin OpenKinds =>
              (OnItsWay(P2, c, kind) <=> OnItsWay(P, c, kind))
<1>1. 1 \in DOMAIN P
  BY DEF Advance
<1>2. /\ P[1].inst \in 1 .. n
      /\ \A i \in DOMAIN A : A[i].inst # P[1].inst
      /\ P[1].chan \in DOMAIN B /\ B[P[1].chan].type = "OPENING"
      /\ B[P[1].chan].inst = P[1].inst
      /\ \A l \in DOMAIN P : P[l].inst = P[1].inst => l = 1
      /\ \A l \in DOMAIN Q : Q[l].inst # P[1].inst
  BY <1>1 DEF Half, RequestsOK
<1>3. /\ B[P[1].chan].flags = {} /\ B[P[1].chan].output = << >>
      /\ \A j \in DOMAIN B : B[j].inst = P[1].inst => j = P[1].chan
  BY <1>2 DEF Half, EntriesOK, EntryOK
<1>4. /\ \A k \in DOMAIN P2 : k + 1 \in DOMAIN P /\ P2[k] = P[k + 1] /\ k \in Nat
      /\ \A k \in DOMAIN P : k \in Nat /\ (k = 1 \/ k - 1 \in DOMAIN P2)
      /\ \A k \in DOMAIN P : k - 1 \in DOMAIN P2 => P2[k - 1] = P[k]
  BY AdvanceFacts
<1>5. \A k \in DOMAIN P2 : k + 1 # 1
  BY DEF Advance
<1>6. \A k \in DOMAIN P2 : P2[k].inst # P[1].inst
  BY <1>2, <1>4, <1>5
<1>7. \A c, kind : kind \notin OpenKinds =>
        (OnItsWay(P2, c, kind) <=> OnItsWay(P, c, kind))
  BY StillOnItsWay
<1>8. QED
  BY <1>2, <1>3, <1>4, <1>6, <1>7

\* The request is granted: a new entry answers with a confirmation.
Grants(A, A2, P, P2, Q, Q2, s, new, m) ==
  /\ Advance(P, P2, 1) /\ P[1].kind \in OpenKinds
  /\ Added(A, A2, s, new) /\ Sends(Q, Q2, m)
  /\ EntryOK(new) /\ new.type \in {"OPEN", "X11_OPEN"} /\ new.flags = {}
  /\ new.rid = P[1].chan /\ new.inst = P[1].inst
  /\ m.kind = "OPEN_CONFIRMATION" /\ m.chan = P[1].chan /\ m.from = s
  /\ m.inst = P[1].inst

\* An opening packet is taken and granted: the view of the end that grants.
LEMMA GrantsHere ==
  ASSUME NEW A, NEW B, NEW P, NEW Q, NEW n,
         Half(A, B, P, Q, n), Half(B, A, Q, P, n),
         NEW A2, NEW P2, NEW Q2, NEW s, NEW new, NEW m,
         Grants(A, A2, P, P2, Q, Q2, s, new, m)
  PROVE  Half(A2, B, P2, Q2, n)
<1> DEFINE c  == P[1].inst
           j0 == P[1].chan
<1>1. /\ s \notin DOMAIN A /\ DOMAIN A2 = DOMAIN A \cup {s} /\ A2[s] = new
      /\ \A j \in DOMAIN A : j # s /\ A2[j] = A[j]
      /\ EntryOK(new) /\ new.type \in {"OPEN", "X11_OPEN"} /\ new.flags = {}
      /\ new.rid = j0 /\ new.inst = c
      /\ m.kind = "OPEN_CONFIRMATION" /\ m.inst = c
  BY DEF Grants, Added
<1>2. /\ c \in 1 .. n
      /\ \A i \in DOMAIN A : A[i].inst # c
      /\ j0 \in DOMAIN B /\ B[j0].type = "OPENING" /\ B[j0].inst = c
      /\ B[j0].flags = {} /\ B[j0].output = << >>
      /\ \A j \in DOMAIN B : B[j].inst = c => j = j0
      /\ \A k \in DOMAIN P2 : P2[k].inst # c
      /\ \A k \in DOMAIN Q : Q[k].inst # c
      /\ \A k \in DOMAIN P2 : k + 1 \in DOMAIN P /\ P2[k] = P[k + 1] /\ k \in Nat
      /\ \A k \in DOMAIN P : k \in Nat /\ (k = 1 \/ k - 1 \in DOMAIN P2)
      /\ \A k \in DOMAIN P : k - 1 \in DOMAIN P2 => P2[k - 1] = P[k]
      /\ \A d, kind : kind \notin OpenKinds =>
           (OnItsWay(P2, d, kind) <=> OnItsWay(P, d, kind))
      /\ P[1].kind \in OpenKinds
  BY OfTheRequest DEF Grants
<1>3. Sends(Q, Q2, m)
  BY DEF Grants
<1>4. /\ \A k \in DOMAIN Q2 : Q2[k] = m \/ (k \in DOMAIN Q /\ Q2[k] = Q[k])
      /\ \A d, kind : OnItsWay(Q, d, kind) => OnItsWay(Q2, d, kind)
      /\ OnItsWay(Q2, c, "OPEN_CONFIRMATION")
  BY <1>1, <1>3, SendsFacts
<1> HIDE DEF c, j0
<1>5. \A k \in DOMAIN P2 : P2[k].kind \notin OpenKinds =>
        /\ P2[k].chan \in DOMAIN A /\ P2[k].chan \in DOMAIN A2
        /\ A2[P2[k].chan] = A[P2[k].chan]
  BY <1>1, <1>2 DEF Half, RoutesOK
<1>6. EntriesOK(A2, n)
  BY <1>1, <1>2 DEF Half, EntriesOK
<1>7. RequestsOK(A2, B, P2, Q2, n)
  <2> SUFFICES ASSUME NEW k \in DOMAIN P2, P2[k].kind \in OpenKinds
               PROVE  /\ P2[k].inst \in 1 .. n
                      /\ \A i \in DOMAIN A2 : A2[i].inst # P2[k].inst
                      /\ P2[k].chan \in DOMAIN B
                      /\ B[P2[k].chan].type = "OPENING"
                      /\ B[P2[k].chan].inst = P2[k].inst
                      /\ \A l \in DOMAIN P2 : P2[l].inst = P2[k].inst => l = k
                      /\ \A l \in DOMAIN Q2 : Q2[l].inst # P2[k].inst
    BY DEF RequestsOK
  <2>1. k + 1 \in DOMAIN P /\ P2[k] = P[k + 1] /\ k \in Nat /\ P2[k].inst # c
    BY <1>2
  <2>2. /\ P2[k].inst \in 1 .. n
        /\ \A i \in DOMAIN A : A[i].inst # P2[k].inst
        /\ P2[k].chan \in DOMAIN B
        /\ B[P2[k].chan].type = "OPENING" /\ B[P2[k].chan].inst = P2[k].inst
        /\ \A l \in DOMAIN P : P[l].inst = P2[k].inst => l = k + 1
        /\ \A l \in DOMAIN Q : Q[l].inst # P2[k].inst
    BY <2>1 DEF Half, RequestsOK
  <2>3. \A l \in DOMAIN P2 : P2[l].inst = P2[k].inst => l = k
    BY <1>2, <2>1, <2>2
  <2>4. QED
    BY <1>1, <1>4, <2>1, <2>2, <2>3
<1>8. /\ RoutesOK(A2, P2) /\ RepliesOK(A2, P2) /\ LaterOK(A2, P2)
      /\ ConfirmationsOK(B, P2) /\ FailuresOK(B, P2) /\ DataOK(A2, P2)
      /\ ClosingOK(A2, B, P2, "INPUT_EOF", "EOF_SENT", "EOF_RECEIVED")
      /\ ClosingOK(A2, B, P2, "OUTPUT_CLOSED", "CLOSE_SENT", "CLOSE_RECEIVED")
  <2>1. \A k \in DOMAIN P2 : P2[k].kind \in ReplyKinds =>
          A[P2[k].chan].type = "OPENING"
    BY <1>2 DEF Half, RepliesOK
  <2>2. P[1].kind # "OPEN_CONFIRMATION" /\ Advance(P, P2, 1)
    BY <1>2 DEF OpenKinds, Grants
  <2>3. QED
    BY <1>2, <1>5, <2>1, <2>2, TakenKeeps
<1>9. /\ AgreeOK(A2, B, P2, "INPUT_EOF", "EOF_SENT", "EOF_RECEIVED")
      /\ AgreeOK(A2, B, P2, "OUTPUT_CLOSED", "CLOSE_SENT", "CLOSE_RECEIVED")
  BY <1>1, <1>2 DEF Half, AgreeOK, OpenKinds
<1>10. LinksOK(A2, B, Q2)
  BY <1>1, <1>2, <1>4 DEF Half, LinksOK
<1>11. GoneOK(A2, B, P2)
  BY <1>1, <1>2 DEF Half, GoneOK, OpenKinds
<1>12. X11OK(A2, B, Q2)
  BY <1>1, <1>2, <1>4 DEF Half, X11OK
<1>13. QED
  BY <1>6, <1>7, <1>8, <1>9, <1>10, <1>11, <1>12 DEF Half

\* The same step as seen by the end that asked: a confirmation is to come.
LEMMA GrantsThere ==
  ASSUME NEW A, NEW B, NEW P, NEW Q, NEW n,
         Half(A, B, P, Q, n), Half(B, A, Q, P, n),
         NEW A2, NEW P2, NEW Q2, NEW s, NEW new, NEW m,
         Grants(A, A2, P, P2, Q, Q2, s, new, m)
  PROVE  Half(B, A2, Q2, P2, n)
<1> DEFINE c  == P[1].inst
           j0 == P[1].chan
<1>1. /\ s \notin DOMAIN A /\ DOMAIN A2 = DOMAIN A \cup {s} /\ A2[s] = new
      /\ \A j \in DOMAIN A : j # s /\ A2[j] = A[j]
      /\ EntryOK(new) /\ new.type \in {"OPEN", "X11_OPEN"} /\ new.flags = {}
      /\ new.rid = j0 /\ new.inst = c
      /\ m.kind = "OPEN_CONFIRMATION" /\ m.inst = c /\ m.chan = j0 /\ m.from = s
  BY DEF Grants, Added
<1>2. /\ c \in 1 .. n
      /\ \A i \in DOMAIN A : A[i].inst # c
      /\ j0 \in DOMAIN B /\ B[j0].type = "OPENING" /\ B[j0].inst = c
      /\ B[j0].flags = {} /\ B[j0].output = << >>
      /\ \A j \in DOMAIN B : B[j].inst = c => j = j0
      /\ \A k \in DOMAIN Q : Q[k].inst # c
      /\ \A k \in DOMAIN P2 : k + 1 \in DOMAIN P /\ P2[k] = P[k + 1]
      /\ \A d, kind : kind \notin OpenKinds =>
           (OnItsWay(P2, d, kind) <=> OnItsWay(P, d, kind))
  BY OfTheRequest DEF Grants
<1>3. Sends(Q, Q2, m)
  BY DEF Grants
<1> DEFINE last == Len(Q) + 1
<1>4. /\ \A k \in DOMAIN Q : k \in DOMAIN Q2 /\ Q2[k] = Q[k]
      /\ \A k \in DOMAIN Q2 : k \in DOMAIN Q \/ k = last
      /\ last \in DOMAIN Q2 \ DOMAIN Q /\ Q2[last] = m
      /\ \A d, kind : OnItsWay(Q, d, kind) => OnItsWay(Q2, d, kind)
  BY <1>3, SendsFacts
<1> HIDE DEF c, j0, last
<1>5. EntriesOK(B, n)
  BY DEF Half
<1>6. RequestsOK(B, A2, Q2, P2, n)
  BY <1>1, <1>2, <1>4 DEF Half, RequestsOK, OpenKinds
<1>7. RoutesOK(B, Q2)
  BY <1>1, <1>2, <1>4 DEF Half, RoutesOK, Kinds
<1>8. RepliesOK(B, Q2)
  BY <1>1, <1>2, <1>4 DEF Half, RepliesOK, ReplyKinds
<1>9. ConfirmationsOK(A2, Q2) /\ FailuresOK(A2, Q2)
  BY <1>1, <1>2, <1>4 DEF Half, ConfirmationsOK, FailuresOK
<1>10. LaterOK(B, Q2) /\ DataOK(B, Q2)
  BY <1>1, <1>4 DEF Half, LaterOK, DataOK, Confirmed, LaterKinds, CloseKinds
<1>11. ASSUME NEW kind \in CloseKinds, NEW sent, NEW received,
              ClosingOK(B, A, Q, kind, sent, received),
              AgreeOK(B, A, Q, kind, sent, received)
       PROVE  /\ ClosingOK(B, A2, Q2, kind, sent, received)
              /\ AgreeOK(B, A2, Q2, kind, sent, received)
  <2>1. ClosingOK(B, A2, Q2, kind, sent, received)
    BY <1>1, <1>2, <1>4, <1>11 DEF ClosingOK, CloseKinds
  <2>2. AgreeOK(B, A2, Q2, kind, sent, received)
    BY <1>1, <1>2, <1>4, <1>11 DEF AgreeOK
  <2>3. QED
    BY <2>1, <2>2
<1>12. /\ ClosingOK(B, A2, Q2, "INPUT_EOF", "EOF_SENT", "EOF_RECEIVED")
       /\ AgreeOK(B, A2, Q2, "INPUT_EOF", "EOF_SENT", "EOF_RECEIVED")
       /\ ClosingOK(B, A2, Q2, "OUTPUT_CLOSED", "CLOSE_SENT", "CLOSE_RECEIVED")
       /\ AgreeOK(B, A2, Q2, "OUTPUT_CLOSED", "CLOSE_SENT", "CLOSE_RECEIVED")
  BY <1>11 DEF Half, CloseKinds
<1>13. LinksOK(B, A2, P2)
  BY <1>1, <1>2 DEF Half, LinksOK, OpenKinds
<1>14. GoneOK(B, A2, Q2)
  BY <1>1, <1>2, <1>4 DEF Half, GoneOK
<1>15. X11OK(B, A2, P2)
  BY <1>1, <1>2 DEF Half, X11OK
<1>16. QED
  BY <1>5, <1>6, <1>7, <1>8, <1>9, <1>10, <1>12, <1>13, <1>14, <1>15 DEF Half

\* The request is refused: the table stays as it is.
Refuses(P, P2, Q, Q2, m) ==
  /\ Advance(P, P2, 1) /\ P[1].kind \in OpenKinds
  /\ Sends(Q, Q2, m)
  /\ m.kind = "OPEN_FAILURE" /\ m.chan = P[1].chan /\ m.inst = P[1].inst

\* An opening packet is taken and refused: the view of the end that refuses.
LEMMA RefusesHere ==
  ASSUME NEW A, NEW B, NEW P, NEW Q, NEW n,
         Half(A, B, P, Q, n), Half(B, A, Q, P, n),
         NEW P2, NEW Q2, NEW m, Refuses(P, P2, Q, Q2, m)
  PROVE  Half(A, B, P2, Q2, n)
<1> DEFINE c == P[1].inst
<1>1. /\ \A i \in DOMAIN A : A[i].inst # c
      /\ \A k \in DOMAIN P2 : P2[k].inst # c
      /\ \A k \in DOMAIN P2 : k + 1 \in DOMAIN P /\ P2[k] = P[k + 1] /\ k \in Nat
      /\ \A d, kind : kind \notin OpenKinds =>
           (OnItsWay(P2, d, kind) <=> OnItsWay(P, d, kind))
      /\ Advance(P, P2, 1) /\ P[1].kind \in OpenKinds
      /\ m.kind = "OPEN_FAILURE" /\ m.inst = c
  BY OfTheRequest DEF Refuses
<1>2. Sends(Q, Q2, m)
  BY DEF Refuses
<1>3. /\ \A k \in DOMAIN Q2 : Q2[k] = m \/ (k \in DOMAIN Q /\ Q2[k] = Q[k])
      /\ \A d, kind : OnItsWay(Q, d, kind) => OnItsWay(Q2, d, kind)
  BY <1>2, SendsFacts
<1> HIDE DEF c
<1>4. RequestsOK(A, B, P2, Q2, n)
  BY <1>1, <1>3 DEF Half, RequestsOK
<1>5. /\ RoutesOK(A, P2) /\ RepliesOK(A, P2) /\ LaterOK(A, P2)
      /\ ConfirmationsOK(B, P2) /\ FailuresOK(B, P2) /\ DataOK(A, P2)
      /\ ClosingOK(A, B, P2, "INPUT_EOF", "EOF_SENT", "EOF_RECEIVED")
      /\ ClosingOK(A, B, P2, "OUTPUT_CLOSED", "CLOSE_SENT", "CLOSE_RECEIVED")
  <2>1. \A k \in DOMAIN P2 : P2[k].kind \notin OpenKinds => P2[k].chan \in DOMAIN A
    BY <1>1 DEF Half, RoutesOK
  <2>2. \A k \in DOMAIN P2 : P2[k].kind \in ReplyKinds =>
          A[P2[k].chan].type = "OPENING"
    BY <1>1 DEF Half, RepliesOK
  <2>3. P[1].kind # "OPEN_CONFIRMATION"
    BY <1>1 DEF OpenKinds
  <2>4. QED
    BY <1>1, <2>1, <2>2, <2>3, TakenKeeps
<1>6. /\ EntriesOK(A, n)
      /\ AgreeOK(A, B, P2, "INPUT_EOF", "EOF_SENT", "EOF_RECEIVED")
      /\ AgreeOK(A, B, P2, "OUTPUT_CLOSED", "CLOSE_SENT", "CLOSE_RECEIVED")
  BY <1>1 DEF Half, AgreeOK, OpenKinds
<1>7. LinksOK(A, B, Q2) /\ GoneOK(A, B, P2)
  BY <1>1, <1>3 DEF Half, LinksOK, GoneOK, OpenKinds
<1>8. X11OK(A, B, Q2)
  BY <1>1, <1>3 DEF Half, X11OK
<1>9. QED
  BY <1>4, <1>5, <1>6, <1>7, <1>8 DEF Half

\* The same step as seen by the end that asked: a failure is to come.
LEMMA RefusesThere ==
  ASSUME NEW A, NEW B, NEW P, NEW Q, NEW n,
         Half(A, B, P, Q, n), Half(B, A, Q, P, n),
         NEW P2, NEW Q2, NEW m, Refuses(P, P2, Q, Q2, m)
  PROVE  Half(B, A, Q2, P2, n)
<1> DEFINE c  == P[1].inst
           j0 == P[1].chan
<1>1. /\ \A i \in DOMAIN A : A[i].inst # c
      /\ j0 \in DOMAIN B /\ B[j0].type = "OPENING" /\ B[j0].inst = c
      /\ \A k \in DOMAIN Q : Q[k].inst # c
      /\ \A k \in DOMAIN P2 : k + 1 \in DOMAIN P /\ P2[k] = P[k + 1]
      /\ \A d, kind : kind \notin OpenKinds =>
           (OnItsWay(P2, d, kind) <=> OnItsWay(P, d, kind))
      /\ m.kind = "OPEN_FAILURE" /\ m.chan = j0 /\ m.inst = c
  BY OfTheRequest DEF Refuses
<1>2. Sends(Q, Q2, m)
  BY DEF Refuses
<1> DEFINE last == Len(Q) + 1
<1>3. /\ \A k \in DOMAIN Q : k \in DOMAIN Q2 /\ Q2[k] = Q[k]
      /\ \A k \in DOMAIN Q2 : k \in DOMAIN Q \/ k = last
      /\ last \in DOMAIN Q2 \ DOMAIN Q /\ Q2[last] = m
      /\ \A d, kind : OnItsWay(Q, d, kind) => OnItsWay(Q2, d, kind)
  BY <1>2, SendsFacts
<1> HIDE DEF c, j0, last
<1>4. RequestsOK(B, A, Q2, P2, n)
  BY <1>1, <1>3 DEF Half, RequestsOK, OpenKinds
<1>5. RoutesOK(B, Q2) /\ RepliesOK(B, Q2)
  BY <1>1, <1>3 DEF Half, RoutesOK, RepliesOK, Kinds, ReplyKinds
<1>6. ConfirmationsOK(A, Q2) /\ FailuresOK(A, Q2)
  BY <1>1, <1>3 DEF Half, ConfirmationsOK, FailuresOK
<1>7. LaterOK(B, Q2) /\ DataOK(B, Q2)
  BY <1>1, <1>3 DEF Half, LaterOK, DataOK, Confirmed, LaterKinds, CloseKinds
<1>8. ASSUME NEW kind \in CloseKinds, NEW sent, NEW received,
             ClosingOK(B, A, Q, kind, sent, received),
             AgreeOK(B, A, Q, kind, sent, received)
      PROVE  /\ ClosingOK(B, A, Q2, kind, sent, received)
             /\ AgreeOK(B, A, Q2, kind, sent, received)
  BY <1>1, <1>3, <1>8 DEF ClosingOK, AgreeOK, CloseKinds
<1>9. /\ ClosingOK(B, A, Q2, "INPUT_EOF", "EOF_SENT", "EOF_RECEIVED")
      /\ AgreeOK(B, A, Q2, "INPUT_EOF", "EOF_SENT", "EOF_RECEIVED")
      /\ ClosingOK(B, A, Q2, "OUTPUT_CLOSED", "CLOSE_SENT", "CLOSE_RECEIVED")
      /\ AgreeOK(B, A, Q2, "OUTPUT_CLOSED", "CLOSE_SENT", "CLOSE_RECEIVED")
  BY <1>8 DEF Half, CloseKinds
<1>10. EntriesOK(B, n) /\ LinksOK(B, A, P2) /\ GoneOK(B, A, Q2)
  BY <1>1, <1>3 DEF Half, LinksOK, GoneOK, OpenKinds
<1>11. X11OK(B, A, P2)
  BY <1>1 DEF Half, X11OK
<1>12. QED
  BY <1>4, <1>5, <1>6, <1>7, <1>9, <1>10, <1>11 DEF Half

\* The confirmation arrives: the entry is open, and knows the peer's.
Confirms(A, A2, P, P2, i, new) ==
  /\ Advance(P, P2, 1) /\ P[1].kind = "OPEN_CONFIRMATION" /\ P[1].chan = i
  /\ DOMAIN A2 = DOMAIN A /\ \A j \in DOMAIN A : A2[j] = IF j = i THEN new ELSE A[j]
  /\ EntryOK(new) /\ new.type = "OPEN" /\ new.rid = P[1].from
  /\ new.inst = A[i].inst /\ new.flags = A[i].flags /\ new.output = A[i].output

\* What the confirmation says of its connection.
LEMMA OfTheConfirmation ==
  ASSUME NEW A, NEW B, NEW P, NEW Q, NEW n,
         Half(A, B, P, Q, n), Half(B, A, Q, P, n),
         NEW A2, NEW P2, NEW i, NEW new, Confirms(A, A2, P, P2, i, new)
  PROVE  /\ i \in DOMAIN A /\ A[i].type = "OPENING" /\ A[i].inst = P[1].inst
         /\ A[i].flags = {} /\ A[i].output = << >>
         /\ P[1].from \in DOMAIN B /\ B[P[1].from].inst = A[i].inst
         /\ B[P[1].from].type # "OPENING" /\ B[P[1].from].rid = i
         /\ \A j \in DOMAIN B : B[j].inst = A[i].inst => j = P[1].from
         /\ \A j \in DOMAIN A : A[j].inst = A[i].inst => j = i
         /\ \A k \in DOMAIN P2 : P2[k].inst = A[i].inst => P2[k].kind \notin ReplyKinds
         /\ \A k \in DOMAIN P2 : k + 1 \in DOMAIN P /\ P2[k] = P[k + 1] /\ k \in Nat
         /\ \A c, kind : OnItsWay(P2, c, kind) =>  OnItsWay(P, c, kind)
         /\ \A c, kind : OnItsWay(P, c, kind) =>
              OnItsWay(P2, c, kind) \/ (c = A[i].inst /\ kind = "OPEN_CONFIRMATION")
<1>1. /\ 1 \in DOMAIN P /\ P[1].kind = "OPEN_CONFIRMATION" /\ P[1].chan = i
      /\ \A k \in DOMAIN P2 : k + 1 # 1
  BY DEF Confirms, Advance
<1>2. /\ i \in DOMAIN A /\ A[i].type = "OPENING" /\ A[i].inst = P[1].inst
      /\ \A l \in DOMAIN P : P[l].inst = P[1].inst /\ l # 1 => P[l].kind \notin ReplyKinds
  BY <1>1 DEF Half, RoutesOK, RepliesOK, ReplyKinds, OpenKinds
<1>3. /\ P[1].from \in DOMAIN B /\ B[P[1].from].inst = A[i].inst
      /\ B[P[1].from].type # "OPENING" /\ B[P[1].from].rid = i
  BY <1>1, <1>2 DEF Half, ConfirmationsOK
<1>4. Advance(P, P2, 1)
  BY DEF Confirms
<1>5. /\ \A k \in DOMAIN P2 : k + 1 \in DOMAIN P /\ P2[k] = P[k + 1] /\ k \in Nat
      /\ \A c, kind : OnItsWay(P2, c, kind) =>  OnItsWay(P, c, kind)
      /\ \A c, kind : OnItsWay(P, c, kind) =>
           OnItsWay(P2, c, kind) \/ (c = P[1].inst /\ kind = P[1].kind)
  BY <1>4, AdvanceFacts, StillOnItsWay
<1>6. /\ A[i].flags = {} /\ A[i].output = << >>
      /\ \A j \in DOMAIN B : B[j].inst = A[i].inst => j = P[1].from
      /\ \A j \in DOMAIN A : A[j].inst = A[i].inst => j = i
  BY <1>2, <1>3 DEF Half, EntriesOK, EntryOK
<1>7. QED
  BY <1>1, <1>2, <1>3, <1>5, <1>6

\* A confirmation is taken: the view of the end whose connection is now open.
LEMMA ConfirmsHere ==
  ASSUME NEW A, NEW B, NEW P, NEW Q, NEW n,
         Half(A, B, P, Q, n), Half(B, A, Q, P, n),
         NEW A2, NEW P2, NEW i, NEW new, Confirms(A, A2, P, P2, i, new)
  PROVE  Half(A2, B, P2, Q, n)
<1>1. /\ i \in DOMAIN A /\ A[i].type = "OPENING" /\ A[i].inst = P[1].inst
      /\ A[i].flags = {}
      /\ P[1].from \in DOMAIN B /\ B[P[1].from].inst = A[i].inst
      /\ B[P[1].from].type # "OPENING"
      /\ \A j \in DOMAIN B : B[j].inst = A[i].inst => j = P[1].from
      /\ \A j \in DOMAIN A : A[j].inst = A[i].inst => j = i
      /\ \A k \in DOMAIN P2 : P2[k].inst = A[i].inst => P2[k].kind \notin ReplyKinds
      /\ \A k \in DOMAIN P2 : k + 1 \in DOMAIN P /\ P2[k] = P[k + 1] /\ k \in Nat
      /\ \A c, kind : OnItsWay(P2, c, kind) =>  OnItsWay(P, c, kind)
      /\ \A c, kind : OnItsWay(P, c, kind) =>
           OnItsWay(P2, c, kind) \/ (c = A[i].inst /\ kind = "OPEN_CONFIRMATION")
  BY OfTheConfirmation
<1>2. /\ DOMAIN A2 = DOMAIN A /\ A2[i] = new
      /\ \A j \in DOMAIN A : j # i => A2[j] = A[j]
      /\ \A j \in DOMAIN A : A2[j].inst = A[j].inst /\ A2[j].flags = A[j].flags
      /\ EntryOK(new) /\ new.type = "OPEN" /\ new.rid = P[1].from
      /\ new.inst = A[i].inst
  BY <1>1 DEF Confirms
<1>3. EntriesOK(A2, n)
  BY <1>1, <1>2 DEF Half, EntriesOK
<1>4. RequestsOK(A2, B, P2, Q, n)
  BY <1>1, <1>2 DEF Half, RequestsOK
<1>5. /\ RoutesOK(A2, P2) /\ RepliesOK(A2, P2) /\ LaterOK(A2, P2)
      /\ ConfirmationsOK(B, P2) /\ FailuresOK(B, P2) /\ DataOK(A2, P2)
      /\ ClosingOK(A2, B, P2, "INPUT_EOF", "EOF_SENT", "EOF_RECEIVED")
      /\ ClosingOK(A2, B, P2, "OUTPUT_CLOSED", "CLOSE_SENT", "CLOSE_RECEIVED")
  <2>1. \A k \in DOMAIN P2 : P2[k].kind \notin OpenKinds =>
          P2[k].chan \in DOMAIN A /\ A[P2[k].chan].inst = P2[k].inst
    BY <1>1 DEF Half, RoutesOK
  <2>2. \A k \in DOMAIN P2 : P2[k].kind \in ReplyKinds =>
          A[P2[k].chan].type = "OPENING"
    BY <1>1 DEF Half, RepliesOK
  <2>3. Advance(P, P2, 1) /\ P[1].kind \in OpenKinds \cup ReplyKinds
    BY DEF Confirms, ReplyKinds
  <2>4. \A k \in DOMAIN P2 : P2[k].kind \notin OpenKinds =>
          /\ P2[k].chan \in DOMAIN A2
          /\ A2[P2[k].chan].inst = A[P2[k].chan].inst
          /\ A2[P2[k].chan].flags = A[P2[k].chan].flags
          /\ P2[k].kind \in ReplyKinds => A2[P2[k].chan].type = "OPENING"
          /\ A2[P2[k].chan].type = "OPENING" =>
               /\ A[P2[k].chan].type = "OPENING"
               /\ P[1].kind = "OPEN_CONFIRMATION" => P[1].inst # P2[k].inst
    BY <1>1, <1>2, <2>1, <2>2
  <2>5. QED
    BY <2>3, <2>4, TakenKeeps
<1>6. /\ AgreeOK(A2, B, P2, "INPUT_EOF", "EOF_SENT", "EOF_RECEIVED")
      /\ AgreeOK(A2, B, P2, "OUTPUT_CLOSED", "CLOSE_SENT", "CLOSE_RECEIVED")
  BY <1>1, <1>2 DEF Half, AgreeOK
<1>7. LinksOK(A2, B, Q)
  BY <1>1, <1>2 DEF Half, LinksOK
<1>8. GoneOK(A2, B, P2)
  BY <1>1, <1>2 DEF Half, GoneOK
<1>9. X11OK(A2, B, Q)
  BY <1>1, <1>2 DEF Half, X11OK
<1>10. QED
  BY <1>3, <1>4, <1>5, <1>6, <1>7, <1>8, <1>9 DEF Half

\* The same step as seen by the end that sent the confirmation.
LEMMA ConfirmsThere ==
  ASSUME NEW A, NEW B, NEW P, NEW Q, NEW n,
         Half(A, B, P, Q, n), Half(B, A, Q, P, n),
         NEW A2, NEW P2, NEW i, NEW new, Confirms(A, A2, P, P2, i, new)
  PROVE  Half(B, A2, Q, P2, n)
<1>1. /\ i \in DOMAIN A /\ A[i].type = "OPENING" /\ A[i].inst = P[1].inst
      /\ A[i].flags = {} /\ A[i].output = << >>
      /\ P[1].from \in DOMAIN B /\ B[P[1].from].inst = A[i].inst
      /\ B[P[1].from].type # "OPENING" /\ B[P[1].from].rid = i
      /\ \A j \in DOMAIN B : B[j].inst = A[i].inst => j = P[1].from
      /\ \A j \in DOMAIN A : A[j].inst = A[i].inst => j = i
      /\ \A k \in DOMAIN P2 : k + 1 \in DOMAIN P /\ P2[k] = P[k + 1]
      /\ \A c, kind : OnItsWay(P, c, kind) =>
           OnItsWay(P2, c, kind) \/ (c = A[i].inst /\ kind = "OPEN_CONFIRMATION")
  BY OfTheConfirmation
<1>2. /\ DOMAIN A2 = DOMAIN A /\ A2[i] = new
      /\ \A j \in DOMAIN A : j # i => A2[j] = A[j]
      /\ \A j \in DOMAIN A : A2[j].inst = A[j].inst /\ A2[j].flags = A[j].flags
                             /\ A2[j].output = A[j].output
      /\ EntryOK(new) /\ new.type = "OPEN" /\ new.rid = P[1].from
      /\ new.inst = A[i].inst
  BY <1>1 DEF Confirms
<1>3. RequestsOK(B, A2, Q, P2, n)
  <2>1. 1 \in DOMAIN P
    BY DEF Confirms, Advance
  <2>2. QED
    BY <1>1, <1>2, <2>1 DEF Half, RequestsOK
<1>4. /\ EntriesOK(B, n) /\ RoutesOK(B, Q) /\ RepliesOK(B, Q) /\ LaterOK(B, Q)
      /\ DataOK(B, Q)
  BY DEF Half
<1>5. ConfirmationsOK(A2, Q) /\ FailuresOK(A2, Q)
  BY <1>1, <1>2 DEF Half, ConfirmationsOK, FailuresOK
<1>6. /\ ClosingOK(B, A2, Q, "INPUT_EOF", "EOF_SENT", "EOF_RECEIVED")
      /\ ClosingOK(B, A2, Q, "OUTPUT_CLOSED", "CLOSE_SENT", "CLOSE_RECEIVED")
      /\ AgreeOK(B, A2, Q, "INPUT_EOF", "EOF_SENT", "EOF_RECEIVED")
      /\ AgreeOK(B, A2, Q, "OUTPUT_CLOSED", "CLOSE_SENT", "CLOSE_RECEIVED")
  BY <1>2 DEF Half, ClosingOK, AgreeOK
<1>7. LinksOK(B, A2, P2)
  BY <1>1, <1>2 DEF Half, LinksOK
<1>8. GoneOK(B, A2, Q)
  BY <1>1, <1>2 DEF Half, GoneOK
<1>9. X11OK(B, A2, P2)
  BY <1>1, <1>2 DEF Half, X11OK
<1>10. QED
  BY <1>3, <1>4, <1>5, <1>6, <1>7, <1>8, <1>9 DEF Half

\* The refusal arrives: the entry is freed.
Fails(A, A2, P, P2, i) ==
  /\ Advance(P, P2, 1) /\ P[1].kind = "OPEN_FAILURE" /\ P[1].chan = i
  /\ DOMAIN A2 = DOMAIN A \ {i} /\ \A j \in DOMAIN A2 : A2[j] = A[j]

\* What the refusal says of its connection: nothing else is left of it.
LEMMA OfTheRefusal ==
  ASSUME NEW A, NEW B, NEW P, NEW Q, NEW n,
         Half(A, B, P, Q, n), Half(B, A, Q, P, n),
         NEW A2, NEW P2, NEW i, Fails(A, A2, P, P2, i)
  PROVE  /\ 1 \in DOMAIN P
         /\ i \in DOMAIN A /\ A[i].type = "OPENING" /\ A[i].inst = P[1].inst
         /\ \A j \in DOMAIN B : B[j].inst # A[i].inst
         /\ \A j \in DOMAIN A2 : j \in DOMAIN A /\ j # i /\ A2[j] = A[j]
         /\ \A j \in DOMAIN A : j # i => j \in DOMAIN A2
         /\ \A k \in DOMAIN P2 : P2[k].inst # A[i].inst
         /\ \A k \in DOMAIN P2 : k + 1 \in DOMAIN P /\ P2[k] = P[k + 1] /\ k \in Nat
         /\ \A c, kind : OnItsWay(P2, c, kind) =>  OnItsWay(P, c, kind)
         /\ \A c, kind : OnItsWay(P, c, kind) /\ kind # "OPEN_FAILURE" =>
              OnItsWay(P2, c, kind)
<1>1. /\ 1 \in DOMAIN P /\ P[1].kind = "OPEN_FAILURE" /\ P[1].chan = i
      /\ \A k \in DOMAIN P2 : k + 1 # 1
  BY DEF Fails, Advance
<1>2. /\ i \in DOMAIN A /\ A[i].type = "OPENING" /\ A[i].inst = P[1].inst
      /\ \A j \in DOMAIN B : B[j].inst # P[1].inst
      /\ \A l \in DOMAIN P : P[l].inst = P[1].inst => l = 1
  BY <1>1 DEF Half, RoutesOK, RepliesOK, FailuresOK, ReplyKinds, OpenKinds
<1>3. Advance(P, P2, 1)
  BY DEF Fails
<1>4. /\ \A k \in DOMAIN P2 : k + 1 \in DOMAIN P /\ P2[k] = P[k + 1] /\ k \in Nat
      /\ \A c, kind : OnItsWay(P2, c, kind) =>  OnItsWay(P, c, kind)
      /\ \A c, kind : OnItsWay(P, c, kind) =>
           OnItsWay(P2, c, kind) \/ kind = P[1].kind
  BY <1>3, AdvanceFacts, StillOnItsWay
<1>5. /\ \A j \in DOMAIN A2 : j \in DOMAIN A /\ j # i /\ A2[j] = A[j]
      /\ \A j \in DOMAIN A : j # i => j \in DOMAIN A2
  BY DEF Fails
<1>6. QED
  BY <1>1, <1>2, <1>4, <1>5

\* A failure is taken: the entry that waited for the answer is freed.
LEMMA FailsHere ==
  ASSUME NEW A, NEW B, NEW P, NEW Q, NEW n,
         Half(A, B, P, Q, n), Half(B, A, Q, P, n),
         NEW A2, NEW P2, NEW i, Fails(A, A2, P, P2, i)
  PROVE  Half(A2, B, P2, Q, n)
<1>1. /\ i \in DOMAIN A /\ A[i].type = "OPENING"
      /\ \A j \in DOMAIN A2 : j \in DOMAIN A /\ j # i /\ A2[j] = A[j]
      /\ \A j \in DOMAIN A : j # i => j \in DOMAIN A2
      /\ \A k \in DOMAIN P2 : P2[k].inst # A[i].inst
      /\ \A k \in DOMAIN P2 : k + 1 \in DOMAIN P /\ P2[k] = P[k + 1] /\ k \in Nat
      /\ \A c, kind : OnItsWay(P2, c, kind) =>  OnItsWay(P, c, kind)
      /\ \A c, kind : OnItsWay(P, c, kind) /\ kind # "OPEN_FAILURE" =>
           OnItsWay(P2, c, kind)
  BY OfTheRefusal
<1>2. EntriesOK(A2, n)
  BY <1>1 DEF Half, EntriesOK
<1>3. RequestsOK(A2, B, P2, Q, n)
  BY <1>1 DEF Half, RequestsOK
<1>4. /\ RoutesOK(A2, P2) /\ RepliesOK(A2, P2) /\ LaterOK(A2, P2)
      /\ ConfirmationsOK(B, P2) /\ FailuresOK(B, P2) /\ DataOK(A2, P2)
      /\ ClosingOK(A2, B, P2, "INPUT_EOF", "EOF_SENT", "EOF_RECEIVED")
      /\ ClosingOK(A2, B, P2, "OUTPUT_CLOSED", "CLOSE_SENT", "CLOSE_RECEIVED")
  <2>1. \A k \in DOMAIN P2 : P2[k].kind \notin OpenKinds =>
          /\ P2[k].chan \in DOMAIN A /\ A[P2[k].chan].inst = P2[k].inst
          /\ P2[k].kind \in ReplyKinds => A[P2[k].chan].type = "OPENING"
    BY <1>1 DEF Half, RoutesOK, RepliesOK
  <2>2. \A k \in DOMAIN P2 : P2[k].kind \notin OpenKinds =>
          P2[k].chan \in DOMAIN A2 /\ A2[P2[k].chan] = A[P2[k].chan]
    BY <1>1, <2>1
  <2>3. /\ Advance(P, P2, 1) /\ P[1].kind \in OpenKinds \cup ReplyKinds
        /\ P[1].kind # "OPEN_CONFIRMATION"
    BY DEF Fails, ReplyKinds
  <2>4. QED
    BY <2>1, <2>2, <2>3, TakenKeeps
<1>5. /\ AgreeOK(A2, B, P2, "INPUT_EOF", "EOF_SENT", "EOF_RECEIVED")
      /\ AgreeOK(A2, B, P2, "OUTPUT_CLOSED", "CLOSE_SENT", "CLOSE_RECEIVED")
  BY <1>1 DEF Half, AgreeOK
<1>6. LinksOK(A2, B, Q) /\ GoneOK(A2, B, P2)
  BY <1>1 DEF Half, LinksOK, GoneOK
<1>7. X11OK(A2, B, Q)
  BY <1>1 DEF Half, X11OK
<1>8. QED
  BY <1>2, <1>3, <1>4, <1>5, <1>6, <1>7 DEF Half

\* The same step as seen by the end that refused: nothing of it is left.
LEMMA FailsThere ==
  ASSUME NEW A, NEW B, NEW P, NEW Q, NEW n,
         Half(A, B, P, Q, n), Half(B, A, Q, P, n),
         NEW A2, NEW P2, NEW i, Fails(A, A2, P, P2, i)
  PROVE  Half(B, A2, Q, P2, n)
<1>1. /\ 1 \in DOMAIN P
      /\ i \in DOMAIN A /\ A[i].type = "OPENING" /\ A[i].inst = P[1].inst
      /\ \A j \in DOMAIN B : B[j].inst # A[i].inst
      /\ \A j \in DOMAIN A2 : j \in DOMAIN A /\ j # i /\ A2[j] = A[j]
      /\ \A j \in DOMAIN A : j # i => j \in DOMAIN A2
      /\ \A k \in DOMAIN P2 : k + 1 \in DOMAIN P /\ P2[k] = P[k + 1]
      /\ \A c, kind : OnItsWay(P, c, kind) /\ kind # "OPEN_FAILURE" =>
           OnItsWay(P2, c, kind)
  BY OfTheRefusal
<1>2. RequestsOK(B, A2, Q, P2, n)
  BY <1>1 DEF Half, RequestsOK
<1>3. /\ EntriesOK(B, n) /\ RoutesOK(B, Q) /\ RepliesOK(B, Q) /\ LaterOK(B, Q)
      /\ DataOK(B, Q)
  BY DEF Half
<1>4. ConfirmationsOK(A2, Q) /\ FailuresOK(A2, Q)
  BY <1>1 DEF Half, ConfirmationsOK, FailuresOK
<1>5. /\ ClosingOK(B, A2, Q, "INPUT_EOF", "EOF_SENT", "EOF_RECEIVED")
      /\ ClosingOK(B, A2, Q, "OUTPUT_CLOSED", "CLOSE_SENT", "CLOSE_RECEIVED")
      /\ AgreeOK(B, A2, Q, "INPUT_EOF", "EOF_SENT", "EOF_RECEIVED")
      /\ AgreeOK(B, A2, Q, "OUTPUT_CLOSED", "CLOSE_SENT", "CLOSE_RECEIVED")
  BY <1>1 DEF Half, ClosingOK, AgreeOK
<1>6. LinksOK(B, A2, P2) /\ GoneOK(B, A2, Q)
  BY <1>1 DEF Half, LinksOK, GoneOK
<1>7. X11OK(B, A2, P2)
  BY <1>1 DEF Half, X11OK
<1>8. QED
  BY <1>2, <1>3, <1>4, <1>5, <1>6, <1>7 DEF Half

-----------------------------------------------------------------------------
(* The flag functions of ChannelEnd, evaluated: what a run that has gone   *)
(* well so far becomes.                                                    *)

\* An entry ch with other flags and buffers; freed if the flags are all set.
With(ch, flags, in, out) ==
  [ch EXCEPT !.flags = flags, !.input = in, !.output = out]
FreedOf(ch) == [ch EXCEPT !.type = "FREE", !.flags = Flags, !.input = << >>,
                          !.output = << >>]
After(ch, flags, in, out) ==
  IF flags = Flags THEN FreedOf(ch) ELSE With(ch, flags, in, out)

Ran(ch, sent, frees) ==
  [c |-> ch, out |-> sent, frees |-> frees, fault |-> "none"]
Closing(ch, kind) == Packet(kind, ch.rid, NoId, NoTarget, << >>, ch.inst)

\* The fields of an entry with other flags and buffers.
LEMMA WithFields ==
  ASSUME NEW ch \in Channel, NEW flags, NEW in, NEW out
  PROVE  LET c == With(ch, flags, in, out)
         IN  /\ c.type = ch.type /\ c.sock = ch.sock /\ c.rid = ch.rid
             /\ c.isx = ch.isx /\ c.inst = ch.inst /\ c.target = ch.target
             /\ c.flags = flags /\ c.input = in /\ c.output = out
BY DEF With, Channel

\* SetFlag, SendClose and the emptying of a buffer.
LEMMA RanFlag ==
  ASSUME NEW ch \in Channel, NEW flags, NEW in, NEW out, NEW sent, NEW n, NEW f
  PROVE  LET r == Ran(With(ch, flags, in, out), sent, n)
         IN  /\ SetFlag(r, f) = Ran(With(ch, flags \cup {f}, in, out), sent, n)
             /\ HasFlag(r, f) <=> f \in flags
<1> DEFINE c == With(ch, flags, in, out)
           d == With(ch, flags \cup {f}, in, out)
<1>1. c.flags = flags
  BY WithFields
<1>2. [c EXCEPT !.flags = @ \cup {f}] = d
  BY DEF With, Channel
<1> HIDE DEF c, d
<1>3. SetFlag(Ran(c, sent, n), f) = Ran([c EXCEPT !.flags = @ \cup {f}], sent, n)
  BY DEF SetFlag, Ran
<1>4. HasFlag(Ran(c, sent, n), f) <=> f \in flags
  BY <1>1 DEF HasFlag, Ran
<1>5. QED
  BY <1>2, <1>3, <1>4 DEF c, d

\* A run that sends a closing packet, in the normal form of a run.
LEMMA RanClose ==
  ASSUME NEW ch \in Channel, NEW flags, NEW in, NEW out, NEW sent, NEW n, NEW kind
  PROVE  SendClose(Ran(With(ch, flags, in, out), sent, n), kind)
           = Ran(With(ch, flags, in, out), Append(sent, Closing(ch, kind)), n)
<1> DEFINE c == With(ch, flags, in, out)
<1>1. c.rid = ch.rid /\ c.inst = ch.inst
  BY WithFields
<1> HIDE DEF c
<1>2. SendClose(Ran(c, sent, n), kind)
        = [Ran(c, sent, n) EXCEPT !.out =
             Append(@, Packet(kind, c.rid, NoId, NoTarget, << >>, c.inst))]
  BY DEF SendClose, Ran
<1>3. QED
  BY <1>1, <1>2 DEF Ran, Closing, c

\* A run that empties a buffer of its entry, in the normal form of a run.
LEMMA RanEmpty ==
  ASSUME NEW ch \in Channel, NEW flags, NEW in, NEW out, NEW sent, NEW n
  PROVE  LET r == Ran(With(ch, flags, in, out), sent, n)
         IN  /\ [r EXCEPT !.c.input = << >>] =
                  Ran(With(ch, flags, << >>, out), sent, n)
             /\ [r EXCEPT !.c.output = << >>] =
                  Ran(With(ch, flags, in, << >>), sent, n)
             /\ r.c = With(ch, flags, in, out) /\ r.c.type = ch.type
             /\ r.c.isx = ch.isx
<1> DEFINE c == With(ch, flags, in, out)
<1>1. /\ [c EXCEPT !.input = << >>] = With(ch, flags, << >>, out)
      /\ [c EXCEPT !.output = << >>] = With(ch, flags, in, << >>)
  BY DEF With, Channel
<1>2. c.type = ch.type /\ c.isx = ch.isx
  BY WithFields
<1> HIDE DEF c
<1>3. QED
  BY <1>1, <1>2 DEF Ran, c

\* channel_check_termination, on an entry in use.
LEMMA RanCheck ==
  ASSUME NEW ch \in Channel, ch.type # "FREE", NEW flags, NEW in, NEW out,
         NEW sent, NEW n
  PROVE  LET r == Ran(With(ch, flags, in, out), sent, n)
         IN  /\ CheckTermination(r).c = After(ch, flags, in, out)
             /\ CheckTermination(r).out = sent
             /\ CheckTermination(r).fault = "none"
             /\ flags # Flags => CheckTermination(r) = r
<1> DEFINE c == With(ch, flags, in, out)
           r == Ran(c, sent, n)
<1>1. c.type = ch.type /\ c.flags = flags
  BY WithFields
<1>2. flags = Flags =>
        [c EXCEPT !.type = "FREE", !.input = << >>, !.output = << >>] = FreedOf(ch)
  BY DEF With, FreedOf, Channel
<1> HIDE DEF c
<1>3. r.c = c /\ r.out = sent /\ r.fault = "none" /\ r.frees = n
  BY DEF Ran
<1>4. CASE flags = Flags
  <2>1. CheckTermination(r) =
          [r EXCEPT !.c = [@ EXCEPT !.type = "FREE", !.input = << >>,
                                    !.output = << >>], !.frees = @ + 1]
    BY <1>1, <1>3, <1>4 DEF CheckTermination, ChannelFree
  <2>2. QED
    BY <1>2, <1>4, <2>1 DEF Ran, After, c
<1>5. CASE flags # Flags
  BY <1>1, <1>3, <1>5 DEF CheckTermination, After, c
<1>6. QED
  BY <1>4, <1>5

\* Where every run starts.
LEMMA RanFromStart ==
  ASSUME NEW ch \in Channel
  PROVE  Run(ch) = Ran(With(ch, ch.flags, ch.input, ch.output), << >>, 0)
<1>1. With(ch, ch.flags, ch.input, ch.output) = ch
  BY DEF With, Channel
<1>2. QED
  BY <1>1 DEF Run, Ran

\* What a function makes of a run: the entry, the packets, and no fault.
Leaves(s, ch, flags, in, out, sent) ==
  /\ s.c = After(ch, flags, in, out) /\ s.out = sent /\ s.fault = "none"
  /\ flags # Flags => \E n : s = Ran(With(ch, flags, in, out), sent, n)

\* channel_send_ieof
LEMMA SendIeofLeaves ==
  ASSUME NEW ch \in Channel, ch.type # "FREE", NEW flags, NEW in, NEW out,
         NEW sent, NEW n, "EOF_SENT" \notin flags
  PROVE  Leaves(SendIeof(Ran(With(ch, flags, in, out), sent, n)), ch,
                flags \cup {"EOF_SENT"}, in, out,
                Append(sent, Closing(ch, "INPUT_EOF")))
<1> DEFINE r == Ran(With(ch, flags, in, out), sent, n)
           more == flags \cup {"EOF_SENT"}
           m == Append(sent, Closing(ch, "INPUT_EOF"))
           t == Ran(With(ch, more, in, out), m, n)
<1>1. /\ SetFlag(r, "EOF_SENT") = Ran(With(ch, more, in, out), sent, n)
      /\ ~HasFlag(r, "EOF_SENT")
  BY RanFlag
<1>2. SendClose(SetFlag(r, "EOF_SENT"), "INPUT_EOF") = t
  BY <1>1, RanClose
<1>3. SendIeof(r) = CheckTermination(t)
  BY <1>1, <1>2 DEF SendIeof
<1> HIDE DEF more, m
<1>4. /\ CheckTermination(t).c = After(ch, more, in, out)
      /\ CheckTermination(t).out = m
      /\ CheckTermination(t).fault = "none"
      /\ more # Flags => CheckTermination(t) = t
  BY RanCheck
<1>5. QED
  BY <1>3, <1>4 DEF Leaves, more, m

\* channel_close_input: of an OPEN entry, whose eof is sent by the poll, ...
LEMMA CloseInputLeaves ==
  ASSUME NEW ch \in Channel, ch.type = "OPEN", NEW flags, NEW in, NEW out,
         NEW sent, NEW n
  PROVE  CloseInput(Ran(With(ch, flags, in, out), sent, n))
           = Ran(With(ch, flags \cup {"INPUT_CLOSED"}, in, out), sent, n)
<1> DEFINE r == Ran(With(ch, flags, in, out), sent, n)
           s == Ran(With(ch, flags \cup {"INPUT_CLOSED"}, in, out), sent, n)
<1>1. /\ SetFlag(r, "INPUT_CLOSED") = s
      /\ HasFlag(r, "INPUT_CLOSED") <=> "INPUT_CLOSED" \in flags
  BY RanFlag
<1>2. s.c.type = "OPEN"
  BY RanEmpty
<1>3. CASE "INPUT_CLOSED" \in flags
  <2>1. flags \cup {"INPUT_CLOSED"} = flags
    BY <1>3
  <2>2. QED
    BY <1>1, <1>3, <2>1 DEF CloseInput
<1>4. CASE "INPUT_CLOSED" \notin flags
  BY <1>1, <1>2, <1>4 DEF CloseInput
<1>5. QED
  BY <1>3, <1>4

\* ... and of any other, whose eof is sent at once.
LEMMA CloseInputAtOnceLeaves ==
  ASSUME NEW ch \in Channel, ch.type \notin {"FREE", "OPEN"}, NEW flags, NEW in,
         NEW out, NEW sent, NEW n, {"INPUT_CLOSED", "EOF_SENT"} \cap flags = {}
  PROVE  Leaves(CloseInput(Ran(With(ch, flags, in, out), sent, n)), ch,
                flags \cup {"INPUT_CLOSED", "EOF_SENT"}, in, out,
                Append(sent, Closing(ch, "INPUT_EOF")))
<1> DEFINE r == Ran(With(ch, flags, in, out), sent, n)
           closed == flags \cup {"INPUT_CLOSED"}
           s == Ran(With(ch, closed, in, out), sent, n)
<1>1. SetFlag(r, "INPUT_CLOSED") = s /\ ~HasFlag(r, "INPUT_CLOSED")
  BY RanFlag
<1>2. s.c.type = ch.type
  BY RanEmpty
<1>3. CloseInput(r) = SendIeof(s)
  BY <1>1, <1>2 DEF CloseInput
<1>4. "EOF_SENT" \notin closed
  OBVIOUS
<1>5. closed \cup {"EOF_SENT"} = flags \cup {"INPUT_CLOSED", "EOF_SENT"}
  OBVIOUS
<1> HIDE DEF closed
<1>6. Leaves(SendIeof(s), ch, closed \cup {"EOF_SENT"}, in, out,
             Append(sent, Closing(ch, "INPUT_EOF")))
  BY <1>4, SendIeofLeaves
<1>7. QED
  BY <1>3, <1>5, <1>6

\* channel_close_output
LEMMA CloseOutputLeaves ==
  ASSUME NEW ch \in Channel, ch.type # "FREE", NEW flags, NEW in, NEW out,
         NEW sent, NEW n, {"OUTPUT_CLOSED", "CLOSE_SENT"} \cap flags = {}
  PROVE  Leaves(CloseOutput(Ran(With(ch, flags, in, out), sent, n)), ch,
                flags \cup {"OUTPUT_CLOSED", "CLOSE_SENT"}, in, << >>,
                Append(sent, Closing(ch, "OUTPUT_CLOSED")))
<1> DEFINE r == Ran(With(ch, flags, in, out), sent, n)
           closed == flags \cup {"OUTPUT_CLOSED"}
           both == closed \cup {"CLOSE_SENT"}
           s == Ran(With(ch, closed, in, << >>), sent, n)
           m == Append(sent, Closing(ch, "OUTPUT_CLOSED"))
           t == Ran(With(ch, both, in, << >>), m, n)
<1>1. /\ SetFlag(r, "OUTPUT_CLOSED") = Ran(With(ch, closed, in, out), sent, n)
      /\ ~HasFlag(r, "OUTPUT_CLOSED")
  BY RanFlag
<1>2. [SetFlag(r, "OUTPUT_CLOSED") EXCEPT !.c.output = << >>] = s
  BY <1>1, RanEmpty
<1>3. CloseOutput(r) = SendOclosed(s)
  BY <1>1, <1>2 DEF CloseOutput
<1>4. /\ SetFlag(s, "CLOSE_SENT") = Ran(With(ch, both, in, << >>), sent, n)
      /\ ~HasFlag(s, "CLOSE_SENT")
  BY RanFlag
<1>5. SendClose(SetFlag(s, "CLOSE_SENT"), "OUTPUT_CLOSED") = t
  BY <1>4, RanClose
<1>6. SendOclosed(s) = CheckTermination(t)
  BY <1>4, <1>5 DEF SendOclosed
<1>7. both = flags \cup {"OUTPUT_CLOSED", "CLOSE_SENT"}
  OBVIOUS
<1> HIDE DEF both, m
<1>8. /\ CheckTermination(t).c = After(ch, both, in, << >>)
      /\ CheckTermination(t).out = m
      /\ CheckTermination(t).fault = "none"
      /\ both # Flags => CheckTermination(t) = t
  BY RanCheck
<1>9. QED
  BY <1>3, <1>6, <1>7, <1>8 DEF Leaves, m

\* channel_ieof, for an OPEN entry ...
LEMMA ReceiveIeofLeaves ==
  ASSUME NEW ch \in Channel, ch.type = "OPEN", "EOF_RECEIVED" \notin ch.flags
  PROVE  Leaves(ReceiveIeof(Run(ch)), ch,
                ch.flags \cup {"EOF_RECEIVED"} \cup
                  (IF ch.isx THEN {"INPUT_CLOSED"} ELSE {}),
                ch.input, ch.output, << >>)
<1> DEFINE marked == ch.flags \cup {"EOF_RECEIVED"}
           fixed  == marked \cup (IF ch.isx THEN {"INPUT_CLOSED"} ELSE {})
           r == Ran(With(ch, ch.flags, ch.input, ch.output), << >>, 0)
           s == Ran(With(ch, marked, ch.input, ch.output), << >>, 0)
           t == Ran(With(ch, fixed, ch.input, ch.output), << >>, 0)
<1>1. Run(ch) = r
  BY RanFromStart
<1>2. SetFlag(r, "EOF_RECEIVED") = s /\ ~HasFlag(r, "EOF_RECEIVED")
  BY RanFlag
<1>3. s.c.isx = ch.isx /\ s.c.type = "OPEN" /\ t.c.type = "OPEN"
  BY RanEmpty
<1>4. (IF s.c.isx THEN CloseInput(s) ELSE s) = t
  <2>1. CASE ch.isx
    <3>1. fixed = marked \cup {"INPUT_CLOSED"}
      BY <2>1
    <3> HIDE DEF marked, fixed
    <3>2. CloseInput(s) = t
      BY <3>1, CloseInputLeaves
    <3>3. QED
      BY <1>3, <2>1, <3>2
  <2>2. CASE ~ch.isx
    <3>1. fixed = marked
      BY <2>2
    <3>2. QED
      BY <1>3, <2>2, <3>1
  <2>3. QED
    BY <2>1, <2>2
<1>5. ReceiveIeof(r) = CheckTermination(t)
  BY <1>2, <1>3, <1>4 DEF ReceiveIeof
<1> HIDE DEF fixed
<1>6. /\ CheckTermination(t).c = After(ch, fixed, ch.input, ch.output)
      /\ CheckTermination(t).out = << >>
      /\ CheckTermination(t).fault = "none"
      /\ fixed # Flags => CheckTermination(t) = t
  BY RanCheck
<1>7. QED
  BY <1>1, <1>5, <1>6 DEF Leaves, fixed

\* ... and for an X11 entry whose first packet has not been checked: there is
\* nothing to wait for, both directions are closed at once.
LEMMA ReceiveIeofX11Leaves ==
  ASSUME NEW ch \in Channel, ch.type = "X11_OPEN", ch.isx, ch.flags = {}
  PROVE  Leaves(ReceiveIeof(Run(ch)), ch, Flags \ {"CLOSE_RECEIVED"}, ch.input,
                << >>, <<Closing(ch, "INPUT_EOF"), Closing(ch, "OUTPUT_CLOSED")>>)
<1> DEFINE f1 == {"EOF_RECEIVED"}
           f2 == {"EOF_RECEIVED", "INPUT_CLOSED", "EOF_SENT"}
           f3 == Flags \ {"CLOSE_RECEIVED"}
           m1 == Append(<< >>, Closing(ch, "INPUT_EOF"))
           m2 == Append(m1, Closing(ch, "OUTPUT_CLOSED"))
           r == Ran(With(ch, {}, ch.input, ch.output), << >>, 0)
           s == Ran(With(ch, f1, ch.input, ch.output), << >>, 0)
<1>1. Run(ch) = r
  BY RanFromStart
<1>2. SetFlag(r, "EOF_RECEIVED") = s /\ ~HasFlag(r, "EOF_RECEIVED")
  <2>1. {} \cup {"EOF_RECEIVED"} = f1
    OBVIOUS
  <2>2. QED
    BY <2>1, RanFlag
<1>3. s.c.isx
  BY RanEmpty
<1>4. f2 # Flags /\ f3 # Flags
  BY DEF Flags
<1>5. PICK n : CloseInput(s) = Ran(With(ch, f2, ch.input, ch.output), m1, n)
  <2>1. /\ f1 \cup {"INPUT_CLOSED", "EOF_SENT"} = f2
        /\ {"INPUT_CLOSED", "EOF_SENT"} \cap f1 = {}
    OBVIOUS
  <2> HIDE DEF f1, f2
  <2>2. Leaves(CloseInput(s), ch, f2, ch.input, ch.output, m1)
    BY <2>1, CloseInputAtOnceLeaves
  <2>3. QED
    BY <1>4, <2>2 DEF Leaves
<1>6. PICK l : CloseOutput(CloseInput(s)) = Ran(With(ch, f3, ch.input, << >>), m2, l)
  <2>1. f2 \cup {"OUTPUT_CLOSED", "CLOSE_SENT"} = f3
    BY DEF Flags
  <2>2. {"OUTPUT_CLOSED", "CLOSE_SENT"} \cap f2 = {}
    OBVIOUS
  <2> HIDE DEF f2, f3
  <2>3. Leaves(CloseOutput(Ran(With(ch, f2, ch.input, ch.output), m1, n)), ch, f3,
               ch.input, << >>, m2)
    BY <2>1, <2>2, CloseOutputLeaves
  <2>4. QED
    BY <1>4, <1>5, <2>3 DEF Leaves
<1>7. CloseInput(s).c.type = "X11_OPEN"
  BY <1>5, RanEmpty
<1> HIDE DEF s
<1>8. ReceiveIeof(r) = CheckTermination(CloseOutput(CloseInput(s)))
  BY <1>2, <1>3, <1>7 DEF ReceiveIeof
<1>10. m2 = <<Closing(ch, "INPUT_EOF"), Closing(ch, "OUTPUT_CLOSED")>>
  <2>1. m1 = <<Closing(ch, "INPUT_EOF")>>
    BY DEF Closing, Packet
  <2> DEFINE x == Closing(ch, "INPUT_EOF")
             y == Closing(ch, "OUTPUT_CLOSED")
  <2>2. m1 = <<x>> /\ m2 = Append(m1, y)
    BY <2>1
  <2> HIDE DEF x, y, m1, m2
  <2>3. m2 = <<x, y>>
    <3>1. /\ m1 \in Seq({x, y}) /\ <<x, y>> \in Seq({x, y})
          /\ Len(m1) = 1 /\ m1[1] = x /\ Len(<<x, y>>) = 2
      BY <2>2
    <3>2. /\ m2 \in Seq({x, y}) /\ Len(m2) = 2 /\ m2[1] = x /\ m2[2] = y
      BY <2>2, <3>1, AppendProperties
    <3>3. \A k \in 1 .. 2 : m2[k] = <<x, y>>[k]
      BY <3>2
    <3>4. QED
      BY <3>1, <3>2, <3>3, SeqEqual
  <2>4. QED
    BY <2>3 DEF x, y
<1> HIDE DEF f3, m2
<1> DEFINE t == Ran(With(ch, f3, ch.input, << >>), m2, l)
<1>9. /\ CheckTermination(t).c = After(ch, f3, ch.input, << >>)
      /\ CheckTermination(t).out = m2 /\ CheckTermination(t).fault = "none"
      /\ CheckTermination(t) = t
  BY <1>4, RanCheck
<1>11. QED
  BY <1>1, <1>6, <1>8, <1>9, <1>10 DEF Leaves, f3

\* channel_oclosed
LEMMA ReceiveOclosedLeaves ==
  ASSUME NEW ch \in Channel, ch.type # "FREE", "CLOSE_RECEIVED" \notin ch.flags,
         ch.type = "OPEN" \/ "INPUT_CLOSED" \in ch.flags
  PROVE  Leaves(ReceiveOclosed(Run(ch)), ch,
                ch.flags \cup {"CLOSE_RECEIVED", "INPUT_CLOSED"},
                << >>, ch.output, << >>)
<1> DEFINE marked == ch.flags \cup {"CLOSE_RECEIVED"}
           closed == marked \cup {"INPUT_CLOSED"}
           r == Ran(With(ch, ch.flags, ch.input, ch.output), << >>, 0)
           s == Ran(With(ch, marked, << >>, ch.output), << >>, 0)
           t == Ran(With(ch, closed, << >>, ch.output), << >>, 0)
<1>1. Run(ch) = r
  BY RanFromStart
<1>2. /\ SetFlag(r, "CLOSE_RECEIVED") = Ran(With(ch, marked, ch.input, ch.output), << >>, 0)
      /\ ~HasFlag(r, "CLOSE_RECEIVED")
  BY RanFlag
<1>3. [SetFlag(r, "CLOSE_RECEIVED") EXCEPT !.c.input = << >>] = s
  BY <1>2, RanEmpty
<1>4. CloseInput(s) = t
  <2>1. CASE ch.type = "OPEN"
    BY <2>1, CloseInputLeaves
  <2>2. CASE "INPUT_CLOSED" \in ch.flags
    <3>1. closed = marked
      BY <2>2
    <3>2. HasFlag(s, "INPUT_CLOSED")
      <4>1. "INPUT_CLOSED" \in marked
        BY <2>2
      <4> HIDE DEF marked
      <4>2. QED
        BY <4>1, RanFlag
    <3>3. QED
      BY <3>1, <3>2 DEF CloseInput
  <2>3. QED
    BY <2>1, <2>2
<1>5. ReceiveOclosed(r) = CheckTermination(t)
  BY <1>2, <1>3, <1>4 DEF ReceiveOclosed
<1>6. closed = ch.flags \cup {"CLOSE_RECEIVED", "INPUT_CLOSED"}
  OBVIOUS
<1> HIDE DEF closed
<1>7. /\ CheckTermination(t).c = After(ch, closed, << >>, ch.output)
      /\ CheckTermination(t).out = << >>
      /\ CheckTermination(t).fault = "none"
      /\ closed # Flags => CheckTermination(t) = t
  BY RanCheck
<1>8. QED
  BY <1>1, <1>5, <1>6, <1>7 DEF Leaves

\* The refusal of an X11 connection.
LEMMA RejectX11Leaves ==
  ASSUME NEW ch \in Channel, ch.type = "X11_OPEN", ch.flags = {}
  PROVE  Leaves(RejectX11(Run(ch)), [ch EXCEPT !.type = "OPEN"],
                {"INPUT_CLOSED", "OUTPUT_CLOSED", "CLOSE_SENT"}, << >>, << >>,
                <<Closing(ch, "OUTPUT_CLOSED")>>)
<1> DEFINE d  == [ch EXCEPT !.type = "OPEN"]
           f1 == {"INPUT_CLOSED"}
           m1 == Append(<< >>, Closing(d, "OUTPUT_CLOSED"))
<1>1. /\ d \in Channel /\ d.type = "OPEN" /\ d.flags = {}
      /\ m1 = <<Closing(ch, "OUTPUT_CLOSED")>>
  BY DEF Channel, Closing, ChannelTypes, LiveTypes
<1>2. [Run(ch) EXCEPT !.c = [@ EXCEPT !.type = "OPEN", !.input = << >>,
                                      !.output = << >>]]
        = Ran(With(d, {}, << >>, << >>), << >>, 0)
  <2>1. With(d, {}, << >>, << >>)
          = [ch EXCEPT !.type = "OPEN", !.input = << >>, !.output = << >>]
    BY DEF With, Channel
  <2>2. QED
    BY <2>1 DEF Run, Ran
<1> HIDE DEF d, m1
<1>3. CloseInput(Ran(With(d, {}, << >>, << >>), << >>, 0))
        = Ran(With(d, f1, << >>, << >>), << >>, 0)
  <2>1. {} \cup {"INPUT_CLOSED"} = f1
    OBVIOUS
  <2>2. QED
    BY <1>1, <2>1, CloseInputLeaves
<1>4. Leaves(CloseOutput(Ran(With(d, f1, << >>, << >>), << >>, 0)), d,
             f1 \cup {"OUTPUT_CLOSED", "CLOSE_SENT"}, << >>, << >>, m1)
  <2>1. {"OUTPUT_CLOSED", "CLOSE_SENT"} \cap f1 = {}
    OBVIOUS
  <2> HIDE DEF f1
  <2>2. QED
    BY <1>1, <2>1, CloseOutputLeaves DEF m1
<1>5. f1 \cup {"OUTPUT_CLOSED", "CLOSE_SENT"}
        = {"INPUT_CLOSED", "OUTPUT_CLOSED", "CLOSE_SENT"}
  OBVIOUS
<1> HIDE DEF f1
<1>6. RejectX11(Run(ch)) = CloseOutput(Ran(With(d, f1, << >>, << >>), << >>, 0))
  BY <1>2, <1>3 DEF RejectX11
<1>7. QED
  BY <1>1, <1>4, <1>5, <1>6 DEF d

-----------------------------------------------------------------------------
(* The steps of an established entry, as services of it.                   *)

\* A run serves entry i: it meets no fault, and leaves the entry served.
RunServes(A, B, i, r, x) == r.fault = "none" /\ Served(A, B, i, r.c, x, r.out)

\* The flags and buffers a run may leave in entry ch.
Settled(ch, flags, in, out) ==
  /\ ch \in Channel /\ ch.type \in {"OPEN", "X11_OPEN"}
  /\ flags \in SUBSET Flags /\ in \in Seq(Items) /\ out \in Seq(Items)
  /\ "EOF_SENT" \in flags => "INPUT_CLOSED" \in flags /\ in = << >>
  /\ "CLOSE_SENT" \in flags <=> "OUTPUT_CLOSED" \in flags
  /\ "OUTPUT_CLOSED" \in flags => out = << >>
  /\ ch.type = "X11_OPEN" =>
       ch.isx /\ in = << >> /\ flags \in {{}, Flags \ {"CLOSE_RECEIVED"}, Flags}

\* The entry after a run is as the protocol wants it if its flags are.
LEMMA AfterOK ==
  ASSUME NEW ch, NEW flags, NEW in, NEW out, Settled(ch, flags, in, out),
         NEW new, new = After(ch, flags, in, out)
  PROVE  /\ new.inst = ch.inst /\ new.rid = ch.rid /\ new.flags = flags
         /\ new.type \in {ch.type, "FREE"}
         /\ IF new.type = "FREE" THEN new.flags = Flags ELSE EntryOK(new)
         /\ new.type # "FREE" => new.output = out
         /\ new.type = "FREE" => new.output = << >>
<1>0. ch \in Channel
  BY DEF Settled
<1>1. CASE flags = Flags
  BY <1>0, <1>1 DEF After, FreedOf, Channel
<1>2. CASE flags # Flags
  <2> DEFINE c == With(ch, flags, in, out)
  <2>1. new = c
    BY <1>2 DEF After
  <2>2. /\ c.type = ch.type /\ c.rid = ch.rid /\ c.inst = ch.inst /\ c.isx = ch.isx
        /\ c.flags = flags /\ c.input = in /\ c.output = out
    BY <1>0, WithFields
  <2>3. c \in Channel
    BY <1>0 DEF Settled, With, Channel
  <2> HIDE DEF c
  <2>4. EntryOK(c)
    BY <1>2, <2>2, <2>3 DEF Settled, EntryOK, Orderly, LiveTypes
  <2>5. c.type # "FREE"
    BY <2>4 DEF EntryOK, LiveTypes
  <2>6. QED
    BY <2>1, <2>2, <2>4, <2>5
<1>3. QED
  BY <1>1, <1>2

\* What a run does with the buffers of an entry: the output stays until the
\* socket is shut, for the reason why; the input stays unless the peer closes;
\* and no data is sent.
Handles(old, r, x, why) ==
  /\ "OUTPUT_CLOSED" \notin r.c.flags => r.c.output = old.output
  /\ "OUTPUT_CLOSED" \in r.c.flags \ old.flags =>
       /\ why # "no"
       /\ why = "drained" => old.output = << >> /\ "EOF_RECEIVED" \in old.flags
  /\ r.c.input = old.input \/ (x = "OUTPUT_CLOSED" /\ r.c.input = << >>)
  /\ \A k \in DOMAIN r.out : r.out[k].kind # "DATA"

\* The same of the flags and buffers that are left, before an entry with all
\* the flags is freed.
LEMMA LeavesHandles ==
  ASSUME NEW old, NEW ch \in Channel, NEW r, NEW flags, NEW in, NEW out, NEW sent,
         NEW x, NEW why, Leaves(r, ch, flags, in, out, sent),
         "OUTPUT_CLOSED" \notin flags => out = old.output,
         "OUTPUT_CLOSED" \in flags \ old.flags =>
           /\ why # "no"
           /\ why = "drained" => old.output = << >> /\ "EOF_RECEIVED" \in old.flags,
         in = old.input \/ (x = "OUTPUT_CLOSED" /\ in = << >>),
         flags = Flags => in = << >>,
         \A k \in DOMAIN sent : sent[k].kind # "DATA"
  PROVE  Handles(old, r, x, why)
<1>1. r.c = After(ch, flags, in, out) /\ r.out = sent
  BY DEF Leaves
<1>2. CASE flags = Flags
  <2>1. r.c.flags = Flags /\ r.c.input = << >> /\ "OUTPUT_CLOSED" \in Flags
    BY <1>1, <1>2 DEF After, FreedOf, Channel, Flags
  <2>2. QED
    BY <1>1, <1>2, <2>1 DEF Handles
<1>3. CASE flags # Flags
  <2>1. r.c.flags = flags /\ r.c.input = in /\ r.c.output = out
    BY <1>1, <1>3, WithFields DEF After
  <2>2. QED
    BY <1>1, <2>1 DEF Handles
<1>4. QED
  BY <1>2, <1>3

\* A service that sends nothing and sets no "sent" flag.
LEMMA QuietlyServed ==
  ASSUME NEW A, NEW B, NEW i \in DOMAIN A, EntryOK(A[i]), A[i].type # "OPENING",
         NEW new, NEW x \in LaterKinds \cup {"none"},
         new.inst = A[i].inst, new.rid = A[i].rid, A[i].flags \subseteq new.flags,
         new.type \in {A[i].type, "OPEN", "FREE"},
         IF new.type = "FREE" THEN new.flags = Flags ELSE EntryOK(new),
         new.flags \ A[i].flags \subseteq
           {"INPUT_CLOSED", "EOF_RECEIVED", "CLOSE_RECEIVED"},
         "EOF_RECEIVED" \in new.flags <=>
           "EOF_RECEIVED" \in A[i].flags \/ x = "INPUT_EOF",
         "CLOSE_RECEIVED" \in new.flags <=>
           "CLOSE_RECEIVED" \in A[i].flags \/ x = "OUTPUT_CLOSED",
         \A j \in DOMAIN B :
           /\ B[j].inst = A[i].inst /\ B[j].type = "X11_OPEN"
           /\ "EOF_SENT" \notin B[j].flags
           => "OUTPUT_CLOSED" \notin new.flags /\ new.output = << >>
  PROVE  Served(A, B, i, new, x, << >>)
BY DEF Served

\* What holds of an established entry and its peer's.
LEMMA Established ==
  ASSUME NEW A, NEW B, NEW P, NEW Q, NEW n,
         Half(A, B, P, Q, n), Half(B, A, Q, P, n),
         NEW i \in DOMAIN A, A[i].type # "OPENING"
  PROVE  /\ EntryOK(A[i]) /\ A[i] \in Channel /\ A[i].type \in {"OPEN", "X11_OPEN"}
         /\ A[i].flags \in SUBSET Flags
         /\ A[i].input \in Seq(Items) /\ A[i].output \in Seq(Items)
         /\ \A j \in DOMAIN B :
              /\ B[j].inst = A[i].inst /\ B[j].type = "X11_OPEN"
              /\ "EOF_SENT" \notin B[j].flags
              => /\ "OUTPUT_CLOSED" \notin A[i].flags /\ A[i].output = << >>
                 /\ "EOF_RECEIVED" \notin A[i].flags /\ A[i].type = "OPEN"
<1>1. EntryOK(A[i]) /\ A[i] \in Channel /\ A[i].type \in {"OPEN", "X11_OPEN"}
  BY DEF Half, EntriesOK, EntryOK, LiveTypes
<1>2. /\ A[i].flags \in SUBSET Flags
      /\ A[i].input \in Seq(Items) /\ A[i].output \in Seq(Items)
  BY <1>1 DEF Channel
<1>3. ASSUME NEW j \in DOMAIN B, B[j].inst = A[i].inst, B[j].type = "X11_OPEN",
             "EOF_SENT" \notin B[j].flags
      PROVE  /\ "OUTPUT_CLOSED" \notin A[i].flags /\ A[i].output = << >>
             /\ "EOF_RECEIVED" \notin A[i].flags /\ A[i].type = "OPEN"
  BY <1>1, <1>3 DEF Half, X11OK, AgreeOK
<1>4. QED
  BY <1>1, <1>2, <1>3

\* A packet for an entry whose connection is no longer being opened.
LEMMA AtTheHead ==
  ASSUME NEW A, NEW B, NEW P, NEW Q, NEW n,
         Half(A, B, P, Q, n), Half(B, A, Q, P, n), 1 \in DOMAIN P,
         P[1].kind \in LaterKinds, \A k \in DOMAIN P : k \in Nat \ {0}
  PROVE  /\ P[1].chan \in DOMAIN A /\ A[P[1].chan].inst = P[1].inst
         /\ A[P[1].chan].type # "OPENING"
<1>1. P[1].chan \in DOMAIN A /\ A[P[1].chan].inst = P[1].inst
  BY DEF Half, RoutesOK, LaterKinds, CloseKinds, OpenKinds
<1>2. ~Confirmed(P, P[1].inst, 1)
  BY DEF Confirmed
<1>3. QED
  BY <1>1, <1>2 DEF Half, LaterOK

\* channel_input_data
LEMMA DataServes ==
  ASSUME NEW A, NEW B, NEW P, NEW Q, NEW n,
         Half(A, B, P, Q, n), Half(B, A, Q, P, n), 1 \in DOMAIN P,
         P[1].kind = "DATA", \A k \in DOMAIN P : k \in Nat \ {0}, P[1].data \in Seq(Items)
  PROVE  LET i   == P[1].chan
             new == IF "OUTPUT_CLOSED" \notin A[i].flags
                    THEN [A[i] EXCEPT !.output = @ \o P[1].data] ELSE A[i]
         IN  /\ i \in DOMAIN A /\ A[i].type \in {"OPEN", "X11_OPEN"}
             /\ "EOF_RECEIVED" \notin A[i].flags
             /\ Served(A, B, i, new, "DATA", << >>)
<1> DEFINE i   == P[1].chan
           new == IF "OUTPUT_CLOSED" \notin A[i].flags
                  THEN [A[i] EXCEPT !.output = @ \o P[1].data] ELSE A[i]
<1>1. i \in DOMAIN A /\ A[i].inst = P[1].inst /\ A[i].type # "OPENING"
  BY AtTheHead DEF LaterKinds
<1>2. /\ EntryOK(A[i]) /\ A[i] \in Channel /\ A[i].type \in {"OPEN", "X11_OPEN"}
      /\ A[i].flags \in SUBSET Flags /\ A[i].output \in Seq(Items)
  BY <1>1, Established
<1>3. "EOF_RECEIVED" \notin A[i].flags
  BY <1>1 DEF Half, DataOK
<1>4. A[i].output \o P[1].data \in Seq(Items)
  BY <1>2, ConcatProperties
<1>5. /\ new \in Channel /\ new.type = A[i].type /\ new.flags = A[i].flags
      /\ new.inst = A[i].inst /\ new.rid = A[i].rid /\ new.isx = A[i].isx
      /\ new.input = A[i].input
      /\ "OUTPUT_CLOSED" \in new.flags => new.output = A[i].output
  BY <1>2, <1>4 DEF Channel
<1>6. \A j \in DOMAIN B : B[j].inst = A[i].inst /\ B[j].type = "X11_OPEN" =>
        "EOF_SENT" \in B[j].flags
  BY <1>1 DEF Half, X11OK
<1> HIDE DEF i, new
<1>7. EntryOK(new)
  BY <1>1, <1>2, <1>5 DEF EntryOK, Orderly
<1>8. new.type # "FREE"
  BY <1>7 DEF EntryOK, LiveTypes
<1>9. Served(A, B, i, new, "DATA", << >>)
  BY <1>1, <1>2, <1>5, <1>6, <1>7, <1>8, QuietlyServed DEF LaterKinds
<1>10. QED
  BY <1>1, <1>2, <1>3, <1>9 DEF i, new

\* channel_ieof
LEMMA EofServes ==
  ASSUME NEW A, NEW B, NEW P, NEW Q, NEW n,
         Half(A, B, P, Q, n), Half(B, A, Q, P, n), 1 \in DOMAIN P,
         P[1].kind = "INPUT_EOF", \A k \in DOMAIN P : k \in Nat \ {0}
  PROVE  LET i == P[1].chan
         IN  /\ i \in DOMAIN A /\ A[i].type # "OPENING"
             /\ RunServes(A, B, i, ReceiveIeof(Run(A[i])), "INPUT_EOF")
             /\ Handles(A[i], ReceiveIeof(Run(A[i])), "INPUT_EOF", "early")
<1> DEFINE i == P[1].chan
           r == ReceiveIeof(Run(A[i]))
           fixed == A[i].flags \cup {"EOF_RECEIVED"} \cup
                      (IF A[i].isx THEN {"INPUT_CLOSED"} ELSE {})
<1>1. i \in DOMAIN A /\ A[i].inst = P[1].inst /\ A[i].type # "OPENING"
  BY AtTheHead DEF LaterKinds, CloseKinds
<1>2. /\ EntryOK(A[i]) /\ A[i] \in Channel /\ A[i].type \in {"OPEN", "X11_OPEN"}
      /\ A[i].flags \in SUBSET Flags
      /\ A[i].input \in Seq(Items) /\ A[i].output \in Seq(Items)
      /\ \A j \in DOMAIN B :
           /\ B[j].inst = A[i].inst /\ B[j].type = "X11_OPEN"
           /\ "EOF_SENT" \notin B[j].flags
           => /\ "OUTPUT_CLOSED" \notin A[i].flags /\ A[i].output = << >>
              /\ A[i].type = "OPEN"
  BY <1>1, Established
<1>3. "EOF_RECEIVED" \notin A[i].flags
  BY <1>1 DEF Half, ClosingOK
<1> HIDE DEF i
<1>4. ASSUME A[i].type = "OPEN"
      PROVE  /\ RunServes(A, B, i, r, "INPUT_EOF")
             /\ Handles(A[i], r, "INPUT_EOF", "early")
  <2>1. Leaves(r, A[i], fixed, A[i].input, A[i].output, << >>)
    BY <1>2, <1>3, <1>4, ReceiveIeofLeaves
  <2>2. /\ fixed \in SUBSET Flags /\ A[i].flags \subseteq fixed
        /\ fixed \ A[i].flags \subseteq {"INPUT_CLOSED", "EOF_RECEIVED"}
        /\ "EOF_RECEIVED" \in fixed
    BY <1>2 DEF Flags
  <2> DEFINE new == After(A[i], fixed, A[i].input, A[i].output)
  <2> HIDE DEF fixed
  <2>3. /\ "EOF_SENT" \in fixed => "INPUT_CLOSED" \in fixed /\ A[i].input = << >>
        /\ "CLOSE_SENT" \in fixed <=> "OUTPUT_CLOSED" \in fixed
        /\ "OUTPUT_CLOSED" \in fixed => A[i].output = << >>
        /\ "CLOSE_RECEIVED" \in fixed <=> "CLOSE_RECEIVED" \in A[i].flags
        /\ "OUTPUT_CLOSED" \in fixed <=> "OUTPUT_CLOSED" \in A[i].flags
    BY <1>2, <2>2 DEF EntryOK, Orderly
  <2>4. /\ new.inst = A[i].inst /\ new.rid = A[i].rid /\ new.flags = fixed
        /\ new.type \in {A[i].type, "FREE"}
        /\ IF new.type = "FREE" THEN new.flags = Flags ELSE EntryOK(new)
        /\ new.type # "FREE" => new.output = A[i].output
        /\ new.type = "FREE" => new.output = << >>
    <3>1. Settled(A[i], fixed, A[i].input, A[i].output)
      BY <1>2, <1>4, <2>2, <2>3 DEF Settled
    <3>2. QED
      BY <3>1, AfterOK
  <2> HIDE DEF new
  <2>5. Served(A, B, i, new, "INPUT_EOF", << >>)
    <3>1. \A j \in DOMAIN B :
            /\ B[j].inst = A[i].inst /\ B[j].type = "X11_OPEN"
            /\ "EOF_SENT" \notin B[j].flags
            => "OUTPUT_CLOSED" \notin new.flags /\ new.output = << >>
      BY <1>2, <2>3, <2>4
    <3>2. QED
      BY <1>1, <1>2, <1>4, <2>2, <2>3, <2>4, <3>1, QuietlyServed
         DEF LaterKinds, CloseKinds
  <2>6. Handles(A[i], r, "INPUT_EOF", "early")
    <3> DEFINE sent == << >>
               in == A[i].input
               out == A[i].output
    <3>1. \A k \in DOMAIN sent : sent[k].kind # "DATA"
      OBVIOUS
    <3>2. /\ "OUTPUT_CLOSED" \notin fixed => out = A[i].output
          /\ "OUTPUT_CLOSED" \notin fixed \ A[i].flags
          /\ in = A[i].input
          /\ fixed = Flags => in = << >>
      BY <2>3 DEF Flags
    <3>3. Leaves(r, A[i], fixed, in, out, sent)
      BY <2>1
    <3> HIDE DEF sent, in, out, r
    <3>4. QED
      BY <1>2, <3>1, <3>2, <3>3, LeavesHandles
  <2>7. QED
    BY <2>1, <2>5, <2>6 DEF Leaves, RunServes, new
<1>5. ASSUME A[i].type = "X11_OPEN"
      PROVE  /\ RunServes(A, B, i, r, "INPUT_EOF")
             /\ Handles(A[i], r, "INPUT_EOF", "early")
  <2> DEFINE f == Flags \ {"CLOSE_RECEIVED"}
             new == After(A[i], f, A[i].input, << >>)
             out == <<Closing(A[i], "INPUT_EOF"), Closing(A[i], "OUTPUT_CLOSED")>>
  <2>1. A[i].flags = {} /\ A[i].isx /\ A[i].input = << >>
    BY <1>2, <1>3, <1>5 DEF EntryOK, Flags
  <2>2. Leaves(r, A[i], f, A[i].input, << >>, out)
    BY <1>2, <1>5, <2>1, ReceiveIeofX11Leaves
  <2>3. /\ "INPUT_CLOSED" \in f /\ "OUTPUT_CLOSED" \in f /\ "EOF_SENT" \in f
        /\ "CLOSE_SENT" \in f /\ "EOF_RECEIVED" \in f /\ "CLOSE_RECEIVED" \notin f
        /\ f \in SUBSET Flags /\ f = Flags \ {"CLOSE_RECEIVED"}
    BY DEF Flags
  <2>4. << >> \in Seq(Items)
    BY EmptySeq
  <2> HIDE DEF f
  <2>5. /\ new.inst = A[i].inst /\ new.rid = A[i].rid /\ new.flags = f
        /\ new.type \in {A[i].type, "FREE"}
        /\ IF new.type = "FREE" THEN new.flags = Flags ELSE EntryOK(new)
    <3> DEFINE made == With(A[i], f, A[i].input, << >>)
    <3>1. f # Flags
      BY <2>3 DEF Flags
    <3>2. new = made
      BY <3>1 DEF After
    <3>3. /\ made.type = A[i].type /\ made.rid = A[i].rid /\ made.inst = A[i].inst
          /\ made.isx = A[i].isx /\ made.flags = f /\ made.input = A[i].input
          /\ made.output = << >>
      BY <1>2, WithFields
    <3>4. made \in Channel
      BY <1>2, <2>3, <2>4 DEF With, Channel
    <3> HIDE DEF made
    <3>5. EntryOK(made)
      BY <1>2, <1>5, <2>1, <2>3, <3>1, <3>3, <3>4 DEF EntryOK, Orderly
    <3>6. made.type # "FREE"
      BY <1>5, <3>3
    <3>7. QED
      BY <3>2, <3>3, <3>5, <3>6
  <2>6. /\ DOMAIN out = {1, 2} /\ out[1].kind = "INPUT_EOF"
        /\ out[2].kind = "OUTPUT_CLOSED"
        /\ \A k \in DOMAIN out : out[k].chan = A[i].rid /\ out[k].inst = A[i].inst
    BY DEF Closing, Packet
  <2> HIDE DEF new, out
  <2>7. Served(A, B, i, new, "INPUT_EOF", out)
    BY <1>1, <1>2, <1>5, <2>1, <2>3, <2>5, <2>6 DEF Served, LaterKinds, CloseKinds
  <2>8. Handles(A[i], r, "INPUT_EOF", "early")
    <3> DEFINE in == A[i].input
               none == << >>
    <3>1. \A k \in DOMAIN out : out[k].kind # "DATA"
      BY <2>6
    <3>2. "OUTPUT_CLOSED" \in f /\ in = A[i].input /\ f # Flags
      BY <2>3 DEF Flags
    <3>3. Leaves(r, A[i], f, in, none, out)
      BY <2>2 DEF out
    <3> HIDE DEF in, none, r
    <3>4. QED
      BY <1>2, <3>1, <3>2, <3>3, LeavesHandles
  <2>9. QED
    BY <2>2, <2>7, <2>8 DEF Leaves, RunServes, new
<1>6. QED
  BY <1>1, <1>2, <1>4, <1>5 DEF i

\* A run that sends nothing serves the entry if its flags are in order.
LEMMA QuietRun ==
  ASSUME NEW A, NEW B, NEW P, NEW Q, NEW n,
         Half(A, B, P, Q, n), Half(B, A, Q, P, n),
         NEW i \in DOMAIN A, A[i].type # "OPENING",
         NEW r, NEW x \in LaterKinds \cup {"none"}, NEW flags \in SUBSET Flags,
         NEW in \in Seq(Items), NEW out \in Seq(Items),
         Leaves(r, A[i], flags, in, out, << >>),
         A[i].flags \subseteq flags,
         flags \ A[i].flags \subseteq
           {"INPUT_CLOSED", "EOF_RECEIVED", "CLOSE_RECEIVED"},
         A[i].input = << >> => in = << >>, A[i].output = << >> => out = << >>,
         A[i].type = "X11_OPEN" =>
           flags \in {{}, Flags \ {"CLOSE_RECEIVED"}, Flags},
         "EOF_RECEIVED" \in flags <=>
           "EOF_RECEIVED" \in A[i].flags \/ x = "INPUT_EOF",
         "CLOSE_RECEIVED" \in flags <=>
           "CLOSE_RECEIVED" \in A[i].flags \/ x = "OUTPUT_CLOSED"
  PROVE  RunServes(A, B, i, r, x)
<1> DEFINE new == After(A[i], flags, in, out)
<1>1. /\ EntryOK(A[i]) /\ A[i] \in Channel /\ A[i].type \in {"OPEN", "X11_OPEN"}
      /\ \A j \in DOMAIN B :
           /\ B[j].inst = A[i].inst /\ B[j].type = "X11_OPEN"
           /\ "EOF_SENT" \notin B[j].flags
           => /\ "OUTPUT_CLOSED" \notin A[i].flags /\ A[i].output = << >>
              /\ A[i].type = "OPEN"
  BY Established
<1>2. /\ "EOF_SENT" \in flags <=> "EOF_SENT" \in A[i].flags
      /\ "CLOSE_SENT" \in flags <=> "CLOSE_SENT" \in A[i].flags
      /\ "OUTPUT_CLOSED" \in flags <=> "OUTPUT_CLOSED" \in A[i].flags
      /\ "INPUT_CLOSED" \in A[i].flags => "INPUT_CLOSED" \in flags
  OBVIOUS
<1>3. /\ "EOF_SENT" \in flags => "INPUT_CLOSED" \in flags /\ in = << >>
      /\ "CLOSE_SENT" \in flags <=> "OUTPUT_CLOSED" \in flags
      /\ "OUTPUT_CLOSED" \in flags => out = << >>
      /\ A[i].type = "X11_OPEN" =>
           A[i].isx /\ in = << >> /\ flags \in {{}, Flags \ {"CLOSE_RECEIVED"}, Flags}
  BY <1>1, <1>2 DEF EntryOK, Orderly
<1>4. /\ new.inst = A[i].inst /\ new.rid = A[i].rid /\ new.flags = flags
      /\ new.type \in {A[i].type, "FREE"}
      /\ IF new.type = "FREE" THEN new.flags = Flags ELSE EntryOK(new)
      /\ new.type # "FREE" => new.output = out
      /\ new.type = "FREE" => new.output = << >>
  <2>1. Settled(A[i], flags, in, out)
    BY <1>1, <1>3 DEF Settled
  <2>2. QED
    BY <2>1, AfterOK
<1> HIDE DEF new
<1>5. Served(A, B, i, new, x, << >>)
  <2>1. \A j \in DOMAIN B :
          /\ B[j].inst = A[i].inst /\ B[j].type = "X11_OPEN"
          /\ "EOF_SENT" \notin B[j].flags
          => "OUTPUT_CLOSED" \notin new.flags /\ new.output = << >>
    BY <1>1, <1>2, <1>4
  <2>2. QED
    BY <1>1, <1>2, <1>4, <2>1, QuietlyServed
<1>6. QED
  BY <1>5 DEF Leaves, RunServes, new

\* channel_oclosed
LEMMA CloseServes ==
  ASSUME NEW A, NEW B, NEW P, NEW Q, NEW n,
         Half(A, B, P, Q, n), Half(B, A, Q, P, n), 1 \in DOMAIN P,
         P[1].kind = "OUTPUT_CLOSED", \A k \in DOMAIN P : k \in Nat \ {0}
  PROVE  LET i == P[1].chan
         IN  /\ i \in DOMAIN A /\ A[i].type # "OPENING"
             /\ RunServes(A, B, i, ReceiveOclosed(Run(A[i])), "OUTPUT_CLOSED")
             /\ Handles(A[i], ReceiveOclosed(Run(A[i])), "OUTPUT_CLOSED", "no")
<1> DEFINE i == P[1].chan
           r == ReceiveOclosed(Run(A[i]))
           flags == A[i].flags \cup {"CLOSE_RECEIVED", "INPUT_CLOSED"}
<1>1. i \in DOMAIN A /\ A[i].inst = P[1].inst /\ A[i].type # "OPENING"
  BY AtTheHead DEF LaterKinds, CloseKinds
<1>2. /\ EntryOK(A[i]) /\ A[i] \in Channel /\ A[i].type \in {"OPEN", "X11_OPEN"}
      /\ A[i].flags \in SUBSET Flags
      /\ A[i].input \in Seq(Items) /\ A[i].output \in Seq(Items)
  BY <1>1, Established
<1>3. /\ "CLOSE_RECEIVED" \notin A[i].flags
      /\ \A j \in DOMAIN B : B[j].inst = A[i].inst => "CLOSE_SENT" \in B[j].flags
  BY <1>1 DEF Half, ClosingOK
<1>4. ASSUME A[i].type = "X11_OPEN" PROVE "EOF_SENT" \in A[i].flags
  <2>1. \A j \in DOMAIN B : B[j].inst = A[i].inst => "OUTPUT_CLOSED" \in B[j].flags
    BY <1>3 DEF Half, EntriesOK, EntryOK, Orderly
  <2>2. CASE \E j \in DOMAIN B : B[j].inst = A[i].inst
    BY <1>1, <1>4, <2>1, <2>2 DEF Half, X11OK
  <2>3. CASE \A j \in DOMAIN B : B[j].inst # A[i].inst
    BY <1>1, <2>3 DEF Half, GoneOK
  <2>4. QED
    BY <2>2, <2>3
<1>5. A[i].type = "X11_OPEN" => A[i].flags = Flags \ {"CLOSE_RECEIVED"}
  BY <1>2, <1>4 DEF EntryOK
<1>6. A[i].type = "OPEN" \/ "INPUT_CLOSED" \in A[i].flags
  BY <1>2, <1>5 DEF Flags
<1> HIDE DEF i
<1>7. Leaves(r, A[i], flags, << >>, A[i].output, << >>)
  BY <1>2, <1>3, <1>6, ReceiveOclosedLeaves
<1>8. /\ flags \in SUBSET Flags /\ A[i].flags \subseteq flags
      /\ flags \ A[i].flags \subseteq {"INPUT_CLOSED", "EOF_RECEIVED", "CLOSE_RECEIVED"}
      /\ A[i].type = "X11_OPEN" => flags \in {{}, Flags \ {"CLOSE_RECEIVED"}, Flags}
      /\ "EOF_RECEIVED" \in flags <=> "EOF_RECEIVED" \in A[i].flags
      /\ "CLOSE_RECEIVED" \in flags
  BY <1>2, <1>5 DEF Flags
<1>9. << >> \in Seq(Items) /\ "OUTPUT_CLOSED" \in LaterKinds \cup {"none"}
  BY EmptySeq DEF LaterKinds, CloseKinds
<1> HIDE DEF flags, r
<1>10. RunServes(A, B, i, r, "OUTPUT_CLOSED")
  <2> DEFINE in == << >>
             out == A[i].output
  <2>1. /\ in \in Seq(Items) /\ out \in Seq(Items)
        /\ A[i].input = << >> => in = << >>
        /\ A[i].output = << >> => out = << >>
        /\ Leaves(r, A[i], flags, in, out, << >>)
    BY <1>2, <1>7, <1>9
  <2> HIDE DEF in, out
  <2>2. QED
    BY <1>1, <1>8, <1>9, <2>1, QuietRun
<1>11. Handles(A[i], r, "OUTPUT_CLOSED", "no")
  <2> DEFINE in == << >>
             out == A[i].output
             sent == << >>
  <2>1. /\ Leaves(r, A[i], flags, in, out, sent) /\ in = << >> /\ out = A[i].output
        /\ \A k \in DOMAIN sent : sent[k].kind # "DATA"
    BY <1>7
  <2>2. "OUTPUT_CLOSED" \notin flags \ A[i].flags
    BY <1>8
  <2> HIDE DEF in, out, sent
  <2>3. QED
    BY <1>2, <2>1, <2>2, LeavesHandles
<1>12. QED
  BY <1>1, <1>10, <1>11 DEF i, r

\* One packet, and what it says.
LEMMA OneClosing ==
  ASSUME NEW ch, NEW kind
  PROVE  LET out == <<Closing(ch, kind)>>
         IN  /\ DOMAIN out = {1} /\ out[1].kind = kind
             /\ out[1].chan = ch.rid /\ out[1].inst = ch.inst
             /\ out = Append(<< >>, Closing(ch, kind))
BY DEF Closing, Packet

\* A run that closes the output and says so; d is the entry it works on.
ClosesOutput(A, B, i, d, r, flags, in) ==
  /\ i \in DOMAIN A /\ A[i].type # "OPENING"
  /\ d \in Channel /\ d.type = "OPEN" /\ d.inst = A[i].inst /\ d.rid = A[i].rid
  /\ flags \in SUBSET Flags /\ in \in Seq(Items)
  /\ Leaves(r, d, flags, in, << >>, <<Closing(d, "OUTPUT_CLOSED")>>)
  /\ A[i].flags \subseteq flags
  /\ flags \ A[i].flags \subseteq {"INPUT_CLOSED", "OUTPUT_CLOSED", "CLOSE_SENT"}
  /\ {"OUTPUT_CLOSED", "CLOSE_SENT"} \subseteq flags
  /\ "CLOSE_SENT" \notin A[i].flags
  /\ "EOF_SENT" \in A[i].flags => in = << >>
  /\ \A j \in DOMAIN B : B[j].inst = A[i].inst /\ B[j].type = "X11_OPEN" =>
       "EOF_SENT" \in B[j].flags

\* It serves the entry.
LEMMA CloseRun ==
  ASSUME NEW A, NEW B, NEW P, NEW Q, NEW n,
         Half(A, B, P, Q, n), Half(B, A, Q, P, n),
         NEW i, NEW d, NEW r, NEW flags, NEW in,
         ClosesOutput(A, B, i, d, r, flags, in)
  PROVE  RunServes(A, B, i, r, "none")
<1>0. /\ i \in DOMAIN A /\ A[i].type # "OPENING"
      /\ d \in Channel /\ d.type = "OPEN" /\ d.inst = A[i].inst /\ d.rid = A[i].rid
      /\ flags \in SUBSET Flags /\ in \in Seq(Items)
      /\ Leaves(r, d, flags, in, << >>, <<Closing(d, "OUTPUT_CLOSED")>>)
      /\ A[i].flags \subseteq flags
      /\ flags \ A[i].flags \subseteq {"INPUT_CLOSED", "OUTPUT_CLOSED", "CLOSE_SENT"}
      /\ {"OUTPUT_CLOSED", "CLOSE_SENT"} \subseteq flags
      /\ "CLOSE_SENT" \notin A[i].flags
      /\ "EOF_SENT" \in A[i].flags => in = << >>
      /\ \A j \in DOMAIN B : B[j].inst = A[i].inst /\ B[j].type = "X11_OPEN" =>
           "EOF_SENT" \in B[j].flags
  BY DEF ClosesOutput
<1> DEFINE out == << >>
           new == After(d, flags, in, out)
           sent == <<Closing(d, "OUTPUT_CLOSED")>>
<1>1. EntryOK(A[i]) /\ A[i].type \in {"OPEN", "X11_OPEN"}
  BY <1>0, Established
<1>2. /\ "EOF_SENT" \in flags => "INPUT_CLOSED" \in flags /\ in = << >>
      /\ "EOF_SENT" \in flags => "EOF_SENT" \in A[i].flags
      /\ "EOF_RECEIVED" \in flags <=> "EOF_RECEIVED" \in A[i].flags
      /\ "CLOSE_RECEIVED" \in flags <=> "CLOSE_RECEIVED" \in A[i].flags
  BY <1>0, <1>1 DEF EntryOK, Orderly
<1>3. out \in Seq(Items) /\ out = << >>
  BY EmptySeq
<1>4. DOMAIN sent = {1} /\ sent[1].kind = "OUTPUT_CLOSED"
      /\ sent[1].chan = A[i].rid /\ sent[1].inst = A[i].inst
  BY <1>0, OneClosing
<1>5. Leaves(r, d, flags, in, out, sent)
  BY <1>0
<1> HIDE DEF out, sent
<1>6. /\ new.inst = A[i].inst /\ new.rid = A[i].rid /\ new.flags = flags
      /\ new.type \in {"OPEN", "FREE"}
      /\ IF new.type = "FREE" THEN new.flags = Flags ELSE EntryOK(new)
  <2>1. d.type \in {"OPEN", "X11_OPEN"} /\ d.type # "X11_OPEN"
    BY <1>0
  <2>2. /\ "EOF_SENT" \in flags => "INPUT_CLOSED" \in flags /\ in = << >>
        /\ "CLOSE_SENT" \in flags <=> "OUTPUT_CLOSED" \in flags
        /\ "OUTPUT_CLOSED" \in flags => out = << >>
        /\ d.type = "X11_OPEN" =>
           d.isx /\ in = << >> /\ flags \in {{}, Flags \ {"CLOSE_RECEIVED"}, Flags}
    BY <1>0, <1>2, <1>3, <2>1
  <2>3. /\ new.inst = d.inst /\ new.rid = d.rid /\ new.flags = flags
        /\ new.type \in {d.type, "FREE"}
        /\ IF new.type = "FREE" THEN new.flags = Flags ELSE EntryOK(new)
    <3>1. Settled(d, flags, in, out)
      BY <1>0, <1>3, <2>1, <2>2 DEF Settled
    <3>2. QED
      BY <3>1, AfterOK
  <2>4. QED
    BY <1>0, <2>3
<1> HIDE DEF new
<1>7. Served(A, B, i, new, "none", sent)
  BY <1>0, <1>1, <1>2, <1>4, <1>6 DEF Served, LaterKinds, CloseKinds
<1>8. QED
  BY <1>5, <1>7 DEF Leaves, RunServes, new

\* channel_output_poll sends some of the input.
LEMMA PollDataServes ==
  ASSUME NEW A, NEW B, NEW P, NEW Q, NEW n,
         Half(A, B, P, Q, n), Half(B, A, Q, P, n),
         NEW i \in DOMAIN A, A[i].type = "OPEN", A[i].input # << >>,
         NEW rest \in Seq(Items), NEW data
  PROVE  Served(A, B, i, [A[i] EXCEPT !.input = rest], "none",
                <<Packet("DATA", A[i].rid, NoId, NoTarget, data, A[i].inst)>>)
<1> DEFINE new == [A[i] EXCEPT !.input = rest]
           out == <<Packet("DATA", A[i].rid, NoId, NoTarget, data, A[i].inst)>>
<1>1. /\ EntryOK(A[i]) /\ A[i] \in Channel
      /\ \A j \in DOMAIN B :
           /\ B[j].inst = A[i].inst /\ B[j].type = "X11_OPEN"
           /\ "EOF_SENT" \notin B[j].flags
           => "OUTPUT_CLOSED" \notin A[i].flags /\ A[i].output = << >>
  BY Established
<1>2. /\ new \in Channel /\ new.type = A[i].type /\ new.flags = A[i].flags
      /\ new.inst = A[i].inst /\ new.rid = A[i].rid /\ new.output = A[i].output
  BY <1>1 DEF Channel
<1>3. "EOF_SENT" \notin new.flags
  BY <1>1, <1>2 DEF EntryOK
<1>4. /\ DOMAIN out = {1} /\ out[1].kind = "DATA"
      /\ out[1].chan = A[i].rid /\ out[1].inst = A[i].inst
  BY DEF Packet
<1> HIDE DEF new, out
<1>5. EntryOK(new)
  BY <1>1, <1>2, <1>3 DEF EntryOK, Orderly
<1>6. Served(A, B, i, new, "none", out)
  BY <1>1, <1>2, <1>3, <1>4, <1>5 DEF Served, LaterKinds
<1>7. QED
  BY <1>6 DEF new, out

\* channel_output_poll sends the eof.
LEMMA PollEofServes ==
  ASSUME NEW A, NEW B, NEW P, NEW Q, NEW n,
         Half(A, B, P, Q, n), Half(B, A, Q, P, n),
         NEW i \in DOMAIN A, A[i].type = "OPEN", A[i].input = << >>,
         "INPUT_CLOSED" \in A[i].flags, "EOF_SENT" \notin A[i].flags
  PROVE  /\ RunServes(A, B, i, SendIeof(Run(A[i])), "none")
         /\ Handles(A[i], SendIeof(Run(A[i])), "none", "no")
<1> DEFINE flags == A[i].flags \cup {"EOF_SENT"}
           r == SendIeof(Run(A[i]))
           new == After(A[i], flags, A[i].input, A[i].output)
           out == <<Closing(A[i], "INPUT_EOF")>>
<1>1. /\ EntryOK(A[i]) /\ A[i] \in Channel
      /\ A[i].flags \in SUBSET Flags
      /\ A[i].input \in Seq(Items) /\ A[i].output \in Seq(Items)
      /\ \A j \in DOMAIN B :
           /\ B[j].inst = A[i].inst /\ B[j].type = "X11_OPEN"
           /\ "EOF_SENT" \notin B[j].flags
           => "OUTPUT_CLOSED" \notin A[i].flags /\ A[i].output = << >>
  BY Established
<1>2. Leaves(r, A[i], flags, A[i].input, A[i].output, out)
  <2>1. Run(A[i]) = Ran(With(A[i], A[i].flags, A[i].input, A[i].output), << >>, 0)
    BY <1>1, RanFromStart
  <2>2. out = Append(<< >>, Closing(A[i], "INPUT_EOF"))
    BY OneClosing
  <2> HIDE DEF out
  <2>3. QED
    BY <1>1, <2>1, <2>2, SendIeofLeaves
<1>3. /\ flags \in SUBSET Flags /\ A[i].flags \subseteq flags
      /\ "EOF_SENT" \in flags /\ "INPUT_CLOSED" \in flags
      /\ \A f \in Flags \ {"EOF_SENT"} : f \in flags <=> f \in A[i].flags
  BY <1>1 DEF Flags
<1>4. /\ DOMAIN out = {1} /\ out[1].kind = "INPUT_EOF"
      /\ out[1].chan = A[i].rid /\ out[1].inst = A[i].inst
  BY OneClosing
<1> HIDE DEF flags, out, r
<1>5. /\ "CLOSE_SENT" \in flags <=> "OUTPUT_CLOSED" \in flags
      /\ "OUTPUT_CLOSED" \in flags => A[i].output = << >>
      /\ "CLOSE_SENT" \in flags <=> "CLOSE_SENT" \in A[i].flags
      /\ "OUTPUT_CLOSED" \in flags <=> "OUTPUT_CLOSED" \in A[i].flags
      /\ "EOF_RECEIVED" \in flags <=> "EOF_RECEIVED" \in A[i].flags
      /\ "CLOSE_RECEIVED" \in flags <=> "CLOSE_RECEIVED" \in A[i].flags
  BY <1>1, <1>3 DEF EntryOK, Orderly, Flags
<1>6. /\ new.inst = A[i].inst /\ new.rid = A[i].rid /\ new.flags = flags
      /\ new.type \in {A[i].type, "FREE"}
      /\ IF new.type = "FREE" THEN new.flags = Flags ELSE EntryOK(new)
      /\ new.type # "FREE" => new.output = A[i].output
      /\ new.type = "FREE" => new.output = << >>
  <2>1. Settled(A[i], flags, A[i].input, A[i].output)
    BY <1>1, <1>3, <1>5 DEF Settled
  <2>2. QED
    BY <2>1, AfterOK
<1> HIDE DEF new
<1>7. Served(A, B, i, new, "none", out)
  BY <1>1, <1>3, <1>4, <1>5, <1>6 DEF Served, LaterKinds, CloseKinds
<1>8. RunServes(A, B, i, r, "none")
  BY <1>2, <1>7 DEF Leaves, RunServes, new
<1>9. Handles(A[i], r, "none", "no")
  <2> DEFINE in == A[i].input
             sent == A[i].output
  <2>1. Leaves(r, A[i], flags, in, sent, out) /\ in = A[i].input /\ in = << >>
        /\ sent = A[i].output
    BY <1>2
  <2>2. "OUTPUT_CLOSED" \notin flags \ A[i].flags
    BY <1>5
  <2>3. \A k \in DOMAIN out : out[k].kind # "DATA"
    BY <1>4
  <2> HIDE DEF in, sent
  <2>4. QED
    BY <1>1, <2>1, <2>2, <2>3, LeavesHandles
<1>10. QED
  BY <1>8, <1>9 DEF r

\* channel_close_output of an open entry, after a read that may have left
\* something in its input.
LEMMA CloseOutputServes ==
  ASSUME NEW A, NEW B, NEW P, NEW Q, NEW n,
         Half(A, B, P, Q, n), Half(B, A, Q, P, n),
         NEW i \in DOMAIN A, A[i].type = "OPEN", "OUTPUT_CLOSED" \notin A[i].flags,
         "EOF_RECEIVED" \in A[i].flags \/ A[i].output # << >>,
         NEW d \in Channel, d.type = "OPEN", d.flags = A[i].flags,
         d.inst = A[i].inst, d.rid = A[i].rid,
         "EOF_SENT" \in A[i].flags => d.input = << >>,
         NEW why, why # "no",
         why = "drained" => d.output = << >> /\ "EOF_RECEIVED" \in d.flags
  PROVE  /\ RunServes(A, B, i, CloseOutput(Run(d)), "none")
         /\ Handles(d, CloseOutput(Run(d)), "none", why)
         /\ "OUTPUT_CLOSED" \in CloseOutput(Run(d)).c.flags
<1> DEFINE flags == A[i].flags \cup {"OUTPUT_CLOSED", "CLOSE_SENT"}
           r == CloseOutput(Run(d))
           sent == <<Closing(d, "OUTPUT_CLOSED")>>
<1>1. /\ EntryOK(A[i]) /\ A[i].flags \in SUBSET Flags
      /\ \A j \in DOMAIN B : B[j].inst = A[i].inst /\ B[j].type = "X11_OPEN" =>
           "EOF_SENT" \in B[j].flags
  BY Established
<1>2. "CLOSE_SENT" \notin A[i].flags
  BY <1>1 DEF EntryOK, Orderly
<1>3. d.input \in Seq(Items)
  BY DEF Channel
<1>4. Leaves(r, d, flags, d.input, << >>, sent)
  <2>1. Run(d) = Ran(With(d, A[i].flags, d.input, d.output), << >>, 0)
    BY RanFromStart
  <2>2. sent = Append(<< >>, Closing(d, "OUTPUT_CLOSED"))
    BY OneClosing
  <2>3. {"OUTPUT_CLOSED", "CLOSE_SENT"} \cap A[i].flags = {}
    BY <1>2
  <2> HIDE DEF sent
  <2>4. QED
    BY <2>1, <2>2, <2>3, CloseOutputLeaves
<1>5. /\ flags \in SUBSET Flags /\ A[i].flags \subseteq flags
      /\ flags \ A[i].flags \subseteq {"INPUT_CLOSED", "OUTPUT_CLOSED", "CLOSE_SENT"}
      /\ {"OUTPUT_CLOSED", "CLOSE_SENT"} \subseteq flags
  BY <1>1 DEF Flags
<1> HIDE DEF flags, r
<1>6. RunServes(A, B, i, r, "none")
  <2> DEFINE in == d.input
  <2>1. /\ in \in Seq(Items)
        /\ "EOF_SENT" \in A[i].flags => in = << >>
        /\ Leaves(r, d, flags, in, << >>, <<Closing(d, "OUTPUT_CLOSED")>>)
        /\ A[i].type # "OPENING"
    BY <1>3, <1>4
  <2> HIDE DEF in
  <2>2. ClosesOutput(A, B, i, d, r, flags, in)
    BY <1>1, <1>2, <1>5, <2>1 DEF ClosesOutput
  <2>3. QED
    BY <2>2, CloseRun
<1>7. Handles(d, r, "none", why)
  <2> DEFINE in == d.input
             out == << >>
  <2>1. /\ Leaves(r, d, flags, in, out, sent) /\ in = d.input
        /\ flags = Flags => in = << >>
    <3>1. "EOF_SENT" \in flags => "EOF_SENT" \in A[i].flags
      BY <1>5
    <3>2. QED
      BY <1>4, <3>1 DEF Flags
  <2>2. \A k \in DOMAIN sent : sent[k].kind # "DATA"
    BY OneClosing
  <2> HIDE DEF in, out, sent
  <2>3. "OUTPUT_CLOSED" \in flags
    BY <1>5
  <2>4. QED
    BY <2>1, <2>2, <2>3, LeavesHandles
<1>8. "OUTPUT_CLOSED" \in r.c.flags
  <2>1. r.c = After(d, flags, d.input, << >>)
    BY <1>4 DEF Leaves
  <2>2. After(d, flags, d.input, << >>).flags = flags
    BY WithFields DEF After, FreedOf, Channel
  <2>3. QED
    BY <1>5, <2>1, <2>2
<1>9. QED
  BY <1>6, <1>7, <1>8 DEF r

\* channel_close_input of an open entry, which leaves the eof for later.
LEMMA CloseInputServes ==
  ASSUME NEW A, NEW B, NEW P, NEW Q, NEW n,
         Half(A, B, P, Q, n), Half(B, A, Q, P, n),
         NEW i \in DOMAIN A, A[i].type = "OPEN"
  PROVE  /\ RunServes(A, B, i, CloseInput(Run(A[i])), "none")
         /\ Handles(A[i], CloseInput(Run(A[i])), "none", "no")
<1> DEFINE flags == A[i].flags \cup {"INPUT_CLOSED"}
           r == CloseInput(Run(A[i]))
<1>1. /\ EntryOK(A[i]) /\ A[i] \in Channel /\ A[i].flags \in SUBSET Flags
      /\ A[i].input \in Seq(Items) /\ A[i].output \in Seq(Items)
  BY Established
<1>2. r = Ran(With(A[i], flags, A[i].input, A[i].output), << >>, 0)
  <2>1. Run(A[i]) = Ran(With(A[i], A[i].flags, A[i].input, A[i].output), << >>, 0)
    BY <1>1, RanFromStart
  <2>2. QED
    BY <1>1, <2>1, CloseInputLeaves
<1>3. flags # Flags
  BY <1>1 DEF EntryOK, Orderly, Flags
<1>4. /\ flags \in SUBSET Flags /\ A[i].flags \subseteq flags
      /\ flags \ A[i].flags \subseteq {"INPUT_CLOSED", "EOF_RECEIVED", "CLOSE_RECEIVED"}
      /\ "EOF_RECEIVED" \in flags <=> "EOF_RECEIVED" \in A[i].flags
      /\ "CLOSE_RECEIVED" \in flags <=> "CLOSE_RECEIVED" \in A[i].flags
  BY <1>1 DEF Flags
<1> HIDE DEF flags
<1>5. Leaves(r, A[i], flags, A[i].input, A[i].output, << >>)
  <2>1. /\ r.c = With(A[i], flags, A[i].input, A[i].output)
        /\ r.out = << >> /\ r.fault = "none"
    BY <1>2 DEF Ran
  <2>2. \E m : r = Ran(With(A[i], flags, A[i].input, A[i].output), << >>, m)
    BY <1>2
  <2> HIDE DEF r
  <2>3. QED
    BY <1>3, <2>1, <2>2 DEF Leaves, After
<1> HIDE DEF r
<1>6. RunServes(A, B, i, r, "none")
  <2> DEFINE in == A[i].input
             out == A[i].output
             x == "none"
  <2>1. /\ in \in Seq(Items) /\ out \in Seq(Items)
        /\ A[i].input = << >> => in = << >>
        /\ A[i].output = << >> => out = << >>
        /\ Leaves(r, A[i], flags, in, out, << >>)
        /\ A[i].type # "OPENING" /\ A[i].type # "X11_OPEN"
        /\ x \in LaterKinds \cup {"none"}
        /\ "EOF_RECEIVED" \in flags <=>
             "EOF_RECEIVED" \in A[i].flags \/ x = "INPUT_EOF"
        /\ "CLOSE_RECEIVED" \in flags <=>
             "CLOSE_RECEIVED" \in A[i].flags \/ x = "OUTPUT_CLOSED"
    BY <1>1, <1>4, <1>5
  <2>2. x = "none"
    OBVIOUS
  <2> HIDE DEF in, out, x
  <2>3. RunServes(A, B, i, r, x)
    BY <1>1, <1>4, <2>1, QuietRun
  <2>4. QED
    BY <2>2, <2>3
<1>7. Handles(A[i], r, "none", "no")
  <2> DEFINE in == A[i].input
             out == A[i].output
             sent == << >>
  <2>1. /\ Leaves(r, A[i], flags, in, out, sent)
        /\ in = A[i].input /\ out = A[i].output
        /\ \A k \in DOMAIN sent : sent[k].kind # "DATA"
    BY <1>5
  <2>2. "OUTPUT_CLOSED" \notin flags \ A[i].flags
    BY <1>4
  <2> HIDE DEF in, out, sent
  <2>3. QED
    BY <1>1, <1>3, <2>1, <2>2, LeavesHandles
<1>8. QED
  BY <1>6, <1>7 DEF r

\* A read into the input and a write from the output.
LEMMA BuffersServe ==
  ASSUME NEW A, NEW B, NEW P, NEW Q, NEW n,
         Half(A, B, P, Q, n), Half(B, A, Q, P, n),
         NEW i \in DOMAIN A, A[i].type = "OPEN", NEW d \in Channel,
         d.type = "OPEN", d.flags = A[i].flags, d.inst = A[i].inst,
         d.rid = A[i].rid, "EOF_SENT" \in A[i].flags => d.input = << >>,
         A[i].output = << >> => d.output = << >>
  PROVE  RunServes(A, B, i, Run(d), "none")
<1>1. /\ EntryOK(A[i])
      /\ \A j \in DOMAIN B :
           /\ B[j].inst = A[i].inst /\ B[j].type = "X11_OPEN"
           /\ "EOF_SENT" \notin B[j].flags
           => "OUTPUT_CLOSED" \notin A[i].flags /\ A[i].output = << >>
  BY Established
<1>2. EntryOK(d)
  BY <1>1 DEF EntryOK, Orderly, LiveTypes
<1>3. Served(A, B, i, d, "none", << >>)
  BY <1>1, <1>2, QuietlyServed
<1>4. QED
  BY <1>3 DEF RunServes, Run

\* The first packet of an X11 connection is good: the entry is an open one.
LEMMA X11GoodServes ==
  ASSUME NEW A, NEW B, NEW P, NEW Q, NEW n,
         Half(A, B, P, Q, n), Half(B, A, Q, P, n),
         NEW i \in DOMAIN A, A[i].type = "X11_OPEN"
  PROVE  Served(A, B, i, [A[i] EXCEPT !.type = "OPEN"], "none", << >>)
<1> DEFINE new == [A[i] EXCEPT !.type = "OPEN"]
<1>1. EntryOK(A[i]) /\ A[i] \in Channel
  BY Established
<1>2. \A j \in DOMAIN B : B[j].inst = A[i].inst => B[j].type # "X11_OPEN"
  BY DEF Half, X11OK
<1>3. /\ new \in Channel /\ new.type = "OPEN" /\ new.flags = A[i].flags
      /\ new.inst = A[i].inst /\ new.rid = A[i].rid /\ new.output = A[i].output
      /\ new.input = A[i].input
  BY <1>1 DEF Channel, ChannelTypes, LiveTypes
<1> HIDE DEF new
<1>4. EntryOK(new)
  BY <1>1, <1>3 DEF EntryOK, Orderly, LiveTypes
<1>5. Served(A, B, i, new, "none", << >>)
  BY <1>1, <1>2, <1>3, <1>4, QuietlyServed
<1>6. QED
  BY <1>5 DEF new

\* ... or bad: the connection is refused.
LEMMA X11BadServes ==
  ASSUME NEW A, NEW B, NEW P, NEW Q, NEW n,
         Half(A, B, P, Q, n), Half(B, A, Q, P, n),
         NEW i \in DOMAIN A, A[i].type = "X11_OPEN", A[i].output # << >>
  PROVE  /\ RunServes(A, B, i, RejectX11(Run(A[i])), "none")
         /\ Handles(A[i], RejectX11(Run(A[i])), "none", "rejected")
<1> DEFINE d == [A[i] EXCEPT !.type = "OPEN"]
           flags == {"INPUT_CLOSED", "OUTPUT_CLOSED", "CLOSE_SENT"}
           r == RejectX11(Run(A[i]))
<1>1. EntryOK(A[i]) /\ A[i] \in Channel
  BY Established
<1>2. \A j \in DOMAIN B : B[j].inst = A[i].inst => B[j].type # "X11_OPEN"
  BY DEF Half, X11OK
<1>3. A[i].flags = {} /\ A[i].input = << >>
  BY <1>1 DEF EntryOK, Flags
<1>4. /\ d \in Channel /\ d.type = "OPEN" /\ d.inst = A[i].inst
      /\ d.rid = A[i].rid
  BY <1>1 DEF Channel, ChannelTypes, LiveTypes
<1>5. Closing(A[i], "OUTPUT_CLOSED") = Closing(d, "OUTPUT_CLOSED")
  BY <1>4 DEF Closing
<1>6. Leaves(r, d, flags, << >>, << >>, <<Closing(d, "OUTPUT_CLOSED")>>)
  BY <1>1, <1>3, <1>5, RejectX11Leaves
<1>7. /\ flags \in SUBSET Flags /\ A[i].flags \subseteq flags
      /\ flags \ A[i].flags \subseteq {"INPUT_CLOSED", "OUTPUT_CLOSED", "CLOSE_SENT"}
      /\ {"OUTPUT_CLOSED", "CLOSE_SENT"} \subseteq flags
      /\ "CLOSE_SENT" \notin A[i].flags
  BY <1>3 DEF Flags
<1> HIDE DEF flags, r, d
<1>8. RunServes(A, B, i, r, "none")
  <2> DEFINE in == << >>
  <2>1. /\ in \in Seq(Items)
        /\ "EOF_SENT" \in A[i].flags => in = << >>
        /\ Leaves(r, d, flags, in, << >>, <<Closing(d, "OUTPUT_CLOSED")>>)
        /\ A[i].type # "OPENING"
    BY <1>6, EmptySeq
  <2> HIDE DEF in
  <2>2. ClosesOutput(A, B, i, d, r, flags, in)
    BY <1>1, <1>2, <1>4, <1>7, <2>1 DEF ClosesOutput
  <2>3. QED
    BY <2>2, CloseRun
<1>9. Handles(A[i], r, "none", "rejected")
  <2> DEFINE in == << >>
             out == << >>
             sent == <<Closing(d, "OUTPUT_CLOSED")>>
  <2>1. Leaves(r, d, flags, in, out, sent) /\ in = << >>
    BY <1>6
  <2>2. \A k \in DOMAIN sent : sent[k].kind # "DATA"
    BY OneClosing
  <2> HIDE DEF in, out, sent
  <2>3. QED
    BY <1>3, <1>4, <1>7, <2>1, <2>2, LeavesHandles
<1>10. QED
  BY <1>8, <1>9 DEF r
-----------------------------------------------------------------------------
(* Stretches of a stream.  Items are numbered, so a buffer or a packet     *)
(* holds the items after number x up to number y.                          *)

Span(x, y) == [k \in 1 .. y - x |-> x + k]

\* A stretch is a sequence of items.
LEMMA SpanSeq ==
  ASSUME NEW x \in Nat, NEW y \in Nat, x =< y
  PROVE  /\ Span(x, y) \in Seq(Items) /\ Len(Span(x, y)) = y - x
         /\ \A k \in 1 .. y - x : Span(x, y)[k] = x + k
<1>1. y - x \in Nat /\ \A k \in 1 .. y - x : x + k \in Items
  BY DEF Items
<1>2. Span(x, y) \in [1 .. y - x -> Items]
  BY <1>1 DEF Span
<1>3. Span(x, y) \in Seq(Items)
  BY <1>1, <1>2, SeqDef
<1>4. Len(Span(x, y)) \in Nat /\ 1 .. Len(Span(x, y)) = 1 .. y - x
  BY <1>2, <1>3, LenProperties
<1>5. Len(Span(x, y)) = y - x
  BY <1>1, <1>4
<1>6. QED
  BY <1>3, <1>5 DEF Span

\* A sequence with the items of a stretch in their places is the stretch.
LEMMA IsSpan ==
  ASSUME NEW x \in Nat, NEW y \in Nat, x =< y, NEW s \in Seq(Items),
         Len(s) = y - x, \A k \in 1 .. y - x : s[k] = x + k
  PROVE  s = Span(x, y)
<1> DEFINE t == Span(x, y)
<1>1. /\ t \in Seq(Items) /\ Len(t) = y - x
      /\ \A k \in 1 .. y - x : t[k] = x + k
  BY SpanSeq
<1> HIDE DEF t
<1>2. s = t
  BY <1>1, SeqEqual
<1>3. QED
  BY <1>2 DEF t

\* An empty buffer holds an empty stretch.
LEMMA SpanEmpty ==
  ASSUME NEW x \in Nat, NEW y \in Nat, x =< y
  PROVE  Span(x, y) = << >> <=> x = y
<1>1. Span(x, y) \in Seq(Items) /\ Len(Span(x, y)) = y - x
  BY SpanSeq
<1>2. Span(x, y) = << >> => y - x = 0
  BY <1>1, EmptySeq
<1>3. x = y => Span(x, y) = << >>
  <2>1. ASSUME Span(x, y) # << >> PROVE y - x # 0
    BY <1>1, <2>1, EmptySeq
  <2>2. QED
    BY <2>1
<1>4. QED
  BY <1>2, <1>3

\* What comes behind a stretch prolongs it.
LEMMA SpanJoin ==
  ASSUME NEW x \in Nat, NEW y \in Nat, NEW z \in Nat, x =< y, y =< z
  PROVE  Span(x, y) \o Span(y, z) = Span(x, z)
<1> DEFINE s == Span(x, y)
           t == Span(y, z)
           u == s \o t
<1>1. /\ s \in Seq(Items) /\ Len(s) = y - x /\ \A k \in 1 .. y - x : s[k] = x + k
      /\ t \in Seq(Items) /\ Len(t) = z - y /\ \A k \in 1 .. z - y : t[k] = y + k
  BY SpanSeq
<1> HIDE DEF s, t
<1>2. /\ u \in Seq(Items) /\ Len(u) = Len(s) + Len(t)
      /\ \A k \in 1 .. Len(s) + Len(t) : u[k] = IF k =< Len(s) THEN s[k] ELSE t[k - Len(s)]
  BY <1>1, ConcatProperties
<1> HIDE DEF u
<1>3. Len(u) = z - x /\ \A k \in 1 .. z - x : u[k] = x + k
  BY <1>1, <1>2
<1>4. u = Span(x, z)
  BY <1>2, <1>3, IsSpan
<1>5. QED
  BY <1>4 DEF u, s, t

\* One item more.
LEMMA SpanAppend ==
  ASSUME NEW x \in Nat, NEW y \in Nat, x =< y
  PROVE  Append(Span(x, y), y + 1) = Span(x, y + 1)
<1> DEFINE s == Span(x, y)
           u == Append(s, y + 1)
<1>1. /\ s \in Seq(Items) /\ Len(s) = y - x /\ \A k \in 1 .. y - x : s[k] = x + k
  BY SpanSeq
<1>2. y + 1 \in Items /\ y + 1 \in Nat
  BY DEF Items
<1> HIDE DEF s
<1>3. /\ u \in Seq(Items) /\ Len(u) = Len(s) + 1
      /\ \A k \in 1 .. Len(s) : u[k] = s[k]
      /\ u[Len(s) + 1] = y + 1
  BY <1>1, <1>2, AppendProperties
<1> HIDE DEF u
<1>4. Len(u) = y + 1 - x
  BY <1>1, <1>3
<1>5. ASSUME NEW k \in 1 .. y + 1 - x PROVE u[k] = x + k
  <2>1. k \in 1 .. y - x \/ k = Len(s) + 1
    BY <1>1
  <2>2. QED
    BY <1>1, <1>3, <2>1
<1>6. u = Span(x, y + 1)
  <2>1. x =< y + 1
    OBVIOUS
  <2>2. QED
    BY <1>2, <1>3, <1>4, <1>5, <2>1, IsSpan
<1>7. QED
  BY <1>6 DEF u, s

\* The first n items, and the others.
LEMMA SpanSplit ==
  ASSUME NEW x \in Nat, NEW y \in Nat, x =< y, NEW n \in 0 .. y - x
  PROVE  /\ SubSeq(Span(x, y), 1, n) = Span(x, x + n)
         /\ SubSeq(Span(x, y), n + 1, Len(Span(x, y))) = Span(x + n, y)
         /\ x + n \in Nat /\ x =< x + n /\ x + n =< y
<1> DEFINE s == Span(x, y)
           u == SubSeq(s, 1, n)
           v == SubSeq(s, n + 1, y - x)
<1>1. /\ s \in Seq(Items) /\ Len(s) = y - x /\ \A k \in 1 .. y - x : s[k] = x + k
  BY SpanSeq
<1>2. /\ n \in Int /\ n + 1 \in Int /\ y - x \in Int /\ 1 \in Int /\ x + n \in Nat
      /\ x =< x + n /\ x + n =< y
  OBVIOUS
<1>3. \A k \in 1 .. y - x : s[k] \in Items
  BY <1>1 DEF Items
<1> HIDE DEF s
<1>4. /\ \A k \in 1 .. n : s[k] \in Items
      /\ \A k \in n + 1 .. y - x : s[k] \in Items
  BY <1>3
<1>5. /\ u \in Seq(Items) /\ Len(u) = IF 1 =< n THEN n - 1 + 1 ELSE 0
      /\ \A k \in 1 .. n - 1 + 1 : u[k] = s[1 + k - 1]
  BY <1>2, <1>4, SubSeqProperties
<1>6. /\ v \in Seq(Items)
      /\ Len(v) = IF n + 1 =< y - x THEN y - x - (n + 1) + 1 ELSE 0
      /\ \A k \in 1 .. y - x - (n + 1) + 1 : v[k] = s[n + 1 + k - 1]
  BY <1>2, <1>4, SubSeqProperties
<1> HIDE DEF u, v
<1>7. Len(u) = x + n - x /\ \A k \in 1 .. x + n - x : u[k] = x + k
  BY <1>1, <1>5
<1>8. Len(v) = y - (x + n) /\ \A k \in 1 .. y - (x + n) : v[k] = x + n + k
  BY <1>1, <1>6
<1>9. u = Span(x, x + n)
  <2> DEFINE z == x + n
  <2>1. z \in Nat /\ x =< z /\ Len(u) = z - x /\ \A k \in 1 .. z - x : u[k] = x + k
    BY <1>2, <1>7
  <2> HIDE DEF z
  <2>2. u = Span(x, z)
    BY <1>5, <2>1, IsSpan
  <2>3. QED
    BY <2>2 DEF z
<1>10. v = Span(x + n, y)
  BY <1>2, <1>6, <1>8, IsSpan
<1>11. QED
  BY <1>1, <1>2, <1>9, <1>10 DEF u, v, s

-----------------------------------------------------------------------------
(* What is on its way of connection c: the data packets among P hold the   *)
(* items after number x up to number y, in order; b is where they are cut. *)

IsDataOf(m, c) == m.kind = "DATA" /\ m.inst = c
Piece(m, c, x, y) == IF IsDataOf(m, c) THEN m.data = Span(x, y) ELSE x = y
Rising(b) == \A k, l \in Nat : k =< l => b[k] =< b[l]
CutBy(P, c, n, b) ==
  /\ DOMAIN P = 1 .. n
  /\ Rising(b)
  /\ \A k \in 1 .. n : Piece(P[k], c, b[k - 1], b[k])
Carried(P, c, x, y) ==
  \E n \in Nat, b \in [Nat -> Nat] : CutBy(P, c, n, b) /\ b[0] = x /\ b[n] = y

LEMMA CarriedRange ==
  ASSUME NEW P, NEW c, NEW x, NEW y, Carried(P, c, x, y)
  PROVE  x \in Nat /\ y \in Nat /\ x =< y
BY DEF Carried, CutBy, Rising

\* An empty queue carries nothing.
LEMMA CarriedNothing ==
  ASSUME NEW P, DOMAIN P = {}, NEW c, NEW x \in Nat
  PROVE  Carried(P, c, x, x)
<1> DEFINE b == [k \in Nat |-> x]
<1>1. b \in [Nat -> Nat] /\ b[0] = x /\ Rising(b)
  BY DEF Rising
<1> HIDE DEF b
<1>2. CutBy(P, c, 0, b)
  BY <1>1 DEF CutBy
<1>3. QED
  BY <1>1, <1>2 DEF Carried

\* The first packet is taken; if it is data, it holds the next items.
LEMMA CarriedTaken ==
  ASSUME NEW P, NEW P2, Advance(P, P2, 1), NEW c, NEW x, NEW y, Carried(P, c, x, y)
  PROVE  \E z \in Nat : /\ x =< z /\ z =< y /\ Piece(P[1], c, x, z)
                        /\ Carried(P2, c, z, y)
<1>1. PICK n \in Nat, b \in [Nat -> Nat] :
        CutBy(P, c, n, b) /\ b[0] = x /\ b[n] = y
  BY DEF Carried
<1>2. /\ Len(P) \in Nat /\ 1 =< Len(P) /\ 1 .. n = 1 .. Len(P)
      /\ DOMAIN P2 = 1 .. Len(P) - 1
      /\ \A k \in DOMAIN P2 : P2[k] = P[k + 1]
  BY <1>1 DEF CutBy, Advance
<1>3. n = Len(P)
  BY <1>2
<1> DEFINE d == [k \in Nat |-> b[k + 1]]
<1>4. /\ d \in [Nat -> Nat] /\ d[0] = b[1] /\ d[n - 1] = b[n]
      /\ \A k \in Nat : d[k] = b[k + 1]
      /\ n - 1 \in Nat
  BY <1>2, <1>3
<1> HIDE DEF d
<1>5. Rising(d)
  BY <1>1, <1>4 DEF CutBy, Rising
<1>6. \A k \in 1 .. n - 1 : Piece(P2[k], c, d[k - 1], d[k])
  <2> SUFFICES ASSUME NEW k \in 1 .. n - 1 PROVE Piece(P2[k], c, d[k - 1], d[k])
    OBVIOUS
  <2>1. k + 1 \in 1 .. n /\ k - 1 \in Nat /\ k \in Nat /\ k + 1 - 1 = k /\ k - 1 + 1 = k
    OBVIOUS
  <2>2. P2[k] = P[k + 1]
    BY <1>2, <1>3
  <2>3. d[k - 1] = b[k - 1 + 1] /\ d[k] = b[k + 1]
    BY <1>4, <2>1
  <2>4. Piece(P[k + 1], c, b[k + 1 - 1], b[k + 1])
    BY <1>1, <2>1 DEF CutBy
  <2>5. QED
    BY <2>1, <2>2, <2>3, <2>4
<1>7. CutBy(P2, c, n - 1, d)
  BY <1>2, <1>3, <1>5, <1>6 DEF CutBy
<1>8. Carried(P2, c, b[1], y)
  BY <1>1, <1>4, <1>7 DEF Carried
<1>9. Piece(P[1], c, b[0], b[1]) /\ b[0] =< b[1] /\ b[1] =< b[n] /\ b[1] \in Nat
  <2>1. 1 \in 1 .. n /\ 1 - 1 = 0
    BY <1>2, <1>3
  <2>2. Piece(P[1], c, b[1 - 1], b[1])
    BY <1>1, <2>1 DEF CutBy
  <2>3. QED
    BY <1>1, <2>1, <2>2 DEF CutBy, Rising
<1>10. QED
  BY <1>1, <1>8, <1>9

\* Another packet is taken, or none.
LEMMA CarriedStill ==
  ASSUME NEW P, NEW P2, NEW d, Advance(P, P2, d), NEW c, NEW x, NEW y,
         Carried(P, c, x, y), d = 1 => ~IsDataOf(P[1], c)
  PROVE  Carried(P2, c, x, y)
<1>1. d \in {0, 1}
  BY DEF Advance
<1>2. CASE d = 1
  BY <1>2, CarriedTaken DEF Piece
<1>3. CASE d = 0
  <2>1. /\ DOMAIN P2 = DOMAIN P /\ \A k \in DOMAIN P2 : P2[k] = P[k]
    BY <1>3 DEF Advance
  <2>2. QED
    BY <2>1 DEF Carried, CutBy
<1>4. QED
  BY <1>1, <1>2, <1>3

\* Packets are sent, none of them data of the connection.
LEMMA CarriedBefore ==
  ASSUME NEW Q, NEW Q2, NEW out, Extend(Q, Q2, out), NEW c, NEW x, NEW y,
         Carried(Q, c, x, y), \A k \in DOMAIN out : ~IsDataOf(out[k], c)
  PROVE  Carried(Q2, c, x, y)
<1>1. PICK n \in Nat, b \in [Nat -> Nat] :
        CutBy(Q, c, n, b) /\ b[0] = x /\ b[n] = y
  BY DEF Carried
<1>2. /\ Len(Q) \in Nat /\ Len(out) \in Nat /\ 1 .. n = 1 .. Len(Q)
      /\ DOMAIN Q2 = 1 .. Len(Q) + Len(out)
      /\ \A k \in 1 .. Len(Q) : Q2[k] = Q[k]
      /\ \A k \in 1 .. Len(out) : Q2[Len(Q) + k] = out[k] /\ ~IsDataOf(out[k], c)
  BY <1>1 DEF CutBy, Extend
<1>3. n = Len(Q)
  BY <1>2
<1> DEFINE m == n + Len(out)
           d == [k \in Nat |-> IF k =< n THEN b[k] ELSE y]
<1>4. /\ d \in [Nat -> Nat] /\ \A k \in Nat : d[k] = IF k =< n THEN b[k] ELSE y
  BY <1>1
<1> HIDE DEF d
<1>5. m \in Nat /\ m = n + Len(out) /\ n =< m /\ d[0] = x /\ d[m] = y
  <2>0. n \in Nat /\ Len(out) \in Nat
    BY <1>1, <1>2
  <2>1. m \in Nat /\ n =< m /\ (m =< n => m = n)
    <3>1. \A k, l \in Nat : k + l \in Nat /\ k =< k + l /\ (k + l =< k => k + l = k)
      OBVIOUS
    <3>2. QED
      BY <2>0, <3>1, Zenon
  <2> HIDE DEF m
  <2>2. d[m] = y
    BY <1>1, <1>4, <2>1
  <2>3. d[0] = x
    BY <1>1, <1>4
  <2>4. QED
    BY <2>1, <2>2, <2>3 DEF m
<1> HIDE DEF m
<1>6. Rising(d)
  <2> SUFFICES ASSUME NEW k \in Nat, NEW l \in Nat, k =< l PROVE d[k] =< d[l]
    BY DEF Rising
  <2>1. b[k] \in Nat /\ b[l] \in Nat /\ b[n] \in Nat
    BY <1>1
  <2>2. CASE l =< n
    <3>1. k =< n /\ b[k] =< b[l]
      BY <1>1, <2>2 DEF CutBy, Rising
    <3>2. QED
      BY <1>4, <2>2, <3>1
  <2>3. CASE ~(l =< n) /\ k =< n
    <3>1. b[k] =< b[n] /\ d[k] = b[k] /\ d[l] = y
      BY <1>1, <1>4, <2>3 DEF CutBy, Rising
    <3>2. QED
      BY <1>1, <2>1, <3>1
  <2>4. CASE ~(k =< n)
    <3>1. d[k] = y /\ d[l] = y
      BY <1>4, <2>4
    <3>2. QED
      BY <1>1, <2>1, <3>1
  <2>5. QED
    BY <2>2, <2>3, <2>4
<1>7. ASSUME NEW k \in 1 .. m PROVE Piece(Q2[k], c, d[k - 1], d[k])
  <2>1. CASE k =< n
    <3>1. Q2[k] = Q[k] /\ d[k - 1] = b[k - 1] /\ d[k] = b[k] /\ k \in 1 .. n
      BY <1>2, <1>3, <1>4, <2>1
    <3>2. QED
      BY <1>1, <3>1 DEF CutBy
  <2>2. CASE ~(k =< n)
    <3> DEFINE l == k - n
    <3>0. l \in 1 .. Len(out) /\ k = Len(Q) + l /\ k \in Nat /\ k - 1 \in Nat
      BY <1>1, <1>2, <1>3, <1>5, <2>2
    <3>1. d[k] = y /\ d[k - 1] = y
      <4>1. d[k] = y
        BY <1>4, <2>2, <3>0
      <4>2. CASE k - 1 =< n
        <5>1. k - 1 = n
          BY <2>2, <4>2
        <5>2. QED
          BY <1>1, <1>4, <3>0, <5>1
      <4>3. CASE ~(k - 1 =< n)
        BY <1>4, <3>0, <4>3
      <4>4. QED
        BY <4>1, <4>2, <4>3
    <3> HIDE DEF l
    <3>2. ~IsDataOf(Q2[k], c)
      BY <1>2, <3>0
    <3>3. QED
      BY <3>1, <3>2 DEF Piece
  <2>3. QED
    BY <2>1, <2>2
<1>8. CutBy(Q2, c, m, d)
  BY <1>2, <1>3, <1>5, <1>6, <1>7 DEF CutBy
<1>9. QED
  BY <1>4, <1>5, <1>8 DEF Carried

\* The next items are sent.
LEMMA CarriedMore ==
  ASSUME NEW Q, NEW Q2, NEW m, Sends(Q, Q2, m), NEW c, NEW x, NEW y, NEW z \in Nat,
         Carried(Q, c, x, y), IsDataOf(m, c), m.data = Span(y, z), y =< z
  PROVE  Carried(Q2, c, x, z)
<1>1. PICK n \in Nat, b \in [Nat -> Nat] :
        CutBy(Q, c, n, b) /\ b[0] = x /\ b[n] = y
  BY DEF Carried
<1>2. /\ Len(Q) \in Nat /\ 1 .. n = 1 .. Len(Q)
      /\ DOMAIN Q2 = 1 .. Len(Q) + 1
      /\ \A k \in 1 .. Len(Q) : Q2[k] = Q[k]
      /\ Q2[Len(Q) + 1] = m
  BY <1>1 DEF CutBy, Sends
<1>3. n = Len(Q)
  BY <1>2
<1> DEFINE d == [k \in Nat |-> IF k =< n THEN b[k] ELSE z]
<1>4. /\ d \in [Nat -> Nat] /\ d[0] = x /\ d[n + 1] = z /\ n + 1 \in Nat
      /\ \A k \in Nat : d[k] = IF k =< n THEN b[k] ELSE z
  BY <1>1
<1> HIDE DEF d
<1>5. Rising(d)
  <2> SUFFICES ASSUME NEW k \in Nat, NEW l \in Nat, k =< l PROVE d[k] =< d[l]
    BY DEF Rising
  <2>1. CASE l =< n
    <3>1. k =< n /\ b[k] =< b[l]
      BY <1>1, <2>1 DEF CutBy, Rising
    <3>2. QED
      BY <1>4, <2>1, <3>1
  <2>2. CASE ~(l =< n) /\ k =< n
    <3>1. b[k] =< b[n] /\ d[k] = b[k] /\ d[l] = z /\ b[k] \in Nat /\ b[n] \in Nat
      BY <1>1, <1>4, <2>2 DEF CutBy, Rising
    <3>2. QED
      BY <1>1, <3>1
  <2>3. CASE ~(k =< n)
    BY <1>4, <2>3
  <2>4. QED
    BY <2>1, <2>2, <2>3
<1>6. ASSUME NEW k \in 1 .. n + 1 PROVE Piece(Q2[k], c, d[k - 1], d[k])
  <2>1. CASE k =< n
    <3>1. Q2[k] = Q[k] /\ d[k - 1] = b[k - 1] /\ d[k] = b[k] /\ k \in 1 .. n
      BY <1>2, <1>3, <1>4, <2>1
    <3>2. QED
      BY <1>1, <3>1 DEF CutBy
  <2>2. CASE ~(k =< n)
    <3>0. k = n + 1 /\ k \in Nat /\ k - 1 = n
      BY <2>2
    <3>1. k = Len(Q) + 1 /\ d[k] = z /\ d[k - 1] = y
      BY <1>1, <1>3, <1>4, <3>0
    <3>2. QED
      BY <1>2, <3>1 DEF Piece
  <2>3. QED
    BY <2>1, <2>2
<1>7. CutBy(Q2, c, n + 1, d)
  BY <1>2, <1>3, <1>5, <1>6 DEF CutBy
<1>8. QED
  BY <1>4, <1>7 DEF Carried

\* If there is no data on its way, there are no items on their way.
LEMMA CarriedAll ==
  ASSUME NEW P, NEW c, NEW x, NEW y, Carried(P, c, x, y),
         \A k \in DOMAIN P : ~IsDataOf(P[k], c)
  PROVE  x = y
<1>1. PICK n \in Nat, b \in [Nat -> Nat] :
        CutBy(P, c, n, b) /\ b[0] = x /\ b[n] = y
  BY DEF Carried
<1> DEFINE S == {k \in 0 .. n : b[k] # x}
<1>2. S = {}
  <2> SUFFICES ASSUME S # {} PROVE FALSE
    OBVIOUS
  <2>1. S \in SUBSET Nat
    OBVIOUS
  <2> DEFINE k == Min(S)
  <2>2. k \in S /\ \A l \in S : k =< l
    BY <2>1, MinOfNaturals
  <2> HIDE DEF k
  <2>3. k \in 1 .. n /\ k - 1 \in 0 .. n /\ k - 1 \notin S
    BY <1>1, <2>2
  <2>4. b[k - 1] = x
    BY <2>3
  <2>5. b[k - 1] = b[k]
    BY <1>1, <2>3 DEF CutBy, Piece
  <2>6. QED
    BY <2>2, <2>4, <2>5
<1>3. QED
  BY <1>1, <1>2

-----------------------------------------------------------------------------
(* One direction of connection c: what the peer read and this end writes.  *)
(* A are the entries here and B those of the peer, P the packets to here;  *)
(* h is what was read and written here, g the same at the peer.            *)

Outputs(A, c, w, x) ==
  /\ \A i \in DOMAIN A : A[i].inst = c => A[i].output = Span(w, x)
  /\ (\A i \in DOMAIN A : A[i].inst # c) => w = x
Inputs(B, c, y, r) ==
  /\ \A j \in DOMAIN B : B[j].inst = c => B[j].input = Span(y, r)
  /\ (\A j \in DOMAIN B : B[j].inst # c) => y = r

\* The items after number w up to number r are in the three places.
Stream(A, B, P, c, w, r) ==
  \E x, y \in Nat : /\ w =< x /\ y =< r
                    /\ Outputs(A, c, w, x)
                    /\ Carried(P, c, x, y)
                    /\ Inputs(B, c, y, r)

Stopped(B, c) ==
  \A j \in DOMAIN B : B[j].inst = c => "INPUT_CLOSED" \in B[j].flags
ShutAs(A, c, h) ==
  \A i \in DOMAIN A : A[i].inst = c =>
    ("OUTPUT_CLOSED" \in A[i].flags <=> h.shut # "no")

\* An end that has no entry for a connection has freed it, unless it has not
\* had one yet.
LeftAs(A, B, c, h) ==
  (\A i \in DOMAIN A : A[i].inst # c) =>
    \A j \in DOMAIN B : B[j].inst = c => (B[j].type = "OPENING" <=> h.shut = "no")

Flow(A, B, P, c, h, g) ==
  /\ h.wrote \in Nat /\ g.read \in Nat
  /\ h.shut = "no" => Stream(A, B, P, c, h.wrote, g.read)
  /\ h.shut = "drained" => h.wrote = g.read /\ Stopped(B, c)
  /\ ShutAs(A, c, h)
  /\ LeftAs(A, B, c, h)

\* The entries of a connection, and its data on the way, stay as they are.
SameOn(A, A2, c) ==
  /\ \A i \in DOMAIN A : A[i].inst = c => i \in DOMAIN A2 /\ A2[i] = A[i]
  /\ \A i \in DOMAIN A2 : A2[i].inst = c => i \in DOMAIN A /\ A2[i] = A[i]
StillCarried(P, P2, c) == \A x, y : Carried(P, c, x, y) => Carried(P2, c, x, y)

\* What a step does to other connections.
LEMMA FlowStays ==
  ASSUME NEW A, NEW B, NEW P, NEW c, NEW h, NEW g, Flow(A, B, P, c, h, g),
         NEW A2, NEW B2, NEW P2,
         SameOn(A, A2, c), SameOn(B, B2, c), StillCarried(P, P2, c)
  PROVE  Flow(A2, B2, P2, c, h, g)
<1>1. ASSUME NEW w, NEW x, Outputs(A, c, w, x) PROVE Outputs(A2, c, w, x)
  BY <1>1 DEF Outputs, SameOn
<1>2. ASSUME NEW y, NEW r, Inputs(B, c, y, r) PROVE Inputs(B2, c, y, r)
  BY <1>2 DEF Inputs, SameOn
<1>3. ASSUME NEW w, NEW r, Stream(A, B, P, c, w, r) PROVE Stream(A2, B2, P2, c, w, r)
  BY <1>1, <1>2, <1>3 DEF Stream, StillCarried
<1>4. Stopped(B, c) => Stopped(B2, c)
  BY DEF Stopped, SameOn
<1>5. ShutAs(A, c, h) => ShutAs(A2, c, h)
  BY DEF ShutAs, SameOn
<1>6. LeftAs(A, B, c, h) => LeftAs(A2, B2, c, h)
  BY DEF LeftAs, SameOn
<1>7. QED
  BY <1>3, <1>4, <1>5, <1>6 DEF Flow

\* What serving an entry does with the data for its socket: nothing is written
\* any more; or the socket is shut, for a clean end only when all has come and
\* been written; or data is appended, or a first part is written.
Delivers(old, new, h, h2, x, data) ==
  \/ /\ "OUTPUT_CLOSED" \in old.flags
     /\ h2.shut = h.shut /\ h2.wrote = h.wrote
  \/ /\ "OUTPUT_CLOSED" \in new.flags \ old.flags
     /\ h2.shut # "no" /\ h2.wrote = h.wrote
     /\ h2.shut = "drained" => old.output = << >> /\ "EOF_RECEIVED" \in old.flags
  \/ /\ "OUTPUT_CLOSED" \notin new.flags
     /\ h2.shut = h.shut
     /\ IF x = "DATA" THEN new.output = old.output \o data /\ h2.wrote = h.wrote
        ELSE \E n \in 0 .. Len(old.output) :
               /\ new.output = SubSeq(old.output, n + 1, Len(old.output))
               /\ h2.wrote = h.wrote + n

\* And with the data from it: it is dropped when the peer has closed; or stays;
\* or an item is read; or a first part is sent.
Collects(old, new, h, h2, x, out) ==
  \/ /\ x = "OUTPUT_CLOSED" /\ new.input = << >> /\ h2.read = h.read
     /\ \A k \in DOMAIN out : out[k].kind # "DATA"
  \/ /\ new.input = old.input /\ h2.read = h.read
     /\ \A k \in DOMAIN out : out[k].kind # "DATA"
  \/ /\ "INPUT_CLOSED" \notin old.flags
     /\ new.input = Append(old.input, h.read + 1) /\ h2.read = h.read + 1
     /\ \A k \in DOMAIN out : out[k].kind # "DATA"
  \/ /\ h2.read = h.read /\ Len(out) = 1 /\ IsDataOf(out[1], old.inst)
     /\ \E n \in 0 .. Len(old.input) :
          /\ out[1].data = SubSeq(old.input, 1, n)
          /\ new.input = SubSeq(old.input, n + 1, Len(old.input))

\* The output as packet m is taken, or as a first part of it is written.
OutputStep(old, new, x, d, m, w, w2) ==
  IF x = "DATA"
  THEN /\ d = 1 /\ IsDataOf(m, old.inst)
       /\ new.output = old.output \o m.data /\ w2 = w
  ELSE /\ d = 1 => ~IsDataOf(m, old.inst)
       /\ \E k \in 0 .. Len(old.output) :
            /\ new.output = SubSeq(old.output, k + 1, Len(old.output))
            /\ w2 = w + k

\* The stream of an entry that has become new.
StreamTo(new, B, P, c, w, r) ==
  \E x, y \in Nat : /\ w \in Nat /\ w =< x /\ y =< r
                    /\ new.output = Span(w, x)
                    /\ Carried(P, c, x, y)
                    /\ Inputs(B, c, y, r)

\* The items taken from the queue or written to the socket.
LEMMA OutputMoves ==
  ASSUME NEW A, NEW B, NEW P, NEW P2, NEW i \in DOMAIN A, NEW new, NEW x, NEW d,
         NEW w \in Nat, NEW r \in Nat, NEW w2,
         Stream(A, B, P, A[i].inst, w, r),
         d \in {0, 1}, Advance(P, P2, d), OutputStep(A[i], new, x, d, P[1], w, w2)
  PROVE  StreamTo(new, B, P2, A[i].inst, w2, r)
<1> DEFINE c == A[i].inst
<1>1. PICK z \in Nat, y \in Nat :
        /\ w =< z /\ y =< r /\ Outputs(A, c, w, z) /\ Carried(P, c, z, y)
        /\ Inputs(B, c, y, r)
  BY DEF Stream
<1>2. A[i].output = Span(w, z)
  BY <1>1 DEF Outputs
<1>3. IF x = "DATA"
      THEN /\ d = 1 /\ IsDataOf(P[1], A[i].inst)
           /\ new.output = A[i].output \o P[1].data /\ w2 = w
      ELSE /\ d = 1 => ~IsDataOf(P[1], A[i].inst)
           /\ \E n \in 0 .. Len(A[i].output) :
                /\ new.output = SubSeq(A[i].output, n + 1, Len(A[i].output))
                /\ w2 = w + n
  BY DEF OutputStep
<1> HIDE DEF c
<1>4. CASE x = "DATA"
  <2>1. PICK v \in Nat : /\ z =< v /\ v =< y /\ Piece(P[1], c, z, v)
                         /\ Carried(P2, c, v, y)
    BY <1>1, <1>4, <1>3, CarriedTaken
  <2>2. P[1].data = Span(z, v)
    BY <1>4, <1>3, <2>1 DEF Piece, c
  <2>3. w =< v
    BY <1>1, <2>1
  <2>4. Span(w, z) \o Span(z, v) = Span(w, v)
    BY <1>1, <2>1, SpanJoin
  <2>5. new.output = Span(w, v) /\ w2 = w
    BY <1>2, <1>4, <1>3, <2>2, <2>4
  <2>6. QED
    BY <1>1, <2>1, <2>3, <2>5 DEF StreamTo, c
<1>5. CASE x # "DATA"
  <2>1. PICK n \in 0 .. Len(A[i].output) :
          /\ new.output = SubSeq(A[i].output, n + 1, Len(A[i].output))
          /\ w2 = w + n
    BY <1>5, <1>3
  <2>2. Len(Span(w, z)) = z - w
    BY <1>1, SpanSeq
  <2>3. n \in 0 .. z - w
    BY <1>2, <2>1, <2>2
  <2>4. /\ SubSeq(Span(w, z), n + 1, Len(Span(w, z))) = Span(w + n, z)
        /\ w + n \in Nat /\ w + n =< z
    BY <1>1, <2>3, SpanSplit
  <2>5. Carried(P2, c, z, y)
    BY <1>1, <1>5, <1>3, CarriedStill DEF c
  <2>6. QED
    BY <1>1, <1>2, <2>1, <2>4, <2>5 DEF StreamTo, c
<1>6. QED
  BY <1>4, <1>5

\* What serving an entry does to what its end has still to write.
LEMMA FlowServedHere ==
  ASSUME NEW A, NEW B, NEW P, NEW Q, NEW n,
         Half(A, B, P, Q, n), Half(B, A, Q, P, n),
         NEW A2, NEW P2, NEW i, NEW new, NEW x, NEW d, NEW out,
         Served(A, B, i, new, x, out), Stored(A, A2, i, new),
         Taken(P, P2, i, x, d), NEW h, NEW h2, NEW g,
         Flow(A, B, P, A[i].inst, h, g), Delivers(A[i], new, h, h2, x, P[1].data)
  PROVE  Flow(A2, B, P2, A[i].inst, h2, g)
<1> DEFINE c == A[i].inst
<1>1. /\ \A j \in DOMAIN A2 : j \in DOMAIN A /\ A2[j].inst = A[j].inst
      /\ i \in DOMAIN A2 <=> new.type # "FREE"
      /\ i \in DOMAIN A2 => A2[i] = new
      /\ i \in DOMAIN A /\ A[i].type # "OPENING"
  BY StoredFacts
<1>2. A[i].flags \subseteq new.flags /\ (new.type = "FREE" => new.flags = Flags)
  BY DEF Served
<1>3. /\ \A j \in DOMAIN A : A[j].inst = c => j = i
      /\ \A j \in DOMAIN A2 : A2[j].inst = c => j = i
  BY <1>1 DEF Half, EntriesOK
<1>4. new.type # "FREE" => i \in DOMAIN A2 /\ A2[i] = new /\ A2[i].inst = c
  BY <1>1
<1>5. "OUTPUT_CLOSED" \in A[i].flags <=> h.shut # "no"
  BY <1>1 DEF Flow, ShutAs
<1>6. /\ h.wrote \in Nat /\ g.read \in Nat
      /\ h.shut = "no" => Stream(A, B, P, c, h.wrote, g.read)
      /\ h.shut = "drained" => h.wrote = g.read /\ Stopped(B, c)
  BY DEF Flow
<1>7. h2.shut # "no" \/ new.type # "FREE" => LeftAs(A2, B, c, h2)
  <2> SUFFICES ASSUME h2.shut # "no" \/ new.type # "FREE",
                      \A k \in DOMAIN A2 : A2[k].inst # c,
                      NEW j \in DOMAIN B, B[j].inst = c
               PROVE  B[j].type # "OPENING" /\ h2.shut # "no"
    BY DEF LeftAs
  <2>1. new.type = "FREE"
    BY <1>4
  <2>2. B[j].type # "OPENING"
    BY <2>1, FreedAfterPeer
  <2>3. QED
    BY <2>1, <2>2
<1> HIDE DEF c
<1>8. CASE "OUTPUT_CLOSED" \in A[i].flags /\ h2.shut = h.shut /\ h2.wrote = h.wrote
  <2>1. h2.shut # "no"
    BY <1>5, <1>8
  <2>2. ShutAs(A2, c, h2)
    BY <1>1, <1>2, <1>3, <1>8, <2>1 DEF ShutAs
  <2>3. QED
    BY <1>6, <1>7, <1>8, <2>1, <2>2 DEF Flow, c
<1>9. CASE /\ "OUTPUT_CLOSED" \in new.flags \ A[i].flags
           /\ h2.shut # "no" /\ h2.wrote = h.wrote
           /\ h2.shut = "drained" => A[i].output = << >> /\ "EOF_RECEIVED" \in A[i].flags
  <2>1. ShutAs(A2, c, h2)
    BY <1>1, <1>3, <1>9 DEF ShutAs
  <2>2. ASSUME h2.shut = "drained" PROVE h.wrote = g.read /\ Stopped(B, c)
    <3>1. A[i].output = << >> /\ "EOF_RECEIVED" \in A[i].flags
      BY <1>9, <2>2
    <3>2. Stream(A, B, P, c, h.wrote, g.read)
      BY <1>5, <1>6, <1>9
    <3>3. PICK v \in Nat, y \in Nat :
            /\ h.wrote =< v /\ y =< g.read /\ Outputs(A, c, h.wrote, v)
            /\ Carried(P, c, v, y) /\ Inputs(B, c, y, g.read)
      BY <3>2 DEF Stream
    <3>4. h.wrote = v
      <4>1. Span(h.wrote, v) = << >>
        BY <1>1, <3>1, <3>3 DEF Outputs, c
      <4>2. QED
        BY <1>6, <3>3, <4>1, SpanEmpty
    <3>5. \A k \in DOMAIN P : ~IsDataOf(P[k], c)
      <4>1. \A k \in DOMAIN P : P[k].inst = c => P[k].chan = i
        BY <1>1, OfTheServed DEF c
      <4>2. QED
        BY <3>1, <4>1 DEF Half, DataOK, IsDataOf
    <3>6. v = y
      BY <3>3, <3>5, CarriedAll
    <3>7. ASSUME NEW j \in DOMAIN B, B[j].inst = c
          PROVE  "INPUT_CLOSED" \in B[j].flags /\ B[j].input = << >>
      <4>1. "EOF_SENT" \in B[j].flags
        BY <1>1, <3>1, <3>7 DEF Half, AgreeOK, c
      <4>2. EntryOK(B[j])
        BY DEF Half, EntriesOK
      <4>3. QED
        BY <4>1, <4>2 DEF EntryOK, Orderly
    <3>8. y = g.read
      <4>1. CASE \A j \in DOMAIN B : B[j].inst # c
        BY <3>3, <4>1 DEF Inputs
      <4>2. CASE \E j \in DOMAIN B : B[j].inst = c
        <5>1. Span(y, g.read) = << >>
          BY <3>3, <3>7, <4>2 DEF Inputs
        <5>2. QED
          BY <1>6, <3>3, <5>1, SpanEmpty
      <4>3. QED
        BY <4>1, <4>2
    <3>9. QED
      BY <3>4, <3>6, <3>7, <3>8 DEF Stopped
  <2>3. QED
    BY <1>6, <1>7, <1>9, <2>1, <2>2 DEF Flow, c
<1>10. CASE /\ "OUTPUT_CLOSED" \notin new.flags /\ h2.shut = h.shut
            /\ IF x = "DATA"
               THEN new.output = A[i].output \o P[1].data /\ h2.wrote = h.wrote
               ELSE \E k \in 0 .. Len(A[i].output) :
                      /\ new.output = SubSeq(A[i].output, k + 1, Len(A[i].output))
                      /\ h2.wrote = h.wrote + k
  <2>1. h.shut = "no" /\ h2.shut = "no"
    BY <1>2, <1>5, <1>10
  <2>2. new.type # "FREE"
    BY <1>2, <1>10 DEF Flags
  <2>3. /\ d \in {0, 1} /\ Advance(P, P2, d)
        /\ x = "DATA" => d = 1 /\ IsDataOf(P[1], c)
        /\ x # "DATA" => (d = 1 => ~IsDataOf(P[1], c))
    <3>1. Advance(P, P2, d) /\ (d = 0 <=> x = "none") /\ (d = 1 => P[1].kind = x /\ P[1].chan = i)
      BY DEF Taken
    <3>2. d \in {0, 1} /\ (d = 1 => 1 \in DOMAIN P)
      BY <3>1 DEF Advance
    <3>3. x = "DATA" => P[1].inst = c /\ P[1].kind = "DATA" /\ d = 1
      BY <1>1, <3>1, <3>2, OfTheServed DEF LaterKinds, c
    <3>4. QED
      BY <3>1, <3>2, <3>3 DEF IsDataOf
  <2>4. StreamTo(new, B, P2, c, h2.wrote, g.read)
    <3>1. Stream(A, B, P, c, h.wrote, g.read)
      BY <1>6, <2>1
    <3>2. IF x = "DATA"
          THEN /\ d = 1 /\ IsDataOf(P[1], c)
               /\ new.output = A[i].output \o P[1].data /\ h2.wrote = h.wrote
          ELSE /\ d = 1 => ~IsDataOf(P[1], c)
               /\ \E k \in 0 .. Len(A[i].output) :
                    /\ new.output = SubSeq(A[i].output, k + 1, Len(A[i].output))
                    /\ h2.wrote = h.wrote + k
      BY <1>10, <2>3
    <3>3. QED
      <4>1. i \in DOMAIN A /\ h.wrote \in Nat /\ g.read \in Nat
        BY <1>1, <1>6
      <4>2. d \in {0, 1} /\ Advance(P, P2, d)
        BY <2>3
      <4>3. Stream(A, B, P, A[i].inst, h.wrote, g.read)
        BY <3>1 DEF c
      <4>4. OutputStep(A[i], new, x, d, P[1], h.wrote, h2.wrote)
        BY <3>2 DEF OutputStep, c
      <4>5. StreamTo(new, B, P2, A[i].inst, h2.wrote, g.read)
        BY <4>1, <4>2, <4>3, <4>4, OutputMoves
      <4>6. QED
        BY <4>5 DEF c
  <2>5. h2.wrote \in Nat /\ Stream(A2, B, P2, c, h2.wrote, g.read)
    <3>1. PICK z, y \in Nat : /\ h2.wrote \in Nat /\ h2.wrote =< z /\ y =< g.read
                             /\ new.output = Span(h2.wrote, z)
                             /\ Carried(P2, c, z, y)
                             /\ Inputs(B, c, y, g.read)
      BY <2>4 DEF StreamTo
    <3>2. Outputs(A2, c, h2.wrote, z)
      BY <1>1, <1>3, <1>4, <2>2, <3>1 DEF Outputs
    <3>3. QED
      BY <3>1, <3>2 DEF Stream
  <2>6. ShutAs(A2, c, h2)
    BY <1>1, <1>3, <1>10, <2>1 DEF ShutAs
  <2>7. QED
    BY <1>6, <1>7, <2>1, <2>2, <2>5, <2>6 DEF Flow, c
<1>11. QED
  BY <1>8, <1>9, <1>10 DEF Delivers

\* A close that has come was sent after the peer had shut its socket.
LEMMA CloseAfterShut ==
  ASSUME NEW A, NEW B, NEW P, NEW Q, NEW n,
         Half(A, B, P, Q, n), Half(B, A, Q, P, n),
         NEW P2, NEW i, NEW new, NEW x, NEW d, NEW out,
         Served(A, B, i, new, x, out), Taken(P, P2, i, x, d),
         NEW g, ShutAs(B, A[i].inst, g), LeftAs(B, A, A[i].inst, g),
         "CLOSE_RECEIVED" \in new.flags
  PROVE  g.shut # "no"
<1>1. i \in DOMAIN A /\ A[i].type # "OPENING"
  BY DEF Served
<1>2. CASE \A j \in DOMAIN B : B[j].inst # A[i].inst
  BY <1>1, <1>2 DEF LeftAs
<1>3. ASSUME NEW j \in DOMAIN B, B[j].inst = A[i].inst PROVE g.shut # "no"
  <2>1. "CLOSE_RECEIVED" \in A[i].flags \/ x = "OUTPUT_CLOSED"
    BY DEF Served
  <2>2. "CLOSE_SENT" \in B[j].flags
    <3>1. CASE "CLOSE_RECEIVED" \in A[i].flags
      BY <1>1, <1>3, <3>1 DEF Half, AgreeOK
    <3>2. CASE x = "OUTPUT_CLOSED"
      <4>1. d = 1 /\ P[1].kind = "OUTPUT_CLOSED" /\ P[1].chan = i /\ 1 \in DOMAIN P
        BY <3>2 DEF Taken, Advance
      <4>2. P[1].inst = A[i].inst
        BY <1>1, <4>1, OfTheServed DEF LaterKinds, CloseKinds
      <4>3. QED
        BY <1>3, <4>1, <4>2 DEF Half, ClosingOK
    <3>3. QED
      BY <2>1, <3>1, <3>2
  <2>3. "OUTPUT_CLOSED" \in B[j].flags
    BY <2>2 DEF Half, EntriesOK, EntryOK, Orderly
  <2>4. QED
    BY <1>3, <2>3 DEF ShutAs
<1>4. QED
  BY <1>2, <1>3

\* What serving an entry does to what its peer has still to write.
LEMMA FlowServedThere ==
  ASSUME NEW A, NEW B, NEW P, NEW Q, NEW n,
         Half(A, B, P, Q, n), Half(B, A, Q, P, n),
         NEW A2, NEW P2, NEW Q2, NEW i, NEW new, NEW x, NEW d, NEW out,
         Served(A, B, i, new, x, out), Stored(A, A2, i, new),
         Taken(P, P2, i, x, d), Extend(Q, Q2, out), NEW h, NEW h2, NEW g,
         Flow(B, A, Q, A[i].inst, g, h), Collects(A[i], new, h, h2, x, out)
  PROVE  Flow(B, A2, Q2, A[i].inst, g, h2)
<1> DEFINE c == A[i].inst
<1>1. /\ \A j \in DOMAIN A2 : j \in DOMAIN A /\ A2[j].inst = A[j].inst
                              /\ (A2[j].type = "OPENING" <=> A[j].type = "OPENING")
      /\ i \in DOMAIN A2 <=> new.type # "FREE"
      /\ i \in DOMAIN A2 => A2[i] = new
      /\ i \in DOMAIN A /\ A[i].type # "OPENING"
  BY StoredFacts
<1>2. A[i].flags \subseteq new.flags /\ (new.type = "FREE" => new.flags = Flags)
  BY DEF Served
<1>3. /\ \A j \in DOMAIN A : A[j].inst = c => j = i
      /\ \A j \in DOMAIN A2 : A2[j].inst = c => j = i
  BY <1>1 DEF Half, EntriesOK
<1>4. new.type # "FREE" => i \in DOMAIN A2 /\ A2[i] = new /\ A2[i].inst = c
  BY <1>1
<1>5. /\ g.wrote \in Nat /\ h.read \in Nat
      /\ g.shut = "no" => Stream(B, A, Q, c, g.wrote, h.read)
      /\ g.shut = "drained" => g.wrote = h.read /\ Stopped(A, c)
      /\ ShutAs(B, c, g) /\ LeftAs(B, A, c, g)
  BY DEF Flow
<1>6. LeftAs(B, A2, c, g)
  BY <1>1, <1>3, <1>5 DEF LeftAs
<1>7. "CLOSE_RECEIVED" \in new.flags => g.shut # "no"
  BY <1>5, CloseAfterShut DEF c
<1>8. h2.read \in Nat
  BY <1>5 DEF Collects
<1>9. Stopped(A, c) => Stopped(A2, c) /\ "INPUT_CLOSED" \in A[i].flags
  BY <1>1, <1>2, <1>3 DEF Stopped, c
<1> HIDE DEF c
<1>10. g.shut = "drained" => g.wrote = h2.read /\ Stopped(A2, c)
  <2>1. CASE h2.read = h.read
    BY <1>5, <1>9, <2>1
  <2>2. CASE "INPUT_CLOSED" \notin A[i].flags
    BY <1>5, <1>9, <2>2
  <2>3. QED
    BY <2>1, <2>2 DEF Collects
<1>11. ASSUME g.shut = "no" PROVE Stream(B, A2, Q2, c, g.wrote, h2.read)
  <2>1. new.type # "FREE" /\ x # "OUTPUT_CLOSED"
    <3>1. "CLOSE_RECEIVED" \notin new.flags
      BY <1>7, <1>11
    <3>2. QED
      BY <1>2, <3>1 DEF Served, Flags
  <2>2. i \in DOMAIN A2 /\ A2[i] = new /\ A2[i].inst = c
    BY <1>4, <2>1
  <2>3. PICK v \in Nat, y \in Nat :
          /\ g.wrote =< v /\ y =< h.read /\ Outputs(B, c, g.wrote, v)
          /\ Carried(Q, c, v, y) /\ Inputs(A, c, y, h.read)
    BY <1>5, <1>11 DEF Stream
  <2>4. A[i].input = Span(y, h.read)
    BY <1>1, <2>3 DEF Inputs, c
  <2>5. ASSUME NEW z \in Nat, z =< h2.read, Carried(Q2, c, v, z),
               new.input = Span(z, h2.read)
        PROVE  Stream(B, A2, Q2, c, g.wrote, h2.read)
    <3>1. Inputs(A2, c, z, h2.read)
      BY <1>3, <2>2, <2>5 DEF Inputs
    <3>2. QED
      BY <2>3, <2>5, <3>1 DEF Stream
  <2>6. CASE /\ new.input = A[i].input /\ h2.read = h.read
             /\ \A k \in DOMAIN out : out[k].kind # "DATA"
    <3>1. Carried(Q2, c, v, y)
      BY <2>3, <2>6, CarriedBefore DEF IsDataOf
    <3>2. QED
      BY <2>3, <2>4, <2>5, <2>6, <3>1
  <2>7. CASE /\ new.input = Append(A[i].input, h.read + 1) /\ h2.read = h.read + 1
             /\ \A k \in DOMAIN out : out[k].kind # "DATA"
    <3>1. Carried(Q2, c, v, y)
      BY <2>3, <2>7, CarriedBefore DEF IsDataOf
    <3>2. Append(Span(y, h.read), h.read + 1) = Span(y, h.read + 1)
      BY <1>5, <2>3, SpanAppend
    <3>3. y =< h2.read
      BY <1>5, <2>3, <2>7
    <3>4. new.input = Span(y, h2.read)
      BY <2>4, <2>7, <3>2
    <3>5. QED
      BY <2>5, <3>1, <3>3, <3>4
  <2>8. CASE /\ h2.read = h.read /\ Len(out) = 1 /\ IsDataOf(out[1], A[i].inst)
             /\ \E k \in 0 .. Len(A[i].input) :
                  /\ out[1].data = SubSeq(A[i].input, 1, k)
                  /\ new.input = SubSeq(A[i].input, k + 1, Len(A[i].input))
    <3>1. PICK k \in 0 .. Len(A[i].input) :
            /\ out[1].data = SubSeq(A[i].input, 1, k)
            /\ new.input = SubSeq(A[i].input, k + 1, Len(A[i].input))
      BY <2>8
    <3>2. Len(Span(y, h.read)) = h.read - y
      BY <1>5, <2>3, SpanSeq
    <3>3. k \in 0 .. h.read - y
      BY <2>4, <3>1, <3>2
    <3>4. /\ SubSeq(Span(y, h.read), 1, k) = Span(y, y + k)
          /\ SubSeq(Span(y, h.read), k + 1, Len(Span(y, h.read))) = Span(y + k, h.read)
          /\ y + k \in Nat /\ y =< y + k /\ y + k =< h.read
      BY <1>5, <2>3, <3>3, SpanSplit
    <3>5. out[1].data = Span(y, y + k) /\ new.input = Span(y + k, h.read)
      BY <2>4, <3>1, <3>4
    <3>6. Sends(Q, Q2, out[1])
      BY <2>8 DEF Extend, Sends
    <3>7. IsDataOf(out[1], c)
      BY <2>8 DEF c
    <3>8. Carried(Q2, c, v, y + k)
      <4> DEFINE z == y + k
      <4>1. z \in Nat /\ y =< z /\ out[1].data = Span(y, z)
        BY <3>4, <3>5
      <4> HIDE DEF z
      <4>2. Carried(Q2, c, v, z)
        BY <2>3, <3>6, <3>7, <4>1, CarriedMore
      <4>3. QED
        BY <4>2 DEF z
    <3>9. QED
      BY <2>5, <2>8, <3>4, <3>5, <3>8
  <2>9. QED
    BY <2>1, <2>6, <2>7, <2>8 DEF Collects
<1>12. QED
  BY <1>5, <1>6, <1>8, <1>10, <1>11 DEF Flow, c

\* Serving an entry leaves the other connections alone.
LEMMA FlowElsewhere ==
  ASSUME NEW A, NEW B, NEW P, NEW Q, NEW n,
         Half(A, B, P, Q, n), Half(B, A, Q, P, n),
         NEW A2, NEW P2, NEW Q2, NEW i, NEW new, NEW x, NEW d, NEW out,
         Served(A, B, i, new, x, out), Stored(A, A2, i, new),
         Taken(P, P2, i, x, d), Extend(Q, Q2, out),
         NEW c, c # A[i].inst, NEW h, NEW g
  PROVE  /\ Flow(A, B, P, c, h, g) => Flow(A2, B, P2, c, h, g)
         /\ Flow(B, A, Q, c, g, h) => Flow(B, A2, Q2, c, g, h)
<1>1. SameOn(A, A2, c) /\ SameOn(B, B, c)
  <2>1. /\ \A j \in DOMAIN A2 :
             /\ j \in DOMAIN A /\ A2[j].inst = A[j].inst
             /\ j # i => A2[j] = A[j]
        /\ \A j \in DOMAIN A : j # i => j \in DOMAIN A2
    BY StoredFacts
  <2>2. ASSUME NEW j \in DOMAIN A, A[j].inst = c PROVE j \in DOMAIN A2 /\ A2[j] = A[j]
    <3>1. j # i
      BY <2>2
    <3>2. QED
      BY <2>1, <3>1
  <2>3. ASSUME NEW j \in DOMAIN A2, A2[j].inst = c PROVE j \in DOMAIN A /\ A2[j] = A[j]
    <3>1. j \in DOMAIN A /\ A2[j].inst = A[j].inst
      BY <2>1
    <3>2. j # i
      BY <2>3, <3>1
    <3>3. QED
      BY <2>1, <3>1, <3>2
  <2>4. QED
    BY <2>2, <2>3 DEF SameOn
<1>2. StillCarried(P, P2, c)
  <2>1. Advance(P, P2, d) /\ (d = 0 <=> x = "none") /\ (d = 1 => P[1].kind = x /\ P[1].chan = i)
    BY DEF Taken
  <2>2. d = 1 => P[1].inst = A[i].inst
    <3>1. d = 1 => 1 \in DOMAIN P /\ x \in LaterKinds
      BY <2>1 DEF Advance, Served
    <3>2. i \in DOMAIN A /\ A[i].type # "OPENING"
      BY DEF Served
    <3>3. QED
      BY <2>1, <3>1, <3>2, OfTheServed
  <2>3. d = 1 => ~IsDataOf(P[1], c)
    BY <2>2 DEF IsDataOf
  <2>4. QED
    BY <2>1, <2>3, CarriedStill DEF StillCarried
<1>3. StillCarried(Q, Q2, c)
  <2>1. \A k \in DOMAIN out : ~IsDataOf(out[k], c)
    BY DEF Served, IsDataOf
  <2>2. QED
    BY <2>1, CarriedBefore DEF StillCarried
<1>4. QED
  BY <1>1, <1>2, <1>3, FlowStays

-----------------------------------------------------------------------------
(* A connection is opened, or is not.                                      *)

\* Queues whose data stays: nothing is taken, something else is, or something
\* else is sent.
LEMMA DataStays ==
  ASSUME NEW P, NEW P2, NEW c
  PROVE  /\ P2 = P => StillCarried(P, P2, c)
         /\ Advance(P, P2, 1) /\ P[1].kind # "DATA" => StillCarried(P, P2, c)
         /\ \A m : Sends(P, P2, m) /\ m.kind # "DATA" => StillCarried(P, P2, c)
<1>1. P2 = P => StillCarried(P, P2, c)
  BY DEF StillCarried
<1>2. ASSUME Advance(P, P2, 1), P[1].kind # "DATA" PROVE StillCarried(P, P2, c)
  BY <1>2, CarriedStill DEF StillCarried, IsDataOf
<1>3. ASSUME NEW m, Sends(P, P2, m), m.kind # "DATA" PROVE StillCarried(P, P2, c)
  <2> DEFINE out == <<m>>
  <2>1. Extend(P, P2, out) /\ \A k \in DOMAIN out : out[k] = m
    BY <1>3 DEF Sends, Extend
  <2> HIDE DEF out
  <2>2. \A k \in DOMAIN out : ~IsDataOf(out[k], c)
    BY <1>3, <2>1 DEF IsDataOf
  <2>3. QED
    BY <2>1, <2>2, CarriedBefore DEF StillCarried
<1>4. QED
  BY <1>1, <1>2, <1>3

\* A new entry has nothing read, written or closed.
Empty(new) == new.flags = {} /\ new.input = << >> /\ new.output = << >>

\* A new entry: what its end has still to write ...
LEMMA FlowAddedHere ==
  ASSUME NEW A, NEW B, NEW P, NEW A2, NEW P2, NEW s, NEW new,
         Added(A, A2, s, new), Empty(new), \A i \in DOMAIN A : A[i].inst # new.inst,
         NEW h, NEW g, Flow(A, B, P, new.inst, h, g), h.shut = "no",
         StillCarried(P, P2, new.inst)
  PROVE  Flow(A2, B, P2, new.inst, h, g)
<1> DEFINE c == new.inst
<1>1. \A i \in DOMAIN A2 : A2[i].inst = c => i = s
  BY DEF Added
<1>2. s \in DOMAIN A2 /\ A2[s] = new /\ new.inst = c
  BY DEF Added
<1> HIDE DEF c
<1>3. PICK x \in Nat, y \in Nat :
        /\ h.wrote =< x /\ y =< g.read /\ Outputs(A, c, h.wrote, x)
        /\ Carried(P, c, x, y) /\ Inputs(B, c, y, g.read)
  BY DEF Flow, Stream, c
<1>4. h.wrote = x /\ h.wrote \in Nat
  BY <1>3 DEF Outputs, Flow, c
<1>5. Outputs(A2, c, h.wrote, x)
  <2>1. Span(h.wrote, x) = << >>
    BY <1>4, SpanEmpty
  <2>2. QED
    BY <1>1, <1>2, <2>1 DEF Outputs, Empty
<1>6. Carried(P2, c, x, y)
  BY <1>3 DEF StillCarried, c
<1>7. ShutAs(A2, c, h) /\ LeftAs(A2, B, c, h)
  BY <1>1, <1>2 DEF ShutAs, LeftAs, Empty
<1>8. Stream(A2, B, P2, c, h.wrote, g.read)
  BY <1>3, <1>5, <1>6 DEF Stream
<1>9. QED
  BY <1>7, <1>8 DEF Flow, c

\* ... and what its peer has.
LEMMA FlowAddedThere ==
  ASSUME NEW A, NEW B, NEW Q, NEW A2, NEW Q2, NEW s, NEW new,
         Added(A, A2, s, new), Empty(new), \A i \in DOMAIN A : A[i].inst # new.inst,
         NEW h, NEW g, Flow(B, A, Q, new.inst, g, h), g.shut = "no",
         StillCarried(Q, Q2, new.inst),
         new.type = "OPENING" \/ \E j \in DOMAIN B : B[j].inst = new.inst
  PROVE  Flow(B, A2, Q2, new.inst, g, h)
<1> DEFINE c == new.inst
<1>1. \A i \in DOMAIN A2 : A2[i].inst = c => i = s
  BY DEF Added
<1>2. s \in DOMAIN A2 /\ A2[s] = new /\ new.inst = c
  BY DEF Added
<1> HIDE DEF c
<1>3. PICK x \in Nat, y \in Nat :
        /\ g.wrote =< x /\ y =< h.read /\ Outputs(B, c, g.wrote, x)
        /\ Carried(Q, c, x, y) /\ Inputs(A, c, y, h.read)
  BY DEF Flow, Stream, c
<1>4. y = h.read /\ h.read \in Nat
  BY <1>3 DEF Inputs, Flow, c
<1>5. Inputs(A2, c, y, h.read)
  <2>1. Span(y, h.read) = << >>
    BY <1>4, SpanEmpty
  <2>2. QED
    BY <1>1, <1>2, <2>1 DEF Inputs, Empty
<1>6. Carried(Q2, c, x, y)
  BY <1>3 DEF StillCarried, c
<1>7. ShutAs(B, c, g) /\ LeftAs(B, A2, c, g)
  BY <1>1, <1>2 DEF Flow, LeftAs, c
<1>8. Stream(B, A2, Q2, c, g.wrote, h.read)
  BY <1>3, <1>5, <1>6 DEF Stream
<1>9. QED
  BY <1>7, <1>8 DEF Flow, c

\* Adding an entry leaves the other connections alone.
LEMMA FlowAddedElsewhere ==
  ASSUME NEW A, NEW B, NEW P, NEW Q, NEW A2, NEW P2, NEW Q2, NEW s, NEW new,
         Added(A, A2, s, new), NEW c, c # new.inst, NEW h, NEW g,
         StillCarried(P, P2, c), StillCarried(Q, Q2, c)
  PROVE  /\ Flow(A, B, P, c, h, g) => Flow(A2, B, P2, c, h, g)
         /\ Flow(B, A, Q, c, g, h) => Flow(B, A2, Q2, c, g, h)
<1>1. SameOn(A, A2, c) /\ SameOn(B, B, c)
  BY DEF Added, SameOn
<1>2. QED
  BY <1>1, FlowStays

\* A listener accepts: both directions of every connection.
LEMMA FlowAccepts ==
  ASSUME NEW A, NEW B, NEW P, NEW Q, NEW n \in Nat,
         Half(A, B, P, Q, n), Half(B, A, Q, P, n),
         NEW A2, NEW Q2, NEW s, NEW new, NEW m, Accepts(A, A2, Q, Q2, s, new, m, n),
         NEW c, NEW h, NEW g, c > n => h.shut = "no" /\ g.shut = "no",
         Flow(A, B, P, c, h, g), Flow(B, A, Q, c, g, h)
  PROVE  Flow(A2, B, P, c, h, g) /\ Flow(B, A2, Q2, c, g, h)
<1>1. /\ Added(A, A2, s, new) /\ Sends(Q, Q2, m) /\ m.kind # "DATA"
      /\ new.inst = n + 1 /\ new.type = "OPENING" /\ Empty(new)
  BY DEF Accepts, EntryOK, Empty, OpenKinds
<1>2. StillCarried(P, P, c) /\ StillCarried(Q, Q2, c)
  BY <1>1, DataStays
<1>3. CASE c # new.inst
  BY <1>1, <1>2, <1>3, FlowAddedElsewhere
<1>4. CASE c = new.inst
  <2>1. \A i \in DOMAIN A : A[i].inst # new.inst
    BY <1>1, InstancesKnown
  <2>2. h.shut = "no" /\ g.shut = "no"
    BY <1>1, <1>4
  <2>3. Flow(A2, B, P, c, h, g)
    BY <1>1, <1>2, <1>4, <2>1, <2>2, FlowAddedHere
  <2>4. Flow(B, A2, Q2, c, g, h)
    BY <1>1, <1>2, <1>4, <2>1, <2>2, FlowAddedThere
  <2>5. QED
    BY <2>3, <2>4
<1>5. QED
  BY <1>3, <1>4

\* A request is granted: likewise.
LEMMA FlowGrants ==
  ASSUME NEW A, NEW B, NEW P, NEW Q, NEW n,
         Half(A, B, P, Q, n), Half(B, A, Q, P, n),
         NEW A2, NEW P2, NEW Q2, NEW s, NEW new, NEW m,
         Grants(A, A2, P, P2, Q, Q2, s, new, m), Empty(new), NEW c, NEW h, NEW g,
         Flow(A, B, P, c, h, g), Flow(B, A, Q, c, g, h)
  PROVE  Flow(A2, B, P2, c, h, g) /\ Flow(B, A2, Q2, c, g, h)
<1>1. /\ Advance(P, P2, 1) /\ P[1].kind \in OpenKinds
      /\ Added(A, A2, s, new) /\ Sends(Q, Q2, m) /\ m.kind # "DATA"
      /\ new.inst = P[1].inst
  BY DEF Grants
<1>2. StillCarried(P, P2, c) /\ StillCarried(Q, Q2, c)
  BY <1>1, DataStays DEF OpenKinds
<1>3. CASE c # new.inst
  BY <1>1, <1>2, <1>3, FlowAddedElsewhere
<1>4. CASE c = new.inst
  <2>1. /\ \A i \in DOMAIN A : A[i].inst # new.inst
        /\ P[1].chan \in DOMAIN B /\ B[P[1].chan].type = "OPENING"
        /\ B[P[1].chan].inst = new.inst /\ B[P[1].chan].flags = {}
    BY <1>1, OfTheRequest
  <2>2. h.shut = "no" /\ g.shut = "no"
    BY <1>4, <2>1 DEF Flow, LeftAs, ShutAs
  <2>3. Flow(A2, B, P2, c, h, g)
    BY <1>1, <1>2, <1>4, <2>1, <2>2, FlowAddedHere
  <2>4. Flow(B, A2, Q2, c, g, h)
    BY <1>1, <1>2, <1>4, <2>1, <2>2, FlowAddedThere
  <2>5. QED
    BY <2>3, <2>4
<1>5. QED
  BY <1>3, <1>4

\* A request is refused: likewise.
LEMMA FlowRefuses ==
  ASSUME NEW A, NEW B, NEW P, NEW Q, NEW P2, NEW Q2, NEW m,
         Refuses(P, P2, Q, Q2, m), NEW c, NEW h, NEW g,
         Flow(A, B, P, c, h, g), Flow(B, A, Q, c, g, h)
  PROVE  Flow(A, B, P2, c, h, g) /\ Flow(B, A, Q2, c, g, h)
<1>1. /\ Advance(P, P2, 1) /\ P[1].kind # "DATA" /\ Sends(Q, Q2, m) /\ m.kind # "DATA"
  BY DEF Refuses, OpenKinds
<1>2. StillCarried(P, P2, c) /\ StillCarried(Q, Q2, c)
  BY <1>1, DataStays
<1>3. SameOn(A, A, c) /\ SameOn(B, B, c)
  BY DEF SameOn
<1>4. QED
  BY <1>2, <1>3, FlowStays

\* A confirmation arrives: likewise.
LEMMA FlowConfirms ==
  ASSUME NEW A, NEW B, NEW P, NEW Q, NEW n,
         Half(A, B, P, Q, n), Half(B, A, Q, P, n),
         NEW A2, NEW P2, NEW i, NEW new, Confirms(A, A2, P, P2, i, new),
         new.input = A[i].input, NEW c, NEW h, NEW g,
         Flow(A, B, P, c, h, g), Flow(B, A, Q, c, g, h)
  PROVE  Flow(A2, B, P2, c, h, g) /\ Flow(B, A2, Q, c, g, h)
<1>1. /\ Advance(P, P2, 1) /\ P[1].kind # "DATA"
      /\ DOMAIN A2 = DOMAIN A /\ \A j \in DOMAIN A : A2[j] = IF j = i THEN new ELSE A[j]
      /\ new.inst = A[i].inst /\ new.flags = A[i].flags /\ new.output = A[i].output
  BY DEF Confirms
<1>2. StillCarried(P, P2, c) /\ StillCarried(Q, Q, c)
  BY <1>1, DataStays
<1>3. \A j \in DOMAIN A : /\ A2[j].inst = A[j].inst /\ A2[j].flags = A[j].flags
                         /\ A2[j].input = A[j].input /\ A2[j].output = A[j].output
  BY <1>1
<1>4. /\ \A w, x : Outputs(A, c, w, x) => Outputs(A2, c, w, x)
      /\ \A y, r : Inputs(A, c, y, r) => Inputs(A2, c, y, r)
  BY <1>1, <1>3 DEF Outputs, Inputs
<1>5. Stopped(A, c) => Stopped(A2, c)
  BY <1>1, <1>3 DEF Stopped
<1>6. ShutAs(A2, c, h)
  BY <1>1, <1>3 DEF Flow, ShutAs
<1>7. LeftAs(A2, B, c, h) /\ LeftAs(B, A2, c, g)
  <2>1. /\ i \in DOMAIN A /\ \A j \in DOMAIN A : A[j].inst = A[i].inst => j = i
        /\ P[1].from \in DOMAIN B /\ B[P[1].from].inst = A[i].inst
    BY OfTheConfirmation
  <2>2. LeftAs(A2, B, c, h)
    BY <1>1, <1>3 DEF Flow, LeftAs
  <2>3. LeftAs(B, A2, c, g)
    BY <1>1, <2>1 DEF Flow, LeftAs
  <2>4. QED
    BY <2>2, <2>3
<1>8. \A w, r : Stream(A, B, P, c, w, r) => Stream(A2, B, P2, c, w, r)
  BY <1>2, <1>4 DEF Stream, StillCarried
<1>9. \A w, r : Stream(B, A, Q, c, w, r) => Stream(B, A2, Q, c, w, r)
  BY <1>4 DEF Stream
<1>10. QED
  BY <1>5, <1>6, <1>7, <1>8, <1>9 DEF Flow

\* A refusal arrives: likewise.
LEMMA FlowFails ==
  ASSUME NEW A, NEW B, NEW P, NEW Q, NEW n,
         Half(A, B, P, Q, n), Half(B, A, Q, P, n),
         NEW A2, NEW P2, NEW i, Fails(A, A2, P, P2, i), NEW c, NEW h, NEW g,
         Flow(A, B, P, c, h, g), Flow(B, A, Q, c, g, h)
  PROVE  Flow(A2, B, P2, c, h, g) /\ Flow(B, A2, Q, c, g, h)
<1>1. /\ Advance(P, P2, 1) /\ P[1].kind # "DATA"
  BY DEF Fails
<1>2. StillCarried(P, P2, c) /\ StillCarried(Q, Q, c)
  BY <1>1, DataStays
<1>3. /\ i \in DOMAIN A /\ A[i].type = "OPENING"
      /\ \A j \in DOMAIN B : B[j].inst # A[i].inst
      /\ \A j \in DOMAIN A2 : j \in DOMAIN A /\ j # i /\ A2[j] = A[j]
      /\ \A j \in DOMAIN A : j # i => j \in DOMAIN A2
  BY OfTheRefusal
<1>4. CASE c # A[i].inst
  <2>1. SameOn(A, A2, c) /\ SameOn(B, B, c)
    BY <1>3, <1>4 DEF SameOn
  <2>2. QED
    BY <1>2, <2>1, FlowStays
<1>5. CASE c = A[i].inst
  <2>1. A[i].input = << >> /\ A[i].output = << >>
    BY <1>3 DEF Half, EntriesOK, EntryOK
  <2>2. \A j \in DOMAIN A2 : A2[j].inst # c
    BY <1>3, <1>5 DEF Half, EntriesOK
  <2>3. ASSUME NEW w \in Nat, NEW x \in Nat, w =< x, Outputs(A, c, w, x)
        PROVE  Outputs(A2, c, w, x)
    <3>1. Span(w, x) = << >>
      BY <1>3, <1>5, <2>1, <2>3 DEF Outputs
    <3>2. w = x
      BY <2>3, <3>1, SpanEmpty
    <3>3. QED
      BY <2>2, <3>2 DEF Outputs
  <2>4. ASSUME NEW w \in Nat, NEW x \in Nat, w =< x, Inputs(A, c, w, x)
        PROVE  Inputs(A2, c, w, x)
    <3>1. Span(w, x) = << >>
      BY <1>3, <1>5, <2>1, <2>4 DEF Inputs
    <3>2. w = x
      BY <2>4, <3>1, SpanEmpty
    <3>3. QED
      BY <2>2, <3>2 DEF Inputs
  <2>5. ASSUME NEW w \in Nat, NEW r \in Nat, Stream(A, B, P, c, w, r)
        PROVE  Stream(A2, B, P2, c, w, r)
    BY <1>2, <2>3, <2>5 DEF Stream, StillCarried
  <2>6. ASSUME NEW w \in Nat, NEW r \in Nat, Stream(B, A, Q, c, w, r)
        PROVE  Stream(B, A2, Q, c, w, r)
    BY <2>4, <2>6 DEF Stream
  <2>7. Stopped(A2, c) /\ ShutAs(A2, c, h) /\ LeftAs(A2, B, c, h) /\ LeftAs(B, A2, c, g)
    BY <1>3, <1>5, <2>2 DEF Stopped, ShutAs, LeftAs
  <2>8. QED
    BY <2>5, <2>6, <2>7 DEF Flow
<1>6. QED
  BY <1>4, <1>5

=============================================================================
