---------------------------- MODULE EscapeProofs ----------------------------
(***************************************************************************)
(* Theorems about EscapeFilter, for any set of keys, any number of them    *)
(* and reads of any size: the types, that each key is taken as the filter  *)
(* of whole strings takes it, and that an eof goes behind all input.       *)
(***************************************************************************)
EXTENDS MCEscapeFilter, SequenceTheorems, TLAPS

-----------------------------------------------------------------------------
(* The inductive invariant: what is still to be looked at is the end of    *)
(* what was typed, unless a reply has been written over it.                *)

Ahead ==
  /\ Len(buf) <= Len(typed)
  /\ pc = "over" => i \in DOMAIN buf
  /\ ~spoiled => \A k \in i .. Len(buf) : buf[k] = typed[Len(typed) - Len(buf) + k]
AtStart ==
  pc = "start" => /\ typed = << >> /\ first = << >> /\ stdin = << >> /\ sent.text = << >>
                  /\ cr = TRUE /\ pending = FALSE
EInv == TypeOK /\ Ahead /\ AtStart

-----------------------------------------------------------------------------
(* The buffer.                                                             *)

LEMMA Overlaid ==
  ASSUME NEW b \in Seq(Chars), NEW t \in Seq(Chars)
  PROVE  Overlay(b, t) \in Seq(Chars) /\ Len(Overlay(b, t)) = Len(b)
<1>1. DOMAIN b = 1 .. Len(b) /\ Len(b) \in Nat /\ DOMAIN t = 1 .. Len(t) /\ Len(t) \in Nat
  OBVIOUS
<1>2. \A k \in 1 .. Len(b) : (IF k =< Len(t) THEN t[k] ELSE b[k]) \in Chars
  BY <1>1
<1>3. Overlay(b, t) = [k \in 1 .. Len(b) |-> IF k =< Len(t) THEN t[k] ELSE b[k]]
  BY <1>1 DEF Overlay
<1> QED BY <1>1, <1>2, <1>3

LEMMA TextsAreChars ==
  /\ HelpText \in Seq(Chars) /\ ListText \in Seq(Chars) /\ SuspendText \in Seq(Chars)
  /\ \A ch \in Chars : <<ch>> \in Seq(Chars) /\ <<"esc", ch>> \in Seq(Chars)
<1>1. {"esc", "nl", "nul", "?", "#", Ordinary} \subseteq Chars
  BY DEF Chars, Commands
<1>2. MaxChunk \in Nat
  BY EscapeAssumption
<1>3. [k \in 1 .. MaxChunk |-> Ordinary] \in Seq(Chars)
  BY <1>1, <1>2
<1>4. <<"esc", "?", "nl", "nl">> \in Seq(Chars)
  BY <1>1
<1>5. HelpText \in Seq(Chars)
  BY <1>3, <1>4 DEF HelpText
<1>6. ListText \in Seq(Chars) /\ SuspendText \in Seq(Chars)
  BY <1>1 DEF ListText, SuspendText
<1>7. \A ch \in Chars : <<ch>> \in Seq(Chars) /\ <<"esc", ch>> \in Seq(Chars)
  BY <1>1
<1> QED BY <1>5, <1>6, <1>7

\* What a step that looks at a character may do to the buffer.
Overwrites ==
  /\ buf' \in Seq(Chars) /\ Len(buf') = Len(buf) /\ spoiled' \in BOOLEAN
  /\ ~spoiled' => ~spoiled /\ \A k \in i + 1 .. Len(buf) : buf'[k] = buf[k]

LEMMA WritesOver ==
  ASSUME EInv, NEW t \in Seq(Chars), Writes(t)
  PROVE  Overwrites
<1>1. buf \in Seq(Chars) /\ spoiled \in BOOLEAN
  BY DEF EInv, TypeOK
<1>2. buf' \in Seq(Chars) /\ Len(buf') = Len(buf)
  BY <1>1, Overlaid DEF Writes
<1>3. spoiled' = (spoiled \/ \E k \in i + 1 .. Len(buf) : buf'[k] # buf[k])
  BY DEF Writes
<1> QED BY <1>1, <1>2, <1>3 DEF Overwrites

LEMMA NothingOver ==
  ASSUME EInv, UNCHANGED <<buf, spoiled>>
  PROVE  Overwrites
BY DEF EInv, TypeOK, Overwrites

\* The next character, as it was typed.
NextKey == typed[Len(typed) - Len(buf) + i]

LEMMA LooksAt ==
  ASSUME EInv, Looking
  PROVE  /\ i \in 1 .. Len(buf) /\ Len(buf) \in Nat /\ Len(typed) \in Nat /\ Len(buf) <= Len(typed)
         /\ buf[i] \in Chars /\ NextKey \in Keys
         /\ ~spoiled => buf[i] = NextKey
         /\ LookedAt = SubSeq(typed, 1, Len(typed) - Len(buf) + i - 1)
<1>1. /\ buf \in Seq(Chars) /\ i \in DOMAIN buf /\ typed \in Seq(Keys) /\ Len(buf) <= Len(typed)
      /\ pc = "filter"
  BY DEF EInv, TypeOK, Ahead, Looking
<1>2. /\ i \in 1 .. Len(buf) /\ Len(buf) \in Nat /\ Len(typed) \in Nat /\ buf[i] \in Chars
      /\ \A k \in 1 .. Len(typed) : typed[k] \in Keys
  BY <1>1
<1>3. Len(typed) - Len(buf) + i \in 1 .. Len(typed)
  BY <1>1, <1>2
<1>4. NextKey \in Keys
  BY <1>2, <1>3 DEF NextKey
<1>5. ~spoiled => buf[i] = NextKey
  BY <1>2 DEF EInv, Ahead, NextKey
<1> QED BY <1>1, <1>2, <1>4, <1>5 DEF LookedAt

\* What was looked at grows by one key.
LEMMA OneMore ==
  ASSUME NEW s \in Seq(Keys), NEW n \in 1 .. Len(s)
  PROVE  /\ SubSeq(s, 1, n) = Append(SubSeq(s, 1, n - 1), s[n])
         /\ SubSeq(s, 1, Len(s)) = s
<1> DEFINE a == SubSeq(s, 1, n)
           b == SubSeq(s, 1, n - 1)
           c == SubSeq(s, 1, Len(s))
<1>1. /\ a \in Seq(Keys) /\ Len(a) = n /\ \A k \in 1 .. n : a[k] = s[k]
      /\ b \in Seq(Keys) /\ Len(b) = n - 1 /\ \A k \in 1 .. n - 1 : b[k] = s[k]
      /\ c \in Seq(Keys) /\ Len(c) = Len(s) /\ \A k \in 1 .. Len(s) : c[k] = s[k]
      /\ n \in Nat \ {0} /\ s[n] \in Keys
  OBVIOUS
<1> HIDE DEF a, b, c
<1>2. c = s
  BY <1>1
<1>3. /\ Append(b, s[n]) \in Seq(Keys) /\ Len(Append(b, s[n])) = n
      /\ \A k \in 1 .. n : Append(b, s[n])[k] = a[k]
  BY <1>1
<1>4. a = Append(b, s[n])
  BY <1>1, <1>3
<1> QED BY <1>2, <1>4 DEF a, b, c

\* Every action but ~. goes on to the next character.
LEMMA Advances ==
  ASSUME EInv, Looking, NEW flag \in BOOLEAN, Advance(flag), Overwrites,
         {cr', eof', dropped'} \subseteq BOOLEAN, stdin' \in Seq(Chars),
         sent' \in [text : Seq(Chars), ends : Seq({"^D", "EOF"} \X Nat)],
         UNCHANGED <<typed, first>>
  PROVE  /\ EInv' /\ LookedAt' = Append(LookedAt, NextKey) /\ pc' # "over"
         /\ pending' = flag /\ first' = first
<1>1. /\ i \in 1 .. Len(buf) /\ Len(buf) \in Nat /\ Len(typed) \in Nat /\ Len(buf) <= Len(typed)
      /\ LookedAt = SubSeq(typed, 1, Len(typed) - Len(buf) + i - 1)
  BY LooksAt
<1>2. /\ i' = i + 1 /\ pc' = (IF i = Len(buf) THEN "send" ELSE "filter") /\ pending' = flag
  BY DEF Advance
<1>3. /\ typed \in Seq(Keys) /\ buf' \in Seq(Chars)
      /\ Len(buf') = Len(buf) /\ DOMAIN buf' = 1 .. Len(buf)
  BY DEF EInv, TypeOK, Overwrites
<1>4. TypeOK'
  <2>1. i' \in 1 .. Len(buf') + 1 /\ (pc' = "filter" => i' \in DOMAIN buf')
    <3>1. PICK n \in Nat : n = Len(buf)
      BY <1>1
    <3>2. i \in 1 .. n /\ i' = i + 1 /\ (pc' = "filter" => i # n)
      BY <1>1, <1>2, <3>1
    <3>3. i' \in 1 .. n + 1 /\ (pc' = "filter" => i' \in 1 .. n)
      BY <3>2
    <3> QED BY <1>3, <3>1, <3>3
  <2>2. pc' \in {"start", "send", "read", "filter", "over"}
    BY <1>2
  <2>3. {pending', cr', eof', spoiled', dropped'} \subseteq BOOLEAN
    BY <1>2 DEF Overwrites
  <2> QED BY <1>3, <2>1, <2>2, <2>3 DEF TypeOK
<1>5. Ahead'
  <2>1. pc' # "over" /\ Len(buf') <= Len(typed')
    BY <1>1, <1>2, <1>3
  <2>2. ASSUME ~spoiled', NEW k \in i' .. Len(buf')
        PROVE  buf'[k] = typed'[Len(typed') - Len(buf') + k]
    <3>1. ~spoiled /\ k \in i + 1 .. Len(buf) /\ buf'[k] = buf[k]
      BY <1>2, <1>3, <2>2 DEF Overwrites
    <3>2. buf[k] = typed[Len(typed) - Len(buf) + k]
      <4>1. k \in i .. Len(buf)
        BY <1>1, <3>1
      <4> QED BY <3>1, <4>1 DEF EInv, Ahead
    <3> QED BY <1>3, <3>1, <3>2
  <2> QED BY <2>1, <2>2, SMTT(60) DEF Ahead
<1>6. AtStart' /\ pc' # "over"
  BY <1>2 DEF AtStart
<1>7. LookedAt' = SubSeq(typed, 1, Len(typed) - Len(buf) + i)
  <2>1. CASE i = Len(buf)
    <3>1. LookedAt' = typed /\ Len(typed) - Len(buf) + i = Len(typed)
      BY <1>1, <1>2, <2>1 DEF LookedAt
    <3>2. Len(typed) \in 1 .. Len(typed)
      BY <1>1
    <3> QED BY <1>3, <3>1, <3>2, OneMore
  <2>2. CASE i # Len(buf)
    <3>1. LookedAt' = SubSeq(typed, 1, Len(typed) - Len(buf) + (i + 1) - 1)
      BY <1>2, <1>3, <2>2 DEF LookedAt
    <3>2. Len(typed) - Len(buf) + (i + 1) - 1 = Len(typed) - Len(buf) + i
      BY <1>1
    <3> QED BY <3>1, <3>2
  <2> QED BY <2>1, <2>2
<1>8. LookedAt' = Append(LookedAt, NextKey)
  <2>1. Len(typed) - Len(buf) + i \in 1 .. Len(typed)
    BY <1>1
  <2> QED BY <1>1, <1>3, <1>7, <2>1, OneMore, SMTT(60) DEF NextKey
<1> QED BY <1>2, <1>4, <1>5, <1>6, <1>8 DEF EInv

-----------------------------------------------------------------------------
(* The filter, case by case.                                               *)

State(b, p, o, t) == [begin |-> b, pending |-> p, over |-> o, text |-> t]

LEMMA FilterIs ==
  ASSUME NEW b \in BOOLEAN, NEW t
  PROVE  /\ Filter(State(b, TRUE, FALSE, t), ".") = State(b, FALSE, TRUE, t)
         /\ Filter(State(b, TRUE, FALSE, t), "esc") = State(FALSE, FALSE, FALSE, Append(t, "esc"))
         /\ Filter(State(TRUE, FALSE, FALSE, t), "esc") = State(TRUE, TRUE, FALSE, t)
<1>1. Filter(State(b, TRUE, FALSE, t), ".") = State(b, FALSE, TRUE, t)
  BY DEF Filter, AfterEscape, State
<1>2. Filter(State(b, TRUE, FALSE, t), "esc") = State(FALSE, FALSE, FALSE, Append(t, "esc"))
  BY DEF Filter, AfterEscape, State, Commands
<1>3. Filter(State(TRUE, FALSE, FALSE, t), "esc") = State(TRUE, TRUE, FALSE, t)
  BY DEF Filter, State
<1> QED BY <1>1, <1>2, <1>3

LEMMA CommandIs ==
  ASSUME NEW b \in BOOLEAN, NEW t, NEW ch \in {"^Z", "&", "?", "#"}
  PROVE  Filter(State(b, TRUE, FALSE, t), ch) = State(b, FALSE, FALSE, t)
<1>1. ch \in Commands \ {"."} /\ ch # "." /\ ch # "esc"
  BY DEF Commands
<1>2. AfterEscape(State(b, TRUE, FALSE, t), ch)
      = [State(b, TRUE, FALSE, t) EXCEPT !.pending = FALSE]
  BY <1>1 DEF AfterEscape
<1>3. Filter(State(b, TRUE, FALSE, t), ch) = AfterEscape(State(b, TRUE, FALSE, t), ch)
  BY DEF Filter, State
<1> QED BY <1>2, <1>3 DEF State

LEMMA NoCommandIs ==
  ASSUME NEW b \in BOOLEAN, NEW t, NEW ch, ch \notin Commands \cup {"esc"}
  PROVE  Filter(State(b, TRUE, FALSE, t), ch) = State(b, FALSE, FALSE, t \o <<"esc", ch>>)
BY DEF Filter, AfterEscape, State, Commands

\* The end of the input is marked after what was sent.
LEMMA EndsMarks ==
  ASSUME NEW s \in [text : Seq(Chars), ends : Seq({"^D", "EOF"} \X Nat)]
  PROVE  \A what \in {"^D", "EOF"} :
           /\ Ends(s, what) \in [text : Seq(Chars), ends : Seq({"^D", "EOF"} \X Nat)]
           /\ Ends(s, what).text = s.text
           /\ Ends(Ends(s, what), "EOF") \in [text : Seq(Chars), ends : Seq({"^D", "EOF"} \X Nat)]
           /\ Ends(Ends(s, what), "EOF").text = s.text
<1>1. ASSUME NEW r \in [text : Seq(Chars), ends : Seq({"^D", "EOF"} \X Nat)],
             NEW w \in {"^D", "EOF"}
      PROVE  /\ Ends(r, w) \in [text : Seq(Chars), ends : Seq({"^D", "EOF"} \X Nat)]
             /\ Ends(r, w).text = r.text
  <2>1. <<w, Len(r.text)>> \in {"^D", "EOF"} \X Nat
    OBVIOUS
  <2>2. Append(r.ends, <<w, Len(r.text)>>) \in Seq({"^D", "EOF"} \X Nat)
    BY <2>1
  <2> QED BY <2>2 DEF Ends
<1> QED BY <1>1

LEMMA TextGrows ==
  ASSUME NEW s \in Seq(Chars), NEW t \in Seq(Chars), NEW ch \in Chars
  PROVE  /\ s \o Append(t, ch) = Append(s \o t, ch)
         /\ s \o (t \o <<"esc", ch>>) = (s \o t) \o <<"esc", ch>>
         /\ s \o << >> = s /\ (s \o t) \o << >> = s \o t
         /\ Append(t, ch) \in Seq(Chars) /\ t \o <<"esc", ch>> \in Seq(Chars)
<1>1. <<ch>> \in Seq(Chars) /\ <<"esc", ch>> \in Seq(Chars) /\ s \o t \in Seq(Chars)
  BY TextsAreChars
<1>2. /\ s \o (t \o <<ch>>) = (s \o t) \o <<ch>>
      /\ s \o (t \o <<"esc", ch>>) = (s \o t) \o <<"esc", ch>>
  BY <1>1, ConcatAssociative, SMTT(60)
<1>3. Append(t, ch) = t \o <<ch>> /\ Append(s \o t, ch) = (s \o t) \o <<ch>>
  BY <1>1, AppendIsConcat
<1>4. s \o << >> = s /\ (s \o t) \o << >> = s \o t
  BY <1>1, ConcatEmptySeq
<1> QED BY <1>1, <1>2, <1>3, <1>4, SMTT(60)

-----------------------------------------------------------------------------
(* Each case of the switch takes the next key as the filter does.          *)

Takes ==
  /\ EInv'
  /\ ~spoiled /\ ~dropped' =>
       /\ LookedAt' = Append(LookedAt, NextKey) /\ NextKey \in Keys /\ first' = first
       /\ Reached' = Filter(Reached, NextKey)

LEMMA ReachedIs ==
  ASSUME EInv, Looking
  PROVE  /\ Reached = State(cr, pending, FALSE, sent.text \o stdin)
         /\ sent.text \in Seq(Chars) /\ stdin \in Seq(Chars) /\ sent.text \o stdin \in Seq(Chars)
         /\ sent \in [text : Seq(Chars), ends : Seq({"^D", "EOF"} \X Nat)]
         /\ cr \in BOOLEAN /\ pending \in BOOLEAN /\ eof \in BOOLEAN /\ dropped \in BOOLEAN
<1>1. pc = "filter" /\ TypeOK
  BY DEF EInv, Looking
<1>2. (pc = "over") = FALSE
  BY <1>1
<1>3. /\ sent \in [text : Seq(Chars), ends : Seq({"^D", "EOF"} \X Nat)] /\ stdin \in Seq(Chars)
      /\ cr \in BOOLEAN /\ pending \in BOOLEAN /\ eof \in BOOLEAN /\ dropped \in BOOLEAN
  BY <1>1 DEF TypeOK
<1>4. sent.text \in Seq(Chars) /\ sent.text \o stdin \in Seq(Chars)
  BY <1>3
<1> QED BY <1>2, <1>3, <1>4 DEF Reached, State

\* An action that goes on, in the terms of the filter.
LEMMA GoesOn ==
  ASSUME EInv, Looking, NEW flag \in BOOLEAN, Advance(flag), Overwrites,
         NEW b \in BOOLEAN, cr' = b, {eof', dropped'} \subseteq BOOLEAN, stdin' \in Seq(Chars),
         sent' \in [text : Seq(Chars), ends : Seq({"^D", "EOF"} \X Nat)],
         UNCHANGED <<typed, first>>,
         ~spoiled /\ ~dropped' =>
           State(b, flag, FALSE, sent'.text \o stdin') = Filter(Reached, buf[i])
  PROVE  Takes
<1>1. {cr', eof', dropped'} \subseteq BOOLEAN
  OBVIOUS
<1>2. /\ EInv' /\ LookedAt' = Append(LookedAt, NextKey) /\ pc' # "over"
      /\ pending' = flag /\ first' = first
  BY <1>1, Advances
<1>3. NextKey \in Keys /\ (~spoiled => buf[i] = NextKey)
  BY LooksAt
<1>4. Reached' = State(b, flag, FALSE, sent'.text \o stdin')
  BY <1>2 DEF Reached, State
<1> QED BY <1>2, <1>3, <1>4 DEF Takes

LEMMA TerminateTakes ==
  ASSUME EInv, Terminate
  PROVE  Takes
<1>1. /\ Looking /\ pending /\ buf[i] = "." /\ pc' = "over" /\ pending' = FALSE
      /\ UNCHANGED <<buf, i, cr, stdin, eof, sent, typed, spoiled, dropped, first>>
  BY DEF Terminate, Escaped
<1>2. /\ i \in 1 .. Len(buf) /\ Len(buf) \in Nat /\ Len(typed) \in Nat /\ Len(buf) <= Len(typed)
      /\ NextKey \in Keys /\ (~spoiled => buf[i] = NextKey)
      /\ LookedAt = SubSeq(typed, 1, Len(typed) - Len(buf) + i - 1)
  BY <1>1, LooksAt
<1>3. EInv'
  <2>1. TypeOK'
    BY <1>1 DEF EInv, TypeOK
  <2>2. DOMAIN buf = 1 .. Len(buf)
    BY DEF EInv, TypeOK
  <2>3. Ahead' /\ AtStart'
    BY <1>1, <1>2, <2>2 DEF EInv, Ahead, AtStart
  <2> QED BY <2>1, <2>3 DEF EInv
<1>4. LookedAt' = Append(LookedAt, NextKey)
  <2>1. LookedAt' = SubSeq(typed, 1, Len(typed) - Len(buf) + i)
    BY <1>1 DEF LookedAt
  <2>2. Len(typed) - Len(buf) + i \in 1 .. Len(typed) /\ typed \in Seq(Keys)
    BY <1>2 DEF EInv, TypeOK
  <2> QED BY <1>2, <2>1, <2>2, OneMore DEF NextKey
<1>5. Reached' = Filter(Reached, ".")
  <2>1. Reached = State(cr, TRUE, FALSE, sent.text \o stdin) /\ cr \in BOOLEAN
    BY <1>1, ReachedIs
  <2>2. Reached' = State(cr, FALSE, TRUE, sent.text \o stdin)
    BY <1>1 DEF Reached, State
  <2> QED BY <2>1, <2>2, FilterIs
<1> QED BY <1>1, <1>2, <1>3, <1>4, <1>5 DEF Takes

LEMMA SuspendTakes ==
  ASSUME EInv, Suspend
  PROVE  Takes
<1>1. /\ Looking /\ pending /\ buf[i] = "^Z" /\ Writes(SuspendText) /\ Advance(FALSE)
      /\ stdin' = << >> /\ dropped' = (dropped \/ stdin # << >>)
      /\ UNCHANGED <<cr, eof, sent, typed, first>>
  BY DEF Suspend, Escaped
<1>2. Overwrites
  BY <1>1, WritesOver, TextsAreChars
<1>3. /\ Reached = State(cr, TRUE, FALSE, sent.text \o stdin) /\ sent.text \in Seq(Chars)
      /\ cr \in BOOLEAN /\ eof \in BOOLEAN /\ dropped \in BOOLEAN
      /\ sent \in [text : Seq(Chars), ends : Seq({"^D", "EOF"} \X Nat)]
  BY <1>1, ReachedIs
<1>4. dropped' \in BOOLEAN /\ << >> \in Seq(Chars)
  BY <1>1, <1>3
<1>5. ~dropped' => State(cr, FALSE, FALSE, sent'.text \o stdin') = Filter(Reached, buf[i])
  <2>1. Filter(State(cr, TRUE, FALSE, sent.text \o stdin), "^Z")
        = State(cr, FALSE, FALSE, sent.text \o stdin)
    BY <1>3, CommandIs
  <2>2. ~dropped' => sent'.text \o stdin' = sent.text \o stdin
    BY <1>1
  <2> QED BY <1>1, <1>3, <2>1, <2>2
<1> QED BY <1>1, <1>2, <1>3, <1>4, <1>5, GoesOn

LEMMA BackgroundTakes ==
  ASSUME EInv, Background
  PROVE  Takes
<1>1. /\ Looking /\ pending /\ buf[i] = "&" /\ Advance(FALSE) /\ eof' = TRUE
      /\ sent' = (IF eof THEN sent
                  ELSE IF stdin = << >> THEN Ends(Ends(sent, "^D"), "EOF") ELSE Ends(sent, "^D"))
      /\ UNCHANGED <<buf, cr, stdin, typed, spoiled, dropped, first>>
  BY DEF Background, Escaped
<1>2. Overwrites
  BY <1>1, NothingOver
<1>3. /\ Reached = State(cr, TRUE, FALSE, sent.text \o stdin) /\ sent.text \in Seq(Chars)
      /\ stdin \in Seq(Chars) /\ cr \in BOOLEAN /\ eof \in BOOLEAN /\ dropped \in BOOLEAN
      /\ sent \in [text : Seq(Chars), ends : Seq({"^D", "EOF"} \X Nat)]
  BY <1>1, ReachedIs
<1>4. sent' \in [text : Seq(Chars), ends : Seq({"^D", "EOF"} \X Nat)] /\ sent'.text = sent.text
  BY <1>1, <1>3, EndsMarks
<1>5. State(cr, FALSE, FALSE, sent'.text \o stdin') = Filter(Reached, buf[i])
  <2>1. Filter(State(cr, TRUE, FALSE, sent.text \o stdin), "&")
        = State(cr, FALSE, FALSE, sent.text \o stdin)
    BY <1>3, CommandIs
  <2> QED BY <1>1, <1>3, <1>4, <2>1
<1> QED BY <1>1, <1>2, <1>3, <1>4, <1>5, GoesOn

\* ~? and ~# change nothing but the buffer.
LEMMA RepliesTake ==
  ASSUME EInv, Help \/ ListConnections
  PROVE  Takes
<1>1. /\ Looking /\ pending /\ buf[i] \in {"?", "#"} /\ Advance(FALSE)
      /\ Writes(HelpText) \/ Writes(ListText)
      /\ UNCHANGED <<cr, stdin, eof, sent, typed, dropped, first>>
  BY DEF Help, ListConnections, Escaped
<1>2. Overwrites
  BY <1>1, WritesOver, TextsAreChars
<1>3. /\ Reached = State(cr, TRUE, FALSE, sent.text \o stdin) /\ sent.text \in Seq(Chars)
      /\ stdin \in Seq(Chars) /\ cr \in BOOLEAN /\ eof \in BOOLEAN /\ dropped \in BOOLEAN
      /\ sent \in [text : Seq(Chars), ends : Seq({"^D", "EOF"} \X Nat)]
  BY <1>1, ReachedIs
<1>4. State(cr, FALSE, FALSE, sent'.text \o stdin') = Filter(Reached, buf[i])
  <2>1. Filter(State(cr, TRUE, FALSE, sent.text \o stdin), buf[i])
        = State(cr, FALSE, FALSE, sent.text \o stdin)
    BY <1>1, <1>3, CommandIs
  <2> QED BY <1>1, <1>3, <2>1
<1> QED BY <1>1, <1>2, <1>3, <1>4, GoesOn

LEMMA NotACommandTakes ==
  ASSUME EInv, NotACommand
  PROVE  Takes
<1> DEFINE ch == buf[i]
<1>1. /\ Looking /\ pending /\ ch \notin Commands \cup {"esc"} /\ Advance(FALSE)
      /\ Writes(<<"esc", ch>>) /\ stdin' = stdin \o <<"esc", ch>>
      /\ UNCHANGED <<cr, eof, sent, typed, dropped, first>>
  BY DEF NotACommand
<1>2. ch \in Chars
  BY <1>1, LooksAt
<1> HIDE DEF ch
<1>3. Overwrites
  BY <1>1, <1>2, WritesOver, TextsAreChars
<1>4. /\ Reached = State(cr, TRUE, FALSE, sent.text \o stdin) /\ sent.text \in Seq(Chars)
      /\ stdin \in Seq(Chars) /\ cr \in BOOLEAN /\ eof \in BOOLEAN /\ dropped \in BOOLEAN
      /\ sent \in [text : Seq(Chars), ends : Seq({"^D", "EOF"} \X Nat)]
  BY <1>1, ReachedIs
<1>5. stdin' \in Seq(Chars) /\ sent.text \o stdin' = (sent.text \o stdin) \o <<"esc", ch>>
  BY <1>1, <1>2, <1>4, TextGrows, SMTT(60)
<1>6. State(cr, FALSE, FALSE, sent'.text \o stdin') = Filter(Reached, ch)
  <2>1. Filter(State(cr, TRUE, FALSE, sent.text \o stdin), ch)
        = State(cr, FALSE, FALSE, (sent.text \o stdin) \o <<"esc", ch>>)
    BY <1>1, <1>4, NoCommandIs
  <2> QED BY <1>1, <1>4, <1>5, <2>1
<1> QED BY <1>1, <1>3, <1>4, <1>5, <1>6, GoesOn DEF ch

LEMMA StartEscapeTakes ==
  ASSUME EInv, StartEscape
  PROVE  Takes
<1>1. /\ Looking /\ ~pending /\ cr /\ buf[i] = "esc" /\ Advance(TRUE)
      /\ UNCHANGED <<buf, cr, stdin, eof, sent, typed, spoiled, dropped, first>>
  BY DEF StartEscape
<1>2. Overwrites
  BY <1>1, NothingOver
<1>3. /\ Reached = State(TRUE, FALSE, FALSE, sent.text \o stdin) /\ sent.text \in Seq(Chars)
      /\ stdin \in Seq(Chars) /\ cr = TRUE /\ eof \in BOOLEAN /\ dropped \in BOOLEAN
      /\ sent \in [text : Seq(Chars), ends : Seq({"^D", "EOF"} \X Nat)]
  BY <1>1, ReachedIs
<1>4. State(TRUE, TRUE, FALSE, sent'.text \o stdin') = Filter(Reached, buf[i])
  BY <1>1, <1>3, FilterIs
<1> QED BY <1>1, <1>2, <1>3, <1>4, GoesOn

LEMMA PlainTakes ==
  ASSUME EInv, Plain
  PROVE  Takes
<1> DEFINE ch == buf[i]
<1>1. /\ Looking /\ Advance(FALSE) /\ Writes(<<ch>>) /\ stdin' = Append(stdin, ch)
      /\ cr' = (ch = "nl") /\ UNCHANGED <<eof, sent, typed, dropped, first>>
      /\ IF pending THEN ch = "esc" ELSE ~(cr /\ ch = "esc")
  BY DEF Plain
<1>2. ch \in Chars
  BY <1>1, LooksAt
<1> HIDE DEF ch
<1>3. Overwrites
  BY <1>1, <1>2, WritesOver, TextsAreChars
<1>4. /\ Reached = State(cr, pending, FALSE, sent.text \o stdin) /\ sent.text \in Seq(Chars)
      /\ stdin \in Seq(Chars) /\ cr \in BOOLEAN /\ eof \in BOOLEAN /\ dropped \in BOOLEAN
      /\ pending \in BOOLEAN
      /\ sent \in [text : Seq(Chars), ends : Seq({"^D", "EOF"} \X Nat)]
  BY <1>1, ReachedIs
<1>5. stdin' \in Seq(Chars) /\ sent.text \o stdin' = Append(sent.text \o stdin, ch)
  BY <1>1, <1>2, <1>4, TextGrows
<1>6. PICK nl \in BOOLEAN : nl <=> ch = "nl"
  OBVIOUS
<1>7. State(nl, FALSE, FALSE, sent'.text \o stdin') = Filter(Reached, ch)
  <2>1. sent'.text = sent.text
    BY <1>1
  <2>2. CASE pending = TRUE
    <3>1. ch = "esc" /\ nl = FALSE
      BY <1>1, <1>6, <2>2
    <3>2. Filter(State(cr, TRUE, FALSE, sent.text \o stdin), "esc")
          = State(FALSE, FALSE, FALSE, Append(sent.text \o stdin, "esc"))
      BY <1>2, <1>4, FilterIs
    <3>3. Reached = State(cr, TRUE, FALSE, sent.text \o stdin)
      BY <1>4, <2>2
    <3>4. sent'.text \o stdin' = Append(sent.text \o stdin, "esc")
      BY <1>5, <2>1, <3>1
    <3> QED BY <3>1, <3>2, <3>3, <3>4
  <2>3. CASE pending = FALSE
    <3>1. cr = FALSE \/ ch # "esc"
      BY <1>1, <1>4, <2>3
    <3>2. Filter(State(cr, FALSE, FALSE, sent.text \o stdin), ch)
          = State(nl, FALSE, FALSE, Append(sent.text \o stdin, ch))
      <4>1. PICK b \in BOOLEAN : b = cr
        BY <1>4
      <4>2. PICK t : t = sent.text \o stdin
        OBVIOUS
      <4>3. Filter(State(b, FALSE, FALSE, t), ch) = State(nl, FALSE, FALSE, Append(t, ch))
        BY <1>6, <3>1, <4>1 DEF Filter, State
      <4> QED BY <4>1, <4>2, <4>3
    <3>3. Reached = State(cr, FALSE, FALSE, sent.text \o stdin)
      BY <1>4, <2>3
    <3> QED BY <1>5, <2>1, <3>2, <3>3
  <2> QED BY <1>4, <2>2, <2>3
<1>8. cr' = nl
  BY <1>1, <1>6
<1> QED BY <1>1, <1>3, <1>4, <1>5, <1>6, <1>7, <1>8, GoesOn DEF ch

-----------------------------------------------------------------------------
(* What looks at no character.                                             *)

Keeps ==
  /\ EInv' /\ LookedAt' = LookedAt
  /\ Reached' = IF first' = first THEN Reached ELSE StartAfter(first')

LEMMA StartKeeps ==
  ASSUME EInv, NothingYet \/ \E ch \in Keys : FirstCharacter(ch)
  PROVE  Keeps
<1>1. /\ pc = "start" /\ pc' = "send"
      /\ UNCHANGED <<buf, i, cr, eof, sent, typed, spoiled, dropped>>
  BY DEF NothingYet, FirstCharacter
<1>2. TypeOK /\ Ahead /\ AtStart
  BY DEF EInv
<1>3. LookedAt' = LookedAt
  BY <1>1 DEF LookedAt
<1>4. ASSUME NothingYet
      PROVE  Keeps
  <2>1. pending' = pending /\ stdin' = stdin /\ first' = first
    BY <1>4 DEF NothingYet
  <2>2. EInv'
    BY <1>1, <1>2, <2>1 DEF EInv, TypeOK, Ahead, AtStart
  <2>3. Reached' = Reached
    BY <1>1, <2>1 DEF Reached
  <2> QED BY <1>3, <2>1, <2>2, <2>3 DEF Keeps
<1>5. ASSUME NEW ch \in Keys, FirstCharacter(ch)
      PROVE  Keeps
  <2>1. /\ first' = <<ch>> /\ pending' = (ch = "esc")
        /\ stdin' = (IF ch = "esc" THEN << >> ELSE <<ch>>)
    BY <1>5 DEF FirstCharacter
  <2>2. ch \in Chars
    BY EscapeAssumption
  <2>3. stdin' \in Seq(Chars) /\ pending' \in BOOLEAN
    BY <2>1, <2>2
  <2>4. EInv'
    BY <1>1, <1>2, <2>3 DEF EInv, TypeOK, Ahead, AtStart
  <2>5. first' # first /\ sent.text = << >> /\ cr = TRUE
    BY <1>1, <1>2, <2>1 DEF AtStart
  <2>6. sent.text \o stdin' = stdin'
    BY <2>3, <2>5, ConcatEmptySeq
  <2>7. (<<ch>> = <<"esc">>) = (ch = "esc")
    OBVIOUS
  <2>8. Reached' = [begin |-> TRUE, pending |-> (ch = "esc"), over |-> FALSE, text |-> stdin']
    BY <1>1, <2>1, <2>5, <2>6 DEF Reached
  <2>9. StartAfter(first')
        = [begin |-> TRUE, pending |-> (ch = "esc"), over |-> FALSE, text |-> stdin']
    BY <2>1, <2>7 DEF StartAfter
  <2> QED BY <1>3, <2>4, <2>5, <2>8, <2>9 DEF Keeps
<1> QED BY <1>4, <1>5

LEMMA SendKeeps ==
  ASSUME EInv, SendStdin
  PROVE  Keeps
<1> DEFINE s == [sent EXCEPT !.text = @ \o stdin]
<1>1. /\ pc = "send" /\ pc' = "read" /\ stdin' = << >>
      /\ sent' = (IF eof /\ stdin # << >> THEN Ends(s, "EOF") ELSE s)
      /\ UNCHANGED <<buf, i, pending, cr, eof, typed, spoiled, dropped, first>>
  BY DEF SendStdin
<1>2. TypeOK /\ Ahead /\ AtStart
  BY DEF EInv
<1>3. sent.text \in Seq(Chars) /\ stdin \in Seq(Chars)
  BY <1>2 DEF TypeOK
<1>4. sent.text \o stdin \in Seq(Chars) /\ (sent.text \o stdin) \o << >> = sent.text \o stdin
  BY <1>3, ConcatEmptySeq
<1>5. /\ s \in [text : Seq(Chars), ends : Seq({"^D", "EOF"} \X Nat)]
      /\ s.text = sent.text \o stdin
  BY <1>2, <1>4 DEF TypeOK
<1> HIDE DEF s
<1>6. /\ sent' \in [text : Seq(Chars), ends : Seq({"^D", "EOF"} \X Nat)]
      /\ sent'.text = sent.text \o stdin
  BY <1>1, <1>5, EndsMarks
<1>7. EInv'
  BY <1>1, <1>2, <1>6 DEF EInv, TypeOK, Ahead, AtStart
<1>8. LookedAt' = LookedAt
  BY <1>1 DEF LookedAt
<1>9. Reached' = Reached
  BY <1>1, <1>4, <1>6 DEF Reached
<1> QED BY <1>1, <1>7, <1>8, <1>9 DEF Keeps

LEMMA ReadKeeps ==
  ASSUME EInv, NEW chunk \in Seq(Keys), ReadChunk(chunk)
  PROVE  Keeps
<1>1. /\ pc = "read" /\ pc' = "filter" /\ buf' = chunk /\ i' = 1 /\ typed' = typed \o chunk
      /\ chunk # << >> /\ UNCHANGED <<pending, cr, stdin, eof, sent, spoiled, dropped, first>>
  BY DEF ReadChunk
<1>2. TypeOK
  BY DEF EInv
<1>3. typed \in Seq(Keys) /\ chunk \in Seq(Chars)
  <2>1. Keys \subseteq Chars
    BY EscapeAssumption
  <2> QED BY <1>2, <2>1 DEF TypeOK
<1> DEFINE n == Len(typed)
           m == Len(chunk)
<1>4. /\ n \in Nat /\ m \in Nat \ {0} /\ Len(typed') = n + m /\ typed' \in Seq(Keys)
      /\ DOMAIN chunk = 1 .. m
      /\ \A k \in 1 .. n : typed'[k] = typed[k]
      /\ \A k \in 1 .. m : typed'[n + k] = chunk[k]
  BY <1>1, <1>3
<1>5. TypeOK'
  <2>1. i' \in 1 .. Len(buf') + 1 /\ i' \in DOMAIN buf'
    BY <1>1, <1>4
  <2> QED BY <1>1, <1>2, <1>3, <1>4, <2>1 DEF TypeOK
<1> HIDE DEF n, m
<1>6. n + m - m = n
  BY <1>4
<1>7. Ahead'
  <2>1. Len(buf') = m /\ Len(typed') = n + m
    BY <1>1, <1>4 DEF m
  <2>2. m <= n + m
    BY <1>4
  <2>3. \A k \in i' .. m : buf'[k] = typed'[n + m - m + k]
    BY <1>1, <1>4, <1>6
  <2> QED BY <1>1, <2>1, <2>2, <2>3 DEF Ahead
<1>8. LookedAt' = LookedAt
  <2>1. LookedAt' = SubSeq(typed', 1, n)
    <3>1. Len(typed') - Len(buf') + i' - 1 = n
      BY <1>1, <1>4 DEF m
    <3> QED BY <1>1, <3>1 DEF LookedAt
  <2>2. SubSeq(typed', 1, n) = typed
    <3>1. /\ SubSeq(typed', 1, n) \in Seq(Keys) /\ Len(SubSeq(typed', 1, n)) = n
          /\ \A k \in 1 .. n : SubSeq(typed', 1, n)[k] = typed'[k]
      BY <1>4
    <3> QED BY <1>3, <1>4, <3>1 DEF n
  <2> QED BY <1>1, <2>1, <2>2 DEF LookedAt
<1>9. Reached' = Reached
  BY <1>1 DEF Reached
<1>10. AtStart'
  BY <1>1 DEF AtStart
<1> QED BY <1>1, <1>5, <1>7, <1>8, <1>9, <1>10 DEF Keeps, EInv

-----------------------------------------------------------------------------
(* Every step.                                                             *)

LEMMA EscapeBegins ==
  ASSUME Init
  PROVE  EInv
<1>1. << >> \in Seq(Chars) /\ << >> \in Seq({"^D", "EOF"} \X Nat) /\ << >> \in Seq(Keys)
      /\ Len(<< >>) = 0
  OBVIOUS
<1>2. TypeOK
  <2>1. sent \in [text : Seq(Chars), ends : Seq({"^D", "EOF"} \X Nat)]
    BY <1>1 DEF Init
  <2>2. i \in 1 .. Len(buf) + 1
    BY <1>1 DEF Init
  <2>3. buf \in Seq(Chars) /\ stdin \in Seq(Chars) /\ typed \in Seq(Keys)
    BY <1>1 DEF Init
  <2>4. pc = "start" /\ {pending, cr, eof, spoiled, dropped} \subseteq BOOLEAN
    BY DEF Init
  <2> QED BY <2>1, <2>2, <2>3, <2>4 DEF TypeOK
<1>3. Ahead /\ AtStart
  BY <1>1 DEF Init, Ahead, AtStart
<1> QED BY <1>2, <1>3 DEF EInv

LEMMA EscapeSteps ==
  ASSUME EInv, Next
  PROVE  Takes \/ Keeps
<1>1. ASSUME NEW n \in 1 .. MaxChunk, NEW chunk \in [1 .. n -> Keys], ReadChunk(chunk)
      PROVE  Keeps
  <2>1. chunk \in Seq(Keys)
    BY EscapeAssumption
  <2> QED BY <1>1, <2>1, ReadKeeps
<1> QED BY <1>1, StartKeeps, SendKeeps, TerminateTakes, SuspendTakes, BackgroundTakes,
        RepliesTake, NotACommandTakes, StartEscapeTakes, PlainTakes
        DEF Next

LEMMA EscapeInvariance ==
  ASSUME EInv, [Next]_vars
  PROVE  EInv'
<1>1. CASE UNCHANGED vars
  BY <1>1 DEF vars, EInv, TypeOK, Ahead, AtStart
<1>2. CASE Next
  BY <1>2, EscapeSteps DEF Takes, Keeps
<1> QED BY <1>1, <1>2

\* What is read, buffered, sent and marked has the types EscapeFilter gives it, and
\* client_process_input never indexes its buffer past what was read.
THEOREM EscapeTypes == Spec => []TypeOK
<1>1. Init => EInv
  BY EscapeBegins
<1>2. EInv /\ [Next]_vars => EInv'
  BY EscapeInvariance
<1>3. EInv => TypeOK
  BY DEF EInv
<1> QED BY <1>1, <1>2, <1>3, PTL DEF Spec

\* client_process_input looks at the keys one by one in the order they were typed, and
\* takes each as a filter that knows nothing of reads and buffers does, whatever the reads:
\* escape_pending and last_was_cr, and the characters put into stdin_buffer or sent from
\* it, are what the filter would have.  Once a reply has been written over characters that
\* were still to be looked at, or stdin_buffer was freed with input in it, nothing is said.
THEOREM KeysAreFiltered == Spec => KeyByKey
<1>1. Init => EInv
  BY EscapeBegins
<1>2. EInv /\ [Next]_vars => EInv'
  BY EscapeInvariance
<1>3. EInv /\ [Next]_vars =>
        [~spoiled /\ ~dropped' =>
           \/ /\ LookedAt' = LookedAt
              /\ Reached' = IF first' = first THEN Reached ELSE StartAfter(first')
           \/ \E ch \in Keys : LookedAt' = Append(LookedAt, ch) /\ Reached' = Filter(Reached, ch)
        ]_vars
  BY EscapeSteps DEF Takes, Keeps
<1> QED BY <1>1, <1>2, <1>3, PTL DEF Spec, KeyByKey

-----------------------------------------------------------------------------
\* client_check_initial_eof_on_stdin comes before any eof.
EofInv == (pc = "start" => ~eof) /\ (~dropped => EofIsLast)

LEMMA EndsMarksLast ==
  ASSUME NEW s \in [text : Seq(Chars), ends : Seq({"^D", "EOF"} \X Nat)],
         NEW what \in {"^D", "EOF"}
  PROVE  LET r == Ends(s, what)
         IN  /\ r.ends # << >> /\ r.text = s.text
             /\ r.ends[Len(r.ends)] = <<what, Len(s.text)>>
<1>1. s.ends \in Seq({"^D", "EOF"} \X Nat) /\ s.text \in Seq(Chars)
  OBVIOUS
<1>2. Ends(s, what).ends = Append(s.ends, <<what, Len(s.text)>>)
  BY DEF Ends
<1>3. Ends(s, what).text = s.text
  BY DEF Ends
<1>4. \A x \in {"^D", "EOF"} \X Nat :
         /\ Append(s.ends, x) # << >>
         /\ Append(s.ends, x)[Len(Append(s.ends, x))] = x
  BY <1>1
<1>5. <<what, Len(s.text)>> \in {"^D", "EOF"} \X Nat
  BY <1>1
<1> QED BY <1>2, <1>3, <1>4, <1>5

LEMMA EofStays ==
  ASSUME EInv, EofInv, Next
  PROVE  EofInv'
<1>1. /\ sent \in [text : Seq(Chars), ends : Seq({"^D", "EOF"} \X Nat)]
      /\ stdin \in Seq(Chars) /\ buf \in Seq(Chars) /\ i \in 1 .. Len(buf) + 1
      /\ pc = "filter" => i \in DOMAIN buf
  BY DEF EInv, TypeOK
<1>2. CASE SendStdin
  <2> DEFINE s == [sent EXCEPT !.text = @ \o stdin]
  <2>1. s \in [text : Seq(Chars), ends : Seq({"^D", "EOF"} \X Nat)]
    <3>1. sent.text \o stdin \in Seq(Chars)
      BY <1>1
    <3> QED BY <1>1, <3>1
  <2>2. CASE eof /\ stdin # << >>
    <3>1. sent' = Ends(s, "EOF")
      BY <1>2, <2>2 DEF SendStdin
    <3> QED BY <1>2, <2>1, <3>1, EndsMarksLast DEF SendStdin, EofInv, EofIsLast
  <2>3. CASE eof /\ stdin = << >>
    <3>1. sent' = s /\ s.ends = sent.ends /\ s.text = sent.text
      BY <1>1, <1>2, <2>3 DEF SendStdin
    <3> QED BY <1>2, <2>3, <3>1 DEF SendStdin, EofInv, EofIsLast
  <2> QED BY <1>2, <2>2, <2>3 DEF SendStdin, EofInv, EofIsLast
<1>3. CASE Background
  <2> DEFINE s == Ends(sent, "^D")
  <2>1. s \in [text : Seq(Chars), ends : Seq({"^D", "EOF"} \X Nat)] /\ s.text = sent.text
    BY <1>1, EndsMarks
  <2>2. CASE ~eof /\ stdin = << >>
    <3>1. sent' = Ends(s, "EOF")
      BY <1>3, <2>2 DEF Background
    <3> QED BY <1>3, <2>1, <3>1, EndsMarksLast
            DEF Background, Escaped, Looking, Advance, EofInv, EofIsLast
  <2> QED BY <1>3, <2>2 DEF Background, Escaped, Looking, Advance, EofInv, EofIsLast
<1>4. CASE \E ch \in Keys : FirstCharacter(ch)
  BY <1>4 DEF FirstCharacter, EofInv, EofIsLast
<1>5. CASE NotACommand
  <2>1. stdin' = stdin \o <<"esc", buf[i]>> /\ pc' # "start"
    BY <1>5 DEF NotACommand, Advance
  <2>2. stdin' # << >>
    <3>1. buf[i] \in Chars /\ "esc" \in Chars
      BY <1>1, <1>5 DEF NotACommand, Looking, Chars
    <3>2. \A t \in Seq(Chars) : \A c, d \in Chars : t \o <<c, d>> # << >>
      OBVIOUS
    <3> QED BY <1>1, <2>1, <3>1, <3>2, Zenon
  <2> QED BY <2>1, <2>2 DEF EofInv, EofIsLast
<1>6. CASE Plain
  <2>1. stdin' = Append(stdin, buf[i]) /\ pc' # "start"
    BY <1>6 DEF Plain, Advance
  <2>2. stdin' # << >>
    <3>1. buf[i] \in Chars
      BY <1>1, <1>6 DEF Plain, Looking
    <3>2. \A t \in Seq(Chars) : \A c \in Chars : Append(t, c) # << >>
      BY AppendProperties
    <3> QED BY <1>1, <2>1, <3>1, <3>2, Zenon
  <2> QED BY <2>1, <2>2 DEF EofInv, EofIsLast
<1>7. CASE Suspend
  BY <1>7 DEF Suspend, Escaped, Looking, Advance, EofInv, EofIsLast
<1>8. CASE NothingYet \/ Terminate \/ Help \/ ListConnections \/ StartEscape
  BY <1>8 DEF NothingYet, Terminate, Help, ListConnections, StartEscape, Escaped, Looking,
              Advance, EofInv, EofIsLast
<1>9. CASE \E n \in 1 .. MaxChunk : \E chunk \in [1 .. n -> Keys] : ReadChunk(chunk)
  BY <1>9 DEF ReadChunk, EofInv, EofIsLast
<1> QED BY <1>2, <1>3, <1>4, <1>5, <1>6, <1>7, <1>8, <1>9 DEF Next

\* An eof that ~& asked for is sent behind all that was let through, by client_process_input
\* if nothing is buffered and else by client_send_stdin_data; only a suspension that frees
\* stdin_buffer can make it forgotten.
THEOREM EofFollowsInput == Spec => [](~dropped => EofIsLast)
<1>1. Init => EInv /\ EofInv
  BY EscapeBegins DEF Init, EofInv, EofIsLast
<1>2. EInv /\ EofInv /\ [Next]_vars => EInv' /\ EofInv'
  <2>1. CASE UNCHANGED vars
    BY <2>1, EscapeInvariance DEF vars, EofInv, EofIsLast
  <2> QED BY <2>1, EscapeInvariance, EofStays
<1>3. EofInv => (~dropped => EofIsLast)
  BY DEF EofInv
<1> QED BY <1>1, <1>2, <1>3, PTL DEF Spec
=============================================================================
