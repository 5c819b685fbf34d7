------------------------------ MODULE ScpProofs -----------------------------
(***************************************************************************)
(* The two ends of a copy stay in step, whatever is copied and whatever    *)
(* calls fail, but for two calls whose errors are answered for once too    *)
(* often.                                                                  *)
(***************************************************************************)
EXTENDS Scp, SequenceTheorems, FiniteSetTheorems, TLAPS

-----------------------------------------------------------------------------
(* The inductive invariant.                                                *)

Listed  == Nodes \cup {[kind |-> "leave"]}
Verdicts == {"ok", "error"}
Items   == [kind : {"error", "T", "C", "D", "E", "data", "ok"}, size : Nat]

IsSource(x) ==
  /\ x \in [pc : {"answer", "next", "second", "data", "exit"},
            to : {"start", "T", "C", "D", "data", "E"}, todo : Seq(Listed), left : Nat,
            haderr : BOOLEAN, errs : {x.errs}, status : {x.status}]
  \* What it is sending.
  /\ x.pc \in {"second", "data"} \/ (x.pc = "answer" /\ x.to # "start") => x.todo # << >>
  /\ x.pc = "second" \/ (x.pc = "answer" /\ x.to = "T") => Head(x.todo).kind \in {"file", "dir"}
  /\ x.pc = "answer" /\ x.to = "C" => Head(x.todo).kind = "file"
  /\ x.pc = "answer" /\ x.to = "D" => Head(x.todo).kind = "dir"

IsSink(y) ==
  /\ y \in [pc : {"start", "record", "data", "verdict", "exit"}, setimes : {y.setimes}, left : Nat,
            wrerr : {"NO", "YES", "DISPLAYED"}, errs : {y.errs}, status : {y.status}]
  /\ y.pc = "data" => y.wrerr # "DISPLAYED"

\* What may be on its way to the sink, or is what is left of it: any number of lines of
\* error and then one record; as many blocks as it has to read, and the source's verdict.
\* The verdict of a file whose error the sink has told already may be followed by what
\* the source did next.
Records(p) == \A i \in DOMAIN p : /\ p[i].kind \in {"error", "T", "C", "D", "E"}
                                  /\ i < Len(p) => p[i].kind = "error"
Blocks(p, n) == /\ Len(p) <= n + 1
                /\ \A i \in DOMAIN p : p[i].kind \in (IF i <= n THEN {"data"} ELSE Verdicts)
Judged(p, shown) == p # << >> => /\ Head(p).kind \in Verdicts
                                 /\ IF shown THEN Records(Tail(p)) ELSE Tail(p) = << >>
Readable(y, p) ==
  /\ y.pc = "start"   => p = << >>
  /\ y.pc = "record"  => Records(p)
  /\ y.pc = "data"    => Blocks(p, y.left)
  /\ y.pc = "verdict" => Judged(p, y.wrerr = "DISPLAYED")

\* The answers on their way: none while the source looks for a file, and no more than
\* one but for an empty file, which the sink may have dealt with before the source has
\* read that it may send it.
Quiet(x, q) ==
  /\ x.pc \in {"next", "second"} => q = << >>
  /\ x.pc = "data" => Len(q) <= 1
  /\ x.pc = "answer" => Len(q) <= 1 \/ (x.to = "C" /\ Len(q) = 2 /\ q[1] = "ok")

\* The sink is where it reads records, or will be without another answer; what is then
\* on its way to it.
Ready(y, p) == y.pc = "record" \/ (y.pc = "verdict" /\ y.wrerr = "DISPLAYED" /\ p # << >>)
Rest(y, p)  == IF y.pc = "verdict" THEN Tail(p) ELSE p
Shown(y)    == IF y.wrerr = "DISPLAYED" THEN <<"error">> ELSE << >>

Lines(p)    == \A i \in DOMAIN p : p[i].kind = "error"
Asks(x, p)  == /\ x.to \in {"T", "C", "D", "E"} /\ p # << >> /\ p[Len(p)].kind = x.to
               /\ x.to = "C" => p[Len(p)].size = Head(x.todo).size

\* The places of the two, what is on its way to the sink, and the answers.
AtRecords(x, y, p, q) ==
  \/ x.pc = "next" /\ q = << >> /\ Ready(y, p) /\ Lines(Rest(y, p))
  \/ x.pc = "answer" /\ q = << >> /\ Ready(y, p) /\ Asks(x, Rest(y, p))
  \/ x.pc = "second" /\ q = << >> /\ y.pc = "record" /\ p = << >>
Answered(x, y, p, q) ==
  /\ x.pc = "answer" /\ p = << >>
  /\ \/ x.to \in {"start", "D"} /\ y.pc = "start" /\ q = << >>
     \/ y.pc = "record" /\ (q = <<"error">> \/ (q = <<"ok">> /\ x.to # "C"))
     \/ x.to = "C" /\ y.pc = "data" /\ y.left = Head(x.todo).size /\ q = <<"ok">>
     \/ x.to = "C" /\ y.pc = "verdict" /\ Head(x.todo).size = 0 /\ q = <<"ok">> \o Shown(y)
AtData(x, y, p, q) ==
  \/ /\ x.pc = "data" /\ y.pc = "data" /\ q = << >>
     /\ y.left = Len(p) + x.left /\ \A i \in DOMAIN p : p[i].kind = "data"
  \/ x.pc = "answer" /\ x.to = "data" /\ y.pc = "data" /\ q = << >> /\ Len(p) = y.left + 1
  \/ x.pc = "data" /\ x.left = 0 /\ y.pc = "verdict" /\ p = << >> /\ q = Shown(y)
  \/ x.pc = "answer" /\ x.to = "data" /\ y.pc = "verdict" /\ Len(p) = 1 /\ q = Shown(y)
Matched(x, y, p, q) == AtRecords(x, y, p, q) \/ Answered(x, y, p, q) \/ AtData(x, y, p, q)

\* The two ends x and y, what is on its way, and what became of the connection.
Both(x, y, f) == x.pc # "exit" /\ y.pc # "exit" /\ ~f.cut
Holds(x, y, p, q, f) ==
  /\ IsSource(x) /\ IsSink(y) /\ p \in Seq(Items) /\ q \in Seq(Verdicts)
  /\ f \in [calls : {f.calls}, cut : BOOLEAN, astray : {FALSE}]
  /\ y.pc # "exit" => Readable(y, p)
  /\ x.pc # "exit" => Quiet(x, q)
  /\ Both(x, y, f) => Matched(x, y, p, q)
IInv == cfg \in Setups /\ Holds(src, snk, up, down, failed)

-----------------------------------------------------------------------------
(* Sequences of items.                                                     *)

LEMMA NoneOf ==
  ASSUME NEW S
  PROVE  << >> \in Seq(S) /\ Len(<< >>) = 0 /\ DOMAIN << >> = {}
OBVIOUS

LEMMA Single ==
  ASSUME NEW S, NEW e \in S
  PROVE  <<e>> \in Seq(S) /\ Len(<<e>>) = 1 /\ <<e>>[1] = e /\ DOMAIN <<e>> = {1}
OBVIOUS

LEMMA AppendIs ==
  ASSUME NEW S, NEW p \in Seq(S), NEW e \in S
  PROVE  /\ Append(p, e) \in Seq(S) /\ Append(p, e) # << >> /\ Len(p) \in Nat
         /\ Len(Append(p, e)) = Len(p) + 1 /\ Append(p, e)[Len(p) + 1] = e
         /\ DOMAIN p = 1 .. Len(p) /\ DOMAIN Append(p, e) = 1 .. Len(p) + 1
         /\ \A i \in 1 .. Len(p) : Append(p, e)[i] = p[i]
OBVIOUS

LEMMA TailIs ==
  ASSUME NEW S, NEW p \in Seq(S), p # << >>
  PROVE  /\ Head(p) = p[1] /\ Head(p) \in S /\ Tail(p) \in Seq(S) /\ Len(p) \in Nat \ {0}
         /\ Len(Tail(p)) = Len(p) - 1
         /\ DOMAIN p = 1 .. Len(p) /\ DOMAIN Tail(p) = 1 .. Len(p) - 1
         /\ \A i \in 1 .. Len(p) - 1 : Tail(p)[i] = p[i + 1]
OBVIOUS

LEMMA EmptyIs ==
  ASSUME NEW S, NEW p \in Seq(S)
  PROVE  p = << >> <=> Len(p) = 0
OBVIOUS

\* An item more, after the first.
LEMMA TailOfMore ==
  ASSUME NEW S, NEW p \in Seq(S), NEW e \in S, p # << >>
  PROVE  Tail(Append(p, e)) = Append(Tail(p), e) /\ Head(Append(p, e)) = Head(p)
<1>1. /\ Append(p, e) \in Seq(S) /\ Len(Append(p, e)) = Len(p) + 1 /\ Append(p, e) # << >>
      /\ Append(p, e)[Len(p) + 1] = e /\ \A i \in 1 .. Len(p) : Append(p, e)[i] = p[i]
  BY AppendIs
<1>2. /\ Tail(p) \in Seq(S) /\ Len(Tail(p)) = Len(p) - 1 /\ Head(p) = p[1] /\ Len(p) \in Nat \ {0}
      /\ \A i \in 1 .. Len(p) - 1 : Tail(p)[i] = p[i + 1]
  BY TailIs
<1> DEFINE a == Tail(Append(p, e))
           b == Append(Tail(p), e)
<1>3. /\ a \in Seq(S) /\ Len(a) = Len(p) /\ Head(Append(p, e)) = Append(p, e)[1]
      /\ \A i \in 1 .. Len(p) : a[i] = Append(p, e)[i + 1]
  BY <1>1, <1>2, TailIs
<1>4. /\ b \in Seq(S) /\ Len(b) = Len(p) /\ b[Len(p)] = e
      /\ \A i \in 1 .. Len(p) - 1 : b[i] = Tail(p)[i]
  BY <1>2, AppendIs
<1> HIDE DEF a, b
<1>5. \A i \in 1 .. Len(p) : a[i] = b[i]
  BY <1>1, <1>2, <1>3, <1>4
<1>6. a = b
  BY <1>3, <1>4, <1>5, SeqEqual
<1> QED BY <1>1, <1>2, <1>3, <1>6 DEF a, b

-----------------------------------------------------------------------------
(* What the sink can read.                                                 *)

LEMMA RecordsSent ==
  ASSUME NEW p \in Seq(Items), NEW e \in Items, Lines(p)
  PROVE  /\ e.kind \in {"error", "T", "C", "D", "E"} => Records(Append(p, e))
         /\ e.kind = "error" => Lines(Append(p, e))
BY AppendIs DEF Lines, Records

LEMMA RecordsTaken ==
  ASSUME NEW p \in Seq(Items), Records(p), p # << >>
  PROVE  /\ Head(p).kind \in {"error", "T", "C", "D", "E"} /\ Records(Tail(p))
         /\ Head(p).kind # "error" => Tail(p) = << >>
         /\ Lines(p) => Lines(Tail(p)) /\ Head(p).kind = "error"
<1>1. /\ Head(p) = p[1] /\ Tail(p) \in Seq(Items) /\ Len(p) \in Nat \ {0}
      /\ Len(Tail(p)) = Len(p) - 1 /\ DOMAIN p = 1 .. Len(p) /\ DOMAIN Tail(p) = 1 .. Len(p) - 1
      /\ \A i \in 1 .. Len(p) - 1 : Tail(p)[i] = p[i + 1]
  BY TailIs
<1>2. Records(Tail(p)) /\ (Lines(p) => Lines(Tail(p)))
  BY <1>1 DEF Records, Lines
<1>3. Head(p).kind # "error" => Len(p) = 1
  BY <1>1 DEF Records
<1> QED BY <1>1, <1>2, <1>3, EmptyIs DEF Records, Lines

LEMMA BlocksSent ==
  ASSUME NEW p \in Seq(Items), NEW e \in Items, NEW n \in Nat,
         \A i \in DOMAIN p : p[i].kind = "data"
  PROVE  /\ Len(p) < n /\ e.kind = "data" =>
              /\ Blocks(Append(p, e), n)
              /\ \A i \in DOMAIN Append(p, e) : Append(p, e)[i].kind = "data"
         /\ Len(p) = n /\ e.kind \in Verdicts => Blocks(Append(p, e), n)
BY AppendIs DEF Blocks

LEMMA BlocksTaken ==
  ASSUME NEW p \in Seq(Items), NEW n \in Nat, Blocks(p, n), p # << >>, n > 0
  PROVE  Head(p).kind = "data" /\ Blocks(Tail(p), n - 1)
BY TailIs DEF Blocks

\* What the sink has to read is cut off with the connection.
LEMMA ReadableCut ==
  ASSUME NEW p \in Seq(Items), NEW n \in 0 .. Len(p), NEW y, IsSink(y), y.pc # "exit",
         Readable(y, p)
  PROVE  SubSeq(p, 1, n) \in Seq(Items) /\ Readable(y, SubSeq(p, 1, n))
<1> DEFINE r == SubSeq(p, 1, n)
<1>1. /\ r \in Seq(Items) /\ Len(r) = n /\ DOMAIN r = 1 .. n /\ DOMAIN p = 1 .. Len(p)
      /\ Len(p) \in Nat /\ \A i \in 1 .. n : r[i] = p[i]
  OBVIOUS
<1> HIDE DEF r
<1>2. p = << >> => r = << >>
  BY <1>1, EmptyIs
<1>3. Records(p) => Records(r)
  BY <1>1 DEF Records
<1>4. Blocks(p, y.left) => Blocks(r, y.left)
  BY <1>1 DEF Blocks, IsSink
<1>5. ASSUME Judged(p, y.wrerr = "DISPLAYED"), r # << >>
      PROVE  Judged(r, y.wrerr = "DISPLAYED")
  <2>1. /\ p # << >> /\ n >= 1 /\ Head(r) = r[1] /\ Head(p) = p[1]
        /\ Tail(r) \in Seq(Items) /\ Tail(p) \in Seq(Items)
        /\ Len(Tail(p)) = Len(p) - 1 /\ Len(Tail(r)) = n - 1
        /\ DOMAIN Tail(r) = 1 .. n - 1 /\ DOMAIN Tail(p) = 1 .. Len(p) - 1
        /\ \A i \in 1 .. n - 1 : Tail(r)[i] = r[i + 1]
        /\ \A i \in 1 .. Len(p) - 1 : Tail(p)[i] = p[i + 1]
    BY <1>1, <1>5, TailIs, EmptyIs
  <2>2. Head(r).kind \in Verdicts
    BY <1>1, <1>5, <2>1 DEF Judged
  <2>3. Records(Tail(p)) => Records(Tail(r))
    BY <1>1, <2>1 DEF Records
  <2>4. Tail(p) = << >> => Tail(r) = << >>
    BY <1>1, <2>1, EmptyIs
  <2> QED BY <1>5, <2>1, <2>2, <2>3, <2>4 DEF Judged
<1>6. Readable(y, r)
  BY <1>2, <1>3, <1>4, <1>5 DEF Readable, Judged
<1> QED BY <1>1, <1>6 DEF r

-----------------------------------------------------------------------------
(* One end sends.                                                          *)

LEMMA GoneIs ==
  ASSUME NEW n
  PROVE  /\ \A x : IsSource(x) => IsSource(Gone(x, n)) /\ Gone(x, n).pc = "exit"
         /\ \A y : IsSink(y) => IsSink(Gone(y, n)) /\ Gone(y, n).pc = "exit"
<1>1. ASSUME NEW x, IsSource(x)
      PROVE  IsSource(Gone(x, n)) /\ Gone(x, n).pc = "exit"
  BY <1>1 DEF Gone, IsSource
<1>2. ASSUME NEW y, IsSink(y)
      PROVE  IsSink(Gone(y, n)) /\ Gone(y, n).pc = "exit"
  BY <1>2 DEF Gone, IsSink
<1> QED BY <1>1, <1>2

\* The failures a step counts change nothing else.
Same(f) == /\ f \in [calls : {f.calls}, cut : BOOLEAN, astray : {FALSE}]
           /\ f.cut = failed.cut

LEMMA Counts ==
  ASSUME IInv, NEW bad
  PROVE  Same(Count(bad)) /\ Same(failed)
<1>1. failed \in [calls : {failed.calls}, cut : BOOLEAN, astray : {FALSE}]
  BY DEF IInv, Holds
<1>2. PICK n : n = IF bad THEN failed.calls + 1 ELSE failed.calls
  OBVIOUS
<1>3. Count(bad) = [failed EXCEPT !.calls = n]
  BY <1>2 DEF Count
<1> QED BY <1>1, <1>3 DEF Same

\* The source has sent an item, to a sink or to nobody.
LEMMA SourceSends ==
  ASSUME IInv, src.pc # "exit", NEW item \in Items, NEW s, IsSource(s), s.pc # "exit",
         Sends(item, s), UNCHANGED <<cfg, snk, down>>, Same(failed'), Quiet(s, down),
         Both(src, snk, failed) =>
           /\ Readable(snk, Append(up, item))
           /\ Matched(s, snk, Append(up, item), down)
  PROVE  IInv'
<1>1. /\ IsSource(src) /\ IsSink(snk) /\ up \in Seq(Items) /\ down \in Seq(Verdicts)
      /\ cfg \in Setups /\ (snk.pc # "exit" => Readable(snk, up))
  BY DEF IInv, Holds
<1>2. cfg' = cfg /\ snk' = snk /\ down' = down
  OBVIOUS
<1>3. Both(src, snk, failed) <=> Reads(snk)
  BY DEF Both, Reads
<1>4. CASE Reads(snk)
  <2>1. src' = s /\ up' = Append(up, item)
    BY <1>4 DEF Sends
  <2>2. Append(up, item) \in Seq(Items)
    BY <1>1, AppendIs
  <2>3. Holds(s, snk, Append(up, item), down, failed')
    BY <1>1, <1>3, <1>4, <2>2 DEF Holds, Same
  <2> QED BY <1>1, <1>2, <2>1, <2>3 DEF IInv
<1>5. CASE ~Reads(snk)
  <2>1. src' \in {s, Gone(src, 1)} /\ up' = up
    BY <1>5 DEF Sends
  <2>2. IsSource(src') /\ (src'.pc # "exit" => Quiet(src', down))
    <3>1. IsSource(Gone(src, 1)) /\ Gone(src, 1).pc = "exit"
      BY <1>1, GoneIs
    <3> QED BY <2>1, <3>1
  <2>3. ~Both(src', snk, failed')
    BY <1>5 DEF Both, Reads, Same
  <2>4. Holds(src', snk, up, down, failed')
    BY <1>1, <2>2, <2>3 DEF Holds, Same
  <2> QED BY <1>1, <1>2, <2>1, <2>4 DEF IInv
<1> QED BY <1>4, <1>5

\* The number of errors told is no matter.
LEMMA ErrorsAside ==
  ASSUME NEW y, IsSink(y), NEW n
  PROVE  LET z == [y EXCEPT !.errs = n] IN
         /\ IsSink(z) /\ z.pc = y.pc
         /\ \A p : Readable(z, p) <=> Readable(y, p)
         /\ \A x, p, q : Matched(x, z, p, q) <=> Matched(x, y, p, q)
<1> DEFINE z == [y EXCEPT !.errs = n]
<1>1. IsSink(z) /\ z.pc = y.pc /\ z.left = y.left /\ z.wrerr = y.wrerr
  BY DEF IsSink
<1> HIDE DEF z
<1>2. \A p : Readable(z, p) <=> Readable(y, p)
  BY <1>1 DEF Readable
<1>3. \A p : Ready(z, p) = Ready(y, p) /\ Rest(z, p) = Rest(y, p) /\ Shown(z) = Shown(y)
  BY <1>1 DEF Ready, Rest, Shown
<1>4. \A x, p, q : AtRecords(x, z, p, q) <=> AtRecords(x, y, p, q)
  BY <1>1, <1>3 DEF AtRecords
<1>5. \A x, p, q : Answered(x, z, p, q) <=> Answered(x, y, p, q)
  BY <1>1, <1>3 DEF Answered
<1>6. \A x, p, q : AtData(x, z, p, q) <=> AtData(x, y, p, q)
  BY <1>1, <1>3 DEF AtData
<1>7. \A x, p, q : Matched(x, z, p, q) <=> Matched(x, y, p, q)
  BY <1>4, <1>5, <1>6 DEF Matched
<1> QED BY <1>1, <1>2, <1>7 DEF z

\* The sink has answered, to a source or to nobody.
LEMMA SinkAnswers ==
  ASSUME IInv, snk.pc # "exit", NEW items \in Seq(Verdicts), NEW s, IsSink(s),
         Answers(items, s), UNCHANGED <<cfg, src>>, Same(failed'), up' \in Seq(Items),
         s.pc # "exit" => Readable(s, up'),
         Both(src, snk, failed) =>
           /\ Quiet(src, down \o items)
           /\ s.pc # "exit" => Matched(src, s, up', down \o items)
  PROVE  IInv'
<1>1. /\ IsSource(src) /\ IsSink(snk) /\ up \in Seq(Items) /\ down \in Seq(Verdicts)
      /\ cfg \in Setups /\ (src.pc # "exit" => Quiet(src, down))
  BY DEF IInv, Holds
<1>2. cfg' = cfg /\ src' = src
  OBVIOUS
<1> DEFINE n == s.errs + Cardinality({i \in DOMAIN items : items[i] = "error"})
           t == [s EXCEPT !.errs = n]
<1>3. \/ snk' = Gone(t, 1) /\ down' = down
      \/ snk' = t /\ down' = down \o items /\ Reads(src)
      \/ snk' \in {t, Gone(t, 1)} /\ down' = down /\ ~Reads(src)
  BY DEF Answers
<1> HIDE DEF n
<1>4. /\ IsSink(t) /\ t.pc = s.pc /\ (Readable(t, up') <=> Readable(s, up'))
      /\ Matched(src, t, up', down \o items) <=> Matched(src, s, up', down \o items)
  BY ErrorsAside
<1> HIDE DEF t
<1>5. IsSink(Gone(t, 1)) /\ Gone(t, 1).pc = "exit"
  BY <1>4, GoneIs
<1>6. down \o items \in Seq(Verdicts)
  BY <1>1
<1>7. CASE snk' = Gone(t, 1) /\ down' = down
  <2>1. Holds(src, Gone(t, 1), up', down, failed')
    BY <1>1, <1>5 DEF Holds, Both, Same
  <2> QED BY <1>1, <1>2, <1>7, <2>1 DEF IInv
<1>8. CASE snk' = t /\ down' = down \o items /\ Reads(src)
  <2>1. Both(src, snk, failed)
    BY <1>8 DEF Both, Reads
  <2>2. Holds(src, t, up', down \o items, failed')
    BY <1>1, <1>4, <1>6, <2>1 DEF Holds, Both, Same
  <2> QED BY <1>1, <1>2, <1>8, <2>2 DEF IInv
<1>9. CASE snk' = t /\ down' = down /\ ~Reads(src)
  <2>1. ~Both(src, t, failed')
    BY <1>9 DEF Both, Reads, Same
  <2>2. Holds(src, t, up', down, failed')
    BY <1>1, <1>4, <2>1 DEF Holds, Same
  <2> QED BY <1>1, <1>2, <1>9, <2>2 DEF IInv
<1> QED BY <1>3, <1>7, <1>8, <1>9

-----------------------------------------------------------------------------
(* The steps of the source.                                                *)

LEMMA Parts ==
  ASSUME IInv
  PROVE  /\ cfg \in Setups /\ IsSource(src) /\ IsSink(snk)
         /\ up \in Seq(Items) /\ down \in Seq(Verdicts)
         /\ src.pc # "exit" => Quiet(src, down)
         /\ snk.pc # "exit" => Readable(snk, up)
         /\ Both(src, snk, failed) => Matched(src, snk, up, down) /\ Readable(snk, up)
BY DEF IInv, Holds, Both

LEMMA NodeNow ==
  ASSUME NEW x, IsSource(x), x.todo # << >>
  PROVE  /\ Head(x.todo) \in Listed /\ Tail(x.todo) \in Seq(Listed) /\ x.todo \in Seq(Listed)
         /\ Head(x.todo).kind = "file" => Head(x.todo).size \in Nat
         /\ Head(x.todo).kind = "dir" => Head(x.todo).of \in Seq(Nodes)
<1>1. x.todo \in Seq(Listed)
  BY DEF IsSource
<1>2. Head(x.todo) \in Listed /\ Tail(x.todo) \in Seq(Listed)
  BY <1>1, TailIs
<1> QED BY <1>1, <1>2, ScpAssumption DEF Listed

\* A line of error or a record, to a sink that is ready.
LEMMA ReadySends ==
  ASSUME NEW y, IsSink(y), NEW p \in Seq(Items), NEW e \in Items,
         e.kind \in {"error", "T", "C", "D", "E"},
         Readable(y, p), Ready(y, p), Lines(Rest(y, p))
  PROVE  /\ Rest(y, p) \in Seq(Items)
         /\ Ready(y, Append(p, e)) /\ Rest(y, Append(p, e)) = Append(Rest(y, p), e)
         /\ Readable(y, Append(p, e))
<1>1. Append(p, e) # << >>
  BY AppendIs
<1>2. CASE y.pc = "record"
  <2>1. Rest(y, p) = p /\ Rest(y, Append(p, e)) = Append(p, e)
    BY <1>2 DEF Rest
  <2>2. Records(Append(p, e))
    BY <2>1, RecordsSent
  <2> QED BY <1>2, <2>1, <2>2 DEF Ready, Readable
<1>3. CASE y.pc = "verdict" /\ y.wrerr = "DISPLAYED" /\ p # << >>
  <2>1. /\ Rest(y, p) = Tail(p) /\ Rest(y, Append(p, e)) = Tail(Append(p, e))
        /\ Tail(p) \in Seq(Items)
    BY <1>3, TailIs DEF Rest
  <2>2. Tail(Append(p, e)) = Append(Tail(p), e) /\ Head(Append(p, e)) = Head(p)
    BY <1>3, TailOfMore
  <2>3. Head(p).kind \in Verdicts
    BY <1>3 DEF Readable, Judged
  <2>4. Records(Append(Tail(p), e))
    BY <2>1, RecordsSent
  <2>5. Judged(Append(p, e), TRUE)
    BY <2>2, <2>3, <2>4 DEF Judged
  <2>6. Readable(y, Append(p, e))
    BY <1>3, <2>5 DEF Readable
  <2> QED BY <1>1, <1>3, <2>1, <2>2, <2>6 DEF Ready
<1> QED BY <1>2, <1>3 DEF Ready

\* The source is where it offers the next file.
LEMMA Offering ==
  ASSUME IInv, src.pc \in {"next", "second"}, Both(src, snk, failed)
  PROVE  down = << >> /\ Ready(snk, up) /\ Lines(Rest(snk, up))
<1>1. AtRecords(src, snk, up, down)
  BY Parts DEF Matched, Answered, AtData
<1>2. Lines(<< >>)
  BY NoneOf DEF Lines
<1> QED BY <1>1, <1>2 DEF AtRecords, Ready, Rest

\* A record is sent, and its answer awaited.
LEMMA RecordGoes ==
  ASSUME IInv, src.pc \in {"next", "second"}, NEW k \in {"T", "C", "D", "E"}, NEW item \in Items,
         item.kind = k, src.todo # << >>,
         k = "T" => Head(src.todo).kind \in {"file", "dir"},
         k = "C" => Head(src.todo).kind = "file" /\ item.size = Head(src.todo).size,
         k = "D" => Head(src.todo).kind = "dir",
         Sends(item, Awaits(src, k)), UNCHANGED <<cfg, snk, down>>, Same(failed')
  PROVE  IInv'
<1> DEFINE s == Awaits(src, k)
<1>1. IsSource(src) /\ IsSink(snk) /\ up \in Seq(Items) /\ Quiet(src, down)
  BY Parts
<1>2. s.pc = "answer" /\ s.to = k /\ s.todo = src.todo
  BY <1>1 DEF Awaits, IsSource
<1>3. IsSource(s)
  <2>1. s \in [pc : {"answer", "next", "second", "data", "exit"},
               to : {"start", "T", "C", "D", "data", "E"}, todo : Seq(Listed), left : Nat,
               haderr : BOOLEAN, errs : {s.errs}, status : {s.status}]
    BY <1>1 DEF Awaits, IsSource
  <2> HIDE DEF s
  <2> QED BY <1>2, <2>1 DEF IsSource
<1> HIDE DEF s
<1>4. Quiet(s, down)
  BY <1>1, <1>2, NoneOf DEF Quiet
<1>5. ASSUME Both(src, snk, failed)
      PROVE  Readable(snk, Append(up, item)) /\ Matched(s, snk, Append(up, item), down)
  <2>1. down = << >> /\ Ready(snk, up) /\ Lines(Rest(snk, up)) /\ Readable(snk, up)
    BY <1>5, Offering, Parts
  <2>2. /\ Rest(snk, up) \in Seq(Items)
        /\ Ready(snk, Append(up, item))
        /\ Rest(snk, Append(up, item)) = Append(Rest(snk, up), item)
        /\ Readable(snk, Append(up, item))
    BY <1>1, <2>1, ReadySends
  <2>3. /\ Append(Rest(snk, up), item) # << >>
        /\ Append(Rest(snk, up), item)[Len(Append(Rest(snk, up), item))] = item
    BY <2>2, AppendIs
  <2>4. Asks(s, Append(Rest(snk, up), item))
    BY <1>2, <2>3 DEF Asks
  <2>5. AtRecords(s, snk, Append(up, item), down)
    BY <1>2, <2>1, <2>2, <2>4 DEF AtRecords
  <2> QED BY <2>2, <2>5 DEF Matched
<1>6. src.pc # "exit" /\ s.pc # "exit" /\ Sends(item, s)
  BY <1>2 DEF s
<1> QED BY <1>3, <1>4, <1>5, <1>6, SourceSends

LEMMA LineIsItem ==
  ASSUME NEW k \in {"error", "T", "C", "D", "E", "data", "ok"}
  PROVE  Line(k) \in Items /\ Line(k).kind = k
BY DEF Line, Items

LEMMA SendsRecordHolds ==
  ASSUME IInv, src.pc \in {"next", "second"}, src.todo # << >>,
         Head(src.todo).kind \in {"file", "dir"}, SendsRecord(Head(src.todo)),
         UNCHANGED <<cfg, snk, down>>, Same(failed')
  PROVE  IInv'
<1> DEFINE node == Head(src.todo)
           item == [kind |-> "C", size |-> node.size]
<1>1. CASE node.kind = "dir"
  <2>1. Sends(Line("D"), Awaits(src, "D"))
    BY <1>1 DEF SendsRecord
  <2> QED BY <1>1, <2>1, LineIsItem, RecordGoes
<1>2. CASE node.kind = "file"
  <2>1. Sends(item, Awaits(src, "C"))
    BY <1>2 DEF SendsRecord
  <2>2. item \in Items /\ item.kind = "C" /\ item.size = node.size
    BY <1>2, Parts, NodeNow DEF Items
  <2> HIDE DEF item
  <2> QED BY <1>2, <2>1, <2>2, RecordGoes
<1> QED BY <1>1, <1>2

\* A file is left out, with a line that is not answered.
LEMMA LeavesOutHolds ==
  ASSUME IInv, src.pc = "next", src.todo # << >>, LeavesOut, UNCHANGED <<cfg, snk, down>>,
         Same(failed')
  PROVE  IInv'
<1>1. IsSource(src) /\ IsSink(snk) /\ up \in Seq(Items) /\ Quiet(src, down)
  BY Parts
<1>2. PICK e : e = src.errs + 1
  OBVIOUS
<1> DEFINE s == NextFile([src EXCEPT !.errs = e])
<1>3. Sends(Line("error"), s)
  BY <1>2 DEF LeavesOut
<1>4. s.pc = "next" /\ IsSource(s)
  BY <1>1, NodeNow DEF NextFile, IsSource
<1> HIDE DEF s
<1>5. Quiet(s, down)
  BY <1>1, <1>4, NoneOf DEF Quiet
<1>6. Line("error") \in Items /\ Line("error").kind = "error"
  BY LineIsItem
<1>7. ASSUME Both(src, snk, failed)
      PROVE  /\ Readable(snk, Append(up, Line("error")))
             /\ Matched(s, snk, Append(up, Line("error")), down)
  <2>1. down = << >> /\ Ready(snk, up) /\ Lines(Rest(snk, up)) /\ Readable(snk, up)
    BY <1>7, Offering, Parts
  <2>2. /\ Rest(snk, up) \in Seq(Items)
        /\ Ready(snk, Append(up, Line("error")))
        /\ Rest(snk, Append(up, Line("error"))) = Append(Rest(snk, up), Line("error"))
        /\ Readable(snk, Append(up, Line("error")))
    BY <1>1, <1>6, <2>1, ReadySends
  <2>3. Lines(Append(Rest(snk, up), Line("error")))
    BY <1>6, <2>1, <2>2, RecordsSent
  <2> QED BY <1>4, <2>1, <2>2, <2>3 DEF Matched, AtRecords
<1> QED BY <1>3, <1>4, <1>5, <1>6, <1>7, SourceSends

LEMMA OfferHolds ==
  ASSUME IInv, Offer
  PROVE  IInv'
<1>1. src.pc = "next" /\ src.todo # << >> /\ UNCHANGED <<cfg, snk, down>>
  BY DEF Offer
<1> DEFINE node == Head(src.todo)
<1>2. ASSUME NEW bad, failed' = Count(bad), node.kind \in {"file", "dir"},
             \/ LeavesOut
             \/ Sends(Line("T"), Awaits(src, "T"))
             \/ SendsRecord(node)
      PROVE  IInv'
  <2>1. Same(failed')
    BY <1>2, Counts
  <2>2. CASE LeavesOut
    BY <1>1, <2>1, <2>2, LeavesOutHolds
  <2>3. CASE Sends(Line("T"), Awaits(src, "T"))
    BY <1>1, <1>2, <2>1, <2>3, LineIsItem, RecordGoes
  <2>4. CASE SendsRecord(node)
    BY <1>1, <1>2, <2>1, <2>4, SendsRecordHolds
  <2> QED BY <1>2, <2>2, <2>3, <2>4
<1>3. ASSUME failed' = Count(TRUE), LeavesOut
      PROVE  IInv'
  BY <1>1, <1>3, Counts, LeavesOutHolds
<1>4. ASSUME Sends(Line("E"), Awaits(src, "E")), failed' = failed
      PROVE  IInv'
  BY <1>1, <1>4, Counts, LineIsItem, RecordGoes
<1> QED BY <1>2, <1>3, <1>4 DEF Offer

LEMMA OfferAfterTimesHolds ==
  ASSUME IInv, OfferAfterTimes
  PROVE  IInv'
<1>1. /\ src.pc = "second" /\ SendsRecord(Head(src.todo)) /\ failed' = failed
      /\ UNCHANGED <<cfg, snk, down>>
  BY DEF OfferAfterTimes
<1>2. src.todo # << >> /\ Head(src.todo).kind \in {"file", "dir"}
  BY <1>1, Parts DEF IsSource
<1> QED BY <1>1, <1>2, Counts, SendsRecordHolds

LEMMA SendDataHolds ==
  ASSUME IInv, SendData
  PROVE  IInv'
<1>1. PICK bad \in BOOLEAN :
        /\ src.pc = "data" /\ src.left > 0 /\ failed' = Count(bad)
        /\ Sends(Line("data"), [src EXCEPT !.left = @ - 1, !.haderr = @ \/ bad])
        /\ UNCHANGED <<cfg, snk, down>>
  BY DEF SendData, Fails
<1>2. IsSource(src) /\ IsSink(snk) /\ up \in Seq(Items) /\ Quiet(src, down)
  BY <1>1, Parts
<1> DEFINE n == src.left - 1
           h == src.haderr \/ bad
           s == [src EXCEPT !.left = n, !.haderr = h]
<1>4. s = [src EXCEPT !.left = @ - 1, !.haderr = @ \/ bad]
  OBVIOUS
<1>11. src.left \in Nat /\ n \in Nat /\ src.left = n + 1
  BY <1>1, <1>2 DEF IsSource
<1>3. h \in BOOLEAN /\ src.left = n + 1 /\ n \in Nat
  BY <1>11
<1> HIDE DEF n, h
<1>5. IsSource(s) /\ s.pc = "data" /\ s.left = n
  BY <1>1, <1>2, <1>3 DEF IsSource
<1>6. Sends(Line("data"), s)
  BY <1>1, <1>4
<1> HIDE DEF s
<1>7. Quiet(s, down)
  BY <1>1, <1>2, <1>5 DEF Quiet
<1>8. Line("data") \in Items /\ Line("data").kind = "data"
  BY LineIsItem
<1>9. ASSUME Both(src, snk, failed)
      PROVE  /\ Readable(snk, Append(up, Line("data")))
             /\ Matched(s, snk, Append(up, Line("data")), down)
  <2>1. /\ snk.pc = "data" /\ down = << >> /\ snk.left = Len(up) + src.left
        /\ \A i \in DOMAIN up : up[i].kind = "data"
    BY <1>1, <1>9, Parts DEF Matched, AtRecords, Answered, AtData
  <2>2. snk.left \in Nat /\ Len(up) \in Nat /\ Len(Append(up, Line("data"))) = Len(up) + 1
    BY <1>2, <1>8, AppendIs DEF IsSink
  <2>3. Len(up) < snk.left /\ snk.left = (Len(up) + 1) + n
    BY <1>3, <2>1, <2>2
  <2>4. /\ Blocks(Append(up, Line("data")), snk.left)
        /\ \A i \in DOMAIN Append(up, Line("data")) : Append(up, Line("data"))[i].kind = "data"
    BY <1>2, <1>8, <2>1, <2>2, <2>3, BlocksSent
  <2>5. AtData(s, snk, Append(up, Line("data")), down)
    BY <1>5, <2>1, <2>2, <2>3, <2>4 DEF AtData
  <2> QED BY <2>1, <2>4, <2>5 DEF Readable, Matched
<1>10. Same(failed')
  BY <1>1, Counts
<1> QED BY <1>1, <1>5, <1>6, <1>7, <1>8, <1>9, <1>10, SourceSends

\* What the source says of the data.
LEMMA VouchedFor ==
  ASSUME IInv, src.pc = "data", src.left = 0, NEW k \in Verdicts, NEW s, IsSource(s),
         s.pc = "answer", s.to = "data", Sends(Line(k), s), UNCHANGED <<cfg, snk, down>>,
         Same(failed')
  PROVE  IInv'
<1> DEFINE e == Line(k)
<1>1. IsSource(src) /\ IsSink(snk) /\ up \in Seq(Items) /\ Quiet(src, down)
  BY Parts
<1>2. e \in Items /\ e.kind = k
  BY LineIsItem DEF Verdicts
<1>3. Sends(e, s)
  OBVIOUS
<1> HIDE DEF e
<1>4. Quiet(s, down)
  BY <1>1 DEF Quiet
<1>5. ASSUME Both(src, snk, failed)
      PROVE  Readable(snk, Append(up, e)) /\ Matched(s, snk, Append(up, e), down)
  <2>1. \/ /\ snk.pc = "data" /\ down = << >> /\ snk.left = Len(up) + 0
           /\ \A i \in DOMAIN up : up[i].kind = "data"
        \/ snk.pc = "verdict" /\ up = << >> /\ down = Shown(snk)
    BY <1>5, Parts DEF Matched, AtRecords, Answered, AtData
  <2>2. snk.left \in Nat /\ Len(up) \in Nat /\ Len(Append(up, e)) = Len(up) + 1
    BY <1>1, <1>2, AppendIs DEF IsSink
  <2>3. CASE /\ snk.pc = "data" /\ down = << >> /\ snk.left = Len(up) + 0
             /\ \A i \in DOMAIN up : up[i].kind = "data"
    <3>1. snk.left = Len(up)
      BY <2>2, <2>3
    <3>2. Blocks(Append(up, e), snk.left)
      BY <1>1, <1>2, <2>2, <2>3, <3>1, BlocksSent
    <3>3. AtData(s, snk, Append(up, e), down)
      BY <2>2, <2>3, <3>1 DEF AtData
    <3> QED BY <2>3, <3>2, <3>3 DEF Readable, Matched
  <2>4. CASE snk.pc = "verdict" /\ up = << >> /\ down = Shown(snk)
    <3>1. Append(up, e) = <<e>>
      BY <2>4
    <3>2. Len(<<e>>) = 1 /\ Head(<<e>>) = e /\ Tail(<<e>>) = << >>
      OBVIOUS
    <3>3. Records(<< >>)
      BY NoneOf DEF Records
    <3>4. Judged(Append(up, e), snk.wrerr = "DISPLAYED")
      BY <1>2, <3>1, <3>2, <3>3 DEF Judged
    <3>5. AtData(s, snk, Append(up, e), down)
      BY <2>4, <3>1, <3>2 DEF AtData
    <3> QED BY <2>4, <3>4, <3>5 DEF Readable, Matched
  <2> QED BY <2>1, <2>3, <2>4
<1> QED BY <1>2, <1>3, <1>4, <1>5, SourceSends

LEMMA DataSentHolds ==
  ASSUME IInv, DataSent
  PROVE  IInv'
<1>1. src.pc = "data" /\ src.left = 0 /\ UNCHANGED <<cfg, snk, down>>
  BY DEF DataSent
<1>10. PICK bad : failed' = Count(bad)
  BY DEF DataSent
<1>11. Same(failed')
  BY <1>10, Counts
<1>2. IsSource(src)
  BY Parts
<1>3. PICK n : n = src.errs + 1
  OBVIOUS
<1> DEFINE s == Awaits([src EXCEPT !.errs = n], "data")
           t == Awaits(src, "data")
<1>4. \/ Sends(Line("error"), s)
      \/ Sends(Line("ok"), t)
  BY <1>3 DEF DataSent
<1> DEFINE Shape(x) == x \in [pc : {"answer", "next", "second", "data", "exit"},
                              to : {"start", "T", "C", "D", "data", "E"}, todo : Seq(Listed),
                              left : Nat, haderr : BOOLEAN, errs : {x.errs}, status : {x.status}]
<1>7. Shape(s) /\ s.pc = "answer" /\ s.to = "data" /\ s.todo = src.todo
  BY <1>2 DEF Awaits, IsSource
<1>8. Shape(t) /\ t.pc = "answer" /\ t.to = "data" /\ t.todo = src.todo
  BY <1>2 DEF Awaits, IsSource
<1>9. src.todo # << >>
  BY <1>1, <1>2 DEF IsSource
<1> HIDE DEF s, t
<1>5. IsSource(s) /\ s.pc = "answer" /\ s.to = "data"
  BY <1>7, <1>9 DEF IsSource
<1>6. IsSource(t) /\ t.pc = "answer" /\ t.to = "data"
  BY <1>8, <1>9 DEF IsSource
<1> QED BY <1>1, <1>4, <1>5, <1>6, <1>11, VouchedFor DEF Verdicts

\* The source has read an answer.
LEMMA SourceReads ==
  ASSUME IInv, NEW s, IsSource(s), src' = s, down' \in Seq(Verdicts),
         UNCHANGED <<cfg, snk, up, failed>>,
         s.pc # "exit" => Quiet(s, down'),
         Both(s, snk, failed) => Matched(s, snk, up, down')
  PROVE  IInv'
<1>1. Holds(s, snk, up, down', failed)
  BY DEF IInv, Holds
<1> QED BY <1>1 DEF IInv

LEMMA SourceEndsHolds ==
  ASSUME IInv, SourceEnds
  PROVE  IInv'
<1>1. PICK n : src' = Gone(src, n)
  BY DEF SourceEnds, Ended
<1>2. IsSource(Gone(src, n)) /\ Gone(src, n).pc = "exit"
  BY Parts, GoneIs
<1>3. UNCHANGED <<cfg, snk, up, down, failed>>
  BY DEF SourceEnds
<1> QED BY <1>1, <1>2, <1>3, Parts, SourceReads DEF Both

\* The answers a source that waits can find.
LEMMA AnswersAre ==
  ASSUME IInv, src.pc = "answer", down # << >>
  PROVE  /\ Head(down) \in Verdicts /\ Tail(down) \in Seq(Verdicts)
         /\ Tail(down) # << >> =>
              src.to = "C" /\ Head(down) = "ok" /\ Len(Tail(down)) = 1
<1>1. down \in Seq(Verdicts) /\ Quiet(src, down)
  BY Parts
<1>2. /\ Head(down) = down[1] /\ Head(down) \in Verdicts /\ Tail(down) \in Seq(Verdicts)
      /\ Len(Tail(down)) = Len(down) - 1 /\ Len(down) \in Nat \ {0}
  BY <1>1, TailIs
<1>3. Tail(down) # << >> => Len(Tail(down)) # 0
  BY <1>2, EmptyIs
<1> QED BY <1>1, <1>2, <1>3 DEF Quiet

LEMMA HeadIs ==
  ASSUME NEW S, NEW q \in Seq(S), q # << >>
  PROVE  /\ Tail(q) = << >> => q = <<Head(q)>>
         /\ \A z \in Seq(S) : q = <<Head(q)>> \o z => Tail(q) = z
<1>1. /\ Head(q) = q[1] /\ Head(q) \in S /\ Len(q) \in Nat \ {0}
      /\ Len(Tail(q)) = Len(q) - 1 /\ Tail(q) \in Seq(S)
      /\ \A i \in 1 .. Len(q) - 1 : Tail(q)[i] = q[i + 1]
  BY TailIs
<1>2. ASSUME Tail(q) = << >>
      PROVE  q = <<Head(q)>>
  <2>1. Len(q) = 1
    <3>1. Len(Tail(q)) = 0
      BY <1>1, <1>2, EmptyIs
    <3> DEFINE n == Len(q)
    <3>2. n \in Nat \ {0} /\ 0 = n - 1
      BY <1>1, <3>1, Zenon
    <3> HIDE DEF n
    <3>3. n = 1
      BY <3>2
    <3> QED BY <3>3 DEF n
  <2>2. <<Head(q)>> \in Seq(S) /\ Len(<<Head(q)>>) = 1 /\ <<Head(q)>>[1] = Head(q)
    BY <1>1, Single
  <2> QED BY <1>1, <2>1, <2>2, SeqEqual
<1>3. ASSUME NEW z \in Seq(S), q = <<Head(q)>> \o z
      PROVE  Tail(q) = z
  <2>1. /\ <<Head(q)>> \in Seq(S) /\ Len(<<Head(q)>>) = 1
    BY <1>1, Single
  <2>2. Len(q) = 1 + Len(z) /\ \A i \in 1 .. Len(z) : q[1 + i] = z[i]
    BY <1>3, <2>1
  <2> QED BY <1>1, <2>2, SeqEqual
<1> QED BY <1>2, <1>3

\* A refusal: the next file.
LEMMA RefusedHolds ==
  ASSUME IInv, src.pc = "answer", down # << >>, Head(down) = "error", down' = Tail(down),
         NEW e, src' = Refused([src EXCEPT !.errs = e]), UNCHANGED <<cfg, snk, up, failed>>
  PROVE  IInv'
<1>1. IsSource(src) /\ up \in Seq(Items) /\ IsSink(snk) /\ down \in Seq(Verdicts)
  BY Parts
<1>2. Tail(down) = << >>
  BY AnswersAre
<1> DEFINE r == [src EXCEPT !.errs = e]
<1>3. IsSource(r) /\ r.pc = "answer" /\ r.to = src.to /\ r.todo = src.todo
  BY <1>1 DEF IsSource
<1> HIDE DEF r
<1> DEFINE s == Refused(r)
<1>4. IsSource(s) /\ s.pc \in {"exit", "next"}
  <2>1. IsSource(Gone(r, 1)) /\ Gone(r, 1).pc = "exit"
    BY <1>3, GoneIs
  <2>2. r.todo # << >> => IsSource(NextFile(r)) /\ NextFile(r).pc = "next"
    BY <1>3, NodeNow DEF NextFile, IsSource
  <2>3. r.to = "start" => /\ IsSource([r EXCEPT !.pc = "next"])
                          /\ [r EXCEPT !.pc = "next"].pc = "next"
    BY <1>3 DEF IsSource
  <2>4. r.to # "start" => r.todo # << >>
    BY <1>3 DEF IsSource
  <2>5. CASE r.to = "start"
    BY <2>1, <2>3, <2>5 DEF Refused
  <2>6. CASE r.to # "start"
    BY <2>2, <2>4, <2>6 DEF Refused
  <2> QED BY <2>5, <2>6
<1>5. src' = s
  BY DEF r
<1> HIDE DEF s
<1>6. s.pc # "exit" => Quiet(s, << >>)
  BY <1>4, NoneOf DEF Quiet
<1>7. ASSUME Both(s, snk, failed)
      PROVE  Matched(s, snk, up, << >>)
  <2>1. Matched(src, snk, up, down)
    BY <1>7, Parts DEF Both
  <2>2. down = <<"error">>
    BY <1>1, <1>2, HeadIs
  <2>3. \/ up = << >> /\ snk.pc = "record"
        \/ snk.pc = "verdict" /\ Len(up) = 1 /\ Shown(snk) = <<"error">>
    <3>1. ~AtRecords(src, snk, up, down)
      BY DEF AtRecords
    <3>2. <<"ok">> \o Shown(snk) # down
      <4>1. Shown(snk) \in Seq(Verdicts)
        BY Single, NoneOf DEF Shown, Verdicts
      <4>2. (<<"ok">> \o Shown(snk))[1] = "ok" /\ <<"error">>[1] = "error"
        BY <4>1
      <4> QED BY <2>2, <4>2
    <3>3. <<"ok">> # down
      BY <2>2
    <3> QED BY <2>1, <2>2, <3>1, <3>2, <3>3 DEF Matched, Answered, AtData
  <2>4. Lines(<< >>)
    BY NoneOf DEF Lines
  <2>5. CASE up = << >> /\ snk.pc = "record"
    BY <1>4, <1>7, <2>4, <2>5 DEF Matched, AtRecords, Ready, Rest, Both
  <2>6. CASE snk.pc = "verdict" /\ Len(up) = 1 /\ Shown(snk) = <<"error">>
    <3>1. up # << >> /\ Tail(up) = << >>
      <4>1. Len(<< >>) = 0
        OBVIOUS
      <4>2. up # << >>
        BY <2>6, <4>1, SMTT(60)
      <4>3. Tail(up) \in Seq(Items) /\ Len(Tail(up)) = 0
        BY <1>1, <2>6, <4>2, TailIs
      <4> QED BY <4>2, <4>3, EmptyIs
    <3>2. snk.wrerr = "DISPLAYED"
      BY <2>6 DEF Shown
    <3> QED BY <1>4, <1>7, <2>4, <2>6, <3>1, <3>2 DEF Matched, AtRecords, Ready, Rest, Both
  <2> QED BY <2>3, <2>5, <2>6
<1> QED BY <1>1, <1>2, <1>4, <1>5, <1>6, <1>7, NoneOf, SourceReads

\* Where the sink is that has accepted.
LEMMA AcceptedAt ==
  ASSUME IInv, Both(src, snk, failed), src.pc = "answer", down # << >>, Head(down) = "ok"
  PROVE  /\ up = << >>
         /\ \/ src.to # "C" /\ snk.pc = "record"
            \/ src.to = "C" /\ snk.pc = "data" /\ snk.left = Head(src.todo).size /\ down = <<"ok">>
            \/ /\ src.to = "C" /\ snk.pc = "verdict" /\ Head(src.todo).size = 0
               /\ down = <<"ok">> \o Shown(snk)
<1>1. Matched(src, snk, up, down)
  BY Parts
<1>2. ~AtRecords(src, snk, up, down)
  BY DEF AtRecords
<1>3. down # <<"error">> /\ down # Shown(snk)
  BY DEF Shown
<1> QED BY <1>1, <1>2, <1>3 DEF Matched, Answered, AtData

\* The source goes on to a file, or to the record after the times.
LEMMA GoesOn ==
  ASSUME IInv, src.pc = "answer", down # << >>, Head(down) = "ok", down' = Tail(down),
         src.to # "C", NEW s, IsSource(s), s.pc \in {"next", "second"}, src' = s,
         UNCHANGED <<cfg, snk, up, failed>>
  PROVE  IInv'
<1>1. Tail(down) = << >> /\ down' \in Seq(Verdicts)
  BY AnswersAre
<1>2. Quiet(s, down')
  BY <1>1, NoneOf DEF Quiet
<1>3. ASSUME Both(s, snk, failed)
      PROVE  Matched(s, snk, up, down')
  <2>1. up = << >> /\ snk.pc = "record"
    BY <1>3, AcceptedAt DEF Both
  <2>2. Lines(<< >>)
    BY NoneOf DEF Lines
  <2> QED BY <1>1, <2>1, <2>2 DEF Matched, AtRecords, Ready, Rest
<1> QED BY <1>1, <1>2, <1>3, SourceReads

LEMMA AcceptedFile ==
  ASSUME IInv, src.pc = "answer", down # << >>, Head(down) = "ok", down' = Tail(down),
         src.to = "C", src' = Accepted(src), UNCHANGED <<cfg, snk, up, failed>>
  PROVE  IInv'
<1>1. IsSource(src) /\ down \in Seq(Verdicts) /\ IsSink(snk)
  BY Parts
<1>2. src.todo # << >> /\ Head(src.todo).kind = "file" /\ Head(src.todo).size \in Nat
  BY <1>1, NodeNow DEF IsSource
<1> DEFINE n == Head(src.todo).size
           s == [src EXCEPT !.pc = "data", !.left = n, !.haderr = FALSE]
<1>3. src' = s
  BY DEF Accepted
<1>4. IsSource(s) /\ s.pc = "data" /\ s.left = n
  BY <1>1, <1>2 DEF IsSource
<1> HIDE DEF s
<1>5. Tail(down) \in Seq(Verdicts) /\ (Tail(down) = << >> \/ Len(Tail(down)) = 1)
  BY AnswersAre
<1>6. Quiet(s, Tail(down))
  BY <1>4, <1>5, NoneOf DEF Quiet
<1>7. ASSUME Both(s, snk, failed)
      PROVE  Matched(s, snk, up, Tail(down))
  <2>1. /\ up = << >>
        /\ \/ snk.pc = "data" /\ snk.left = n /\ down = <<"ok">>
           \/ snk.pc = "verdict" /\ n = 0 /\ down = <<"ok">> \o Shown(snk)
    BY <1>7, AcceptedAt DEF Both
  <2>2. CASE snk.pc = "data" /\ snk.left = n /\ down = <<"ok">>
    <3>1. Tail(<<"ok">>) = << >>
      OBVIOUS
    <3>2. Len(<< >>) + n = n /\ DOMAIN << >> = {}
      BY <1>2, NoneOf
    <3>3. AtData(s, snk, << >>, << >>)
      BY <1>4, <2>2, <3>2 DEF AtData
    <3> QED BY <2>1, <2>2, <3>1, <3>3 DEF Matched
  <2>3. CASE snk.pc = "verdict" /\ n = 0 /\ down = <<"ok">> \o Shown(snk)
    <3>1. Shown(snk) \in Seq(Verdicts)
      BY Single, NoneOf DEF Shown, Verdicts
    <3>2. Tail(down) = Shown(snk)
      BY <1>1, <2>3, <3>1, HeadIs
    <3> QED BY <1>4, <2>1, <2>3, <3>2 DEF Matched, AtData
  <2> QED BY <2>1, <2>2, <2>3
<1> QED BY <1>3, <1>4, <1>5, <1>6, <1>7, SourceReads

LEMMA AcceptedHolds ==
  ASSUME IInv, src.pc = "answer", down # << >>, Head(down) = "ok", down' = Tail(down),
         src' = Accepted(src), UNCHANGED <<cfg, snk, up, failed>>
  PROVE  IInv'
<1>1. IsSource(src) /\ src.to \in {"start", "T", "C", "D", "data", "E"}
  BY Parts DEF IsSource
<1>2. CASE src.to = "start"
  <2>1. Accepted(src) = [src EXCEPT !.pc = "next"]
    BY <1>2 DEF Accepted
  <2>2. IsSource([src EXCEPT !.pc = "next"]) /\ [src EXCEPT !.pc = "next"].pc = "next"
    BY <1>1 DEF IsSource
  <2> QED BY <1>2, <2>1, <2>2, GoesOn
<1>3. CASE src.to = "T"
  <2>1. Accepted(src) = [src EXCEPT !.pc = "second"]
    BY <1>3 DEF Accepted
  <2>2. IsSource([src EXCEPT !.pc = "second"]) /\ [src EXCEPT !.pc = "second"].pc = "second"
    BY <1>1, <1>3 DEF IsSource
  <2> QED BY <1>3, <2>1, <2>2, GoesOn
<1>4. CASE src.to = "D"
  <2> DEFINE node == Head(src.todo)
             todo == node.of \o <<[kind |-> "leave"]>> \o Tail(src.todo)
             s == [src EXCEPT !.pc = "next", !.todo = todo]
  <2>1. src' = s
    BY <1>4 DEF Accepted
  <2>2. node.of \in Seq(Nodes) /\ Tail(src.todo) \in Seq(Listed)
    BY <1>1, <1>4, NodeNow DEF IsSource
  <2>3. node.of \in Seq(Listed)
    BY <2>2 DEF Listed
  <2>4. <<[kind |-> "leave"]>> \in Seq(Listed)
    BY Single DEF Listed
  <2>5. todo \in Seq(Listed)
    BY <2>2, <2>3, <2>4
  <2> HIDE DEF todo
  <2>6. IsSource(s) /\ s.pc = "next"
    BY <1>1, <2>5 DEF IsSource
  <2> QED BY <1>4, <2>1, <2>6, GoesOn
<1>5. CASE src.to \in {"data", "E"}
  <2>1. src' = NextFile(src)
    BY <1>5 DEF Accepted
  <2>2. src.todo # << >> /\ Tail(src.todo) \in Seq(Listed)
    BY <1>1, <1>5, NodeNow DEF IsSource
  <2>3. IsSource(NextFile(src)) /\ NextFile(src).pc = "next"
    BY <1>1, <2>2 DEF NextFile, IsSource
  <2> QED BY <1>5, <2>1, <2>3, GoesOn
<1> QED BY <1>1, <1>2, <1>3, <1>4, <1>5, AcceptedFile

LEMMA AnswerHolds ==
  ASSUME IInv, Answer
  PROVE  IInv'
<1>1. src.pc = "answer" /\ UNCHANGED <<cfg, snk, up, failed>>
  BY DEF Answer
<1>2. CASE /\ down # << >> /\ down' = Tail(down)
           /\ src' = IF Head(down) = "ok" THEN Accepted(src)
                     ELSE Refused([src EXCEPT !.errs = @ + 1])
  <2>1. Head(down) \in Verdicts
    BY <1>1, <1>2, AnswersAre
  <2>2. CASE Head(down) = "ok"
    BY <1>1, <1>2, <2>2, AcceptedHolds
  <2>3. CASE Head(down) = "error"
    <3>1. PICK e : e = src.errs + 1
      OBVIOUS
    <3>2. src' = Refused([src EXCEPT !.errs = e])
      BY <1>2, <2>3, <3>1
    <3> QED BY <1>1, <1>2, <2>3, <3>2, RefusedHolds
  <2> QED BY <2>1, <2>2, <2>3 DEF Verdicts
<1>3. CASE src' = Gone(src, 1) /\ down' = down
  <2>1. IsSource(Gone(src, 1)) /\ Gone(src, 1).pc = "exit" /\ down \in Seq(Verdicts)
    BY Parts, GoneIs
  <2> QED BY <1>1, <1>3, <2>1, SourceReads DEF Both
<1> QED BY <1>2, <1>3 DEF Answer

LEMMA SourceHolds ==
  ASSUME IInv, Source
  PROVE  IInv'
BY OfferHolds, OfferAfterTimesHolds, SendDataHolds, DataSentHolds, AnswerHolds, SourceEndsHolds
   DEF Source

-----------------------------------------------------------------------------
(* The connection is lost.                                                 *)

LEMMA QuietCut ==
  ASSUME NEW x, NEW q \in Seq(Verdicts), NEW m \in 0 .. Len(q), Quiet(x, q)
  PROVE  SubSeq(q, 1, m) \in Seq(Verdicts) /\ Quiet(x, SubSeq(q, 1, m))
<1> DEFINE r == SubSeq(q, 1, m)
<1>1. /\ r \in Seq(Verdicts) /\ Len(r) = m /\ Len(q) \in Nat /\ m <= Len(q)
      /\ \A i \in 1 .. m : r[i] = q[i]
  OBVIOUS
<1> HIDE DEF r
<1>2. q = << >> => r = << >>
  BY <1>1, EmptyIs
<1>3. Quiet(x, r)
  BY <1>1, <1>2 DEF Quiet
<1> QED BY <1>1, <1>3 DEF r

LEMMA ConnectionLostHolds ==
  ASSUME IInv, ConnectionLost
  PROVE  IInv'
<1>1. PICK n \in 0 .. Len(up), m \in 0 .. Len(down) :
        up' = SubSeq(up, 1, n) /\ down' = SubSeq(down, 1, m)
  BY DEF ConnectionLost
<1>2. failed' = [failed EXCEPT !.cut = TRUE] /\ cfg' = cfg /\ src' = src /\ snk' = snk
  BY DEF ConnectionLost
<1>3. /\ IsSource(src) /\ IsSink(snk) /\ up \in Seq(Items) /\ down \in Seq(Verdicts)
      /\ failed \in [calls : {failed.calls}, cut : BOOLEAN, astray : {FALSE}]
      /\ (src.pc # "exit" => Quiet(src, down)) /\ (snk.pc # "exit" => Readable(snk, up))
  BY DEF IInv, Holds
<1>4. failed' \in [calls : {failed'.calls}, cut : BOOLEAN, astray : {FALSE}] /\ failed'.cut
  BY <1>2, <1>3
<1>5. up' \in Seq(Items) /\ down' \in Seq(Verdicts)
  BY <1>1, <1>3
<1>6. snk.pc # "exit" => Readable(snk, up')
  BY <1>1, <1>3, ReadableCut
<1>7. src.pc # "exit" => Quiet(src, down')
  BY <1>1, <1>3, QuietCut
<1>8. Holds(src, snk, up', down', failed')
  BY <1>3, <1>4, <1>5, <1>6, <1>7 DEF Holds, Both
<1> QED BY <1>2, <1>8 DEF IInv

LEMMA Begins ==
  ASSUME Init
  PROVE  IInv
<1>1. /\ cfg \in Setups /\ cfg.files \in Seq(Nodes) /\ up = << >> /\ down = << >>
  BY ScpAssumption DEF Init
<1>2. cfg.files \in Seq(Listed)
  BY <1>1 DEF Listed
<1>3. IsSource(src) /\ src.pc = "answer" /\ src.to = "start"
  BY <1>2 DEF Init, IsSource
<1>4. PICK n : snk = [pc |-> "start", setimes |-> <<FALSE>>, left |-> 0, wrerr |-> "NO",
                      errs |-> n, status |-> 0]
  BY DEF Init
<1>5. IsSink(snk) /\ snk.pc = "start"
  BY <1>4 DEF IsSink
<1>6. failed \in [calls : {failed.calls}, cut : BOOLEAN, astray : {FALSE}]
  BY DEF Init
<1>7. Quiet(src, << >>) /\ Readable(snk, << >>) /\ Matched(src, snk, << >>, << >>)
  BY <1>3, <1>5, NoneOf DEF Quiet, Readable, Matched, Answered
<1> QED BY <1>1, <1>3, <1>5, <1>6, <1>7, NoneOf DEF IInv, Holds

-----------------------------------------------------------------------------
(* The steps of the sink, when the two calls that are answered for once    *)
(* too often do not fail.                                                  *)

Reported == {"mode", "dirtimes"} \cap Failures = {}

\* The sink goes on without a word.
LEMMA SinkSilent ==
  ASSUME IInv, NEW s, IsSink(s), snk' = s, UNCHANGED <<cfg, src, down>>, Same(failed'),
         up' \in Seq(Items), s.pc # "exit" => Readable(s, up'),
         Both(src, snk, failed) /\ s.pc # "exit" => Matched(src, s, up', down),
         snk.pc # "exit"
  PROVE  IInv'
<1>1. Both(src, s, failed') => Both(src, snk, failed)
  BY DEF Both, Same
<1>2. Holds(src, s, up', down, failed')
  BY <1>1 DEF IInv, Holds, Both, Same
<1> QED BY <1>2 DEF IInv

LEMMA OneAnswer ==
  ASSUME NEW v \in Verdicts
  PROVE  /\ <<v>> \in Seq(Verdicts) /\ << >> \o <<v>> = <<v>>
         /\ \A x : x.pc = "answer" => Quiet(x, <<v>>)
<1>1. <<v>> \in Seq(Verdicts) /\ << >> \o <<v>> = <<v>> /\ Len(<<v>>) = 1
  OBVIOUS
<1> QED BY <1>1 DEF Quiet

LEMMA NoAnswer ==
  ASSUME NEW q \in Seq(Verdicts)
  PROVE  q \o << >> = q /\ << >> \in Seq(Verdicts)
OBVIOUS

LEMMA TimesAside ==
  ASSUME NEW y, IsSink(y), NEW b
  PROVE  /\ IsSink(WithTimes(y, b)) /\ WithTimes(y, b).pc = y.pc /\ WithTimes(y, b).wrerr = y.wrerr
         /\ IsSink(Left(y)) /\ Left(y).pc = y.pc
<1>1. PICK t : t = [y.setimes EXCEPT ![Len(y.setimes)] = b]
  OBVIOUS
<1>2. WithTimes(y, b) = [y EXCEPT !.setimes = t]
  BY <1>1 DEF WithTimes
<1>3. PICK u : u = SubSeq(y.setimes, 1, Len(y.setimes) - 1)
  OBVIOUS
<1>4. Left(y) = [y EXCEPT !.setimes = u]
  BY <1>3 DEF Left
<1>5. \A z : LET w == [y EXCEPT !.setimes = z] IN IsSink(w) /\ w.pc = y.pc /\ w.wrerr = y.wrerr
  BY DEF IsSink
<1> QED BY <1>2, <1>4, <1>5

LEMMA EndedIs ==
  ASSUME NEW y, IsSink(y)
  PROVE  IsSink(Ended(y)) /\ Ended(y).pc = "exit"
BY GoneIs DEF Ended

LEMMA SinkStartsHolds ==
  ASSUME IInv, SinkStarts
  PROVE  IInv'
<1>1. PICK bad : /\ snk.pc = "start" /\ failed' = Count(bad)
                 /\ \/ Answers(<<"error">>, Gone(snk, 1))
                    \/ Answers(<<"ok">>, InRecords(snk))
                 /\ cfg' = cfg /\ src' = src /\ up' = up
  BY DEF SinkStarts
<1>2. IsSink(snk) /\ up = << >> /\ up \in Seq(Items) /\ down \in Seq(Verdicts)
  BY <1>1, Parts DEF Readable
<1>3. Same(failed')
  BY <1>1, Counts
<1>4. Both(src, snk, failed) =>
        src.pc = "answer" /\ src.to \in {"start", "D"} /\ down = << >>
  BY <1>1, Parts DEF Matched, AtRecords, Answered, AtData, Ready
<1>5. \A v \in Verdicts : Both(src, snk, failed) => Quiet(src, down \o <<v>>)
  BY <1>4, OneAnswer
<1>6. CASE Answers(<<"error">>, Gone(snk, 1))
  <2>1. IsSink(Gone(snk, 1)) /\ Gone(snk, 1).pc = "exit"
    BY <1>2, GoneIs
  <2>2. <<"error">> \in Seq(Verdicts) /\ "error" \in Verdicts
    BY OneAnswer DEF Verdicts
  <2> QED BY <1>1, <1>2, <1>3, <1>5, <1>6, <2>1, <2>2, SinkAnswers
<1>7. CASE Answers(<<"ok">>, InRecords(snk))
  <2> DEFINE s == InRecords(snk)
  <2>1. IsSink(s) /\ s.pc = "record"
    BY <1>2 DEF InRecords, IsSink
  <2>2. <<"ok">> \in Seq(Verdicts) /\ "ok" \in Verdicts /\ << >> \o <<"ok">> = <<"ok">>
    BY OneAnswer DEF Verdicts
  <2>3. Answers(<<"ok">>, s)
    BY <1>7
  <2> HIDE DEF s
  <2>4. Readable(s, up')
    BY <1>1, <1>2, <2>1, NoneOf DEF Readable, Records
  <2>5. Both(src, snk, failed) => Matched(src, s, up', down \o <<"ok">>)
    BY <1>1, <1>2, <1>4, <2>1, <2>2 DEF Matched, Answered
  <2> QED BY <1>1, <1>2, <1>3, <1>5, <2>1, <2>2, <2>3, <2>4, <2>5, SinkAnswers
<1> QED BY <1>1, <1>6, <1>7

\* A record but a line of error is the last item, and the one the source waits for.
LEMMA RecordIs ==
  ASSUME IInv, snk.pc = "record", up # << >>, Head(up).kind # "error"
  PROVE  /\ Tail(up) = << >> /\ Head(up).kind \in {"T", "C", "D", "E"}
         /\ Both(src, snk, failed) =>
              /\ src.pc = "answer" /\ src.to = Head(up).kind /\ down = << >>
              /\ src.to = "C" => Head(up).size = Head(src.todo).size
<1>1. Records(up) /\ up \in Seq(Items)
  BY Parts DEF Readable
<1>2. Tail(up) = << >> /\ Head(up).kind \in {"T", "C", "D", "E"}
  BY <1>1, RecordsTaken
<1>3. Head(up) = up[1] /\ up[Len(up)] = up[1]
  <2>1. Head(up) = up[1] /\ Len(Tail(up)) = Len(up) - 1 /\ Len(up) \in Nat /\ Len(up) # 0
    BY <1>1, TailIs
  <2>2. Len(Tail(up)) = 0
    BY <1>2, NoneOf
  <2> DEFINE n == Len(up)
  <2>3. n \in Nat /\ 0 = n - 1
    BY <2>1, <2>2, Zenon
  <2> HIDE DEF n
  <2>4. n = 1
    BY <2>3
  <2> QED BY <2>1, <2>4 DEF n
<1>4. ASSUME Both(src, snk, failed)
      PROVE  /\ src.pc = "answer" /\ src.to = Head(up).kind /\ down = << >>
             /\ src.to = "C" => Head(up).size = Head(src.todo).size
  <2>1. Matched(src, snk, up, down) /\ Rest(snk, up) = up
    BY <1>4, Parts DEF Rest
  <2>2. ~Lines(up)
    BY <1>1, RecordsTaken
  <2>3. src.pc = "answer" /\ down = << >> /\ Asks(src, up)
    BY <2>1, <2>2 DEF Matched, AtRecords, Answered, AtData
  <2> QED BY <1>3, <2>3 DEF Asks
<1> QED BY <1>2, <1>4

\* It is answered.
LEMMA RecordAnswered ==
  ASSUME IInv, snk.pc = "record", up # << >>, Head(up).kind # "error", up' = Tail(up),
         UNCHANGED <<cfg, src>>, Same(failed'), NEW v \in Verdicts, NEW s, IsSink(s),
         Answers(<<v>>, s),
         \/ s.pc = "exit"
         \/ s.pc = "record" /\ (v = "ok" => Head(up).kind # "C")
         \/ s.pc = "data" /\ v = "ok" /\ Head(up).kind = "C" /\ s.left = Head(up).size
  PROVE  IInv'
<1>1. up \in Seq(Items) /\ down \in Seq(Verdicts) /\ IsSink(snk)
  BY Parts
<1>2. up' = << >> /\ up' \in Seq(Items)
  BY RecordIs, NoneOf
<1>3. Both(src, snk, failed) =>
        /\ src.pc = "answer" /\ src.to = Head(up).kind /\ down = << >>
        /\ src.to = "C" => Head(up).size = Head(src.todo).size
  BY RecordIs
<1>4. /\ <<v>> \in Seq(Verdicts) /\ << >> \o <<v>> = <<v>>
      /\ Both(src, snk, failed) => Quiet(src, down \o <<v>>)
  BY <1>3, OneAnswer
<1>5. s.pc # "exit" => Readable(s, up')
  <2>1. Records(<< >>)
    BY NoneOf DEF Records
  <2>2. s.left \in Nat => Blocks(<< >>, s.left)
    BY NoneOf DEF Blocks
  <2> QED BY <1>2, <2>1, <2>2 DEF Readable, IsSink
<1>6. Both(src, snk, failed) /\ s.pc # "exit" => Matched(src, s, up', down \o <<v>>)
  <2>1. v = "ok" \/ v = "error"
    BY DEF Verdicts
  <2> QED BY <1>2, <1>3, <1>4, <2>1 DEF Matched, Answered
<1> QED BY <1>1, <1>2, <1>4, <1>5, <1>6, SinkAnswers

\* A line of error.
LEMMA ErrorLineHolds ==
  ASSUME IInv, snk.pc = "record", up # << >>, Head(up).kind = "error", up' = Tail(up),
         ErrorLine, UNCHANGED <<cfg, src>>
  PROVE  IInv'
<1>1. /\ up \in Seq(Items) /\ down \in Seq(Verdicts) /\ IsSink(snk) /\ Records(up)
      /\ (src.pc # "exit" => Quiet(src, down))
  BY Parts DEF Readable
<1>2. PICK n : n = snk.errs + 1
  OBVIOUS
<1> DEFINE s == [snk EXCEPT !.errs = n]
<1>3. Answers(<< >>, s) /\ Same(failed')
  BY <1>2, Counts DEF ErrorLine
<1>4. IsSink(s) /\ s.pc = "record"
  BY <1>1 DEF IsSink
<1> HIDE DEF s
<1>5. Records(Tail(up)) /\ Tail(up) \in Seq(Items) /\ (Lines(up) => Lines(Tail(up)))
  BY <1>1, RecordsTaken, TailIs
<1>6. down \o << >> = down /\ << >> \in Seq(Verdicts)
  BY <1>1, NoAnswer
<1>7. ASSUME Both(src, snk, failed)
      PROVE  Matched(src, s, up', down)
  <2>1. Matched(src, snk, up, down) /\ Rest(snk, up) = up
    BY <1>7, Parts DEF Rest
  <2>2. Rest(s, Tail(up)) = Tail(up) /\ Ready(s, Tail(up))
    BY <1>4 DEF Rest, Ready
  <2>3. \/ src.pc = "next" /\ down = << >> /\ Lines(up)
        \/ src.pc = "answer" /\ down = << >> /\ Asks(src, up)
    BY <2>1 DEF Matched, AtRecords, Answered, AtData
  <2>4. ASSUME Asks(src, up)
        PROVE  Asks(src, Tail(up))
    <3>1. /\ Head(up) = up[1] /\ Len(up) \in Nat \ {0} /\ Len(Tail(up)) = Len(up) - 1
          /\ \A i \in 1 .. Len(up) - 1 : Tail(up)[i] = up[i + 1]
      BY <1>1, TailIs
    <3>2. up[Len(up)].kind # "error"
      BY <2>4 DEF Asks
    <3> DEFINE len == Len(up)
    <3>3. len \in Nat \ {0} /\ len # 1
      BY <3>1, <3>2
    <3> HIDE DEF len
    <3>4. len - 1 \in 1 .. len - 1 /\ (len - 1) + 1 = len /\ len - 1 # 0
      BY <3>3
    <3>5. Tail(up)[Len(Tail(up))] = up[Len(up)]
      BY <3>1, <3>4 DEF len
    <3>6. Tail(up) # << >>
      BY <1>5, <3>1, <3>4, EmptyIs DEF len
    <3> QED BY <2>4, <3>5, <3>6 DEF Asks
  <2>5. AtRecords(src, s, Tail(up), down)
    BY <1>5, <2>2, <2>3, <2>4 DEF AtRecords
  <2> QED BY <2>5 DEF Matched
<1>8. Readable(s, up')
  BY <1>4, <1>5 DEF Readable
<1>9. Both(src, snk, failed) => Quiet(src, down)
  BY <1>1 DEF Both
<1>10. UNCHANGED <<cfg, src>> /\ snk.pc # "exit" /\ up' \in Seq(Items)
  BY <1>5
<1>11. Both(src, snk, failed) =>
         Quiet(src, down \o << >>) /\ (s.pc # "exit" => Matched(src, s, up', down \o << >>))
  BY <1>6, <1>7, <1>9
<1> QED BY <1>3, <1>4, <1>6, <1>8, <1>10, <1>11, SinkAnswers

\* The sink returns: it answers an E, or has found the end of the connection.
LEMMA ReturnedTo ==
  ASSUME IInv, Reported, NEW items \in Seq(Verdicts), Returned(items)
  PROVE  /\ Same(failed')
         /\ \E s : /\ Answers(items, s) /\ IsSink(s)
                   /\ s.pc = "exit" \/ s.pc = snk.pc
<1>1. IsSink(snk)
  BY Parts
<1>2. CASE Answers(items, Ended(snk)) /\ UNCHANGED failed
  BY <1>1, <1>2, EndedIs, Counts
<1>3. ASSUME NEW bad, bad = FALSE, failed' = Count(bad),
             Answers(items \o (IF bad THEN <<"error">> ELSE << >>), WithTimes(Left(snk), FALSE))
      PROVE  /\ Same(failed')
             /\ \E s : /\ Answers(items, s) /\ IsSink(s)
                       /\ s.pc = "exit" \/ s.pc = snk.pc
  <2> DEFINE s == WithTimes(Left(snk), FALSE)
  <2>1. IsSink(s) /\ s.pc = snk.pc
    BY <1>1, TimesAside
  <2> HIDE DEF s
  <2>2. Answers(items \o << >>, s)
    BY <1>3 DEF s
  <2>3. items \o << >> = items
    BY NoAnswer
  <2>4. Answers(items, s)
    BY <2>2, <2>3
  <2>5. Same(failed')
    BY <1>3, Counts
  <2> QED BY <2>1, <2>4, <2>5
<1>4. \A bad \in {FALSE} \cup {b \in Fails("dirtimes") : SetTimes(Left(snk))} : bad = FALSE
  BY DEF Fails, Reported
<1> QED BY <1>2, <1>3, <1>4 DEF Returned

LEMMA EntersHolds ==
  ASSUME IInv, snk.pc = "record", up # << >>, Head(up).kind = "D", up' = Tail(up), Enters,
         UNCHANGED <<cfg, src>>
  PROVE  IInv'
<1>1. up \in Seq(Items) /\ down \in Seq(Verdicts) /\ IsSink(snk)
  BY Parts
<1>2. PICK bad : /\ failed' = Count(bad)
                 /\ \/ Answers(<<"error">>, snk)
                    \/ Answers(<< >>, Entered(snk))
  BY DEF Enters
<1>3. Same(failed')
  BY <1>2, Counts
<1>4. CASE Answers(<<"error">>, snk)
  BY <1>1, <1>3, <1>4, RecordAnswered DEF Verdicts
<1>5. CASE Answers(<< >>, Entered(snk))
  <2>1. PICK t : t = Append(snk.setimes, FALSE)
    OBVIOUS
  <2> DEFINE s == [snk EXCEPT !.pc = "start", !.setimes = t]
  <2>2. Answers(<< >>, s)
    BY <1>5, <2>1 DEF Entered
  <2>3. IsSink(s) /\ s.pc = "start"
    BY <1>1 DEF IsSink
  <2> HIDE DEF s
  <2>4. up' = << >> /\ up' \in Seq(Items)
    BY RecordIs, NoneOf
  <2>5. down \o << >> = down /\ << >> \in Seq(Verdicts)
    BY <1>1, NoAnswer
  <2>6. Both(src, snk, failed) => /\ src.pc = "answer" /\ src.to = "D" /\ down = << >>
                                  /\ Quiet(src, down)
    BY RecordIs, Parts DEF Both
  <2>7. Readable(s, up')
    BY <2>3, <2>4 DEF Readable
  <2>8. Both(src, snk, failed) =>
          Quiet(src, down \o << >>) /\ (s.pc # "exit" => Matched(src, s, up', down \o << >>))
    BY <2>3, <2>4, <2>5, <2>6 DEF Matched, Answered
  <2> QED BY <1>3, <2>2, <2>3, <2>4, <2>5, <2>7, <2>8, SinkAnswers
<1> QED BY <1>2, <1>4, <1>5

LEMMA CreatesHolds ==
  ASSUME IInv, snk.pc = "record", up # << >>, Head(up).kind = "C", up' = Tail(up),
         Creates(Head(up).size), UNCHANGED <<cfg, src>>
  PROVE  IInv'
<1>1. up \in Seq(Items) /\ IsSink(snk)
  BY Parts
<1> DEFINE n == Head(up).size
           s == [snk EXCEPT !.pc = "data", !.left = n, !.wrerr = "NO"]
<1>2. PICK bad : /\ failed' = Count(bad)
                 /\ \/ Answers(<<"error">>, snk)
                    \/ Answers(<<"ok">>, s)
  BY DEF Creates
<1>3. Same(failed')
  BY <1>2, Counts
<1>8. Head(up) \in Items
  BY <1>1, TailIs
<1>4. n \in Nat
  BY <1>8 DEF Items
<1>5. IsSink(s) /\ s.pc = "data" /\ s.left = n
  BY <1>1, <1>4 DEF IsSink
<1> HIDE DEF s
<1>6. CASE Answers(<<"error">>, snk)
  BY <1>1, <1>3, <1>6, RecordAnswered DEF Verdicts
<1>7. CASE Answers(<<"ok">>, s)
  BY <1>3, <1>5, <1>7, RecordAnswered DEF Verdicts
<1> QED BY <1>2, <1>6, <1>7

LEMMA ReadRecordHolds ==
  ASSUME IInv, Reported, ReadRecord
  PROVE  IInv'
<1>1. snk.pc = "record" /\ up # << >> /\ up' = Tail(up) /\ UNCHANGED <<cfg, src>>
  BY DEF ReadRecord
<1>2. IsSink(snk) /\ up \in Seq(Items) /\ Records(up)
  BY <1>1, Parts DEF Readable
<1>3. Head(up).kind \in {"error", "T", "C", "D", "E"}
  BY <1>1, <1>2, RecordsTaken
<1>4. CASE Head(up).kind = "error" /\ ErrorLine
  BY <1>1, <1>4, ErrorLineHolds
<1>5. CASE Head(up).kind = "E" /\ Returned(<<"ok">>)
  <2>1. <<"ok">> \in Seq(Verdicts) /\ "ok" \in Verdicts
    BY OneAnswer DEF Verdicts
  <2>2. PICK s : /\ Answers(<<"ok">>, s) /\ IsSink(s)
                 /\ s.pc = "exit" \/ s.pc = snk.pc
    BY <1>5, <2>1, ReturnedTo
  <2>3. Same(failed')
    BY <1>5, <2>1, ReturnedTo
  <2> QED BY <1>1, <1>5, <2>1, <2>2, <2>3, RecordAnswered
<1>6. CASE Head(up).kind = "T" /\ TakesTimes
  <2> DEFINE s == WithTimes(snk, TRUE)
  <2>1. Answers(<<"ok">>, s) /\ Same(failed')
    BY <1>6, Counts DEF TakesTimes
  <2>2. IsSink(s) /\ s.pc = "record"
    BY <1>1, <1>2, TimesAside
  <2> HIDE DEF s
  <2> QED BY <1>1, <1>6, <2>1, <2>2, RecordAnswered DEF Verdicts
<1>7. CASE Head(up).kind = "D" /\ Enters
  BY <1>1, <1>7, EntersHolds
<1>8. CASE Head(up).kind = "C" /\ Creates(Head(up).size)
  BY <1>1, <1>8, CreatesHolds
<1> QED BY <1>3, <1>4, <1>5, <1>6, <1>7, <1>8 DEF ReadRecord

LEMMA EndOfRecordsHolds ==
  ASSUME IInv, Reported, EndOfRecords
  PROVE  IInv'
<1>1. /\ snk.pc = "record" /\ up = << >> /\ up' = up /\ UNCHANGED <<cfg, src>> /\ ~Reads(src)
      /\ Returned(<< >>)
  BY DEF EndOfRecords
<1>2. << >> \in Seq(Verdicts) /\ up \in Seq(Items)
  BY NoneOf, Parts
<1>3. PICK s : /\ Answers(<< >>, s) /\ IsSink(s)
               /\ s.pc = "exit" \/ s.pc = snk.pc
  BY <1>1, <1>2, ReturnedTo
<1>4. Same(failed')
  BY <1>1, <1>2, ReturnedTo
<1>5. ~Both(src, snk, failed)
  BY <1>1 DEF Both, Reads
<1>6. s.pc # "exit" => Readable(s, up')
  BY <1>1, <1>3, NoneOf DEF Readable, Records
<1> QED BY <1>1, <1>2, <1>3, <1>4, <1>5, <1>6, SinkAnswers

LEMMA ReadDataHolds ==
  ASSUME IInv, ReadData
  PROVE  IInv'
<1>1. snk.pc = "data" /\ snk.left > 0 /\ UNCHANGED <<cfg, src>>
  BY DEF ReadData
<1>2. /\ IsSink(snk) /\ up \in Seq(Items) /\ down \in Seq(Verdicts) /\ Blocks(up, snk.left)
      /\ snk.left \in Nat
  BY <1>1, Parts DEF Readable, IsSink
<1>3. ASSUME up = << >>, ~Reads(src), Answers(<<"error">>, Gone(snk, 1)), UNCHANGED <<up, failed>>
      PROVE  IInv'
  <2>1. IsSink(Gone(snk, 1)) /\ Gone(snk, 1).pc = "exit"
    BY <1>2, GoneIs
  <2>2. <<"error">> \in Seq(Verdicts) /\ Same(failed') /\ ~Both(src, snk, failed)
    BY <1>3, OneAnswer, Counts DEF Verdicts, Both, Reads
  <2> QED BY <1>1, <1>2, <1>3, <2>1, <2>2, SinkAnswers
<1>4. ASSUME NEW bad, up # << >>, up' = Tail(up), down' = down,
             failed' = [Count(bad) EXCEPT !.astray = @ \/ Head(up).kind # "data"],
             snk' = [snk EXCEPT !.left = @ - 1, !.wrerr = IF bad THEN "YES" ELSE @]
      PROVE  IInv'
  <2>1. /\ Head(up).kind = "data" /\ Blocks(Tail(up), snk.left - 1)
        /\ Tail(up) \in Seq(Items) /\ Len(up) \in Nat \ {0} /\ Len(Tail(up)) = Len(up) - 1
        /\ DOMAIN up = 1 .. Len(up) /\ DOMAIN Tail(up) = 1 .. Len(up) - 1
        /\ \A i \in 1 .. Len(up) - 1 : Tail(up)[i] = up[i + 1]
    BY <1>1, <1>2, <1>4, BlocksTaken, TailIs
  <2>2. Same(failed')
    <3>1. Same(Count(bad))
      BY Counts
    <3>2. Count(bad).astray = FALSE
      BY <3>1 DEF Same
    <3>3. failed' = [Count(bad) EXCEPT !.astray = FALSE]
      BY <1>4, <2>1, <3>2
    <3> QED BY <3>1, <3>3 DEF Same
  <2> DEFINE n == snk.left - 1
             w == IF bad THEN "YES" ELSE snk.wrerr
             s == [snk EXCEPT !.left = n, !.wrerr = w]
  <2>3. snk' = s
    BY <1>4
  <2>4. n \in Nat /\ snk.left = n + 1
    BY <1>1, <1>2
  <2>5. w \in {"NO", "YES"}
    BY <1>1, <1>2 DEF IsSink
  <2> HIDE DEF n, w
  <2>6. IsSink(s) /\ s.pc = "data" /\ s.left = n
    BY <1>1, <1>2, <2>4, <2>5 DEF IsSink
  <2>7. Blocks(Tail(up), n)
    BY <2>1 DEF n
  <2> HIDE DEF s
  <2>8. Readable(s, Tail(up))
    BY <2>6, <2>7 DEF Readable
  <2>9. ASSUME Both(src, snk, failed)
        PROVE  Matched(src, s, Tail(up), down)
    <3>1. IsSource(src) /\ Matched(src, snk, up, down)
      BY <2>9, Parts
    <3>2. \/ /\ src.pc = "data" /\ down = << >> /\ snk.left = Len(up) + src.left
             /\ \A i \in DOMAIN up : up[i].kind = "data"
          \/ src.pc = "answer" /\ src.to = "data" /\ down = << >> /\ Len(up) = snk.left + 1
      BY <1>1, <1>4, <3>1 DEF Matched, AtRecords, Answered, AtData, Ready
    <3>3. src.left \in Nat
      BY <3>1 DEF IsSource
    <3>4. CASE /\ src.pc = "data" /\ down = << >> /\ snk.left = Len(up) + src.left
               /\ \A i \in DOMAIN up : up[i].kind = "data"
      <4>1. n = Len(Tail(up)) + src.left
        BY <2>1, <2>4, <3>3, <3>4
      <4>2. \A i \in DOMAIN Tail(up) : Tail(up)[i].kind = "data"
        BY <2>1, <3>4
      <4> QED BY <2>6, <3>4, <4>1, <4>2 DEF Matched, AtData
    <3>5. CASE src.pc = "answer" /\ src.to = "data" /\ down = << >> /\ Len(up) = snk.left + 1
      <4>1. Len(Tail(up)) = n + 1
        BY <2>1, <2>4, <3>5
      <4> QED BY <2>6, <3>5, <4>1 DEF Matched, AtData
    <3> QED BY <3>2, <3>4, <3>5
  <2> QED BY <1>1, <1>4, <2>1, <2>2, <2>3, <2>6, <2>8, <2>9, SinkSilent
<1> QED BY <1>3, <1>4 DEF ReadData

\* The answer for an empty file, and the error that may follow it.
LEMMA AfterOk ==
  ASSUME NEW items \in {<< >>, <<"error">>}
  PROVE  /\ << >> \o items = items /\ Len(items) \in {0, 1} /\ (<<"ok">> \o items)[1] = "ok"
         /\ Len(<<"ok">> \o items) \in {1, 2} /\ Len(<<"ok">> \o items) <= 2
<1>1. CASE items = << >>
  BY <1>1
<1>2. CASE items = <<"error">>
  <2>1. << >> \o <<"error">> = <<"error">> /\ Len(<<"error">>) = 1
    OBVIOUS
  <2>2. Len(<<"ok">> \o <<"error">>) = 2 /\ (<<"ok">> \o <<"error">>)[1] = "ok"
    OBVIOUS
  <2> QED BY <1>2, <2>1, <2>2
<1> QED BY <1>1, <1>2

\* What ftruncate makes the sink answer, and what it says later.
LEMMA FinishHolds ==
  ASSUME IInv, Reported, Finish
  PROVE  IInv'
<1>1. PICK bad \in SUBSET {"truncate"} :
        /\ failed' = [failed EXCEPT !.calls = @ + Cardinality(bad)]
        /\ Answers([i \in 1 .. Cardinality(bad) |-> "error"],
                   [snk EXCEPT !.pc = "verdict",
                               !.wrerr = IF "truncate" \in bad THEN "DISPLAYED" ELSE @])
  BY DEF Finish, Fails, Reported
<1>2. snk.pc = "data" /\ snk.left = 0 /\ up' = up /\ UNCHANGED <<cfg, src>>
  BY DEF Finish
<1>3. /\ IsSink(snk) /\ up \in Seq(Items) /\ down \in Seq(Verdicts) /\ Blocks(up, 0)
      /\ snk.wrerr \in {"NO", "YES"}
  BY <1>2, Parts DEF Readable, IsSink
<1> DEFINE w == IF "truncate" \in bad THEN "DISPLAYED" ELSE snk.wrerr
           s == [snk EXCEPT !.pc = "verdict", !.wrerr = w]
           items == Shown(s)
<1>4. IsSink(s) /\ s.pc = "verdict" /\ s.wrerr = w
  BY <1>3 DEF IsSink
<1>5. [i \in 1 .. Cardinality(bad) |-> "error"] = items
  <2>1. CASE bad = {}
    <3>1. Cardinality(bad) = 0
      BY <2>1, FS_EmptySet
    <3>2. [i \in 1 .. 0 |-> "error"] = << >>
      OBVIOUS
    <3>3. Shown(s) = << >>
      BY <1>3, <1>4, <2>1 DEF Shown
    <3> QED BY <3>1, <3>2, <3>3
  <2>2. CASE bad = {"truncate"}
    <3>1. Cardinality(bad) = 1
      BY <2>2, FS_Singleton
    <3>2. [i \in 1 .. 1 |-> "error"] = <<"error">>
      OBVIOUS
    <3>3. Shown(s) = <<"error">>
      BY <1>4, <2>2 DEF Shown
    <3> QED BY <3>1, <3>2, <3>3
  <2> QED BY <2>1, <2>2
<1>6. Answers(items, s)
  BY <1>1, <1>5
<1>7. Same(failed')
  <2>1. PICK k : k = failed.calls + Cardinality(bad)
    OBVIOUS
  <2>2. failed' = [failed EXCEPT !.calls = k]
    BY <1>1, <2>1
  <2>3. failed \in [calls : {failed.calls}, cut : BOOLEAN, astray : {FALSE}]
    BY DEF IInv, Holds
  <2> QED BY <2>2, <2>3 DEF Same
<1> HIDE DEF s
<1>8. items \in Seq(Verdicts) /\ items \in {<< >>, <<"error">>}
  BY OneAnswer, NoAnswer, NoneOf DEF Shown, Verdicts
<1>9. Len(up) \in {0, 1} /\ (up # << >> => Head(up).kind \in Verdicts /\ Tail(up) = << >>)
  <2>1. Len(up) \in Nat /\ Len(up) <= 0 + 1 /\ DOMAIN up = 1 .. Len(up)
    BY <1>3 DEF Blocks
  <2>2. ASSUME up # << >>
        PROVE  Head(up).kind \in Verdicts /\ Tail(up) = << >>
    <3>1. /\ Head(up) = up[1] /\ Tail(up) \in Seq(Items) /\ Len(Tail(up)) = Len(up) - 1
          /\ Len(up) \in Nat \ {0}
      BY <1>3, <2>2, TailIs
    <3> DEFINE n == Len(up)
    <3>2. n \in Nat \ {0} /\ n <= 1 /\ DOMAIN up = 1 .. n /\ Len(Tail(up)) = n - 1
      BY <2>1, <3>1
    <3> HIDE DEF n
    <3>3. n = 1 /\ 1 \in DOMAIN up /\ Len(Tail(up)) = 0
      BY <3>2
    <3>4. up[1].kind \in Verdicts
      BY <1>3, <3>3 DEF Blocks
    <3> QED BY <3>1, <3>3, <3>4, EmptyIs
  <2> QED BY <2>1, <2>2
<1>10. Readable(s, up')
  <2>1. Records(<< >>)
    BY NoneOf DEF Records
  <2> QED BY <1>2, <1>4, <1>9, <2>1 DEF Readable, Judged
<1>11. ASSUME Both(src, snk, failed)
       PROVE  Quiet(src, down \o items) /\ Matched(src, s, up', down \o items)
  <2>1. IsSource(src) /\ Matched(src, snk, up, down) /\ src.left \in Nat
    BY <1>11, Parts DEF IsSource
  <2>2. \/ src.pc = "data" /\ down = << >> /\ 0 = Len(up) + src.left
        \/ src.pc = "answer" /\ src.to = "data" /\ down = << >> /\ Len(up) = 0 + 1
        \/ /\ src.pc = "answer" /\ up = << >> /\ src.to = "C" /\ Head(src.todo).size = 0
           /\ down = <<"ok">>
    BY <1>2, <2>1 DEF Matched, AtRecords, Answered, AtData, Ready
  <2>3. << >> \o items = items /\ Len(items) \in {0, 1} /\ Len(<<"ok">> \o items) <= 2
        /\ (<<"ok">> \o items)[1] = "ok" /\ Len(<<"ok">> \o items) \in {1, 2}
    BY <1>8, AfterOk
  <2>4. CASE src.pc = "data" /\ down = << >> /\ 0 = Len(up) + src.left
    <3>1. Len(up) = 0 /\ src.left = 0
      BY <1>9, <2>1, <2>4
    <3>2. up = << >>
      BY <1>3, <3>1, EmptyIs
    <3>3. Quiet(src, items)
      BY <2>3, <2>4 DEF Quiet
    <3>4. Matched(src, s, up', items)
      BY <1>2, <1>4, <2>4, <3>1, <3>2 DEF Matched, AtData
    <3> QED BY <2>3, <2>4, <3>3, <3>4
  <2>5. CASE src.pc = "answer" /\ src.to = "data" /\ down = << >> /\ Len(up) = 0 + 1
    <3>1. Quiet(src, items)
      BY <2>3, <2>5 DEF Quiet
    <3>2. Matched(src, s, up', items)
      BY <1>2, <1>4, <2>5 DEF Matched, AtData
    <3> QED BY <2>3, <2>5, <3>1, <3>2
  <2>6. CASE /\ src.pc = "answer" /\ up = << >> /\ src.to = "C" /\ Head(src.todo).size = 0
             /\ down = <<"ok">>
    <3>1. Quiet(src, down \o items)
      BY <2>3, <2>6 DEF Quiet
    <3>2. Matched(src, s, up', down \o items)
      BY <1>2, <1>4, <2>6 DEF Matched, Answered
    <3> QED BY <3>1, <3>2
  <2> QED BY <2>2, <2>4, <2>5, <2>6
<1>12. snk.pc # "exit" /\ up' \in Seq(Items)
  BY <1>2, <1>3
<1> HIDE DEF items
<1> QED BY <1>2, <1>4, <1>6, <1>7, <1>8, <1>10, <1>11, <1>12, SinkAnswers


\* What Conclude does once it has the source's verdict.
Concluded(s) ==
  LET times == SetTimes(s) /\ s.wrerr = "NO"
  IN \E bad \in {FALSE} \cup {b \in Fails("times") : times} :
       /\ failed' = Count(bad)
       /\ Answers(IF bad THEN <<"error">> ELSE Verdict(s.wrerr),
                  InRecords(IF times THEN WithTimes(s, FALSE) ELSE s))

\* The source's verdict is read, and the sink's given, unless it was told already.
LEMMA ConcludedAs ==
  ASSUME IInv, Conclude
  PROVE  /\ snk.pc = "verdict" /\ up # << >> /\ up' = Tail(up) /\ cfg' = cfg /\ src' = src
         /\ Same(failed')
         /\ \E t : /\ IsSink(t) /\ t.pc = "record"
                   /\ \/ snk.wrerr = "DISPLAYED" /\ Answers(<< >>, t)
                      \/ snk.wrerr # "DISPLAYED" /\ \E v \in Verdicts : Answers(<<v>>, t)
<1>1. /\ snk.pc = "verdict" /\ up # << >> /\ up' = Tail(up) /\ cfg' = cfg /\ src' = src
  BY DEF Conclude
<1>2. IsSink(snk) /\ Judged(up, snk.wrerr = "DISPLAYED")
  BY <1>1, Parts DEF Readable
<1>3. Head(up).kind \in {"ok", "error"}
  BY <1>1, <1>2 DEF Judged, Verdicts
<1>4. PICK e : e = IF Head(up).kind = "ok" THEN snk.errs ELSE snk.errs + 1
  OBVIOUS
<1> DEFINE s == [snk EXCEPT !.errs = e]
           times == SetTimes(s) /\ s.wrerr = "NO"
           t == InRecords(IF times THEN WithTimes(s, FALSE) ELSE s)
<1>5. s = [snk EXCEPT !.errs = IF Head(up).kind = "ok" THEN @ ELSE @ + 1]
  BY <1>4
<1>6. PICK bad \in {FALSE} \cup {b \in Fails("times") : times} :
        /\ failed' = Count(bad)
        /\ Answers(IF bad THEN <<"error">> ELSE Verdict(s.wrerr), t)
  <2>1. Concluded([snk EXCEPT !.errs = IF Head(up).kind = "ok" THEN @ ELSE @ + 1])
    BY <1>3 DEF Conclude, Concluded
  <2> HIDE DEF s
  <2>2. Concluded(s)
    BY <1>5, <2>1
  <2> QED BY <2>2 DEF Concluded
<1>7. IsSink(s) /\ s.pc = "verdict" /\ s.wrerr = snk.wrerr
  <2>1. IsSink(s) /\ s.pc = snk.pc
    BY <1>2, ErrorsAside
  <2>2. s.wrerr = snk.wrerr
    BY <1>2 DEF IsSink
  <2> QED BY <1>1, <2>1, <2>2
<1>8. bad \in BOOLEAN /\ (bad => s.wrerr = "NO")
  BY <1>6 DEF Fails
<1> HIDE DEF s
<1>9. IsSink(t) /\ t.pc = "record"
  <2>1. PICK y : y = IF times THEN WithTimes(s, FALSE) ELSE s
    OBVIOUS
  <2>2. IsSink(y)
    BY <1>7, <2>1, TimesAside
  <2>3. IsSink(InRecords(y)) /\ InRecords(y).pc = "record"
    BY <2>2 DEF IsSink, InRecords
  <2> QED BY <2>1, <2>3
<1> HIDE DEF t
<1>10. Same(failed')
  BY <1>6, Counts
<1>11. s.wrerr \in {"NO", "YES", "DISPLAYED"}
  BY <1>7 DEF IsSink
<1>12. CASE s.wrerr = "DISPLAYED"
  <2>1. Answers(<< >>, t)
    BY <1>6, <1>8, <1>12 DEF Verdict
  <2> QED BY <1>1, <1>7, <1>9, <1>10, <1>12, <2>1
<1>13. CASE s.wrerr # "DISPLAYED"
  <2>1. PICK v \in Verdicts : <<v>> = IF bad THEN <<"error">> ELSE Verdict(s.wrerr)
    BY <1>8, <1>11, <1>13 DEF Verdict, Verdicts
  <2>2. Answers(<<v>>, t)
    BY <1>6, <2>1
  <2> QED BY <1>1, <1>7, <1>9, <1>10, <1>13, <2>2
<1> QED BY <1>12, <1>13

LEMMA ConcludeHolds ==
  ASSUME IInv, Conclude
  PROVE  IInv'
<1>1. /\ snk.pc = "verdict" /\ up # << >> /\ up' = Tail(up) /\ cfg' = cfg /\ src' = src
      /\ Same(failed')
  BY ConcludedAs
<1>2. PICK t : /\ IsSink(t) /\ t.pc = "record"
               /\ \/ snk.wrerr = "DISPLAYED" /\ Answers(<< >>, t)
                  \/ snk.wrerr # "DISPLAYED" /\ \E v \in Verdicts : Answers(<<v>>, t)
  BY ConcludedAs
<1>3. /\ up \in Seq(Items) /\ down \in Seq(Verdicts) /\ Judged(up, snk.wrerr = "DISPLAYED")
      /\ (src.pc # "exit" => Quiet(src, down))
  BY <1>1, Parts DEF Readable
<1>4. Tail(up) \in Seq(Items) /\ Len(Tail(up)) = Len(up) - 1 /\ Len(up) \in Nat \ {0}
  BY <1>1, <1>3, TailIs
<1>5. Records(Tail(up)) /\ (snk.wrerr # "DISPLAYED" => Tail(up) = << >>)
  <2>1. Records(<< >>)
    BY NoneOf DEF Records
  <2> QED BY <1>1, <1>3, <2>1 DEF Judged
<1>6. Readable(t, up')
  BY <1>1, <1>2, <1>5 DEF Readable
<1>7. ASSUME Both(src, snk, failed)
      PROVE  /\ IsSource(src)
             /\ \/ /\ snk.wrerr = "DISPLAYED"
                   /\ Matched(src, t, up', down)
                \/ src.pc = "answer" /\ src.to = "data" /\ Tail(up) = << >> /\ down = Shown(snk)
  <2>1. IsSource(src) /\ Matched(src, snk, up, down)
    BY <1>7, Parts
  <2>2. \/ AtRecords(src, snk, up, down) /\ snk.wrerr = "DISPLAYED"
        \/ src.pc = "answer" /\ src.to = "data" /\ Len(up) = 1 /\ down = Shown(snk)
    BY <1>1, <2>1 DEF Matched, AtRecords, Answered, AtData, Ready
  <2>3. CASE AtRecords(src, snk, up, down) /\ snk.wrerr = "DISPLAYED"
    <3>1. Rest(snk, up) = Tail(up) /\ Rest(t, Tail(up)) = Tail(up) /\ Ready(t, Tail(up))
      BY <1>1, <1>2 DEF Rest, Ready
    <3>2. AtRecords(src, t, Tail(up), down)
      BY <1>1, <2>3, <3>1 DEF AtRecords
    <3> QED BY <1>1, <2>1, <2>3, <3>2 DEF Matched
  <2>4. CASE src.pc = "answer" /\ src.to = "data" /\ Len(up) = 1 /\ down = Shown(snk)
    <3>1. Len(Tail(up)) = 0
      BY <1>4, <2>4
    <3>2. Tail(up) = << >>
      BY <1>4, <3>1, EmptyIs
    <3> QED BY <2>1, <2>4, <3>2
  <2> QED BY <2>2, <2>3, <2>4
<1>8. CASE snk.wrerr = "DISPLAYED" /\ Answers(<< >>, t)
  <2>1. down \o << >> = down /\ << >> \in Seq(Verdicts)
    BY <1>3, NoAnswer
  <2>2. ASSUME Both(src, snk, failed)
        PROVE  Quiet(src, down \o << >>) /\ Matched(src, t, up', down \o << >>)
    <3>1. Quiet(src, down)
      BY <1>3, <2>2 DEF Both
    <3>2. CASE src.pc = "answer" /\ src.to = "data" /\ Tail(up) = << >> /\ down = Shown(snk)
      <4>1. down = <<"error">>
        BY <1>8, <3>2 DEF Shown
      <4> QED BY <1>1, <1>2, <2>1, <3>1, <3>2, <4>1 DEF Matched, Answered
    <3> QED BY <1>7, <2>1, <2>2, <3>1, <3>2
  <2> QED BY <1>1, <1>2, <1>4, <1>6, <1>8, <2>1, <2>2, SinkAnswers
<1>9. ASSUME NEW v \in Verdicts, snk.wrerr # "DISPLAYED", Answers(<<v>>, t)
      PROVE  IInv'
  <2>1. <<v>> \in Seq(Verdicts)
    BY OneAnswer
  <2>2. ASSUME Both(src, snk, failed)
        PROVE  Quiet(src, down \o <<v>>) /\ Matched(src, t, up', down \o <<v>>)
    <3>1. src.pc = "answer" /\ src.to = "data" /\ Tail(up) = << >> /\ down = << >>
      BY <1>7, <1>9, <2>2 DEF Shown
    <3>2. down \o <<v>> = <<v>> /\ Quiet(src, <<v>>)
      BY <3>1, OneAnswer
    <3>3. Matched(src, t, up', <<v>>)
      BY <1>1, <1>2, <3>1 DEF Matched, Answered, Verdicts
    <3> QED BY <3>2, <3>3
  <2> QED BY <1>1, <1>2, <1>4, <1>6, <1>9, <2>1, <2>2, SinkAnswers
<1> QED BY <1>2, <1>8, <1>9

LEMMA LostHolds ==
  ASSUME IInv, Lost
  PROVE  IInv'
<1>1. snk.pc = "verdict" /\ snk' = Gone(snk, 1) /\ UNCHANGED <<cfg, src, up, down, failed>>
  BY DEF Lost
<1>2. IsSink(Gone(snk, 1)) /\ Gone(snk, 1).pc = "exit" /\ up \in Seq(Items)
  BY Parts, GoneIs
<1>3. Same(failed')
  BY <1>1, Counts
<1> QED BY <1>1, <1>2, <1>3, SinkSilent

-----------------------------------------------------------------------------
(* Every step.                                                             *)

LEMMA Steps ==
  ASSUME IInv, Reported, [Next]_vars
  PROVE  IInv'
<1>1. CASE Sink
  BY <1>1, SinkStartsHolds, ReadRecordHolds, EndOfRecordsHolds, ReadDataHolds, FinishHolds,
     ConcludeHolds, LostHolds
     DEF Sink
<1>2. CASE UNCHANGED vars
  BY <1>2 DEF vars, IInv
<1> QED BY <1>1, <1>2, SourceHolds, ConnectionLostHolds DEF Next

\* source and sink never mistake data for a record or a record for data, and source never
\* turns to a file with an answer left over (scp.c: source, rsource, sink, response,
\* run_err): whatever files are sent, whatever the options, whichever calls fail and however
\* many, and whenever the connection is lost.  Of the calls, fchmod and, for a directory,
\* utime are left out: sink answers for them and again for the file or the directory.
THEOREM CopyInStep ==
  ASSUME Reported
  PROVE  Spec => []InStep
<1>1. Init => IInv
  BY Begins
<1>2. IInv /\ [Next]_vars => IInv'
  BY Steps
<1>3. IInv => InStep
  BY DEF IInv, Holds, InStep, Quiet
<1> QED BY <1>1, <1>2, <1>3, PTL DEF Spec
=============================================================================
