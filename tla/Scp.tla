-------------------------------- MODULE Scp ---------------------------------
(***************************************************************************)
(* One connection of scp (scp.c): the end that sends files (source and     *)
(* rsource), the end that stores them (sink, which calls itself for a      *)
(* directory), and what flows between them.  One of them is the program    *)
(* the user started, the other was started by it through ssh; "client"     *)
(* tells which.  A record, a line of error and a block of data are one     *)
(* item each.  System calls may fail, and the connection may be lost.      *)
(***************************************************************************)
EXTENDS Naturals, Sequences, FiniteSets

CONSTANTS
  Setups,      \* who is the client, the options, the files
  Nodes,       \* every file, directory and special file there is to be sent
  Failures,    \* the system calls that may fail, and "connection"
  MaxFailures  \* bound: how many fail

ASSUME ScpAssumption ==
  /\ \A s \in Setups :
       /\ s.client \in {"source", "sink"}
       /\ {s.pflag, s.targetshouldbedirectory, s.earlier} \subseteq BOOLEAN
       /\ s.earlier => s.client = "sink"
       /\ s.files \in Seq(Nodes)
  /\ \A n \in Nodes :
       /\ n.kind \in {"file", "dir", "other"}
       /\ n.kind = "file" => n.size \in Nat
       /\ n.kind = "dir"  => n.of \in Seq(Nodes)
  /\ MaxFailures \in Nat

VARIABLES
  cfg,     \* the set-up; earlier: sink reported an error on an earlier connection
  src,     \* the sending end: at which answer it waits, and what is still to be sent
  snk,     \* the storing end: for each directory it is in, whether times are to be set
  up,      \* from the source to the sink
  down,    \* from the sink to the source
  failed   \* how many calls failed, whether the connection did, and (history) whether
           \* data and records were mixed up

vars == <<cfg, src, snk, up, down, failed>>

Init ==
  /\ cfg \in Setups
  /\ src = [pc |-> "answer", to |-> "start", todo |-> cfg.files, left |-> 0, haderr |-> FALSE,
            errs |-> 0, status |-> 0]
  /\ snk = [pc |-> "start", setimes |-> <<FALSE>>, left |-> 0, wrerr |-> "NO",
            errs |-> IF cfg.earlier THEN 1 ELSE 0, status |-> 0]
  /\ up = << >> /\ down = << >>
  /\ failed = [calls |-> snk.errs, cut |-> FALSE, astray |-> FALSE]

\* A call that may fail: whether it did.
Fails(call) ==
  {FALSE} \cup {b \in {TRUE} : call \in Failures /\ failed.calls < MaxFailures}
Count(bad) == [failed EXCEPT !.calls = IF bad THEN @ + 1 ELSE @]

\* Whether there is still somebody at the other end.
Reads(other) == other.pc # "exit" /\ ~failed.cut

\* exit, at once or at the end of main.
Gone(s, status) == [s EXCEPT !.pc = "exit", !.status = status]
Ended(s)        == Gone(s, IF s.errs > 0 THEN 1 ELSE 0)

-----------------------------------------------------------------------------
(* The source.  Once the reader has gone, a write may still be taken by    *)
(* the ssh in between, or end the writer: the client by lostconn, the      *)
(* other one by SIGPIPE.                                                   *)

Sends(item, s) ==
  \/ Reads(snk) /\ src' = s /\ up' = Append(up, item)
  \/ ~Reads(snk) /\ src' \in {s, Gone(src, 1)} /\ UNCHANGED up

Line(kind)      == [kind |-> kind, size |-> 0]
Awaits(s, what) == [s EXCEPT !.pc = "answer", !.to = what]
NextFile(s)     == [s EXCEPT !.pc = "next", !.todo = Tail(@)]

\* C for a file and D for a directory, with the answer that is awaited then.
SendsRecord(node) ==
  IF node.kind = "dir" THEN Sends(Line("D"), Awaits(src, "D"))
  ELSE Sends([kind |-> "C", size |-> node.size], Awaits(src, "C"))

\* run_err sends a line that is not answered, here for a file that is left out.
LeavesOut == Sends(Line("error"), NextFile([src EXCEPT !.errs = @ + 1]))

\* The file that is next, up to the first record for it.
Offer ==
  /\ src.pc = "next" /\ src.todo # << >>
  /\ LET node == Head(src.todo) IN
     \/ /\ node.kind \in {"file", "dir"}
        /\ \E bad \in Fails(IF node.kind = "dir" THEN "opendir" ELSE "open") :
             /\ failed' = Count(bad)
             /\ \/ bad /\ LeavesOut
                \/ ~bad /\ cfg.pflag /\ Sends(Line("T"), Awaits(src, "T"))
                \/ ~bad /\ ~cfg.pflag /\ SendsRecord(node)
     \/ /\ node.kind = "other"
        /\ failed' = Count(TRUE)
        /\ LeavesOut
     \/ /\ node.kind = "leave"
        /\ Sends(Line("E"), Awaits(src, "E"))
        /\ UNCHANGED failed
  /\ UNCHANGED <<cfg, snk, down>>

\* The record that follows the times.
OfferAfterTimes ==
  /\ src.pc = "second"
  /\ SendsRecord(Head(src.todo))
  /\ UNCHANGED <<cfg, snk, down, failed>>

\* The data, and anything in its place after an error, to stay in step.
SendData ==
  /\ src.pc = "data" /\ src.left > 0
  /\ \E bad \in {FALSE} \cup {b \in Fails("read") : ~src.haderr} :
       /\ failed' = Count(bad)
       /\ Sends(Line("data"), [src EXCEPT !.left = @ - 1, !.haderr = @ \/ bad])
  /\ UNCHANGED <<cfg, snk, down>>

\* Mutant: the data that could not be read is vouched for.
DataSentAnyway ==
  /\ src.pc = "data" /\ src.left = 0
  /\ Sends(Line("ok"), Awaits([src EXCEPT !.errs = IF src.haderr THEN @ + 1 ELSE @], "data"))
  /\ UNCHANGED <<cfg, snk, down, failed>>

\* The file is closed, which may fail too.
DataSent ==
  /\ src.pc = "data" /\ src.left = 0
  /\ \E bad \in {FALSE} \cup {b \in Fails("close") : ~src.haderr} :
       /\ failed' = Count(bad)
       /\ \/ /\ src.haderr \/ bad
             /\ Sends(Line("error"), Awaits([src EXCEPT !.errs = @ + 1], "data"))
          \/ ~(src.haderr \/ bad) /\ Sends(Line("ok"), Awaits(src, "data"))
  /\ UNCHANGED <<cfg, snk, down>>

\* What follows an answer.
Accepted(s) ==
  LET node == Head(s.todo) IN
  CASE s.to = "start" -> [s EXCEPT !.pc = "next"]
    [] s.to = "T"     -> [s EXCEPT !.pc = "second"]
    [] s.to = "C"     -> [s EXCEPT !.pc = "data", !.left = node.size, !.haderr = FALSE]
    [] s.to = "D"     -> [s EXCEPT !.pc = "next",
                            !.todo = node.of \o <<[kind |-> "leave"]>> \o Tail(@)]
    [] s.to \in {"data", "E"} -> NextFile(s)

Refused(s) ==
  IF s.to = "start"
  THEN IF cfg.client = "source" THEN Gone(s, 1) ELSE [s EXCEPT !.pc = "next"]
  ELSE NextFile(s)

\* response
Answer ==
  /\ src.pc = "answer"
  /\ \/ /\ down # << >>
        /\ down' = Tail(down)
        /\ src' = IF Head(down) = "ok" THEN Accepted(src)
                  ELSE Refused([src EXCEPT !.errs = @ + 1])
     \/ /\ down = << >> /\ ~Reads(snk)
        /\ src' = Gone(src, 1)
        /\ UNCHANGED down
  /\ UNCHANGED <<cfg, snk, up, failed>>

SourceEnds ==
  /\ src.pc = "next" /\ src.todo = << >>
  /\ src' = Ended(src)
  /\ UNCHANGED <<cfg, snk, up, down, failed>>

Source == Offer \/ OfferAfterTimes \/ SendData \/ DataSent \/ Answer \/ SourceEnds

-----------------------------------------------------------------------------
(* The sink.                                                               *)

\* What is answered, and what the sink is then.  run_err keeps to the stream of the
\* first connection it was used on: once there was an earlier one, its line goes to
\* a pipe that nobody reads, and lostconn ends the client.
Answers(items, s) ==
  LET errors == Cardinality({i \in DOMAIN items : items[i] = "error"})
      t == [s EXCEPT !.errs = @ + errors]
  IN
  \/ /\ errors > 0 /\ cfg.earlier
     /\ snk' = Gone(t, 1) /\ UNCHANGED down
  \/ /\ ~(errors > 0 /\ cfg.earlier)
     /\ \/ Reads(src) /\ snk' = t /\ down' = down \o items
        \/ /\ ~Reads(src) /\ UNCHANGED down
           /\ snk' \in {t} \cup (IF items = << >> THEN {} ELSE {Gone(t, 1)})

InRecords(s)    == [s EXCEPT !.pc = "record"]
WithTimes(s, b) == [s EXCEPT !.setimes[Len(s.setimes)] = b]
Entered(s)      == [s EXCEPT !.pc = "start", !.setimes = Append(@, FALSE)]
Left(s)         == [s EXCEPT !.setimes = SubSeq(@, 1, Len(@) - 1)]
SetTimes(s)     == s.setimes[Len(s.setimes)]

\* Entered for the target of the command and for each directory; the latter answers
\* the record of the directory.
SinkStarts ==
  /\ snk.pc = "start"
  /\ \E bad \in {FALSE} \cup {b \in Fails("target") :
                                cfg.targetshouldbedirectory /\ Len(snk.setimes) = 1} :
       /\ failed' = Count(bad)
       /\ \/ bad /\ Answers(<<"error">>, Gone(snk, 1))
          \/ ~bad /\ Answers(<<"ok">>, InRecords(snk))
  /\ UNCHANGED <<cfg, src, up>>

\* sink returns: to main, or to the loop of the directory above, which sets the times
\* of the one left.
Returned(items) ==
  \/ /\ Len(snk.setimes) = 1
     /\ Answers(items, Ended(snk))
     /\ UNCHANGED failed
  \/ /\ Len(snk.setimes) > 1
     /\ \E bad \in {FALSE} \cup {b \in Fails("dirtimes") : SetTimes(Left(snk))} :
          /\ failed' = Count(bad)
          /\ Answers(items \o (IF bad THEN <<"error">> ELSE << >>), WithTimes(Left(snk), FALSE))

\* What sink does about a record.
ErrorLine  == Answers(<< >>, [snk EXCEPT !.errs = @ + 1]) /\ UNCHANGED failed
TakesTimes == Answers(<<"ok">>, WithTimes(snk, TRUE)) /\ UNCHANGED failed
Enters ==
  \E bad \in Fails("mkdir") :
    /\ failed' = Count(bad)
    /\ \/ bad /\ Answers(<<"error">>, snk)
       \/ ~bad /\ Answers(<< >>, Entered(snk))
Creates(size) ==
  \E bad \in Fails("create") :
    /\ failed' = Count(bad)
    /\ \/ bad /\ Answers(<<"error">>, snk)
       \/ ~bad /\ Answers(<<"ok">>, [snk EXCEPT !.pc = "data", !.left = size, !.wrerr = "NO"])
Screwup == Answers(<<"error">>, Gone(snk, 1)) /\ failed' = [failed EXCEPT !.astray = TRUE]

ReadRecord ==
  /\ snk.pc = "record" /\ up # << >>
  /\ up' = Tail(up)
  /\ LET r == Head(up) IN
     \/ r.kind = "error" /\ ErrorLine
     \/ r.kind = "E" /\ Returned(<<"ok">>)
     \/ r.kind = "T" /\ TakesTimes
     \/ r.kind = "D" /\ Enters
     \/ r.kind = "C" /\ Creates(r.size)
     \/ r.kind \in {"data", "ok"} /\ Screwup
  /\ UNCHANGED <<cfg, src>>

EndOfRecords ==
  /\ snk.pc = "record" /\ up = << >> /\ ~Reads(src)
  /\ Returned(<< >>)
  /\ UNCHANGED <<cfg, src, up>>

\* As many blocks as announced, whatever becomes of them.
ReadData ==
  /\ snk.pc = "data" /\ snk.left > 0
  /\ \/ /\ up # << >>
        /\ up' = Tail(up)
        /\ \E bad \in {FALSE} \cup {b \in Fails("write") : snk.wrerr = "NO"} :
             /\ failed' = [Count(bad) EXCEPT !.astray = @ \/ Head(up).kind # "data"]
             /\ snk' = [snk EXCEPT !.left = @ - 1, !.wrerr = IF bad THEN "YES" ELSE @]
        /\ UNCHANGED down
     \/ /\ up = << >> /\ ~Reads(src)
        /\ Answers(<<"error">>, Gone(snk, 1))
        /\ UNCHANGED <<up, failed>>
  /\ UNCHANGED <<cfg, src>>

\* ftruncate and fchmod, whose errors are reported at once.
Finish ==
  /\ snk.pc = "data" /\ snk.left = 0
  /\ \E bad \in SUBSET {c \in {"truncate", "mode"} : TRUE \in Fails(c)} :
       /\ bad # {} => failed.calls + Cardinality(bad) <= MaxFailures
       /\ failed' = [failed EXCEPT !.calls = @ + Cardinality(bad)]
       /\ Answers([i \in 1 .. Cardinality(bad) |-> "error"],
                  [snk EXCEPT !.pc = "verdict",
                              !.wrerr = IF "truncate" \in bad THEN "DISPLAYED" ELSE @])
  /\ UNCHANGED <<cfg, src, up>>

\* Mutant: an error that was displayed is answered for a second time.
VerdictTwice(wrerr) == IF wrerr = "NO" THEN <<"ok">> ELSE <<"error">>

\* The answer for the data: none when the error was displayed already.
Verdict(wrerr) ==
  CASE wrerr = "YES" -> <<"error">> [] wrerr = "NO" -> <<"ok">> [] wrerr = "DISPLAYED" -> << >>

\* response, for what the source thinks of the data; the times; and the answer.
Conclude ==
  /\ snk.pc = "verdict" /\ up # << >>
  /\ up' = Tail(up)
  /\ LET s == [snk EXCEPT !.errs = IF Head(up).kind = "ok" THEN @ ELSE @ + 1]
         times == SetTimes(s) /\ s.wrerr = "NO"
     IN \/ /\ Head(up).kind \in {"ok", "error"}
           /\ \E bad \in {FALSE} \cup {b \in Fails("times") : times} :
                /\ failed' = Count(bad)
                /\ Answers(IF bad THEN <<"error">> ELSE Verdict(s.wrerr),
                           InRecords(IF times THEN WithTimes(s, FALSE) ELSE s))
        \/ /\ Head(up).kind \notin {"ok", "error"}
           /\ snk' = Gone(s, 1)
           /\ failed' = [failed EXCEPT !.astray = TRUE]
           /\ UNCHANGED down
  /\ UNCHANGED <<cfg, src>>

\* lostconn, in response
Lost ==
  /\ snk.pc = "verdict" /\ up = << >> /\ ~Reads(src)
  /\ snk' = Gone(snk, 1)
  /\ UNCHANGED <<cfg, src, up, down, failed>>

Sink == SinkStarts \/ ReadRecord \/ EndOfRecords \/ ReadData \/ Finish \/ Conclude \/ Lost

-----------------------------------------------------------------------------
\* The connection, or the ssh that carries it, ends, with what it still had.
ConnectionLost ==
  /\ "connection" \in Failures /\ ~failed.cut
  /\ failed' = [failed EXCEPT !.cut = TRUE]
  /\ \E n \in 0 .. Len(up), m \in 0 .. Len(down) :
       up' = SubSeq(up, 1, n) /\ down' = SubSeq(down, 1, m)
  /\ UNCHANGED <<cfg, src, snk>>

Next == Source \/ Sink \/ ConnectionLost

Spec == Init /\ [][Next]_vars

\* Two processes that run.
FairSpec == Spec /\ WF_vars(Source) /\ WF_vars(Sink)

-----------------------------------------------------------------------------
\* The two ends are in step: no data is ever taken for a record nor a record for
\* data, and when the source turns to its next file no answer is left over that it
\* would take for the answer to the next record -- whatever calls failed in between,
\* at either end ("Keep reading so we stay sync'd up", scp.c:1203; "Keep writing after
\* an error so that we stay sync'd up", scp.c:824).
InStep ==
  /\ ~failed.astray
  /\ src.pc = "next" => down = << >>

\* Both ends come to their end, and the exit status the user sees tells whether some
\* call failed, no matter at which end and during which file (errs, exit(errs != 0)).
\* When the connection was lost, a client that sends succeeds only if every file was
\* stored; one that stores takes the loss for the end of the files where it waits for
\* a record (read <= 0, return), but never within one.
StatusTells ==
  LET status == IF cfg.client = "source" THEN src.status ELSE snk.status
      told == IF ~failed.cut THEN status # 0 <=> failed.calls > 0
              ELSE status = 0 => IF cfg.client = "source"
                                 THEN failed.calls = 0 /\ src.todo = << >>
                                 ELSE snk.left = 0
  IN <>[](src.pc = "exit" /\ snk.pc = "exit" /\ told)
=============================================================================
