--------------------------- MODULE MCEscapeFilter ---------------------------
(***************************************************************************)
(* The properties of EscapeFilter that TLC checks.                         *)
(***************************************************************************)
EXTENDS EscapeFilter, SequencesExt

TypeOK ==
  /\ pc \in {"start", "send", "read", "filter", "over"}
  /\ buf \in Seq(Chars) /\ i \in 1 .. Len(buf) + 1
  /\ pc = "filter" => i \in DOMAIN buf
  /\ {pending, cr, eof, spoiled, dropped} \subseteq BOOLEAN
  /\ stdin \in Seq(Chars) /\ sent \in [text : Seq(Chars), ends : Seq({"^D", "EOF"} \X Nat)]
  /\ typed \in Seq(Keys)

-----------------------------------------------------------------------------
(* A filter of whole character strings, which knows nothing of reads and   *)
(* buffers.  A line that began with an escape that is no command still     *)
(* counts as its beginning.                                                *)

AfterEscape(st, ch) ==
  CASE ch = "."                -> [st EXCEPT !.over = TRUE, !.pending = FALSE]
    [] ch \in Commands \ {"."} -> [st EXCEPT !.pending = FALSE]
    [] ch = "esc"              -> [st EXCEPT !.pending = FALSE, !.begin = FALSE,
                                             !.text = Append(@, "esc")]
    [] OTHER                   -> [st EXCEPT !.pending = FALSE,
                                             !.text = @ \o <<"esc", ch>>]
Filter(st, ch) ==
  IF st.over THEN st
  ELSE IF st.pending THEN AfterEscape(st, ch)
  ELSE IF st.begin /\ ch = "esc" THEN [st EXCEPT !.pending = TRUE]
  ELSE [st EXCEPT !.begin = (ch = "nl"), !.text = Append(@, ch)]

\* The first character is looked at by client_check_initial_eof_on_stdin,
\* after which the line still counts as beginning.
StartAfter(ch) == [begin |-> TRUE, pending |-> (ch = <<"esc">>), over |-> FALSE,
                   text |-> IF ch = <<"esc">> THEN << >> ELSE ch]

\* What has been looked at, and what it has come to: the two flags of
\* client_process_input, and the characters it has let through.
LookedAt ==
  CASE pc = "filter" -> SubSeq(typed, 1, Len(typed) - Len(buf) + i - 1)
    [] pc = "over"   -> SubSeq(typed, 1, Len(typed) - Len(buf) + i)
    [] OTHER         -> typed
Reached == [begin |-> cr, pending |-> pending, over |-> pc = "over", text |-> sent.text \o stdin]

\* client_process_input looks at every character typed, in order and once, and takes
\* each as the filter does, in whatever read it comes and at whatever place; all else
\* (reading, sending, the first character) changes nothing of this.  A reply that was
\* written over characters (buf) and a suspension that freed stdin_buffer are excepted.
KeyByKey ==
  [][~spoiled /\ ~dropped' =>
       \/ /\ LookedAt' = LookedAt
          /\ Reached' = IF first' = first THEN Reached ELSE StartAfter(first')
       \/ \E ch \in Keys : LookedAt' = Append(LookedAt, ch) /\ Reached' = Filter(Reached, ch)
    ]_vars

\* An eof that ~& asked for waits in client_send_stdin_data for what is buffered: once
\* nothing is, it has been sent, after all that was let through.
EofIsLast ==
  eof /\ stdin = << >> =>
    sent.ends # << >> /\ sent.ends[Len(sent.ends)] = <<"EOF", Len(sent.text)>>

=============================================================================
