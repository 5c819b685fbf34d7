---------------------------- MODULE EscapeFilter ----------------------------
(***************************************************************************)
(* The escape characters of clientloop.c: how client_process_input takes   *)
(* what was read from the terminal apart, one character after the other,   *)
(* in the very buffer into which it also writes its replies.               *)
(*                                                                         *)
(* Characters are classes: the escape character, a newline (carriage       *)
(* return or line feed), the six characters that mean something after an   *)
(* escape, and one ordinary character.                                     *)
(***************************************************************************)
EXTENDS Naturals, Sequences

CONSTANTS
  Keys,      \* the characters the user types
  MaxTyped,  \* bound: characters typed
  MaxChunk   \* bound: characters that one read returns

Commands == {".", "^Z", "&", "?", "#"}
Ordinary == "x"
Chars    == {"esc", "nl", "nul", Ordinary} \cup Commands

ASSUME EscapeAssumption ==
  Keys \subseteq Chars \ {"nul"} /\ MaxTyped \in Nat /\ MaxChunk \in Nat \ {0}

VARIABLES
  pc,       \* "start", "send" or "read" in client_loop, "filter", "over"
  buf, i,   \* the buffer of client_process_input and the index into it
  pending,  \* escape_pending
  cr,       \* last_was_cr
  stdin,    \* stdin_buffer
  eof,      \* stdin_eof
  sent,     \* given to the packet layer: the characters typed and, of each ^D and EOF,
            \* how many of them went before it
  first,    \* history: the character read before the session, if any
  typed,    \* history: the characters read after it
  spoiled,  \* history: a character was overwritten before it was looked at
  dropped   \* history: buffered input was thrown away

vars == <<pc, buf, i, pending, cr, stdin, eof, sent, first, typed,
          spoiled, dropped>>

Init ==
  /\ pc = "start" /\ buf = << >> /\ i = 1
  /\ pending = FALSE /\ cr = TRUE /\ stdin = << >> /\ eof = FALSE
  /\ sent = [text |-> << >>, ends |-> << >>] /\ first = << >> /\ typed = << >>
  /\ spoiled = FALSE /\ dropped = FALSE

-----------------------------------------------------------------------------
(* client_check_initial_eof_on_stdin reads one character at most.          *)

NothingYet ==
  /\ pc = "start" /\ pc' = "send"
  /\ UNCHANGED <<buf, i, pending, cr, stdin, eof, sent, typed, spoiled, dropped, first>>

FirstCharacter(ch) ==
  /\ pc = "start" /\ MaxTyped > 0
  /\ pc' = "send" /\ first' = <<ch>>
  /\ pending' = (ch = "esc")
  /\ stdin' = IF ch = "esc" THEN << >> ELSE <<ch>>
  /\ UNCHANGED <<buf, i, cr, eof, sent, typed, spoiled, dropped>>

-----------------------------------------------------------------------------
(* client_loop: buffered input goes out before more is read.               *)

\* The end of the input, after all that was sent.
Ends(s, what) == [s EXCEPT !.ends = Append(@, <<what, Len(s.text)>>)]

SendStdin ==
  /\ pc = "send" /\ pc' = "read"
  /\ LET s == [sent EXCEPT !.text = @ \o stdin]
     IN sent' = IF eof /\ stdin # << >> THEN Ends(s, "EOF") ELSE s
  /\ stdin' = << >>
  /\ UNCHANGED <<buf, i, pending, cr, eof, typed, spoiled, dropped, first>>

\* A read returns one or more characters.
ReadChunk(chunk) ==
  /\ pc = "read" /\ ~eof
  /\ chunk # << >> /\ Len(typed) + Len(chunk) =< MaxTyped
  /\ pc' = "filter" /\ buf' = chunk /\ i' = 1 /\ typed' = typed \o chunk
  /\ UNCHANGED <<pending, cr, stdin, eof, sent, spoiled, dropped, first>>

-----------------------------------------------------------------------------
(* One character.  Each case of the switch is an action.                   *)

Overlay(b, text) ==
  [k \in DOMAIN b |-> IF k =< Len(text) THEN text[k] ELSE b[k]]

\* The replies, as they are formatted into the buffer.
HelpText    == <<"esc", "?", "nl", "nl">> \o [k \in 1 .. MaxChunk |-> Ordinary]
ListText    == <<"esc", "#", "nl", "nl", "nul">>
SuspendText == <<"esc", Ordinary, Ordinary, "nl", "nl", "nul">>


\* On to the next character, or back to client_loop.
Advance(flag) ==
  /\ i' = i + 1
  /\ pc' = IF i = Len(buf) THEN "send" ELSE "filter"
  /\ pending' = flag

Writes(text) ==
  /\ buf' = Overlay(buf, text)
  /\ spoiled' = (spoiled \/ \E k \in i + 1 .. Len(buf) : buf'[k] # buf[k])

Looking == pc = "filter"

\* Mutant of Escaped: the character need not follow an escape.
TakenAnywhere(ch) == Looking /\ buf[i] = ch

Escaped(ch) == Looking /\ pending /\ buf[i] = ch

\* ~.
Terminate ==
  /\ Escaped(".")
  /\ pc' = "over" /\ pending' = FALSE
  /\ UNCHANGED <<buf, i, cr, stdin, eof, sent, typed, spoiled, dropped, first>>

\* ~^Z: client_suspend_self frees the buffers.
Suspend ==
  /\ Escaped("^Z")
  /\ Writes(SuspendText) /\ Advance(FALSE)
  /\ stdin' = << >> /\ dropped' = (dropped \/ stdin # << >>)
  /\ UNCHANGED <<cr, eof, sent, typed, first>>

\* ~&: an end-of-file character and, if nothing is buffered, the eof; the
\* forked child goes on with the rest of the buffer.
Background ==
  /\ Escaped("&")
  /\ sent' = IF eof THEN sent
             ELSE IF stdin = << >> THEN Ends(Ends(sent, "^D"), "EOF") ELSE Ends(sent, "^D")
  /\ eof' = TRUE /\ Advance(FALSE)
  /\ UNCHANGED <<buf, cr, stdin, typed, spoiled, dropped, first>>

\* ~? and ~#
Help ==
  /\ Escaped("?")
  /\ Writes(HelpText) /\ Advance(FALSE)
  /\ UNCHANGED <<cr, stdin, eof, sent, typed, dropped, first>>
ListConnections ==
  /\ Escaped("#")
  /\ Writes(ListText) /\ Advance(FALSE)
  /\ UNCHANGED <<cr, stdin, eof, sent, typed, dropped, first>>

\* Any other character: both are sent.
NotACommand ==
  /\ Looking /\ pending /\ buf[i] \notin Commands \cup {"esc"}
  /\ Writes(<<"esc", buf[i]>>) /\ Advance(FALSE)
  /\ stdin' = stdin \o <<"esc", buf[i]>>
  /\ UNCHANGED <<cr, eof, sent, typed, dropped, first>>

StartEscape ==
  /\ Looking /\ ~pending /\ cr /\ buf[i] = "esc"
  /\ Advance(TRUE)
  /\ UNCHANGED <<buf, cr, stdin, eof, sent, typed, spoiled, dropped, first>>

\* A normal character, or the escape character typed twice.
Plain ==
  /\ Looking
  /\ IF pending THEN buf[i] = "esc" ELSE ~(cr /\ buf[i] = "esc")
  /\ cr' = (buf[i] = "nl")
  /\ Writes(<<buf[i]>>) /\ Advance(FALSE)
  /\ stdin' = Append(stdin, buf[i])
  /\ UNCHANGED <<eof, sent, typed, dropped, first>>

Next ==
  \/ NothingYet
  \/ \E ch \in Keys : FirstCharacter(ch)
  \/ SendStdin
  \/ \E n \in 1 .. MaxChunk : \E chunk \in [1 .. n -> Keys] : ReadChunk(chunk)
  \/ Terminate \/ Suspend \/ Background \/ Help \/ ListConnections
  \/ NotACommand \/ StartEscape \/ Plain

Spec == Init /\ [][Next]_vars
=============================================================================
