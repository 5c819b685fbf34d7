----------------------------- MODULE ChannelEnd -----------------------------
(***************************************************************************)
(* One entry of the channel table of newchannels.c, and the functions that *)
(* change its status flags: channel_free, channel_check_termination,       *)
(* channel_send_ieof, channel_send_oclosed, channel_close_input,           *)
(* channel_close_output, channel_receive_ieof, channel_receive_oclosed.    *)
(*                                                                         *)
(* A C function that takes a Channel* becomes an operator on a "run": the  *)
(* entry as the function leaves it, the packets it sent, how often it      *)
(* freed the entry, and the fault (failed assertion or packet_disconnect)  *)
(* that ended the process, if any.  Nested C calls are nested operators.   *)
(*                                                                         *)
(* The peer speaks the current channel protocol (EMULATE_OLD_CHANNEL_CODE  *)
(* is not set in emulation_information).                                   *)
(***************************************************************************)
EXTENDS Integers, Sequences

ListenerTypes == {"X11_LISTENER", "PORT_LISTENER", "AUTH_LISTENER"}
LiveTypes     == {"OPENING", "OPEN", "X11_OPEN"}
ChannelTypes  == {"FREE"} \cup ListenerTypes \cup LiveTypes

\* The six bits of STATUS_TERMINATE.
Flags == {"INPUT_CLOSED", "OUTPUT_CLOSED", "EOF_SENT", "EOF_RECEIVED",
          "CLOSE_SENT", "CLOSE_RECEIVED"}

OpenKinds  == {"PORT_OPEN", "X11_OPEN", "AGENT_OPEN"}
CloseKinds == {"INPUT_EOF", "OUTPUT_CLOSED"}
Kinds      == OpenKinds \cup CloseKinds \cup
              {"OPEN_CONFIRMATION", "OPEN_FAILURE", "DATA"}

Faults == {"none", "double eof", "double close", "data after eof",
           "nonexistent channel", "not opening", "assert", "table corrupt"}

NoId     == -1
NoTarget == "none"

\* An entry that was never allocated.  "inst" is a history field: the number
\* of the forwarded connection the entry serves, 0 for a listener.
BlankChannel ==
  [type |-> "FREE", sock |-> NoId, rid |-> NoId, flags |-> {},
   isx |-> FALSE, input |-> << >>, output |-> << >>, target |-> NoTarget,
   inst |-> 0]

\* A packet: the channel number it carries, the second number of a
\* confirmation, the target of a PORT_OPEN, the payload of a DATA.  "inst" is
\* history and is never read by a handler, except to name the connection an
\* OPEN packet starts.
Packet(kind, chan, from, target, data, inst) ==
  [kind |-> kind, chan |-> chan, from |-> from, target |-> target,
   data |-> data, inst |-> inst]

-----------------------------------------------------------------------------
(* Runs of the C functions.                                                *)

Run(ch) == [c |-> ch, out |-> << >>, frees |-> 0, fault |-> "none"]

HasFlag(r, f)  == f \in r.c.flags
SetFlag(r, f)  == [r EXCEPT !.c.flags = @ \cup {f}]
SendClose(r, kind) ==
  [r EXCEPT !.out =
      Append(@, Packet(kind, r.c.rid, NoId, NoTarget, << >>, r.c.inst))]

\* Mutant of ChannelFree: channels_used is not decremented.
ChannelFreeUncounted(r) ==
  IF r.c.type = "FREE" THEN [r EXCEPT !.fault = "assert"]
  ELSE [r EXCEPT !.c.type = "FREE", !.c.input = << >>, !.c.output = << >>]

\* The assertion at the top of channel_free, then the release of the entry.
\* The status flags, the socket number and the ids are left behind.
ChannelFree(r) ==
  IF r.c.type = "FREE"
  THEN [r EXCEPT !.fault = "assert"]
  ELSE [r EXCEPT !.c = [@ EXCEPT !.type = "FREE", !.input = << >>,
                                 !.output = << >>],
                 !.frees = @ + 1]

\* Mutant of CheckTermination: the entry goes before the peer's close is in.
CheckTerminationEarly(r) ==
  IF r.c.type # "FREE" /\ Flags \ {"CLOSE_RECEIVED"} \subseteq r.c.flags
  THEN ChannelFree(r) ELSE r

\* Only the flags are tested, never the type.
CheckTermination(r) == IF r.c.flags = Flags THEN ChannelFree(r) ELSE r

\* Mutant of SendIeof: the entry is left behind when its eof is the last of the
\* six.
SendIeofUnchecked(r) ==
  IF HasFlag(r, "EOF_SENT") THEN r
  ELSE SendClose(SetFlag(r, "EOF_SENT"), "INPUT_EOF")

SendIeof(r) ==
  IF HasFlag(r, "EOF_SENT") THEN r
  ELSE CheckTermination(SendClose(SetFlag(r, "EOF_SENT"), "INPUT_EOF"))

\* Mutant of SendOclosed: the close is sent but not noted.
SendOclosedUnmarked(r) == CheckTermination(SendClose(r, "OUTPUT_CLOSED"))

SendOclosed(r) ==
  IF HasFlag(r, "CLOSE_SENT") THEN r
  ELSE CheckTermination(SendClose(SetFlag(r, "CLOSE_SENT"), "OUTPUT_CLOSED"))

\* Mutant of CloseInput: the eof overtakes the buffered input.
CloseInputAtOnce(r) ==
  IF HasFlag(r, "INPUT_CLOSED") THEN r ELSE SendIeof(SetFlag(r, "INPUT_CLOSED"))

\* The buffered input stays: it is drained over the connection first, and
\* channel_output_poll sends the eof when it is empty.
CloseInput(r) ==
  IF HasFlag(r, "INPUT_CLOSED") THEN r
  ELSE LET s == SetFlag(r, "INPUT_CLOSED")
       IN  IF s.c.type = "OPEN" THEN s ELSE SendIeof(s)

\* The buffered output is discarded.
CloseOutput(r) ==
  IF HasFlag(r, "OUTPUT_CLOSED") THEN r
  ELSE SendOclosed([SetFlag(r, "OUTPUT_CLOSED") EXCEPT !.c.output = << >>])

\* packet_disconnect does not return: the rest of the handler is not run.
ReceiveIeof(r) ==
  IF HasFlag(r, "EOF_RECEIVED") THEN [r EXCEPT !.fault = "double eof"]
  ELSE LET marked == SetFlag(r, "EOF_RECEIVED")
           xfixed == IF marked.c.isx THEN CloseInput(marked) ELSE marked
           closed == IF xfixed.c.type = "OPEN" THEN xfixed
                     ELSE CloseOutput(xfixed)
       IN  CheckTermination(closed)

ReceiveOclosed(r) ==
  IF HasFlag(r, "CLOSE_RECEIVED") THEN [r EXCEPT !.fault = "double close"]
  ELSE CheckTermination(CloseInput(
         [SetFlag(r, "CLOSE_RECEIVED") EXCEPT !.c.input = << >>]))

\* The refusal of an X11 connection whose first packet has bad credentials
\* (label reject of channel_prepare_select).
RejectX11(r) ==
  CloseOutput(CloseInput(
    [r EXCEPT !.c = [@ EXCEPT !.type = "OPEN", !.input = << >>,
                              !.output = << >>]]))
=============================================================================
