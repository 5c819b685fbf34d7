----------------------------- MODULE ByteQueue ------------------------------
(***************************************************************************)
(* What a buffer is for: a queue that data is added to at the end, and     *)
(* taken from at either end.                                               *)
(***************************************************************************)
EXTENDS Naturals, Sequences

CONSTANT Unit      \* what the queue holds

VARIABLE content

Init == content = << >>

Add == \E data \in Seq(Unit) : content' = content \o data

TakeFirst == \E n \in 0 .. Len(content) : content' = SubSeq(content, n + 1, Len(content))

TakeLast == \E n \in 0 .. Len(content) : content' = SubSeq(content, 1, Len(content) - n)

Clear == content' = << >>

Spec == Init /\ [][Add \/ TakeFirst \/ TakeLast \/ Clear]_content
=============================================================================
