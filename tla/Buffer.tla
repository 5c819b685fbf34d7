------------------------------- MODULE Buffer -------------------------------
(***************************************************************************)
(* The growing byte buffers of buffer.c: an allocated region of memory, of *)
(* which offset .. end-1 is in use.  mem is what that part holds; what is  *)
(* outside it was never written, or was consumed, and is not represented.  *)
(* The units of data are left open.                                        *)
(***************************************************************************)
EXTENDS Integers, Sequences

CONSTANTS
  InitialAlloc,  \* 4096 in the code
  Increment      \* 4096 in the code: how much more than asked for is allocated

ASSUME BufferAssumption ==
  /\ InitialAlloc \in Nat \ {0}
  /\ Increment \in Nat \ {0}

\* What every function below needs and leaves.
WellFormed(b) ==
  /\ b.offset \in Nat /\ b.end \in Nat /\ b.alloc \in Nat
  /\ b.offset <= b.end /\ b.end <= b.alloc
  /\ b.mem = [i \in b.offset .. b.end - 1 |-> b.mem[i]]

buffer_init == [mem |-> << >>, offset |-> 0, end |-> 0, alloc |-> InitialAlloc]

buffer_len(b) == b.end - b.offset

buffer_clear(b) == [mem |-> << >>, offset |-> 0, end |-> 0, alloc |-> b.alloc]

\* The bytes at buffer_ptr, in order.
Contents(b) == [i \in 1 .. buffer_len(b) |-> b.mem[b.offset + i - 1]]

-----------------------------------------------------------------------------
(* buffer_append_space.                                                    *)

\* Mutant: the data already there is forgotten.
FitsAlone(b, len) == len < b.alloc

Fits(b, len) == b.end + len < b.alloc

\* The data moves to the beginning.
Moved(b) ==
  [mem |-> [i \in 0 .. buffer_len(b) - 1 |-> b.mem[b.offset + i]],
   offset |-> 0, end |-> buffer_len(b), alloc |-> b.alloc]

\* An empty buffer starts over; the loop ends with a buffer that has room, after
\* at most one move and one enlargement.
Restarted(b) == IF b.offset = b.end THEN buffer_clear(b) ELSE b

Compacted(b, len) == IF ~Fits(b, len) /\ b.offset > b.alloc \div 2 THEN Moved(b) ELSE b

Enlarged(b, len) == IF Fits(b, len) THEN b ELSE [b EXCEPT !.alloc = @ + len + Increment]

WithRoom(b, len) == Enlarged(Compacted(Restarted(b), len), len)

\* buffer_append_space, and the data copied to the place it returned.
Extended(b, data) ==
  [mem |-> [i \in b.offset .. b.end + Len(data) - 1 |->
              IF i < b.end THEN b.mem[i] ELSE data[i - b.end + 1]],
   offset |-> b.offset, end |-> b.end + Len(data), alloc |-> b.alloc]

buffer_append(b, data) == Extended(WithRoom(b, Len(data)), data)

-----------------------------------------------------------------------------
(* Consuming; the callers ask for no more than there is (or it is fatal).  *)

buffer_consume(b, n) ==
  [mem |-> [i \in b.offset + n .. b.end - 1 |-> b.mem[i]],
   offset |-> b.offset + n, end |-> b.end, alloc |-> b.alloc]

buffer_consume_end(b, n) ==
  [mem |-> [i \in b.offset .. b.end - n - 1 |-> b.mem[i]],
   offset |-> b.offset, end |-> b.end - n, alloc |-> b.alloc]

=============================================================================
