------------------------------- MODULE MCScp --------------------------------
(***************************************************************************)
(* Instances of Scp for TLC: a directory in a directory with a file and    *)
(* something that is no file, an empty directory, and files of two blocks, *)
(* of one and of none.                                                     *)
(***************************************************************************)
EXTENDS Scp

File(n)  == [kind |-> "file", size |-> n]
Dir(s)   == [kind |-> "dir", of |-> s]
AnOther  == [kind |-> "other"]

Inner == Dir(<<AnOther, File(1)>>)
Outer == Dir(<<File(1), Inner>>)
Trees == { <<Outer, File(0)>>, <<File(2), Dir(<< >>), File(1)>> }
Everything == {File(0), File(1), File(2), AnOther, Dir(<< >>), Inner, Outer}

\* Every combination of the options, and a client that had an error with another
\* server before.
EveryCopy ==
  {s \in [client : {"source", "sink"}, pflag : BOOLEAN, targetshouldbedirectory : BOOLEAN,
          earlier : BOOLEAN, files : Trees] : s.earlier => s.client = "sink"}

\* A group's file, written to with -p by one who does not own it, and another one.
TwoFiles ==
  {[client |-> "source", pflag |-> TRUE, targetshouldbedirectory |-> TRUE,
    earlier |-> FALSE, files |-> <<File(1), File(1)>>]}
=============================================================================
