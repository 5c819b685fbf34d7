------------------------------ MODULE MCDaemon ------------------------------
(***************************************************************************)
(* The properties of Daemon that TLC checks, and its instances.            *)
(***************************************************************************)
EXTENDS Daemon

Server ==
  [pc : {"exec", "bind", "generate", "test", "tested", "select", "accept", "blocked",
         "fork", "forked", "noise", "dead"},
   pid : Nat, key : Nat, used : BOOLEAN, hup : BOOLEAN, ready : BOOLEAN, alarm : BOOLEAN,
   turn : BOOLEAN, pool : Nat, age : Nat]

Kid == [pc : {"new", "serving", "zombie", "gone"}, parent : Nat, key : Nat, pool : Nat]

\* The daemon, its signals and its children keep their types, and the daemon
\* accepts no more connections than were made.
TypeOK ==
  /\ cfg \in Setups
  /\ d \in Server
  /\ sig \subseteq {"HUP", "ALRM", "CHLD"}
  /\ kids \in Seq(Kid)
  /\ queue \in 0 .. QueueSize

\* However key_regeneration_alarm falls between fork and key_used = 1, or into
\* a restart, a server key that was given to a child survives one alarm at
\* most: the second replaces it.
KeyTurnsOver == d.age =< 1

\* No two children start with the same random pool, whichever handlers run
\* between the forks, and also when the daemon was restarted.
FreshPools == \A i, j \in DOMAIN kids : i # j => kids[i].pool # kids[j].pool

\* A child that has ended is not forgotten: SIGCHLD is still to be handled,
\* also when several children ended while one signal was pending.
NoZombieForgotten ==
  (d.ready /\ Alive /\ \E i \in DOMAIN kids : kids[i].pc = "zombie") => "CHLD" \in sig

\* A SIGHUP that the handler takes leads to a restart, also when it falls
\* between the test of received_sighup and select, or into a wait in accept for
\* a client that has gone: the regeneration alarm interrupts either wait.
HangupHeard == (d.ready /\ ("HUP" \in sig \/ d.hup)) ~> ~d.ready \/ ~Alive

-----------------------------------------------------------------------------
\* Without a regeneration alarm, and where accept is restarted after a signal,
\* HangupHeard does not hold: the SIGHUP waits for the next connection.
AllSetups == {x \in Setup : x.regen /\ ~(x.restarts /\ x.aborts)}
=============================================================================
