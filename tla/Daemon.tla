------------------------------- MODULE Daemon -------------------------------
(***************************************************************************)
(* sshd as a daemon (main of sshd.c up to the child's part, and the        *)
(* signal handlers above it): the loop that accepts connections and forks  *)
(* a child for each, SIGHUP, SIGALRM and SIGCHLD arriving between any two  *)
(* of its steps, and the children as far as the daemon knows of them.      *)
(* Not modelled: inetd and debugging mode, which do not loop.              *)
(***************************************************************************)
EXTENDS Naturals, Sequences, FiniteSets

CONSTANTS
  Setups,     \* how the daemon may be configured and built
  MaxConns,   \* bound: connections made
  MaxHups,    \* bound: SIGHUPs sent
  QueueSize   \* 5 in the code: the backlog given to listen

Setup ==
  [regen : BOOLEAN,      \* key_regeneration_time is not 0
   restarts : BOOLEAN,   \* signal() lets accept go on after a handler (BSD)
   aborts : BOOLEAN]     \* a client that gives up leaves the queue (BSD)

ASSUME DaemonAssumption ==
  /\ Setups \subseteq Setup
  /\ {MaxConns, MaxHups, QueueSize} \subseteq Nat

VARIABLES
  cfg,      \* the set-up
  d,        \* the daemon
  sig,      \* signals pending for it
  kids,     \* its children, in the order they were forked
  queue,    \* connections waiting to be accepted
  sent      \* history: connections made, SIGHUPs sent

vars == <<cfg, d, sig, kids, queue, sent>>

Init ==
  /\ cfg \in Setups
  /\ d = [pc |-> "exec", pid |-> 0, key |-> 0, used |-> FALSE, hup |-> FALSE,
          ready |-> FALSE, alarm |-> FALSE, turn |-> TRUE, pool |-> 0, age |-> 0]
  /\ sig = {} /\ kids = << >> /\ queue = 0
  /\ sent = [conns |-> 0, hups |-> 0]

Alive     == d.pc # "dead"
Listening == d.pc \notin {"exec", "bind", "dead"}
Given(key) == \E i \in DOMAIN kids : kids[i].key = key
Mine(i)   == kids[i].parent = d.pid

-----------------------------------------------------------------------------
(* Starting and restarting.  The signals have their default action until   *)
(* the handlers are installed, after the key was generated.                *)

\* daemon(): a child goes on, without the alarm and the signals of the process
\* that was executed; init takes over the children it had.
Daemonize ==
  /\ d.pc = "exec"
  /\ d' = [d EXCEPT !.pc = "bind", !.pid = @ + 1, !.alarm = FALSE, !.turn = TRUE]
  /\ sig' = {}
  /\ kids' = [i \in DOMAIN kids |->
                IF kids[i].pc = "zombie" THEN [kids[i] EXCEPT !.pc = "gone"] ELSE kids[i]]
  /\ UNCHANGED <<cfg, queue, sent>>

\* A child that has not yet closed the listening socket keeps the port.
Bind ==
  /\ d.pc = "bind"
  /\ d' = [d EXCEPT !.pc = IF \E i \in DOMAIN kids : kids[i].pc = "new" THEN "dead"
                           ELSE "generate"]
  /\ UNCHANGED <<cfg, sig, kids, queue, sent>>

\* The first key of this process, and the handlers.
Prepare ==
  /\ d.pc = "generate"
  /\ d' = [d EXCEPT !.pc = "test", !.key = @ + 1, !.used = FALSE, !.hup = FALSE, !.age = 0,
                    !.pool = @ + 1, !.ready = TRUE, !.alarm = cfg.regen]
  /\ UNCHANGED <<cfg, sig, kids, queue, sent>>

-----------------------------------------------------------------------------
(* The loop.                                                               *)

\* received_sighup is tested; sighup_restart closes the socket and executes
\* the program again, with the alarm still running.
Test ==
  /\ d.pc = "test"
  /\ IF d.hup
     THEN /\ d' = [d EXCEPT !.pc = "exec", !.ready = FALSE]
          /\ queue' = 0
     ELSE /\ d' = [d EXCEPT !.pc = "tested"]
          /\ UNCHANGED queue
  /\ UNCHANGED <<cfg, sig, kids, sent>>

EnterSelect ==
  /\ d.pc = "tested"
  /\ d' = [d EXCEPT !.pc = "select", !.turn = TRUE]
  /\ UNCHANGED <<cfg, sig, kids, queue, sent>>

Select ==
  /\ d.pc = "select" /\ queue > 0
  /\ d' = [d EXCEPT !.pc = "accept"]
  /\ UNCHANGED <<cfg, sig, kids, queue, sent>>

\* Mutant: the queue is not looked at.
AcceptBlindly ==
  /\ d.pc \in {"accept", "blocked"}
  /\ d' = [d EXCEPT !.pc = "fork"]
  /\ queue' = queue - 1
  /\ UNCHANGED <<cfg, sig, kids, sent>>

\* accept gives a connection or fails; with none left it waits.
Accept ==
  /\ \/ /\ d.pc \in {"accept", "blocked"} /\ queue > 0
        /\ \E pc \in {"fork", "test"} : d' = [d EXCEPT !.pc = pc]
        /\ queue' = queue - 1
     \/ /\ d.pc = "accept" /\ queue = 0
        /\ d' = [d EXCEPT !.pc = "blocked", !.turn = TRUE]
        /\ UNCHANGED queue
  /\ UNCHANGED <<cfg, sig, kids, sent>>

\* The child gets a copy of everything; or fork fails.
Fork ==
  /\ d.pc = "fork"
  /\ \/ kids' = Append(kids, [pc |-> "new", parent |-> d.pid, key |-> d.key, pool |-> d.pool])
     \/ kids' = kids
  /\ d' = [d EXCEPT !.pc = "forked"]
  /\ UNCHANGED <<cfg, sig, queue, sent>>

\* Mutant: the assignment is missing.
MarkNothing ==
  /\ d.pc = "forked"
  /\ d' = [d EXCEPT !.pc = "noise"]
  /\ UNCHANGED <<cfg, sig, kids, queue, sent>>

MarkUsed ==
  /\ d.pc = "forked"
  /\ d' = [d EXCEPT !.pc = "noise", !.used = TRUE]
  /\ UNCHANGED <<cfg, sig, kids, queue, sent>>

\* Mutant: noise is acquired when a key is generated only.
NoNoise ==
  /\ d.pc = "noise"
  /\ d' = [d EXCEPT !.pc = "test"]
  /\ UNCHANGED <<cfg, sig, kids, queue, sent>>

\* random_acquire_light_environmental_noise: from here on the pool is another
\* than the child's.
Noise ==
  /\ d.pc = "noise"
  /\ d' = [d EXCEPT !.pc = "test", !.pool = @ + 1]
  /\ UNCHANGED <<cfg, sig, kids, queue, sent>>

LoopStep ==
  \/ Daemonize \/ Bind \/ Prepare \/ Test \/ EnterSelect \/ Select \/ Accept \/ Fork
  \/ MarkUsed \/ Noise

-----------------------------------------------------------------------------
(* The handlers, which run between any two steps of the loop.              *)

\* select is interrupted by any handler, accept unless it is restarted.
Interrupted(me) ==
  IF me.pc = "select" \/ (me.pc = "blocked" /\ ~cfg.restarts)
  THEN [me EXCEPT !.pc = "test"] ELSE me

\* sighup_handler; without it the signal kills.
HandleHup ==
  /\ "HUP" \in sig /\ Alive
  /\ d' = IF d.ready THEN [Interrupted(d) EXCEPT !.hup = TRUE] ELSE [d EXCEPT !.pc = "dead"]
  /\ sig' = sig \ {"HUP"}
  /\ UNCHANGED <<cfg, kids, queue, sent>>

\* Mutant: the alarm is not set again.
HandleAlarmOnce ==
  /\ "ALRM" \in sig /\ Alive
  /\ d' = IF d.ready THEN Interrupted(d) ELSE [d EXCEPT !.pc = "dead"]
  /\ sig' = sig \ {"ALRM"}
  /\ UNCHANGED <<cfg, kids, queue, sent>>

\* key_regeneration_alarm: a key that was used is replaced, wherever the loop
\* is; age counts the alarms a key that was given to a child has survived.
Regenerated(me) ==
  [me EXCEPT !.key = @ + 1, !.used = FALSE, !.pool = @ + 1, !.age = 0]
HandleAlarm ==
  /\ "ALRM" \in sig /\ Alive
  /\ LET next == IF d.used THEN Regenerated(d)
                 ELSE [d EXCEPT !.age = IF Given(d.key) THEN @ + 1 ELSE 0]
     IN  d' = IF d.ready THEN [Interrupted(next) EXCEPT !.alarm = TRUE, !.turn = FALSE]
              ELSE [d EXCEPT !.pc = "dead"]
  /\ sig' = sig \ {"ALRM"}
  /\ UNCHANGED <<cfg, kids, queue, sent>>

\* Mutant: one child is reaped, as the code does without waitpid.
HandleChildOnce ==
  /\ "CHLD" \in sig /\ Alive
  /\ d' = Interrupted(d)
  /\ \E i \in DOMAIN kids :
       /\ Mine(i) /\ kids[i].pc = "zombie"
       /\ kids' = [kids EXCEPT ![i].pc = "gone"]
  /\ sig' = sig \ {"CHLD"}
  /\ UNCHANGED <<cfg, queue, sent>>

\* main_sigchld_handler reaps all there are; without it nothing happens.
HandleChild ==
  /\ "CHLD" \in sig /\ Alive
  /\ IF d.ready
     THEN /\ d' = Interrupted(d)
          /\ kids' = [i \in DOMAIN kids |->
                        IF Mine(i) /\ kids[i].pc = "zombie"
                        THEN [kids[i] EXCEPT !.pc = "gone"] ELSE kids[i]]
     ELSE UNCHANGED <<d, kids>>
  /\ sig' = sig \ {"CHLD"}
  /\ UNCHANGED <<cfg, queue, sent>>

Handlers == HandleHup \/ HandleAlarm \/ HandleChild

-----------------------------------------------------------------------------
(* The world: signals, connections, the children, SIGTERM.                 *)

Hangup ==
  /\ Alive /\ sent.hups < MaxHups
  /\ sig' = sig \cup {"HUP"}
  /\ sent' = [sent EXCEPT !.hups = @ + 1]
  /\ UNCHANGED <<cfg, d, kids, queue>>

\* A period is longer than a turn of the loop, which is what turn says.
AlarmRings ==
  /\ Alive /\ d.alarm /\ d.turn
  /\ d' = [d EXCEPT !.alarm = FALSE]
  /\ sig' = sig \cup {"ALRM"}
  /\ UNCHANGED <<cfg, kids, queue, sent>>

Terminate ==
  /\ Alive
  /\ d' = [d EXCEPT !.pc = "dead"]
  /\ UNCHANGED <<cfg, sig, kids, queue, sent>>

Connect ==
  /\ Listening /\ queue < QueueSize /\ sent.conns < MaxConns
  /\ queue' = queue + 1
  /\ sent' = [sent EXCEPT !.conns = @ + 1]
  /\ UNCHANGED <<cfg, d, sig, kids>>

GiveUp ==
  /\ cfg.aborts /\ queue > 0
  /\ queue' = queue - 1
  /\ UNCHANGED <<cfg, d, sig, kids, sent>>

\* The child closes the listening socket and resets the signals.
ChildStarts(i) ==
  /\ kids[i].pc = "new"
  /\ kids' = [kids EXCEPT ![i].pc = "serving"]
  /\ UNCHANGED <<cfg, d, sig, queue, sent>>

ChildEnds(i) ==
  /\ kids[i].pc = "serving"
  /\ IF Mine(i) /\ Alive
     THEN /\ kids' = [kids EXCEPT ![i].pc = "zombie"]
          /\ sig' = sig \cup {"CHLD"}
     ELSE /\ kids' = [kids EXCEPT ![i].pc = "gone"]
          /\ UNCHANGED sig
  /\ UNCHANGED <<cfg, d, queue, sent>>

World ==
  \/ Hangup \/ AlarmRings \/ Terminate \/ Connect \/ GiveUp
  \/ \E i \in DOMAIN kids : ChildStarts(i) \/ ChildEnds(i)

Next == LoopStep \/ Handlers \/ World

Spec == Init /\ [][Next]_vars

\* The daemon runs, signals are delivered, and the alarm goes off.
FairSpec ==
  /\ Spec
  /\ WF_vars(LoopStep) /\ WF_vars(HandleHup) /\ WF_vars(HandleAlarm) /\ WF_vars(HandleChild)
  /\ WF_vars(AlarmRings)
=============================================================================
