---------------------------- MODULE DaemonProofs ----------------------------
(***************************************************************************)
(* The safety properties of Daemon, for every set-up, any number of        *)
(* connections and SIGHUPs, and any backlog.                               *)
(***************************************************************************)
EXTENDS MCDaemon, SequenceTheorems, TLAPS

-----------------------------------------------------------------------------
(* The inductive invariant.                                                *)

\* Outside the steps between fork and the noise that follows it the daemon's pool is
\* ahead of every child's.
Pools ==
  /\ \A i \in DOMAIN kids : kids[i].pool <= d.pool
  /\ d.pc \notin {"forked", "noise", "dead"} => \A i \in DOMAIN kids : kids[i].pool < d.pool
  /\ FreshPools

\* A key that was given away is marked, but between fork and key_used = 1.  There an
\* alarm may pass it over, once: the next needs another turn of the loop.
Keys ==
  /\ \A i \in DOMAIN kids : kids[i].key <= d.key
  /\ Given(d.key) => d.used \/ d.pc \in {"forked", "dead"}
  /\ "ALRM" \in sig => d.turn
  /\ KeyTurnsOver
  /\ d.age = 1 => d.used \/ d.pc = "dead" \/ (d.pc = "forked" /\ ~d.turn)

\* The zombies are children of this incarnation, which has none until its handler is
\* installed.
Zombies ==
  /\ \A i \in DOMAIN kids : kids[i].parent <= d.pid
  /\ d.pc \in {"bind", "generate"} => \A i \in DOMAIN kids : kids[i].parent < d.pid
  /\ \A i \in DOMAIN kids : kids[i].pc = "zombie" => Mine(i)
  /\ NoZombieForgotten

IInv == TypeOK /\ Pools /\ Keys /\ Zombies

-----------------------------------------------------------------------------
(* Lemmas on sequences of children.                                        *)

\* A function on the places of a sequence is a sequence of the same length.
LEMMA SamePlaces ==
  ASSUME NEW S, NEW q \in Seq(S), NEW T, NEW f \in [DOMAIN q -> T]
  PROVE  f \in Seq(T) /\ DOMAIN f = DOMAIN q
<1>1. DOMAIN q = 1 .. Len(q) /\ Len(q) \in Nat
  BY LenProperties
<1>2. f \in UNION {[1 .. n -> T] : n \in Nat}
  BY <1>1
<1> QED BY <1>1, <1>2, SeqDef

\* Each child as it was, but for its state.
Follows(q, r) ==
  /\ DOMAIN r = DOMAIN q
  /\ \A i \in DOMAIN q : /\ r[i] \in Kid
                          /\ r[i].parent = q[i].parent /\ r[i].key = q[i].key
                          /\ r[i].pool = q[i].pool

\* One that changes its state.
LEMMA Moved ==
  ASSUME NEW k \in Kid, NEW x \in {"new", "serving", "zombie", "gone"},
         NEW m, m = [k EXCEPT !.pc = x]
  PROVE  /\ m \in Kid /\ m.pc = x
         /\ m.parent = k.parent /\ m.key = k.key /\ m.pool = k.pool
BY DEF Kid

\* What holds of each child holds of the sequence.
LEMMA AllFollow ==
  ASSUME NEW q \in Seq(Kid), NEW T, NEW r \in [DOMAIN q -> T],
         \A j \in DOMAIN q : /\ r[j] \in Kid
                             /\ r[j].parent = q[j].parent /\ r[j].key = q[j].key
                             /\ r[j].pool = q[j].pool
  PROVE  r \in Seq(Kid) /\ Follows(q, r)
<1>1. r \in [DOMAIN q -> Kid]
  OBVIOUS
<1> QED BY <1>1, SamePlaces DEF Follows

\* One does.
Moving(q, i, x) == [q EXCEPT ![i].pc = x]

LEMMA OneMoves ==
  ASSUME NEW q \in Seq(Kid), NEW i \in DOMAIN q, NEW x \in {"new", "serving", "zombie", "gone"},
         NEW r, r = Moving(q, i, x)
  PROVE  /\ r \in Seq(Kid) /\ Follows(q, r)
         /\ \A j \in DOMAIN q : r[j].pc \in {x, q[j].pc} /\ (j # i => r[j].pc = q[j].pc)
<1>1. q \in [DOMAIN q -> Kid]
  BY SeqDef
<1>2. PICK m : m = [q[i] EXCEPT !.pc = x]
  OBVIOUS
<1>3. r = [q EXCEPT ![i] = m]
  BY <1>2 DEF Moving
<1>4. /\ m \in Kid /\ m.pc = x
      /\ m.parent = q[i].parent /\ m.key = q[i].key /\ m.pool = q[i].pool
  BY <1>1, <1>2, Moved
<1>5. r \in [DOMAIN q -> Kid] /\ r[i] = m /\ \A j \in DOMAIN q \ {i} : r[j] = q[j]
  BY <1>1, <1>3, <1>4
<1> QED BY <1>1, <1>4, <1>5, AllFollow

\* One is added.
LEMMA OneMore ==
  ASSUME NEW q \in Seq(Kid), NEW k \in Kid, NEW r, r = Append(q, k)
  PROVE  /\ r \in Seq(Kid)
         /\ DOMAIN q = 1 .. Len(q) /\ Len(q) \in Nat
         /\ DOMAIN r = DOMAIN q \cup {Len(q) + 1} /\ Len(q) + 1 \notin DOMAIN q
         /\ r[Len(q) + 1] = k
         /\ \A j \in DOMAIN q : r[j] = q[j]
<1>1. r \in Seq(Kid) /\ Len(r) = Len(q) + 1
  BY AppendProperties
<1>2. DOMAIN q = 1 .. Len(q) /\ DOMAIN r = 1 .. Len(r) /\ Len(q) \in Nat
  BY <1>1, LenProperties
<1>3. r[Len(q) + 1] = k /\ \A j \in 1 .. Len(q) : r[j] = q[j]
  BY AppendProperties
<1> QED BY <1>1, <1>2, <1>3

-----------------------------------------------------------------------------
(* Every step keeps the invariant.  First the steps that leave the         *)
(* children alone, each with what it does to the daemon.                   *)

LEMMA Typed == ASSUME IInv
               PROVE  /\ d \in Server /\ cfg \in Setup /\ queue \in Nat /\ QueueSize \in Nat
                      /\ kids \in Seq(Kid) /\ \A i \in DOMAIN kids : kids[i] \in Kid
<1>1. /\ d \in Server /\ cfg \in Setup /\ QueueSize \in Nat
      /\ kids \in Seq(Kid)
  BY DaemonAssumption DEF IInv, TypeOK, Server, Kid
<1>2. queue \in Nat
  BY <1>1 DEF IInv, TypeOK
<1>3. \A i \in DOMAIN kids : kids[i] \in Kid
  BY <1>1, SeqDef
<1> QED BY <1>1, <1>2, <1>3

LEMMA BindKeeps == ASSUME IInv, Bind PROVE IInv'
<1>1. /\ d \in Server /\ cfg \in Setup /\ queue \in Nat /\ QueueSize \in Nat
      /\ \A i \in DOMAIN kids : kids[i] \in Kid
  BY Typed
<1>2. d' \in Server
  BY <1>1 DEF Bind, Server, Setup
<1>3. /\ d.pc = "bind" /\ d'.pc \in {"dead", "generate"}
      /\ d'.pid = d.pid /\ d'.key = d.key /\ d'.used = d.used /\ d'.hup = d.hup
         /\ d'.ready = d.ready /\ d'.alarm = d.alarm /\ d'.turn = d.turn /\ d'.pool = d.pool
            /\ d'.age = d.age
  BY <1>1 DEF Bind, Server, Setup
<1>4. kids' = kids /\ sig' = sig /\ queue' = queue /\ cfg' = cfg
  BY DEF Bind
<1>5. TypeOK'
  BY <1>1, <1>2, <1>3, <1>4 DEF IInv, TypeOK, Server
<1>6. Pools'
  BY <1>1, <1>2, <1>3, <1>4 DEF IInv, Pools, FreshPools, Server, Kid
<1>7. Keys'
  BY <1>1, <1>2, <1>3, <1>4 DEF IInv, Keys, KeyTurnsOver, Given, Server, Kid
<1>8. Zombies'
  BY <1>1, <1>2, <1>3, <1>4 DEF IInv, Zombies, NoZombieForgotten, Mine, Alive, Server, Kid
<1> QED BY <1>5, <1>6, <1>7, <1>8 DEF IInv

LEMMA PrepareKeeps == ASSUME IInv, Prepare PROVE IInv'
<1>1. /\ d \in Server /\ cfg \in Setup /\ queue \in Nat /\ QueueSize \in Nat
      /\ \A i \in DOMAIN kids : kids[i] \in Kid
  BY Typed
<1>2. d' \in Server
  <2>1. PICK key \in Nat, pool \in Nat, alarm \in BOOLEAN :
          key = d.key + 1 /\ pool = d.pool + 1 /\ alarm = cfg.regen
    BY <1>1 DEF Server, Setup
  <2>2. d' = [d EXCEPT !.pc = "test", !.key = key, !.used = FALSE, !.hup = FALSE, !.age = 0,
                     !.pool = pool, !.ready = TRUE, !.alarm = alarm]
    BY <2>1 DEF Prepare
  <2> QED BY <1>1, <2>2 DEF Server
<1>3. /\ d.pc = "generate" /\ d'.pc = "test" /\ d'.key = d.key + 1 /\ ~d'.used /\ d'.age = 0
      /\ d'.pool = d.pool + 1 /\ d'.ready /\ d'.pid = d.pid /\ d'.turn = d.turn
  BY <1>1 DEF Prepare, Server, Setup
<1>4. kids' = kids /\ sig' = sig /\ queue' = queue /\ cfg' = cfg
  BY DEF Prepare
<1>5. TypeOK'
  BY <1>1, <1>2, <1>3, <1>4 DEF IInv, TypeOK, Server
<1>6. Pools'
  BY <1>1, <1>2, <1>3, <1>4 DEF IInv, Pools, FreshPools, Server, Kid
<1>7. Keys'
  BY <1>1, <1>2, <1>3, <1>4 DEF IInv, Keys, KeyTurnsOver, Given, Server, Kid
<1>8. Zombies'
  BY <1>1, <1>2, <1>3, <1>4 DEF IInv, Zombies, NoZombieForgotten, Mine, Alive, Server, Kid
<1> QED BY <1>5, <1>6, <1>7, <1>8 DEF IInv

LEMMA TestKeeps == ASSUME IInv, Test PROVE IInv'
<1>1. /\ d \in Server /\ cfg \in Setup /\ queue \in Nat /\ QueueSize \in Nat
      /\ \A i \in DOMAIN kids : kids[i] \in Kid
  BY Typed
<1>2. d' \in Server
  BY <1>1 DEF Test, Server, Setup
<1>3. /\ d.pc = "test" /\ d'.pc \in {"exec", "tested"} /\ d'.ready \in {d.ready, FALSE}
      /\ d'.pid = d.pid /\ d'.key = d.key /\ d'.used = d.used /\ d'.hup = d.hup
         /\ d'.alarm = d.alarm /\ d'.turn = d.turn /\ d'.pool = d.pool /\ d'.age = d.age
      /\ queue' \in {queue, 0}
  BY <1>1 DEF Test, Server, Setup
<1>4. kids' = kids /\ sig' = sig /\ cfg' = cfg
  BY DEF Test
<1>5. TypeOK'
  BY <1>1, <1>2, <1>3, <1>4 DEF IInv, TypeOK, Server
<1>6. Pools'
  BY <1>1, <1>2, <1>3, <1>4 DEF IInv, Pools, FreshPools, Server, Kid
<1>7. Keys'
  BY <1>1, <1>2, <1>3, <1>4 DEF IInv, Keys, KeyTurnsOver, Given, Server, Kid
<1>8. Zombies'
  BY <1>1, <1>2, <1>3, <1>4 DEF IInv, Zombies, NoZombieForgotten, Mine, Alive, Server, Kid
<1> QED BY <1>5, <1>6, <1>7, <1>8 DEF IInv

LEMMA EnterSelectKeeps == ASSUME IInv, EnterSelect PROVE IInv'
<1>1. /\ d \in Server /\ cfg \in Setup /\ queue \in Nat /\ QueueSize \in Nat
      /\ \A i \in DOMAIN kids : kids[i] \in Kid
  BY Typed
<1>2. d' \in Server
  BY <1>1 DEF EnterSelect, Server, Setup
<1>3. /\ d.pc = "tested" /\ d'.pc = "select" /\ d'.turn
      /\ d'.pid = d.pid /\ d'.key = d.key /\ d'.used = d.used /\ d'.hup = d.hup
         /\ d'.ready = d.ready /\ d'.alarm = d.alarm /\ d'.pool = d.pool /\ d'.age = d.age
  BY <1>1 DEF EnterSelect, Server, Setup
<1>4. kids' = kids /\ sig' = sig /\ queue' = queue /\ cfg' = cfg
  BY DEF EnterSelect
<1>5. TypeOK'
  BY <1>1, <1>2, <1>3, <1>4 DEF IInv, TypeOK, Server
<1>6. Pools'
  BY <1>1, <1>2, <1>3, <1>4 DEF IInv, Pools, FreshPools, Server, Kid
<1>7. Keys'
  BY <1>1, <1>2, <1>3, <1>4 DEF IInv, Keys, KeyTurnsOver, Given, Server, Kid
<1>8. Zombies'
  BY <1>1, <1>2, <1>3, <1>4 DEF IInv, Zombies, NoZombieForgotten, Mine, Alive, Server, Kid
<1> QED BY <1>5, <1>6, <1>7, <1>8 DEF IInv

LEMMA SelectKeeps == ASSUME IInv, Select PROVE IInv'
<1>1. /\ d \in Server /\ cfg \in Setup /\ queue \in Nat /\ QueueSize \in Nat
      /\ \A i \in DOMAIN kids : kids[i] \in Kid
  BY Typed
<1>2. d' \in Server
  BY <1>1 DEF Select, Server, Setup
<1>3. /\ d.pc = "select" /\ d'.pc = "accept"
      /\ d'.pid = d.pid /\ d'.key = d.key /\ d'.used = d.used /\ d'.hup = d.hup
         /\ d'.ready = d.ready /\ d'.alarm = d.alarm /\ d'.turn = d.turn /\ d'.pool = d.pool
            /\ d'.age = d.age
  BY <1>1 DEF Select, Server, Setup
<1>4. kids' = kids /\ sig' = sig /\ queue' = queue /\ cfg' = cfg
  BY DEF Select
<1>5. TypeOK'
  BY <1>1, <1>2, <1>3, <1>4 DEF IInv, TypeOK, Server
<1>6. Pools'
  BY <1>1, <1>2, <1>3, <1>4 DEF IInv, Pools, FreshPools, Server, Kid
<1>7. Keys'
  BY <1>1, <1>2, <1>3, <1>4 DEF IInv, Keys, KeyTurnsOver, Given, Server, Kid
<1>8. Zombies'
  BY <1>1, <1>2, <1>3, <1>4 DEF IInv, Zombies, NoZombieForgotten, Mine, Alive, Server, Kid
<1> QED BY <1>5, <1>6, <1>7, <1>8 DEF IInv

LEMMA MarkUsedKeeps == ASSUME IInv, MarkUsed PROVE IInv'
<1>1. /\ d \in Server /\ cfg \in Setup /\ queue \in Nat /\ QueueSize \in Nat
      /\ \A i \in DOMAIN kids : kids[i] \in Kid
  BY Typed
<1>2. d' \in Server
  BY <1>1 DEF MarkUsed, Server, Setup
<1>3. /\ d.pc = "forked" /\ d'.pc = "noise" /\ d'.used
      /\ d'.pid = d.pid /\ d'.key = d.key /\ d'.hup = d.hup /\ d'.ready = d.ready
         /\ d'.alarm = d.alarm /\ d'.turn = d.turn /\ d'.pool = d.pool /\ d'.age = d.age
  BY <1>1 DEF MarkUsed, Server, Setup
<1>4. kids' = kids /\ sig' = sig /\ queue' = queue /\ cfg' = cfg
  BY DEF MarkUsed
<1>5. TypeOK'
  BY <1>1, <1>2, <1>3, <1>4 DEF IInv, TypeOK, Server
<1>6. Pools'
  BY <1>1, <1>2, <1>3, <1>4 DEF IInv, Pools, FreshPools, Server, Kid
<1>7. Keys'
  BY <1>1, <1>2, <1>3, <1>4 DEF IInv, Keys, KeyTurnsOver, Given, Server, Kid
<1>8. Zombies'
  BY <1>1, <1>2, <1>3, <1>4 DEF IInv, Zombies, NoZombieForgotten, Mine, Alive, Server, Kid
<1> QED BY <1>5, <1>6, <1>7, <1>8 DEF IInv

LEMMA NoiseKeeps == ASSUME IInv, Noise PROVE IInv'
<1>1. /\ d \in Server /\ cfg \in Setup /\ queue \in Nat /\ QueueSize \in Nat
      /\ \A i \in DOMAIN kids : kids[i] \in Kid
  BY Typed
<1>2. d' \in Server
  <2>1. PICK key \in Nat, pool \in Nat, alarm \in BOOLEAN :
          key = d.key + 1 /\ pool = d.pool + 1 /\ alarm = cfg.regen
    BY <1>1 DEF Server, Setup
  <2>2. d' = [d EXCEPT !.pc = "test", !.pool = pool]
    BY <2>1 DEF Noise
  <2> QED BY <1>1, <2>2 DEF Server
<1>3. /\ d.pc = "noise" /\ d'.pc = "test" /\ d'.pool = d.pool + 1
      /\ d'.pid = d.pid /\ d'.key = d.key /\ d'.used = d.used /\ d'.hup = d.hup
         /\ d'.ready = d.ready /\ d'.alarm = d.alarm /\ d'.turn = d.turn /\ d'.age = d.age
  BY <1>1 DEF Noise, Server, Setup
<1>4. kids' = kids /\ sig' = sig /\ queue' = queue /\ cfg' = cfg
  BY DEF Noise
<1>5. TypeOK'
  BY <1>1, <1>2, <1>3, <1>4 DEF IInv, TypeOK, Server
<1>6. Pools'
  BY <1>1, <1>2, <1>3, <1>4 DEF IInv, Pools, FreshPools, Server, Kid
<1>7. Keys'
  BY <1>1, <1>2, <1>3, <1>4 DEF IInv, Keys, KeyTurnsOver, Given, Server, Kid
<1>8. Zombies'
  BY <1>1, <1>2, <1>3, <1>4 DEF IInv, Zombies, NoZombieForgotten, Mine, Alive, Server, Kid
<1> QED BY <1>5, <1>6, <1>7, <1>8 DEF IInv

LEMMA AcceptKeeps == ASSUME IInv, Accept PROVE IInv'
<1>1. /\ d \in Server /\ cfg \in Setup /\ queue \in Nat /\ QueueSize \in Nat
      /\ \A i \in DOMAIN kids : kids[i] \in Kid
  BY Typed
<1>2. /\ d' \in Server
      /\ d.pc \in {"accept", "blocked"} /\ d'.pc \in {"fork", "test", "blocked"}
      /\ d'.turn \in {d.turn, TRUE}
      /\ d'.pid = d.pid /\ d'.key = d.key /\ d'.used = d.used /\ d'.hup = d.hup
         /\ d'.ready = d.ready /\ d'.alarm = d.alarm /\ d'.pool = d.pool /\ d'.age = d.age
  <2>1. CASE \E pc \in {"fork", "test"} : d' = [d EXCEPT !.pc = pc]
    BY <1>1, <2>1 DEF Accept, Server
  <2>2. CASE d' = [d EXCEPT !.pc = "blocked", !.turn = TRUE]
    BY <1>1, <2>2 DEF Accept, Server
  <2> QED BY <2>1, <2>2 DEF Accept
<1>3. /\ kids' = kids /\ sig' = sig /\ cfg' = cfg
      /\ queue' \in {queue, queue - 1} /\ (queue' # queue => queue > 0)
  BY DEF Accept
<1>4. TypeOK'
  BY <1>1, <1>2, <1>3 DEF IInv, TypeOK
<1>5. Pools'
  BY <1>1, <1>2, <1>3 DEF IInv, Pools, FreshPools, Server, Kid
<1>6. Keys'
  BY <1>1, <1>2, <1>3 DEF IInv, Keys, KeyTurnsOver, Given, Server, Kid
<1>7. Zombies'
  BY <1>1, <1>2, <1>3 DEF IInv, Zombies, NoZombieForgotten, Mine, Alive, Server, Kid
<1> QED BY <1>4, <1>5, <1>6, <1>7 DEF IInv

-----------------------------------------------------------------------------
(* The handlers of SIGHUP and SIGALRM.                                     *)

\* A handler ends a wait and does nothing else to the loop.
LEMMA Interruption ==
  ASSUME NEW e \in Server, NEW r, r = Interrupted(e)
  PROVE  /\ r \in Server
         /\ r.pc = e.pc \/ (e.pc \in {"select", "blocked"} /\ r.pc = "test")
         /\ r.pid = e.pid /\ r.key = e.key /\ r.used = e.used /\ r.hup = e.hup
            /\ r.ready = e.ready /\ r.alarm = e.alarm /\ r.turn = e.turn /\ r.pool = e.pool
               /\ r.age = e.age
<1>1. CASE r = e
  BY <1>1
<1>2. CASE e.pc \in {"select", "blocked"} /\ r = [e EXCEPT !.pc = "test"]
  BY <1>2 DEF Server
<1> QED BY <1>1, <1>2 DEF Interrupted

LEMMA Regeneration ==
  ASSUME NEW e \in Server, NEW r, r = Regenerated(e)
  PROVE  /\ r \in Server
         /\ r.key = e.key + 1 /\ ~r.used /\ r.pool = e.pool + 1 /\ r.age = 0
         /\ r.pid = e.pid /\ r.hup = e.hup /\ r.ready = e.ready /\ r.alarm = e.alarm
            /\ r.turn = e.turn /\ r.pc = e.pc
<1>1. PICK key \in Nat, pool \in Nat : key = e.key + 1 /\ pool = e.pool + 1
  BY DEF Server
<1>2. r = [e EXCEPT !.key = key, !.used = FALSE, !.pool = pool, !.age = 0]
  BY <1>1 DEF Regenerated
<1>3. r \in Server
  BY <1>2, key \in Nat, pool \in Nat, 0 \in Nat DEF Server
<1>4. r.key = key /\ r.pool = pool /\ ~r.used /\ r.age = 0
  BY <1>2 DEF Server
<1>5. /\ r.pid = e.pid /\ r.hup = e.hup /\ r.ready = e.ready /\ r.alarm = e.alarm
      /\ r.turn = e.turn /\ r.pc = e.pc
  BY <1>2 DEF Server
<1> QED BY <1>1, <1>3, <1>4, <1>5

LEMMA HandleHupKeeps == ASSUME IInv, HandleHup PROVE IInv'
<1>1. /\ d \in Server /\ cfg \in Setup /\ queue \in Nat /\ QueueSize \in Nat
      /\ \A i \in DOMAIN kids : kids[i] \in Kid
  BY Typed
<1>2. /\ d' \in Server
      /\ \/ d'.pc \in {d.pc, "dead"}
         \/ d.pc \in {"select", "blocked"} /\ d'.pc = "test"
      /\ d'.pid = d.pid /\ d'.key = d.key /\ d'.used = d.used /\ d'.ready = d.ready
         /\ d'.alarm = d.alarm /\ d'.turn = d.turn /\ d'.pool = d.pool /\ d'.age = d.age
  <2>1. CASE d.ready
    <3>1. PICK r : r = Interrupted(d)
      OBVIOUS
    <3>2. d' = [r EXCEPT !.hup = TRUE]
      BY <2>1, <3>1 DEF HandleHup
    <3>3. /\ r \in Server
          /\ r.pc = d.pc \/ (d.pc \in {"select", "blocked"} /\ r.pc = "test")
          /\ r.pid = d.pid /\ r.key = d.key /\ r.used = d.used /\ r.hup = d.hup
             /\ r.ready = d.ready /\ r.alarm = d.alarm /\ r.turn = d.turn /\ r.pool = d.pool
                /\ r.age = d.age
      BY <1>1, <3>1, Interruption
    <3> QED BY <1>1, <3>2, <3>3 DEF Server
  <2>2. CASE ~d.ready
    BY <1>1, <2>2 DEF HandleHup, Server
  <2> QED BY <2>1, <2>2
<1>3. kids' = kids /\ queue' = queue /\ cfg' = cfg /\ sig' = sig \ {"HUP"} /\ d.pc # "dead"
  BY DEF HandleHup, Alive
<1>4. TypeOK'
  BY <1>1, <1>2, <1>3 DEF IInv, TypeOK
<1>5. Pools'
  BY <1>1, <1>2, <1>3 DEF IInv, Pools, FreshPools, Server, Kid
<1>6. Keys'
  BY <1>1, <1>2, <1>3 DEF IInv, Keys, KeyTurnsOver, Given, Server, Kid
<1>7. Zombies'
  BY <1>1, <1>2, <1>3 DEF IInv, Zombies, NoZombieForgotten, Mine, Alive, Server, Kid
<1> QED BY <1>4, <1>5, <1>6, <1>7 DEF IInv

\* The key is replaced, or it was not used and the alarm finds the loop between
\* fork and key_used = 1, which only one alarm can.
LEMMA HandleAlarmKeeps == ASSUME IInv, HandleAlarm PROVE IInv'
<1>1. /\ d \in Server /\ cfg \in Setup /\ queue \in Nat /\ QueueSize \in Nat
      /\ \A i \in DOMAIN kids : kids[i] \in Kid
  BY Typed
<1>2. /\ kids' = kids /\ queue' = queue /\ cfg' = cfg /\ sig' = sig \ {"ALRM"}
      /\ d.pc # "dead" /\ "ALRM" \in sig
  BY DEF HandleAlarm, Alive
<1>3. CASE ~d.ready
  <2>1. /\ d' \in Server /\ d'.pc = "dead"
        /\ d'.pid = d.pid /\ d'.key = d.key /\ d'.used = d.used /\ d'.hup = d.hup
           /\ d'.ready = d.ready /\ d'.alarm = d.alarm /\ d'.turn = d.turn
              /\ d'.pool = d.pool /\ d'.age = d.age
    BY <1>1, <1>3 DEF HandleAlarm, Server
  <2>2. TypeOK'
    BY <1>1, <1>2, <2>1 DEF IInv, TypeOK
  <2>3. Pools'
    BY <1>1, <1>2, <2>1 DEF IInv, Pools, FreshPools, Server, Kid
  <2>4. Keys'
    BY <1>1, <1>2, <2>1 DEF IInv, Keys, KeyTurnsOver, Given, Server, Kid
  <2>5. Zombies'
    BY <1>1, <1>2, <2>1 DEF IInv, Zombies, NoZombieForgotten, Mine, Alive, Server, Kid
  <2> QED BY <2>2, <2>3, <2>4, <2>5 DEF IInv
<1>4. CASE d.ready
  <2>1. PICK n : n = IF d.used THEN Regenerated(d)
                     ELSE [d EXCEPT !.age = IF Given(d.key) THEN d.age + 1 ELSE 0]
    OBVIOUS
  <2>2. /\ n \in Server /\ n.pc = d.pc
        /\ n.pid = d.pid /\ n.hup = d.hup /\ n.ready = d.ready /\ n.alarm = d.alarm
           /\ n.turn = d.turn
        /\ \/ n.key = d.key + 1 /\ n.pool = d.pool + 1 /\ ~n.used /\ n.age = 0
           \/ /\ ~d.used /\ n.key = d.key /\ n.pool = d.pool /\ n.used = d.used
              /\ n.age = 0 \/ (Given(d.key) /\ n.age = d.age + 1)
    <3>1. CASE d.used
      BY <1>1, <2>1, <3>1, Regeneration
    <3>2. CASE ~d.used
      <4>1. PICK a \in Nat : a = IF Given(d.key) THEN d.age + 1 ELSE 0
        BY <1>1 DEF Server
      <4>2. n = [d EXCEPT !.age = a]
        BY <2>1, <3>2, <4>1
      <4> QED BY <1>1, <3>2, <4>1, <4>2 DEF Server
    <3> QED BY <3>1, <3>2
  <2>3. PICK r : r = Interrupted(n)
    OBVIOUS
  <2>4. d' = [r EXCEPT !.alarm = TRUE, !.turn = FALSE]
    BY <1>4, <2>1, <2>3 DEF HandleAlarm
  <2>5. /\ d' \in Server /\ ~d'.turn
        /\ d'.pc = d.pc \/ (d.pc \in {"select", "blocked"} /\ d'.pc = "test")
        /\ d'.pid = d.pid /\ d'.ready = d.ready
        /\ d'.key = n.key /\ d'.pool = n.pool /\ d'.used = n.used /\ d'.age = n.age
    <3>1. /\ r \in Server
          /\ r.pc = n.pc \/ (n.pc \in {"select", "blocked"} /\ r.pc = "test")
          /\ r.pid = n.pid /\ r.key = n.key /\ r.used = n.used /\ r.hup = n.hup
             /\ r.ready = n.ready /\ r.alarm = n.alarm /\ r.turn = n.turn /\ r.pool = n.pool
                /\ r.age = n.age
      BY <2>2, <2>3, Interruption
    <3>2. d' \in Server
      BY <2>4, <3>1 DEF Server
    <3> QED BY <2>2, <2>4, <3>1, <3>2 DEF Server
  <2>6. TypeOK'
    BY <1>1, <1>2, <2>5 DEF IInv, TypeOK
  <2>7. Pools'
    BY <1>1, <1>2, <2>2, <2>5 DEF IInv, Pools, FreshPools, Server, Kid
  <2>8. Keys'
    BY <1>1, <1>2, <2>2, <2>5 DEF IInv, Keys, KeyTurnsOver, Given, Server, Kid
  <2>9. Zombies'
    BY <1>1, <1>2, <2>5 DEF IInv, Zombies, NoZombieForgotten, Mine, Alive, Server, Kid
  <2> QED BY <2>6, <2>7, <2>8, <2>9 DEF IInv
<1> QED BY <1>3, <1>4

LEMMA HangupKeeps == ASSUME IInv, Hangup PROVE IInv'
<1>1. /\ d \in Server /\ cfg \in Setup /\ queue \in Nat /\ QueueSize \in Nat
      /\ \A i \in DOMAIN kids : kids[i] \in Kid
  BY Typed
<1>2. d' \in Server /\ d' = d
  BY <1>1 DEF Hangup, Server
<1>3. d.pc # "dead" /\ kids' = kids /\ queue' = queue /\ cfg' = cfg /\ sig' = sig \cup {"HUP"}
  BY DEF Hangup, Alive, Listening
<1>4. TypeOK'
  BY <1>1, <1>2, <1>3 DEF IInv, TypeOK
<1>5. Pools'
  BY <1>1, <1>2, <1>3 DEF IInv, Pools, FreshPools, Server, Kid
<1>6. Keys'
  BY <1>1, <1>2, <1>3 DEF IInv, Keys, KeyTurnsOver, Given, Server, Kid
<1>7. Zombies'
  BY <1>1, <1>2, <1>3 DEF IInv, Zombies, NoZombieForgotten, Mine, Alive, Server, Kid
<1> QED BY <1>4, <1>5, <1>6, <1>7 DEF IInv

LEMMA AlarmRingsKeeps == ASSUME IInv, AlarmRings PROVE IInv'
<1>1. /\ d \in Server /\ cfg \in Setup /\ queue \in Nat /\ QueueSize \in Nat
      /\ \A i \in DOMAIN kids : kids[i] \in Kid
  BY Typed
<1>2. d' \in Server /\ d'.pc = d.pc /\ d'.pid = d.pid /\ d'.key = d.key /\ d'.used = d.used
      /\ d'.hup = d.hup /\ d'.ready = d.ready /\ d'.turn = d.turn /\ d'.pool = d.pool
         /\ d'.age = d.age
  BY <1>1 DEF AlarmRings, Server
<1>3. d.pc # "dead" /\ d.turn /\ kids' = kids /\ queue' = queue /\ cfg' = cfg
      /\ sig' = sig \cup {"ALRM"}
  BY DEF AlarmRings, Alive, Listening
<1>4. TypeOK'
  BY <1>1, <1>2, <1>3 DEF IInv, TypeOK
<1>5. Pools'
  BY <1>1, <1>2, <1>3 DEF IInv, Pools, FreshPools, Server, Kid
<1>6. Keys'
  BY <1>1, <1>2, <1>3 DEF IInv, Keys, KeyTurnsOver, Given, Server, Kid
<1>7. Zombies'
  BY <1>1, <1>2, <1>3 DEF IInv, Zombies, NoZombieForgotten, Mine, Alive, Server, Kid
<1> QED BY <1>4, <1>5, <1>6, <1>7 DEF IInv

LEMMA TerminateKeeps == ASSUME IInv, Terminate PROVE IInv'
<1>1. /\ d \in Server /\ cfg \in Setup /\ queue \in Nat /\ QueueSize \in Nat
      /\ \A i \in DOMAIN kids : kids[i] \in Kid
  BY Typed
<1>2. d' \in Server /\ d'.pc = "dead" /\ d'.pid = d.pid /\ d'.key = d.key
      /\ d'.used = d.used /\ d'.hup = d.hup /\ d'.ready = d.ready /\ d'.alarm = d.alarm
         /\ d'.turn = d.turn /\ d'.pool = d.pool /\ d'.age = d.age
  BY <1>1 DEF Terminate, Server
<1>3. d.pc # "dead" /\ kids' = kids /\ queue' = queue /\ cfg' = cfg /\ sig' = sig
  BY DEF Terminate, Alive, Listening
<1>4. TypeOK'
  BY <1>1, <1>2, <1>3 DEF IInv, TypeOK
<1>5. Pools'
  BY <1>1, <1>2, <1>3 DEF IInv, Pools, FreshPools, Server, Kid
<1>6. Keys'
  BY <1>1, <1>2, <1>3 DEF IInv, Keys, KeyTurnsOver, Given, Server, Kid
<1>7. Zombies'
  BY <1>1, <1>2, <1>3 DEF IInv, Zombies, NoZombieForgotten, Mine, Alive, Server, Kid
<1> QED BY <1>4, <1>5, <1>6, <1>7 DEF IInv

LEMMA ConnectKeeps == ASSUME IInv, Connect PROVE IInv'
<1>1. /\ d \in Server /\ cfg \in Setup /\ queue \in Nat /\ QueueSize \in Nat
      /\ \A i \in DOMAIN kids : kids[i] \in Kid
  BY Typed
<1>2. d' \in Server /\ d' = d
  BY <1>1 DEF Connect, Server
<1>3. d.pc # "dead" /\ kids' = kids /\ queue' = queue + 1 /\ queue < QueueSize /\ cfg' = cfg
      /\ sig' = sig
  BY DEF Connect, Alive, Listening
<1>4. TypeOK'
  BY <1>1, <1>2, <1>3 DEF IInv, TypeOK
<1>5. Pools'
  BY <1>1, <1>2, <1>3 DEF IInv, Pools, FreshPools, Server, Kid
<1>6. Keys'
  BY <1>1, <1>2, <1>3 DEF IInv, Keys, KeyTurnsOver, Given, Server, Kid
<1>7. Zombies'
  BY <1>1, <1>2, <1>3 DEF IInv, Zombies, NoZombieForgotten, Mine, Alive, Server, Kid
<1> QED BY <1>4, <1>5, <1>6, <1>7 DEF IInv

LEMMA GiveUpKeeps == ASSUME IInv, GiveUp PROVE IInv'
<1>1. /\ d \in Server /\ cfg \in Setup /\ queue \in Nat /\ QueueSize \in Nat
      /\ \A i \in DOMAIN kids : kids[i] \in Kid
  BY Typed
<1>2. d' \in Server /\ d' = d
  BY <1>1 DEF GiveUp, Server
<1>3. kids' = kids /\ queue' = queue - 1 /\ queue > 0 /\ cfg' = cfg /\ sig' = sig
  BY DEF GiveUp, Alive, Listening
<1>4. TypeOK'
  BY <1>1, <1>2, <1>3 DEF IInv, TypeOK
<1>5. Pools'
  BY <1>1, <1>2, <1>3 DEF IInv, Pools, FreshPools, Server, Kid
<1>6. Keys'
  BY <1>1, <1>2, <1>3 DEF IInv, Keys, KeyTurnsOver, Given, Server, Kid
<1>7. Zombies'
  BY <1>1, <1>2, <1>3 DEF IInv, Zombies, NoZombieForgotten, Mine, Alive, Server, Kid
<1> QED BY <1>4, <1>5, <1>6, <1>7 DEF IInv

-----------------------------------------------------------------------------
(* The steps that change the children.                                     *)

\* What the pools and the keys say does not depend on the states of the children.
LEMMA PoolsFollow ==
  ASSUME Pools, Follows(kids, kids'), d'.pool = d.pool,
         d'.pc # d.pc => d.pc \notin {"forked", "noise", "dead"}
  PROVE  Pools'
<1>1. (\A i \in DOMAIN kids : kids[i].pool <= d.pool)'
  BY DEF Pools, Follows
<1>2. (d.pc \notin {"forked", "noise", "dead"} => \A i \in DOMAIN kids : kids[i].pool < d.pool)'
  BY DEF Pools, Follows
<1>3. FreshPools'
  BY DEF Pools, FreshPools, Follows
<1> QED BY <1>1, <1>2, <1>3 DEF Pools

LEMMA KeysFollow ==
  ASSUME Keys, Follows(kids, kids'), d'.key = d.key, d'.used = d.used, d'.age = d.age,
         d'.pc # d.pc => d.pc \notin {"forked", "dead"},
         d'.turn = d.turn \/ (d'.turn /\ d.pc # "forked"),
         "ALRM" \in sig' => "ALRM" \in sig
  PROVE  Keys'
<1>1. (\A j \in DOMAIN kids : kids[j].key <= d.key)'
  BY DEF Keys, Follows
<1>2. Given(d.key)' <=> Given(d.key)
  BY DEF Given, Follows
<1> QED BY <1>1, <1>2 DEF Keys, KeyTurnsOver

\* init takes the zombies over, the others are now another process's.
LEMMA DaemonizeKeeps == ASSUME IInv, Daemonize PROVE IInv'
<1>1. /\ d \in Server /\ queue \in Nat /\ QueueSize \in Nat /\ kids \in Seq(Kid)
      /\ \A i \in DOMAIN kids : kids[i] \in Kid
  BY Typed
<1>2. /\ d' \in Server /\ d.pc = "exec" /\ d'.pc = "bind" /\ d'.pid = d.pid + 1 /\ d'.turn
      /\ d'.key = d.key /\ d'.used = d.used /\ d'.ready = d.ready /\ d'.pool = d.pool
      /\ d'.age = d.age
  <2>1. PICK pid \in Nat : pid = d.pid + 1
    BY <1>1 DEF Server
  <2>2. d' = [d EXCEPT !.pc = "bind", !.pid = pid, !.alarm = FALSE, !.turn = TRUE]
    BY <2>1 DEF Daemonize
  <2> QED BY <1>1, <2>1, <2>2 DEF Daemonize, Server
<1>3. cfg' = cfg /\ queue' = queue /\ sig' = {}
  BY DEF Daemonize
<1>4. /\ kids' \in Seq(Kid) /\ Follows(kids, kids')
      /\ \A i \in DOMAIN kids : kids'[i].pc # "zombie"
  <2> DEFINE Taken(k) == IF k.pc = "zombie" THEN [k EXCEPT !.pc = "gone"] ELSE k
  <2>1. \A k \in Kid : /\ Taken(k) \in Kid /\ Taken(k).pc # "zombie"
                       /\ Taken(k).parent = k.parent /\ Taken(k).key = k.key
                       /\ Taken(k).pool = k.pool
    BY Moved
  <2>2. kids' = [i \in DOMAIN kids |-> Taken(kids[i])]
    BY DEF Daemonize
  <2> HIDE DEF Taken
  <2>3. kids' \in [DOMAIN kids -> Kid]
    BY <1>1, <2>1, <2>2
  <2>4. \A j \in DOMAIN kids :
          /\ kids'[j] \in Kid /\ kids'[j].pc # "zombie" /\ kids'[j].parent = kids[j].parent
          /\ kids'[j].key = kids[j].key /\ kids'[j].pool = kids[j].pool
    BY <1>1, <2>1, <2>2
  <2> QED BY <1>1, <2>3, <2>4, AllFollow
<1>5. TypeOK'
  BY <1>1, <1>2, <1>3, <1>4 DEF IInv, TypeOK
<1>6. Pools'
  BY <1>2, <1>4, PoolsFollow DEF IInv
<1>7. Keys'
  BY <1>2, <1>3, <1>4, KeysFollow DEF IInv
<1>8. Zombies'
  BY <1>1, <1>2, <1>4 DEF IInv, Zombies, NoZombieForgotten, Mine, Follows, Server, Kid
<1> QED BY <1>5, <1>6, <1>7, <1>8 DEF IInv

\* The child that is added, if any, has what the daemon has, which is ahead of the others.
LEMMA ForkKeeps == ASSUME IInv, Fork PROVE IInv'
<1>1. /\ d \in Server /\ queue \in Nat /\ QueueSize \in Nat /\ kids \in Seq(Kid)
      /\ \A i \in DOMAIN kids : kids[i] \in Kid
  BY Typed
<1>2. /\ d' \in Server /\ d.pc = "fork" /\ d'.pc = "forked" /\ d'.pid = d.pid
      /\ d'.turn = d.turn /\ d'.key = d.key /\ d'.used = d.used /\ d'.ready = d.ready
      /\ d'.pool = d.pool /\ d'.age = d.age
  BY <1>1 DEF Fork, Server
<1>3. cfg' = cfg /\ queue' = queue /\ sig' = sig
  BY DEF Fork
<1>4. CASE kids' = kids
  <2>1. TypeOK'
    BY <1>1, <1>2, <1>3, <1>4 DEF IInv, TypeOK
  <2>2. Pools'
    BY <1>1, <1>2, <1>4 DEF IInv, Pools, FreshPools, Server, Kid
  <2>3. Keys'
    BY <1>1, <1>2, <1>3, <1>4 DEF IInv, Keys, KeyTurnsOver, Given, Server, Kid
  <2>4. Zombies'
    BY <1>1, <1>2, <1>3, <1>4 DEF IInv, Zombies, NoZombieForgotten, Mine, Alive, Server, Kid
  <2> QED BY <2>1, <2>2, <2>3, <2>4 DEF IInv
<1>5. CASE kids' = Append(kids, [pc |-> "new", parent |-> d.pid, key |-> d.key, pool |-> d.pool])
  <2>1. PICK k : k = [pc |-> "new", parent |-> d.pid, key |-> d.key, pool |-> d.pool]
    OBVIOUS
  <2>2. k \in Kid /\ k.pc = "new" /\ k.parent = d.pid /\ k.key = d.key /\ k.pool = d.pool
    BY <1>1, <2>1 DEF Server, Kid
  <2>3. PICK n \in Nat :
          /\ kids' \in Seq(Kid) /\ DOMAIN kids' = DOMAIN kids \cup {n} /\ n \notin DOMAIN kids
          /\ kids'[n] = k /\ \A j \in DOMAIN kids : kids'[j] = kids[j]
    <3>1. kids' = Append(kids, k)
      BY <1>5, <2>1
    <3>2. Len(kids) + 1 \in Nat
      BY <1>1, LenProperties
    <3> QED BY <1>1, <2>2, <3>1, <3>2, OneMore
  <2>4. TypeOK'
    BY <1>1, <1>2, <1>3, <2>3 DEF IInv, TypeOK
  <2>5. Pools'
    <3>1. \A i \in DOMAIN kids : kids[i].pool < d.pool
      BY <1>2 DEF IInv, Pools
    <3>2. \A i \in DOMAIN kids' : kids'[i].pool <= d'.pool
      BY <1>1, <1>2, <2>2, <2>3, <3>1 DEF Server, Kid
    <3>3. FreshPools'
      BY <1>1, <1>2, <2>2, <2>3, <3>1 DEF IInv, Pools, FreshPools, Server, Kid
    <3> QED BY <1>2, <3>2, <3>3 DEF Pools
  <2>6. Keys'
    BY <1>1, <1>2, <1>3, <2>2, <2>3 DEF IInv, Keys, KeyTurnsOver, Given, Server, Kid
  <2>7. Zombies'
    BY <1>1, <1>2, <1>3, <2>2, <2>3
    DEF IInv, Zombies, NoZombieForgotten, Mine, Alive, Server, Kid
  <2> QED BY <2>4, <2>5, <2>6, <2>7 DEF IInv
<1> QED BY <1>4, <1>5 DEF Fork

\* Every zombie is reaped: they are all this process's.
LEMMA HandleChildKeeps == ASSUME IInv, HandleChild PROVE IInv'
<1>1. /\ d \in Server /\ queue \in Nat /\ QueueSize \in Nat /\ kids \in Seq(Kid)
      /\ \A i \in DOMAIN kids : kids[i] \in Kid
  BY Typed
<1>2. cfg' = cfg /\ queue' = queue /\ sig' = sig \ {"CHLD"} /\ d.pc # "dead"
  BY DEF HandleChild, Alive
<1>3. CASE ~d.ready
  <2>1. d' = d /\ kids' = kids
    BY <1>3 DEF HandleChild
  <2>2. TypeOK'
    BY <1>1, <1>2, <2>1 DEF IInv, TypeOK
  <2>3. Pools'
    BY <2>1 DEF IInv, Pools, FreshPools
  <2>4. Keys'
    BY <1>2, <2>1 DEF IInv, Keys, KeyTurnsOver, Given
  <2>5. Zombies'
    BY <1>3, <2>1 DEF IInv, Zombies, NoZombieForgotten, Mine
  <2> QED BY <2>2, <2>3, <2>4, <2>5 DEF IInv
<1>4. CASE d.ready
  <2>1. d' = Interrupted(d)
    BY <1>4 DEF HandleChild
  <2>2. /\ d' \in Server
        /\ d'.pc = d.pc \/ (d.pc \in {"select", "blocked"} /\ d'.pc = "test")
        /\ d'.pid = d.pid /\ d'.key = d.key /\ d'.used = d.used /\ d'.ready = d.ready
        /\ d'.turn = d.turn /\ d'.pool = d.pool /\ d'.age = d.age
    BY <1>1, <2>1, Interruption
  <2>3. /\ kids' \in Seq(Kid) /\ Follows(kids, kids')
        /\ \A i \in DOMAIN kids : kids'[i].pc # "zombie"
    <3> DEFINE Reaped(i) == IF Mine(i) /\ kids[i].pc = "zombie"
                            THEN [kids[i] EXCEPT !.pc = "gone"] ELSE kids[i]
    <3>1. \A i \in DOMAIN kids :
            /\ Reaped(i) \in Kid /\ Reaped(i).pc # "zombie"
            /\ Reaped(i).parent = kids[i].parent /\ Reaped(i).key = kids[i].key
            /\ Reaped(i).pool = kids[i].pool
      <4>1. SUFFICES ASSUME NEW i \in DOMAIN kids
                     PROVE  /\ Reaped(i) \in Kid /\ Reaped(i).pc # "zombie"
                            /\ Reaped(i).parent = kids[i].parent /\ Reaped(i).key = kids[i].key
                            /\ Reaped(i).pool = kids[i].pool
        OBVIOUS
      <4>2. kids[i] \in Kid
        BY <1>1
      <4>3. CASE kids[i].pc = "zombie"
        <5>1. Mine(i)
          BY <4>3 DEF IInv, Zombies
        <5> QED BY <4>2, <4>3, <5>1, Moved
      <4>4. CASE kids[i].pc # "zombie"
        BY <4>2, <4>4
      <4> QED BY <4>3, <4>4
    <3>2. kids' = [i \in DOMAIN kids |-> Reaped(i)]
      BY <1>4 DEF HandleChild
    <3> HIDE DEF Reaped
    <3>3. kids' \in [DOMAIN kids -> Kid]
      BY <3>1, <3>2
    <3>4. \A j \in DOMAIN kids :
            /\ kids'[j] \in Kid /\ kids'[j].pc # "zombie" /\ kids'[j].parent = kids[j].parent
            /\ kids'[j].key = kids[j].key /\ kids'[j].pool = kids[j].pool
      BY <3>1, <3>2
    <3> QED BY <1>1, <3>3, <3>4, AllFollow
  <2>4. TypeOK'
    BY <1>1, <1>2, <2>2, <2>3 DEF IInv, TypeOK
  <2>5. Pools'
    BY <2>2, <2>3, PoolsFollow DEF IInv
  <2>6. Keys'
    BY <1>2, <2>2, <2>3, KeysFollow DEF IInv
  <2>7. Zombies'
    BY <1>1, <2>2, <2>3 DEF IInv, Zombies, NoZombieForgotten, Mine, Follows, Server, Kid
  <2> QED BY <2>4, <2>5, <2>6, <2>7 DEF IInv
<1> QED BY <1>3, <1>4

LEMMA ChildStartsKeeps ==
  ASSUME IInv, NEW i \in DOMAIN kids, ChildStarts(i) PROVE IInv'
<1>1. /\ d \in Server /\ queue \in Nat /\ QueueSize \in Nat /\ kids \in Seq(Kid)
      /\ \A j \in DOMAIN kids : kids[j] \in Kid
  BY Typed
<1>2. d' = d /\ cfg' = cfg /\ queue' = queue /\ sig' = sig
  BY DEF ChildStarts
<1>3. /\ kids' \in Seq(Kid) /\ Follows(kids, kids')
      /\ \A j \in DOMAIN kids : kids'[j].pc = "zombie" => kids[j].pc = "zombie"
  <2>1. kids' = Moving(kids, i, "serving")
    BY DEF ChildStarts, Moving
  <2>2. /\ kids' \in Seq(Kid) /\ Follows(kids, kids')
        /\ \A j \in DOMAIN kids : kids'[j].pc \in {"serving", kids[j].pc}
           /\ (j # i => kids'[j].pc = kids[j].pc)
    BY <1>1, <2>1, OneMoves
  <2> QED BY <2>2
<1>4. TypeOK'
  BY <1>1, <1>2, <1>3 DEF IInv, TypeOK
<1>5. Pools'
  BY <1>2, <1>3, PoolsFollow DEF IInv
<1>6. Keys'
  BY <1>2, <1>3, KeysFollow DEF IInv
<1>7. Zombies'
  BY <1>1, <1>2, <1>3 DEF IInv, Zombies, NoZombieForgotten, Mine, Alive, Follows, Server, Kid
<1> QED BY <1>4, <1>5, <1>6, <1>7 DEF IInv

\* Only a child of this process becomes a zombie, and its signal is then pending.
LEMMA ChildEndsKeeps ==
  ASSUME IInv, NEW i \in DOMAIN kids, ChildEnds(i) PROVE IInv'
<1>1. /\ d \in Server /\ queue \in Nat /\ QueueSize \in Nat /\ kids \in Seq(Kid)
      /\ \A j \in DOMAIN kids : kids[j] \in Kid
  BY Typed
<1>2. d' = d /\ cfg' = cfg /\ queue' = queue
  BY DEF ChildEnds
<1>3. /\ kids' \in Seq(Kid) /\ Follows(kids, kids')
      /\ sig' \in {sig, sig \cup {"CHLD"}}
      /\ \A j \in DOMAIN kids : kids'[j].pc = "zombie" =>
           kids[j].pc = "zombie" \/ (Mine(j) /\ "CHLD" \in sig')
  <2>1. CASE Mine(i) /\ Alive
    <3>1. kids' = Moving(kids, i, "zombie") /\ sig' = sig \cup {"CHLD"}
      BY <2>1 DEF ChildEnds, Moving
    <3>2. /\ kids' \in Seq(Kid) /\ Follows(kids, kids')
          /\ \A j \in DOMAIN kids : kids'[j].pc \in {"zombie", kids[j].pc}
             /\ (j # i => kids'[j].pc = kids[j].pc)
      BY <1>1, <3>1, OneMoves
    <3> QED BY <2>1, <3>1, <3>2
  <2>2. CASE ~(Mine(i) /\ Alive)
    <3>1. kids' = Moving(kids, i, "gone") /\ sig' = sig
      BY <2>2 DEF ChildEnds, Moving
    <3>2. /\ kids' \in Seq(Kid) /\ Follows(kids, kids')
          /\ \A j \in DOMAIN kids : kids'[j].pc \in {"gone", kids[j].pc}
             /\ (j # i => kids'[j].pc = kids[j].pc)
      BY <1>1, <3>1, OneMoves
    <3> QED BY <3>1, <3>2
  <2> QED BY <2>1, <2>2
<1>4. TypeOK'
  BY <1>1, <1>2, <1>3 DEF IInv, TypeOK
<1>5. Pools'
  BY <1>2, <1>3, PoolsFollow DEF IInv
<1>6. Keys'
  BY <1>2, <1>3, KeysFollow DEF IInv
<1>7. Zombies'
  BY <1>1, <1>2, <1>3 DEF IInv, Zombies, NoZombieForgotten, Mine, Alive, Follows, Server, Kid
<1> QED BY <1>4, <1>5, <1>6, <1>7 DEF IInv

-----------------------------------------------------------------------------
(* The theorems.                                                           *)

LEMMA Starts == ASSUME Init PROVE IInv
<1>1. d \in Server /\ d.pc = "exec" /\ d.turn /\ d.age = 0
  BY DEF Init, Server
<1>2. kids = << >> /\ kids \in Seq(Kid) /\ DOMAIN kids = {}
  BY DEF Init
<1>3. TypeOK
  BY <1>1, <1>2, DaemonAssumption DEF Init, TypeOK
<1>4. Pools
  BY <1>2 DEF Pools, FreshPools
<1>5. Keys
  BY <1>1, <1>2 DEF Keys, Given, KeyTurnsOver
<1>6. Zombies
  BY <1>2 DEF Zombies, NoZombieForgotten
<1> QED BY <1>3, <1>4, <1>5, <1>6 DEF IInv

LEMMA StaysStill == ASSUME IInv, UNCHANGED vars PROVE IInv'
BY DEF vars, IInv, TypeOK, Pools, FreshPools, Keys, KeyTurnsOver, Given, Zombies,
       NoZombieForgotten, Mine, Alive

LEMMA StepKeeps == ASSUME IInv, [Next]_vars PROVE IInv'
<1>1. CASE LoopStep
  BY <1>1, DaemonizeKeeps, BindKeeps, PrepareKeeps, TestKeeps, EnterSelectKeeps, SelectKeeps,
     AcceptKeeps, ForkKeeps, MarkUsedKeeps, NoiseKeeps DEF LoopStep
<1>2. CASE Handlers
  BY <1>2, HandleHupKeeps, HandleAlarmKeeps, HandleChildKeeps DEF Handlers
<1>3. CASE World
  BY <1>3, HangupKeeps, AlarmRingsKeeps, TerminateKeeps, ConnectKeeps, GiveUpKeeps,
     ChildStartsKeeps, ChildEndsKeeps DEF World
<1>4. CASE UNCHANGED vars
  BY <1>4, StaysStill
<1> QED BY <1>1, <1>2, <1>3, <1>4 DEF Next

LEMMA Invariant == Spec => []IInv
<1>1. Init => IInv
  BY Starts
<1>2. IInv /\ [Next]_vars => IInv'
  BY StepKeeps
<1> QED BY <1>1, <1>2, PTL DEF Spec

\* The daemon, its signals, its children and its queue keep their types, and
\* accept takes no more connections than are waiting.
THEOREM TypesKept == Spec => []TypeOK
<1>1. IInv => TypeOK
  BY DEF IInv
<1> QED BY <1>1, Invariant, PTL

\* No server key that was given to a child survives two alarms, wherever
\* key_regeneration_alarm interrupts main.
THEOREM KeysTurnOver == Spec => []KeyTurnsOver
<1>1. IInv => KeyTurnsOver
  BY DEF IInv, Keys
<1> QED BY <1>1, Invariant, PTL

\* No two children of sshd, of this execution or of earlier ones, start with
\* the same random state.
THEOREM PoolsFresh == Spec => []FreshPools
<1>1. IInv => FreshPools
  BY DEF IInv, Pools
<1> QED BY <1>1, Invariant, PTL

\* While sshd runs with its handlers, a zombie means a SIGCHLD that
\* main_sigchld_handler has still to take.
THEOREM ZombiesRemembered == Spec => []NoZombieForgotten
<1>1. IInv => NoZombieForgotten
  BY DEF IInv, Zombies
<1> QED BY <1>1, Invariant, PTL
=============================================================================
