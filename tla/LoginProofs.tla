----------------------------- MODULE LoginProofs ----------------------------
(***************************************************************************)
(* The safety properties of Login for every set-up and every number of     *)
(* attempts: those of the server's child, and those of the dialogue of the *)
(* two programs.                                                           *)
(***************************************************************************)
EXTENDS MCLogin, SequenceTheorems, FiniteSetTheorems, WellFoundedInduction, TLAPS

-----------------------------------------------------------------------------
(* The inductive invariant.                                                *)

\* The attempts before those that the authentication server and the user answer.  In
\* these the two programs are in lockstep.
HasKey(a) == a.kind \in {"rhosts_rsa", "agent", "file"}
Early(a)  == HasKey(a) \/ a.kind = "rhosts"
Now       == Head(c.todo)
InEarly   == c.todo # << >> /\ Early(Now)
Ordered(todo) == \A i, j \in DOMAIN todo : i < j /\ Early(todo[j]) => Early(todo[i])

\* A packet on its way to the server: what it claims the client knows, and a request
\* or an answer that is about a key belongs to the attempt the client is at.
About(m) ==
  /\ m.type = "SESSION_KEY" => m.arg = cfg.cipher
  /\ m.type = "AUTH_PASSWORD" /\ m.arg = "right" => "password" \in cfg.knows
  /\ m.type = "TIS_RESPONSE" /\ m.arg = "right" => "tis" \in cfg.knows
  /\ m.type \in {"AUTH_RSA", "AUTH_RHOSTS_RSA", "RSA_RESPONSE"} => c.todo # << >> /\ HasKey(Now)
  /\ m.type = "AUTH_RSA" => Now.kind # "rhosts_rsa" /\ m.arg = Now.key
  /\ m.type = "AUTH_RHOSTS_RSA" => Now.kind = "rhosts_rsa"
  /\ m.type = "RSA_RESPONSE" => m.arg \in {"right", "wrong"}
  /\ m.type = "RSA_RESPONSE" /\ m.arg = "right" => Secret(Now) \in cfg.knows
  /\ m.type = "AUTH_TIS" => ~InEarly
Claims == \A i \in DOMAIN toS : About(toS[i])

\* One request or answer is on its way, and the server waits for a response only if
\* its challenge is.
Token ==
  /\ \/ Len(toS) = 1 /\ toC = << >> /\ Head(toS).type \notin {"EXEC", "AUTH_TIS"}
     \/ toS = << >> /\ Len(toC) = 1
  /\ toC # << >> /\ Head(toC).type # "RSA_CHALLENGE" => s.pc \notin {"challenge", "hostchallenge"}

Lockstep ==
  /\ ~up => toS = << >> /\ toC = << >>
  /\ up /\ c.pc # "dead" =>
       /\ c.pc = "ident" =>
            /\ toS = << >> /\ Len(toC) =< 1 /\ s.pc \in {"start", "ident"}
            /\ s.pc = "start" => toC = << >>
       /\ c.pc # "ident" => s.pc # "start"
       /\ c.pc \in {"key", "ack", "name"} => Token
       /\ c.pc = "try" /\ InEarly =>
            toS = << >> /\ toC = << >> /\ s.pc \notin {"challenge", "hostchallenge"}
       /\ c.pc \in {"reply", "verdict", "dummy"} /\ InEarly => Token

\* The server x that waits for a response has the key the client is at.
Challenging(x) ==
  /\ x.pc = "challenge" =>
       /\ c.todo # << >> /\ Now.kind \in {"agent", "file"} /\ x.key = Now.key
       /\ "rsa" \in cfg.offers /\ x.line \in DOMAIN cfg.lines /\ cfg.lines[x.line].key = x.key
  /\ x.pc = "hostchallenge" =>
       /\ c.todo # << >> /\ Now.kind = "rhosts_rsa"
       /\ "rhosts_rsa" \in cfg.offers /\ cfg.port /\ cfg.cipher = "idea"
  /\ x.pc = "tis" => "tis" \in cfg.offers

In(x) == x.pc \in {"accepted", "prep", "session"}

Admitting(x) ==
  /\ x.pc # "start" => cfg.host # "silent"
  /\ x.pc \notin {"start", "ident"} => cfg.host = "permitted"
  /\ x.pc \in {"auth", "challenge", "hostchallenge", "tis"} \/ In(x) => cfg.user # "unknown"
  /\ x.cipher \in {"none", cfg.cipher}

Entitled(x) ==
  /\ x.by \in cfg.offers
  /\ x.by = "password" => cfg.empty \/ ("password" \in cfg.knows /\ cfg.cipher # "none")
  /\ x.by = "tis" => "tis" \in cfg.knows
  /\ x.by = "rsa" => \E i \in DOMAIN cfg.lines :
                       cfg.lines[i].key \in cfg.knows /\ ~cfg.lines[i].refuses
  /\ x.by \in {"rhosts", "rhosts_rsa"} => cfg.port
  /\ x.by = "rhosts_rsa" => "hostkey" \in cfg.knows /\ cfg.cipher = "idea"
  /\ (cfg.user = "root" /\ cfg.root # 2) =>
       IF cfg.root = 1 THEN x.by # "password" ELSE "command" \in x.flags

\* Lines that refuse set nothing.
Plain == \A i \in DOMAIN cfg.lines : cfg.lines[i].refuses => cfg.lines[i].sets = {}
Flagged(x) ==
  Plain => x.flags = IF In(x) /\ x.by = "rsa" THEN cfg.lines[x.line].sets ELSE {}

\* What a server that is alive, and one that is dead, is like.
Living(x) == Challenging(x) /\ Admitting(x) /\ (In(x) => Entitled(x)) /\ Flagged(x)
Clean(x)  == ~cfg.quiet => x.agent = "none" /\ x.tty # "guarded"
Fine(x)   == IF x.pc = "dead" THEN Clean(x)
             ELSE Living(x) /\ (x.pc = "start" => Clean(x))

\* A client that waits has an attempt, or a request, it waits for.
Placed(x) == /\ x.pc \in {"reply", "verdict", "dummy"} => x.todo # << >>
             /\ x.pc = "answer" => x.ask # << >>

IInv ==
  /\ TypeOK
  /\ Ordered(c.todo) /\ Placed(c)
  /\ Fine(s)
  /\ s.pc # "dead" => Claims /\ Lockstep

-----------------------------------------------------------------------------
\* A set of numbers has a least one.
LEMMA Least ==
  ASSUME NEW S \in SUBSET Nat, S # {}
  PROVE  \E i \in S : \A j \in S : i =< j
<1>1. PICK i \in S : \A j \in S : <<j, i>> \notin OpToRel(<, Nat)
  <2>1. IsWellFoundedOn(OpToRel(<,Nat), Nat)
    BY NatLessThanWellFounded
  <2> QED BY <2>1, WFMin, Zenon
<1>2. \A j \in S : ~(j < i)
  BY <1>1 DEF OpToRel
<1> QED BY <1>2


-----------------------------------------------------------------------------
(* The set-up, the packets and the outcomes.                               *)

LEMMA SetUp ==
  ASSUME TypeOK
  PROVE  /\ cfg \in Config /\ MaxAttempts \in Nat
         /\ cfg.offers \subseteq Methods /\ cfg.cipher \in {"none", "arcfour", "idea"}
         /\ cfg.root \in 0 .. 2 /\ cfg.prompts \in Nat
         /\ cfg.agent \in Seq(Identities) /\ cfg.files \in Seq(Identities)
         /\ cfg.requests \in Seq(Requests) /\ cfg.timed \in BOOLEAN
         /\ Len(cfg.lines) \in Nat /\ DOMAIN cfg.lines = 1 .. Len(cfg.lines)
         /\ \A i \in DOMAIN cfg.lines :
              cfg.lines[i].key \in Identities /\ cfg.lines[i].sets \subseteq Restrictions
<1>1. cfg \in Config /\ MaxAttempts \in Nat
  BY LoginAssumption DEF TypeOK
<1>2. /\ cfg.offers \subseteq Methods /\ cfg.cipher \in {"none", "arcfour", "idea"}
      /\ cfg.root \in 0 .. 2 /\ cfg.prompts \in Nat
      /\ cfg.agent \in Seq(Identities) /\ cfg.files \in Seq(Identities)
      /\ cfg.requests \in Seq(Requests) /\ cfg.timed \in BOOLEAN
  BY <1>1 DEF Config
<1>3. cfg.lines \in Seq([key : Identities, sets : SUBSET Restrictions, refuses : BOOLEAN])
  BY <1>1 DEF Config
<1>4. Len(cfg.lines) \in Nat /\ DOMAIN cfg.lines = 1 .. Len(cfg.lines)
  BY <1>3, LenProperties
<1>5. \A i \in DOMAIN cfg.lines :
        cfg.lines[i] \in [key : Identities, sets : SUBSET Restrictions, refuses : BOOLEAN]
  BY <1>3, <1>4, ElementOfSeq
<1> QED BY <1>1, <1>2, <1>4, <1>5

LEMMA Single ==
  ASSUME NEW S, NEW e \in S
  PROVE  <<e>> \in Seq(S) /\ Len(<<e>>) = 1 /\ <<e>>[1] = e
OBVIOUS

\* One packet.
LEMMA Said ==
  ASSUME NEW x, x.coding \in Codings, NEW t \in Types, NEW a \in Args
  PROVE  /\ Says(x, t, a).me = x
         /\ Says(x, t, a).out \in Seq(Message) /\ Len(Says(x, t, a).out) = 1
         /\ Says(x, t, a).out[1].type = t
<1>1. Packet(x, t, a) \in Message /\ Packet(x, t, a).type = t
  BY DEF Packet, Message
<1>2. Says(x, t, a).me = x /\ Says(x, t, a).out = <<Packet(x, t, a)>>
  BY DEF Says
<1> QED BY <1>1, <1>2, Single

LEMMA Plainly ==
  ASSUME NEW x, x.coding \in Codings, NEW t, t \in Types
  PROVE  /\ Says(x, t, "nothing").me = x
         /\ Says(x, t, "nothing").out \in Seq(Message) /\ Len(Says(x, t, "nothing").out) = 1
         /\ Says(x, t, "nothing").out[1].type = t
<1>1. "nothing" \in Args
  BY DEF Args
<1> QED BY <1>1, Said

LEMMA TheTypes ==
  /\ "IDENT" \in Types /\ "PUBLIC_KEY" \in Types /\ "SESSION_KEY" \in Types
  /\ "SUCCESS" \in Types /\ "FAILURE" \in Types /\ "USER" \in Types
  /\ "AUTH_RHOSTS" \in Types /\ "AUTH_RHOSTS_RSA" \in Types /\ "AUTH_RSA" \in Types
  /\ "RSA_CHALLENGE" \in Types /\ "RSA_RESPONSE" \in Types /\ "AUTH_TIS" \in Types
  /\ "TIS_CHALLENGE" \in Types /\ "TIS_RESPONSE" \in Types /\ "AUTH_PASSWORD" \in Types
  /\ "EXEC" \in Types /\ "DISCONNECT" \in Types
BY DEF Types

\* fatal, and packet_disconnect.
LEMMA Dies ==
  ASSUME NEW x \in Server
  PROVE  Dead(x) \in Server /\ Dead(x).pc = "dead" /\ Clean(Dead(x)) /\ Dead(x).line = x.line
<1>1. CASE cfg.quiet
  BY <1>1 DEF Dead, Clean, Server
<1>2. CASE ~cfg.quiet
  <2>1. PICK tty \in {"none", "lost", "held", "guarded"} :
          tty = IF x.tty = "guarded" THEN "none" ELSE x.tty
    BY DEF Server
  <2>2. Dead(x) = [x EXCEPT !.pc = "dead", !.alarm = FALSE, !.agent = "none", !.tty = tty]
    BY <1>2, <2>1 DEF Dead
  <2> QED BY <2>1, <2>2, ZenonT(60) DEF Clean, Server
<1> QED BY <1>1, <1>2

LEMMA Disconnects ==
  ASSUME NEW x \in Server
  PROVE  /\ Disconnect(x).me \in Server /\ Disconnect(x).me.pc = "dead"
         /\ Clean(Disconnect(x).me) /\ Disconnect(x).me.line = x.line
         /\ Disconnect(x).out \in Seq(Message)
<1>1. PICK agent \in {"none", "named", "listening"} :
        agent = IF x.agent = "listening" THEN "none" ELSE x.agent
  BY DEF Server
<1>2. PICK y : y = [x EXCEPT !.agent = agent]
  OBVIOUS
<1>3. y \in Server /\ y.line = x.line
  BY <1>2 DEF Server
<1>4. Disconnect(x).me = Dead(y)
  BY <1>1, <1>2 DEF Disconnect
<1>5. x.coding \in Codings
  BY DEF Server
<1>6. Says(x, "DISCONNECT", "nothing").out \in Seq(Message)
  BY <1>5, Plainly, TheTypes
<1>7. Disconnect(x).out = Says(x, "DISCONNECT", "nothing").out
  BY DEF Disconnect, Says
<1>8. Disconnect(x).out \in Seq(Message)
  BY <1>6, <1>7
<1> QED BY <1>3, <1>4, <1>8, Dies

-----------------------------------------------------------------------------
(* What the server may do with a packet.                                   *)

\* A server that goes on is in order, and sent one packet: a challenge if it
\* waits for the response to one.
Sound(x) == /\ x \in Server /\ x.line =< Len(cfg.lines)
            /\ x.pc = "dead" => Clean(x)
            /\ x.pc # "dead" => x.pc # "start" /\ Living(x)
One(o)   == /\ Len(o.out) = 1
            /\ o.out[1].type # "RSA_CHALLENGE" => o.me.pc \notin {"challenge", "hostchallenge"}
Answer(o) == /\ Sound(o.me) /\ o.out \in Seq(Message)
             /\ o.me.pc # "dead" /\ Head(toS).type \notin {"EXEC", "AUTH_TIS"} => One(o)

\* With c and cfg as they were, a server in order stays in order.
LEMMA StaysSound ==
  ASSUME c' = c, cfg' = cfg, Sound(s')
  PROVE  /\ Fine(s)' /\ s' \in Server /\ s'.line =< Len(cfg'.lines)
         /\ s'.pc # "dead" => s'.pc # "start"
<1>1. CASE s'.pc = "dead"
  BY <1>1 DEF Sound, Fine, Clean
<1>2. CASE s'.pc # "dead"
  <2>1. Living(s')
    BY <1>2 DEF Sound
  <2>2. Challenging(s)'
    BY <2>1 DEF Living, Challenging, Now
  <2>3. Admitting(s)' /\ (In(s') => Entitled(s)')
    BY <2>1 DEF Living, Admitting, Entitled, In
  <2>4. Flagged(s)'
    BY <2>1 DEF Living, Flagged, Plain, In
  <2>5. Living(s)'
    BY <2>2, <2>3, <2>4 DEF Living, In
  <2> QED BY <1>2, <2>5 DEF Sound, Fine
<1> QED BY <1>1, <1>2

LEMMA SentTyped ==
  ASSUME NEW S, NEW q \in Seq(S), NEW out \in Seq(S)
  PROVE  Sent(q, out) \in Seq(S)
BY DEF Sent

LEMMA TailOf ==
  ASSUME NEW S, NEW q \in Seq(S), q # << >>
  PROVE  /\ Tail(q) \in Seq(S) /\ Head(q) = q[1] /\ Head(q) \in S /\ 1 \in DOMAIN q
         /\ Len(Tail(q)) = Len(q) - 1 /\ Len(q) \in Nat \ {0}
         /\ \A i \in DOMAIN Tail(q) : i + 1 \in DOMAIN q /\ Tail(q)[i] = q[i + 1]
         /\ Len(q) = 1 => Tail(q) = << >>
<1>1. Len(q) \in Nat \ {0} /\ DOMAIN q = 1 .. Len(q)
  BY EmptySeq, LenProperties
<1>2. Tail(q) \in Seq(S) /\ Len(Tail(q)) = Len(q) - 1
      /\ \A i \in 1 .. Len(Tail(q)) : Tail(q)[i] = q[i + 1]
  BY HeadTailProperties
<1>3. DOMAIN Tail(q) = 1 .. Len(Tail(q)) /\ (Len(Tail(q)) = 0 => Tail(q) = << >>)
  BY <1>2, EmptySeq, LenProperties
<1>4. Head(q) = q[1] /\ Head(q) \in S
  BY HeadTailProperties
<1> QED BY <1>1, <1>2, <1>3, <1>4

\* A server that ends leaves nothing else to show.
LEMMA ServerEnds ==
  ASSUME IInv, NEW o, ServerDoes(o), Sound(o.me), o.me.pc = "dead", o.out \in Seq(Message),
         toS' \in Seq(Message)
  PROVE  IInv'
<1>1. /\ s' = o.me /\ toC' = Sent(toC, o.out) /\ c' = c /\ cfg' = cfg /\ up' = up
  BY DEF ServerDoes
<1>2. Fine(s)' /\ s' \in Server /\ s'.line =< Len(cfg'.lines)
  BY <1>1, StaysSound
<1>3. toC' \in Seq(Message)
  BY <1>1, SentTyped DEF IInv, TypeOK
<1>4. TypeOK'
  BY <1>1, <1>2, <1>3 DEF IInv, TypeOK
<1>5. Ordered(c.todo)' /\ Placed(c)'
  BY <1>1 DEF IInv, Ordered, Placed
<1> QED BY <1>1, <1>2, <1>4, <1>5 DEF IInv

\* A packet that is answered keeps the invariant.
LEMMA Answered ==
  ASSUME IInv, s.pc # "dead", NEW o, ServerDoes(o), Answer(o),
         toS # << >>, toS' = Tail(toS)
  PROVE  IInv'
<1>1. /\ s' = o.me /\ toC' = Sent(toC, o.out) /\ c' = c /\ cfg' = cfg /\ up' = up
  BY DEF ServerDoes
<1>2. Sound(o.me) /\ o.out \in Seq(Message) /\ toS \in Seq(Message) /\ toC \in Seq(Message)
  BY DEF Answer, IInv, TypeOK
<1>3. toS' \in Seq(Message) /\ \A i \in DOMAIN toS' : i + 1 \in DOMAIN toS /\ toS'[i] = toS[i + 1]
  BY <1>2, TailOf
<1>4. CASE o.me.pc = "dead"
  BY <1>2, <1>3, <1>4, ServerEnds
<1>5. CASE o.me.pc # "dead"
  <2>1. Fine(s)' /\ s' \in Server /\ s'.line =< Len(cfg'.lines) /\ s'.pc # "start"
    BY <1>1, <1>2, <1>5, StaysSound
  <2>2. toC' \in Seq(Message)
    BY <1>1, <1>2, SentTyped
  <2>3. TypeOK'
    BY <1>1, <1>3, <2>1, <2>2 DEF IInv, TypeOK
  <2>4. Ordered(c.todo)' /\ Placed(c)'
    BY <1>1 DEF IInv, Ordered, Placed
  <2>5. Claims /\ Lockstep
    BY DEF IInv
  <2>6. Claims'
    <3> SUFFICES ASSUME NEW i \in DOMAIN toS'
                 PROVE  About(toS[i])'
      BY DEF Claims
    <3>1. About(toS'[i])
      BY <1>3, <2>5 DEF Claims
    <3> QED BY <1>1, <3>1 DEF About, Now, HasKey, InEarly, Early, Secret
  <2>7. up /\ toC' = toC \o o.out
    BY <1>1, <2>5 DEF Lockstep, Sent
  <2>8. ASSUME Token
        PROVE  Token'
    <3>1. Len(toS) = 1 /\ toC = << >> /\ Head(toS).type \notin {"EXEC", "AUTH_TIS"}
      BY <2>8 DEF Token
    <3>2. toS' = << >> /\ toC' = o.out
      BY <1>2, <2>7, <3>1, TailOf
    <3>3. Len(toC') = 1 /\ Head(toC') = toC'[1] /\ One(o)
      BY <1>2, <1>5, <3>1, <3>2 DEF Answer, One
    <3> QED BY <1>1, <3>2, <3>3 DEF Token, One
  <2>9. Lockstep'
    BY <1>1, <2>1, <2>5, <2>7, <2>8 DEF Lockstep, Now, InEarly, Early, HasKey
  <2> QED BY <2>1, <2>3, <2>4, <2>6, <2>9 DEF IInv
<1> QED BY <1>4, <1>5

-----------------------------------------------------------------------------
(* The outcomes of the authentication.                                     *)

LEMMA DisconnectAnswers ==
  ASSUME NEW x \in Server, x.line =< Len(cfg.lines)
  PROVE  Answer(Disconnect(x))
BY Disconnects DEF Answer, Sound

\* What every server that is still to admit a user with an account satisfies.
Asking(x) == /\ x \in Server /\ x.line =< Len(cfg.lines)
             /\ cfg.host = "permitted" /\ cfg.user # "unknown"
             /\ x.cipher \in {"none", cfg.cipher}

LEMMA FailsAnswers ==
  ASSUME NEW x, Asking(x), Plain => x.flags = {}
  PROVE  Answer(Fails(x))
<1> DEFINE y == [x EXCEPT !.pc = "auth"]
<1>1. y \in Server /\ y.line = x.line /\ y.pc = "auth" /\ y.cipher = x.cipher /\ y.flags = x.flags
  BY DEF Asking, Server
<1>2. /\ Fails(x).me = y /\ Fails(x).out \in Seq(Message) /\ Len(Fails(x).out) = 1
  <2>1. y.coding \in Codings
    BY <1>1 DEF Server
  <2> HIDE DEF y
  <2>2. /\ Says(y, "FAILURE", "nothing").me = y
        /\ Says(y, "FAILURE", "nothing").out \in Seq(Message)
        /\ Len(Says(y, "FAILURE", "nothing").out) = 1
    BY <2>1, Plainly, TheTypes
  <2> USE DEF y
  <2> QED BY <2>2 DEF Fails
<1> HIDE DEF y
<1>3. Living(y)
  BY <1>1 DEF Living, Challenging, Admitting, Flagged, In, Asking
<1> QED BY <1>1, <1>2, <1>3 DEF Answer, Sound, One, Asking

LEMMA AcceptsAnswers ==
  ASSUME NEW x, Asking(x), NEW by \in cfg.offers, by \in Methods,
         Plain => x.flags = IF by = "rsa" THEN cfg.lines[x.line].sets ELSE {},
         by = "password" => cfg.empty \/ ("password" \in cfg.knows /\ cfg.cipher # "none"),
         by = "tis" => "tis" \in cfg.knows,
         by = "rsa" => \E i \in DOMAIN cfg.lines :
                         cfg.lines[i].key \in cfg.knows /\ ~cfg.lines[i].refuses,
         by \in {"rhosts", "rhosts_rsa"} => cfg.port,
         by = "rhosts_rsa" => "hostkey" \in cfg.knows /\ cfg.cipher = "idea",
         cfg.root \in 0 .. 2
  PROVE  Answer(Accepts(x, by))
<1> DEFINE y == [x EXCEPT !.pc = "accepted", !.by = by]
<1>1. /\ y \in Server /\ y.line = x.line /\ y.pc = "accepted" /\ y.cipher = x.cipher
      /\ y.flags = x.flags /\ y.by = by
  BY DEF Asking, Server
<1> HIDE DEF y
<1>2. Accepts(x, by) = IF RootRefused(y) THEN Disconnect(y) ELSE Says(y, "SUCCESS", "nothing")
  BY DEF Accepts, y
<1>3. CASE RootRefused(y)
  BY <1>1, <1>2, <1>3, DisconnectAnswers DEF Asking
<1>4. CASE ~RootRefused(y)
  <2>1. y.coding \in Codings
    BY <1>1 DEF Server
  <2>2. /\ Says(y, "SUCCESS", "nothing").me = y
        /\ Says(y, "SUCCESS", "nothing").out \in Seq(Message)
        /\ Len(Says(y, "SUCCESS", "nothing").out) = 1
    BY <2>1, Plainly, TheTypes
  <2>3. Entitled(y)
    BY <1>1, <1>4 DEF Entitled, RootRefused
  <2>4. Challenging(y) /\ Admitting(y) /\ Flagged(y)
    BY <1>1 DEF Challenging, Admitting, Flagged, In, Asking
  <2>5. Sound(y)
    BY <1>1, <2>3, <2>4 DEF Sound, Living, Asking
  <2> QED BY <1>1, <1>2, <1>4, <2>2, <2>5 DEF Answer, One
<1> QED BY <1>3, <1>4

\* auth_rsa: the next line with the key, or no more.
LEMMA ScanAnswers ==
  ASSUME NEW x, Asking(x), Plain => x.flags = {}, NEW key \in Named, NEW after \in Nat,
         c.todo # << >>, Now.kind \in {"agent", "file"}, key = Now.key, "rsa" \in cfg.offers,
         Len(cfg.lines) \in Nat, DOMAIN cfg.lines = 1 .. Len(cfg.lines)
  PROVE  Answer(Scan(x, key, after))
<1> DEFINE found == Matching(key, after)
<1>1. found \subseteq (after + 1) .. Len(cfg.lines) /\ \A i \in found : cfg.lines[i].key = key
  BY DEF Matching
<1>2. CASE found = {}
  BY <1>2, FailsAnswers DEF Scan
<1>3. CASE found # {}
  <2>1. found \subseteq Nat
    BY <1>1
  <2>2. \E i \in found : \A j \in found : i =< j
    BY <1>3, <2>1, Least
  <2>3. PICK n \in found : n = CHOOSE i \in found : \A j \in found : i =< j
    BY <2>2
  <2>4. n \in Nat /\ n \in DOMAIN cfg.lines /\ n =< Len(cfg.lines) /\ cfg.lines[n].key = key
    BY <1>1
  <2> DEFINE y == [x EXCEPT !.pc = "challenge", !.key = key, !.line = n]
  <2>5. /\ y \in Server /\ y.line = n /\ y.pc = "challenge" /\ y.cipher = x.cipher
        /\ y.flags = x.flags /\ y.key = key
    BY <2>4 DEF Asking, Server
  <2> HIDE DEF y
  <2>6. Scan(x, key, after) = Says(y, "RSA_CHALLENGE", "nothing")
      BY <1>3, <2>3 DEF Scan, y
  <2>7. y.coding \in Codings
    BY <2>5 DEF Server
  <2>8. /\ Says(y, "RSA_CHALLENGE", "nothing").me = y
        /\ Says(y, "RSA_CHALLENGE", "nothing").out \in Seq(Message)
        /\ Len(Says(y, "RSA_CHALLENGE", "nothing").out) = 1
        /\ Says(y, "RSA_CHALLENGE", "nothing").out[1].type = "RSA_CHALLENGE"
    BY <2>7, Plainly, TheTypes
  <2>9. Living(y)
    BY <2>4, <2>5 DEF Living, Challenging, Admitting, Flagged, In, Asking
  <2> QED BY <2>4, <2>5, <2>6, <2>8, <2>9 DEF Answer, Sound, One
<1> QED BY <1>2, <1>3

-----------------------------------------------------------------------------
(* The server's steps up to the authentication.                            *)

\* What the server that reads at pc, and the packet, are like.
LEMMA Reading ==
  ASSUME IInv, NEW pc, Reads(s, toS, pc), pc # "dead"
  PROVE  /\ s.pc = pc /\ s \in Server /\ s.line =< Len(cfg.lines)
         /\ pc # "start" => Living(s)
         /\ toS # << >> /\ Head(toS) \in Message /\ About(Head(toS))
<1>1. s.pc = pc /\ toS # << >> /\ toS \in Seq(Message)
  BY DEF Reads, IInv, TypeOK
<1>2. Head(toS) = toS[1] /\ Head(toS) \in Message /\ 1 \in DOMAIN toS
  BY <1>1, TailOf
<1>3. About(Head(toS))
  BY <1>1, <1>2 DEF IInv, Claims
<1> QED BY <1>1, <1>2, <1>3 DEF IInv, TypeOK, Fine

\* One packet and a state that is in order.
LEMMA SaysAnswers ==
  ASSUME NEW x, Sound(x), x.pc \notin {"dead", "challenge", "hostchallenge"}, NEW t \in Types
  PROVE  Answer(Says(x, t, "nothing"))
<1>1. x.coding \in Codings
  BY DEF Sound, Server
<1>2. /\ Says(x, t, "nothing").me = x /\ Says(x, t, "nothing").out \in Seq(Message)
      /\ Len(Says(x, t, "nothing").out) = 1
  BY <1>1, Plainly
<1> QED BY <1>2 DEF Answer, One

LEMMA StepIdent ==
  ASSUME IInv, ServerIdent
  PROVE  IInv'
<1>1. Reads(s, toS, "ident") /\ toS' = Tail(toS)
  BY DEF ServerIdent
<1>2. s.pc = "ident" /\ s \in Server /\ s.line =< Len(cfg.lines) /\ Living(s) /\ toS # << >>
  BY <1>1, Reading
<1> DEFINE y == [s EXCEPT !.pc = "key"]
           o == IF cfg.host = "denied" THEN Disconnect(s) ELSE Says(y, "PUBLIC_KEY", "nothing")
<1>3. ServerDoes(o)
  BY DEF ServerIdent
<1>4. ASSUME cfg.host = "denied"
      PROVE  Answer(o)
  BY <1>2, <1>4, DisconnectAnswers
<1>5. ASSUME cfg.host # "denied"
      PROVE  Answer(o)
  <2>1. y \in Server /\ y.line = s.line /\ y.pc = "key" /\ y.cipher = s.cipher /\ y.flags = s.flags
    BY <1>2 DEF Server
  <2> HIDE DEF y
  <2>2. cfg.host \in {"permitted", "denied", "silent"}
    BY SetUp DEF IInv, Config
  <2>3. Living(y)
    BY <1>2, <1>5, <2>1, <2>2 DEF Living, Challenging, Admitting, Flagged, In
  <2>4. Sound(y)
    BY <1>2, <2>1, <2>3 DEF Sound
  <2> QED BY <1>5, <2>1, <2>4, SaysAnswers, TheTypes
<1>6. Answer(o)
  BY <1>4, <1>5
<1> HIDE DEF o
<1> QED BY <1>1, <1>2, <1>3, <1>6, Answered

LEMMA StepSessionKey ==
  ASSUME IInv, ServerSessionKey
  PROVE  IInv'
<1>1. Reads(s, toS, "key") /\ toS' = Tail(toS) /\ Head(toS).type = "SESSION_KEY"
  BY DEF ServerSessionKey
<1>2. /\ s.pc = "key" /\ s \in Server /\ s.line =< Len(cfg.lines) /\ Living(s) /\ toS # << >>
      /\ Head(toS).arg = cfg.cipher
  BY <1>1, Reading DEF About
<1>3. cfg.cipher \in {"none", "arcfour", "idea"}
  BY SetUp DEF IInv
<1> DEFINE y == [s EXCEPT !.pc = "user", !.coding = cfg.cipher, !.cipher = cfg.cipher]
<1>4. ServerDoes(Says(y, "SUCCESS", "nothing"))
  BY <1>2 DEF ServerSessionKey
<1>5. /\ y \in Server /\ y.line = s.line /\ y.pc = "user" /\ y.cipher = cfg.cipher
      /\ y.flags = s.flags
  BY <1>2, <1>3 DEF Server, Codings
<1> HIDE DEF y
<1>6. Living(y)
  BY <1>2, <1>5 DEF Living, Challenging, Admitting, Flagged, In
<1>7. Answer(Says(y, "SUCCESS", "nothing"))
  <2>1. Sound(y)
    BY <1>2, <1>5, <1>6 DEF Sound
  <2> QED BY <1>5, <2>1, SaysAnswers, TheTypes
<1> QED BY <1>1, <1>2, <1>4, <1>7, Answered

LEMMA StepUser ==
  ASSUME IInv, ServerUser
  PROVE  IInv'
<1>1. Reads(s, toS, "user") /\ toS' = Tail(toS)
  BY DEF ServerUser
<1>2. s.pc = "user" /\ s \in Server /\ s.line =< Len(cfg.lines) /\ Living(s) /\ toS # << >>
  BY <1>1, Reading
<1>3. cfg.host = "permitted" /\ s.cipher \in {"none", cfg.cipher} /\ (Plain => s.flags = {})
  BY <1>2 DEF Living, Admitting, Flagged, In
<1>4. cfg.root \in 0 .. 2
  BY SetUp DEF IInv
<1>5. CASE cfg.user = "unknown"
  <2> DEFINE y == [s EXCEPT !.pc = "failing"]
  <2>1. y \in Server /\ y.line = s.line /\ y.pc = "failing" /\ y.cipher = s.cipher
        /\ y.flags = s.flags
    BY <1>2 DEF Server
  <2>2. ServerDoes(Says(y, "FAILURE", "nothing"))
    BY <1>5 DEF ServerUser
  <2> HIDE DEF y
  <2>3. Living(y)
    BY <1>3, <2>1 DEF Living, Challenging, Admitting, Flagged, In
  <2>4. Sound(y)
    BY <1>2, <2>1, <2>3 DEF Sound
  <2>5. Answer(Says(y, "FAILURE", "nothing"))
    BY <2>1, <2>4, SaysAnswers, TheTypes
  <2> QED BY <1>1, <1>2, <2>2, <2>5, Answered
<1>6. CASE cfg.user # "unknown"
  <2>1. Asking(s)
    BY <1>2, <1>3, <1>6 DEF Asking
  <2>2. CASE cfg.empty /\ "password" \in cfg.offers
    <3>1. ServerDoes(Accepts(s, "password"))
      BY <1>6, <2>2 DEF ServerUser
    <3>2. Answer(Accepts(s, "password"))
      BY <1>3, <1>4, <2>1, <2>2, AcceptsAnswers DEF Methods
    <3> QED BY <1>1, <1>2, <3>1, <3>2, Answered
  <2>3. CASE ~(cfg.empty /\ "password" \in cfg.offers)
    <3>1. ServerDoes(Fails(s))
      BY <1>6, <2>3 DEF ServerUser
    <3>2. Answer(Fails(s))
      BY <1>3, <2>1, FailsAnswers
    <3> QED BY <1>1, <1>2, <3>1, <3>2, Answered
  <2> QED BY <2>2, <2>3
<1> QED BY <1>5, <1>6

LEMMA StepFailLoop ==
  ASSUME IInv, ServerFailLoop
  PROVE  IInv'
<1>1. Reads(s, toS, "failing") /\ toS' = Tail(toS)
  BY DEF ServerFailLoop
<1>2. s.pc = "failing" /\ s \in Server /\ s.line =< Len(cfg.lines) /\ Living(s) /\ toS # << >>
  BY <1>1, Reading
<1>3. ServerDoes(Says(s, "FAILURE", "nothing"))
  BY DEF ServerFailLoop
<1>4. Sound(s)
  BY <1>2 DEF Sound
<1>5. Answer(Says(s, "FAILURE", "nothing"))
  BY <1>2, <1>4, SaysAnswers, TheTypes
<1> QED BY <1>1, <1>2, <1>3, <1>5, Answered

-----------------------------------------------------------------------------
(* One request for authentication, and the responses.                      *)

LEMMA AuthAsking ==
  ASSUME IInv, NEW pc \in {"auth", "challenge", "hostchallenge", "tis"}, Reads(s, toS, pc)
  PROVE  Asking(s) /\ s.pc = pc /\ (Plain => s.flags = {}) /\ cfg.root \in 0 .. 2
<1>1. s.pc = pc /\ s \in Server /\ s.line =< Len(cfg.lines) /\ Living(s)
  BY Reading
<1>2. Admitting(s) /\ Flagged(s)
  BY <1>1 DEF Living
<1>3. cfg.root \in 0 .. 2
  BY SetUp DEF IInv
<1> QED BY <1>1, <1>2, <1>3 DEF Asking, Admitting, Flagged, In

LEMMA AnswerRhosts ==
  ASSUME IInv, Reads(s, toS, "auth"), AuthRhosts(Head(toS))
  PROVE  \E o : ServerDoes(o) /\ Answer(o)
<1>1. Asking(s) /\ (Plain => s.flags = {}) /\ cfg.root \in 0 .. 2
  BY AuthAsking
<1>2. Answer(Fails(s))
  BY <1>1, FailsAnswers
<1>3. ASSUME "rhosts" \in cfg.offers, cfg.port
      PROVE  Answer(Accepts(s, "rhosts"))
  BY <1>1, <1>3, AcceptsAnswers DEF Methods
<1>4. PICK listed \in BOOLEAN :
        ServerDoes(IF "rhosts" \in cfg.offers /\ cfg.port /\ listed
                   THEN Accepts(s, "rhosts") ELSE Fails(s))
  BY DEF AuthRhosts
<1> QED BY <1>2, <1>3, <1>4

LEMMA AnswerRhostsRsa ==
  ASSUME IInv, Reads(s, toS, "auth"), AuthRhostsRsa(Head(toS))
  PROVE  \E o : ServerDoes(o) /\ Answer(o)
<1>1. Asking(s) /\ (Plain => s.flags = {}) /\ s.pc = "auth"
  BY AuthAsking
<1>2. Answer(Fails(s))
  BY <1>1, FailsAnswers
<1>3. About(Head(toS)) /\ Head(toS).type = "AUTH_RHOSTS_RSA"
  BY Reading DEF AuthRhostsRsa
<1> DEFINE y == [s EXCEPT !.pc = "hostchallenge"]
           may == "rhosts_rsa" \in cfg.offers /\ cfg.port /\ s.cipher \notin {"none", "arcfour"}
           o == Says(y, "RSA_CHALLENGE", "nothing")
<1>4. ASSUME may
      PROVE  Answer(o)
  <2>1. /\ y \in Server /\ y.line = s.line /\ y.pc = "hostchallenge" /\ y.cipher = s.cipher
        /\ y.flags = s.flags
    BY <1>1 DEF Server, Asking
  <2> HIDE DEF y
  <2>2. cfg.cipher \in {"none", "arcfour", "idea"}
    BY SetUp DEF IInv
  <2>3. cfg.cipher = "idea" /\ "rhosts_rsa" \in cfg.offers /\ cfg.port
    BY <1>1, <1>4, <2>2 DEF Asking
  <2>4. Living(y)
    BY <1>1, <1>3, <2>1, <2>3 DEF Living, Challenging, Admitting, Flagged, In, Asking, About
  <2>5. Sound(y)
    BY <1>1, <2>1, <2>4 DEF Sound, Asking
  <2>6. y.coding \in Codings
    BY <2>1 DEF Server
  <2>7. /\ o.me = y /\ o.out \in Seq(Message) /\ Len(o.out) = 1
        /\ o.out[1].type = "RSA_CHALLENGE"
    BY <2>6, Plainly, TheTypes
  <2> QED BY <2>5, <2>7 DEF Answer, One
<1>5. \E listed \in BOOLEAN : ServerDoes(IF may /\ listed THEN o ELSE Fails(s))
  BY DEF AuthRhostsRsa
<1> HIDE DEF o, may
<1> QED BY <1>2, <1>4, <1>5

LEMMA AnswerRsa ==
  ASSUME IInv, Reads(s, toS, "auth"), AuthRsa(Head(toS))
  PROVE  \E o : ServerDoes(o) /\ Answer(o)
<1>1. Asking(s) /\ (Plain => s.flags = {})
  BY AuthAsking
<1>2. Answer(Fails(s))
  BY <1>1, FailsAnswers
<1>3. /\ Head(toS).type = "AUTH_RSA"
      /\ ServerDoes(IF "rsa" \in cfg.offers /\ cfg.readable
                    THEN Scan(s, Head(toS).arg, 0) ELSE Fails(s))
  BY DEF AuthRsa
<1>4. ASSUME "rsa" \in cfg.offers
      PROVE  Answer(Scan(s, Head(toS).arg, 0))
  <2>1. About(Head(toS))
    BY Reading
  <2>2. c.todo # << >> /\ Now.kind \in {"agent", "file"} /\ Head(toS).arg = Now.key
    BY <1>3, <2>1 DEF About, HasKey
  <2>3. Now \in Attempt
    BY <2>2, TailOf DEF Now, IInv, TypeOK, Client
  <2>4. Head(toS).arg \in Named
    BY <2>2, <2>3 DEF Attempt
  <2>5. Len(cfg.lines) \in Nat /\ DOMAIN cfg.lines = 1 .. Len(cfg.lines)
    BY SetUp DEF IInv
  <2> QED BY <1>1, <1>4, <2>2, <2>4, <2>5, ScanAnswers
<1> QED BY <1>2, <1>3, <1>4

\* A TIS server that is down is reported twice.
LEMMA AnswerTis ==
  ASSUME IInv, Reads(s, toS, "auth"), AuthTis(Head(toS))
  PROVE  \E o : ServerDoes(o) /\ Answer(o)
<1>1. Asking(s) /\ (Plain => s.flags = {}) /\ s.pc = "auth"
  BY AuthAsking
<1>2. Answer(Fails(s))
  BY <1>1, FailsAnswers
<1>3. Head(toS).type = "AUTH_TIS"
  BY DEF AuthTis
<1>4. CASE "tis" \notin cfg.offers \/ cfg.tis = "unknown"
  <2>1. ServerDoes(Fails(s))
    BY <1>4 DEF AuthTis
  <2> QED BY <1>2, <2>1
<1>5. CASE "tis" \in cfg.offers /\ cfg.tis = "down"
  <2> DEFINE o == [Fails(s) EXCEPT !.out = Fails(s).out \o Fails(s).out]
  <2>1. ServerDoes(o)
    BY <1>5 DEF AuthTis
  <2>2. o.me = Fails(s).me /\ o.out = Fails(s).out \o Fails(s).out
    BY DEF Fails, Says
  <2> HIDE DEF o
  <2>3. Answer(o)
    BY <1>2, <1>3, <2>2 DEF Answer
  <2> QED BY <2>1, <2>3
<1>6. CASE "tis" \in cfg.offers /\ cfg.tis = "asks"
  <2> DEFINE y == [s EXCEPT !.pc = "tis"]
  <2>1. ServerDoes(Says(y, "TIS_CHALLENGE", "nothing"))
    BY <1>6 DEF AuthTis
  <2>2. /\ y \in Server /\ y.line = s.line /\ y.pc = "tis" /\ y.cipher = s.cipher
        /\ y.flags = s.flags
    BY <1>1 DEF Server, Asking
  <2> HIDE DEF y
  <2>3. Living(y)
    BY <1>1, <1>6, <2>2 DEF Living, Challenging, Admitting, Flagged, In, Asking
  <2>4. Sound(y)
    BY <1>1, <2>2, <2>3 DEF Sound, Asking
  <2>5. Answer(Says(y, "TIS_CHALLENGE", "nothing"))
    BY <2>2, <2>4, SaysAnswers, TheTypes
  <2> QED BY <2>1, <2>5
<1>7. cfg.tis \in {"down", "unknown", "asks"}
  BY SetUp DEF IInv, Config
<1> QED BY <1>4, <1>5, <1>6, <1>7

LEMMA AnswerPassword ==
  ASSUME IInv, Reads(s, toS, "auth"), AuthPassword(Head(toS))
  PROVE  \E o : ServerDoes(o) /\ Answer(o)
<1>1. Asking(s) /\ (Plain => s.flags = {}) /\ s.pc = "auth" /\ cfg.root \in 0 .. 2
  BY AuthAsking
<1>2. Answer(Fails(s)) /\ Answer(Disconnect(s))
  BY <1>1, FailsAnswers, DisconnectAnswers DEF Asking
<1>3. Head(toS).type = "AUTH_PASSWORD" /\ About(Head(toS))
  BY Reading DEF AuthPassword
<1> DEFINE counted == [s EXCEPT !.attempts = s.attempts + 1]
           looks == ~("password" \notin cfg.offers \/ s.cipher = "none")
<1>4. /\ ~looks => ServerDoes(Fails(s))
      /\ looks /\ s.attempts >= MaxAttempts => ServerDoes(Disconnect(s))
      /\ looks /\ ~(s.attempts >= MaxAttempts) =>
           ServerDoes(IF Head(toS).arg = "right" THEN Accepts(counted, "password")
                      ELSE Fails(counted))
  BY DEF AuthPassword
<1>5. ASSUME looks, ~(s.attempts >= MaxAttempts)
      PROVE  /\ Answer(Fails(counted))
             /\ Head(toS).arg = "right" => Answer(Accepts(counted, "password"))
  <2>1. MaxAttempts \in Nat /\ s.attempts \in Nat /\ s.attempts + 1 \in 0 .. MaxAttempts
    BY <1>1, <1>5, SetUp DEF IInv, Asking, Server
  <2>2. /\ counted \in Server /\ counted.line = s.line /\ counted.cipher = s.cipher
        /\ counted.flags = s.flags
    BY <1>1, <2>1 DEF Server, Asking
  <2> HIDE DEF counted
  <2>3. Asking(counted)
    BY <1>1, <2>2 DEF Asking
  <2>4. cfg.cipher # "none"
    BY <1>1, <1>5 DEF Asking
  <2>5. Answer(Fails(counted))
    BY <1>1, <2>2, <2>3, FailsAnswers
  <2>6. ASSUME Head(toS).arg = "right"
        PROVE  Answer(Accepts(counted, "password"))
    <3>1. "password" \in cfg.knows
      BY <1>3, <2>6 DEF About
    <3> QED BY <1>1, <1>5, <2>2, <2>3, <2>4, <3>1, AcceptsAnswers DEF Methods
  <2> QED BY <2>5, <2>6
<1> HIDE DEF counted, looks
<1> QED BY <1>2, <1>4, <1>5

LEMMA StepAuth ==
  ASSUME IInv, ServerAuth
  PROVE  IInv'
<1>1. Reads(s, toS, "auth") /\ toS' = Tail(toS)
  BY DEF ServerAuth
<1>2. CASE AuthUnknown(Head(toS))
  <2>1. ServerDoes(Fails(s))
    BY <1>2 DEF AuthUnknown
  <2>2. Answer(Fails(s))
    BY <1>1, AuthAsking, FailsAnswers
  <2> QED BY <1>1, <2>1, <2>2, Reading, Answered
<1>3. CASE ~AuthUnknown(Head(toS))
  <2>1. \E o : ServerDoes(o) /\ Answer(o)
    BY <1>1, <1>3, AnswerRhosts, AnswerRhostsRsa, AnswerRsa, AnswerTis, AnswerPassword
       DEF ServerAuth
  <2>2. s.pc = "auth" /\ toS # << >>
    BY <1>1 DEF Reads
  <2> QED BY <1>1, <2>1, <2>2, Answered
<1> QED BY <1>2, <1>3

\* A right answer lets the user in, unless the line refuses; the options set meanwhile
\* are those of this line.
LEMMA StepChallenge ==
  ASSUME IInv, ServerChallenge
  PROVE  IInv'
<1>1. Reads(s, toS, "challenge") /\ toS' = Tail(toS) /\ Head(toS).type = "RSA_RESPONSE"
  BY DEF ServerChallenge
<1>2. Asking(s) /\ (Plain => s.flags = {}) /\ cfg.root \in 0 .. 2 /\ s.pc = "challenge"
  BY <1>1, AuthAsking
<1>3. Living(s) /\ toS # << >> /\ About(Head(toS))
  BY <1>1, Reading
<1>4. /\ c.todo # << >> /\ Now.kind \in {"agent", "file"} /\ s.key = Now.key
      /\ "rsa" \in cfg.offers /\ s.line \in DOMAIN cfg.lines /\ cfg.lines[s.line].key = s.key
  BY <1>2, <1>3 DEF Living, Challenging
<1>5. /\ Head(toS).arg \in {"right", "wrong"}
      /\ Head(toS).arg = "right" => s.key \in cfg.knows
  BY <1>1, <1>3, <1>4 DEF About, Secret
<1>6. s.key \in Named /\ s.line \in Nat
  BY <1>2 DEF Asking, Server
<1>7. /\ Len(cfg.lines) \in Nat /\ DOMAIN cfg.lines = 1 .. Len(cfg.lines)
      /\ cfg.lines[s.line].sets \subseteq Restrictions
  BY <1>4, SetUp DEF IInv
<1> DEFINE line == cfg.lines[s.line]
           set == [s EXCEPT !.flags = s.flags \cup line.sets]
<1>8. set.flags = s.flags \cup line.sets /\ set.line = s.line
      /\ set \in Server /\ set.cipher = s.cipher
  BY <1>2, <1>7 DEF Asking, Server
<1>9. /\ Head(toS).arg = "wrong" => ServerDoes(Scan(s, s.key, s.line))
      /\ Head(toS).arg = "right" /\ line.refuses => ServerDoes(Scan(set, s.key, s.line))
      /\ Head(toS).arg = "right" /\ ~line.refuses => ServerDoes(Accepts(set, "rsa"))
  BY DEF ServerChallenge
<1> HIDE DEF set
<1>10. Asking(set)
  BY <1>2, <1>8 DEF Asking
<1>11. CASE Head(toS).arg = "wrong"
  <2>1. Answer(Scan(s, s.key, s.line))
    BY <1>2, <1>4, <1>6, <1>7, ScanAnswers
  <2> QED BY <1>1, <1>2, <1>3, <1>9, <1>11, <2>1, Answered
<1>12. CASE Head(toS).arg = "right" /\ line.refuses
  <2>1. Plain => line.sets = {}
    BY <1>4, <1>12 DEF Plain
  <2>2. Plain => set.flags = {}
    BY <1>2, <1>8, <2>1
  <2>3. Answer(Scan(set, s.key, s.line))
    BY <1>4, <1>6, <1>7, <1>10, <2>2, ScanAnswers
  <2> QED BY <1>1, <1>2, <1>3, <1>9, <1>12, <2>3, Answered
<1>13. CASE Head(toS).arg = "right" /\ ~line.refuses
  <2>1. \E i \in DOMAIN cfg.lines : cfg.lines[i].key \in cfg.knows /\ ~cfg.lines[i].refuses
    BY <1>4, <1>5, <1>13
  <2>2. Plain => set.flags = cfg.lines[set.line].sets
    BY <1>2, <1>8
  <2>3. Answer(Accepts(set, "rsa"))
    BY <1>2, <1>4, <1>10, <2>1, <2>2, AcceptsAnswers DEF Methods
  <2> QED BY <1>1, <1>2, <1>3, <1>9, <1>13, <2>3, Answered
<1> QED BY <1>5, <1>11, <1>12, <1>13

LEMMA StepHostChallenge ==
  ASSUME IInv, ServerHostChallenge
  PROVE  IInv'
<1>1. Reads(s, toS, "hostchallenge") /\ toS' = Tail(toS) /\ Head(toS).type = "RSA_RESPONSE"
  BY DEF ServerHostChallenge
<1>2. Asking(s) /\ (Plain => s.flags = {}) /\ cfg.root \in 0 .. 2 /\ s.pc = "hostchallenge"
  BY <1>1, AuthAsking
<1>3. Living(s) /\ toS # << >> /\ About(Head(toS))
  BY <1>1, Reading
<1>4. Now.kind = "rhosts_rsa" /\ "rhosts_rsa" \in cfg.offers /\ cfg.port /\ cfg.cipher = "idea"
  BY <1>2, <1>3 DEF Living, Challenging
<1>5. Head(toS).arg = "right" => "hostkey" \in cfg.knows
  BY <1>1, <1>3, <1>4 DEF About, Secret
<1>6. ServerDoes(IF Head(toS).arg = "right" THEN Accepts(s, "rhosts_rsa") ELSE Fails(s))
  BY DEF ServerHostChallenge
<1>7. Answer(Fails(s))
  BY <1>2, FailsAnswers
<1>8. Head(toS).arg = "right" => Answer(Accepts(s, "rhosts_rsa"))
  BY <1>2, <1>4, <1>5, AcceptsAnswers DEF Methods
<1> QED BY <1>1, <1>2, <1>3, <1>6, <1>7, <1>8, Answered

LEMMA StepTis ==
  ASSUME IInv, ServerTis
  PROVE  IInv'
<1>1. Reads(s, toS, "tis") /\ toS' = Tail(toS)
  BY DEF ServerTis
<1>2. Asking(s) /\ (Plain => s.flags = {}) /\ cfg.root \in 0 .. 2 /\ s.pc = "tis"
  BY <1>1, AuthAsking
<1>3. Living(s) /\ toS # << >> /\ About(Head(toS))
  BY <1>1, Reading
<1>4. "tis" \in cfg.offers
  BY <1>2, <1>3 DEF Living, Challenging
<1> DEFINE right == Head(toS).type = "TIS_RESPONSE" /\ Head(toS).arg = "right"
<1>5. right => "tis" \in cfg.knows
  BY <1>3 DEF About
<1>6. ServerDoes(IF right THEN Accepts(s, "tis") ELSE Fails(s))
  BY DEF ServerTis
<1>7. Answer(Fails(s))
  BY <1>2, FailsAnswers
<1>8. right => Answer(Accepts(s, "tis"))
  BY <1>2, <1>4, <1>5, AcceptsAnswers DEF Methods
<1> QED BY <1>1, <1>2, <1>3, <1>6, <1>7, <1>8, Answered

-----------------------------------------------------------------------------
(* The preparation of the session, and the end of the child.               *)

\* Once admitted, a server stays entitled whatever is prepared.
Prepared(x) == /\ x \in Server /\ x.line = s.line /\ x.cipher = s.cipher
               /\ x.flags = s.flags /\ x.by = s.by
LEMMA PreparedSound ==
  ASSUME Living(s), In(s), s.line =< Len(cfg.lines), NEW x, Prepared(x), In(x)
  PROVE  Sound(x)
<1>1. Challenging(x) /\ Admitting(x) /\ Entitled(x) /\ Flagged(x)
  BY DEF Living, In, Prepared, Challenging, Admitting, Entitled, Flagged
<1> QED BY <1>1 DEF Sound, Living, Prepared, In

LEMMA PrepAnswers ==
  ASSUME Living(s), s.pc = "prep", s.line =< Len(cfg.lines), NEW x, Prepared(x), x.pc = "prep"
  PROVE  /\ Answer(Refuses(x))
         /\ Answer(Disconnect(x))
         /\ \A r \in Requests : /\ Answer(Grants(x, r)) /\ Prepared(Grants(x, r).me)
                               /\ Grants(x, r).me.pc = "prep"
<1>1. In(s) /\ In(x)
  BY DEF In
<1>2. Answer(Refuses(x))
  <2>1. Sound(x)
    BY <1>1, PreparedSound
  <2> QED BY <2>1, SaysAnswers, TheTypes DEF Refuses
<1>3. Answer(Disconnect(x))
  BY DisconnectAnswers DEF Prepared
<1>4. ASSUME NEW r \in Requests
      PROVE  Answer(Grants(x, r)) /\ Prepared(Grants(x, r).me) /\ Grants(x, r).me.pc = "prep"
  <2> DEFINE y == [x EXCEPT !.provided = x.provided \cup {r}]
  <2>1. Prepared(y) /\ y.pc = "prep"
    BY DEF Prepared, Server
  <2>2. Grants(x, r) = Says(y, "SUCCESS", "nothing")
    BY DEF Grants
  <2> HIDE DEF y
  <2>3. Sound(y)
    BY <1>1, <2>1, PreparedSound DEF In
  <2>4. Answer(Says(y, "SUCCESS", "nothing"))
    BY <2>1, <2>3, SaysAnswers, TheTypes
  <2>5. Says(y, "SUCCESS", "nothing").me = y
    BY DEF Says
  <2> QED BY <2>1, <2>2, <2>4, <2>5
<1> QED BY <1>2, <1>3, <1>4

LEMMA StepPrep ==
  ASSUME IInv, ServerPrep
  PROVE  IInv'
<1>1. Reads(s, toS, "prep") /\ toS' = Tail(toS)
  BY DEF ServerPrep
<1>2. s.pc = "prep" /\ s \in Server /\ s.line =< Len(cfg.lines) /\ Living(s) /\ toS # << >>
  BY <1>1, Reading
<1> DEFINE m == Head(toS)
<1>3. /\ Answer(Refuses(s)) /\ Answer(Disconnect(s))
      /\ \A r \in Requests : /\ Answer(Grants(s, r)) /\ Prepared(Grants(s, r).me)
                              /\ Grants(s, r).me.pc = "prep"
  BY <1>2, PrepAnswers DEF Prepared
<1>4. {"compression", "pty", "x11", "agent", "forward"} \subseteq Requests
  BY DEF Requests
<1>5. SUFFICES \E o : ServerDoes(o) /\ Answer(o)
  BY <1>1, <1>2, Answered
<1>6. CASE PrepCompression(m)
  <2> DEFINE o == Grants(s, "compression")
             x == [o.me EXCEPT !.coding = "packed"]
             p == [o EXCEPT !.me.coding = "packed"]
  <2>1. ServerDoes(p)
    BY <1>6 DEF PrepCompression
  <2>2. p.me = x /\ p.out = o.out
    BY DEF Grants, Says
  <2>3. Prepared(o.me) /\ Answer(o) /\ o.me.pc = "prep"
    BY <1>3, <1>4
  <2>4. Prepared(x) /\ x.pc = "prep"
    BY <2>3 DEF Prepared, Server, Codings
  <2> HIDE DEF x, p, o
  <2>5. Sound(x)
    BY <1>2, <2>4, PreparedSound DEF In
  <2>6. Answer(p)
    BY <2>2, <2>3, <2>4, <2>5 DEF Answer, One
  <2> QED BY <2>1, <2>6
<1>7. CASE PrepPty(m)
  <2> DEFINE x == [s EXCEPT !.tty = "held"]
             y == [s EXCEPT !.tty = "lost"]
  <2>1. Prepared(x) /\ x.pc = "prep" /\ Prepared(y) /\ y.pc = "prep"
    BY <1>2 DEF Prepared, Server
  <2>2. ServerDoes(Refuses(s)) \/ ServerDoes(Grants(x, "pty")) \/ ServerDoes(Refuses(y))
    BY <1>7 DEF PrepPty
  <2> HIDE DEF x, y
  <2>3. Answer(Grants(x, "pty")) /\ Answer(Refuses(y))
    BY <1>2, <1>4, <2>1, PrepAnswers
  <2> QED BY <1>3, <2>2, <2>3
<1>8. CASE PrepX11(m)
  <2>1. ServerDoes(Refuses(s)) \/ ServerDoes(Grants(s, "x11"))
    BY <1>8 DEF PrepX11
  <2> QED BY <1>3, <1>4, <2>1
<1>9. CASE PrepAgent(m)
  <2> DEFINE x == [s EXCEPT !.agent = "listening"]
             y == [s EXCEPT !.agent = "named"]
  <2>1. Prepared(x) /\ x.pc = "prep" /\ Prepared(y) /\ y.pc = "prep"
    BY <1>2 DEF Prepared, Server
  <2>2. \/ ServerDoes(Refuses(s)) \/ ServerDoes(Grants(x, "agent")) \/ ServerDoes(Refuses(y))
        \/ ServerDoes(Disconnect(y))
    BY <1>9 DEF PrepAgent
  <2> HIDE DEF x, y
  <2>3. Answer(Grants(x, "agent")) /\ Answer(Refuses(y)) /\ Answer(Disconnect(y))
    BY <1>2, <1>4, <2>1, PrepAnswers
  <2> QED BY <1>3, <2>2, <2>3
<1>10. CASE PrepForward(m)
  <2>1. ServerDoes(Refuses(s)) \/ ServerDoes(Grants(s, "forward")) \/ ServerDoes(Disconnect(s))
    BY <1>10 DEF PrepForward
  <2> QED BY <1>3, <1>4, <2>1
<1>11. CASE PrepExec(m)
  <2>1. PICK tty \in {"none", "lost", "held", "guarded"} :
          tty = IF s.tty = "held" THEN "guarded" ELSE s.tty
    BY <1>2 DEF Server
  <2> DEFINE x == [s EXCEPT !.pc = "session", !.tty = tty]
  <2>2. ServerDoes(Silent(x)) \/ ServerDoes(Disconnect(s))
    BY <1>11, <2>1 DEF PrepExec
  <2>3. Prepared(x) /\ x.pc = "session"
    BY <1>2 DEF Prepared, Server
  <2> HIDE DEF x
  <2>4. Sound(x)
    BY <1>2, <2>3, PreparedSound DEF In
  <2>5. Silent(x).me = x /\ Silent(x).out = << >> /\ << >> \in Seq(Message)
    BY DEF Silent
  <2>6. Head(toS).type = "EXEC"
    BY <1>11 DEF PrepExec
  <2>7. Answer(Silent(x))
    BY <2>4, <2>5, <2>6 DEF Answer
  <2> QED BY <1>3, <2>2, <2>7
<1>12. CASE PrepUnknown(m)
  BY <1>3, <1>12 DEF PrepUnknown
<1> QED
  BY <1>6, <1>7, <1>8, <1>9, <1>10, <1>11, <1>12 DEF ServerPrep

LEMMA StepStart ==
  ASSUME IInv, ServerStart
  PROVE  IInv'
<1>1. s.pc = "start" /\ toS' = toS
  BY DEF ServerStart
<1>2. s \in Server /\ s.line =< Len(cfg.lines) /\ toS \in Seq(Message) /\ toC \in Seq(Message)
      /\ Living(s) /\ Clean(s) /\ Claims /\ Lockstep
  BY <1>1 DEF IInv, TypeOK, Fine
<1>3. CASE cfg.host = "silent"
  <2> DEFINE x == [s EXCEPT !.pc = "dead"]
  <2>1. ServerDoes(Silent(x))
    BY <1>3 DEF ServerStart
  <2>2. x \in Server /\ x.line = s.line /\ x.pc = "dead" /\ Clean(x)
    BY <1>2 DEF Server, Clean
  <2> HIDE DEF x
  <2>3. Silent(x).me = x /\ Silent(x).out = << >> /\ << >> \in Seq(Message)
    BY DEF Silent
  <2>4. Sound(x)
    BY <1>2, <2>2 DEF Sound
  <2> QED BY <1>1, <1>2, <2>1, <2>2, <2>3, <2>4, ServerEnds
<1>4. CASE cfg.host # "silent"
  <2> DEFINE x == [s EXCEPT !.pc = "ident", !.alarm = cfg.timed]
             o == Says(x, "IDENT", "nothing")
  <2>1. ServerDoes(o)
    BY <1>4 DEF ServerStart
  <2>2. cfg.timed \in BOOLEAN
    BY SetUp DEF IInv
  <2>3. /\ x \in Server /\ x.line = s.line /\ x.pc = "ident" /\ x.cipher = s.cipher
        /\ x.flags = s.flags
    BY <1>2, <2>2 DEF Server
  <2> HIDE DEF x
  <2>4. Living(x)
    BY <1>1, <1>2, <1>4, <2>3 DEF Living, Challenging, Admitting, Flagged, In
  <2>5. Sound(x) /\ x.coding \in Codings
    BY <1>2, <2>3, <2>4 DEF Sound, Server
  <2>6. o.me = x /\ o.out \in Seq(Message) /\ Len(o.out) = 1
    BY <2>5, Plainly, TheTypes
  <2> HIDE DEF o
  <2>7. s' = x /\ toC' = Sent(toC, o.out) /\ c' = c /\ cfg' = cfg /\ up' = up
    BY <2>1, <2>6 DEF ServerDoes
  <2>8. Fine(s)' /\ s' \in Server /\ s'.line =< Len(cfg'.lines)
    BY <2>5, <2>7, StaysSound
  <2>9. TypeOK'
    <3>1. toC' \in Seq(Message)
      BY <1>2, <2>6, <2>7, SentTyped
    <3> QED BY <1>1, <2>7, <2>8, <3>1 DEF IInv, TypeOK
  <2>10. Claims'
    BY <1>1, <1>2, <2>7 DEF Claims, About, Now, HasKey, InEarly, Early, Secret
  <2>11. Lockstep'
    <3>1. ASSUME up, c.pc = "ident"
          PROVE  Len(toC') =< 1
      <4>1. toC = << >>
        BY <1>1, <1>2, <3>1 DEF Lockstep
      <4>2. toC' = o.out
        BY <2>6, <2>7, <3>1, <4>1 DEF Sent
      <4>3. Len(toC') = 1
        BY <2>6, <4>2
      <4> QED BY <4>3
    <3>2. /\ up /\ c.pc # "dead" => c.pc = "ident" /\ toS = << >>
          /\ ~up => toS = << >> /\ toC' = << >>
      BY <1>1, <1>2, <2>7 DEF Lockstep, Sent
    <3>3. toS' = toS /\ c' = c /\ up' = up /\ s'.pc = "ident"
      BY <1>1, <2>3, <2>7
    <3>4. CASE up /\ c.pc # "dead"
      <4>1. c'.pc = "ident" /\ toS' = << >> /\ Len(toC') =< 1 /\ s'.pc = "ident" /\ up'
        BY <3>1, <3>2, <3>3, <3>4
      <4> QED BY <4>1 DEF Lockstep
    <3>5. CASE ~(up /\ c.pc # "dead")
      BY <3>2, <3>3, <3>5 DEF Lockstep
    <3> QED BY <3>4, <3>5
  <2>12. Ordered(c.todo)' /\ Placed(c)'
    BY <2>7 DEF IInv, Ordered, Placed
  <2> QED BY <2>8, <2>9, <2>10, <2>11, <2>12 DEF IInv
<1> QED BY <1>3, <1>4

LEMMA StepBegin ==
  ASSUME IInv, BeginPreparation
  PROVE  IInv'
<1>1. s.pc = "accepted" /\ toS' = toS
  BY DEF BeginPreparation
<1>2. s \in Server /\ s.line =< Len(cfg.lines) /\ toS \in Seq(Message) /\ toC \in Seq(Message)
      /\ Living(s) /\ Claims /\ Lockstep
  BY <1>1 DEF IInv, TypeOK, Fine
<1> DEFINE x == [s EXCEPT !.pc = "prep", !.alarm = FALSE]
<1>3. ServerDoes(Silent(x))
  BY DEF BeginPreparation
<1>4. Prepared(x) /\ x.pc = "prep"
  BY <1>2 DEF Prepared, Server
<1> HIDE DEF x
<1>5. Sound(x)
  BY <1>1, <1>2, <1>4, PreparedSound DEF In
<1>6. s' = x /\ toC' = toC /\ c' = c /\ cfg' = cfg /\ up' = up
  BY <1>2, <1>3 DEF ServerDoes, Silent, Sent
<1>7. Fine(s)' /\ s' \in Server /\ s'.line =< Len(cfg'.lines)
  BY <1>5, <1>6, StaysSound
<1>8. TypeOK'
  BY <1>1, <1>2, <1>6, <1>7 DEF IInv, TypeOK
<1>9. Claims'
  BY <1>1, <1>2, <1>6 DEF Claims, About, Now, HasKey, InEarly, Early, Secret
<1>10. Lockstep'
  BY <1>1, <1>2, <1>4, <1>6 DEF Lockstep, Token, Now, InEarly, Early, HasKey
<1>11. Ordered(c.todo)' /\ Placed(c)'
  BY <1>6 DEF IInv, Ordered, Placed
<1> QED BY <1>7, <1>8, <1>9, <1>10, <1>11 DEF IInv

\* Whatever ends the child.
LEMMA StepEnds ==
  ASSUME IInv, SessionOver \/ GraceAlarm \/ ServerProtocolError \/ ServerLoses
  PROVE  IInv'
<1>1. s \in Server /\ s.line =< Len(cfg.lines) /\ toS \in Seq(Message)
  BY DEF IInv, TypeOK
<1>2. << >> \in Seq(Message) /\ (toS # << >> => Tail(toS) \in Seq(Message))
  BY <1>1, TailOf
<1>3. CASE SessionOver
  <2>1. PICK tty \in {"none", "lost", "held", "guarded"} :
          tty = IF s.tty = "guarded" THEN "none" ELSE s.tty
    BY <1>1 DEF Server
  <2> DEFINE x == [s EXCEPT !.pc = "dead", !.agent = "none", !.tty = tty]
  <2>2. ServerDoes(Silent(x)) /\ toS' = toS
    BY <1>3, <2>1 DEF SessionOver
  <2>3. x \in Server /\ x.line = s.line /\ x.pc = "dead" /\ Clean(x)
    BY <1>1, <2>1, ZenonT(60) DEF Server, Clean
  <2> HIDE DEF x
  <2>4. Silent(x).me = x /\ Silent(x).out = << >>
    BY DEF Silent
  <2>5. Sound(x)
    BY <1>1, <2>3 DEF Sound
  <2> QED BY <1>1, <1>2, <2>2, <2>3, <2>4, <2>5, ServerEnds
<1>4. ASSUME GraceAlarm \/ ServerLoses
      PROVE  IInv'
  <2>1. ServerDoes(Silent(Dead(s))) /\ toS' \in Seq(Message)
    BY <1>1, <1>2, <1>4 DEF GraceAlarm, ServerLoses
  <2>2. Silent(Dead(s)).me = Dead(s) /\ Silent(Dead(s)).out = << >>
    BY DEF Silent
  <2>3. Sound(Dead(s)) /\ Dead(s).pc = "dead"
    BY <1>1, Dies DEF Sound
  <2> QED BY <1>2, <2>1, <2>2, <2>3, ServerEnds
<1>5. CASE ServerProtocolError
  <2>1. ServerDoes(Disconnect(s)) /\ toS' \in Seq(Message)
    BY <1>1, <1>2, <1>5 DEF ServerProtocolError
  <2>2. Sound(Disconnect(s).me) /\ Disconnect(s).me.pc = "dead"
        /\ Disconnect(s).out \in Seq(Message)
    BY <1>1, Disconnects DEF Sound
  <2> QED BY <2>1, <2>2, ServerEnds
<1> QED BY <1>3, <1>4, <1>5

LEMMA StepServer ==
  ASSUME IInv, ServerStep \/ SessionOver \/ GraceAlarm
  PROVE  IInv'
BY StepStart, StepIdent, StepSessionKey, StepUser, StepFailLoop, StepAuth, StepChallenge,
   StepHostChallenge, StepTis, StepBegin, StepPrep, StepEnds DEF ServerStep

-----------------------------------------------------------------------------
(* What the client will try: first what the two programs do in lockstep.   *)

Firsts(q) == q \in Seq(Attempt) /\ \A i \in DOMAIN q : Early(q[i])
Lasts(q)  == q \in Seq(Attempt) /\ \A i \in DOMAIN q : ~Early(q[i])

LEMMA Joined ==
  ASSUME NEW p \in Seq(Attempt), NEW q \in Seq(Attempt)
  PROVE  /\ p \o q \in Seq(Attempt)
         /\ \A k \in DOMAIN (p \o q) :
              \/ k \in DOMAIN p /\ (p \o q)[k] = p[k]
              \/ \E j \in DOMAIN q : k = Len(p) + j /\ (p \o q)[k] = q[j]
         /\ DOMAIN p = 1 .. Len(p) /\ Len(p) \in Nat
         /\ DOMAIN q = 1 .. Len(q) /\ Len(q) \in Nat
<1>1. DOMAIN p = 1 .. Len(p) /\ Len(p) \in Nat /\ DOMAIN q = 1 .. Len(q) /\ Len(q) \in Nat
  BY LenProperties
<1>2. /\ p \o q \in Seq(Attempt) /\ Len(p \o q) = Len(p) + Len(q)
      /\ \A k \in 1 .. Len(p) + Len(q) :
           (p \o q)[k] = IF k =< Len(p) THEN p[k] ELSE q[k - Len(p)]
  BY ConcatProperties
<1>3. DOMAIN (p \o q) = 1 .. Len(p) + Len(q)
  BY <1>2, LenProperties
<1>4. ASSUME NEW k \in DOMAIN (p \o q), k \notin DOMAIN p
      PROVE  \E j \in DOMAIN q : k = Len(p) + j /\ (p \o q)[k] = q[j]
  <2>1. k \in Nat /\ k > Len(p) /\ k =< Len(p) + Len(q)
    BY <1>1, <1>3, <1>4
  <2>2. k - Len(p) \in DOMAIN q /\ k = Len(p) + (k - Len(p))
    BY <1>1, <2>1
  <2>3. (p \o q)[k] = q[k - Len(p)]
    BY <1>1, <1>2, <1>3, <2>1
  <2> QED BY <2>2, <2>3
<1>5. ASSUME NEW k \in DOMAIN (p \o q), k \in DOMAIN p
      PROVE  (p \o q)[k] = p[k]
  BY <1>1, <1>2, <1>3, <1>5
<1> QED BY <1>1, <1>2, <1>4, <1>5

LEMMA Singly ==
  ASSUME NEW a \in Attempt
  PROVE  (Early(a) => Firsts(<<a>>)) /\ (~Early(a) => Lasts(<<a>>))
<1>1. <<a>> \in Seq(Attempt) /\ DOMAIN <<a>> = {1} /\ <<a>>[1] = a
  OBVIOUS
<1> QED BY <1>1 DEF Firsts, Lasts

LEMMA FirstsJoined ==
  ASSUME NEW p, NEW q, Firsts(p), Firsts(q)
  PROVE  Firsts(p \o q)
BY Joined DEF Firsts

LEMMA LastsJoined ==
  ASSUME NEW p \in Seq(Attempt), NEW q, Ordered(p), Lasts(q)
  PROVE  p \o q \in Seq(Attempt) /\ Ordered(p \o q)
<1> DEFINE r == p \o q
<1>1. /\ r \in Seq(Attempt) /\ DOMAIN p = 1 .. Len(p) /\ Len(p) \in Nat
      /\ DOMAIN q = 1 .. Len(q) /\ Len(q) \in Nat
      /\ \A k \in DOMAIN r : \/ k \in DOMAIN p /\ r[k] = p[k]
                             \/ \E j \in DOMAIN q : k = Len(p) + j /\ r[k] = q[j]
  BY Joined DEF Lasts
<1> HIDE DEF r
<1>2. ASSUME NEW i \in DOMAIN r, NEW j \in DOMAIN r, i < j, Early(r[j])
      PROVE  Early(r[i])
  <2>1. j \in DOMAIN p /\ r[j] = p[j]
    BY <1>1, <1>2 DEF Lasts
  <2>2. i \in DOMAIN p /\ r[i] = p[i]
    <3>1. \A n \in DOMAIN q : i # Len(p) + n
      BY <1>1, <1>2, <2>1
    <3> QED BY <1>1, <3>1
  <2> QED BY <1>2, <2>1, <2>2 DEF Ordered
<1>3. Ordered(r)
  BY <1>2 DEF Ordered
<1> QED BY <1>1, <1>3 DEF r

LEMMA FirstsOrdered ==
  ASSUME NEW p, Firsts(p)
  PROVE  p \in Seq(Attempt) /\ Ordered(p)
BY DEF Firsts, Ordered

\* The authentication server is tried only by a client that wants it.
Willing(q) == \A i \in DOMAIN q : q[i].kind = "tis" => "tis" \in cfg.wants

LEMMA WillingJoined ==
  ASSUME NEW p \in Seq(Attempt), NEW q \in Seq(Attempt), Willing(p), Willing(q)
  PROVE  Willing(p \o q)
<1>1. ASSUME NEW k \in DOMAIN (p \o q), (p \o q)[k].kind = "tis"
      PROVE  "tis" \in cfg.wants
  BY <1>1, Joined DEF Willing
<1> QED BY <1>1 DEF Willing

LEMMA AttemptsOrdered ==
  ASSUME TypeOK
  PROVE  Attempts \in Seq(Attempt) /\ Ordered(Attempts) /\ Willing(Attempts)
<1> DEFINE try(method, seq) == IF method \in cfg.wants \cap cfg.offers THEN seq ELSE << >>
           one(kind) == <<[kind |-> kind, key |-> "nothing"]>>
           each(kind, keys) == [i \in DOMAIN keys |-> [kind |-> kind, key |-> keys[i]]]
           asked(n) == IF cfg.batch THEN 0 ELSE n
           a1 == try("rhosts", one("rhosts"))
           a2 == try("rhosts_rsa", IF "hostkey" \in cfg.knows THEN one("rhosts_rsa") ELSE << >>)
           a3 == try("rsa", each("agent", cfg.agent) \o each("file", cfg.files))
           a4 == try("tis", IF cfg.batch THEN << >> ELSE one("tis"))
           a5 == try("password", [i \in 1 .. asked(cfg.prompts) |->
                                    [kind |-> "password", key |-> "nothing"]])
<1>1. Attempts = a1 \o a2 \o a3 \o a4 \o a5
  BY DEF Attempts
<1>2. Firsts(<< >>) /\ Lasts(<< >>)
  BY DEF Firsts, Lasts
<1>3. "nothing" \in Named /\ Identities \subseteq Named
  BY DEF Named
<1>4. ASSUME NEW kind \in {"rhosts", "rhosts_rsa"}
      PROVE  Firsts(one(kind))
  <2>1. [kind |-> kind, key |-> "nothing"] \in Attempt
    BY <1>3 DEF Attempt
  <2>2. Early([kind |-> kind, key |-> "nothing"])
    BY DEF Early, HasKey
  <2> QED BY <2>1, <2>2, Singly
<1>5. Lasts(one("tis"))
  <2>1. /\ [kind |-> "tis", key |-> "nothing"] \in Attempt
        /\ ~Early([kind |-> "tis", key |-> "nothing"])
    BY <1>3 DEF Attempt, Early, HasKey
  <2> QED BY <2>1, Singly
<1>6. ASSUME NEW kind \in {"agent", "file"}, NEW keys \in Seq(Identities)
      PROVE  Firsts(each(kind, keys))
  <2>1. ASSUME NEW i \in DOMAIN keys
        PROVE  /\ [kind |-> kind, key |-> keys[i]] \in Attempt
               /\ Early([kind |-> kind, key |-> keys[i]])
    <3>1. keys[i] \in Named
      BY <1>3, LenProperties, ElementOfSeq
    <3> QED BY <3>1 DEF Attempt, Early, HasKey
  <2>2. Len(keys) \in Nat /\ DOMAIN keys = 1 .. Len(keys)
    BY LenProperties
  <2>3. each(kind, keys) \in Seq(Attempt)
    BY <2>1, <2>2
  <2> QED BY <2>1, <2>3 DEF Firsts
<1>7. Lasts([i \in 1 .. asked(cfg.prompts) |-> [kind |-> "password", key |-> "nothing"]])
  <2>1. asked(cfg.prompts) \in Nat
    BY SetUp
  <2>2. [kind |-> "password", key |-> "nothing"] \in Attempt
        /\ ~Early([kind |-> "password", key |-> "nothing"])
    BY <1>3 DEF Attempt, Early, HasKey
  <2> HIDE DEF asked
  <2>3. ASSUME NEW n \in Nat, NEW a \in Attempt, ~Early(a)
        PROVE  Lasts([i \in 1 .. n |-> a])
    BY <2>3 DEF Lasts
  <2> QED BY <2>1, <2>2, <2>3
<1>8. cfg.agent \in Seq(Identities) /\ cfg.files \in Seq(Identities)
  BY SetUp
<1>9. Firsts(a1) /\ Firsts(a2)
  BY <1>2, <1>4
<1>10. Firsts(a3)
  <2>1. Firsts(each("agent", cfg.agent)) /\ Firsts(each("file", cfg.files))
    BY <1>6, <1>8
  <2> HIDE DEF each
  <2>2. Firsts(each("agent", cfg.agent) \o each("file", cfg.files))
    BY <2>1, FirstsJoined
  <2> QED BY <1>2, <2>2
<1>11. Lasts(a4) /\ Lasts(a5)
  BY <1>2, <1>5, <1>7
<1>11a. Willing(a4) /\ Willing(a5)
  <2>1. ASSUME NEW i \in DOMAIN a4
        PROVE  "tis" \in cfg.wants
    BY <2>1
  <2> QED BY <2>1 DEF Willing
<1> HIDE DEF a1, a2, a3, a4, a5
<1>12. Firsts(a1 \o a2 \o a3)
  BY <1>9, <1>10, FirstsJoined
<1>13. a1 \o a2 \o a3 \in Seq(Attempt) /\ Ordered(a1 \o a2 \o a3)
  BY <1>12, FirstsOrdered
<1>14. a1 \o a2 \o a3 \o a4 \in Seq(Attempt) /\ Ordered(a1 \o a2 \o a3 \o a4)
  BY <1>11, <1>13, LastsJoined
<1>15. a1 \o a2 \o a3 \o a4 \o a5 \in Seq(Attempt) /\ Ordered(a1 \o a2 \o a3 \o a4 \o a5)
  BY <1>11, <1>14, LastsJoined
<1>17. Willing(a1 \o a2 \o a3)
  BY <1>12 DEF Firsts, Willing, Early, HasKey
<1>18. Willing(a1 \o a2 \o a3 \o a4)
  BY <1>11, <1>13, <1>11a, <1>17, WillingJoined DEF Lasts
<1>19. Willing(a1 \o a2 \o a3 \o a4 \o a5)
  BY <1>11, <1>14, <1>11a, <1>18, WillingJoined DEF Lasts
<1> QED BY <1>1, <1>15, <1>19

\* The attempts that are left stay in this order.
LEMMA TailOrdered ==
  ASSUME NEW q \in Seq(Attempt), q # << >>, Ordered(q)
  PROVE  /\ Tail(q) \in Seq(Attempt) /\ Ordered(Tail(q))
         /\ ~Early(Head(q)) /\ Tail(q) # << >> => ~Early(Head(Tail(q)))
<1>1. /\ Tail(q) \in Seq(Attempt) /\ Head(q) = q[1] /\ 1 \in DOMAIN q
      /\ \A i \in DOMAIN Tail(q) : i + 1 \in DOMAIN q /\ Tail(q)[i] = q[i + 1]
      /\ DOMAIN Tail(q) = 1 .. Len(Tail(q)) /\ Len(Tail(q)) \in Nat
  BY TailOf, LenProperties
<1>2. ASSUME NEW i \in DOMAIN Tail(q), NEW j \in DOMAIN Tail(q), i < j, Early(Tail(q)[j])
      PROVE  Early(Tail(q)[i])
  <2>1. i + 1 \in DOMAIN q /\ j + 1 \in DOMAIN q /\ i + 1 < j + 1
    BY <1>1, <1>2
  <2>2. Early(q[j + 1])
    BY <1>1, <1>2
  <2>3. Early(q[i + 1])
    BY <2>1, <2>2 DEF Ordered
  <2> QED BY <1>1, <2>3
<1>3. ASSUME Tail(q) # << >>, Early(Head(Tail(q)))
      PROVE  Early(Head(q))
  <2>1. Head(Tail(q)) = Tail(q)[1] /\ 1 \in DOMAIN Tail(q)
    BY <1>1, <1>3, TailOf
  <2>2. 2 \in DOMAIN q /\ Early(q[2])
    BY <1>1, <1>3, <2>1
  <2> QED BY <1>1, <2>2 DEF Ordered
<1> QED BY <1>1, <1>2, <1>3 DEF Ordered

-----------------------------------------------------------------------------
(* The client's steps.                                                     *)

LEMMA ClientGoes ==
  ASSUME IInv, NEW o, ClientDoes(o), o.me \in Client, o.out \in Seq(Message),
         toC' \in Seq(Message), Ordered(o.me.todo),
         Placed(o.me),
         s.pc # "dead" => Challenging(s)' /\ Claims' /\ Lockstep'
  PROVE  IInv'
<1>1. c' = o.me /\ toS' = Sent(toS, o.out) /\ s' = s /\ cfg' = cfg /\ up' = up
  BY DEF ClientDoes
<1>2. TypeOK'
  <2>1. toS' \in Seq(Message)
    BY <1>1, SentTyped DEF IInv, TypeOK
  <2> QED BY <1>1, <2>1 DEF IInv, TypeOK
<1>3. Ordered(c.todo)' /\ Placed(c)'
  BY <1>1 DEF Ordered, Placed
<1>4. Fine(s)'
  <2>1. CASE s.pc = "dead"
    BY <1>1, <2>1 DEF IInv, Fine, Clean
  <2>2. CASE s.pc # "dead"
    <3>1. Living(s) /\ (s.pc = "start" => Clean(s))
      BY <2>2 DEF IInv, Fine
    <3>2. Admitting(s)' /\ (In(s) => Entitled(s))'
      BY <1>1, <3>1 DEF Living, Admitting, In, Entitled
    <3>3. Flagged(s)' /\ (s.pc = "start" => Clean(s))'
      BY <1>1, <3>1 DEF Living, Flagged, Plain, In, Clean
    <3> QED BY <1>1, <2>2, <3>2, <3>3 DEF Fine, Living
  <2> QED BY <2>1, <2>2
<1> QED BY <1>1, <1>2, <1>3, <1>4 DEF IInv

\* A client that stays at its attempt keeps the claims, if what it sends has its place.
LEMMA ClientStays ==
  ASSUME IInv, NEW o, ClientDoes(o), o.me \in Client, o.out \in Seq(Message),
         toC' \in Seq(Message), o.me.todo = c.todo, Placed(o.me),
         \A i \in DOMAIN o.out : About(o.out[i]),
         s.pc # "dead" => Lockstep'
  PROVE  IInv'
<1>1. c' = o.me /\ toS' = Sent(toS, o.out) /\ s' = s /\ cfg' = cfg /\ up' = up
  BY DEF ClientDoes
<1>2. ASSUME s.pc # "dead"
      PROVE  Challenging(s)'
  <2>1. Challenging(s)
    BY <1>2 DEF IInv, Fine, Living
  <2> QED BY <1>1, <2>1 DEF Challenging, Now
<1>3. ASSUME s.pc # "dead"
      PROVE  Claims'
  <2>1. toS \in Seq(Message) /\ Claims
    BY <1>3 DEF IInv, TypeOK
  <2>2. ASSUME NEW i \in DOMAIN toS'
        PROVE  About(toS'[i])
    <3>1. CASE up
      <4>1. toS' = toS \o o.out
        BY <1>1, <3>1 DEF Sent
      <4>2. /\ Len(toS) \in Nat /\ DOMAIN toS = 1 .. Len(toS)
            /\ Len(o.out) \in Nat /\ DOMAIN o.out = 1 .. Len(o.out)
        BY <2>1, LenProperties
      <4>3. /\ Len(toS \o o.out) = Len(toS) + Len(o.out)
            /\ toS \o o.out \in Seq(Message)
            /\ \A k \in 1 .. Len(toS) + Len(o.out) :
                 (toS \o o.out)[k] = IF k =< Len(toS) THEN toS[k] ELSE o.out[k - Len(toS)]
        BY <2>1, ConcatProperties
      <4>4. i \in 1 .. Len(toS) + Len(o.out)
        BY <2>2, <4>1, <4>3, LenProperties
      <4>5. CASE i =< Len(toS)
        <5>1. i \in DOMAIN toS /\ toS'[i] = toS[i]
          BY <4>1, <4>2, <4>3, <4>4, <4>5
        <5> QED BY <2>1, <5>1 DEF Claims
      <4>6. CASE ~(i =< Len(toS))
        <5>1. i - Len(toS) \in DOMAIN o.out /\ toS'[i] = o.out[i - Len(toS)]
          BY <4>1, <4>2, <4>3, <4>4, <4>6
        <5> QED BY <5>1
      <4> QED BY <4>5, <4>6
    <3>2. CASE ~up
      <4>1. toS' = toS
        BY <1>1, <3>2 DEF Sent
      <4> QED BY <2>1, <2>2, <4>1 DEF Claims
    <3> QED BY <3>1, <3>2
  <2>3. ASSUME NEW i \in DOMAIN toS'
        PROVE  About(toS[i])'
    <3>1. About(toS'[i])
      BY <2>2
    <3> QED BY <1>1, <3>1 DEF About, Now, HasKey, InEarly, Early, Secret
  <2> QED BY <2>3 DEF Claims
<1>4. Ordered(o.me.todo)
  BY DEF IInv
<1> QED BY <1>2, <1>3, <1>4, ClientGoes

LEMMA OneLong ==
  ASSUME NEW S, NEW q \in Seq(S), Len(q) = 1
  PROVE  /\ \A i \in DOMAIN q : i = 1
         /\ q # << >> /\ Head(q) = q[1]
<1>1. DOMAIN q = 1 .. 1
  <2>1. DOMAIN q = 1 .. Len(q)
    BY LenProperties
  <2> QED BY <2>1
<1>2. q # << >>
  OBVIOUS
<1>3. Head(q) = q[1]
  BY <1>2, HeadTailProperties
<1>4. \A i \in 1 .. 1 : i = 1
  OBVIOUS
<1> QED BY <1>1, <1>2, <1>3, <1>4

\* A packet that claims nothing.
LEMMA Harmless ==
  ASSUME NEW x, x.coding \in Codings,
         NEW t \in {"IDENT", "USER", "AUTH_RHOSTS", "EXEC", "DISCONNECT"} \cup Requests
  PROVE  /\ Says(x, t, "nothing").me = x
         /\ Says(x, t, "nothing").out \in Seq(Message) /\ Len(Says(x, t, "nothing").out) = 1
         /\ Says(x, t, "nothing").out[1].type = t
         /\ \A i \in DOMAIN Says(x, t, "nothing").out : About(Says(x, t, "nothing").out[i])
<1>1. t \in Types
  BY TheTypes DEF Types
<1>2. /\ Says(x, t, "nothing").me = x
      /\ Says(x, t, "nothing").out \in Seq(Message) /\ Len(Says(x, t, "nothing").out) = 1
      /\ Says(x, t, "nothing").out[1].type = t
  BY <1>1, Plainly
<1>3. ASSUME NEW i \in DOMAIN Says(x, t, "nothing").out
      PROVE  i = 1
  BY <1>2, <1>3, OneLong
<1>4. t \notin {"SESSION_KEY", "AUTH_PASSWORD", "TIS_RESPONSE", "AUTH_RSA", "AUTH_RHOSTS_RSA",
                "RSA_RESPONSE", "AUTH_TIS"}
  BY DEF Requests
<1>5. About(Says(x, t, "nothing").out[1])
  BY <1>2, <1>4 DEF About
<1> QED BY <1>2, <1>3, <1>5

\* A client that ends, with or without telling the server.
LEMMA ClientEnds ==
  ASSUME IInv, NEW o, ClientDoes(o), toC' \in Seq(Message), toC = << >> => toC' = << >>,
         o = ClientDisconnect(c) \/ o = Silent([c EXCEPT !.pc = "dead"])
  PROVE  IInv'
<1> DEFINE x == [c EXCEPT !.pc = "dead"]
<1>1. c \in Client
  BY DEF IInv, TypeOK
<1>2. x \in Client /\ x.pc = "dead" /\ x.todo = c.todo /\ c.coding \in Codings
  BY <1>1 DEF Client
<1>3. /\ o.me = x /\ o.out \in Seq(Message) /\ \A i \in DOMAIN o.out : About(o.out[i])
  <2>1. CASE o = ClientDisconnect(c)
    <3>1. o.me = x /\ o.out = Says(c, "DISCONNECT", "nothing").out
      BY <2>1 DEF ClientDisconnect, Says
    <3>2. /\ Says(c, "DISCONNECT", "nothing").out \in Seq(Message)
          /\ \A i \in DOMAIN Says(c, "DISCONNECT", "nothing").out :
               About(Says(c, "DISCONNECT", "nothing").out[i])
      BY <1>2, Harmless
    <3> QED BY <3>1, <3>2
  <2>2. CASE o = Silent(x)
    <3>1. o.me = x /\ o.out = << >>
      BY <2>2 DEF Silent
    <3> QED BY <3>1
  <2> QED BY <2>1, <2>2
<1> HIDE DEF x
<1>4. c' = x /\ up' = up /\ toS' = Sent(toS, o.out)
  BY <1>3 DEF ClientDoes
<1>5. ASSUME s.pc # "dead"
      PROVE  Lockstep'
  <2>1. ~up => toS' = << >> /\ toC' = << >>
    BY <1>4, <1>5 DEF IInv, Lockstep, Sent
  <2> QED BY <1>2, <1>4, <2>1 DEF Lockstep
<1> QED BY <1>2, <1>3, <1>5, ClientStays DEF Placed

LEMMA ClientReads ==
  ASSUME IInv, NEW pc, Reads(c, toC, pc)
  PROVE  /\ c.pc = pc /\ c \in Client /\ toC # << >> /\ toC \in Seq(Message)
         /\ Head(toC) = toC[1] /\ Tail(toC) \in Seq(Message)
         /\ Len(toC) = 1 => Tail(toC) = << >>
BY TailOf DEF Reads, IInv, TypeOK

\* What the client that waits in lockstep finds.
LEMMA ClientToken ==
  ASSUME IInv, s.pc # "dead", Token, toC # << >>
  PROVE  /\ toS = << >> /\ Len(toC) = 1
         /\ Head(toC).type # "RSA_CHALLENGE" => s.pc \notin {"challenge", "hostchallenge"}
BY DEF Token

LEMMA SendsToken ==
  ASSUME up, toS = << >>, toC' = << >>, NEW out \in Seq(Message), Len(out) = 1,
         toS' = Sent(toS, out), out[1].type \notin {"EXEC", "AUTH_TIS"}
  PROVE  Token'
<1>1. toS' = out
  BY DEF Sent
<1>2. Len(toS') = 1 /\ Head(toS') = toS'[1]
  BY <1>1, OneLong
<1> QED BY <1>1, <1>2 DEF Token

LEMMA StepClientIdent ==
  ASSUME IInv, ClientIdent
  PROVE  IInv'
<1> DEFINE y == [c EXCEPT !.pc = "key"]
           o == Says(y, "IDENT", "nothing")
<1>1. Reads(c, toC, "ident") /\ toC' = Tail(toC) /\ ClientDoes(o)
  BY DEF ClientIdent
<1>2. /\ c.pc = "ident" /\ c \in Client /\ toC # << >> /\ Tail(toC) \in Seq(Message)
      /\ toC \in Seq(Message) /\ Len(toC) = 1 => Tail(toC) = << >>
  BY <1>1, ClientReads
<1>3. y \in Client /\ y.pc = "key" /\ y.todo = c.todo /\ y.coding \in Codings
  BY <1>2 DEF Client
<1> HIDE DEF y
<1>4. /\ o.me = y /\ o.out \in Seq(Message) /\ Len(o.out) = 1 /\ o.out[1].type = "IDENT"
      /\ \A i \in DOMAIN o.out : About(o.out[i])
  BY <1>3, Harmless
<1> HIDE DEF o
<1>5. c' = y /\ toS' = Sent(toS, o.out) /\ s' = s /\ up' = up
  BY <1>1, <1>4 DEF ClientDoes
<1>6. ASSUME s.pc # "dead"
      PROVE  Lockstep'
  <2>1. Lockstep
    BY <1>6 DEF IInv
  <2>2. CASE up
    <3>1. toS = << >> /\ Len(toC) =< 1 /\ s.pc \in {"start", "ident"} /\ s.pc # "start"
      BY <1>2, <2>1, <2>2 DEF Lockstep
    <3>2. Len(toC) = 1
      <4>1. PICK n \in Nat : n = Len(toC) /\ n # 0
        BY <1>2, TailOf
      <4>2. n =< 1
        BY <3>1, <4>1
      <4> QED BY <4>1, <4>2
    <3>3. Token'
      BY <1>1, <1>2, <1>4, <1>5, <2>2, <3>1, <3>2, SendsToken
    <3> QED BY <1>3, <1>5, <2>2, <3>1, <3>3 DEF Lockstep
  <2>3. CASE ~up
    BY <1>2, <2>1, <2>3 DEF Lockstep
  <2> QED BY <2>2, <2>3
<1>7. Placed(y)
  BY <1>3 DEF Placed
<1> QED BY <1>1, <1>2, <1>3, <1>4, <1>6, <1>7, ClientStays

LEMMA StepClientKey ==
  ASSUME IInv, ClientKey
  PROVE  IInv'
<1>1. Reads(c, toC, "key") /\ toC' = Tail(toC) /\ Head(toC).type = "PUBLIC_KEY"
  BY DEF ClientKey
<1>2. /\ c.pc = "key" /\ c \in Client /\ toC # << >> /\ Tail(toC) \in Seq(Message)
      /\ toC \in Seq(Message) /\ Len(toC) = 1 => Tail(toC) = << >>
  BY <1>1, ClientReads
<1>3. cfg.cipher \in {"none", "arcfour", "idea"} /\ cfg.requests \in Seq(Requests)
  BY SetUp DEF IInv
<1>4. Attempts \in Seq(Attempt) /\ Ordered(Attempts)
  BY AttemptsOrdered DEF IInv
<1>5. CASE ClientDoes(Silent([c EXCEPT !.pc = "dead"]))
  <2> DEFINE o == Silent([c EXCEPT !.pc = "dead"])
  <2>1. ClientDoes(o) /\ toC' \in Seq(Message)
    BY <1>1, <1>2, <1>5
  <2> QED BY <1>2, <2>1, ClientEnds
<1>6. ASSUME NEW host \in {"ok", "new", "changed"},
             ClientDoes([Says([c EXCEPT !.pc = "ack", !.host = host, !.ask = cfg.requests,
                                        !.todo = Attempts],
                              "SESSION_KEY", cfg.cipher) EXCEPT !.me.coding = cfg.cipher])
      PROVE  IInv'
  <2> DEFINE x == [c EXCEPT !.pc = "ack", !.host = host, !.ask = cfg.requests,
                            !.todo = Attempts]
             said == Says(x, "SESSION_KEY", cfg.cipher)
             y == [x EXCEPT !.coding = cfg.cipher]
             o == [said EXCEPT !.me.coding = cfg.cipher]
  <2>1. ClientDoes(o)
    BY <1>6
  <2>2. x \in Client /\ x.pc = "ack" /\ x.todo = Attempts /\ x.coding \in Codings
    BY <1>2, <1>3, <1>4 DEF Client
  <2>3. y \in Client /\ y.pc = "ack" /\ y.todo = Attempts
    <3> HIDE DEF x
    <3> QED BY <1>3, <2>2 DEF Client, Codings
  <2>4. o.me = y /\ o.out = said.out /\ said.out[1].arg = cfg.cipher
    BY DEF Says, Packet
  <2> HIDE DEF x, y
  <2>5. said.out \in Seq(Message) /\ Len(said.out) = 1 /\ said.out[1].type = "SESSION_KEY"
    <3>1. cfg.cipher \in Args
      BY <1>3 DEF Args
    <3> QED BY <2>2, <3>1, Said, TheTypes
  <2> HIDE DEF o, said
  <2>6. c' = y /\ toS' = Sent(toS, o.out) /\ s' = s /\ up' = up /\ cfg' = cfg
    BY <2>1, <2>4 DEF ClientDoes
  <2>7. ASSUME s.pc # "dead"
        PROVE  Challenging(s)' /\ Claims' /\ Lockstep'
    <3>1. CASE up
      <4>1. Token
        BY <1>2, <2>7, <3>1 DEF IInv, Lockstep
      <4>2. toS = << >> /\ Len(toC) = 1 /\ s.pc \notin {"challenge", "hostchallenge"}
        BY <1>1, <1>2, <2>7, <4>1, ClientToken
      <4>3. Challenging(s)
        BY <2>7 DEF IInv, Fine, Living
      <4>4. Challenging(s)'
        BY <2>6, <4>2, <4>3 DEF Challenging
      <4>5. toS' = said.out
        BY <2>4, <2>5, <2>6, <3>1, <4>2 DEF Sent
      <4>6. Claims'
        <5>1. ASSUME NEW i \in DOMAIN toS'
              PROVE  toS'[i].type = "SESSION_KEY" /\ toS'[i].arg = cfg.cipher
          BY <2>4, <2>5, <4>5, <5>1, OneLong
        <5> QED BY <2>6, <5>1 DEF Claims, About
      <4>7. Token'
        BY <1>1, <1>2, <2>4, <2>5, <2>6, <3>1, <4>2, SendsToken
      <4>8. s.pc # "start"
        BY <1>2, <2>7, <3>1 DEF IInv, Lockstep
      <4> QED BY <2>3, <2>6, <3>1, <4>4, <4>6, <4>7, <4>8 DEF Lockstep
    <3>2. CASE ~up
      BY <1>2, <2>7, <3>2 DEF IInv, Lockstep
    <3> QED BY <3>1, <3>2
  <2>8. Placed(y)
    BY <2>3 DEF Placed
  <2> QED BY <1>1, <1>2, <1>4, <2>1, <2>3, <2>4, <2>5, <2>7, <2>8, ClientGoes
<1>7. \/ ClientDoes(Silent([c EXCEPT !.pc = "dead"]))
      \/ \E host \in {"ok", "new", "changed"} :
           ClientDoes([Says([c EXCEPT !.pc = "ack", !.host = host, !.ask = cfg.requests,
                                      !.todo = Attempts],
                            "SESSION_KEY", cfg.cipher) EXCEPT !.me.coding = cfg.cipher])
  BY DEF ClientKey
<1> QED BY <1>5, <1>6, <1>7

\* A client past the beginning keeps the lockstep where it matters.
LEMMA LocksAgain ==
  ASSUME IInv, s.pc # "dead", NEW o, ClientDoes(o), toC = << >> => toC' = << >>,
         c.pc \notin {"ident", "dead"}, o.me.pc # "ident",
         up /\ o.me.pc \in {"key", "ack", "name"} => Token',
         up /\ o.me.pc = "try" /\ InEarly' =>
           toS' = << >> /\ toC' = << >> /\ s.pc \notin {"challenge", "hostchallenge"},
         up /\ o.me.pc \in {"reply", "verdict", "dummy"} /\ InEarly' => Token'
  PROVE  Lockstep'
<1>1. c' = o.me /\ s' = s /\ up' = up /\ toS' = Sent(toS, o.out)
  BY DEF ClientDoes
<1>2. Lockstep
  BY DEF IInv
<1>3. CASE ~up
  BY <1>1, <1>2, <1>3 DEF Lockstep, Sent
<1>4. CASE up
  BY <1>1, <1>2, <1>4 DEF Lockstep
<1> QED BY <1>3, <1>4

LEMMA StepClientAck ==
  ASSUME IInv, ClientAck
  PROVE  IInv'
<1> DEFINE y == [c EXCEPT !.pc = "name"]
           o == Says(y, "USER", "nothing")
<1>1. Reads(c, toC, "ack") /\ toC' = Tail(toC) /\ Head(toC).type = "SUCCESS" /\ ClientDoes(o)
  BY DEF ClientAck
<1>2. /\ c.pc = "ack" /\ c \in Client /\ toC # << >> /\ Tail(toC) \in Seq(Message)
      /\ Len(toC) = 1 => Tail(toC) = << >>
  BY <1>1, ClientReads
<1>3. y \in Client /\ y.pc = "name" /\ y.todo = c.todo /\ y.coding \in Codings
  BY <1>2 DEF Client
<1> HIDE DEF y
<1>4. /\ o.me = y /\ o.out \in Seq(Message) /\ Len(o.out) = 1 /\ o.out[1].type = "USER"
      /\ \A i \in DOMAIN o.out : About(o.out[i])
  BY <1>3, Harmless
<1> HIDE DEF o
<1>5. ASSUME s.pc # "dead", up
      PROVE  Token'
  <2>1. Token
    BY <1>2, <1>5 DEF IInv, Lockstep
  <2>2. toS = << >> /\ Len(toC) = 1
    BY <1>2, <1>5, <2>1, ClientToken
  <2>3. toS' = Sent(toS, o.out)
    BY <1>1 DEF ClientDoes
  <2> QED BY <1>1, <1>2, <1>4, <1>5, <2>2, <2>3, SendsToken
<1>6. ASSUME s.pc # "dead"
      PROVE  Lockstep'
  BY <1>1, <1>2, <1>3, <1>4, <1>5, <1>6, LocksAgain
<1>7. Placed(y)
  BY <1>3 DEF Placed
<1> QED BY <1>1, <1>2, <1>3, <1>4, <1>6, <1>7, ClientStays

\* A step without a packet to another place of the client.
LEMMA ClientSilent ==
  ASSUME IInv, c.pc \notin {"ident", "dead"}, NEW y \in Client, ClientDoes(Silent(y)),
         y.todo = c.todo, y.pc \in {"ask", "try"}, toC # << >>, toC' = Tail(toC),
         s.pc # "dead" /\ up /\ y.pc = "try" => Token /\ Head(toC).type # "RSA_CHALLENGE"
  PROVE  IInv'
<1> DEFINE o == Silent(y)
<1>1. o.me = y /\ o.out = << >>
  BY DEF Silent
<1> HIDE DEF o
<1>2. Tail(toC) \in Seq(Message) /\ (Len(toC) = 1 => Tail(toC) = << >>)
  BY TailOf DEF IInv, TypeOK
<1>3. ClientDoes(o) /\ toS' = Sent(toS, o.out) /\ toS \in Seq(Message)
  BY DEF o, ClientDoes, IInv, TypeOK
<1>4. ASSUME s.pc # "dead"
      PROVE  Lockstep'
  <2>1. ASSUME up, y.pc = "try"
        PROVE  toS' = << >> /\ toC' = << >> /\ s.pc \notin {"challenge", "hostchallenge"}
    <3>1. toS = << >> /\ Len(toC) = 1 /\ s.pc \notin {"challenge", "hostchallenge"}
      BY <1>4, <2>1, ClientToken
    <3>2. toS' = << >>
      BY <1>1, <1>3, <2>1, <3>1 DEF Sent
    <3> QED BY <1>2, <3>1, <3>2
  <2> QED BY <1>1, <1>3, <1>4, <2>1, LocksAgain
<1>5. /\ o.me \in Client /\ o.me.todo = c.todo /\ Placed(o.me)
      /\ o.out \in Seq(Message) /\ DOMAIN o.out = {} /\ toC' \in Seq(Message)
  BY <1>1, <1>2 DEF Placed
<1> QED BY <1>3, <1>4, <1>5, ClientStays

LEMMA StepClientName ==
  ASSUME IInv, ClientName
  PROVE  IInv'
<1>1. /\ Reads(c, toC, "name") /\ toC' = Tail(toC) /\ Head(toC).type \in {"SUCCESS", "FAILURE"}
      /\ \E pc \in {"ask", "try"} : ClientDoes(Silent([c EXCEPT !.pc = pc]))
  BY DEF ClientName
<1>2. c.pc = "name" /\ c \in Client /\ toC # << >>
  BY <1>1, ClientReads
<1>3. PICK pc \in {"ask", "try"} : ClientDoes(Silent([c EXCEPT !.pc = pc]))
  BY <1>1
<1> DEFINE y == [c EXCEPT !.pc = pc]
<1>4. y \in Client /\ y.pc = pc /\ y.todo = c.todo
  BY <1>2 DEF Client
<1> HIDE DEF y
<1>5. s.pc # "dead" /\ up => Token /\ Head(toC).type # "RSA_CHALLENGE"
  BY <1>1, <1>2 DEF IInv, Lockstep
<1>6. ClientDoes(Silent(y))
  BY <1>3 DEF y
<1> QED BY <1>1, <1>2, <1>4, <1>5, <1>6, ClientSilent

\* One packet about the attempt that is made.
LEMMA Claimed ==
  ASSUME NEW x, x.coding \in Codings, NEW t \in Types, NEW a \in Args,
         \A m \in Message : m.type = t /\ m.arg = a => About(m)
  PROVE  /\ Says(x, t, a).me = x
         /\ Says(x, t, a).out \in Seq(Message) /\ Len(Says(x, t, a).out) = 1
         /\ Says(x, t, a).out[1].type = t
         /\ \A i \in DOMAIN Says(x, t, a).out : About(Says(x, t, a).out[i])
<1>1. /\ Says(x, t, a).me = x
      /\ Says(x, t, a).out \in Seq(Message) /\ Len(Says(x, t, a).out) = 1
      /\ Says(x, t, a).out[1].type = t
  BY Said
<1>2. Says(x, t, a).out[1].arg = a /\ Says(x, t, a).out[1] \in Message
  BY DEF Says, Packet, Message
<1>3. About(Says(x, t, a).out[1])
  BY <1>1, <1>2
<1>4. \A i \in DOMAIN Says(x, t, a).out : i = 1
  BY <1>1, OneLong
<1> QED BY <1>1, <1>3, <1>4

LEMMA ClientTries ==
  ASSUME IInv, c.pc = "try", c.todo # << >>, toC' = toC,
         NEW t \in Types, NEW a \in Args, t \notin {"EXEC"},
         InEarly => t # "AUTH_TIS",
         \A m \in Message : m.type = t /\ m.arg = a => About(m),
         ClientDoes(Says([c EXCEPT !.pc = "reply"], t, a))
  PROVE  IInv'
<1> DEFINE y == [c EXCEPT !.pc = "reply"]
           o == Says(y, t, a)
<1>1. ClientDoes(o) /\ c \in Client /\ toC \in Seq(Message)
  BY DEF IInv, TypeOK
<1>2. y \in Client /\ y.pc = "reply" /\ y.todo = c.todo /\ y.coding \in Codings
  BY <1>1 DEF Client
<1> HIDE DEF y
<1>3. /\ o.me = y /\ o.out \in Seq(Message) /\ Len(o.out) = 1 /\ o.out[1].type = t
      /\ \A i \in DOMAIN o.out : About(o.out[i])
  BY <1>2, Claimed
<1> HIDE DEF o
<1>4. c' = y /\ toS' = Sent(toS, o.out)
  BY <1>1, <1>3 DEF ClientDoes
<1>5. InEarly' <=> InEarly
  BY <1>2, <1>4 DEF InEarly, Early, HasKey, Now
<1>6. ASSUME s.pc # "dead", up, InEarly
      PROVE  Token'
  <2>1. toS = << >> /\ toC = << >>
    BY <1>6 DEF IInv, Lockstep
  <2> QED BY <1>3, <1>4, <1>6, <2>1, SendsToken
<1>7. ASSUME s.pc # "dead"
      PROVE  Lockstep'
  BY <1>1, <1>2, <1>3, <1>5, <1>6, <1>7, LocksAgain
<1>8. Placed(y)
  BY <1>2 DEF Placed
<1> QED BY <1>1, <1>2, <1>3, <1>7, <1>8, ClientStays

\* The next attempt: what the server may wait for belonged to the last one.
LEMMA ClientNext ==
  ASSUME IInv, c.pc \in {"reply", "verdict", "dummy"}, toC # << >>, Head(toC).type = "FAILURE",
         toC' = Tail(toC), ClientDoes(Silent(NextAttempt(c)))
  PROVE  IInv'
<1> DEFINE y == [c EXCEPT !.pc = "try", !.todo = Tail(c.todo)]
           o == Silent(y)
<1>1. ClientDoes(o)
  BY DEF NextAttempt
<1>2. c \in Client /\ c.todo \in Seq(Attempt) /\ c.todo # << >> /\ Ordered(c.todo)
  BY DEF IInv, TypeOK, Client, Placed
<1>3. /\ Tail(c.todo) \in Seq(Attempt) /\ Ordered(Tail(c.todo))
      /\ ~Early(Now) /\ Tail(c.todo) # << >> => ~Early(Head(Tail(c.todo)))
  BY <1>2, TailOrdered DEF Now
<1>4. y \in Client /\ y.pc = "try" /\ y.todo = Tail(c.todo)
  BY <1>2, <1>3 DEF Client
<1> HIDE DEF y
<1>5. o.me = y /\ o.out = << >> /\ << >> \in Seq(Message)
  BY DEF Silent
<1> HIDE DEF o
<1>6. /\ c' = y /\ s' = s /\ cfg' = cfg /\ up' = up /\ toS' = toS
  BY <1>1, <1>5 DEF ClientDoes, Sent, IInv, TypeOK
<1>7. Tail(toC) \in Seq(Message) /\ (Len(toC) = 1 => Tail(toC) = << >>)
  BY TailOf DEF IInv, TypeOK
<1>8. InEarly' => InEarly
  BY <1>2, <1>3, <1>4, <1>6 DEF InEarly, Now, Early, HasKey
<1>9. ASSUME s.pc # "dead"
      PROVE  /\ s.pc \notin {"challenge", "hostchallenge"}
             /\ InEarly => toS = << >> /\ Len(toC) = 1
  <2>1. up /\ Challenging(s)
    BY <1>9 DEF IInv, Lockstep, Fine, Living
  <2>2. CASE InEarly
    <3>1. Token
      BY <1>9, <2>1, <2>2 DEF IInv, Lockstep
    <3> QED BY <1>9, <3>1, ClientToken
  <2>3. CASE ~InEarly
    <3>1. ~HasKey(Now)
      BY <1>2, <2>3 DEF InEarly, Early
    <3> QED BY <2>1, <2>3, <3>1 DEF Challenging, HasKey
  <2> QED BY <2>2, <2>3
<1>10. ASSUME s.pc # "dead"
       PROVE  Challenging(s)' /\ Claims' /\ Lockstep'
  <2>1. Challenging(s)'
    <3>1. Challenging(s)
      BY <1>10 DEF IInv, Fine, Living
    <3> QED BY <1>6, <1>9, <1>10, <3>1 DEF Challenging
  <2>2. Claims'
    <3>1. CASE InEarly
      BY <1>6, <1>9, <1>10, <3>1 DEF Claims
    <3>2. CASE ~InEarly
      <4>1. SUFFICES ASSUME NEW i \in DOMAIN toS
                     PROVE  About(toS[i])'
        BY <1>6 DEF Claims
      <4>2. About(toS[i]) /\ ~HasKey(Now)
        BY <1>2, <1>10, <3>2, <4>1 DEF IInv, Claims, InEarly, Early
      <4>3. ~InEarly'
        BY <1>8, <3>2
      <4>4. toS[i].type \notin {"AUTH_RSA", "AUTH_RHOSTS_RSA", "RSA_RESPONSE"}
        BY <4>2 DEF About
      <4> QED BY <1>6, <4>2, <4>3, <4>4 DEF About
    <3> QED BY <3>1, <3>2
  <2>3. Lockstep'
    <3>1. InEarly' => toS' = << >> /\ toC' = << >>
      BY <1>6, <1>7, <1>8, <1>9, <1>10
    <3> QED BY <1>1, <1>4, <1>5, <1>9, <1>10, <3>1, LocksAgain
  <2> QED BY <2>1, <2>2, <2>3
<1>11. /\ o.me \in Client /\ o.out \in Seq(Message) /\ toC' \in Seq(Message)
       /\ Ordered(o.me.todo) /\ Placed(o.me)
  BY <1>3, <1>4, <1>5, <1>7 DEF Placed
<1> QED BY <1>1, <1>10, <1>11, ClientGoes

LEMMA StepClientTry ==
  ASSUME IInv, ClientTry
  PROVE  IInv'
<1>1. c.pc = "try" /\ toC' = toC /\ c.todo \in Seq(Attempt) /\ toC \in Seq(Message)
  BY DEF ClientTry, IInv, TypeOK, Client
<1>2. CASE c.todo = << >>
  <2> DEFINE o == Silent([c EXCEPT !.pc = "dead"])
  <2>1. ClientDoes(o)
    BY <1>2 DEF ClientTry
  <2> QED BY <1>1, <2>1, ClientEnds
<1>3. CASE c.todo # << >>
  <2> DEFINE sends(t, a) == ClientDoes(Says([c EXCEPT !.pc = "reply"], t, a))
  <2>1. Now \in Attempt
    BY <1>1, <1>3, TailOf DEF Now
  <2>2. "nothing" \in Args /\ Now.key \in Args /\ "right" \in Args /\ "wrong" \in Args
    BY <2>1 DEF Args, Attempt, Named
  <2>3. \/ Now.kind = "rhosts" /\ sends("AUTH_RHOSTS", "nothing")
        \/ Now.kind = "rhosts_rsa" /\ sends("AUTH_RHOSTS_RSA", "nothing")
        \/ Now.kind \in {"agent", "file"} /\ sends("AUTH_RSA", Now.key)
        \/ Now.kind = "tis" /\ sends("AUTH_TIS", "nothing")
        \/ Now.kind = "password" /\ \E right \in Answers("password") : sends("AUTH_PASSWORD", right)
    BY <1>3 DEF ClientTry, Now
  <2>4. CASE Now.kind = "rhosts" /\ sends("AUTH_RHOSTS", "nothing")
    <3>1. \A m \in Message : m.type = "AUTH_RHOSTS" => About(m)
      BY DEF About
    <3> QED BY <1>1, <1>3, <2>2, <2>4, <3>1, ClientTries, TheTypes
  <2>5. CASE Now.kind = "rhosts_rsa" /\ sends("AUTH_RHOSTS_RSA", "nothing")
    <3>1. \A m \in Message : m.type = "AUTH_RHOSTS_RSA" => About(m)
      BY <1>3, <2>5 DEF About, HasKey
    <3> QED BY <1>1, <1>3, <2>2, <2>5, <3>1, ClientTries, TheTypes
  <2>6. CASE Now.kind \in {"agent", "file"} /\ sends("AUTH_RSA", Now.key)
    <3>1. PICK key \in Args : key = Now.key
      BY <2>2
    <3>2. \A m \in Message : m.type = "AUTH_RSA" /\ m.arg = key => About(m)
      BY <1>3, <2>6, <3>1 DEF About, HasKey
    <3>3. sends("AUTH_RSA", key)
      BY <2>6, <3>1
    <3> HIDE DEF sends
    <3>4. "AUTH_RSA" \in Types /\ "AUTH_RSA" # "EXEC" /\ "AUTH_RSA" # "AUTH_TIS"
      BY TheTypes
    <3> USE DEF sends
    <3> QED BY <1>1, <1>3, <3>2, <3>3, <3>4, ClientTries
  <2>7. CASE Now.kind = "tis" /\ sends("AUTH_TIS", "nothing")
    <3>1. ~InEarly
      BY <2>7 DEF InEarly, Early, HasKey
    <3>2. \A m \in Message : m.type = "AUTH_TIS" => About(m)
      BY <3>1 DEF About
    <3> QED BY <1>1, <1>3, <2>2, <2>7, <3>1, <3>2, ClientTries, TheTypes
  <2>8. CASE /\ Now.kind = "password"
             /\ \E right \in Answers("password") : sends("AUTH_PASSWORD", right)
    <3>1. PICK right \in Answers("password") : sends("AUTH_PASSWORD", right)
      BY <2>8
    <3>2. right \in Args /\ (right = "right" => "password" \in cfg.knows)
      BY <2>2 DEF Answers
    <3>3. \A m \in Message : m.type = "AUTH_PASSWORD" /\ m.arg = right => About(m)
      BY <3>2 DEF About
    <3> QED BY <1>1, <1>3, <3>1, <3>2, <3>3, ClientTries, TheTypes
  <2> QED BY <2>3, <2>4, <2>5, <2>6, <2>7, <2>8
<1> QED BY <1>2, <1>3

\* The answer to a challenge.
LEMMA ClientResponds ==
  ASSUME IInv, c.pc = "reply", toC # << >>, toC' = Tail(toC),
         Now.kind \notin {"rhosts", "password"}, Head(toC).type = Challenge(Now),
         NEW right \in Answers(Secret(Now)),
         ClientDoes(Says([c EXCEPT !.pc = After(Now, right)], Response(Now), right))
  PROVE  IInv'
<1>1. c \in Client /\ c.todo \in Seq(Attempt) /\ c.todo # << >>
  BY DEF IInv, TypeOK, Client, Placed
<1>2. Now \in Attempt
  BY <1>1, TailOf DEF Now
<1>3. PICK pc \in {"verdict", "dummy"} : pc = After(Now, right)
  BY DEF After
<1>4. PICK t \in {"TIS_RESPONSE", "RSA_RESPONSE"} :
        /\ t = Response(Now)
        /\ t = "TIS_RESPONSE" <=> Now.kind = "tis"
  BY DEF Response
<1>5. right \in {"right", "wrong"} /\ (right = "right" => Secret(Now) \in cfg.knows)
  BY DEF Answers
<1> DEFINE y == [c EXCEPT !.pc = pc]
           o == Says(y, t, right)
<1>6. ClientDoes(o)
  BY <1>3, <1>4
<1>7. y \in Client /\ y.pc = pc /\ y.todo = c.todo /\ y.coding \in Codings
  BY <1>1 DEF Client
<1> HIDE DEF y
<1>8. t \in Types /\ right \in Args
  BY <1>5, TheTypes DEF Args
<1>9. \A m \in Message : m.type = t /\ m.arg = right => About(m)
  <2>1. CASE t = "TIS_RESPONSE"
    <3>1. Secret(Now) = "tis"
      BY <1>4, <2>1 DEF Secret
    <3> QED BY <1>5, <2>1, <3>1 DEF About
  <2>2. CASE t = "RSA_RESPONSE"
    <3>1. HasKey(Now)
      BY <1>2, <1>4, <2>2 DEF HasKey, Attempt
    <3> QED BY <1>1, <1>5, <2>2, <3>1 DEF About
  <2> QED BY <2>1, <2>2
<1>10. /\ o.me = y /\ o.out \in Seq(Message) /\ Len(o.out) = 1 /\ o.out[1].type = t
       /\ \A i \in DOMAIN o.out : About(o.out[i])
  BY <1>7, <1>8, <1>9, Claimed
<1> HIDE DEF o
<1>11. c' = y /\ toS' = Sent(toS, o.out)
  BY <1>6, <1>10 DEF ClientDoes
<1>12. InEarly' <=> InEarly
  BY <1>7, <1>11 DEF InEarly, Early, HasKey, Now
<1>13. Tail(toC) \in Seq(Message) /\ (Len(toC) = 1 => Tail(toC) = << >>)
  BY TailOf DEF IInv, TypeOK
<1>14. ASSUME s.pc # "dead", up, InEarly
       PROVE  Token'
  <2>1. Token
    BY <1>14 DEF IInv, Lockstep
  <2>2. toS = << >> /\ Len(toC) = 1
    BY <1>14, <2>1, ClientToken
  <2> QED BY <1>4, <1>10, <1>11, <1>13, <1>14, <2>2, SendsToken
<1>15. ASSUME s.pc # "dead"
       PROVE  Lockstep'
  BY <1>6, <1>7, <1>10, <1>12, <1>14, <1>15, LocksAgain
<1>16. toC' \in Seq(Message) /\ o.me \in Client /\ o.me.todo = c.todo /\ Placed(o.me)
  BY <1>1, <1>7, <1>10, <1>13 DEF Placed
<1> QED BY <1>1, <1>6, <1>10, <1>15, <1>16, ClientStays

LEMMA StepClientReply ==
  ASSUME IInv, ClientReply
  PROVE  IInv'
<1>1. Reads(c, toC, "reply") /\ toC' = Tail(toC)
  BY DEF ClientReply
<1>2. c.pc = "reply" /\ c \in Client /\ toC # << >> /\ Tail(toC) \in Seq(Message)
  BY <1>1, ClientReads
<1>3. \/ Head(toC).type = "FAILURE" /\ ClientDoes(Silent(NextAttempt(c)))
      \/ Head(toC).type = "SUCCESS" /\ ClientDoes(Silent([c EXCEPT !.pc = "ask"]))
      \/ /\ Now.kind \notin {"rhosts", "password"} /\ Head(toC).type = Challenge(Now)
         /\ \E right \in Answers(Secret(Now)) :
              ClientDoes(Says([c EXCEPT !.pc = After(Now, right)], Response(Now), right))
      \/ ClientDoes(ClientDisconnect(c))
  BY DEF ClientReply, Now
<1>4. CASE Head(toC).type = "FAILURE" /\ ClientDoes(Silent(NextAttempt(c)))
  BY <1>1, <1>2, <1>4, ClientNext
<1>5. CASE Head(toC).type = "SUCCESS" /\ ClientDoes(Silent([c EXCEPT !.pc = "ask"]))
  <2> DEFINE y == [c EXCEPT !.pc = "ask"]
  <2>1. y \in Client /\ y.pc = "ask" /\ y.todo = c.todo /\ ClientDoes(Silent(y))
    BY <1>2, <1>5 DEF Client
  <2> HIDE DEF y
  <2> QED BY <1>1, <1>2, <2>1, ClientSilent
<1>6. CASE /\ Now.kind \notin {"rhosts", "password"} /\ Head(toC).type = Challenge(Now)
           /\ \E right \in Answers(Secret(Now)) :
                ClientDoes(Says([c EXCEPT !.pc = After(Now, right)], Response(Now), right))
  BY <1>1, <1>2, <1>6, ClientResponds
<1>7. CASE ClientDoes(ClientDisconnect(c))
  <2> DEFINE o == ClientDisconnect(c)
  <2>1. ClientDoes(o)
    BY <1>7
  <2> QED BY <1>1, <1>2, <2>1, ClientEnds
<1> QED BY <1>3, <1>4, <1>5, <1>6, <1>7

LEMMA StepClientVerdict ==
  ASSUME IInv, ClientVerdict
  PROVE  IInv'
<1>1. (Reads(c, toC, "verdict") \/ Reads(c, toC, "dummy")) /\ toC' = Tail(toC)
  BY DEF ClientVerdict
<1>2. c.pc \in {"verdict", "dummy"} /\ c \in Client /\ toC # << >> /\ Tail(toC) \in Seq(Message)
  BY <1>1, ClientReads
<1>3. \/ Head(toC).type = "FAILURE" /\ ClientDoes(Silent(NextAttempt(c)))
      \/ ClientDoes(Silent([c EXCEPT !.pc = "ask"]))
      \/ ClientDoes(ClientDisconnect(c))
  BY DEF ClientVerdict
<1>4. CASE Head(toC).type = "FAILURE" /\ ClientDoes(Silent(NextAttempt(c)))
  BY <1>1, <1>2, <1>4, ClientNext
<1>5. CASE ClientDoes(Silent([c EXCEPT !.pc = "ask"]))
  <2> DEFINE y == [c EXCEPT !.pc = "ask"]
  <2>1. y \in Client /\ y.pc = "ask" /\ y.todo = c.todo /\ ClientDoes(Silent(y))
    BY <1>2, <1>5 DEF Client
  <2> HIDE DEF y
  <2> QED BY <1>1, <1>2, <2>1, ClientSilent
<1>6. CASE ClientDoes(ClientDisconnect(c))
  <2> DEFINE o == ClientDisconnect(c)
  <2>1. ClientDoes(o)
    BY <1>6
  <2> QED BY <1>1, <1>2, <2>1, ClientEnds
<1> QED BY <1>3, <1>4, <1>5, <1>6

\* A step of the client in its requests: the attempts are over.
LEMMA ClientRequests ==
  ASSUME IInv, c.pc \in {"ask", "answer"}, NEW o, ClientDoes(o), o.me \in Client,
         o.me.pc \in {"session", "answer", "ask"}, o.me.todo = c.todo, Placed(o.me),
         o.out \in Seq(Message), \A i \in DOMAIN o.out : About(o.out[i]),
         toC' \in Seq(Message), toC = << >> => toC' = << >>
  PROVE  IInv'
<1>1. ASSUME s.pc # "dead"
      PROVE  Lockstep'
  BY <1>1, LocksAgain
<1> QED BY <1>1, ClientStays

LEMMA StepClientAsk ==
  ASSUME IInv, ClientAsk
  PROVE  IInv'
<1>1. c.pc = "ask" /\ toC' = toC /\ c \in Client /\ toC \in Seq(Message) /\ c.ask \in Seq(Requests)
  BY DEF ClientAsk, IInv, TypeOK, Client
<1>2. ASSUME NEW t \in {"EXEC"} \cup Requests, NEW pc \in {"session", "answer"},
             ClientDoes(Says([c EXCEPT !.pc = pc], t, "nothing")), pc = "answer" => c.ask # << >>
      PROVE  IInv'
  <2> DEFINE y == [c EXCEPT !.pc = pc]
             o == Says(y, t, "nothing")
  <2>1. /\ ClientDoes(o) /\ y \in Client /\ y.pc = pc /\ y.todo = c.todo /\ y.coding \in Codings
        /\ y.ask = c.ask
    BY <1>1, <1>2 DEF Client
  <2> HIDE DEF y
  <2>2. o.me = y /\ o.out \in Seq(Message) /\ \A i \in DOMAIN o.out : About(o.out[i])
    BY <2>1, Harmless
  <2> HIDE DEF o
  <2>3. Placed(y)
    BY <1>2, <2>1 DEF Placed
  <2> QED BY <1>1, <2>1, <2>2, <2>3, ClientRequests
<1>3. CASE c.ask = << >>
  <2>1. ClientDoes(Says([c EXCEPT !.pc = "session"], "EXEC", "nothing"))
    BY <1>3 DEF ClientAsk
  <2> QED BY <1>2, <2>1
<1>4. CASE c.ask # << >> /\ Wanted(Head(c.ask))
  <2>1. /\ ClientDoes(Says([c EXCEPT !.pc = "answer"], Head(c.ask), "nothing"))
        /\ Head(c.ask) \in Requests
    BY <1>1, <1>4, TailOf DEF ClientAsk
  <2> QED BY <1>2, <1>4, <2>1
<1>5. CASE c.ask # << >> /\ ~Wanted(Head(c.ask))
  <2> DEFINE y == [c EXCEPT !.ask = Tail(c.ask)]
             o == Silent(y)
  <2>1. ClientDoes(o) /\ Tail(c.ask) \in Seq(Requests)
    BY <1>1, <1>5, TailOf DEF ClientAsk
  <2>2. y \in Client /\ y.pc = "ask" /\ y.todo = c.todo /\ Placed(y)
    BY <1>1, <2>1 DEF Client, Placed
  <2> HIDE DEF y
  <2>3. o.me = y /\ o.out = << >>
    BY DEF Silent
  <2> HIDE DEF o
  <2>4. o.out \in Seq(Message) /\ DOMAIN o.out = {}
    BY <2>3
  <2> QED BY <1>1, <2>1, <2>2, <2>3, <2>4, ClientRequests
<1> QED BY <1>3, <1>4, <1>5

LEMMA StepClientAnswer ==
  ASSUME IInv, ClientAnswer
  PROVE  IInv'
<1>1. Reads(c, toC, "answer") /\ toC' = Tail(toC)
  BY DEF ClientAnswer
<1>2. /\ c.pc = "answer" /\ c \in Client /\ toC # << >> /\ Tail(toC) \in Seq(Message)
      /\ c.ask \in Seq(Requests) /\ c.ask # << >>
  BY <1>1, ClientReads DEF Client, IInv, Placed
<1> DEFINE r == Head(c.ask)
           next == [c EXCEPT !.pc = "ask", !.ask = Tail(c.ask)]
<1>3. r \in Requests /\ Tail(c.ask) \in Seq(Requests)
  BY <1>2, TailOf
<1>4. next \in Client /\ next.pc = "ask" /\ next.todo = c.todo
  BY <1>2, <1>3 DEF Client
<1>5. PICK coding \in Codings : coding = IF r = "compression" THEN "packed" ELSE c.coding
  BY <1>2 DEF Client, Codings
<1>6. next.coding = c.coding
  BY <1>2 DEF Client
<1> DEFINE with == [next EXCEPT !.granted = next.granted \cup {r}, !.coding = coding]
<1>7. \/ ClientDoes(Silent(with))
      \/ ClientDoes(ClientDisconnect(c))
      \/ ClientDoes(Silent(next))
  BY <1>5, <1>6 DEF ClientAnswer
<1> HIDE DEF next
<1>8. with \in Client /\ with.pc = "ask" /\ with.todo = c.todo
  BY <1>3, <1>4 DEF Client
<1> HIDE DEF with
<1>9. ASSUME NEW y \in Client, y.pc = "ask", y.todo = c.todo, ClientDoes(Silent(y))
      PROVE  IInv'
  BY <1>1, <1>2, <1>9, ClientSilent
<1>10. CASE ClientDoes(ClientDisconnect(c))
  <2> DEFINE o == ClientDisconnect(c)
  <2>1. ClientDoes(o)
    BY <1>10
  <2> QED BY <1>1, <1>2, <2>1, ClientEnds
<1> QED BY <1>4, <1>7, <1>8, <1>9, <1>10

LEMMA StepClientOver ==
  ASSUME IInv, ClientProtocolError \/ ClientLoses \/ ClientKilled
  PROVE  IInv'
<1>1. toC \in Seq(Message) /\ (toC # << >> => Tail(toC) \in Seq(Message)) /\ << >> \in Seq(Message)
  BY TailOf DEF IInv, TypeOK
<1>2. /\ \/ ClientDoes(ClientDisconnect(c))
         \/ ClientDoes(Silent([c EXCEPT !.pc = "dead"]))
      /\ toC' \in Seq(Message) /\ (toC = << >> => toC' = << >>)
  BY <1>1 DEF ClientProtocolError, ClientLoses, ClientKilled
<1>3. CASE ClientDoes(ClientDisconnect(c))
  <2> DEFINE o == ClientDisconnect(c)
  <2>1. ClientDoes(o)
    BY <1>3
  <2> QED BY <1>2, <2>1, ClientEnds
<1>4. CASE ClientDoes(Silent([c EXCEPT !.pc = "dead"]))
  <2> DEFINE o == Silent([c EXCEPT !.pc = "dead"])
  <2>1. ClientDoes(o)
    BY <1>4
  <2> QED BY <1>2, <2>1, ClientEnds
<1> QED BY <1>2, <1>3, <1>4

LEMMA StepLost ==
  ASSUME IInv, ConnectionLost
  PROVE  IInv'
<1>1. /\ up' = FALSE /\ toS' = << >> /\ toC' = << >> /\ cfg' = cfg /\ c' = c /\ s' = s
  BY DEF ConnectionLost
<1>2. TypeOK'
  <2>1. << >> \in Seq(Message)
    OBVIOUS
  <2> QED BY <1>1, <2>1 DEF IInv, TypeOK
<1>3. Ordered(c.todo)' /\ Placed(c)'
  BY <1>1 DEF IInv, Ordered, Placed
<1>4. CASE s.pc = "dead"
  BY <1>1, <1>2, <1>3, <1>4 DEF IInv, Fine, Clean
<1>5. CASE s.pc # "dead"
  <2>1. Living(s) /\ (s.pc = "start" => Clean(s))
    BY <1>5 DEF IInv, Fine
  <2>2. Challenging(s)' /\ Admitting(s)'
    BY <1>1, <2>1 DEF Living, Challenging, Admitting, Now, In
  <2>3. (In(s) => Entitled(s))' /\ Flagged(s)' /\ (s.pc = "start" => Clean(s))'
    BY <1>1, <2>1 DEF Living, Entitled, Flagged, Plain, In, Clean
  <2>4. Fine(s)'
    BY <1>1, <1>5, <2>2, <2>3 DEF Fine, Living
  <2>5. Claims' /\ Lockstep'
    BY <1>1 DEF Claims, Lockstep
  <2> QED BY <1>2, <1>3, <2>4, <2>5 DEF IInv
<1> QED BY <1>4, <1>5

LEMMA StepNone ==
  ASSUME IInv, UNCHANGED vars
  PROVE  IInv'
<1>1. cfg' = cfg /\ c' = c /\ s' = s /\ toS' = toS /\ toC' = toC /\ up' = up
  BY DEF vars
<1>2. TypeOK' /\ Ordered(c.todo)' /\ Placed(c)'
  BY <1>1 DEF IInv, TypeOK, Ordered, Placed
<1>3. Fine(s)'
  <2>1. CASE s.pc = "dead"
    BY <1>1, <2>1 DEF IInv, Fine, Clean
  <2>2. CASE s.pc # "dead"
    <3>1. Living(s) /\ (s.pc = "start" => Clean(s))
      BY <2>2 DEF IInv, Fine
    <3>2. Challenging(s)' /\ Admitting(s)'
      BY <1>1, <3>1 DEF Living, Challenging, Admitting, Now, In
    <3>3. (In(s) => Entitled(s))' /\ Flagged(s)' /\ (s.pc = "start" => Clean(s))'
      BY <1>1, <3>1 DEF Living, Entitled, Flagged, Plain, In, Clean
    <3> QED BY <1>1, <2>2, <3>2, <3>3 DEF Fine, Living
  <2> QED BY <2>1, <2>2
<1>4. ASSUME s.pc # "dead"
      PROVE  Claims' /\ Lockstep'
  <2>1. Claims /\ Lockstep
    BY <1>4 DEF IInv
  <2>2. Claims'
    BY <1>1, <2>1 DEF Claims, About, Now, HasKey, InEarly, Early, Secret
  <2>3. InEarly' = InEarly /\ Token' = Token
    BY <1>1 DEF InEarly, Early, HasKey, Now, Token
  <2> QED BY <1>1, <2>1, <2>2, <2>3 DEF Lockstep
<1> QED BY <1>1, <1>2, <1>3, <1>4 DEF IInv

LEMMA Begins ==
  ASSUME Init
  PROVE  IInv
<1>1. cfg \in Configs /\ toS = << >> /\ toC = << >> /\ up = TRUE
  BY DEF Init
<1> DEFINE client == [pc |-> "ident", coding |-> "none", host |-> "none", todo |-> << >>,
                      ask |-> << >>, granted |-> {}]
           server == [pc |-> "start", coding |-> "none", cipher |-> "none", alarm |-> FALSE,
                      attempts |-> 0, key |-> "nothing", line |-> 0, by |-> "none", flags |-> {},
                      provided |-> {}, tty |-> "none", agent |-> "none"]
<1>2. cfg \in Config /\ MaxAttempts \in Nat
  BY <1>1, LoginAssumption
<1>3. cfg.lines \in Seq([key : Identities, sets : SUBSET Restrictions, refuses : BOOLEAN])
  BY <1>2 DEF Config
<1>4. Len(cfg.lines) \in Nat
  BY <1>3, LenProperties
<1>5. client \in Client
  <2>1. "none" \in Codings /\ << >> \in Seq(Attempt) /\ << >> \in Seq(Requests)
    BY DEF Codings
  <2> QED BY <2>1 DEF Client
<1>6. server \in Server
  <2>1. "none" \in Codings /\ "nothing" \in Named /\ 0 \in 0 .. MaxAttempts
    BY <1>2 DEF Codings, Named
  <2> QED BY <2>1 DEF Server
<1>7. c = client /\ s = server
  BY DEF Init
<1>8. client.pc = "ident" /\ client.todo = << >>
  OBVIOUS
<1>9. /\ server.pc = "start" /\ server.cipher = "none" /\ server.line = 0
       /\ server.flags = {} /\ server.tty = "none" /\ server.agent = "none"
  OBVIOUS
<1> HIDE DEF client, server
<1>10. TypeOK
  <2>1. << >> \in Seq(Message)
    OBVIOUS
  <2>2. s.line =< Len(cfg.lines)
    BY <1>4, <1>7, <1>9
  <2> QED BY <1>1, <1>5, <1>6, <1>7, <2>1, <2>2 DEF TypeOK
<1>11. Ordered(c.todo) /\ Placed(c)
  BY <1>7, <1>8 DEF Ordered, Placed
<1>12. Fine(s)
  BY <1>7, <1>9 DEF Fine, Living, Challenging, Admitting, In, Flagged, Clean
<1>13. Claims /\ Lockstep
  <2>1. Len(toC) =< 1
    BY <1>1
  <2> QED BY <1>1, <1>7, <1>8, <1>9, <2>1 DEF Claims, Lockstep
<1> QED BY <1>10, <1>11, <1>12, <1>13 DEF IInv

LEMMA Steps ==
  ASSUME IInv, [Next]_vars
  PROVE  IInv'
<1>1. CASE ClientStep
  BY <1>1, StepClientIdent, StepClientKey, StepClientAck, StepClientName, StepClientTry,
     StepClientReply, StepClientVerdict, StepClientAsk, StepClientAnswer, StepClientOver
     DEF ClientStep
<1>2. CASE ServerStep \/ SessionOver \/ GraceAlarm
  BY <1>2, StepServer
<1>3. CASE ClientKilled
  BY <1>3, StepClientOver
<1>4. CASE ConnectionLost
  BY <1>4, StepLost
<1>5. CASE UNCHANGED vars
  BY <1>5, StepNone
<1> QED BY <1>1, <1>2, <1>3, <1>4, <1>5 DEF Next

THEOREM Invariance == Spec => []IInv
<1>1. Init => IInv
  BY Begins
<1>2. IInv /\ [Next]_vars => IInv'
  BY Steps
<1> QED BY <1>1, <1>2, PTL DEF Spec

-----------------------------------------------------------------------------
(* The properties of the runs.                                             *)

\* Type correctness: the server's child looks at no more passwords than it may, and
\* its line of authorized_keys is one of the file.
THEOREM TypesKept == Spec => []TypeOK
<1>1. IInv => TypeOK
  BY DEF IInv
<1> QED BY <1>1, Invariance, PTL

\* do_authentication prepares a session only for a user who could show, by a method the
\* server offers, that he is entitled to it.
THEOREM EntitledOnly == Spec => []OnlyTheEntitled
<1>1. ASSUME IInv
      PROVE  OnlyTheEntitled
  <2>1. CASE In(s)
    <3>1. Entitled(s) /\ Admitting(s)
      BY <1>1, <2>1 DEF IInv, Fine, Living, In
    <3> QED BY <2>1, <3>1 DEF OnlyTheEntitled, Entitled, Admitting, In
  <2>2. CASE ~In(s)
    BY <2>2 DEF OnlyTheEntitled, In
  <2> QED BY <2>1, <2>2
<1> QED BY <1>1, Invariance, PTL

\* The options in force in the session are those of the line of authorized_keys that let
\* the user in.
THEOREM OptionsOfTheLine == Spec => []LineRestricts
<1>1. ASSUME IInv
      PROVE  LineRestricts
  <2>1. In(s) => Flagged(s)
    BY <1>1 DEF IInv, Fine, Living, In
  <2> QED BY <2>1 DEF LineRestricts, Flagged, Plain, In
<1> QED BY <1>1, Invariance, PTL

\* A child that has ended has left no agent socket and no terminal of a session.
THEOREM CleanedUp == Spec => []NothingLeft
<1>1. ASSUME IInv
      PROVE  NothingLeft
  BY <1>1 DEF IInv, Fine, Clean, NothingLeft
<1> QED BY <1>1, Invariance, PTL

-----------------------------------------------------------------------------
(* The dialogue of two programs that are both there.                       *)

Verdicts == {"rhosts", "password"}
Refusing == {"auth", "failing"}
Admitted == {"accepted", "prep"}

\* The request of an attempt, and the place at which the server waits for the
\* response.
RequestOf(kind) ==
  CASE kind = "rhosts"     -> "AUTH_RHOSTS"
    [] kind = "rhosts_rsa" -> "AUTH_RHOSTS_RSA"
    [] kind \in {"agent", "file"} -> "AUTH_RSA"
    [] kind = "tis"        -> "AUTH_TIS"
    [] OTHER               -> "AUTH_PASSWORD"
Challenger(kind) ==
  CASE kind = "rhosts_rsa" -> "hostchallenge"
    [] kind \in {"agent", "file"} -> "challenge"
    [] kind = "tis"        -> "tis"
    [] OTHER               -> "none"

Wants(x, r) == x.host = "changed" => r \in {"compression", "pty"}
Doubled(g)  == \E i, j \in DOMAIN g.lines : i # j /\ g.lines[i].key = g.lines[j].key
Refused(g)  == "tis" \in g.offers \cap g.wants /\ g.tis = "down"

\* Nothing is on its way between client x and server y.
Calm(x, y) ==
  \/ x.pc = "ident" /\ y.pc = "start"
  \/ x.pc = "try" /\ y.pc \in Refusing
  \/ x.pc = "ask" /\ y.pc \in Admitted
  \/ x.pc = "session" /\ y.pc = "session"

\* Packet m is on its way to the server.
Asked(x, y, m) ==
  \/ x.pc = "key"  /\ y.pc = "ident" /\ m.type = "IDENT"
  \/ x.pc = "ack"  /\ y.pc = "key"   /\ m.type = "SESSION_KEY"
  \/ x.pc = "name" /\ y.pc = "user"  /\ m.type = "USER"
  \/ x.pc = "reply" /\ y.pc \in Refusing /\ m.type = RequestOf(Head(x.todo).kind)
  \/ /\ x.pc \in {"verdict", "dummy"} /\ y.pc = Challenger(Head(x.todo).kind)
     /\ m.type = Response(Head(x.todo))
     /\ x.pc = "dummy" => Head(x.todo).kind = "file" /\ m.arg = "wrong"
  \/ x.pc = "answer" /\ y.pc \in Admitted /\ m.type = Head(x.ask)
  \/ x.pc = "session" /\ y.pc \in Admitted /\ m.type = "EXEC"

\* Packet m is on its way to the client.
Heard(g, x, y, m) ==
  \/ x.pc = "ident" /\ y.pc = "ident" /\ m.type = "IDENT"
  \/ x.pc = "key"   /\ y.pc = "key"   /\ m.type = "PUBLIC_KEY"
  \/ x.pc = "ack"   /\ y.pc = "user"  /\ m.type = "SUCCESS"
  \/ x.pc \in {"name", "reply", "verdict", "dummy"} /\ y.pc \in Refusing /\ m.type = "FAILURE"
  \/ /\ x.pc \in {"name", "reply", "verdict"} /\ y.pc \in Admitted /\ m.type = "SUCCESS"
     /\ x.pc = "reply" => Head(x.todo).kind \in Verdicts
  \/ /\ x.pc = "reply" /\ y.pc = Challenger(Head(x.todo).kind) /\ m.type = Challenge(Head(x.todo))
     /\ Head(x.todo).kind \notin Verdicts
  \/ /\ x.pc \in {"verdict", "dummy"} /\ y.pc = "challenge" /\ m.type = "RSA_CHALLENGE"
     /\ Doubled(g)
  \/ x.pc = "answer" /\ y.pc = "prep" /\ m.type \in {"SUCCESS", "FAILURE"}

\* Cipher and compression, and what was granted: the server changes them when it
\* answers, the client when it has read the answer.  The client changes the cipher when
\* it has sent the key.
CalmTerms(x, y)    == y.coding = x.coding /\ y.provided = x.granted
AskedTerms(g, x, y, m) ==
  /\ m.coding = y.coding /\ y.provided = x.granted
  /\ x.coding = IF x.pc = "ack" THEN g.cipher ELSE y.coding
Grant(x, y) ==
  /\ y.provided = x.granted \cup {Head(x.ask)}
  /\ y.coding = IF Head(x.ask) = "compression" THEN "packed" ELSE x.coding
HeardTerms(x, y, m) ==
  /\ m.coding = x.coding
  /\ IF x.pc = "answer" /\ m.type = "SUCCESS" THEN Grant(x, y) ELSE CalmTerms(x, y)

\* One speaks at a time: p is on its way to the server, q to the client.
Turns(g, x, y, p, q) ==
  \/ p = << >> /\ q = << >> /\ Calm(x, y) /\ CalmTerms(x, y)
  \/ q = << >> /\ Len(p) = 1 /\ Asked(x, y, p[1]) /\ AskedTerms(g, x, y, p[1])
  \/ p = << >> /\ Len(q) = 1 /\ Heard(g, x, y, q[1]) /\ HeardTerms(x, y, q[1])

\* What the client asks for, and what it is granted.
Modest(g, x, y) ==
  /\ \A i \in DOMAIN x.todo : x.todo[i].kind = "tis" => "tis" \in g.wants
  /\ x.pc = "answer" => Wants(x, Head(x.ask))
  /\ x.host = "changed" => y.provided \subseteq {"compression", "pty"}
  /\ y.provided \cap y.flags = {}
  /\ y.pc \notin Admitted \cup {"session"} => y.provided = {}

Talk(g, x, y, p, q) == Turns(g, x, y, p, q) /\ Modest(g, x, y)
InTalk == Together /\ ~TwiceRefused => Talk(cfg, c, s, toS, toC)

\* Two programs that are there agree, unless the answer comes twice.
Talking == Together /\ ~TwiceRefused

\* What the server finds.
LEMMA WhatIsAsked ==
  ASSUME IInv, InTalk, Talking, toS # << >>
  PROVE  /\ toC = << >> /\ Tail(toS) = << >> /\ Head(toS) = toS[1] /\ Head(toS) \in Message
         /\ Asked(c, s, Head(toS)) /\ AskedTerms(cfg, c, s, Head(toS)) /\ Modest(cfg, c, s)
         /\ About(Head(toS)) /\ up /\ s \in Server /\ c \in Client
<1>1. toS \in Seq(Message) /\ s \in Server /\ c \in Client
  BY DEF IInv, TypeOK
<1>2. Turns(cfg, c, s, toS, toC) /\ Modest(cfg, c, s)
  BY DEF InTalk, Talking, Talk
<1>3. toC = << >> /\ Len(toS) = 1 /\ Asked(c, s, toS[1]) /\ AskedTerms(cfg, c, s, toS[1])
  BY <1>2 DEF Turns
<1>4. Tail(toS) = << >> /\ Head(toS) = toS[1] /\ Head(toS) \in Message /\ 1 \in DOMAIN toS
  BY <1>1, <1>3, TailOf
<1>5. About(toS[1])
  BY <1>4 DEF IInv, Claims, Talking, Together
<1> QED BY <1>1, <1>2, <1>3, <1>4, <1>5 DEF Talking, Together

\* What the client finds.
LEMMA WhatIsHeard ==
  ASSUME IInv, InTalk, Talking, toC # << >>
  PROVE  /\ toS = << >> /\ Tail(toC) = << >> /\ Head(toC) = toC[1] /\ Head(toC) \in Message
         /\ Heard(cfg, c, s, Head(toC)) /\ HeardTerms(c, s, Head(toC)) /\ Modest(cfg, c, s)
         /\ up /\ s \in Server /\ c \in Client
<1>1. toC \in Seq(Message) /\ s \in Server /\ c \in Client
  BY DEF IInv, TypeOK
<1>2. Turns(cfg, c, s, toS, toC) /\ Modest(cfg, c, s)
  BY DEF InTalk, Talking, Talk
<1>3. toS = << >> /\ Len(toC) = 1 /\ Heard(cfg, c, s, toC[1]) /\ HeardTerms(c, s, toC[1])
  BY <1>2 DEF Turns
<1>4. Tail(toC) = << >> /\ Head(toC) = toC[1] /\ Head(toC) \in Message
  BY <1>1, <1>3, TailOf
<1> QED BY <1>1, <1>2, <1>3, <1>4 DEF Talking, Together

\* What the client that does not wait knows.
LEMMA WhatIsCalm ==
  ASSUME IInv, InTalk, Talking, c.pc \in {"try", "ask"} \/ s.pc \in {"start", "session"}
  PROVE  /\ toS = << >> /\ toC = << >> /\ Calm(c, s) /\ CalmTerms(c, s) /\ Modest(cfg, c, s)
         /\ up /\ s \in Server /\ c \in Client
<1>1. s \in Server /\ c \in Client
  BY DEF IInv, TypeOK
<1>2. Turns(cfg, c, s, toS, toC) /\ Modest(cfg, c, s)
  BY DEF InTalk, Talking, Talk
<1>3. ~Asked(c, s, toS[1])
  <2>1. \A k : Challenger(k) \notin {"start", "session"}
    BY DEF Challenger
  <2> QED BY <2>1 DEF Asked, Refusing, Admitted
<1>4. ~Heard(cfg, c, s, toC[1])
  <2>1. \A k : Challenger(k) \notin {"start", "session"}
    BY DEF Challenger
  <2> QED BY <2>1 DEF Heard, Refusing, Admitted
<1>5. toS = << >> /\ toC = << >> /\ Calm(c, s) /\ CalmTerms(c, s)
  BY <1>2, <1>3, <1>4 DEF Turns
<1> QED BY <1>1, <1>2, <1>5 DEF Talking, Together

\* The server goes on with one packet to the client.
Suits(o) == o.me.pc # "dead" =>
              \E m : /\ o.out = <<m>> /\ Heard(cfg, c, o.me, m)
                     /\ HeardTerms(c, o.me, m) /\ Modest(cfg, c, o.me)

LEMMA Suited ==
  ASSUME IInv, InTalk, s.pc # "dead", NEW o, ServerDoes(o), toS # << >>, toS' = Tail(toS),
         Talking => Suits(o)
  PROVE  InTalk'
<1> SUFFICES ASSUME Talking'
             PROVE  Talk(cfg, c, s, toS, toC)'
  BY DEF InTalk, Talking
<1>1. s' = o.me /\ toC' = Sent(toC, o.out) /\ cfg' = cfg /\ c' = c /\ up' = up
  BY DEF ServerDoes
<1>2. Talking /\ o.me.pc # "dead"
  BY <1>1 DEF Talking, Together, TwiceRefused
<1>3. PICK m : /\ o.out = <<m>> /\ Heard(cfg, c, o.me, m)
               /\ HeardTerms(c, o.me, m) /\ Modest(cfg, c, o.me)
  BY <1>2 DEF Suits
<1>4. toS' = << >> /\ toC = << >> /\ up
  BY <1>2, WhatIsAsked
<1>5. toC' = <<m>>
  BY <1>1, <1>3, <1>4 DEF Sent
<1>6. Turns(cfg, c, o.me, << >>, <<m>>)
  <2>1. Len(<<m>>) = 1 /\ <<m>>[1] = m
    OBVIOUS
  <2> QED BY <1>3, <2>1 DEF Turns
<1>7. Talk(cfg, c, o.me, << >>, <<m>>)
  BY <1>3, <1>6 DEF Talk
<1> QED BY <1>1, <1>4, <1>5, <1>7

\* The server ends.
LEMMA Over ==
  ASSUME s'.pc = "dead" \/ c'.pc = "dead" \/ ~up'
  PROVE  InTalk'
BY DEF InTalk, Together

\* The client goes on, with or without a packet to the server.
Fits(o) == o.me.pc # "dead" =>
             /\ Modest(cfg, o.me, s)
             /\ \/ o.out = << >> /\ Calm(o.me, s) /\ CalmTerms(o.me, s)
                \/ \E m : o.out = <<m>> /\ Asked(o.me, s, m) /\ AskedTerms(cfg, o.me, s, m)

LEMMA Fitted ==
  ASSUME IInv, InTalk, c.pc # "dead", NEW o, ClientDoes(o),
         \/ toC # << >> /\ toC' = Tail(toC)
         \/ c.pc \in {"try", "ask"} /\ toC' = toC,
         Talking => Fits(o)
  PROVE  InTalk'
<1> SUFFICES ASSUME Talking'
             PROVE  Talk(cfg, c, s, toS, toC)'
  BY DEF InTalk, Talking
<1>1. c' = o.me /\ toS' = Sent(toS, o.out) /\ cfg' = cfg /\ s' = s /\ up' = up
  BY DEF ClientDoes
<1>2. Talking /\ o.me.pc # "dead"
  BY <1>1 DEF Talking, Together, TwiceRefused
<1>3. toC' = << >> /\ toS = << >> /\ up
  BY <1>2, WhatIsHeard, WhatIsCalm
<1>4. Modest(cfg, o.me, s)
  BY <1>2 DEF Fits
<1>5. CASE o.out = << >> /\ Calm(o.me, s) /\ CalmTerms(o.me, s)
  <2>1. toS' = << >>
    BY <1>1, <1>3, <1>5 DEF Sent
  <2>2. Talk(cfg, o.me, s, << >>, << >>)
    BY <1>4, <1>5 DEF Talk, Turns
  <2> QED BY <1>1, <1>3, <2>1, <2>2
<1>6. ASSUME NEW m, o.out = <<m>>, Asked(o.me, s, m), AskedTerms(cfg, o.me, s, m)
      PROVE  Talk(cfg, c, s, toS, toC)'
  <2>1. toS' = <<m>>
    BY <1>1, <1>3, <1>6 DEF Sent
  <2>2. Len(<<m>>) = 1 /\ <<m>>[1] = m
    OBVIOUS
  <2>3. Turns(cfg, o.me, s, <<m>>, << >>)
    BY <1>6, <2>2 DEF Turns
  <2>4. Talk(cfg, o.me, s, <<m>>, << >>)
    BY <1>4, <2>3 DEF Talk
  <2> QED BY <1>1, <1>3, <2>1, <2>4
<1> QED BY <1>2, <1>5, <1>6 DEF Fits

-----------------------------------------------------------------------------
(* The dialogue: what the server does.                                     *)

\* A server that has granted nothing, and a client that was granted nothing.
Nascent(x) ==
  /\ x \in Server /\ x.provided = {} /\ c.granted = {} /\ x.coding = c.coding
  /\ \A i \in DOMAIN c.todo : c.todo[i].kind = "tis" => "tis" \in cfg.wants

LEMMA NascentIsModest ==
  ASSUME NEW x, Nascent(x), c.pc # "answer"
  PROVE  Modest(cfg, c, x)
BY DEF Nascent, Modest

\* One packet that says no more than its type.
LEMMA OnePacket ==
  ASSUME NEW x, NEW y, NEW t, NEW out, out = <<Packet(x, t, "nothing")>>,
         \A m : m.type = t /\ m.coding = x.coding
                => Heard(cfg, c, y, m) /\ HeardTerms(c, y, m),
         Modest(cfg, c, y)
  PROVE  \E m : out = <<m>> /\ Heard(cfg, c, y, m) /\ HeardTerms(c, y, m) /\ Modest(cfg, c, y)
<1> DEFINE m == Packet(x, t, "nothing")
<1>1. m.type = t /\ m.coding = x.coding
  BY DEF Packet
<1> HIDE DEF m
<1>2. Heard(cfg, c, y, m) /\ HeardTerms(c, y, m)
  BY <1>1
<1>3. out = <<m>>
  BY DEF m
<1> QED BY <1>2, <1>3

LEMMA FailsSuits ==
  ASSUME NEW x, Nascent(x), c.pc \in {"name", "reply", "verdict", "dummy"}
  PROVE  Suits(Fails(x))
<1> DEFINE y == [x EXCEPT !.pc = "auth"]
<1>1. Fails(x).me = y /\ Fails(x).out = <<Packet(y, "FAILURE", "nothing")>>
  BY DEF Fails, Says
<1>2. y \in Server /\ y.provided = {} /\ y.coding = x.coding /\ y.pc = "auth"
  BY DEF Nascent, Server
<1> HIDE DEF y
<1>3. Modest(cfg, c, y)
  BY <1>2, NascentIsModest DEF Nascent
<1>4. \A m : m.type = "FAILURE" /\ m.coding = y.coding
             => Heard(cfg, c, y, m) /\ HeardTerms(c, y, m)
  BY <1>2 DEF Heard, HeardTerms, CalmTerms, Refusing, Nascent
<1>5. \E m : /\ Fails(x).out = <<m>> /\ Heard(cfg, c, y, m) /\ HeardTerms(c, y, m)
             /\ Modest(cfg, c, y)
  BY <1>1, <1>3, <1>4, OnePacket
<1> QED BY <1>1, <1>5 DEF Suits

LEMMA AcceptsSuits ==
  ASSUME NEW x, Nascent(x), NEW by \in Methods,
         c.pc \in {"name", "reply", "verdict"}, c.pc = "reply" => Now.kind \in Verdicts
  PROVE  Suits(Accepts(x, by))
<1> DEFINE y == [x EXCEPT !.pc = "accepted", !.by = by]
<1>1. y \in Server /\ y.provided = {} /\ y.coding = x.coding /\ y.pc = "accepted"
  BY DEF Nascent, Server
<1>2. Accepts(x, by) = IF RootRefused(y) THEN Disconnect(y) ELSE Says(y, "SUCCESS", "nothing")
  BY DEF Accepts
<1> HIDE DEF y
<1>3. CASE RootRefused(y)
  BY <1>1, <1>2, <1>3, Disconnects DEF Suits
<1>4. CASE ~RootRefused(y)
  <2>1. /\ Accepts(x, by).me = y
        /\ Accepts(x, by).out = <<Packet(y, "SUCCESS", "nothing")>>
    BY <1>2, <1>4 DEF Says
  <2>2. Modest(cfg, c, y)
    BY <1>1, NascentIsModest DEF Nascent
  <2>3. \A m : m.type = "SUCCESS" /\ m.coding = y.coding
               => Heard(cfg, c, y, m) /\ HeardTerms(c, y, m)
    BY <1>1 DEF Heard, HeardTerms, CalmTerms, Admitted, Nascent, Now
  <2>4. \E m : /\ Accepts(x, by).out = <<m>> /\ Heard(cfg, c, y, m) /\ HeardTerms(c, y, m)
               /\ Modest(cfg, c, y)
    BY <2>1, <2>2, <2>3, OnePacket
  <2> QED BY <2>1, <2>4 DEF Suits
<1> QED BY <1>3, <1>4

\* The first matching line is what the client that sent a key is prepared for; a
\* second one only if a key is in two lines.
LEMMA ScanSuits ==
  ASSUME NEW x, Nascent(x), NEW key \in Named, NEW after \in Nat,
         \/ c.pc = "reply" /\ Now.kind \in {"agent", "file"}
         \/ c.pc \in {"verdict", "dummy"} /\ (Matching(key, after) # {} => Doubled(cfg)),
         \A i \in Matching(key, after) : i \in Nat
  PROVE  Suits(Scan(x, key, after))
<1>1. CASE Matching(key, after) = {}
  <2>1. Scan(x, key, after) = Fails(x)
    BY <1>1 DEF Scan
  <2> QED BY <2>1, FailsSuits
<1>2. CASE Matching(key, after) # {}
  <2> DEFINE n == CHOOSE i \in Matching(key, after) : \A j \in Matching(key, after) : i =< j
             y == [x EXCEPT !.pc = "challenge", !.key = key, !.line = n]
  <2>1. n \in Nat
    <3>1. \E i \in Matching(key, after) : \A j \in Matching(key, after) : i =< j
      BY <1>2, Least
    <3> QED BY <3>1
  <2> HIDE DEF n
  <2>2. y \in Server /\ y.provided = {} /\ y.coding = x.coding /\ y.pc = "challenge"
    BY <2>1 DEF Nascent, Server
  <2>3. Scan(x, key, after) = Says(y, "RSA_CHALLENGE", "nothing")
    BY <1>2 DEF Scan, n
  <2> HIDE DEF y
  <2>4. /\ Scan(x, key, after).me = y
        /\ Scan(x, key, after).out = <<Packet(y, "RSA_CHALLENGE", "nothing")>>
    BY <2>3 DEF Says
  <2>5. Modest(cfg, c, y)
    BY <2>2, NascentIsModest DEF Nascent
  <2>6. \A m : m.type = "RSA_CHALLENGE" /\ m.coding = y.coding
               => Heard(cfg, c, y, m) /\ HeardTerms(c, y, m)
    <3>1. \/ Challenge(Now) = "RSA_CHALLENGE" /\ Challenger(Now.kind) = "challenge"
          \/ c.pc # "reply"
      BY DEF Challenge, Challenger
    <3>2. c.pc = "reply" => Now.kind \notin Verdicts
      BY DEF Verdicts
    <3> QED BY <1>2, <2>2, <3>1, <3>2 DEF Heard, HeardTerms, CalmTerms, Nascent, Now
  <2>7. \E m : /\ Scan(x, key, after).out = <<m>> /\ Heard(cfg, c, y, m) /\ HeardTerms(c, y, m)
               /\ Modest(cfg, c, y)
    BY <2>4, <2>5, <2>6, OnePacket
  <2> QED BY <2>4, <2>7 DEF Suits
<1> QED BY <1>1, <1>2

LEMMA ChallengerIs ==
  ASSUME NEW k
  PROVE  /\ Challenger(k) \in {"challenge", "hostchallenge", "tis", "none"}
         /\ Challenger(k) = "challenge" => k \in {"agent", "file"}
         /\ Challenger(k) = "hostchallenge" => k = "rhosts_rsa"
         /\ Challenger(k) = "tis" => k = "tis"
BY DEF Challenger

\* The places at which the server reads, and where the client is then.
LEMMA WhereTheClientIs ==
  ASSUME IInv, InTalk, Talking, toS # << >>
  PROVE  /\ s.pc = "ident" => c.pc = "key"
         /\ s.pc = "key" => c.pc = "ack" /\ c.coding = cfg.cipher
         /\ s.pc = "user" => c.pc = "name"
         /\ s.pc \in Refusing => c.pc = "reply" /\ Head(toS).type = RequestOf(Now.kind)
         /\ s.pc \in {"challenge", "hostchallenge", "tis"} =>
              /\ c.pc \in {"verdict", "dummy"} /\ s.pc = Challenger(Now.kind)
              /\ Head(toS).type = Response(Now)
              /\ c.pc = "dummy" => Now.kind = "file" /\ Head(toS).arg = "wrong"
         /\ s.pc = "prep" => \/ c.pc = "answer" /\ Head(toS).type = Head(c.ask)
                             \/ c.pc = "session" /\ Head(toS).type = "EXEC"
         /\ s.pc \notin {"start", "session", "dead"}
<1>1. Asked(c, s, Head(toS)) /\ AskedTerms(cfg, c, s, Head(toS)) /\ s.pc # "dead"
  BY WhatIsAsked DEF Talking, Together
<1>2. Challenger(Now.kind) \in {"challenge", "hostchallenge", "tis", "none"}
  BY ChallengerIs
<1> QED BY <1>1, <1>2 DEF Asked, AskedTerms, Refusing, Admitted, Now

LEMMA NascentYet ==
  ASSUME IInv, InTalk, Talking, toS # << >>, s.pc \notin Admitted \cup {"session", "key"}
  PROVE  Nascent(s)
<1>1. /\ AskedTerms(cfg, c, s, Head(toS)) /\ Modest(cfg, c, s) /\ s \in Server
      /\ Asked(c, s, Head(toS))
  BY WhatIsAsked
<1>2. c.pc # "ack"
  BY <1>1, ChallengerIs DEF Asked, Refusing, Admitted
<1> QED BY <1>1, <1>2 DEF AskedTerms, Modest, Nascent

\* The outcome is one packet, and the server at another place before the session.
LEMMA NextPlace ==
  ASSUME NEW x, Nascent(x), NEW t, c.pc # "answer",
         x.pc \notin Admitted \cup {"session"},
         \A m : m.type = t => Heard(cfg, c, x, m)
  PROVE  Suits(Says(x, t, "nothing"))
<1> DEFINE o == Says(x, t, "nothing")
<1>1. o.me = x /\ o.out = <<Packet(x, t, "nothing")>>
  BY DEF Says
<1> HIDE DEF o
<1>2. Modest(cfg, c, x)
  BY NascentIsModest
<1>3. \A m : m.type = t /\ m.coding = x.coding => Heard(cfg, c, x, m) /\ HeardTerms(c, x, m)
  BY DEF HeardTerms, CalmTerms, Nascent
<1>4. \E m : o.out = <<m>> /\ Heard(cfg, c, x, m) /\ HeardTerms(c, x, m) /\ Modest(cfg, c, x)
  BY <1>1, <1>2, <1>3, OnePacket
<1>5. Suits(o)
  BY <1>1, <1>4 DEF Suits
<1> QED BY <1>5 DEF o

LEMMA DisconnectSuits ==
  ASSUME NEW x \in Server
  PROVE  Suits(Disconnect(x))
BY Disconnects DEF Suits

LEMMA TalkIdent ==
  ASSUME IInv, InTalk, ServerIdent
  PROVE  InTalk'
<1> DEFINE y == [s EXCEPT !.pc = "key"]
           o == IF cfg.host = "denied" THEN Disconnect(s) ELSE Says(y, "PUBLIC_KEY", "nothing")
<1>1. s.pc = "ident" /\ toS # << >> /\ toS' = Tail(toS) /\ ServerDoes(o)
  BY DEF ServerIdent, Reads
<1>2. ASSUME Talking
      PROVE  Suits(o)
  <2>1. c.pc = "key" /\ Nascent(s) /\ s \in Server
    BY <1>1, <1>2, WhereTheClientIs, NascentYet DEF Admitted, Nascent
  <2>2. Nascent(y) /\ y.pc = "key"
    BY <2>1 DEF Nascent, Server
  <2> HIDE DEF y
  <2>3. \A m : m.type = "PUBLIC_KEY" => Heard(cfg, c, y, m)
    BY <2>1, <2>2 DEF Heard
  <2>4. Suits(Says(y, "PUBLIC_KEY", "nothing"))
    BY <2>1, <2>2, <2>3, NextPlace DEF Admitted
  <2>5. Suits(Disconnect(s))
    BY <2>1, DisconnectSuits
  <2> QED BY <2>4, <2>5
<1> HIDE DEF o
<1> QED BY <1>1, <1>2, Suited

LEMMA TalkSessionKey ==
  ASSUME IInv, InTalk, ServerSessionKey
  PROVE  InTalk'
<1> DEFINE y == [s EXCEPT !.pc = "user", !.coding = Head(toS).arg, !.cipher = Head(toS).arg]
           o == Says(y, "SUCCESS", "nothing")
<1>1. /\ s.pc = "key" /\ toS # << >> /\ toS' = Tail(toS) /\ ServerDoes(o)
      /\ Head(toS).type = "SESSION_KEY"
  BY DEF ServerSessionKey, Reads
<1>2. ASSUME Talking
      PROVE  Suits(o)
  <2>1. c.pc = "ack" /\ c.coding = cfg.cipher
    BY <1>1, <1>2, WhereTheClientIs
  <2>2. /\ Head(toS).arg = cfg.cipher /\ s \in Server /\ Modest(cfg, c, s)
        /\ AskedTerms(cfg, c, s, Head(toS))
    BY <1>1, <1>2, WhatIsAsked DEF About
  <2>3. cfg.cipher \in {"none", "arcfour", "idea"}
    BY SetUp DEF IInv
  <2>7. PICK x \in {"none", "arcfour", "idea"} : x = Head(toS).arg /\ x = cfg.cipher
    BY <2>2, <2>3
  <2>8. y = [s EXCEPT !.pc = "user", !.coding = x, !.cipher = x]
    BY <2>7
  <2>9. y \in Server
    BY <2>2, <2>8, ZenonT(60) DEF Server, Codings
  <2>10. y.pc = "user" /\ y.coding = x /\ y.provided = s.provided
    BY <2>2, <2>8 DEF Server
  <2>4. y \in Server /\ y.pc = "user" /\ y.coding = cfg.cipher /\ y.provided = s.provided
    BY <2>7, <2>9, <2>10
  <2> HIDE DEF y
  <2>5. Nascent(y)
    BY <1>1, <2>1, <2>2, <2>4 DEF Nascent, Modest, AskedTerms, Admitted
  <2>6. \A m : m.type = "SUCCESS" => Heard(cfg, c, y, m)
    BY <2>1, <2>4 DEF Heard
  <2> QED BY <2>1, <2>4, <2>5, <2>6, NextPlace DEF Admitted
<1> HIDE DEF o
<1> QED BY <1>1, <1>2, Suited

LEMMA TalkUser ==
  ASSUME IInv, InTalk, ServerUser
  PROVE  InTalk'
<1> DEFINE y == [s EXCEPT !.pc = "failing"]
<1>1. PICK o : /\ s.pc = "user" /\ toS # << >> /\ toS' = Tail(toS) /\ ServerDoes(o)
               /\ \/ o = Says(y, "FAILURE", "nothing")
                  \/ o = Accepts(s, "password")
                  \/ o = Fails(s)
  <2> DEFINE o == CASE cfg.user = "unknown" -> Says(y, "FAILURE", "nothing")
                    [] cfg.user # "unknown" /\ cfg.empty /\ "password" \in cfg.offers
                         -> Accepts(s, "password")
                    [] OTHER -> Fails(s)
  <2>1. s.pc = "user" /\ toS # << >> /\ toS' = Tail(toS) /\ ServerDoes(o)
    BY DEF ServerUser, Reads
  <2>2. \/ o = Says(y, "FAILURE", "nothing") \/ o = Accepts(s, "password") \/ o = Fails(s)
    OBVIOUS
  <2> HIDE DEF o
  <2> QED BY <2>1, <2>2
<1>2. ASSUME Talking
      PROVE  Suits(o)
  <2>1. c.pc = "name" /\ Nascent(s)
    BY <1>1, <1>2, WhereTheClientIs, NascentYet DEF Admitted
  <2>2. Nascent(y) /\ y.pc = "failing"
    BY <2>1 DEF Nascent, Server
  <2> HIDE DEF y
  <2>3. \A m : m.type = "FAILURE" => Heard(cfg, c, y, m)
    BY <2>1, <2>2 DEF Heard, Refusing
  <2>4. Suits(Says(y, "FAILURE", "nothing"))
    BY <2>1, <2>2, <2>3, NextPlace DEF Admitted
  <2>5. Suits(Accepts(s, "password"))
    <3>1. "password" \in Methods
      BY DEF Methods
    <3> QED BY <2>1, <3>1, AcceptsSuits
  <2>6. Suits(Fails(s))
    BY <2>1, FailsSuits
  <2> QED BY <1>1, <2>4, <2>5, <2>6
<1> QED BY <1>1, <1>2, Suited

LEMMA TalkFailLoop ==
  ASSUME IInv, InTalk, ServerFailLoop
  PROVE  InTalk'
<1> DEFINE o == Says(s, "FAILURE", "nothing")
<1>1. s.pc = "failing" /\ toS # << >> /\ toS' = Tail(toS) /\ ServerDoes(o)
  BY DEF ServerFailLoop, Reads
<1>2. ASSUME Talking
      PROVE  Suits(o)
  <2>1. c.pc = "reply" /\ Nascent(s)
    BY <1>1, <1>2, WhereTheClientIs, NascentYet DEF Admitted, Refusing
  <2>2. \A m : m.type = "FAILURE" => Heard(cfg, c, s, m)
    BY <1>1, <2>1 DEF Heard, Refusing
  <2> QED BY <1>1, <2>1, <2>2, NextPlace DEF Admitted
<1> HIDE DEF o
<1> QED BY <1>1, <1>2, Suited

\* The attempt the client waits at.
LEMMA AttemptNow ==
  ASSUME IInv, c.pc \in {"reply", "verdict", "dummy"}
  PROVE  /\ c.todo # << >> /\ Now \in Attempt /\ c.todo \in Seq(Attempt)
         /\ 1 \in DOMAIN c.todo /\ Now = c.todo[1]
         /\ Now.kind \in {"rhosts", "rhosts_rsa", "agent", "file", "tis", "password"}
<1>1. c.todo # << >> /\ c.todo \in Seq(Attempt)
  BY DEF IInv, Placed, TypeOK, Client
<1>2. 1 \in DOMAIN c.todo /\ Now = c.todo[1] /\ Now \in Attempt
  BY <1>1, TailOf DEF Now
<1> QED BY <1>1, <1>2 DEF Attempt

LEMMA RequestTells ==
  ASSUME NEW k \in {"rhosts", "rhosts_rsa", "agent", "file", "tis", "password"}
  PROVE  /\ RequestOf(k) = "AUTH_RHOSTS" => k = "rhosts"
         /\ RequestOf(k) = "AUTH_RHOSTS_RSA" => k = "rhosts_rsa"
         /\ RequestOf(k) = "AUTH_RSA" => k \in {"agent", "file"}
         /\ RequestOf(k) = "AUTH_TIS" => k = "tis"
         /\ RequestOf(k) = "AUTH_PASSWORD" => k = "password"
BY DEF RequestOf

\* The server at a request of the authentication.
Requested(m) == /\ Nascent(s) /\ c.pc = "reply" /\ m.type = RequestOf(Now.kind) /\ m \in Message
                /\ Now.kind \in {"rhosts", "rhosts_rsa", "agent", "file", "tis", "password"}
                /\ (Now.kind = "tis" => "tis" \in cfg.wants)
                /\ About(m) /\ ~TwiceRefused

LEMMA SuitsRhosts ==
  ASSUME NEW m, Requested(m), AuthRhosts(m)
  PROVE  \E o : ServerDoes(o) /\ Suits(o)
<1>1. Now.kind = "rhosts" /\ c.pc = "reply" /\ Nascent(s)
  BY RequestTells DEF Requested, AuthRhosts
<1>2. Suits(Accepts(s, "rhosts")) /\ Suits(Fails(s))
  BY <1>1, AcceptsSuits, FailsSuits DEF Methods, Verdicts
<1>3. ServerDoes(Accepts(s, "rhosts")) \/ ServerDoes(Fails(s))
  BY DEF AuthRhosts
<1> QED BY <1>2, <1>3

LEMMA SuitsRhostsRsa ==
  ASSUME NEW m, Requested(m), AuthRhostsRsa(m)
  PROVE  \E o : ServerDoes(o) /\ Suits(o)
<1> DEFINE y == [s EXCEPT !.pc = "hostchallenge"]
<1>1. Now.kind = "rhosts_rsa" /\ c.pc = "reply" /\ Nascent(s)
  BY RequestTells DEF Requested, AuthRhostsRsa
<1>2. ServerDoes(Says(y, "RSA_CHALLENGE", "nothing")) \/ ServerDoes(Fails(s))
  BY DEF AuthRhostsRsa
<1>3. Nascent(y) /\ y.pc = "hostchallenge"
  BY <1>1 DEF Nascent, Server
<1> HIDE DEF y
<1>4. \A n : n.type = "RSA_CHALLENGE" => Heard(cfg, c, y, n)
  <2>1. Challenge(Now) = "RSA_CHALLENGE" /\ Challenger(Now.kind) = "hostchallenge"
        /\ Now.kind \notin Verdicts
    BY <1>1 DEF Challenge, Challenger, Verdicts
  <2> QED BY <1>1, <1>3, <2>1 DEF Heard, Now
<1>5. Suits(Says(y, "RSA_CHALLENGE", "nothing"))
  BY <1>1, <1>3, <1>4, NextPlace DEF Admitted
<1>6. Suits(Fails(s))
  BY <1>1, FailsSuits
<1> QED BY <1>2, <1>5, <1>6

\* Where the lines of a key are.
LEMMA MatchingIs ==
  ASSUME TypeOK, NEW key, NEW after \in Nat
  PROVE  \A i \in Matching(key, after) :
           i \in Nat /\ i > after /\ i \in DOMAIN cfg.lines /\ cfg.lines[i].key = key
BY SetUp DEF Matching

LEMMA SuitsRsa ==
  ASSUME IInv, NEW m, Requested(m), AuthRsa(m)
  PROVE  \E o : ServerDoes(o) /\ Suits(o)
<1>1. Now.kind \in {"agent", "file"} /\ c.pc = "reply" /\ Nascent(s)
  BY RequestTells DEF Requested, AuthRsa
<1>2. m.arg \in Named
  <2>1. m.arg = Now.key
    BY DEF Requested, About, AuthRsa
  <2>2. Now \in Attempt
    BY <1>1, AttemptNow
  <2> QED BY <2>1, <2>2 DEF Attempt
<1>3. Suits(Scan(s, m.arg, 0))
  <2>1. \A i \in Matching(m.arg, 0) : i \in Nat
    BY MatchingIs DEF IInv
  <2> QED BY <1>1, <1>2, <2>1, ScanSuits
<1>4. Suits(Fails(s))
  BY <1>1, FailsSuits
<1>5. ServerDoes(Scan(s, m.arg, 0)) \/ ServerDoes(Fails(s))
  BY DEF AuthRsa
<1> QED BY <1>3, <1>4, <1>5

\* A server of the other authentication that is down is excluded.
LEMMA SuitsTis ==
  ASSUME IInv, NEW m, Requested(m), AuthTis(m)
  PROVE  \E o : ServerDoes(o) /\ Suits(o)
<1> DEFINE y == [s EXCEPT !.pc = "tis"]
<1>1. Now.kind = "tis" /\ c.pc = "reply" /\ Nascent(s)
  BY RequestTells DEF Requested, AuthTis
<1>2. ~("tis" \in cfg.offers /\ cfg.tis = "down")
  BY <1>1 DEF Requested, TwiceRefused
<1>3. cfg.tis \in {"down", "unknown", "asks"}
  <2>1. cfg \in Config
    BY SetUp DEF IInv
  <2> QED BY <2>1 DEF Config
<1>4. ServerDoes(Says(y, "TIS_CHALLENGE", "nothing")) \/ ServerDoes(Fails(s))
  BY <1>2, <1>3 DEF AuthTis
<1>5. Nascent(y) /\ y.pc = "tis"
  BY <1>1 DEF Nascent, Server
<1> HIDE DEF y
<1>6. \A n : n.type = "TIS_CHALLENGE" => Heard(cfg, c, y, n)
  <2>1. Challenge(Now) = "TIS_CHALLENGE" /\ Challenger(Now.kind) = "tis"
        /\ Now.kind \notin Verdicts
    BY <1>1 DEF Challenge, Challenger, Verdicts
  <2> QED BY <1>1, <1>5, <2>1 DEF Heard, Now
<1>7. Suits(Says(y, "TIS_CHALLENGE", "nothing"))
  BY <1>1, <1>5, <1>6, NextPlace DEF Admitted
<1>8. Suits(Fails(s))
  BY <1>1, FailsSuits
<1> QED BY <1>4, <1>7, <1>8

LEMMA SuitsPassword ==
  ASSUME IInv, NEW m, Requested(m), AuthPassword(m)
  PROVE  \E o : ServerDoes(o) /\ Suits(o)
<1> DEFINE y == [s EXCEPT !.attempts = s.attempts + 1]
<1>1. Now.kind = "password" /\ c.pc = "reply" /\ Nascent(s) /\ s \in Server
  BY RequestTells DEF Requested, AuthPassword, Nascent
<1>2. \/ ServerDoes(Fails(s)) \/ ServerDoes(Disconnect(s))
      \/ /\ ~(s.attempts >= MaxAttempts)
         /\ ServerDoes(Accepts(y, "password")) \/ ServerDoes(Fails(y))
  BY DEF AuthPassword
<1>3. ASSUME ~(s.attempts >= MaxAttempts)
      PROVE  Nascent(y)
  <2>1. s.attempts + 1 \in 0 .. MaxAttempts
    <3>1. PICK n \in Nat : n = MaxAttempts
      BY LoginAssumption
    <3>2. s.attempts \in 0 .. n
      BY <1>1, <3>1 DEF Server
    <3> QED BY <1>3, <3>1, <3>2
  <2>2. y \in Server
    BY <1>1, <2>1 DEF Server
  <2> QED BY <1>1, <2>2 DEF Nascent, Server
<1> HIDE DEF y
<1>4. Suits(Fails(s)) /\ Suits(Disconnect(s))
  BY <1>1, FailsSuits, DisconnectSuits
<1>5. ~(s.attempts >= MaxAttempts) => Suits(Accepts(y, "password")) /\ Suits(Fails(y))
  BY <1>1, <1>3, FailsSuits, AcceptsSuits DEF Methods, Verdicts
<1> QED BY <1>2, <1>4, <1>5

LEMMA TalkAuth ==
  ASSUME IInv, InTalk, ServerAuth
  PROVE  InTalk'
<1> DEFINE m == Head(toS)
<1>1. s.pc = "auth" /\ toS # << >> /\ toS' = Tail(toS)
  BY DEF ServerAuth, Reads
<1>2. \/ AuthRhosts(m) \/ AuthRhostsRsa(m) \/ AuthRsa(m) \/ AuthTis(m) \/ AuthPassword(m)
      \/ AuthUnknown(m)
  BY DEF ServerAuth
<1>3. ASSUME Talking
      PROVE  Requested(m)
  <2>1. c.pc = "reply" /\ m.type = RequestOf(Now.kind) /\ Nascent(s)
    BY <1>1, <1>3, WhereTheClientIs, NascentYet DEF Admitted, Refusing
  <2>2. m \in Message /\ About(m) /\ Modest(cfg, c, s)
    BY <1>1, <1>3, WhatIsAsked
  <2>3. /\ 1 \in DOMAIN c.todo /\ Now = c.todo[1]
        /\ Now.kind \in {"rhosts", "rhosts_rsa", "agent", "file", "tis", "password"}
    BY <2>1, AttemptNow
  <2> QED BY <1>3, <2>1, <2>2, <2>3 DEF Requested, Modest, Talking
<1> HIDE DEF m
<1>4. CASE Talking
  <2>1. Requested(m)
    BY <1>3, <1>4
  <2>2. ASSUME AuthUnknown(m)
        PROVE  \E o : ServerDoes(o) /\ Suits(o)
    <3>1. Nascent(s) /\ c.pc = "reply"
      BY <2>1 DEF Requested
    <3> QED BY <2>2, <3>1, FailsSuits DEF AuthUnknown
  <2>3. \E o : ServerDoes(o) /\ Suits(o)
    BY <1>2, <2>1, <2>2, SuitsRhosts, SuitsRhostsRsa, SuitsRsa, SuitsTis, SuitsPassword
  <2>4. PICK o : ServerDoes(o) /\ Suits(o)
    BY <2>3
  <2>5. s.pc # "dead"
    BY <1>1
  <2> QED BY <1>1, <2>4, <2>5, Suited
<1>5. CASE ~Talking
  <2>1. c' = c /\ cfg' = cfg /\ up' = up
    BY <1>2 DEF AuthRhosts, AuthRhostsRsa, AuthRsa, AuthTis, AuthPassword, AuthUnknown, ServerDoes
  <2> QED BY <1>1, <1>5, <2>1 DEF InTalk, Talking, Together, TwiceRefused
<1> QED BY <1>4, <1>5

LEMMA TalkChallenge ==
  ASSUME IInv, InTalk, ServerChallenge
  PROVE  InTalk'
<1> DEFINE set == [s EXCEPT !.flags = s.flags \cup cfg.lines[s.line].sets]
<1>1. s.pc = "challenge" /\ toS # << >> /\ toS' = Tail(toS) /\ Head(toS).type = "RSA_RESPONSE"
  BY DEF ServerChallenge, Reads
<1>2. About(Head(toS)) /\ Challenging(s) /\ cfg.lines[s.line].refuses \in BOOLEAN
  <2>1. toS \in Seq(Message)
    BY DEF IInv, TypeOK
  <2>2. 1 \in DOMAIN toS /\ Head(toS) = toS[1]
    BY <1>1, <2>1, TailOf
  <2>3. Claims /\ Challenging(s)
    BY <1>1 DEF IInv, Fine, Living
  <2>4. cfg \in Config
    BY SetUp DEF IInv
  <2>5. cfg.lines \in Seq([key : Identities, sets : SUBSET Restrictions, refuses : BOOLEAN])
    BY <2>4 DEF Config
  <2>6. s.line \in DOMAIN cfg.lines
    BY <1>1, <2>3 DEF Challenging
  <2>7. cfg.lines[s.line] \in [key : Identities, sets : SUBSET Restrictions, refuses : BOOLEAN]
    BY <2>5, <2>6, LenProperties, ElementOfSeq
  <2> QED BY <2>2, <2>3, <2>7 DEF Claims
<1>3. PICK o : /\ ServerDoes(o)
               /\ \/ o = Scan(s, s.key, s.line)
                  \/ Head(toS).arg = "right" /\ o = Scan(set, s.key, s.line)
                  \/ Head(toS).arg = "right" /\ o = Accepts(set, "rsa")
  <2>1. Head(toS).arg \in {"right", "wrong"}
    BY <1>1, <1>2 DEF About
  <2> QED BY <1>2, <2>1 DEF ServerChallenge
<1>4. ASSUME Talking
      PROVE  Suits(o)
  <2>1. /\ c.pc \in {"verdict", "dummy"} /\ Nascent(s)
        /\ c.pc = "dummy" => Head(toS).arg = "wrong"
    BY <1>1, <1>4, WhereTheClientIs, NascentYet DEF Admitted
  <2>2. /\ s.line \in DOMAIN cfg.lines /\ cfg.lines[s.line].key = s.key
        /\ s.key \in Named /\ s.line \in Nat
    BY <1>1, <1>2, <2>1 DEF Challenging, Nascent, Server
  <2>3. Nascent(set)
    <3>1. cfg.lines[s.line].sets \subseteq Restrictions
      BY <2>2, SetUp DEF IInv
    <3> QED BY <2>1, <3>1 DEF Nascent, Server
  <2> HIDE DEF set
  <2>4. /\ \A i \in Matching(s.key, s.line) : i \in Nat
        /\ Matching(s.key, s.line) # {} => Doubled(cfg)
    <3>1. \A i \in Matching(s.key, s.line) :
            i \in Nat /\ i > s.line /\ i \in DOMAIN cfg.lines /\ cfg.lines[i].key = s.key
      BY <2>2, MatchingIs DEF IInv
    <3>2. ASSUME NEW i \in Matching(s.key, s.line)
          PROVE  Doubled(cfg)
      <4>1. i # s.line /\ i \in DOMAIN cfg.lines /\ cfg.lines[i].key = cfg.lines[s.line].key
        BY <2>2, <3>1
      <4> QED BY <2>2, <4>1 DEF Doubled
    <3> QED BY <3>1, <3>2
  <2>5. Suits(Scan(s, s.key, s.line)) /\ Suits(Scan(set, s.key, s.line))
    BY <2>1, <2>2, <2>3, <2>4, ScanSuits
  <2>6. Head(toS).arg = "right" => Suits(Accepts(set, "rsa"))
    BY <2>1, <2>3, AcceptsSuits DEF Methods
  <2> QED BY <1>3, <2>5, <2>6
<1>5. s.pc # "dead"
  BY <1>1
<1> QED BY <1>1, <1>3, <1>4, <1>5, Suited

LEMMA TalkHostChallenge ==
  ASSUME IInv, InTalk, ServerHostChallenge
  PROVE  InTalk'
<1>1. /\ s.pc = "hostchallenge" /\ toS # << >> /\ toS' = Tail(toS)
      /\ ServerDoes(Accepts(s, "rhosts_rsa")) \/ ServerDoes(Fails(s))
  BY DEF ServerHostChallenge, Reads
<1>2. ASSUME Talking
      PROVE  Suits(Accepts(s, "rhosts_rsa")) /\ Suits(Fails(s))
  <2>1. c.pc = "verdict" /\ Nascent(s)
    BY <1>1, <1>2, WhereTheClientIs, NascentYet, ChallengerIs DEF Admitted
  <2> QED BY <2>1, AcceptsSuits, FailsSuits DEF Methods
<1> QED BY <1>1, <1>2, Suited

LEMMA TalkTis ==
  ASSUME IInv, InTalk, ServerTis
  PROVE  InTalk'
<1>1. /\ s.pc = "tis" /\ toS # << >> /\ toS' = Tail(toS)
      /\ ServerDoes(Accepts(s, "tis")) \/ ServerDoes(Fails(s))
  BY DEF ServerTis, Reads
<1>2. ASSUME Talking
      PROVE  Suits(Accepts(s, "tis")) /\ Suits(Fails(s))
  <2>1. c.pc = "verdict" /\ Nascent(s)
    BY <1>1, <1>2, WhereTheClientIs, NascentYet, ChallengerIs DEF Admitted
  <2> QED BY <2>1, AcceptsSuits, FailsSuits DEF Methods
<1> QED BY <1>1, <1>2, Suited

-----------------------------------------------------------------------------
(* The dialogue: the preparation of the session.                           *)

LEMMA GrantSuits ==
  ASSUME IInv, InTalk, Talking, s.pc = "prep", toS # << >>,
         NEW r, r = Head(toS).type, r # "EXEC", r \notin s.flags,
         NEW o, NEW w, w.coding = s.coding, o.out = <<Packet(w, "SUCCESS", "nothing")>>,
         o.me.pc = "prep", o.me.provided = s.provided \cup {r}, o.me.flags = s.flags,
         o.me.coding = IF r = "compression" THEN "packed" ELSE s.coding
  PROVE  Suits(o)
<1>1. c.pc = "answer" /\ r = Head(c.ask)
  BY WhereTheClientIs
<1>2. AskedTerms(cfg, c, s, Head(toS)) /\ Modest(cfg, c, s)
  BY WhatIsAsked
<1>3. s.provided = c.granted /\ c.coding = s.coding
  BY <1>1, <1>2 DEF AskedTerms
<1>4. Modest(cfg, c, o.me)
  BY <1>1, <1>2 DEF Modest, Wants, Admitted
<1>5. \A m : m.type = "SUCCESS" /\ m.coding = w.coding
             => Heard(cfg, c, o.me, m) /\ HeardTerms(c, o.me, m)
  BY <1>1, <1>3 DEF Heard, HeardTerms, Grant
<1>6. PICK m : m = Packet(w, "SUCCESS", "nothing")
  OBVIOUS
<1>7. m.type = "SUCCESS" /\ m.coding = w.coding /\ o.out = <<m>>
  BY <1>6 DEF Packet
<1>8. Heard(cfg, c, o.me, m) /\ HeardTerms(c, o.me, m)
  BY <1>5, <1>7
<1> QED BY <1>4, <1>7, <1>8 DEF Suits

LEMMA RefuseSuits ==
  ASSUME IInv, InTalk, Talking, s.pc = "prep", toS # << >>, Head(toS).type # "EXEC",
         NEW x, x.pc = "prep", x.provided = s.provided, x.flags = s.flags, x.coding = s.coding
  PROVE  Suits(Refuses(x))
<1>1. c.pc = "answer"
  BY WhereTheClientIs
<1>2. AskedTerms(cfg, c, s, Head(toS)) /\ Modest(cfg, c, s)
  BY WhatIsAsked
<1>3. s.provided = c.granted /\ c.coding = s.coding
  BY <1>1, <1>2 DEF AskedTerms
<1>4. Modest(cfg, c, x)
  BY <1>1, <1>2 DEF Modest, Wants, Admitted
<1>5. \A m : m.type = "FAILURE" /\ m.coding = x.coding
             => Heard(cfg, c, x, m) /\ HeardTerms(c, x, m)
  BY <1>1, <1>3 DEF Heard, HeardTerms, CalmTerms
<1>6. Refuses(x).me = x /\ Refuses(x).out = <<Packet(x, "FAILURE", "nothing")>>
  BY DEF Refuses, Says
<1>7. PICK m : m = Packet(x, "FAILURE", "nothing")
  OBVIOUS
<1>8. m.type = "FAILURE" /\ m.coding = x.coding
  BY <1>7 DEF Packet
<1>9. Heard(cfg, c, x, m) /\ HeardTerms(c, x, m)
  BY <1>5, <1>8
<1> QED BY <1>4, <1>6, <1>7, <1>9 DEF Suits

\* The answer to a request, in the preparation.
Replied(o) ==
  \/ o.me.pc = "dead"
  \/ \E x : /\ x.pc = "prep" /\ x.provided = s.provided /\ x.flags = s.flags
            /\ x.coding = s.coding /\ o = Refuses(x)
  \/ \E r, w : /\ r = Head(toS).type /\ r \notin s.flags /\ w.coding = s.coding
               /\ o.out = <<Packet(w, "SUCCESS", "nothing")>>
               /\ o.me.pc = "prep" /\ o.me.provided = s.provided \cup {r}
               /\ o.me.flags = s.flags
               /\ o.me.coding = IF r = "compression" THEN "packed" ELSE s.coding

LEMMA PreparedSuits ==
  ASSUME IInv, InTalk, s.pc = "prep", toS # << >>, toS' = Tail(toS), Head(toS).type # "EXEC",
         NEW o, ServerDoes(o), Replied(o)
  PROVE  InTalk'
<1>1. ASSUME Talking
      PROVE  Suits(o)
  <2>1. CASE o.me.pc = "dead"
    BY <2>1 DEF Suits
  <2>2. ASSUME NEW x, x.pc = "prep", x.provided = s.provided, x.flags = s.flags,
               x.coding = s.coding, o = Refuses(x)
        PROVE  Suits(o)
    BY <1>1, <2>2, RefuseSuits
  <2>3. ASSUME NEW r, NEW w, r = Head(toS).type, r \notin s.flags, w.coding = s.coding,
               o.out = <<Packet(w, "SUCCESS", "nothing")>>,
               o.me.pc = "prep", o.me.provided = s.provided \cup {r}, o.me.flags = s.flags,
               o.me.coding = IF r = "compression" THEN "packed" ELSE s.coding
        PROVE  Suits(o)
    BY <1>1, <2>3, GrantSuits
  <2> QED BY <2>1, <2>2, <2>3 DEF Replied
<1>2. s.pc # "dead"
  OBVIOUS
<1> QED BY <1>1, <1>2, Suited

LEMMA Refusal ==
  ASSUME NEW x, x.pc = "prep", x.provided = s.provided, x.flags = s.flags, x.coding = s.coding
  PROVE  Replied(Refuses(x))
BY DEF Replied

LEMMA Granted ==
  ASSUME NEW x, x \in Server, x.pc = "prep", x.provided = s.provided, x.flags = s.flags,
         x.coding = s.coding, NEW r, r = Head(toS).type, r \notin s.flags, r # "compression"
  PROVE  Replied(Grants(x, r))
<1> DEFINE y == [x EXCEPT !.provided = x.provided \cup {r}]
<1>1. Grants(x, r).me = y /\ Grants(x, r).out = <<Packet(y, "SUCCESS", "nothing")>>
  BY DEF Grants, Says
<1>2. /\ y.pc = "prep" /\ y.provided = s.provided \cup {r} /\ y.flags = s.flags
      /\ y.coding = s.coding
  BY DEF Server
<1> HIDE DEF y
<1> QED BY <1>1, <1>2 DEF Replied

LEMMA TalkPrepAsk ==
  ASSUME IInv, s.pc = "prep", NEW m, m = Head(toS),
         \/ PrepCompression(m) \/ PrepPty(m) \/ PrepX11(m) \/ PrepAgent(m) \/ PrepForward(m)
         \/ PrepUnknown(m)
  PROVE  m.type # "EXEC" /\ \E o : ServerDoes(o) /\ Replied(o)
<1>0. s \in Server /\ s.flags \subseteq Restrictions
  BY DEF IInv, TypeOK, Server
<1>1. Replied(Refuses(s))
  BY Refusal
<1>2. ASSUME NEW r, r = m.type, r \notin s.flags, r # "compression"
      PROVE  Replied(Grants(s, r))
  BY <1>0, <1>2, Granted
<1>3. \A x \in Server : Disconnect(x).me.pc = "dead"
  BY Disconnects
<1>4. \A x \in Server : Replied(Disconnect(x))
  BY <1>3 DEF Replied
<1>5. CASE PrepCompression(m)
  <2> DEFINE y == [s EXCEPT !.provided = s.provided \cup {m.type}]
             o == [Grants(s, m.type) EXCEPT !.me.coding = "packed"]
  <2>1. ServerDoes(o) /\ m.type = "compression"
    BY <1>5 DEF PrepCompression
  <2>2. o.me = [y EXCEPT !.coding = "packed"] /\ o.out = <<Packet(y, "SUCCESS", "nothing")>>
    BY DEF Grants, Says
  <2>3. /\ y.coding = s.coding /\ o.me.pc = "prep" /\ o.me.flags = s.flags
        /\ o.me.provided = s.provided \cup {m.type} /\ o.me.coding = "packed"
    <3> HIDE DEF o
    <3>1. y = [i \in DOMAIN y |-> y[i]] /\ "coding" \in DOMAIN y
      BY <1>0 DEF Server
    <3>2. /\ y.coding = s.coding /\ y.pc = "prep" /\ y.flags = s.flags
          /\ y.provided = s.provided \cup {m.type}
      BY <1>0 DEF Server
    <3> HIDE DEF y
    <3> QED BY <2>2, <3>1, <3>2
  <2>4. m.type \notin s.flags
    BY <1>0, <2>1 DEF Restrictions
  <2> HIDE DEF y, o
  <2>5. Replied(o)
    BY <2>1, <2>2, <2>3, <2>4 DEF Replied
  <2> QED BY <2>1, <2>5
<1>6. CASE PrepPty(m)
  <2> DEFINE held == [s EXCEPT !.tty = "held"]
             lost == [s EXCEPT !.tty = "lost"]
  <2>1. /\ held \in Server /\ held.pc = "prep" /\ held.provided = s.provided
        /\ held.flags = s.flags /\ held.coding = s.coding
        /\ lost.pc = "prep" /\ lost.provided = s.provided
        /\ lost.flags = s.flags /\ lost.coding = s.coding
    BY <1>0 DEF Server
  <2>2. /\ m.type = "pty"
        /\ \/ ServerDoes(Refuses(s)) \/ ServerDoes(Refuses(lost))
           \/ "pty" \notin s.flags /\ ServerDoes(Grants(held, m.type))
    BY <1>6 DEF PrepPty
  <2> HIDE DEF held, lost
  <2>3. Replied(Refuses(lost))
    BY <2>1, Refusal
  <2>4. "pty" \notin s.flags => Replied(Grants(held, m.type))
    BY <2>1, <2>2, Granted
  <2> QED BY <1>1, <2>2, <2>3, <2>4
<1>7. CASE PrepX11(m)
  BY <1>1, <1>2, <1>7 DEF PrepX11
<1>8. CASE PrepAgent(m)
  <2> DEFINE x == [s EXCEPT !.agent = "listening"]
             y == [s EXCEPT !.agent = "named"]
  <2>1. /\ x \in Server /\ x.pc = "prep" /\ x.provided = s.provided
        /\ x.flags = s.flags /\ x.coding = s.coding
        /\ y \in Server /\ y.pc = "prep" /\ y.provided = s.provided
        /\ y.flags = s.flags /\ y.coding = s.coding
    BY <1>0 DEF Server
  <2>2. /\ m.type = "agent"
        /\ \/ ServerDoes(Refuses(s)) \/ ServerDoes(Refuses(y)) \/ ServerDoes(Disconnect(y))
           \/ "agent" \notin s.flags /\ ServerDoes(Grants(x, m.type))
    BY <1>8 DEF PrepAgent
  <2> HIDE DEF x, y
  <2>3. Replied(Refuses(y)) /\ Replied(Disconnect(y))
    BY <1>4, <2>1, Refusal
  <2>4. "agent" \notin s.flags => Replied(Grants(x, m.type))
    BY <2>1, <2>2, Granted
  <2> QED BY <1>1, <2>2, <2>3, <2>4
<1>9. CASE PrepForward(m)
  BY <1>0, <1>1, <1>2, <1>4, <1>9 DEF PrepForward
<1>10. CASE PrepUnknown(m)
  BY <1>1, <1>10 DEF PrepUnknown
<1> QED BY <1>5, <1>6, <1>7, <1>8, <1>9, <1>10

\* A step to a place from which nothing is sent, and nothing is on its way.
LEMMA TalkCalm ==
  ASSUME NEW x, NEW y, c' = x, s' = y, cfg' = cfg, toS' = << >>, toC' = << >>,
         Calm(x, y), CalmTerms(x, y), Modest(cfg, x, y)
  PROVE  InTalk'
BY DEF InTalk, Talk, Turns

LEMMA TalkExec ==
  ASSUME IInv, InTalk, s.pc = "prep", toS # << >>, toS' = Tail(toS), PrepExec(Head(toS))
  PROVE  InTalk'
<1>1. s \in Server /\ Head(toS).type = "EXEC"
  BY DEF IInv, TypeOK, PrepExec
<1>2. CASE ServerDoes(Disconnect(s))
  BY <1>1, <1>2, Disconnects, Over DEF ServerDoes
<1>3. CASE ~Talking
  <2>1. c' = c /\ cfg' = cfg /\ up' = up
    BY DEF PrepExec, ServerDoes
  <2> QED BY <1>3, <2>1 DEF InTalk, Talking, Together, TwiceRefused
<1>4. CASE Talking /\ ~ServerDoes(Disconnect(s))
  <2>1. PICK tty \in {"none", "lost", "held", "guarded"} :
          ServerDoes(Silent([s EXCEPT !.pc = "session", !.tty = tty]))
    BY <1>1, <1>4 DEF PrepExec, Server
  <2> DEFINE y == [s EXCEPT !.pc = "session", !.tty = tty]
  <2>2. s' = y /\ toC' = Sent(toC, << >>) /\ cfg' = cfg /\ c' = c
    BY <2>1 DEF ServerDoes, Silent
  <2>3. y.pc = "session" /\ y.provided = s.provided /\ y.coding = s.coding /\ y.flags = s.flags
    BY <1>1 DEF Server
  <2> HIDE DEF y
  <2>4. c.pc = "session"
    <3>1. c.pc = "answer" => Head(c.ask) \in Requests
      <4>1. c.pc = "answer" => c.ask # << >> /\ c.ask \in Seq(Requests)
        BY DEF IInv, Placed, TypeOK, Client
      <4> QED BY <4>1, TailOf
    <3> QED BY <1>1, <1>4, <3>1, WhereTheClientIs DEF Requests
  <2>5. /\ toS' = << >> /\ toC = << >> /\ Modest(cfg, c, s) /\ AskedTerms(cfg, c, s, Head(toS))
    BY <1>4, WhatIsAsked
  <2>6. toC' = << >>
    BY <2>2, <2>5 DEF Sent
  <2>7. Calm(c, y) /\ CalmTerms(c, y) /\ Modest(cfg, c, y)
    BY <2>3, <2>4, <2>5 DEF Calm, CalmTerms, Modest, AskedTerms, Admitted
  <2> QED BY <2>2, <2>5, <2>6, <2>7, TalkCalm
<1> QED BY <1>2, <1>3, <1>4

LEMMA TalkPrep ==
  ASSUME IInv, InTalk, ServerPrep
  PROVE  InTalk'
<1>1. s.pc = "prep" /\ toS # << >> /\ toS' = Tail(toS)
  BY DEF ServerPrep, Reads
<1>2. CASE PrepExec(Head(toS))
  BY <1>1, <1>2, TalkExec
<1>3. CASE ~PrepExec(Head(toS))
  <2>1. /\ Head(toS).type # "EXEC"
        /\ \E o : ServerDoes(o) /\ Replied(o)
    BY <1>1, <1>3, TalkPrepAsk DEF ServerPrep
  <2> QED BY <1>1, <2>1, PreparedSuits
<1> QED BY <1>2, <1>3

LEMMA TalkBegin ==
  ASSUME IInv, InTalk, BeginPreparation
  PROVE  InTalk'
<1> SUFFICES ASSUME Talking'
             PROVE  Talk(cfg, c, s, toS, toC)'
  BY DEF InTalk, Talking
<1> DEFINE y == [s EXCEPT !.pc = "prep", !.alarm = FALSE]
<1>1. s.pc = "accepted" /\ ServerDoes(Silent(y)) /\ toS' = toS
  BY DEF BeginPreparation
<1>2. /\ s' = y /\ toC' = Sent(toC, << >>) /\ cfg' = cfg /\ c' = c /\ up' = up
      /\ s \in Server /\ toC \in Seq(Message)
  BY <1>1 DEF ServerDoes, Silent, IInv, TypeOK
<1>3. toC' = toC
  BY <1>2 DEF Sent
<1>4. y.pc = "prep" /\ y.provided = s.provided /\ y.coding = s.coding /\ y.flags = s.flags
  BY <1>2 DEF Server
<1> HIDE DEF y
<1>5. Talking
  BY <1>1, <1>2 DEF Talking, Together, TwiceRefused
<1>6. Turns(cfg, c, s, toS, toC) /\ Modest(cfg, c, s)
  BY <1>5 DEF InTalk, Talking, Talk
<1>7. Modest(cfg, c, y)
  BY <1>1, <1>4, <1>6 DEF Modest, Admitted
<1>8. \A k : Challenger(k) # "accepted"
  BY ChallengerIs
<1>9. /\ Calm(c, s) => Calm(c, y)
      /\ \A m : Asked(c, s, m) => Asked(c, y, m)
      /\ \A m : Heard(cfg, c, s, m) => Heard(cfg, c, y, m)
  BY <1>1, <1>4, <1>8 DEF Calm, Asked, Heard, Refusing, Admitted
<1>10. /\ CalmTerms(c, s) => CalmTerms(c, y)
       /\ \A m : AskedTerms(cfg, c, s, m) => AskedTerms(cfg, c, y, m)
       /\ \A m : HeardTerms(c, s, m) => HeardTerms(c, y, m)
  BY <1>4 DEF CalmTerms, AskedTerms, HeardTerms, Grant
<1>11. Turns(cfg, c, y, toS, toC)
  BY <1>6, <1>9, <1>10 DEF Turns
<1> QED BY <1>1, <1>2, <1>3, <1>7, <1>11 DEF Talk

LEMMA TalkStart ==
  ASSUME IInv, InTalk, ServerStart
  PROVE  InTalk'
<1> DEFINE y == [s EXCEPT !.pc = "ident", !.alarm = cfg.timed]
           dead == [s EXCEPT !.pc = "dead"]
<1>1. /\ s.pc = "start" /\ toS' = toS /\ s \in Server
      /\ ServerDoes(Silent(dead)) \/ ServerDoes(Says(y, "IDENT", "nothing"))
  BY DEF ServerStart, IInv, TypeOK
<1>2. y.pc = "ident" /\ y.provided = s.provided /\ y.coding = s.coding /\ y.flags = s.flags
      /\ dead.pc = "dead"
  BY <1>1 DEF Server
<1> HIDE DEF y, dead
<1>3. CASE ServerDoes(Silent(dead))
  BY <1>2, <1>3, Over DEF ServerDoes, Silent
<1>4. CASE ServerDoes(Says(y, "IDENT", "nothing"))
  <2> SUFFICES ASSUME Talking'
               PROVE  Talk(cfg, c, s, toS, toC)'
    BY DEF InTalk, Talking
  <2>1. s' = y /\ toC' = Sent(toC, <<Packet(y, "IDENT", "nothing")>>) /\ cfg' = cfg /\ c' = c
        /\ up' = up
    BY <1>4 DEF ServerDoes, Says
  <2>2. Talking
    BY <1>1, <2>1 DEF Talking, Together, TwiceRefused
  <2>3. toS = << >> /\ toC = << >> /\ Calm(c, s) /\ CalmTerms(c, s) /\ Modest(cfg, c, s) /\ up
    BY <1>1, <2>2, WhatIsCalm
  <2>4. c.pc = "ident"
    BY <1>1, <2>3 DEF Calm, Refusing, Admitted
  <2>5. PICK m : m = Packet(y, "IDENT", "nothing")
    OBVIOUS
  <2>6. m.type = "IDENT" /\ m.coding = y.coding
    BY <2>5 DEF Packet
  <2>7. Heard(cfg, c, y, m) /\ HeardTerms(c, y, m) /\ Modest(cfg, c, y)
    BY <1>1, <1>2, <2>3, <2>4, <2>6 DEF Heard, HeardTerms, CalmTerms, Modest, Admitted
  <2>8. toC' = <<m>> /\ Len(<<m>>) = 1 /\ <<m>>[1] = m
    BY <2>1, <2>3, <2>5 DEF Sent
  <2>9. Turns(cfg, c, y, << >>, <<m>>)
    BY <2>7, <2>8 DEF Turns
  <2>10. Talk(cfg, c, y, << >>, <<m>>)
    BY <2>7, <2>9 DEF Talk
  <2> QED BY <1>1, <2>1, <2>3, <2>8, <2>10
<1> QED BY <1>1, <1>3, <1>4

\* The server ends.
LEMMA TalkEnds ==
  ASSUME IInv, ServerProtocolError \/ ServerLoses \/ SessionOver \/ GraceAlarm
  PROVE  InTalk'
<1>1. s \in Server
  BY DEF IInv, TypeOK
<1>3. Disconnect(s).me.pc = "dead"
  BY <1>1, Disconnects, Zenon
<1>4. Silent(Dead(s)).me.pc = "dead"
  BY <1>1, Dies DEF Silent
<1>5. ASSUME SessionOver
      PROVE  s'.pc = "dead"
  BY <1>1, <1>5 DEF SessionOver, ServerDoes, Silent, Server
<1>6. \/ ServerDoes(Disconnect(s)) \/ ServerDoes(Silent(Dead(s)))
      \/ SessionOver
  BY DEF ServerProtocolError, ServerLoses, GraceAlarm
<1>2. s'.pc = "dead"
  BY <1>3, <1>4, <1>5, <1>6 DEF ServerDoes
<1> QED BY <1>2, Over

LEMMA TalkServer ==
  ASSUME IInv, InTalk, ServerStep \/ SessionOver \/ GraceAlarm
  PROVE  InTalk'
BY TalkStart, TalkIdent, TalkSessionKey, TalkUser, TalkFailLoop, TalkAuth, TalkChallenge,
   TalkHostChallenge, TalkTis, TalkBegin, TalkPrep, TalkEnds DEF ServerStep

-----------------------------------------------------------------------------
(* The dialogue: what the client does.                                     *)

\* The server keeps what the client is told; the client asks for nothing else.
LEMMA ModestStill ==
  ASSUME NEW x, NEW y, Modest(cfg, x, s), y.todo = x.todo, y.host = x.host,
         y.pc = "answer" => Wants(y, Head(y.ask))
  PROVE  Modest(cfg, y, s)
BY DEF Modest

LEMMA FitsCalm ==
  ASSUME NEW y, Modest(cfg, y, s), Calm(y, s), CalmTerms(y, s)
  PROVE  Fits(Silent(y))
BY DEF Fits, Silent

LEMMA FitsAsking ==
  ASSUME NEW y, NEW t, NEW a, Modest(cfg, y, s), y.coding = s.coding, y.granted = s.provided,
         y.pc # "ack",
         \A m : m.type = t /\ m.arg = a => Asked(y, s, m)
  PROVE  Fits(Says(y, t, a))
<1>1. PICK m : m = Packet(y, t, a)
  OBVIOUS
<1>2. m.type = t /\ m.arg = a /\ m.coding = y.coding
  BY <1>1 DEF Packet
<1>3. Asked(y, s, m) /\ AskedTerms(cfg, y, s, m)
  BY <1>2 DEF AskedTerms
<1>4. Says(y, t, a).me = y /\ Says(y, t, a).out = <<m>>
  BY <1>1 DEF Says
<1> QED BY <1>3, <1>4 DEF Fits

LEMMA ClientGivesUp ==
  ASSUME IInv
  PROVE  /\ Fits(ClientDisconnect(c))
         /\ Fits(Silent([c EXCEPT !.pc = "dead"]))
<1>1. c \in Client
  BY DEF IInv, TypeOK
<1> QED BY <1>1 DEF Fits, ClientDisconnect, Silent, Client

\* Where the server is, by what the client reads.
LEMMA WhereTheServerIs ==
  ASSUME IInv, InTalk, Talking, toC # << >>
  PROVE  /\ c.pc = "ident" => s.pc = "ident"
         /\ c.pc = "key" => s.pc = "key"
         /\ c.pc = "ack" => s.pc = "user"
         /\ c.pc \in {"name", "reply", "verdict", "dummy"} =>
              /\ Head(toC).type = "FAILURE" => s.pc \in Refusing
              /\ Head(toC).type = "SUCCESS" => s.pc \in Admitted
         /\ c.pc = "reply" /\ Head(toC).type \notin {"SUCCESS", "FAILURE"} =>
              s.pc = Challenger(Now.kind)
         /\ c.pc = "answer" => s.pc = "prep" /\ Head(toC).type \in {"SUCCESS", "FAILURE"}
         /\ c.pc = "answer" /\ Head(toC).type = "SUCCESS" => Grant(c, s)
         /\ ~(c.pc = "answer" /\ Head(toC).type = "SUCCESS") => CalmTerms(c, s)
<1>1. Heard(cfg, c, s, Head(toC)) /\ HeardTerms(c, s, Head(toC))
  BY WhatIsHeard
<1>2. Challenge(Now) \in {"TIS_CHALLENGE", "RSA_CHALLENGE"}
  BY DEF Challenge
<1> QED BY <1>1, <1>2 DEF Heard, HeardTerms, Now

LEMMA TalkClientIdent ==
  ASSUME IInv, InTalk, ClientIdent
  PROVE  InTalk'
<1> DEFINE y == [c EXCEPT !.pc = "key"]
           o == Says(y, "IDENT", "nothing")
<1>1. c.pc = "ident" /\ toC # << >> /\ toC' = Tail(toC) /\ ClientDoes(o)
  BY DEF ClientIdent, Reads
<1>2. ASSUME Talking
      PROVE  Fits(o)
  <2>1. s.pc = "ident" /\ CalmTerms(c, s) /\ Modest(cfg, c, s) /\ c \in Client
    BY <1>1, <1>2, WhereTheServerIs, WhatIsHeard
  <2>2. /\ y.pc = "key" /\ y.todo = c.todo /\ y.host = c.host /\ y.coding = c.coding
        /\ y.granted = c.granted
    BY <2>1 DEF Client
  <2> HIDE DEF y
  <2>3. Modest(cfg, y, s)
    BY <2>1, <2>2, ModestStill
  <2>4. \A m : m.type = "IDENT" => Asked(y, s, m)
    BY <2>1, <2>2 DEF Asked
  <2> QED BY <2>1, <2>2, <2>3, <2>4, FitsAsking DEF CalmTerms
<1> HIDE DEF o
<1> QED BY <1>1, <1>2, Fitted

LEMMA TalkClientKey ==
  ASSUME IInv, InTalk, ClientKey
  PROVE  InTalk'
<1> DEFINE x(host) == [c EXCEPT !.pc = "ack", !.host = host, !.ask = cfg.requests,
                                !.todo = Attempts]
           o(host) == [Says(x(host), "SESSION_KEY", cfg.cipher)
                         EXCEPT !.me.coding = cfg.cipher]
<1>1. c.pc = "key" /\ toC # << >> /\ toC' = Tail(toC)
  BY DEF ClientKey, Reads
<1>2. \/ ClientDoes(Silent([c EXCEPT !.pc = "dead"]))
      \/ \E host \in {"ok", "new", "changed"} : ClientDoes(o(host))
  BY DEF ClientKey
<1>3. ASSUME Talking, NEW host \in {"ok", "new", "changed"}
      PROVE  Fits(o(host))
  <2>1. s.pc = "key" /\ CalmTerms(c, s) /\ Modest(cfg, c, s) /\ c \in Client
    BY <1>1, <1>3, WhereTheServerIs, WhatIsHeard
  <2>2. Willing(Attempts) /\ Attempts \in Seq(Attempt)
    BY AttemptsOrdered DEF IInv
  <2> DEFINE xx == x(host)
             y == [xx EXCEPT !.coding = cfg.cipher]
  <2>3. /\ xx.pc = "ack" /\ xx.todo = Attempts /\ xx.coding = c.coding /\ xx.granted = c.granted
        /\ xx = [i \in DOMAIN xx |-> xx[i]] /\ "coding" \in DOMAIN xx
    BY <2>1 DEF Client
  <2>4. PICK m : m = Packet(xx, "SESSION_KEY", cfg.cipher)
    OBVIOUS
  <2>5. o(host).me = y /\ o(host).out = <<m>>
    BY <2>4 DEF Says
  <2> HIDE DEF xx
  <2>6. m.type = "SESSION_KEY" /\ m.coding = c.coding
    BY <2>3, <2>4 DEF Packet
  <2>7. y.pc = "ack" /\ y.todo = Attempts /\ y.coding = cfg.cipher /\ y.granted = c.granted
    BY <2>3
  <2> HIDE DEF y
  <2>8. Modest(cfg, y, s)
    BY <2>1, <2>2, <2>7 DEF Modest, Willing, Admitted
  <2>9. Asked(y, s, m) /\ AskedTerms(cfg, y, s, m)
    BY <2>1, <2>6, <2>7 DEF Asked, AskedTerms, CalmTerms
  <2> QED BY <2>5, <2>8, <2>9 DEF Fits
<1> HIDE DEF o
<1>4. ASSUME NEW host \in {"ok", "new", "changed"}, ClientDoes(o(host))
      PROVE  InTalk'
  BY <1>1, <1>3, <1>4, Fitted
<1>5. ASSUME ClientDoes(Silent([c EXCEPT !.pc = "dead"]))
      PROVE  InTalk'
  BY <1>1, <1>5, ClientGivesUp, Fitted
<1> QED BY <1>2, <1>4, <1>5

LEMMA TalkClientAck ==
  ASSUME IInv, InTalk, ClientAck
  PROVE  InTalk'
<1> DEFINE y == [c EXCEPT !.pc = "name"]
           o == Says(y, "USER", "nothing")
<1>1. c.pc = "ack" /\ toC # << >> /\ toC' = Tail(toC) /\ ClientDoes(o)
  BY DEF ClientAck, Reads
<1>2. ASSUME Talking
      PROVE  Fits(o)
  <2>1. s.pc = "user" /\ CalmTerms(c, s) /\ Modest(cfg, c, s) /\ c \in Client
    BY <1>1, <1>2, WhereTheServerIs, WhatIsHeard
  <2>2. /\ y.pc = "name" /\ y.todo = c.todo /\ y.host = c.host /\ y.coding = c.coding
        /\ y.granted = c.granted
    BY <2>1 DEF Client
  <2> HIDE DEF y
  <2>3. Modest(cfg, y, s)
    BY <2>1, <2>2, ModestStill
  <2>4. \A m : m.type = "USER" => Asked(y, s, m)
    BY <2>1, <2>2 DEF Asked
  <2> QED BY <2>1, <2>2, <2>3, <2>4, FitsAsking DEF CalmTerms
<1> HIDE DEF o
<1> QED BY <1>1, <1>2, Fitted

\* The client is told the verdict.
LEMMA TalkVerdict ==
  ASSUME IInv, InTalk, Talking, toC # << >>, c.pc \in {"name", "reply", "verdict", "dummy"}
  PROVE  /\ Head(toC).type = "SUCCESS" => Fits(Silent([c EXCEPT !.pc = "ask"]))
         /\ Head(toC).type = "FAILURE" => Fits(Silent([c EXCEPT !.pc = "try"]))
         /\ Head(toC).type = "FAILURE" /\ c.todo # << >> => Fits(Silent(NextAttempt(c)))
<1> DEFINE ask == [c EXCEPT !.pc = "ask"]
           try == [c EXCEPT !.pc = "try"]
           next == [c EXCEPT !.pc = "try", !.todo = Tail(c.todo)]
<1>1. /\ Head(toC).type = "FAILURE" => s.pc \in Refusing
      /\ Head(toC).type = "SUCCESS" => s.pc \in Admitted
      /\ CalmTerms(c, s) /\ Modest(cfg, c, s) /\ c \in Client
  BY WhereTheServerIs, WhatIsHeard
<1>2. /\ ask.pc = "ask" /\ ask.todo = c.todo /\ ask.host = c.host /\ ask.coding = c.coding
      /\ ask.granted = c.granted
      /\ try.pc = "try" /\ try.todo = c.todo /\ try.host = c.host /\ try.coding = c.coding
      /\ try.granted = c.granted
      /\ next.pc = "try" /\ next.todo = Tail(c.todo) /\ next.host = c.host
      /\ next.coding = c.coding /\ next.granted = c.granted /\ NextAttempt(c) = next
  BY <1>1 DEF Client, NextAttempt
<1> HIDE DEF ask, try, next
<1>3. Modest(cfg, ask, s) /\ Modest(cfg, try, s)
  BY <1>1, <1>2, ModestStill
<1>4. CalmTerms(ask, s) /\ CalmTerms(try, s) /\ CalmTerms(next, s)
  BY <1>1, <1>2 DEF CalmTerms
<1>5. Head(toC).type = "SUCCESS" => Calm(ask, s)
  BY <1>1, <1>2 DEF Calm
<1>6. Head(toC).type = "FAILURE" => Calm(try, s) /\ Calm(next, s)
  BY <1>1, <1>2 DEF Calm
<1>7. c.todo # << >> => Modest(cfg, next, s)
  <2> SUFFICES ASSUME c.todo # << >>
               PROVE  Modest(cfg, next, s)
    OBVIOUS
  <2>1. c.todo \in Seq(Attempt)
    BY <1>1 DEF Client
  <2>2. \A i \in DOMAIN Tail(c.todo) :
          i + 1 \in DOMAIN c.todo /\ Tail(c.todo)[i] = c.todo[i + 1]
    BY <2>1, TailOf
  <2>3. \A i \in DOMAIN c.todo : c.todo[i].kind = "tis" => "tis" \in cfg.wants
    BY <1>1 DEF Modest
  <2>4. \A i \in DOMAIN next.todo : next.todo[i].kind = "tis" => "tis" \in cfg.wants
    BY <1>2, <2>2, <2>3
  <2> QED BY <1>1, <1>2, <2>4 DEF Modest
<1>8. Head(toC).type = "SUCCESS" => Fits(Silent(ask))
  BY <1>3, <1>4, <1>5, FitsCalm
<1>9. Head(toC).type = "FAILURE" => Fits(Silent(try))
  BY <1>3, <1>4, <1>6, FitsCalm
<1>10. Head(toC).type = "FAILURE" /\ c.todo # << >> => Fits(Silent(next))
  BY <1>4, <1>6, <1>7, FitsCalm
<1> QED BY <1>2, <1>8, <1>9, <1>10 DEF ask, try

LEMMA TalkClientName ==
  ASSUME IInv, InTalk, ClientName
  PROVE  InTalk'
<1>1. /\ c.pc = "name" /\ toC # << >> /\ toC' = Tail(toC)
      /\ \/ Head(toC).type = "SUCCESS" /\ ClientDoes(Silent([c EXCEPT !.pc = "ask"]))
         \/ Head(toC).type = "FAILURE" /\ ClientDoes(Silent([c EXCEPT !.pc = "try"]))
  BY DEF ClientName, Reads
<1> QED BY <1>1, TalkVerdict, Fitted

LEMMA TalkClientVerdict ==
  ASSUME IInv, InTalk, ClientVerdict
  PROVE  InTalk'
<1>1. /\ c.pc \in {"verdict", "dummy"} /\ toC # << >> /\ toC' = Tail(toC)
      /\ \/ Head(toC).type = "FAILURE" /\ ClientDoes(Silent(NextAttempt(c)))
         \/ Head(toC).type = "SUCCESS" /\ ClientDoes(Silent([c EXCEPT !.pc = "ask"]))
         \/ ClientDoes(ClientDisconnect(c))
  BY DEF ClientVerdict, Reads
<1>2. c.todo # << >>
  BY <1>1, AttemptNow
<1>3. Fits(ClientDisconnect(c)) /\ c.pc # "dead"
  BY <1>1, ClientGivesUp
<1>4. ASSUME ClientDoes(ClientDisconnect(c))
      PROVE  InTalk'
  BY <1>1, <1>3, <1>4, Fitted
<1>5. ASSUME Head(toC).type = "FAILURE", ClientDoes(Silent(NextAttempt(c)))
      PROVE  InTalk'
  BY <1>1, <1>2, <1>3, <1>5, TalkVerdict, Fitted
<1>6. ASSUME Head(toC).type = "SUCCESS", ClientDoes(Silent([c EXCEPT !.pc = "ask"]))
      PROVE  InTalk'
  BY <1>1, <1>3, <1>6, TalkVerdict, Fitted
<1> QED BY <1>1, <1>4, <1>5, <1>6

LEMMA TalkClientTry ==
  ASSUME IInv, InTalk, ClientTry
  PROVE  InTalk'
<1> DEFINE y == [c EXCEPT !.pc = "reply"]
<1>1. c.pc = "try" /\ toC' = toC /\ c \in Client
  BY DEF ClientTry, IInv, TypeOK
<1>2. CASE c.todo = << >>
  <2>1. ClientDoes(Silent([c EXCEPT !.pc = "dead"]))
    BY <1>2 DEF ClientTry
  <2> QED BY <1>1, <2>1, ClientGivesUp, Fitted
<1>3. CASE c.todo # << >>
  <2>1. PICK t, a : ClientDoes(Says(y, t, a)) /\ t = RequestOf(Now.kind)
    BY <1>3 DEF ClientTry, RequestOf, Now
  <2>2. ASSUME Talking
        PROVE  Fits(Says(y, t, a))
    <3>1. Calm(c, s) /\ CalmTerms(c, s) /\ Modest(cfg, c, s)
      BY <1>1, <2>2, WhatIsCalm
    <3>2. s.pc \in Refusing
      BY <1>1, <3>1 DEF Calm
    <3>3. /\ y.pc = "reply" /\ y.todo = c.todo /\ y.host = c.host /\ y.coding = c.coding
          /\ y.granted = c.granted
      BY <1>1 DEF Client
    <3> HIDE DEF y
    <3>4. Modest(cfg, y, s)
      BY <3>1, <3>3, ModestStill
    <3>5. \A m : m.type = t => Asked(y, s, m)
      BY <2>1, <3>2, <3>3 DEF Asked, Now
    <3> QED BY <3>1, <3>3, <3>4, <3>5, FitsAsking DEF CalmTerms
  <2> HIDE DEF y
  <2> QED BY <1>1, <2>1, <2>2, Fitted
<1> QED BY <1>2, <1>3

LEMMA TalkResponds ==
  ASSUME IInv, InTalk, Talking, c.pc = "reply", toC # << >>,
         Now.kind \notin Verdicts, Head(toC).type = Challenge(Now),
         NEW right \in {"right", "wrong"}
  PROVE  Fits(Says([c EXCEPT !.pc = After(Now, right)], Response(Now), right))
<1> DEFINE y == [c EXCEPT !.pc = After(Now, right)]
<1>1. Modest(cfg, c, s) /\ CalmTerms(c, s) /\ c \in Client
  BY WhatIsHeard, WhereTheServerIs
<1>2. s.pc = Challenger(Now.kind)
  <2>1. Challenge(Now) \in {"TIS_CHALLENGE", "RSA_CHALLENGE"}
    BY DEF Challenge
  <2> QED BY <2>1, WhereTheServerIs
<1>3. /\ y.pc \in {"verdict", "dummy"} /\ y.todo = c.todo /\ y.host = c.host
      /\ y.coding = c.coding /\ y.granted = c.granted
      /\ y.pc = "dummy" => Now.kind = "file" /\ right = "wrong"
  BY <1>1 DEF Client, After
<1> HIDE DEF y
<1>4. Modest(cfg, y, s)
  BY <1>1, <1>3, ModestStill
<1>5. \A m : m.type = Response(Now) /\ m.arg = right => Asked(y, s, m)
  BY <1>2, <1>3 DEF Asked, Now
<1>6. Fits(Says(y, Response(Now), right))
  BY <1>1, <1>3, <1>4, <1>5, FitsAsking DEF CalmTerms
<1> QED BY <1>6 DEF y

LEMMA TalkClientReply ==
  ASSUME IInv, InTalk, ClientReply
  PROVE  InTalk'
<1>1. c.pc = "reply" /\ toC # << >> /\ toC' = Tail(toC) /\ c.pc # "dead"
  BY DEF ClientReply, Reads
<1>2. c.todo # << >>
  BY <1>1, AttemptNow
<1>3. \/ Head(toC).type = "FAILURE" /\ ClientDoes(Silent(NextAttempt(c)))
      \/ Head(toC).type = "SUCCESS" /\ ClientDoes(Silent([c EXCEPT !.pc = "ask"]))
      \/ /\ Now.kind \notin Verdicts /\ Head(toC).type = Challenge(Now)
         /\ \E right \in {"right", "wrong"} :
              ClientDoes(Says([c EXCEPT !.pc = After(Now, right)], Response(Now), right))
      \/ ClientDoes(ClientDisconnect(c))
  <2>1. \A what : Answers(what) \subseteq {"right", "wrong"}
    BY DEF Answers
  <2> QED BY <2>1 DEF ClientReply, Now, Verdicts
<1>4. ASSUME ClientDoes(ClientDisconnect(c))
      PROVE  InTalk'
  BY <1>1, <1>4, ClientGivesUp, Fitted
<1>5. ASSUME Head(toC).type = "FAILURE", ClientDoes(Silent(NextAttempt(c)))
      PROVE  InTalk'
  BY <1>1, <1>2, <1>5, TalkVerdict, Fitted
<1>6. ASSUME Head(toC).type = "SUCCESS", ClientDoes(Silent([c EXCEPT !.pc = "ask"]))
      PROVE  InTalk'
  BY <1>1, <1>6, TalkVerdict, Fitted
<1>7. ASSUME Now.kind \notin Verdicts, Head(toC).type = Challenge(Now),
             NEW right \in {"right", "wrong"},
             ClientDoes(Says([c EXCEPT !.pc = After(Now, right)], Response(Now), right))
      PROVE  InTalk'
  BY <1>1, <1>7, TalkResponds, Fitted
<1> QED BY <1>3, <1>4, <1>5, <1>6, <1>7

LEMMA TalkClientAsk ==
  ASSUME IInv, InTalk, ClientAsk
  PROVE  InTalk'
<1> DEFINE exec == [c EXCEPT !.pc = "session"]
           wait == [c EXCEPT !.pc = "answer"]
           skip == [c EXCEPT !.ask = Tail(c.ask)]
<1>1. c.pc = "ask" /\ toC' = toC /\ c \in Client /\ c.pc # "dead"
  BY DEF ClientAsk, IInv, TypeOK
<1>2. \/ ClientDoes(Says(exec, "EXEC", "nothing"))
      \/ Wanted(Head(c.ask)) /\ ClientDoes(Says(wait, Head(c.ask), "nothing"))
      \/ ClientDoes(Silent(skip))
  BY DEF ClientAsk
<1>3. /\ exec.pc = "session" /\ exec.todo = c.todo /\ exec.host = c.host
      /\ exec.coding = c.coding /\ exec.granted = c.granted
      /\ wait.pc = "answer" /\ wait.todo = c.todo /\ wait.host = c.host
      /\ wait.coding = c.coding /\ wait.granted = c.granted /\ wait.ask = c.ask
      /\ skip.pc = "ask" /\ skip.todo = c.todo /\ skip.host = c.host
      /\ skip.coding = c.coding /\ skip.granted = c.granted
  BY <1>1 DEF Client
<1> HIDE DEF exec, wait, skip
<1>4. ASSUME Talking
      PROVE  /\ Fits(Says(exec, "EXEC", "nothing"))
             /\ Wanted(Head(c.ask)) => Fits(Says(wait, Head(c.ask), "nothing"))
             /\ Fits(Silent(skip))
  <2>1. Calm(c, s) /\ CalmTerms(c, s) /\ Modest(cfg, c, s)
    BY <1>1, <1>4, WhatIsCalm
  <2>2. s.pc \in Admitted
    BY <1>1, <2>1 DEF Calm
  <2>3. Fits(Says(exec, "EXEC", "nothing"))
    <3>1. Modest(cfg, exec, s)
      BY <1>3, <2>1, ModestStill
    <3>2. \A m : m.type = "EXEC" => Asked(exec, s, m)
      BY <1>3, <2>2 DEF Asked
    <3> QED BY <1>3, <2>1, <3>1, <3>2, FitsAsking DEF CalmTerms
  <2>4. ASSUME Wanted(Head(c.ask))
        PROVE  Fits(Says(wait, Head(c.ask), "nothing"))
    <3>1. Modest(cfg, wait, s)
      BY <1>3, <2>1, <2>4, ModestStill DEF Wanted, Wants
    <3>2. \A m : m.type = Head(c.ask) => Asked(wait, s, m)
      BY <1>3, <2>2 DEF Asked
    <3> QED BY <1>3, <2>1, <3>1, <3>2, FitsAsking DEF CalmTerms
  <2>5. Fits(Silent(skip))
    <3>1. Modest(cfg, skip, s)
      BY <1>3, <2>1, ModestStill
    <3> QED BY <1>3, <2>1, <2>2, <3>1, FitsCalm DEF Calm, CalmTerms
  <2> QED BY <2>3, <2>4, <2>5
<1>5. ASSUME ClientDoes(Says(exec, "EXEC", "nothing"))
      PROVE  InTalk'
  BY <1>1, <1>4, <1>5, Fitted
<1>6. ASSUME Wanted(Head(c.ask)), ClientDoes(Says(wait, Head(c.ask), "nothing"))
      PROVE  InTalk'
  BY <1>1, <1>4, <1>6, Fitted
<1>7. ASSUME ClientDoes(Silent(skip))
      PROVE  InTalk'
  BY <1>1, <1>4, <1>7, Fitted
<1> QED BY <1>2, <1>5, <1>6, <1>7

LEMMA TalkClientAnswer ==
  ASSUME IInv, InTalk, ClientAnswer
  PROVE  InTalk'
<1> DEFINE r == Head(c.ask)
           next == [c EXCEPT !.pc = "ask", !.ask = Tail(c.ask)]
           more(coding) == [next EXCEPT !.granted = next.granted \cup {r}, !.coding = coding]
           now == IF r = "compression" THEN "packed" ELSE c.coding
<1>1. c.pc = "answer" /\ toC # << >> /\ toC' = Tail(toC) /\ c \in Client /\ c.pc # "dead"
  BY DEF ClientAnswer, Reads, IInv, TypeOK
<1>2. /\ next.pc = "ask" /\ next.todo = c.todo /\ next.host = c.host
      /\ next.coding = c.coding /\ next.granted = c.granted
      /\ next = [i \in DOMAIN next |-> next[i]] /\ "coding" \in DOMAIN next
      /\ "granted" \in DOMAIN next
  BY <1>1 DEF Client
<1>3. \/ Head(toC).type = "SUCCESS" /\ ClientDoes(Silent(more(now)))
      \/ ClientDoes(ClientDisconnect(c))
      \/ Head(toC).type # "SUCCESS" /\ ClientDoes(Silent(next))
  <2>1. [next EXCEPT !.granted = @ \cup {r}, !.coding = IF r = "compression" THEN "packed" ELSE @]
          = more(now)
    <3> HIDE DEF r
    <3> QED BY <1>1 DEF Client
  <2> QED BY <2>1 DEF ClientAnswer
<1> HIDE DEF next
<1> DEFINE y == more(now)
<1>4. /\ y.pc = "ask" /\ y.todo = c.todo /\ y.host = c.host /\ y.coding = now
      /\ y.granted = c.granted \cup {r}
  <2> HIDE DEF r, now
  <2> QED BY <1>2
<1> HIDE DEF y, more
<1>5. ASSUME Talking, Head(toC).type = "SUCCESS"
      PROVE  Fits(Silent(y))
  <2>1. s.pc = "prep" /\ Grant(c, s) /\ Modest(cfg, c, s)
    BY <1>1, <1>5, WhereTheServerIs, WhatIsHeard
  <2>2. Modest(cfg, y, s)
    BY <1>4, <2>1, ModestStill
  <2>3. Calm(y, s) /\ CalmTerms(y, s)
    BY <1>4, <2>1 DEF Calm, CalmTerms, Grant, Admitted
  <2> QED BY <2>2, <2>3, FitsCalm
<1>6. ASSUME Talking, Head(toC).type # "SUCCESS"
      PROVE  Fits(Silent(next))
  <2>1. s.pc = "prep" /\ CalmTerms(c, s) /\ Modest(cfg, c, s)
    BY <1>1, <1>6, WhereTheServerIs, WhatIsHeard
  <2>2. Modest(cfg, next, s)
    BY <1>2, <2>1, ModestStill
  <2>3. Calm(next, s) /\ CalmTerms(next, s)
    BY <1>2, <2>1 DEF Calm, CalmTerms, Admitted
  <2> QED BY <2>2, <2>3, FitsCalm
<1> HIDE DEF r, now
<1>7. ASSUME Head(toC).type = "SUCCESS", ClientDoes(Silent(y))
      PROVE  InTalk'
  BY <1>1, <1>5, <1>7, Fitted
<1>8. ASSUME Head(toC).type # "SUCCESS", ClientDoes(Silent(next))
      PROVE  InTalk'
  BY <1>1, <1>6, <1>8, Fitted
<1>9. ASSUME ClientDoes(ClientDisconnect(c))
      PROVE  InTalk'
  BY <1>1, <1>9, ClientGivesUp, Fitted
<1> QED BY <1>3, <1>7, <1>8, <1>9 DEF y

\* The client, or the connection, ends.
LEMMA TalkOver ==
  ASSUME IInv, ClientProtocolError \/ ClientLoses \/ ClientKilled \/ ConnectionLost
  PROVE  InTalk'
<1>1. c \in Client
  BY DEF IInv, TypeOK
<1>2. c'.pc = "dead" \/ ~up'
  BY <1>1 DEF ClientProtocolError, ClientLoses, ClientKilled, ConnectionLost, ClientDoes,
     ClientDisconnect, Silent, Client
<1> QED BY <1>2, Over

LEMMA TalkClient ==
  ASSUME IInv, InTalk, ClientStep \/ ClientKilled \/ ConnectionLost
  PROVE  InTalk'
BY TalkClientIdent, TalkClientKey, TalkClientAck, TalkClientName, TalkClientTry, TalkClientReply,
   TalkClientVerdict, TalkClientAsk, TalkClientAnswer, TalkOver DEF ClientStep

LEMMA TalkBegins ==
  ASSUME Init
  PROVE  InTalk
<1>1. /\ c.pc = "ident" /\ c.coding = "none" /\ c.todo = << >> /\ c.host = "none"
      /\ c.granted = {} /\ s.pc = "start" /\ s.coding = "none" /\ s.provided = {}
      /\ toS = << >> /\ toC = << >>
  BY DEF Init
<1>2. Calm(c, s) /\ CalmTerms(c, s)
  BY <1>1 DEF Calm, CalmTerms
<1>3. Modest(cfg, c, s)
  BY <1>1 DEF Modest
<1> QED BY <1>1, <1>2, <1>3 DEF InTalk, Talk, Turns

LEMMA TalkSteps ==
  ASSUME IInv, InTalk, [Next]_vars
  PROVE  InTalk'
<1>1. CASE UNCHANGED vars
  <2>1. /\ c' = c /\ s' = s /\ toS' = toS /\ toC' = toC /\ up' = up /\ cfg' = cfg
    BY <1>1 DEF vars
  <2> QED BY <2>1 DEF InTalk, Together, TwiceRefused
<1>2. CASE Next
  BY <1>2, TalkServer, TalkClient DEF Next
<1> QED BY <1>1, <1>2

\* The dialogue is in order.
THEOREM InDialogue == Spec => []InTalk
<1>1. Init => InTalk
  BY TalkBegins
<1>2. IInv /\ InTalk /\ [Next]_vars => InTalk'
  BY TalkSteps
<1> QED BY <1>1, <1>2, Invariance, PTL DEF Spec

\* How many packets count among one, and among none.
LEMMA CountedOne ==
  ASSUME NEW m, NEW others
  PROVE  /\ Counted(<<m>>, others) = IF m.type \in others THEN 0 ELSE 1
         /\ Counted(<< >>, others) = 0
<1> DEFINE Those(q) == {i \in DOMAIN q : q[i].type \notin others}
<1>1. DOMAIN << >> = {} /\ DOMAIN <<m>> = {1} /\ <<m>>[1] = m
  <2>1. Len(<< >>) = 0 /\ Len(<<m>>) = 1 /\ <<m>>[1] = m
    OBVIOUS
  <2>2. DOMAIN << >> = 1 .. 0 /\ DOMAIN <<m>> = 1 .. 1
    OBVIOUS
  <2> QED BY <2>1, <2>2
<1>2. Those(<< >>) = {}
  BY <1>1
<1>3. Those(<<m>>) = IF m.type \in others THEN {} ELSE {1}
  BY <1>1
<1>4. Cardinality({}) = 0 /\ Cardinality({1}) = 1
  BY FS_EmptySet, FS_Singleton
<1> QED BY <1>2, <1>3, <1>4 DEF Counted

\* A packet that is the whole queue.
LEMMA OnlyOne ==
  ASSUME NEW S, NEW q \in Seq(S), Len(q) = 1
  PROVE  q = <<q[1]>>
BY DEF Seq

\* A packet on its way to the server is the one the server waits for, and counts exactly
\* if the client awaits an answer.
LEMMA AskedCounts ==
  ASSUME IInv, NEW m, Asked(c, s, m)
  PROVE  /\ m.type \in {"IDENT", "EXEC", "DISCONNECT"}
              <=> c.pc \notin {"ack", "name", "reply", "verdict", "dummy", "answer"}
         /\ s.pc \in DOMAIN Expected => m.type = Expected[s.pc]
<1>1. \A k : /\ RequestOf(k) \notin {"IDENT", "EXEC", "DISCONNECT"}
             /\ k # "tis" => Challenger(k) # "tis"
             /\ Challenger(k) \in {"hostchallenge", "challenge", "tis", "none"}
             /\ k = "tis" => Challenger(k) = "tis"
  BY DEF RequestOf, Challenger
<1>2. \A a : /\ Response(a) \in {"TIS_RESPONSE", "RSA_RESPONSE"}
             /\ a.kind # "tis" => Response(a) = "RSA_RESPONSE"
  BY DEF Response
<1>3. c.pc = "answer" => Head(c.ask) \in Requests
  BY TailOf DEF IInv, Placed, TypeOK, Client
<1>4. /\ DOMAIN Expected = {"ident", "key", "user", "challenge", "hostchallenge"}
      /\ Expected["ident"] = "IDENT" /\ Expected["key"] = "SESSION_KEY"
      /\ Expected["user"] = "USER" /\ Expected["challenge"] = "RSA_RESPONSE"
      /\ Expected["hostchallenge"] = "RSA_RESPONSE"
  BY DEF Expected
<1>5. CASE c.pc = "key" /\ s.pc = "ident" /\ m.type = "IDENT"
  BY <1>5, <1>4
<1>6. CASE c.pc = "ack" /\ s.pc = "key" /\ m.type = "SESSION_KEY"
  BY <1>6, <1>4
<1>7. CASE c.pc = "name" /\ s.pc = "user" /\ m.type = "USER"
  BY <1>7, <1>4
<1>8. CASE c.pc = "reply" /\ s.pc \in Refusing /\ m.type = RequestOf(Head(c.todo).kind)
  BY <1>8, <1>4, <1>1 DEF Refusing
<1>9. CASE /\ c.pc \in {"verdict", "dummy"} /\ s.pc = Challenger(Head(c.todo).kind)
           /\ m.type = Response(Head(c.todo))
  BY <1>9, <1>4, <1>1, <1>2
<1>10. CASE c.pc = "answer" /\ s.pc \in Admitted /\ m.type = Head(c.ask)
  BY <1>10, <1>4, <1>3 DEF Admitted, Requests
<1>11. CASE c.pc = "session" /\ s.pc \in Admitted /\ m.type = "EXEC"
  BY <1>11, <1>4 DEF Admitted
<1> QED BY <1>5, <1>6, <1>7, <1>8, <1>9, <1>10, <1>11 DEF Asked

\* A packet on its way to the client counts exactly if the client awaits an answer.
LEMMA HeardCounts ==
  ASSUME NEW m, Heard(cfg, c, s, m)
  PROVE  m.type \in {"IDENT", "PUBLIC_KEY", "DISCONNECT"}
           <=> c.pc \notin {"ack", "name", "reply", "verdict", "dummy", "answer"}
<1>1. \A a : Challenge(a) \in {"TIS_CHALLENGE", "RSA_CHALLENGE"}
  BY DEF Challenge
<1> QED BY <1>1 DEF Heard

\* A packet on its way to the client has its place there, if no key is asked for twice.
LEMMA HeardTaken ==
  ASSUME NEW m, Heard(cfg, c, s, m), ~Doubled(cfg)
  PROVE  m.type \in Takes(c.pc) /\ c.pc # "session"
<1>1. /\ Takes("ident") = {"IDENT"} /\ Takes("key") = {"PUBLIC_KEY"} /\ Takes("ack") = {"SUCCESS"}
      /\ "FAILURE" \in Takes("reply") /\ "FAILURE" \in Takes("dummy")
      /\ Head(c.todo).kind \in Verdicts => "SUCCESS" \in Takes("reply")
      /\ Head(c.todo).kind \notin Verdicts => Challenge(Head(c.todo)) \in Takes("reply")
  BY DEF Takes, Verdicts
<1>2. \A p \in {"name", "verdict", "answer"} : Takes(p) = {"SUCCESS", "FAILURE"}
  BY DEF Takes
<1> QED BY <1>1, <1>2 DEF Heard

\* The three properties of the dialogue.
LEMMA StepsCounted ==
  ASSUME IInv, InTalk
  PROVE  InStep
<1> SUFFICES ASSUME Together, ~TwiceRefused
             PROVE  Counted(toC, {"IDENT", "PUBLIC_KEY", "DISCONNECT"})
                      + Counted(toS, {"IDENT", "EXEC", "DISCONNECT"})
                    = IF c.pc \in {"ack", "name", "reply", "verdict", "dummy", "answer"}
                      THEN 1 ELSE 0
  BY DEF InStep
<1>1. toS \in Seq(Message) /\ toC \in Seq(Message)
  BY DEF IInv, TypeOK
<1>2. CASE toS = << >> /\ toC = << >> /\ Calm(c, s)
  <2>1. /\ Counted(<< >>, {"IDENT", "PUBLIC_KEY", "DISCONNECT"}) = 0
        /\ Counted(<< >>, {"IDENT", "EXEC", "DISCONNECT"}) = 0
    BY CountedOne, Zenon
  <2>2. Counted(toC, {"IDENT", "PUBLIC_KEY", "DISCONNECT"}) = 0
    BY <1>2, <2>1
  <2>3. Counted(toS, {"IDENT", "EXEC", "DISCONNECT"}) = 0
    BY <1>2, <2>1
  <2>4. c.pc \notin {"ack", "name", "reply", "verdict", "dummy", "answer"}
    BY <1>2 DEF Calm
  <2> QED BY <2>2, <2>3, <2>4
<1>3. ASSUME toC = << >>, Len(toS) = 1, Asked(c, s, toS[1])
      PROVE  /\ Counted(toC, {"IDENT", "PUBLIC_KEY", "DISCONNECT"}) = 0
             /\ Counted(toS, {"IDENT", "EXEC", "DISCONNECT"})
                  = IF c.pc \in {"ack", "name", "reply", "verdict", "dummy", "answer"}
                    THEN 1 ELSE 0
  <2>1. toS = <<toS[1]>>
    BY <1>1, <1>3, OnlyOne
  <2>2. Counted(<<toS[1]>>, {"IDENT", "EXEC", "DISCONNECT"})
          = IF toS[1].type \in {"IDENT", "EXEC", "DISCONNECT"} THEN 0 ELSE 1
    BY CountedOne, Zenon
  <2>3. Counted(<< >>, {"IDENT", "PUBLIC_KEY", "DISCONNECT"}) = 0
    BY CountedOne, Zenon
  <2>4. toS[1].type \in {"IDENT", "EXEC", "DISCONNECT"}
          <=> c.pc \notin {"ack", "name", "reply", "verdict", "dummy", "answer"}
    BY <1>3, AskedCounts, Zenon
  <2>5. Counted(toS, {"IDENT", "EXEC", "DISCONNECT"})
          = Counted(<<toS[1]>>, {"IDENT", "EXEC", "DISCONNECT"})
    BY <2>1
  <2> QED BY <1>3, <2>2, <2>3, <2>4, <2>5, Zenon
<1>4. ASSUME toS = << >>, Len(toC) = 1, Heard(cfg, c, s, toC[1])
      PROVE  /\ Counted(toS, {"IDENT", "EXEC", "DISCONNECT"}) = 0
             /\ Counted(toC, {"IDENT", "PUBLIC_KEY", "DISCONNECT"})
                  = IF c.pc \in {"ack", "name", "reply", "verdict", "dummy", "answer"}
                    THEN 1 ELSE 0
  <2>1. toC = <<toC[1]>>
    BY <1>1, <1>4, OnlyOne
  <2>2. Counted(<<toC[1]>>, {"IDENT", "PUBLIC_KEY", "DISCONNECT"})
          = IF toC[1].type \in {"IDENT", "PUBLIC_KEY", "DISCONNECT"} THEN 0 ELSE 1
    BY CountedOne, Zenon
  <2>3. Counted(<< >>, {"IDENT", "EXEC", "DISCONNECT"}) = 0
    BY CountedOne, Zenon
  <2>4. toC[1].type \in {"IDENT", "PUBLIC_KEY", "DISCONNECT"}
          <=> c.pc \notin {"ack", "name", "reply", "verdict", "dummy", "answer"}
    BY <1>4, HeardCounts, Zenon
  <2>5. Counted(toC, {"IDENT", "PUBLIC_KEY", "DISCONNECT"})
          = Counted(<<toC[1]>>, {"IDENT", "PUBLIC_KEY", "DISCONNECT"})
    BY <2>1
  <2> QED BY <1>4, <2>2, <2>3, <2>4, <2>5, Zenon
<1>5. \/ toS = << >> /\ toC = << >> /\ Calm(c, s)
      \/ toC = << >> /\ Len(toS) = 1 /\ Asked(c, s, toS[1])
      \/ toS = << >> /\ Len(toC) = 1 /\ Heard(cfg, c, s, toC[1])
  BY DEF InTalk, Talk, Turns
<1> DEFINE heard == Counted(toC, {"IDENT", "PUBLIC_KEY", "DISCONNECT"})
           asked == Counted(toS, {"IDENT", "EXEC", "DISCONNECT"})
           due == IF c.pc \in {"ack", "name", "reply", "verdict", "dummy", "answer"} THEN 1 ELSE 0
<1>6. \/ heard + asked = due
      \/ heard = 0 /\ asked = due
      \/ heard = due /\ asked = 0
  BY <1>2, <1>3, <1>4, <1>5, Zenon
<1>7. due \in Nat
  OBVIOUS
<1> HIDE DEF heard, asked, due
<1>8. heard + asked = due
  BY <1>6, <1>7
<1> QED BY <1>8 DEF heard, asked, due

LEMMA PacketsUnderstood ==
  ASSUME IInv, InTalk
  PROVE  Understood
<1> SUFFICES ASSUME Talking, ~Doubled(cfg)
             PROVE  /\ toC # << >> => /\ Head(toC).coding = c.coding
                                      /\ Head(toC).type \in Takes(c.pc) /\ c.pc # "session"
                    /\ toS # << >> => /\ Head(toS).coding = s.coding
                                      /\ s.pc \in DOMAIN Expected =>
                                           Head(toS).type = Expected[s.pc]
  BY DEF Understood, Talking, TwiceChallenged, Doubled
<1>1. ASSUME toC # << >>
      PROVE  /\ Head(toC).coding = c.coding
             /\ Head(toC).type \in Takes(c.pc) /\ c.pc # "session"
  BY <1>1, WhatIsHeard, HeardTaken DEF HeardTerms
<1>2. ASSUME toS # << >>
      PROVE  /\ Head(toS).coding = s.coding
             /\ s.pc \in DOMAIN Expected => Head(toS).type = Expected[s.pc]
  BY <1>2, WhatIsAsked, AskedCounts DEF AskedTerms
<1> QED BY <1>1, <1>2

LEMMA SessionsAgree ==
  ASSUME IInv, InTalk
  PROVE  SessionAgreed
<1> SUFFICES ASSUME Talking, c.pc = "session", s.pc = "session"
             PROVE  /\ c.granted = s.provided /\ c.granted \cap s.flags = {}
                    /\ c.coding = s.coding /\ toS = << >> /\ toC = << >>
                    /\ c.host = "changed" => s.provided \subseteq {"compression", "pty"}
  BY DEF SessionAgreed, Talking
<1>1. toS = << >> /\ toC = << >> /\ CalmTerms(c, s) /\ Modest(cfg, c, s)
  BY WhatIsCalm
<1> QED BY <1>1 DEF CalmTerms, Modest

\* Every request of the login dialogue has exactly one answer (packet_read_expect and the
\* userauth loop of sshconnect.c against do_authentication of sshd.c).
THEOREM InLockstep == Spec => []InStep
BY Invariance, InDialogue, StepsCounted, PTL

\* What an end reads is coded as it reads, and has its place there (packet_set_encryption_key
\* and packet_start_compression at both ends).
THEOREM AllUnderstood == Spec => []Understood
BY Invariance, InDialogue, PacketsUnderstood, PTL

\* Two programs in the session agree on what was granted (do_authenticated of sshd.c and
\* the requests of ssh.c and sshconnect.c).
THEOREM Agreed == Spec => []SessionAgreed
BY Invariance, InDialogue, SessionsAgree, PTL

=============================================================================
