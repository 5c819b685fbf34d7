------------------------------- MODULE MCLogin ------------------------------
(***************************************************************************)
(* The properties of Login that TLC checks, and its instances.             *)
(***************************************************************************)
EXTENDS Login

Codings == {"none", "arcfour", "idea", "packed"}
\* A key that is named, or none.
Named == Identities \cup {"nothing"}
Attempt == [kind : {"rhosts", "rhosts_rsa", "agent", "file", "tis", "password"},
            key : Named]

Client ==
  [pc : {"ident", "key", "ack", "name", "try", "reply", "verdict", "dummy", "ask", "answer",
         "session", "dead"},
   coding : Codings, host : {"none", "ok", "new", "changed"}, todo : Seq(Attempt),
   ask : Seq(Requests), granted : SUBSET Requests]

Server ==
  [pc : {"start", "ident", "key", "user", "failing", "auth", "challenge", "hostchallenge",
         "tis", "accepted", "prep", "session", "dead"},
   coding : Codings, cipher : {"none", "arcfour", "idea"}, alarm : BOOLEAN,
   attempts : 0 .. MaxAttempts, key : Named, line : Nat, by : Methods \cup {"none"},
   flags : SUBSET Restrictions, provided : SUBSET Requests,
   tty : {"none", "lost", "held", "guarded"}, agent : {"none", "named", "listening"}]

Types ==
  {"IDENT", "PUBLIC_KEY", "SESSION_KEY", "SUCCESS", "FAILURE", "USER", "AUTH_RHOSTS",
   "AUTH_RHOSTS_RSA", "AUTH_RSA", "RSA_CHALLENGE", "RSA_RESPONSE", "AUTH_TIS",
   "TIS_CHALLENGE", "TIS_RESPONSE", "AUTH_PASSWORD", "EXEC", "DISCONNECT"} \cup Requests
Args == {"nothing", "right", "wrong", "none", "arcfour", "idea"} \cup Identities
Message == [type : Types, coding : Codings, arg : Args]

\* Both ends and the packets keep their types, no more passwords
\* are looked at than may be, and the line of authorized_keys is one of the file.
TypeOK ==
  /\ cfg \in Configs
  /\ c \in Client
  /\ s \in Server /\ s.line =< Len(cfg.lines)
  /\ toS \in Seq(Message) /\ toC \in Seq(Message)
  /\ up \in BOOLEAN

-----------------------------------------------------------------------------
\* Set-ups in which the two programs are known to get out of step: a TIS server
\* that is down is reported twice, and a key in two lines of authorized_keys can
\* be asked for twice.
TwiceRefused    == "tis" \in cfg.offers \cap cfg.wants /\ cfg.tis = "down"
TwiceChallenged == \E i, j \in DOMAIN cfg.lines :
                     i # j /\ cfg.lines[i].key = cfg.lines[j].key

Together == up /\ s.pc # "dead" /\ c.pc # "dead"

\* Every request after the host key dialogue has exactly one answer: as many
\* requests and answers are under way as the client waits for.
Counted(q, others) == Cardinality({i \in DOMAIN q : q[i].type \notin others})
InStep ==
  (Together /\ ~TwiceRefused) =>
    Counted(toC, {"IDENT", "PUBLIC_KEY", "DISCONNECT"})
      + Counted(toS, {"IDENT", "EXEC", "DISCONNECT"})
    = IF c.pc \in {"ack", "name", "reply", "verdict", "dummy", "answer"} THEN 1 ELSE 0

\* What an end reads was sent with the cipher and the compression it reads
\* with, and is a packet it can take in this place.
Takes(pc) ==
  CASE pc = "ident" -> {"IDENT"} [] pc = "key" -> {"PUBLIC_KEY"} [] pc = "ack" -> {"SUCCESS"}
    [] pc = "reply" ->
         {"FAILURE"} \cup IF Head(c.todo).kind \in {"rhosts", "password"} THEN {"SUCCESS"}
                          ELSE {Challenge(Head(c.todo))}
    [] pc = "dummy" -> {"FAILURE"}
    [] OTHER -> {"SUCCESS", "FAILURE"}
Understood ==
  (Together /\ ~TwiceRefused /\ ~TwiceChallenged) =>
    /\ (toC # << >> /\ ClientReading /\ Head(toC).type # "DISCONNECT") =>
         Head(toC).coding = c.coding /\ Head(toC).type \in Takes(c.pc) /\ c.pc # "session"
    /\ (toS # << >> /\ ServerReading) =>
         /\ Head(toS).coding = s.coding
         /\ s.pc \in DOMAIN Expected => Head(toS).type = Expected[s.pc]

\* The server prepares a session only for a user who could show, by a method
\* that is enabled, that he is entitled to it, and for root only as
\* permit_root_login says.
OnlyTheEntitled ==
  s.pc \in {"accepted", "prep", "session"} =>
    /\ s.by \in cfg.offers /\ cfg.user # "unknown" /\ cfg.host = "permitted"
    /\ s.by = "password" => cfg.empty \/ ("password" \in cfg.knows /\ cfg.cipher # "none")
    /\ s.by = "tis" => "tis" \in cfg.knows
    /\ s.by = "rsa" => \E i \in DOMAIN cfg.lines :
                         cfg.lines[i].key \in cfg.knows /\ ~cfg.lines[i].refuses
    /\ s.by \in {"rhosts", "rhosts_rsa"} => cfg.port
    /\ s.by = "rhosts_rsa" => "hostkey" \in cfg.knows /\ cfg.cipher = "idea"
    /\ (cfg.user = "root" /\ cfg.root # 2) =>
         IF cfg.root = 1 THEN s.by # "password" ELSE "command" \in s.flags

\* The restrictions of the session are those of the line that let the user in,
\* when no line is refused after it has set some.
LineRestricts ==
  (/\ s.pc \in {"accepted", "prep", "session"}
   /\ \A i \in DOMAIN cfg.lines : cfg.lines[i].refuses => cfg.lines[i].sets = {}) =>
    s.flags = IF s.by = "rsa" THEN cfg.lines[s.line].sets ELSE {}

\* When both have reached the session they agree on what was granted, and
\* nothing was that the line forbids.
SessionAgreed ==
  (Together /\ ~TwiceRefused /\ c.pc = "session" /\ s.pc = "session") =>
    /\ c.granted = s.provided /\ c.granted \cap s.flags = {}
    /\ c.coding = s.coding /\ toS = << >> /\ toC = << >>
    /\ c.host = "changed" => s.provided \subseteq {"compression", "pty"}

\* A child that has ended leaves no agent socket and no terminal of a session
\* that had begun, however it ended, unless QuietMode is set.
NothingLeft ==
  (s.pc = "dead" /\ ~cfg.quiet) => s.agent = "none" /\ s.tty # "guarded"

-----------------------------------------------------------------------------
\* A client that does not come to the session is got rid of: also in the loop
\* that refuses everything.
GraceBounds ==
  (s.pc = "ident" /\ cfg.timed) ~> (s.pc \in {"prep", "session", "dead"})

\* The client does not wait for the server for ever.
ClientSettles == []<>(Prompting \/ c.pc \in {"session", "dead"})

-----------------------------------------------------------------------------
(* Instances.                                                              *)

Line(key, sets, refuses) == [key |-> key, sets |-> sets, refuses |-> refuses]

Base ==
  [host |-> "permitted", user |-> "user", root |-> 2, offers |-> {"password"},
   wants |-> Methods, port |-> TRUE, cipher |-> "idea", strict |-> 0, batch |-> FALSE,
   agent |-> << >>, files |-> << >>, lines |-> << >>, readable |-> TRUE, knows |-> {"password"},
   empty |-> FALSE, tis |-> "unknown", prompts |-> 1, requests |-> << >>,
   timed |-> TRUE, quiet |-> FALSE]
Rsa == [Base EXCEPT !.offers = {"rsa", "password"}, !.knows = {"k1", "password"},
          !.agent = <<"k1">>, !.files = <<"k2">>,
          !.lines = <<Line("k2", {}, FALSE), Line("k1", {}, FALSE)>>]
Everything == <<"compression", "pty", "x11", "agent", "forward">>

\* Passwords up to the limit and beyond, the authentication server, .rhosts.
Passwords ==
  {[Base EXCEPT !.prompts = n, !.cipher = x] : n \in {0, 2, 3}, x \in {"none", "idea"}}
  \cup {[Base EXCEPT !.user = "unknown", !.prompts = 2],
        [Base EXCEPT !.empty = TRUE, !.cipher = "none"], [Base EXCEPT !.host = "denied"],
        [Base EXCEPT !.host = "silent"], [Base EXCEPT !.batch = TRUE, !.strict = 2],
        [Base EXCEPT !.strict = 1, !.timed = FALSE]}
  \cup {[Base EXCEPT !.offers = {"tis", "password"}, !.tis = t, !.knows = {"tis", "password"},
           !.prompts = 2, !.requests = q] :
          t \in {"down", "unknown", "asks"}, q \in {<<"compression", "pty">>, <<"pty">>}}
  \cup {[Base EXCEPT !.offers = {"rhosts", "rhosts_rsa"}, !.knows = {"hostkey"}, !.port = p,
           !.cipher = x] : p \in BOOLEAN, x \in {"arcfour", "idea"}}

\* Keys, with and without options, and root.
Keys ==
  {Rsa, [Rsa EXCEPT !.readable = FALSE], [Rsa EXCEPT !.knows = {"k1", "k2"}]}
  \cup {[Rsa EXCEPT !.lines = <<Line("k1", sets, refuses), Line(k, {"pty"}, FALSE)>>,
           !.user = u, !.root = r, !.requests = <<"pty">>] :
          sets \in {{}, {"command"}}, refuses \in BOOLEAN, k \in {"k1", "k2"},
          u \in {"root", "user"}, r \in 0 .. 2}

\* What is asked for before the session.
Preparations ==
  {[Base EXCEPT !.requests = q, !.quiet = quiet] :
     q \in {Everything, <<"x11", "compression", "agent">>}, quiet \in BOOLEAN}
  \cup {[Rsa EXCEPT !.lines = <<Line("k1", {"pty", "x11", "agent", "forward"}, FALSE)>>,
           !.requests = Everything]}

AllLogins == Passwords \cup Keys \cup Preparations
=============================================================================
