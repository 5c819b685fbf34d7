-------------------------------- MODULE Login -------------------------------
(***************************************************************************)
(* One connection from its acceptance to the session: the client (main of  *)
(* ssh.c, ssh_login of sshconnect.c) against the child sshd forks for it   *)
(* (main, do_connection, do_authentication and do_authenticated of sshd.c, *)
(* auth_rsa of auth-rsa.c).  Every packet carries the cipher and           *)
(* compression it was sent with.  The files and programs the checks read,  *)
(* and what the user knows, are fields of cfg or an outcome chosen where   *)
(* the code asks.  Kerberos and packet_send_debug are left out.            *)
(***************************************************************************)
EXTENDS Naturals, Sequences, FiniteSets

CONSTANTS
  Identities,   \* the users' RSA keys
  Configs,      \* how the two programs, the account and the user are set up
  MaxAttempts   \* 5 in the code: passwords the server looks at

Methods  == {"rhosts", "rhosts_rsa", "rsa", "tis", "password"}
Requests == {"compression", "pty", "x11", "agent", "forward"}
\* What a line of authorized_keys can forbid or, for "command", impose.
Restrictions == {"pty", "x11", "agent", "forward", "command"}

Config ==
  [host : {"permitted", "denied", "silent"},   \* DenyHosts, SilentDeny
   user : {"root", "user", "unknown"},         \* "unknown": no such account, or not permitted
   root : 0 .. 2,                \* permit_root_login: no, nopwd, yes
   offers : SUBSET Methods,      \* methods enabled in the server
   wants : SUBSET Methods,       \* methods enabled in the client
   port : BOOLEAN,               \* the connection is from a privileged port
   cipher : {"none", "arcfour", "idea"},
   strict : 0 .. 2, batch : BOOLEAN,           \* StrictHostKeyChecking, BatchMode
   agent : Seq(Identities), files : Seq(Identities),   \* the user's: the agent's, in files
   lines : Seq([key : Identities, sets : SUBSET Restrictions, refuses : BOOLEAN]),
   readable : BOOLEAN,           \* authorized_keys passes the checks of auth_rsa
   knows : SUBSET (Identities \cup {"password", "tis", "hostkey"}),
   empty : BOOLEAN,              \* the account has an empty password
   tis : {"down", "unknown", "asks"},          \* the authentication server's answer
   prompts : Nat,                \* number_of_password_prompts
   requests : Seq(Requests),     \* what the client asks for, in its order
   timed : BOOLEAN,              \* login_grace_time is set and sshd is not debugging
   quiet : BOOLEAN]              \* QuietMode of the server

ASSUME LoginAssumption ==
  /\ MaxAttempts \in Nat
  /\ Configs \subseteq Config

VARIABLES
  cfg,   \* the set-up, chosen at the start
  c,     \* the client
  s,     \* the server's child
  toS,   \* packets on their way to the server
  toC,   \* packets on their way to the client
  up     \* the connection is intact

vars == <<cfg, c, s, toS, toC, up>>

Init ==
  /\ cfg \in Configs
  /\ c = [pc |-> "ident", coding |-> "none", host |-> "none", todo |-> << >>,
          ask |-> << >>, granted |-> {}]
  /\ s = [pc |-> "start", coding |-> "none", cipher |-> "none", alarm |-> FALSE,
          attempts |-> 0, key |-> "nothing", line |-> 0, by |-> "none", flags |-> {},
          provided |-> {}, tty |-> "none", agent |-> "none"]
  /\ toS = << >> /\ toC = << >> /\ up = TRUE

-----------------------------------------------------------------------------
(* A step leaves its process in some state and sends packets: an outcome.  *)

\* What a packet carries: "nothing" where its type says all.
Packet(me, type, arg) == [type |-> type, arg |-> arg, coding |-> me.coding]
Says(me, type, arg)   == [me |-> me, out |-> <<Packet(me, type, arg)>>]
Silent(me)            == [me |-> me, out |-> << >>]

\* packet_read: the head of the queue, for a process waiting at pc.
Reads(me, queue, pc) == me.pc = pc /\ queue # << >> /\ Head(queue).coding = me.coding

\* What is sent after the connection was lost goes nowhere.
Sent(queue, out) == IF up THEN queue \o out ELSE queue
ClientDoes(o) == c' = o.me /\ toS' = Sent(toS, o.out) /\ UNCHANGED <<cfg, s, up>>
ServerDoes(o) == s' = o.me /\ toC' = Sent(toC, o.out) /\ UNCHANGED <<cfg, c, up>>

\* Mutant: pty_cleanup_proc is not registered.
DeadKeepsTerminal(me) ==
  [me EXCEPT !.pc = "dead", !.alarm = FALSE, !.agent = "none"]

\* fatal: unless quiet, the clean-ups, which remove the agent socket and
\* release a terminal once pty_cleanup_proc is registered.
Dead(me) ==
  IF cfg.quiet THEN [me EXCEPT !.pc = "dead", !.alarm = FALSE]
  ELSE [me EXCEPT !.pc = "dead", !.alarm = FALSE, !.agent = "none",
                  !.tty = IF @ = "guarded" THEN "none" ELSE @]

\* packet_disconnect: also channel_stop_listening.
Disconnect(me) ==
  [me  |-> Dead([me EXCEPT !.agent = IF @ = "listening" THEN "none" ELSE @]),
   out |-> <<Packet(me, "DISCONNECT", "nothing")>>]
ClientDisconnect(me) ==
  [me |-> [me EXCEPT !.pc = "dead"], out |-> <<Packet(me, "DISCONNECT", "nothing")>>]

-----------------------------------------------------------------------------
(* The server up to authentication.                                        *)

\* Mutant: the alarm is not set.
ServerStartUntimed ==
  /\ s.pc = "start"
  /\ ServerDoes(IF cfg.host = "silent" THEN Silent([s EXCEPT !.pc = "dead"])
                ELSE Says([s EXCEPT !.pc = "ident"], "IDENT", "nothing"))
  /\ UNCHANGED toS

\* main: hosts that are refused, the grace alarm, the version.
ServerStart ==
  /\ s.pc = "start"
  /\ ServerDoes(IF cfg.host = "silent" THEN Silent([s EXCEPT !.pc = "dead"])
                ELSE Says([s EXCEPT !.pc = "ident", !.alarm = cfg.timed], "IDENT", "nothing"))
  /\ UNCHANGED toS

ServerIdent ==
  /\ Reads(s, toS, "ident") /\ Head(toS).type = "IDENT"
  /\ ServerDoes(IF cfg.host = "denied" THEN Disconnect(s)
                ELSE Says([s EXCEPT !.pc = "key"], "PUBLIC_KEY", "nothing"))
  /\ toS' = Tail(toS)

\* do_connection: the acknowledgement is the first encrypted packet.
ServerSessionKey ==
  /\ Reads(s, toS, "key") /\ Head(toS).type = "SESSION_KEY"
  /\ LET cipher == Head(toS).arg
     IN  ServerDoes(Says([s EXCEPT !.pc = "user", !.coding = cipher, !.cipher = cipher],
                         "SUCCESS", "nothing"))
  /\ toS' = Tail(toS)

-----------------------------------------------------------------------------
(* do_authentication.                                                      *)

Fails(me)    == Says([me EXCEPT !.pc = "auth"], "FAILURE", "nothing")

\* The checks on root logins after the loop, then the success message.
RootRefused(me) ==
  /\ cfg.user = "root"
  /\ \/ cfg.root = 1 /\ me.by = "password"
     \/ cfg.root = 0 /\ "command" \notin me.flags
Accepts(me, by) ==
  LET in == [me EXCEPT !.pc = "accepted", !.by = by]
  IN  IF RootRefused(in) THEN Disconnect(in) ELSE Says(in, "SUCCESS", "nothing")

ServerUser ==
  /\ Reads(s, toS, "user") /\ Head(toS).type = "USER"
  /\ ServerDoes(
       CASE cfg.user = "unknown" -> Says([s EXCEPT !.pc = "failing"], "FAILURE", "nothing")
         [] cfg.user # "unknown" /\ cfg.empty /\ "password" \in cfg.offers
              -> Accepts(s, "password")
         [] OTHER -> Fails(s))
  /\ toS' = Tail(toS)

\* do_authentication_fail_loop
ServerFailLoop ==
  /\ Reads(s, toS, "failing") /\ Head(toS).type # "DISCONNECT"
  /\ ServerDoes(Says(s, "FAILURE", "nothing"))
  /\ toS' = Tail(toS)

\* auth_rsa: the next line of authorized_keys with the client's key.
Matching(key, after) ==
  {i \in (after + 1) .. Len(cfg.lines) : cfg.lines[i].key = key}
Scan(me, key, after) ==
  LET found == Matching(key, after)
  IN  IF found = {} THEN Fails(me)
      ELSE Says([me EXCEPT !.pc = "challenge", !.key = key,
                           !.line = CHOOSE i \in found : \A j \in found : i =< j],
                "RSA_CHALLENGE", "nothing")

\* Mutant: no answer when the port is not privileged.
AuthRhostsSilent(m) ==
  /\ m.type = "AUTH_RHOSTS"
  /\ \E listed \in BOOLEAN :
       ServerDoes(CASE "rhosts" \in cfg.offers /\ cfg.port /\ listed -> Accepts(s, "rhosts")
                    [] ~cfg.port -> Silent(s)
                    [] OTHER -> Fails(s))

\* The checks of .rhosts and the host's name end one way or the other.
AuthRhosts(m) ==
  /\ m.type = "AUTH_RHOSTS"
  /\ \E listed \in BOOLEAN :
       ServerDoes(IF "rhosts" \in cfg.offers /\ cfg.port /\ listed
                  THEN Accepts(s, "rhosts") ELSE Fails(s))

AuthRhostsRsa(m) ==
  /\ m.type = "AUTH_RHOSTS_RSA"
  /\ \E listed \in BOOLEAN :
       ServerDoes(
         IF /\ "rhosts_rsa" \in cfg.offers /\ cfg.port
            /\ s.cipher \notin {"none", "arcfour"} /\ listed
         THEN Says([s EXCEPT !.pc = "hostchallenge"], "RSA_CHALLENGE", "nothing")
         ELSE Fails(s))

AuthRsa(m) ==
  /\ m.type = "AUTH_RSA"
  /\ ServerDoes(IF "rsa" \in cfg.offers /\ cfg.readable
                THEN Scan(s, m.arg, 0) ELSE Fails(s))

\* A TIS server that does not answer is told to the client twice.
AuthTis(m) ==
  /\ m.type = "AUTH_TIS"
  /\ ServerDoes(
       CASE "tis" \notin cfg.offers \/ cfg.tis = "unknown" -> Fails(s)
         [] "tis" \in cfg.offers /\ cfg.tis = "down" ->
              [Fails(s) EXCEPT !.out = @ \o @]
         [] "tis" \in cfg.offers /\ cfg.tis = "asks" ->
              Says([s EXCEPT !.pc = "tis"], "TIS_CHALLENGE", "nothing"))

\* Mutants: the limit is off by one; a wrong password is not answered.
AuthPasswordOneMore(m) ==
  /\ m.type = "AUTH_PASSWORD"
  /\ ServerDoes(
       CASE "password" \notin cfg.offers \/ s.cipher = "none" -> Fails(s)
         [] OTHER ->
              IF s.attempts > MaxAttempts THEN Disconnect(s)
              ELSE LET counted == [s EXCEPT !.attempts = @ + 1]
                   IN  IF m.arg = "right" THEN Accepts(counted, "password") ELSE Fails(counted))
AuthPasswordSilent(m) ==
  /\ m.type = "AUTH_PASSWORD"
  /\ ServerDoes(IF m.arg = "right" THEN Accepts(s, "password") ELSE Silent(s))

AuthPassword(m) ==
  /\ m.type = "AUTH_PASSWORD"
  /\ ServerDoes(
       CASE "password" \notin cfg.offers \/ s.cipher = "none" -> Fails(s)
         [] OTHER ->
              IF s.attempts >= MaxAttempts THEN Disconnect(s)
              ELSE LET counted == [s EXCEPT !.attempts = @ + 1]
                   IN  IF m.arg = "right" THEN Accepts(counted, "password") ELSE Fails(counted))

\* One request in the loop; a type it does not know is answered by a failure.
Known == {"AUTH_RHOSTS", "AUTH_RHOSTS_RSA", "AUTH_RSA", "AUTH_TIS", "AUTH_PASSWORD"}
AuthUnknown(m) ==
  /\ m.type \notin Known \cup {"DISCONNECT"}
  /\ ServerDoes(Fails(s))

ServerAuth ==
  /\ Reads(s, toS, "auth")
  /\ LET m == Head(toS)
     IN  \/ AuthRhosts(m)
         \/ AuthRhostsRsa(m)
         \/ AuthRsa(m)
         \/ AuthTis(m)
         \/ AuthPassword(m)
         \/ AuthUnknown(m)
  /\ toS' = Tail(toS)

\* Mutants: a refused line lets the user in; options are set before the answer
\* was looked at.
ServerChallengeLenient ==
  /\ Reads(s, toS, "challenge") /\ Head(toS).type = "RSA_RESPONSE"
  /\ LET set == [s EXCEPT !.flags = @ \cup cfg.lines[s.line].sets]
     IN  ServerDoes(IF Head(toS).arg = "wrong" THEN Scan(s, s.key, s.line)
                    ELSE Accepts(set, "rsa"))
  /\ toS' = Tail(toS)
ServerChallengeEager ==
  /\ Reads(s, toS, "challenge") /\ Head(toS).type = "RSA_RESPONSE"
  /\ LET line == cfg.lines[s.line]
         set  == [s EXCEPT !.flags = @ \cup line.sets]
     IN  ServerDoes(IF Head(toS).arg = "wrong" \/ line.refuses THEN Scan(set, s.key, s.line)
                    ELSE Accepts(set, "rsa"))
  /\ toS' = Tail(toS)

\* auth_rsa after the answer: the options are processed in their order, up to
\* one that refuses; those before it have been set.  A wrong answer, or a line
\* that refuses, makes the search go on.
ServerChallenge ==
  /\ Reads(s, toS, "challenge") /\ Head(toS).type = "RSA_RESPONSE"
  /\ LET line == cfg.lines[s.line]
         set  == [s EXCEPT !.flags = @ \cup line.sets]
     IN  ServerDoes(CASE Head(toS).arg = "wrong" -> Scan(s, s.key, s.line)
                      [] Head(toS).arg = "right" /\ line.refuses -> Scan(set, s.key, s.line)
                      [] Head(toS).arg = "right" /\ ~line.refuses -> Accepts(set, "rsa"))
  /\ toS' = Tail(toS)

\* auth_rhosts_rsa after the answer.
ServerHostChallenge ==
  /\ Reads(s, toS, "hostchallenge") /\ Head(toS).type = "RSA_RESPONSE"
  /\ ServerDoes(IF Head(toS).arg = "right" THEN Accepts(s, "rhosts_rsa") ELSE Fails(s))
  /\ toS' = Tail(toS)

ServerTis ==
  /\ Reads(s, toS, "tis") /\ Head(toS).type # "DISCONNECT"
  /\ ServerDoes(IF Head(toS).type = "TIS_RESPONSE" /\ Head(toS).arg = "right"
                THEN Accepts(s, "tis") ELSE Fails(s))
  /\ toS' = Tail(toS)

-----------------------------------------------------------------------------
(* do_authenticated: the preparation of the session.                       *)

BeginPreparation ==
  /\ s.pc = "accepted"
  /\ ServerDoes(Silent([s EXCEPT !.pc = "prep", !.alarm = FALSE]))
  /\ UNCHANGED toS

Grants(me, r) == Says([me EXCEPT !.provided = @ \cup {r}], "SUCCESS", "nothing")
Refuses(me)   == Says(me, "FAILURE", "nothing")

\* Mutant: the answer is compressed already.
PrepCompressionEarly(m) ==
  /\ m.type = "compression"
  /\ ServerDoes(Grants([s EXCEPT !.coding = "packed"], m.type))

\* Compression starts after the answer.
PrepCompression(m) ==
  /\ m.type = "compression"
  /\ ServerDoes([Grants(s, m.type) EXCEPT !.me.coding = "packed"])

\* A terminal that was allocated but could not be given to the user is not
\* given back.
PrepPty(m) ==
  /\ m.type = "pty"
  /\ \/ /\ "pty" \in s.flags
        /\ ServerDoes(Refuses(s))
     \/ /\ "pty" \notin s.flags
        /\ \/ ServerDoes(Grants([s EXCEPT !.tty = "held"], m.type))
           \/ ServerDoes(Refuses(s))
           \/ ServerDoes(Refuses([s EXCEPT !.tty = "lost"]))

PrepX11(m) ==
  /\ m.type = "x11"
  /\ \/ ServerDoes(Refuses(s))
     \/ /\ "x11" \notin s.flags
        /\ ServerDoes(Grants(s, m.type))

\* auth_input_request_forwarding sets the socket's name before the checks.
PrepAgent(m) ==
  /\ m.type = "agent"
  /\ \/ /\ "agent" \in s.flags
        /\ ServerDoes(Refuses(s))
     \/ /\ "agent" \notin s.flags
        /\ \/ ServerDoes(Grants([s EXCEPT !.agent = "listening"], m.type))
           \/ ServerDoes(Refuses([s EXCEPT !.agent = "named"]))
           \/ ServerDoes(Disconnect([s EXCEPT !.agent = "named"]))

\* Forwarding may be disabled; a port that cannot be had ends the connection.
PrepForward(m) ==
  /\ m.type = "forward"
  /\ \/ ServerDoes(Refuses(s))
     \/ /\ "forward" \notin s.flags
        /\ \/ ServerDoes(Grants(s, m.type))
           \/ ServerDoes(Disconnect(s))

\* EXEC_SHELL and EXEC_CMD have no answer.  Before do_exec_pty registers
\* pty_cleanup_proc, fork or dup may fail.
PrepExec(m) ==
  /\ m.type = "EXEC"
  /\ \/ ServerDoes(Silent([s EXCEPT !.pc = "session",
                                    !.tty = IF @ = "held" THEN "guarded" ELSE @]))
     \/ ServerDoes(Disconnect(s))

PrepUnknown(m) ==
  /\ m.type \notin Requests \cup {"EXEC", "DISCONNECT"}
  /\ ServerDoes(Refuses(s))

ServerPrep ==
  /\ Reads(s, toS, "prep")
  /\ LET m == Head(toS)
     IN  \/ PrepCompression(m)
         \/ PrepPty(m)
         \/ PrepX11(m)
         \/ PrepAgent(m)
         \/ PrepForward(m)
         \/ PrepExec(m)
         \/ PrepUnknown(m)
  /\ toS' = Tail(toS)

\* server_loop has returned: main removes the agent socket, and the terminal
\* was released.
SessionOver ==
  /\ s.pc = "session"
  /\ ServerDoes(Silent([s EXCEPT !.pc = "dead", !.agent = "none",
                                 !.tty = IF @ = "guarded" THEN "none" ELSE @]))
  /\ UNCHANGED toS

-----------------------------------------------------------------------------
(* What can end the server's child at any time.                            *)

ServerReading == s.pc \notin {"start", "accepted", "dead"}

\* grace_alarm_handler; packet_close sends nothing.
GraceAlarm ==
  /\ s.alarm /\ s.pc # "dead"
  /\ ServerDoes(Silent(Dead(s)))
  /\ UNCHANGED toS

\* A packet that does not decode, or that packet_read_expect did not expect.
Expected == [pc \in {"ident", "key", "user", "challenge", "hostchallenge"} |->
               CASE pc = "ident" -> "IDENT" [] pc = "key" -> "SESSION_KEY"
                 [] pc = "user" -> "USER"
                 [] OTHER -> "RSA_RESPONSE"]
ServerProtocolError ==
  /\ ServerReading /\ toS # << >>
  /\ \/ Head(toS).coding # s.coding
     \/ s.pc \in DOMAIN Expected /\ Head(toS).type \notin {Expected[s.pc], "DISCONNECT"}
  /\ ServerDoes(Disconnect(s))
  /\ toS' = Tail(toS)

\* A DISCONNECT of the client, or the end of the connection.
ServerLoses ==
  /\ ServerReading
  /\ \/ toS # << >> /\ Head(toS).type = "DISCONNECT" /\ Head(toS).coding = s.coding
     \/ toS = << >> /\ (c.pc = "dead" \/ ~up)
  /\ ServerDoes(Silent(Dead(s)))
  /\ toS' = << >>

ServerStep ==
  \/ ServerStart \/ ServerIdent \/ ServerSessionKey \/ ServerUser \/ ServerFailLoop
  \/ ServerAuth \/ ServerChallenge \/ ServerHostChallenge \/ ServerTis
  \/ BeginPreparation \/ ServerPrep \/ ServerProtocolError \/ ServerLoses

-----------------------------------------------------------------------------
(* The client: ssh_login.                                                  *)

ClientIdent ==
  /\ Reads(c, toC, "ident") /\ Head(toC).type = "IDENT"
  /\ ClientDoes(Says([c EXCEPT !.pc = "key"], "IDENT", "nothing"))
  /\ toC' = Tail(toC)

\* What the client will try, in the order of ssh_login; PUBLIC_KEY says what the
\* server offers.
Attempts ==
  LET try(method, seq) == IF method \in cfg.wants \cap cfg.offers THEN seq ELSE << >>
      one(kind) == <<[kind |-> kind, key |-> "nothing"]>>
      each(kind, keys) == [i \in DOMAIN keys |-> [kind |-> kind, key |-> keys[i]]]
      asked(n) == IF cfg.batch THEN 0 ELSE n
  IN  try("rhosts", one("rhosts"))
      \o try("rhosts_rsa", IF "hostkey" \in cfg.knows THEN one("rhosts_rsa") ELSE << >>)
      \o try("rsa", each("agent", cfg.agent) \o each("file", cfg.files))
      \o try("tis", IF cfg.batch THEN << >> ELSE one("tis"))
      \o try("password", [i \in 1 .. asked(cfg.prompts) |->
                            [kind |-> "password", key |-> "nothing"]])

\* The host key is looked up; a new or a changed one may need the user's yes.
ClientKey ==
  /\ Reads(c, toC, "key") /\ Head(toC).type = "PUBLIC_KEY"
  /\ \E host \in {"ok", "new", "changed"}, yes \in BOOLEAN :
       LET refused == /\ host # "ok"
                      /\ \/ cfg.strict = 1
                         \/ cfg.strict = 2 /\ (cfg.batch \/ ~yes)
           sent == Says([c EXCEPT !.pc = "ack", !.host = host, !.ask = cfg.requests,
                                  !.todo = Attempts],
                        "SESSION_KEY", cfg.cipher)
       IN  ClientDoes(IF refused THEN Silent([c EXCEPT !.pc = "dead"])
                      ELSE [sent EXCEPT !.me.coding = cfg.cipher])
  /\ toC' = Tail(toC)

ClientAck ==
  /\ Reads(c, toC, "ack") /\ Head(toC).type = "SUCCESS"
  /\ ClientDoes(Says([c EXCEPT !.pc = "name"], "USER", "nothing"))
  /\ toC' = Tail(toC)

ClientName ==
  /\ Reads(c, toC, "name") /\ Head(toC).type \in {"SUCCESS", "FAILURE"}
  /\ ClientDoes(Silent([c EXCEPT !.pc = IF Head(toC).type = "SUCCESS" THEN "ask" ELSE "try"]))
  /\ toC' = Tail(toC)

\* The user may answer wrong, and right if he knows the answer.
Answers(what) == {"wrong"} \cup IF what \in cfg.knows THEN {"right"} ELSE {}

\* The next attempt, or "Permission denied.".
ClientTry ==
  /\ c.pc = "try"
  /\ LET a == Head(c.todo)
         sends(type, arg) == ClientDoes(Says([c EXCEPT !.pc = "reply"], type, arg))
     IN  \/ /\ c.todo = << >>
            /\ ClientDoes(Silent([c EXCEPT !.pc = "dead"]))
         \/ /\ c.todo # << >>
            /\ \/ a.kind = "rhosts"          /\ sends("AUTH_RHOSTS", "nothing")
               \/ a.kind = "rhosts_rsa"      /\ sends("AUTH_RHOSTS_RSA", "nothing")
               \/ a.kind \in {"agent", "file"} /\ sends("AUTH_RSA", a.key)
               \/ a.kind = "tis"             /\ sends("AUTH_TIS", "nothing")
               \/ /\ a.kind = "password"
                  /\ \E right \in Answers("password") : sends("AUTH_PASSWORD", right)
  /\ UNCHANGED toC

NextAttempt(me) == [me EXCEPT !.pc = "try", !.todo = Tail(@)]
Challenge(a) == IF a.kind = "tis" THEN "TIS_CHALLENGE" ELSE "RSA_CHALLENGE"
Secret(a) == CASE a.kind = "tis" -> "tis" [] a.kind = "rhosts_rsa" -> "hostkey"
               [] OTHER -> a.key
Response(a) == IF a.kind = "tis" THEN "TIS_RESPONSE" ELSE "RSA_RESPONSE"
\* Without its pass phrase an identity file gets a dummy answer.
After(a, right) == IF a.kind = "file" /\ right = "wrong" THEN "dummy" ELSE "verdict"

\* The reply to the attempt: for rhosts and passwords the verdict, for the
\* others a challenge or a refusal.
ClientReply ==
  /\ Reads(c, toC, "reply") /\ Head(toC).type # "DISCONNECT"
  /\ LET a == Head(c.todo)
         t == Head(toC).type
         verdict == a.kind \in {"rhosts", "password"}
     IN  \/ t = "FAILURE" /\ ClientDoes(Silent(NextAttempt(c)))
         \/ t = "SUCCESS" /\ verdict /\ ClientDoes(Silent([c EXCEPT !.pc = "ask"]))
         \/ /\ ~verdict /\ t = Challenge(a)
            /\ \E right \in Answers(Secret(a)) :
                 ClientDoes(Says([c EXCEPT !.pc = After(a, right)], Response(a), right))
         \/ /\ t \notin {"FAILURE"} \cup IF verdict THEN {"SUCCESS"} ELSE {Challenge(a)}
            /\ ClientDoes(ClientDisconnect(c))
  /\ toC' = Tail(toC)

\* The verdict after an answer; after a dummy answer only a failure will do.
ClientVerdict ==
  /\ Reads(c, toC, "verdict") \/ Reads(c, toC, "dummy")
  /\ Head(toC).type # "DISCONNECT"
  /\ LET t == Head(toC).type
     IN  ClientDoes(
           CASE t = "FAILURE" -> Silent(NextAttempt(c))
             [] t = "SUCCESS" /\ c.pc = "verdict" -> Silent([c EXCEPT !.pc = "ask"])
             [] OTHER -> ClientDisconnect(c))
  /\ toC' = Tail(toC)

-----------------------------------------------------------------------------
(* The client: the requests of main in ssh.c.                              *)

\* Mutant: the forwardings are asked for all the same.
WantedAlways(r) == TRUE

\* With a changed host key the client asks for no forwarding.
Wanted(r) == c.host = "changed" => r \in {"compression", "pty"}

ClientAsk ==
  /\ c.pc = "ask"
  /\ ClientDoes(
       CASE c.ask = << >> -> Says([c EXCEPT !.pc = "session"], "EXEC", "nothing")
         [] c.ask # << >> /\ Wanted(Head(c.ask)) ->
              Says([c EXCEPT !.pc = "answer"], Head(c.ask), "nothing")
         [] OTHER -> Silent([c EXCEPT !.ask = Tail(@)]))
  /\ UNCHANGED toC

\* Anything but a success is a refusal; a forwarding wants a proper one.
ClientAnswer ==
  /\ Reads(c, toC, "answer") /\ Head(toC).type # "DISCONNECT"
  /\ LET r == Head(c.ask)
         t == Head(toC).type
         next == [c EXCEPT !.pc = "ask", !.ask = Tail(@)]
     IN  ClientDoes(
           CASE t = "SUCCESS" ->
                  Silent([next EXCEPT !.granted = @ \cup {r},
                                      !.coding = IF r = "compression" THEN "packed" ELSE @])
             [] t # "SUCCESS" /\ r = "forward" /\ t # "FAILURE" -> ClientDisconnect(c)
             [] OTHER -> Silent(next))
  /\ toC' = Tail(toC)

-----------------------------------------------------------------------------
(* What can end the client, and the connection.                            *)

ClientReading == c.pc \notin {"try", "ask", "dead"}

\* Packets that do not decode, that packet_read_expect did not expect, or that
\* have no place in a session.
ClientProtocolError ==
  /\ ClientReading /\ toC # << >>
  /\ \/ Head(toC).coding # c.coding
     \/ c.pc = "session" /\ Head(toC).type # "DISCONNECT"
  /\ ClientDoes(ClientDisconnect(c))
  /\ toC' = Tail(toC)

ClientLoses ==
  /\ ClientReading
  /\ \/ toC # << >> /\ Head(toC).type = "DISCONNECT" /\ Head(toC).coding = c.coding
     \/ toC = << >> /\ (s.pc = "dead" \/ ~up)
  /\ ClientDoes(Silent([c EXCEPT !.pc = "dead"]))
  /\ toC' = << >>

\* The user gives up.
ClientKilled ==
  /\ c.pc # "dead"
  /\ ClientDoes(Silent([c EXCEPT !.pc = "dead"]))
  /\ UNCHANGED toC

ConnectionLost ==
  /\ up /\ up' = FALSE /\ toS' = << >> /\ toC' = << >>
  /\ UNCHANGED <<cfg, c, s>>

ClientStep ==
  \/ ClientIdent \/ ClientKey \/ ClientAck \/ ClientName \/ ClientTry \/ ClientReply
  \/ ClientVerdict \/ ClientAsk \/ ClientAnswer \/ ClientProtocolError \/ ClientLoses

Next ==
  \/ ClientStep \/ ServerStep \/ SessionOver \/ GraceAlarm \/ ClientKilled
  \/ ConnectionLost

Spec == Init /\ [][Next]_vars

\* The client's next step waits for the user: the question about the host
\* key, a password or a pass phrase.
Prompting ==
  \/ c.pc = "key" /\ cfg.strict = 2
  \/ c.pc = "try" /\ c.todo # << >> /\ Head(c.todo).kind = "password"
  \/ c.pc = "reply" /\ Head(c.todo).kind \in {"file", "tis"}

\* Either program goes on as long as it can, the user need not; an alarm that
\* is set goes off.
FairSpec ==
  /\ Spec
  /\ WF_vars(ClientStep /\ ~Prompting) /\ WF_vars(ServerStep) /\ WF_vars(GraceAlarm)
=============================================================================
