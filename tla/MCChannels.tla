----------------------------- MODULE MCChannels -----------------------------
(***************************************************************************)
(* The instances on which TLC checks Channels and the properties of        *)
(* ChannelProperties.                                                      *)
(***************************************************************************)
EXTENDS ChannelProperties

-----------------------------------------------------------------------------
(* Instances.                                                              *)

\* A port forwarded to the client's side, and X11.
ListenServer == [client |-> << >>,
                 server |-> <<[type |-> "X11_LISTENER", target |-> NoTarget],
                              [type |-> "PORT_LISTENER", target |-> "host"]>>]
\* Two ports forwarded to the server's side, and the agent.
ListenBoth  == [client |-> [i \in 1 .. 2 |-> [type |-> "PORT_LISTENER", target |-> "host"]],
                server |-> <<[type |-> "AUTH_LISTENER", target |-> NoTarget]>>]
ServerWrites == [client |-> 0, server |-> 1]
BothWrite    == [client |-> 1, server |-> 1]
BothWrite2   == [client |-> 2, server |-> 2]

\* A bound on the tables with two connections: data are read in the first
\* connection only, and from then on the client listens and the server has no
\* part in the second.
OneWriter ==
  \A e \in Ends :
    /\ hist[2][e].read = 0
    /\ hist[1][e].read > 0 =>
         /\ \E i \in DOMAIN tbl["client"] : tbl["client"][i].type = "PORT_LISTENER"
         /\ \A i \in DOMAIN tbl["server"] : tbl["server"][i].inst # 2
=============================================================================
