------------------------------- MODULE MCServers -------------------------------
(***************************************************************************)
(* Instances of Servers for TLC: one client, and two of them.              *)
(***************************************************************************)
EXTENDS Servers

OneClient  == [clients |-> {"c1"}, commands |-> 5, unread |-> 2]
TwoClients == [clients |-> {"c1", "c2"}, commands |-> 2, unread |-> 1]
================================================================================
