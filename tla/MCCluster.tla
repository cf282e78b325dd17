----------------------------- MODULE MCCluster -----------------------------
(* Instances of Cluster for TLC: two servers, and tables in which either   *)
(* one, or both, serve the slots.                                          *)
EXTENDS Cluster

MCServers == {"a", "b"}
MCTables == {[s \in Slots |-> hosts] : hosts \in {<<"a">>, <<"b">>, <<"b", "a">>}}

\* For the run with two commands.
MCTwoTables == {[s \in Slots |-> hosts] : hosts \in {<<"a">>, <<"b", "a">>}}
=============================================================================
