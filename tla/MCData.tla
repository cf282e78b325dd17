------------------------------- MODULE MCData -------------------------------
(***************************************************************************)
(* The data the cluster client computes with, for TLC: keys and their      *)
(* slots, names of servers, and the slot table.  The three share nothing,  *)
(* so a behaviour explores one of them.                                    *)
(*                                                                         *)
(* Keys of every byte, and longer ones of the two braces and two letters.  *)
(* Addresses of '1', '.', ' ' and ':', with the ports at which the number  *)
(* of digits changes.  Three slots; ranges that begin before the first and *)
(* end after the last one; endpoints that are missing, unknown, or have a  *)
(* bad port.                                                               *)
(***************************************************************************)
EXTENDS SlotHash, NameCodec, SlotMap

AllBytes == 0 .. 255
Braces   == {97, 98, OpenBrace, CloseBrace}

AddressChars == {49, 46, 32, Colon}
BorderPorts  == {0, 1, 9, 10, 99, 100, 999, 1000, 9999, 10000, 65535}

MCPeers ==
  { [tcp |-> TRUE, host |-> "c", source |-> ""],
    [tcp |-> TRUE, host |-> "?", source |-> "c"],
    [tcp |-> FALSE, host |-> "c", source |-> "c"] }

A(e, p) == [endpoint |-> e, port |-> p]

MCAddrs ==
  { <<>>,
    <<A("a", 0)>>,
    <<A("a", 0), A("b", 0), A("a", 1)>>,
    <<A("b", 1), A("nil", 0), A("?", 0)>>,
    <<A("", 1), A("a", 2), A("other", 0), A("b", -1)>> }

MCNodes ==
  [ok : {TRUE}, from : -1 .. 3, to : -1 .. 3, addrs : MCAddrs]
    \cup {[ok |-> FALSE, from |-> 0, to |-> 1, addrs |-> <<>>]}

MCSeed == [ip |-> "a", port |-> 0]

vars == <<key, ip, port, mapVars>>

Init == KeyInit /\ NameInit /\ MapInit

\* Which of the three a behaviour is about; ports and peers differ initially.
APort == CHOOSE p \in Ports : TRUE
APeer == CHOOSE p \in Peers : TRUE
NoKey  == key = <<>>
NoAddr == ip = <<>> /\ port = APort
NoMap  == ~fresh /\ slots_ = Cleared /\ removed = {} /\ peer = APeer

Next ==
  \/ NoAddr /\ NoMap /\ KeyNext /\ UNCHANGED <<ip, port, mapVars>>
  \/ NoKey /\ NoMap /\ NameNext /\ UNCHANGED <<key, mapVars>>
  \/ NoKey /\ NoAddr /\ MapNext /\ UNCHANGED <<key, ip, port>>

Spec == Init /\ [][Next]_vars
=============================================================================
