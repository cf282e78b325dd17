------------------------------ MODULE SlotMap ------------------------------
(***************************************************************************)
(* The slot table of the cluster client (happ_cluster.cpp, slots_): which  *)
(* servers hold each slot, the master first, and the ways in which the     *)
(* client changes it: the ranges of a CLUSTER SLOTS reply, a MOVED reply,  *)
(* a connection that is lost, reset().  What else these handlers do, to    *)
(* commands and connections, is the subject of Cluster.                    *)
(*                                                                         *)
(* A server is its address and port (NameCodec: they determine the name).  *)
(* Each prefix of a reply is a reply, so the loop over its ranges is one   *)
(* step per range.                                                         *)
(***************************************************************************)
EXTENDS SlotTable

CONSTANTS
  PortMax,            \* 65535
  Ips,                \* addresses of servers
  Peers,              \* contexts a reply may come from
  Nodes,              \* what a reply may hold, one entry per range
  MaxNodes            \* bound: the entries of a reply

Servers == [ip : Ips \cup {"?"}, port : 0 .. PortMax]

\* An endpoint is a string or not ("nil", "other"); -1 stands for any port
\* that is negative or no integer.
Addresses == [endpoint : Ips \cup {"", "?", "nil", "other"}, port : -1 .. PortMax + 1]

\* An entry is well formed or skipped.
IsNode(n) ==
  /\ n.ok \in BOOLEAN
  /\ n.from \in Int /\ n.to \in Int
  /\ n.addrs \in Seq(Addresses)

ASSUME SlotMapAssumption ==
  /\ PortMax \in Nat /\ MaxNodes \in Nat
  /\ Ips \cap {"", "?", "nil", "other"} = {}
  /\ Peers \subseteq [tcp : BOOLEAN, host : Ips \cup {"", "?"}, source : Ips \cup {"", "?"}]
  /\ \A n \in Nodes : IsNode(n)
  /\ Seed \in Servers

VARIABLES
  slots_,             \* the servers of each slot, master first
  peer, reply,        \* the last reply and where it came from
  fresh,              \* nothing but that reply has changed the table
  removed             \* the server just removed, if any

mapVars == <<slots_, peer, reply, fresh, removed>>

-----------------------------------------------------------------------------
Known(text) == text \notin {"", "?"}

\* The address a reply without one refers to: that of its own connection.
PeerIp(p) ==
  IF ~p.tcp THEN ""
  ELSE IF Known(p.host) THEN p.host
  ELSE IF Known(p.source) THEN p.source ELSE ""

\* The server an address names, as a sequence of one or none.
pick_cluster_endpoint_from_reply(p, addr) ==
  LET ip == IF addr.endpoint \in {"", "nil"} THEN PeerIp(p) ELSE addr.endpoint
      ok == addr.endpoint \notin {"?", "other"} /\ ip # "" /\ addr.port \in 0 .. PortMax
  IN IF ok THEN <<[ip |-> ip, port |-> addr.port]>> ELSE <<>>

HostsOf(p, node) ==
  FlattenSeq([j \in DOMAIN node.addrs |-> pick_cluster_endpoint_from_reply(p, node.addrs[j])])

\* Mutant: the end of a range is clamped one slot late, and cut off.
update_range_open(table, p, node) ==
  LET si == IF node.from < 0 THEN 0 ELSE node.from
      ei == IF node.to > SlotCount THEN SlotCount - 1 ELSE node.to - 1
  IN [s \in Slots |-> IF node.ok /\ s \in si .. ei THEN HostsOf(p, node) ELSE table[s]]

\* One turn of the loop of on_reply_update_slot.
update_range(table, p, node) ==
  LET si == IF node.from < 0 THEN 0 ELSE node.from
      ei == IF node.to >= SlotCount THEN SlotCount - 1 ELSE node.to
  IN [s \in Slots |-> IF node.ok /\ s \in si .. ei THEN HostsOf(p, node) ELSE table[s]]

-----------------------------------------------------------------------------
MapInit ==
  /\ slots_ = Cleared
  /\ peer \in Peers /\ reply = <<>> /\ fresh = FALSE
  /\ removed = {}

\* A CLUSTER SLOTS reply arrives: the table is cleared ...
LoadBegin(p) ==
  /\ slots_' = Cleared
  /\ peer' = p /\ reply' = <<>> /\ fresh' = TRUE
  /\ removed' = {}

\* ... and filled.
LoadRange(node) ==
  /\ fresh /\ Len(reply) < MaxNodes
  /\ slots_' = update_range(slots_, peer, node)
  /\ reply' = Append(reply, node)
  /\ UNCHANGED <<peer, fresh, removed>>

\* Any other change: what the last reply said is no longer kept.
Change(table) ==
  /\ slots_' = table
  /\ reply' = <<>> /\ fresh' = FALSE
  /\ UNCHANGED peer

\* MOVED: the slot has one known server.  "?" is taken as it is.
Moved(i, k) == Change([slots_ EXCEPT ![i] = <<k>>]) /\ removed' = {}

\* A connection is lost, or its context refuses a command.
LoseServer(k) == Change(remove_connection_key(slots_, k)) /\ removed' = {k}

\* reset()
Clear == Change(Cleared) /\ removed' = {}

MapNext ==
  \/ \E p \in Peers : LoadBegin(p)
  \/ \E n \in Nodes : LoadRange(n)
  \/ \E k \in Servers : LoseServer(k) \/ \E i \in Slots : Moved(i, k)
  \/ Clear

MapSpec == MapInit /\ [][MapNext]_mapVars

-----------------------------------------------------------------------------
\* Whether an address names a server: its own, or that of the peer.
Names(p, addr) ==
  /\ 0 <= addr.port /\ addr.port <= PortMax
  /\ \/ addr.endpoint \in Ips
     \/ addr.endpoint \in {"", "nil"} /\ p.tcp /\ {p.host, p.source} \cap Ips # {}

IpOf(p, addr) ==
  IF addr.endpoint \in Ips THEN addr.endpoint
  ELSE IF p.host \in Ips THEN p.host ELSE p.source

ServerOf(p, addr) == [ip |-> IpOf(p, addr), port |-> addr.port]

\* The servers that addrs name in a reply of p, in their order.
Lists(p, hosts, addrs) ==
  LET named == {j \in DOMAIN addrs : Names(p, addrs[j])} IN
  /\ Len(hosts) = Cardinality(named)
  /\ \A j \in named : hosts[Cardinality({i \in named : i <= j})] = ServerOf(p, addrs[j])

\* After on_reply_update_slot a slot has the servers that the last entry whose
\* range holds the slot names, in the order of the reply, and no server if
\* there is none: clamping, skipped entries and unknown endpoints neither shift
\* a range nor leak a server into another slot, nor an old one into the new table.
SlotsFollowReply ==
  fresh => \A s \in Slots :
    LET holds == {n \in DOMAIN reply : reply[n].ok /\ reply[n].from <= s /\ s <= reply[n].to}
    IN Lists(peer, slots_[s], IF holds = {} THEN <<>> ELSE reply[Max(holds)].addrs)

\* "remove the invalid connection, so this connection will not be selected
\* next time" (happ_cluster.cpp:394): whichever slot is asked for and whichever
\* is drawn, get_slot_master does not answer the server just removed, unless it
\* is the seed.  It rests on a range never naming one server twice.
RemovedIsNotSelected ==
  \A k \in removed \ {Seed} : \A i \in Slots \cup {-1}, r \in Slots :
    get_slot_master(slots_, i, r) # k

=============================================================================
